----------------------------- MODULE NodeProofs -----------------------------
(***************************************************************************)
(* Proofs about the parts of a node that face its peers, for any number of *)
(* peers, connections and addresses, and about its mempools, for any       *)
(* transactions and operations.                                            *)
(***************************************************************************)
EXTENDS Peers, ColdStart, TxRelay, Sync, Mempool, Inductions, FiniteSetTheorems, SequenceTheorems, TLAPS

-----------------------------------------------------------------------------
(***************************************************************************)
(* Peers: a connection that is not registered yet still has the address it *)
(* was dialed at, and a reserved address is lost or is the one that a live *)
(* connection will release.  The second part alone is not inductive: an    *)
(* early return gives the dialed address up, and not the one to release.   *)
(***************************************************************************)
SlotRecord ==
    [pc : {"dialing", "start", "handshake", "open"}, remote : Remote,
     dialed : Address \cup {NoAddr}, listen : Address \cup {NoAddr}]

PeersType ==
    /\ \A s \in Slot : conn[s].pc # "free" => conn[s] \in SlotRecord
    /\ \A s \in Slot : conn[s].pc = "free" => conn[s] = FreeSlot
    /\ conn = [s \in Slot |-> conn[s]]
    /\ connected \subseteq Address

ListenIsDialed ==
    \A s \in Slot : conn[s].pc \in {"dialing", "start", "handshake"} => conn[s].listen = conn[s].dialed

HeldOrLost ==
    \A a \in connected : a \in lost \/ \E s \in Slot : conn[s].pc # "free" /\ conn[s].listen = a

PeersInv == PeersType /\ ListenIsDialed /\ HeldOrLost

LEMMA PeersInitInv == PeersInit => PeersInv
  BY DEF PeersInit, PeersInv, PeersType, ListenIsDialed, HeldOrLost, FreeSlot

(***************************************************************************)
(* A slot is set to a new connection, freed, or changed in place.          *)
(***************************************************************************)
LEMMA SlotBegins ==
    ASSUME PeersInv, NEW s \in Slot, conn[s] = FreeSlot, NEW r \in Remote,
           NEW a \in Address \cup {NoAddr}, NEW pc \in {"dialing", "start"}, Begin(s, pc, r, a),
           connected' = connected \cup ({a} \ {NoAddr}), lost \subseteq lost' \cup {a}
    PROVE  PeersInv'
  <1>1. /\ conn'[s] = [pc |-> pc, remote |-> r, dialed |-> a, listen |-> a]
        /\ \A t \in Slot : t # s => conn'[t] = conn[t]
        /\ conn' = [t \in Slot |-> conn'[t]]
    BY DEF PeersInv, PeersType, Begin
  <1>2. PeersType'
    BY <1>1 DEF PeersInv, PeersType, SlotRecord
  <1>3. ListenIsDialed'
    BY <1>1 DEF PeersInv, ListenIsDialed
  <1>4. HeldOrLost'
    BY <1>1 DEF PeersInv, HeldOrLost, FreeSlot
  <1> QED BY <1>2, <1>3, <1>4 DEF PeersInv

LEMMA SlotFreed ==
    ASSUME PeersInv, NEW s \in Slot, conn[s].pc # "free",
           conn' = [conn EXCEPT ![s] = FreeSlot],
           \/ connected' = connected \ {conn[s].listen} /\ lost' = lost
           \/ connected' = connected /\ lost' = lost \cup ({conn[s].listen} \ {NoAddr})
    PROVE  PeersInv'
  <1>1. /\ conn'[s] = FreeSlot
        /\ \A t \in Slot : t # s => conn'[t] = conn[t]
        /\ conn' = [t \in Slot |-> conn'[t]]
    BY DEF PeersInv, PeersType
  <1>2. PeersType'
    BY <1>1 DEF PeersInv, PeersType, FreeSlot
  <1>3. ListenIsDialed'
    BY <1>1 DEF PeersInv, ListenIsDialed, FreeSlot
  <1>4. HeldOrLost'
    <2>1. NoAddr \notin connected
      BY PeersAssumption DEF PeersInv, PeersType
    <2> QED BY <1>1, <2>1 DEF PeersInv, HeldOrLost
  <1> QED BY <1>2, <1>3, <1>4 DEF PeersInv

LEMMA SlotMoves ==
    ASSUME PeersInv, NEW s \in Slot, NEW from, from # "free", conn[s].pc = from,
           NEW pc \in {"start", "handshake", "open"},
           conn' = [conn EXCEPT ![s].pc = pc],
           from \in {"dialing", "start", "handshake"},
           connected' = connected, lost' = lost
    PROVE  PeersInv'
  <1>1. conn[s] \in SlotRecord
    BY DEF PeersInv, PeersType
  <1>2. /\ conn'[s] = [conn[s] EXCEPT !.pc = pc]
        /\ \A t \in Slot : t # s => conn'[t] = conn[t]
        /\ conn' = [t \in Slot |-> conn'[t]]
    BY DEF PeersInv, PeersType
  <1>3. /\ conn'[s] \in SlotRecord /\ conn'[s].pc = pc
        /\ conn'[s].listen = conn[s].listen /\ conn'[s].dialed = conn[s].dialed
    BY <1>1, <1>2 DEF SlotRecord
  <1>4. PeersType'
    BY <1>2, <1>3 DEF PeersInv, PeersType
  <1>5. ListenIsDialed'
    BY <1>2, <1>3 DEF PeersInv, ListenIsDialed
  <1>6. HeldOrLost'
    BY <1>2, <1>3 DEF PeersInv, HeldOrLost
  <1> QED BY <1>4, <1>5, <1>6 DEF PeersInv

LEMMA HelloKeeps ==
    ASSUME PeersInv, NEW s \in Slot, NEW a \in Address, OnHello(s, a)
    PROVE  PeersInv'
  <1>1. conn[s] \in SlotRecord
    BY DEF OnHello, PeersInv, PeersType
  <1>2. /\ conn'[s] = [conn[s] EXCEPT !.listen = a]
        /\ \A t \in Slot : t # s => conn'[t] = conn[t]
        /\ conn' = [t \in Slot |-> conn'[t]]
    BY DEF OnHello, PeersInv, PeersType
  <1>3. conn'[s] \in SlotRecord /\ conn'[s].pc = "open" /\ conn'[s].listen = a
    BY <1>1, <1>2 DEF SlotRecord, OnHello
  <1>4. PeersType'
    BY <1>2, <1>3 DEF PeersInv, PeersType, OnHello
  <1>5. ListenIsDialed'
    BY <1>2, <1>3 DEF PeersInv, ListenIsDialed
  <1>6. HeldOrLost'
    <2>1. NoAddr \notin connected
      BY PeersAssumption DEF PeersInv, PeersType
    <2> QED BY <1>2, <1>3, <2>1 DEF PeersInv, HeldOrLost, OnHello
  <1> QED BY <1>4, <1>5, <1>6 DEF PeersInv

LEMMA PeersStep == PeersInv /\ [PeersNext]_peerVars => PeersInv'
  <1> SUFFICES ASSUME PeersInv, [PeersNext]_peerVars PROVE PeersInv'
    OBVIOUS
  <1>1. ASSUME NEW s \in Slot, NEW r \in Remote, Dial(s, r) \/ ConnectTo(s, r) \/ Accept(s, r)
        PROVE  PeersInv'
    <2>1. ListenAt[r] \in Address /\ ListenAt[r] # NoAddr
      BY PeersAssumption DEF Address
    <2>2. CASE Dial(s, r)
      BY <2>1, <2>2, SlotBegins DEF Dial
    <2>3. CASE ConnectTo(s, r)
      BY <2>1, <2>3, SlotBegins DEF ConnectTo
    <2>4. CASE Accept(s, r)
      BY <2>4, SlotBegins DEF Accept
    <2> QED BY <1>1, <2>2, <2>3, <2>4
  <1>2. ASSUME NEW s \in Slot, DialFails(s) \/ DropEarly(s) \/ CloseConn(s) \/ Ban(s)
        PROVE  PeersInv'
    <2>1. conn[s].pc # "free"
      BY <1>2 DEF DialFails, DropEarly, CloseConn, Ban
    <2>2. CASE DialFails(s)
      BY <2>1, <2>2, SlotFreed DEF DialFails, ReleaseFailed, PeersInv, ListenIsDialed
    <2>3. CASE DropEarly(s)
      BY <2>1, <2>3, SlotFreed DEF DropEarly, PeersInv, ListenIsDialed
    <2>4. CASE CloseConn(s) \/ Ban(s)
      BY <2>1, <2>4, SlotFreed DEF CloseConn, Ban, Release
    <2> QED BY <1>2, <2>2, <2>3, <2>4
  <1>3. ASSUME NEW s \in Slot, DialSucceeds(s) \/ StartHandshake(s) \/ Register(s)
        PROVE  PeersInv'
    BY <1>3, SlotMoves DEF DialSucceeds, StartHandshake, Register
  <1>4. ASSUME NEW s \in Slot, NEW a \in Address, OnHello(s, a) \/ OnAddr(s, a)
        PROVE  PeersInv'
    <2>1. CASE OnAddr(s, a)
      BY <2>1 DEF OnAddr, PeersInv, PeersType, ListenIsDialed, HeldOrLost
    <2> QED BY <1>4, <2>1, HelloKeeps
  <1>5. ASSUME NEW r \in Remote, IpBanExpires(r)
        PROVE  PeersInv'
    BY <1>5 DEF IpBanExpires, PeersInv, PeersType, ListenIsDialed, HeldOrLost
  <1>6. CASE UNCHANGED peerVars
    BY <1>6 DEF peerVars, PeersInv, PeersType, ListenIsDialed, HeldOrLost
  <1> QED BY <1>1, <1>2, <1>3, <1>4, <1>5, <1>6 DEF PeersNext

(***************************************************************************)
(* An address that stays reserved without a connection was lost by an      *)
(* early return of `handle_conn` or by a Hello that named another one, in  *)
(* every order of dials, handshakes, bans and ends of connections.         *)
(***************************************************************************)
THEOREM ReservationsAccounted == PeersSpec => []ReservationsExplained
  <1>1. PeersSpec => []PeersInv
    BY PeersInitInv, PeersStep, PTL DEF PeersSpec
  <1>2. PeersInv => ReservationsExplained
    BY DEF PeersInv, HeldOrLost, ReservationsExplained, LiveSlots, FreeSlot
  <1> QED BY <1>1, <1>2, PTL

-----------------------------------------------------------------------------
(***************************************************************************)
(* ColdStart: a wrong ledger is awaited, or a thread has yet to set the    *)
(* flag.  Importing(p) is too weak for an induction: the multi-level       *)
(* handler still imports after it has set the flag, and another thread may *)
(* have cleared that since.                                                *)
(***************************************************************************)
ImporterType ==
    /\ importer = [p \in Server |-> importer[p]]
    /\ \A p \in Server : importer[p] = [pc |-> importer[p].pc] \/ importer[p] = [pc |-> importer[p].pc, m |-> importer[p].m]
    /\ \A p \in Server : importer[p] = [pc |-> importer[p].pc] => importer[p].pc = "read"

YetToExpect(p) ==
    \/ importer[p].pc \in {"best", "point", "ledger"}
    \/ importer[p].pc = "unexpect" /\ importer[p].m.t = "linear"

LedgerOwed == ledgerOf # statePoint => expectingLedger \/ \E p \in Server : YetToExpect(p)

ColdInv == ImporterType /\ LedgerOwed

LEMMA ColdInitInv == ColdInit => ColdInv
  BY DEF ColdInit, ColdInv, ImporterType, LedgerOwed, Waiting

(***************************************************************************)
(* One thread goes on in its handler, or ends it; the others stay.         *)
(***************************************************************************)
LEMMA ImporterGoes ==
    ASSUME ColdInv, NEW p \in Server, NEW pc, Goto(p, pc), importer[p].pc # "read"
    PROVE  /\ ImporterType'
           /\ importer'[p] = [pc |-> pc, m |-> importer[p].m]
           /\ \A q \in Server : q # p => importer'[q] = importer[q]
  <1>1. importer[p] = [pc |-> importer[p].pc, m |-> importer[p].m]
    BY DEF ColdInv, ImporterType
  <1>2. importer'[p] = [pc |-> pc, m |-> importer[p].m]
    BY <1>1 DEF ColdInv, ImporterType, Goto
  <1>3. \A q \in Server : q # p => importer'[q] = importer[q]
    BY DEF ColdInv, ImporterType, Goto
  <1>4. importer' = [q \in Server |-> importer'[q]]
    BY DEF ColdInv, ImporterType, Goto
  <1> QED BY <1>2, <1>3, <1>4 DEF ColdInv, ImporterType

LEMMA ImporterEnds ==
    ASSUME ColdInv, NEW p \in Server, EndHandler(p)
    PROVE  /\ ImporterType'
           /\ importer'[p] = [pc |-> "read"]
           /\ \A q \in Server : q # p => importer'[q] = importer[q]
  BY DEF ColdInv, ImporterType, EndHandler, Waiting

(***************************************************************************)
(* A step of a thread that owes nothing, before or after, and that leaves  *)
(* the ledger, the tip and the flag alone.                                 *)
(***************************************************************************)
LEMMA NothingOwedNew ==
    ASSUME ColdInv, NEW p \in Server, ImporterType',
           \A q \in Server : q # p => importer'[q] = importer[q],
           YetToExpect(p) => YetToExpect(p)',
           UNCHANGED <<ledgerOf, statePoint, expectingLedger>>
    PROVE  ColdInv'
  BY DEF ColdInv, LedgerOwed, YetToExpect

LEMMA ColdStep == ColdInv /\ [ColdNext]_coldVars => ColdInv'
  <1> SUFFICES ASSUME ColdInv, [ColdNext]_coldVars PROVE ColdInv'
    OBVIOUS
  <1> USE DEF flags, chainPart
  <1>1. CASE RequestPruningProof
    BY <1>1 DEF RequestPruningProof, ColdInv, ImporterType, LedgerOwed, YetToExpect
  <1>2. ASSUME NEW p \in Server, ServerPrunes(p)
        PROVE  ColdInv'
    BY <1>2 DEF ServerPrunes, ColdInv, ImporterType, LedgerOwed, YetToExpect
  <1>3. ASSUME NEW p \in Server, ReadProof(p)
        PROVE  ColdInv'
    <2>1. CASE expectingProof
      <3>1. /\ importer'[p] = [pc |-> "fresh", m |-> Head(replies[p])]
            /\ \A q \in Server : q # p => importer'[q] = importer[q]
            /\ importer' = [q \in Server |-> importer'[q]]
        BY <1>3, <2>1 DEF ReadProof, ColdInv, ImporterType
      <3>2. ImporterType'
        BY <3>1 DEF ColdInv, ImporterType
      <3>3. ~YetToExpect(p)
        BY <1>3 DEF ReadProof, InStep, YetToExpect
      <3> QED BY <1>3, <3>1, <3>2, <3>3, NothingOwedNew DEF ReadProof
    <2>2. CASE ~expectingProof
      BY <1>3, <2>2 DEF ReadProof, ColdInv, ImporterType, LedgerOwed, YetToExpect
    <2> QED BY <2>1, <2>2
  <1>4. ASSUME NEW p \in Server, CheckFreshness(p) \/ Compare(p)
        PROVE  ColdInv'
    <2>1. importer[p].pc # "read" /\ ~YetToExpect(p) /\ UNCHANGED <<ledgerOf, statePoint, expectingLedger>>
      BY <1>4 DEF CheckFreshness, Compare, InStep, YetToExpect
    <2>2. EndHandler(p) \/ \E pc : Goto(p, pc)
      BY <1>4 DEF CheckFreshness, Compare
    <2> QED BY <2>1, <2>2, ImporterGoes, ImporterEnds, NothingOwedNew
  <1>5. ASSUME NEW p \in Server, ImportHeaders(p)
        PROVE  ColdInv'
    <2>1. ImporterType' /\ importer'[p] = [pc |-> "best", m |-> importer[p].m]
      BY <1>5, ImporterGoes DEF ImportHeaders, InStep
    <2> QED BY <2>1 DEF ColdInv, LedgerOwed, YetToExpect
  <1>6. ASSUME NEW p \in Server, RecordBest(p)
        PROVE  ColdInv'
    <2>1. importer[p].pc # "read" /\ Goto(p, IF importer[p].m.t = "linear" THEN "unexpect" ELSE "point")
      BY <1>6 DEF RecordBest, InStep, ItsProof
    <2>2. /\ ImporterType'
          /\ importer'[p] = [pc |-> IF importer[p].m.t = "linear" THEN "unexpect" ELSE "point", m |-> importer[p].m]
          /\ \A q \in Server : q # p => importer'[q] = importer[q]
      BY <2>1, ImporterGoes
    <2>3. YetToExpect(p)'
      BY <2>2 DEF YetToExpect
    <2> QED BY <1>6, <2>2, <2>3, NothingOwedNew DEF RecordBest
  <1>7. ASSUME NEW p \in Server, RecordPoint(p)
        PROVE  ColdInv'
    <2>1. /\ ImporterType' /\ importer'[p] = [pc |-> "ledger", m |-> importer[p].m]
          /\ \A q \in Server : q # p => importer'[q] = importer[q]
      BY <1>7, ImporterGoes DEF RecordPoint, InStep
    <2>2. YetToExpect(p)'
      BY <2>1 DEF YetToExpect
    <2> QED BY <1>7, <2>1, <2>2, NothingOwedNew DEF RecordPoint
  <1>8. ASSUME NEW p \in Server, ExpectLedger(p)
        PROVE  ColdInv'
    BY <1>8, ImporterGoes DEF ExpectLedger, InStep, ColdInv, LedgerOwed
  <1>9. ASSUME NEW p \in Server, Unexpect(p)
        PROVE  ColdInv'
    <2>1. importer[p].pc = "unexpect" /\ Goto(p, IF importer[p].m.t = "linear" THEN "point" ELSE "send")
      BY <1>9 DEF Unexpect, InStep, ItsProof
    <2>2. /\ ImporterType'
          /\ importer'[p] = [pc |-> IF importer[p].m.t = "linear" THEN "point" ELSE "send", m |-> importer[p].m]
          /\ \A q \in Server : q # p => importer'[q] = importer[q]
      BY <2>1, ImporterGoes
    <2>3. YetToExpect(p) => YetToExpect(p)'
      BY <2>1, <2>2 DEF YetToExpect
    <2> QED BY <1>9, <2>2, <2>3, NothingOwedNew DEF Unexpect
  <1>10. ASSUME NEW p \in Server, AskForLedger(p)
         PROVE  ColdInv'
    <2>1. ~YetToExpect(p)
      BY <1>10 DEF AskForLedger, InStep, YetToExpect
    <2> QED BY <1>10, <2>1, ImporterEnds, NothingOwedNew DEF AskForLedger
  <1>11. ASSUME NEW p \in Server, OnLedger(p)
         PROVE  ColdInv'
    <2>1. ImporterType'
      BY <1>11 DEF OnLedger, ColdInv, ImporterType
    <2>2. LedgerOwed'
      BY <1>11 DEF OnLedger, Matches, ColdInv, LedgerOwed, YetToExpect
    <2> QED BY <2>1, <2>2 DEF ColdInv
  <1>12. CASE UNCHANGED coldVars
    BY <1>12 DEF coldVars, ColdInv, ImporterType, LedgerOwed, YetToExpect
  <1> QED BY <1>1, <1>2, <1>3, <1>4, <1>5, <1>6, <1>7, <1>8, <1>9, <1>10, <1>11, <1>12 DEF ColdNext

(***************************************************************************)
(* A node that imported headers never takes a ledger of another pruning    *)
(* point for the right one, for any number of peers whose handlers         *)
(* interleave and whose pruning points move on.                            *)
(***************************************************************************)
THEOREM LedgerNeverMistaken == ColdSpec => []WrongLedgerIsKnown
  <1>1. ColdSpec => []ColdInv
    BY ColdInitInv, ColdStep, PTL DEF ColdSpec
  <1>2. ColdInv => WrongLedgerIsKnown
    BY DEF ColdInv, LedgerOwed, YetToExpect, WrongLedgerIsKnown, Importing
  <1> QED BY <1>1, <1>2, PTL
-----------------------------------------------------------------------------
(***************************************************************************)
(* The relay of transactions.  A transaction that was announced is known,  *)
(* unwanted, missed for a reason, or in full on its way; a pull has its    *)
(* question or its answer on the way, or its connection was lost.          *)
(***************************************************************************)
RelayMessage == [t : {"inv", "tx", "get", "notfound"}, x : RelayTx]

RelayType ==
    /\ txPool \in [RelayNode -> SUBSET RelayTx]
    /\ announced \in [RelayNode -> SUBSET RelayTx]
    /\ snapshot \in [RelayNode -> [busy : BOOLEAN, current : SUBSET RelayTx]]
    /\ pulls \in [RelayNode -> SUBSET RelayTx]
    /\ wire \in [Pair -> Seq(RelayMessage)]
    /\ links \subseteq Pair
    /\ heard \in [RelayNode -> SUBSET RelayTx]
    /\ missed \subseteq RelayNode \X RelayNode \X RelayTx

PoolsFinite == \A n \in RelayNode : IsFiniteSet(txPool[n])

On(w, k, t) == \E i \in 1..Len(w) : w[i] = [t |-> k, x |-> t]

ReadThenThere ==
    \A n \in RelayNode : \A t \in snapshot[n].current \ announced[n] :
        t \in txPool[n] \/ \A m \in RelayNode : <<n, m, t>> \in missed

ToldOrExplained ==
    \A n, m \in RelayNode : <<n, m>> \in links =>
        \A t \in announced[n] :
            t \in heard[m] \/ ~Listens(m, t) \/ <<n, m, t>> \in missed \/ On(wire[<<n, m>>], "tx", t)

UnderWay(n, m, t) ==
    /\ <<m, n>> \in links
    /\ On(wire[<<n, m>>], "get", t) \/ On(wire[<<m, n>>], "tx", t) \/ On(wire[<<m, n>>], "notfound", t)

PullsUnderWay ==
    \A n \in RelayNode : \A t \in pulls[n] : \E m \in RelayNode : <<m, n, t>> \in missed \/ UnderWay(n, m, t)

RelayInv == RelayType /\ PoolsFinite /\ ReadThenThere /\ ToldOrExplained /\ PullsUnderWay

LEMMA OnAppend ==
    ASSUME NEW w \in Seq(RelayMessage), NEW y \in RelayMessage, NEW k, NEW t
    PROVE  /\ Append(w, y) \in Seq(RelayMessage)
           /\ On(w, k, t) => On(Append(w, y), k, t)
           /\ y = [t |-> k, x |-> t] => On(Append(w, y), k, t)
  <1>1. /\ Len(Append(w, y)) = Len(w) + 1 /\ Append(w, y)[Len(w) + 1] = y /\ Len(w) \in Nat
        /\ \A i \in 1..Len(w) : Append(w, y)[i] = w[i]
        /\ Append(w, y) \in Seq(RelayMessage)
    BY AppendProperties
  <1>2. Len(w) + 1 \in 1..Len(Append(w, y)) /\ \A i \in 1..Len(w) : i \in 1..Len(Append(w, y))
    BY <1>1
  <1> QED BY <1>1, <1>2 DEF On

LEMMA OnTail ==
    ASSUME NEW w \in Seq(RelayMessage), w # <<>>, NEW k, NEW t, On(w, k, t)
    PROVE  On(Tail(w), k, t) \/ Head(w) = [t |-> k, x |-> t]
  <1>1. /\ Len(Tail(w)) = Len(w) - 1 /\ Head(w) = w[1] /\ Len(w) \in Nat
        /\ \A i \in 1..Len(Tail(w)) : Tail(w)[i] = w[i + 1]
    BY HeadTailProperties
  <1>2. PICK i \in 1..Len(w) : w[i] = [t |-> k, x |-> t]
    BY DEF On
  <1>3. CASE i = 1
    BY <1>1, <1>2, <1>3
  <1>4. CASE i # 1
    <2>1. i - 1 \in 1..Len(Tail(w)) /\ (i - 1) + 1 = i
      BY <1>1, <1>4
    <2>2. Tail(w)[i - 1] = w[i]
      BY <1>1, <2>1
    <2> QED BY <1>2, <2>1, <2>2 DEF On
  <1> QED BY <1>3, <1>4

LEMMA OnConcat ==
    ASSUME NEW w \in Seq(RelayMessage), NEW v \in Seq(RelayMessage), NEW k, NEW t
    PROVE  /\ w \o v \in Seq(RelayMessage)
           /\ On(w, k, t) => On(w \o v, k, t)
           /\ On(v, k, t) => On(w \o v, k, t)
  <1>1. /\ Len(w \o v) = Len(w) + Len(v) /\ Len(w) \in Nat /\ Len(v) \in Nat
        /\ \A i \in 1..Len(w) + Len(v) : (w \o v)[i] = IF i <= Len(w) THEN w[i] ELSE v[i - Len(w)]
        /\ w \o v \in Seq(RelayMessage)
    BY ConcatProperties
  <1>2. ASSUME NEW i \in 1..Len(w) PROVE i \in 1..Len(w \o v) /\ (w \o v)[i] = w[i]
    BY <1>1
  <1>3. ASSUME NEW i \in 1..Len(v) PROVE Len(w) + i \in 1..Len(w \o v) /\ (w \o v)[Len(w) + i] = v[i]
    BY <1>1
  <1> QED BY <1>1, <1>2, <1>3 DEF On

(***************************************************************************)
(* What is pushed for a finite set of transactions has each one in full.   *)
(***************************************************************************)
LEMMA PushesAll ==
    ASSUME NEW S \in SUBSET RelayTx, IsFiniteSet(S)
    PROVE  Pushes(S) \in Seq(RelayMessage) /\ \A t \in S : On(Pushes(S), "tx", t)
  <1> DEFINE c == Cardinality(S)
             Q(s) == {s[i] : i \in DOMAIN s} = S
             order == CHOOSE s \in [1..c -> S] : Q(s)
  <1>1. c \in Nat /\ ExistsBijection(1..c, S)
    BY FS_CardinalityType
  <1>2. \E s \in [1..c -> S] : Q(s)
    <2>1. PICK f : f \in Bijection(1..c, S)
      BY <1>1 DEF ExistsBijection
    <2>2. f \in [1..c -> S] /\ \A y \in S : \E i \in 1..c : f[i] = y
      BY <2>1 DEF Bijection, Injection, Surjection
    <2> QED BY <2>2
  <1>3. order \in [1..c -> S] /\ Q(order)
    BY <1>2
  <1> HIDE DEF order
  <1>4. \A t \in S : \E i \in 1..c : order[i] = t
    BY <1>3
  <1>5. Pushes(S) = [i \in 1 .. 2 * c |-> Push(order[(i + 1) \div 2])[2 - (i % 2)]]
    BY DEF Pushes, order
  <1> HIDE DEF c
  <1>6. ASSUME NEW i \in 1 .. 2 * c PROVE (i + 1) \div 2 \in 1..c /\ 2 - (i % 2) \in 1..2
    BY <1>1
  <1>7. \A t \in RelayTx : /\ Push(t)[1] \in RelayMessage /\ Push(t)[2] \in RelayMessage
                           /\ Push(t)[2] = [t |-> "tx", x |-> t]
    BY DEF Push, RelayMessage
  <1>8. ASSUME NEW i \in 1 .. 2 * c PROVE Push(order[(i + 1) \div 2])[2 - (i % 2)] \in RelayMessage
    <2>1. order[(i + 1) \div 2] \in RelayTx /\ (2 - (i % 2) = 1 \/ 2 - (i % 2) = 2)
      BY <1>3, <1>6
    <2> QED BY <1>7, <2>1
  <1>9. 2 * c \in Nat
    BY <1>1
  <1>10. Pushes(S) \in Seq(RelayMessage) /\ Len(Pushes(S)) = 2 * c
    BY <1>5, <1>8, <1>9
  <1>11. ASSUME NEW t \in S PROVE On(Pushes(S), "tx", t)
    <2>1. PICK i \in 1..c : order[i] = t
      BY <1>4
    <2>2. 2 * i \in 1 .. 2 * c /\ (2 * i + 1) \div 2 = i /\ 2 - ((2 * i) % 2) = 2
      BY <1>1
    <2>3. Pushes(S)[2 * i] = Push(order[(2 * i + 1) \div 2])[2 - ((2 * i) % 2)]
      BY <1>5, <2>2
    <2>4. Pushes(S)[2 * i] = [t |-> "tx", x |-> t]
      BY <1>7, <2>1, <2>2, <2>3
    <2> QED BY <1>10, <2>2, <2>4 DEF On
  <1> QED BY <1>10, <1>11

(***************************************************************************)
(* A step that takes nothing back.                                         *)
(***************************************************************************)
LEMMA ToldKept ==
    ASSUME ToldOrExplained, announced' = announced, \A n \in RelayNode : heard[n] \subseteq heard'[n],
           missed \subseteq missed', links' \subseteq links, RelayType,
           \A n, m \in RelayNode : <<n, m>> \in links' =>
              \A t \in RelayTx : On(wire[<<n, m>>], "tx", t) => On(wire'[<<n, m>>], "tx", t) \/ t \in heard'[m]
    PROVE  ToldOrExplained'
  <1> SUFFICES ASSUME NEW n \in RelayNode, NEW m \in RelayNode, <<n, m>> \in links', NEW t \in announced[n]
               PROVE  t \in heard'[m] \/ ~Listens(m, t) \/ <<n, m, t>> \in missed' \/ On(wire'[<<n, m>>], "tx", t)
    BY DEF ToldOrExplained, Listens
  <1>1. t \in RelayTx
    BY DEF RelayType
  <1>2. t \in heard[m] \/ ~Listens(m, t) \/ <<n, m, t>> \in missed \/ On(wire[<<n, m>>], "tx", t)
    BY DEF ToldOrExplained
  <1> QED BY <1>1, <1>2

LEMMA PullsKept ==
    ASSUME PullsUnderWay, missed \subseteq missed', \A n \in RelayNode : pulls'[n] \subseteq pulls[n],
           \A n, m \in RelayNode : \A t \in pulls'[n] :
              UnderWay(n, m, t) => UnderWay(n, m, t)' \/ <<m, n, t>> \in missed'
    PROVE  PullsUnderWay'
  <1> SUFFICES ASSUME NEW n \in RelayNode, NEW t \in pulls'[n]
               PROVE  \E m \in RelayNode : <<m, n, t>> \in missed' \/ UnderWay(n, m, t)'
    BY DEF PullsUnderWay
  <1>1. PICK m \in RelayNode : <<m, n, t>> \in missed \/ UnderWay(n, m, t)
    BY DEF PullsUnderWay
  <1> QED BY <1>1

LEMMA PairIs ==
    /\ \A a, b \in RelayNode : <<a, b>> \in Pair <=> a # b
    /\ \A p \in Pair : /\ p[1] \in RelayNode /\ p[2] \in RelayNode /\ p[1] # p[2]
                       /\ p = <<p[1], p[2]>> /\ <<p[2], p[1]>> \in Pair
  BY DEF Pair

(***************************************************************************)
(* n takes the first message of m, and may answer with y.                  *)
(***************************************************************************)
Taken(m, n, h) ==
    /\ wire' \in [Pair -> Seq(RelayMessage)]
    /\ \A a, b \in RelayNode : <<a, b>> \in Pair =>
          \A k, t : On(wire[<<a, b>>], k, t) =>
             On(wire'[<<a, b>>], k, t) \/ (a = m /\ b = n /\ h = [t |-> k, x |-> t])

LEMMA MessageTaken ==
    ASSUME RelayType, NEW m \in RelayNode, NEW n \in RelayNode, m # n, wire[<<m, n>>] # <<>>,
           NEW h, h = Head(wire[<<m, n>>]),
           \/ wire' = [wire EXCEPT ![<<m, n>>] = Tail(wire[<<m, n>>])]
           \/ \E y \in RelayMessage :
                 wire' = [wire EXCEPT ![<<m, n>>] = Tail(wire[<<m, n>>]), ![<<n, m>>] = Append(wire[<<n, m>>], y)]
    PROVE  Taken(m, n, h)
  <1>1. /\ <<m, n>> \in Pair /\ <<n, m>> \in Pair /\ <<m, n>> # <<n, m>>
        /\ \A a, b \in RelayNode : <<a, b>> = <<m, n>> => a = m /\ b = n
        /\ wire \in [Pair -> Seq(RelayMessage)]
    BY PairIs DEF RelayType
  <1>2. PICK w \in Seq(RelayMessage), v \in Seq(RelayMessage) : w = wire[<<m, n>>] /\ v = wire[<<n, m>>]
    BY <1>1
  <1>3. Tail(w) \in Seq(RelayMessage) /\ w # <<>> /\ h = Head(w)
    BY <1>2, HeadTailProperties
  <1>4. \A k, t : On(w, k, t) => On(Tail(w), k, t) \/ h = [t |-> k, x |-> t]
    BY <1>3, OnTail
  <1>5. \E v2 \in Seq(RelayMessage) :
           /\ wire' = [wire EXCEPT ![<<m, n>>] = Tail(w), ![<<n, m>>] = v2]
           /\ \A k, t : On(v, k, t) => On(v2, k, t)
    <2>1. CASE wire' = [wire EXCEPT ![<<m, n>>] = Tail(wire[<<m, n>>])]
      <3>1. wire' = [wire EXCEPT ![<<m, n>>] = Tail(w), ![<<n, m>>] = v]
        BY <1>1, <1>2, <1>3, <2>1
      <3> QED BY <3>1
    <2>2. ASSUME NEW y \in RelayMessage,
                 wire' = [wire EXCEPT ![<<m, n>>] = Tail(wire[<<m, n>>]), ![<<n, m>>] = Append(wire[<<n, m>>], y)]
          PROVE  \E v2 \in Seq(RelayMessage) :
                    /\ wire' = [wire EXCEPT ![<<m, n>>] = Tail(w), ![<<n, m>>] = v2]
                    /\ \A k, t : On(v, k, t) => On(v2, k, t)
      <3>1. Append(v, y) \in Seq(RelayMessage) /\ \A k, t : On(v, k, t) => On(Append(v, y), k, t)
        BY OnAppend
      <3>2. wire' = [wire EXCEPT ![<<m, n>>] = Tail(w), ![<<n, m>>] = Append(v, y)]
        BY <1>2, <2>2
      <3> QED BY <3>1, <3>2
    <2> QED BY <2>1, <2>2
  <1>6. PICK v2 \in Seq(RelayMessage) :
           /\ wire' = [wire EXCEPT ![<<m, n>>] = Tail(w), ![<<n, m>>] = v2]
           /\ \A k, t : On(v, k, t) => On(v2, k, t)
    BY <1>5
  <1>7. /\ wire' \in [Pair -> Seq(RelayMessage)] /\ wire'[<<m, n>>] = Tail(w) /\ wire'[<<n, m>>] = v2
        /\ \A p \in Pair : p # <<m, n>> /\ p # <<n, m>> => wire'[p] = wire[p]
    BY <1>1, <1>3, <1>6
  <1>8. ASSUME NEW a \in RelayNode, NEW b \in RelayNode, <<a, b>> \in Pair, NEW k, NEW t, On(wire[<<a, b>>], k, t)
        PROVE  On(wire'[<<a, b>>], k, t) \/ (a = m /\ b = n /\ h = [t |-> k, x |-> t])
    <2>1. CASE <<a, b>> = <<m, n>>
      BY <1>1, <1>2, <1>4, <1>7, <1>8, <2>1
    <2>2. CASE <<a, b>> = <<n, m>>
      BY <1>2, <1>6, <1>7, <1>8, <2>2
    <2>3. CASE <<a, b>> # <<m, n>> /\ <<a, b>> # <<n, m>>
      BY <1>7, <1>8, <2>3
    <2> QED BY <2>1, <2>2, <2>3
  <1> QED BY <1>7, <1>8 DEF Taken

(***************************************************************************)
(* Of what was under way for a pull, only its answer ends.                 *)
(***************************************************************************)
LEMMA TakenKeeps ==
    ASSUME RelayInv, NEW m \in RelayNode, NEW n \in RelayNode, m # n, NEW h, Taken(m, n, h),
           links' = links, announced' = announced, missed' = missed,
           \A a \in RelayNode : heard[a] \subseteq heard'[a],
           h.t = "tx" => h.x \in heard'[n]
    PROVE  /\ ToldOrExplained'
           /\ \A a, b \in RelayNode : \A t : UnderWay(a, b, t) =>
                 \/ UnderWay(a, b, t)'
                 \/ a = m /\ b = n /\ h = [t |-> "get", x |-> t]
                 \/ a = n /\ b = m /\ h = [t |-> "tx", x |-> t]
                 \/ a = n /\ b = m /\ h = [t |-> "notfound", x |-> t]
  <1>0. RelayType /\ ToldOrExplained /\ links \subseteq Pair
    BY DEF RelayInv, RelayType
  <1>1. ASSUME NEW a \in RelayNode, NEW b \in RelayNode, <<a, b>> \in links', NEW t \in RelayTx,
               On(wire[<<a, b>>], "tx", t)
        PROVE  On(wire'[<<a, b>>], "tx", t) \/ t \in heard'[b]
    <2>1. <<a, b>> \in Pair
      BY <1>0, <1>1
    <2>2. On(wire'[<<a, b>>], "tx", t) \/ (b = n /\ h = [t |-> "tx", x |-> t])
      BY <1>1, <2>1 DEF Taken
    <2> QED BY <2>2
  <1>2. ToldOrExplained'
    BY <1>0, <1>1, ToldKept
  <1>3. ASSUME NEW a \in RelayNode, NEW b \in RelayNode, NEW t, UnderWay(a, b, t)
        PROVE  \/ UnderWay(a, b, t)'
               \/ a = m /\ b = n /\ h = [t |-> "get", x |-> t]
               \/ a = n /\ b = m /\ h = [t |-> "tx", x |-> t]
               \/ a = n /\ b = m /\ h = [t |-> "notfound", x |-> t]
    <2>1. <<b, a>> \in links' /\ <<b, a>> \in Pair /\ <<a, b>> \in Pair
      BY <1>0, <1>3, PairIs DEF UnderWay
    <2>2. CASE On(wire[<<a, b>>], "get", t)
      BY <2>1, <2>2 DEF Taken, UnderWay
    <2>3. CASE On(wire[<<b, a>>], "tx", t)
      BY <2>1, <2>3 DEF Taken, UnderWay
    <2>4. CASE On(wire[<<b, a>>], "notfound", t)
      BY <2>1, <2>4 DEF Taken, UnderWay
    <2> QED BY <1>3, <2>2, <2>3, <2>4 DEF UnderWay
  <1> QED BY <1>2, <1>3

LEMMA RelayInitInv == RelayInit => RelayInv
  <1> SUFFICES ASSUME RelayInit PROVE RelayInv
    OBVIOUS
  <1>1. RelayType
    BY DEF RelayInit, RelayType, NoSnapshot
  <1>2. PoolsFinite
    BY FS_EmptySet DEF RelayInit, PoolsFinite
  <1> QED BY <1>1, <1>2 DEF RelayInit, RelayInv, ReadThenThere, ToldOrExplained, PullsUnderWay, NoSnapshot

LEMMA HeadIs ==
    ASSUME RelayType, NEW m \in RelayNode, NEW n \in RelayNode, m # n, NEW k, Reading(m, n, k)
    PROVE  /\ <<m, n>> \in links /\ wire[<<m, n>>] # <<>> /\ wire[<<m, n>>] \in Seq(RelayMessage)
           /\ Head(wire[<<m, n>>]) = [t |-> k, x |-> Incoming(m, n)]
           /\ Incoming(m, n) \in RelayTx /\ wire[<<n, m>>] \in Seq(RelayMessage) /\ <<n, m>> \in Pair
           /\ <<m, n>> \in Pair
  <1>1. <<m, n>> \in Pair /\ <<n, m>> \in Pair /\ wire[<<m, n>>] # <<>> /\ <<m, n>> \in links
    BY PairIs DEF Reading
  <1>2. wire[<<m, n>>] \in Seq(RelayMessage) /\ wire[<<n, m>>] \in Seq(RelayMessage)
    BY <1>1 DEF RelayType
  <1>3. PICK h \in RelayMessage : h = Head(wire[<<m, n>>])
    BY <1>1, <1>2, HeadTailProperties
  <1>4. h.t = k /\ h.x = Incoming(m, n)
    BY <1>3 DEF Reading, Incoming
  <1> QED BY <1>1, <1>2, <1>3, <1>4 DEF RelayMessage

LEMMA GrownIs ==
    ASSUME NEW f \in [RelayNode -> SUBSET RelayTx], NEW n \in RelayNode, NEW t \in RelayTx,
           NEW g, g = [f EXCEPT ![n] = f[n] \cup {t}]
    PROVE  /\ g \in [RelayNode -> SUBSET RelayTx] /\ t \in g[n]
           /\ \A a \in RelayNode : f[a] \subseteq g[a] /\ (g[a] = f[a] \/ g[a] = f[a] \cup {t})
  OBVIOUS

LEMMA ShrunkIs ==
    ASSUME NEW f \in [RelayNode -> SUBSET RelayTx], NEW n \in RelayNode, NEW t \in RelayTx,
           NEW g, g = [f EXCEPT ![n] = f[n] \ {t}]
    PROVE  /\ g \in [RelayNode -> SUBSET RelayTx] /\ t \notin g[n]
           /\ \A a \in RelayNode : /\ g[a] \subseteq f[a] /\ \A u \in f[a] : u \in g[a] \/ (a = n /\ u = t)
                                   /\ g[a] = f[a] \/ g[a] = f[a] \ {t}
  OBVIOUS

LEMMA ReceiveKeeps ==
    ASSUME RelayInv, NEW m \in RelayNode, NEW n \in RelayNode, m # n,
           OnTxInv(m, n) \/ OnGetTx(m, n) \/ OnTx(m, n) \/ OnTxNotFound(m, n)
    PROVE  RelayInv'
  <1>0. RelayType /\ PullsUnderWay /\ ReadThenThere /\ PoolsFinite
    BY DEF RelayInv
  <1>t. PICK t : t = Incoming(m, n)
    OBVIOUS
  <1>h. PICK h : h = Head(wire[<<m, n>>])
    OBVIOUS
  <1>1. CASE OnTxInv(m, n)
    <2>1. /\ <<m, n>> \in links /\ wire[<<m, n>>] # <<>> /\ h = [t |-> "inv", x |-> t] /\ t \in RelayTx
          /\ wire[<<n, m>>] \in Seq(RelayMessage) /\ <<n, m>> \in Pair /\ <<m, n>> \in Pair
      BY <1>0, <1>1, <1>h, <1>t, HeadIs DEF OnTxInv
    <2>2. UNCHANGED <<txPool, announced, snapshot, links, heard, missed>>
      BY <1>1 DEF OnTxInv
    <2>3. PICK y \in RelayMessage : y = [t |-> "get", x |-> t]
      BY <2>1 DEF RelayMessage
    <2>4. \/ pulls' = pulls /\ wire' = [wire EXCEPT ![<<m, n>>] = Tail(wire[<<m, n>>])]
          \/ /\ pulls' = [pulls EXCEPT ![n] = pulls[n] \cup {t}]
             /\ wire' = [wire EXCEPT ![<<m, n>>] = Tail(wire[<<m, n>>]), ![<<n, m>>] = Append(wire[<<n, m>>], y)]
      <3>1. PICK b \in BOOLEAN : b = (t \notin txPool[n] \cup pulls[n] /\ Cardinality(pulls[n]) < MAX_IN_FLIGHT_TX_GETS)
        OBVIOUS
      <3>2. CASE b
        BY <1>0, <1>1, <1>t, <2>1, <2>3, <3>1, <3>2, PairIs DEF OnTxInv, RelayType
      <3>3. CASE ~b
        <4>1. /\ pulls' = [pulls EXCEPT ![n] = pulls[n]]
              /\ wire' = [wire EXCEPT ![<<m, n>>] = Tail(wire[<<m, n>>]), ![<<n, m>>] = wire[<<n, m>>]]
          BY <1>0, <1>1, <1>t, <2>1, <3>1, <3>3, PairIs DEF OnTxInv, RelayType
        <4>2. pulls' = pulls
          BY <1>0, <4>1 DEF RelayType
        <4>3. wire \in [Pair -> Seq(RelayMessage)] /\ <<m, n>> # <<n, m>>
          BY <1>0 DEF RelayType
        <4>4. wire' = [wire EXCEPT ![<<m, n>>] = Tail(wire[<<m, n>>])]
          BY <2>1, <4>1, <4>3
        <4> QED BY <4>2, <4>4
      <3> QED BY <3>2, <3>3
    <2>5. Taken(m, n, h)
      BY <1>0, <1>h, <2>1, <2>4, MessageTaken
    <2>6. /\ ToldOrExplained'
          /\ \A a, b \in RelayNode : \A u : UnderWay(a, b, u) => UnderWay(a, b, u)'
      BY <2>1, <2>2, <2>5, TakenKeeps
    <2>7. PullsUnderWay' /\ pulls' \in [RelayNode -> SUBSET RelayTx]
      <3>1. CASE pulls' = pulls
        BY <1>0, <2>2, <2>6, <3>1, PullsKept DEF RelayType
      <3>2. CASE /\ pulls' = [pulls EXCEPT ![n] = pulls[n] \cup {t}]
                 /\ wire' = [wire EXCEPT ![<<m, n>>] = Tail(wire[<<m, n>>]), ![<<n, m>>] = Append(wire[<<n, m>>], y)]
        <4>1. wire'[<<n, m>>] = Append(wire[<<n, m>>], y)
          BY <1>0, <2>1, <3>2, PairIs DEF RelayType
        <4>2. On(wire'[<<n, m>>], "get", t)
          BY <2>1, <2>3, <4>1, OnAppend
        <4>3. UnderWay(n, m, t)'
          BY <2>1, <2>2, <4>2 DEF UnderWay
        <4>4. ASSUME NEW a \in RelayNode, NEW u \in pulls'[a]
              PROVE  \E b \in RelayNode : <<b, a, u>> \in missed' \/ UnderWay(a, b, u)'
          <5>1. CASE u \in pulls[a]
            BY <1>0, <2>2, <2>6, <5>1 DEF PullsUnderWay
          <5>2. CASE u \notin pulls[a]
            <6>1. a = n /\ u = t
              BY <1>0, <3>2, <4>4, <5>2 DEF RelayType
            <6> QED BY <4>3, <6>1
          <5> QED BY <5>1, <5>2
        <4>5. PullsUnderWay'
          BY <4>4 DEF PullsUnderWay
        <4>6. pulls[n] \cup {t} \in SUBSET RelayTx /\ pulls \in [RelayNode -> SUBSET RelayTx]
          BY <1>0, <2>1 DEF RelayType
        <4>7. pulls' \in [RelayNode -> SUBSET RelayTx]
          BY <3>2, <4>6
        <4> QED BY <4>5, <4>7
      <3> QED BY <2>4, <3>1, <3>2
    <2>8. RelayType'
      BY <1>0, <2>2, <2>5, <2>7 DEF RelayType, Taken
    <2> QED BY <1>0, <2>2, <2>6, <2>7, <2>8 DEF RelayInv, PoolsFinite, ReadThenThere
  <1>2. CASE OnGetTx(m, n)
    <2>1. /\ <<m, n>> \in links /\ wire[<<m, n>>] # <<>> /\ h = [t |-> "get", x |-> t] /\ t \in RelayTx
          /\ wire[<<n, m>>] \in Seq(RelayMessage) /\ <<n, m>> \in Pair /\ <<m, n>> \in Pair
      BY <1>0, <1>2, <1>h, <1>t, HeadIs DEF OnGetTx
    <2>2. UNCHANGED <<txPool, announced, snapshot, pulls, links, heard, missed>>
      BY <1>2 DEF OnGetTx
    <2>k. PICK k \in {"tx", "notfound"} : k = IF t \in txPool[n] THEN "tx" ELSE "notfound"
      OBVIOUS
    <2>3. PICK y \in RelayMessage : y = [t |-> k, x |-> t]
      BY <2>1 DEF RelayMessage
    <2>4. wire' = [wire EXCEPT ![<<m, n>>] = Tail(wire[<<m, n>>]), ![<<n, m>>] = Append(wire[<<n, m>>], y)]
      BY <1>0, <1>2, <1>t, <2>1, <2>3, <2>k, PairIs DEF OnGetTx, RelayType
    <2>5. Taken(m, n, h)
      BY <1>0, <1>h, <2>1, <2>4, MessageTaken
    <2>6. wire'[<<n, m>>] = Append(wire[<<n, m>>], y)
      BY <1>0, <2>1, <2>4, PairIs DEF RelayType
    <2>7. On(wire'[<<n, m>>], k, t)
      BY <2>1, <2>3, <2>6, OnAppend
    <2>8. <<n, m>> \in links => UnderWay(m, n, t)'
      BY <2>2, <2>7 DEF UnderWay
    <2>9. /\ ToldOrExplained'
          /\ \A a, b \in RelayNode : \A u : UnderWay(a, b, u) => UnderWay(a, b, u)' \/ (a = m /\ b = n /\ u = t)
      <3>1. h.t # "tx" /\ h.t # "notfound"
        BY <2>1
      <3>2. \A u, k2 : h = [t |-> k2, x |-> u] => u = t /\ k2 = "get"
        BY <2>1
      <3> QED BY <2>1, <2>2, <2>5, <3>1, <3>2, TakenKeeps
    <2>10. ASSUME NEW a \in RelayNode, NEW b \in RelayNode, NEW u, UnderWay(a, b, u) PROVE UnderWay(a, b, u)'
      <3>1. <<b, a>> \in links
        BY <2>10 DEF UnderWay
      <3> QED BY <2>8, <2>9, <2>10, <3>1
    <2>11. PullsUnderWay'
      BY <1>0, <2>2, <2>10, PullsKept
    <2>12. RelayType'
      BY <1>0, <2>2, <2>5 DEF RelayType, Taken
    <2> QED BY <1>0, <2>2, <2>9, <2>11, <2>12 DEF RelayInv, PoolsFinite, ReadThenThere
  <1>3. CASE OnTx(m, n)
    <2>1. /\ <<m, n>> \in links /\ wire[<<m, n>>] # <<>> /\ h = [t |-> "tx", x |-> t] /\ t \in RelayTx
      BY <1>0, <1>3, <1>h, <1>t, HeadIs DEF OnTx
    <2>2. /\ UNCHANGED <<announced, snapshot, links, missed>>
          /\ txPool' = [txPool EXCEPT ![n] = txPool[n] \cup {t}] \/ txPool' = txPool
          /\ heard' = [heard EXCEPT ![n] = heard[n] \cup {t}]
          /\ pulls' = [pulls EXCEPT ![n] = pulls[n] \ {t}]
          /\ wire' = [wire EXCEPT ![<<m, n>>] = Tail(wire[<<m, n>>])]
      BY <1>3, <1>t DEF OnTx, Cleared
    <2>3. Taken(m, n, h)
      BY <1>0, <1>h, <2>1, <2>2, MessageTaken
    <2>4. /\ txPool' \in [RelayNode -> SUBSET RelayTx] /\ \A a \in RelayNode : txPool[a] \subseteq txPool'[a]
          /\ heard' \in [RelayNode -> SUBSET RelayTx] /\ \A a \in RelayNode : heard[a] \subseteq heard'[a]
          /\ pulls' \in [RelayNode -> SUBSET RelayTx] /\ \A a \in RelayNode : pulls'[a] \subseteq pulls[a]
          /\ t \notin pulls'[n] /\ t \in heard'[n]
      <3>0. /\ txPool \in [RelayNode -> SUBSET RelayTx] /\ heard \in [RelayNode -> SUBSET RelayTx]
            /\ pulls \in [RelayNode -> SUBSET RelayTx]
        BY <1>0 DEF RelayType
      <3>1. CASE txPool' = txPool
        BY <3>0, <3>1, GrownIs, ShrunkIs, <2>1, <2>2
      <3>2. CASE txPool' = [txPool EXCEPT ![n] = txPool[n] \cup {t}]
        BY <3>0, <3>2, GrownIs, ShrunkIs, <2>1, <2>2
      <3> QED BY <2>2, <3>1, <3>2
    <2>5. /\ ToldOrExplained'
          /\ \A a, b \in RelayNode : \A u : UnderWay(a, b, u) => UnderWay(a, b, u)' \/ (a = n /\ u = t)
      <3>1. \A u, k2 : h = [t |-> k2, x |-> u] => u = t /\ k2 = "tx"
        BY <2>1
      <3> QED BY <2>1, <2>2, <2>3, <2>4, <3>1, TakenKeeps
    <2>6. PullsUnderWay'
      BY <1>0, <2>2, <2>4, <2>5, PullsKept
    <2>7. RelayType'
      BY <1>0, <2>2, <2>3, <2>4 DEF RelayType, Taken
    <2>8. PoolsFinite'
      <3>1. txPool \in [RelayNode -> SUBSET RelayTx]
        BY <1>0 DEF RelayType
      <3>2. ASSUME NEW a \in RelayNode PROVE IsFiniteSet(txPool'[a])
        <4>1. txPool'[a] = txPool[a] \/ txPool'[a] = txPool[a] \cup {t}
          BY <2>1, <2>2, <3>1, GrownIs
        <4>2. IsFiniteSet(txPool[a]) /\ IsFiniteSet(txPool[a] \cup {t})
          BY <1>0, FS_AddElement DEF PoolsFinite
        <4> QED BY <4>1, <4>2
      <3> QED BY <3>2 DEF PoolsFinite
    <2>9. ReadThenThere'
      BY <1>0, <2>2, <2>4 DEF ReadThenThere
    <2> QED BY <2>5, <2>6, <2>7, <2>8, <2>9 DEF RelayInv
  <1>4. CASE OnTxNotFound(m, n)
    <2>1. /\ <<m, n>> \in links /\ wire[<<m, n>>] # <<>> /\ h = [t |-> "notfound", x |-> t] /\ t \in RelayTx
      BY <1>0, <1>4, <1>h, <1>t, HeadIs DEF OnTxNotFound
    <2>2. /\ UNCHANGED <<txPool, announced, snapshot, links, missed, heard>>
          /\ pulls' = [pulls EXCEPT ![n] = pulls[n] \ {t}]
          /\ wire' = [wire EXCEPT ![<<m, n>>] = Tail(wire[<<m, n>>])]
      BY <1>4, <1>t DEF OnTxNotFound, Cleared
    <2>3. Taken(m, n, h)
      BY <1>0, <1>h, <2>1, <2>2, MessageTaken
    <2>4. /\ pulls' \in [RelayNode -> SUBSET RelayTx] /\ \A a \in RelayNode : pulls'[a] \subseteq pulls[a]
          /\ t \notin pulls'[n]
      BY <1>0, <2>1, <2>2 DEF RelayType
    <2>5. /\ ToldOrExplained'
          /\ \A a, b \in RelayNode : \A u : UnderWay(a, b, u) => UnderWay(a, b, u)' \/ (a = n /\ u = t)
      <3>1. (\A u, k2 : h = [t |-> k2, x |-> u] => u = t /\ k2 = "notfound") /\ h.t # "tx"
        BY <2>1
      <3> QED BY <2>1, <2>2, <2>3, <2>4, <3>1, TakenKeeps
    <2>6. PullsUnderWay'
      BY <1>0, <2>2, <2>4, <2>5, PullsKept
    <2>7. RelayType'
      BY <1>0, <2>2, <2>3, <2>4 DEF RelayType, Taken
    <2> QED BY <1>0, <2>2, <2>5, <2>6, <2>7 DEF RelayInv, PoolsFinite, ReadThenThere
  <1> QED BY <1>1, <1>2, <1>3, <1>4

LEMMA SubmitKeeps ==
    ASSUME RelayInv, NEW n \in RelayNode, NEW t \in RelayTx, SubmitTx(n, t)
    PROVE  RelayInv'
  <1>0. RelayType /\ PullsUnderWay /\ ReadThenThere /\ PoolsFinite /\ ToldOrExplained
    BY DEF RelayInv
  <1>1. /\ UNCHANGED <<announced, snapshot, pulls, wire, links, missed>>
        /\ txPool' = [txPool EXCEPT ![n] = txPool[n] \cup {t}]
        /\ heard' = [heard EXCEPT ![n] = heard[n] \cup {t}]
    BY DEF SubmitTx
  <1>2. txPool \in [RelayNode -> SUBSET RelayTx] /\ heard \in [RelayNode -> SUBSET RelayTx]
    BY <1>0 DEF RelayType
  <1>3. /\ txPool' \in [RelayNode -> SUBSET RelayTx]
        /\ \A a \in RelayNode : txPool[a] \subseteq txPool'[a] /\ (txPool'[a] = txPool[a] \/ txPool'[a] = txPool[a] \cup {t})
    BY <1>1, <1>2, GrownIs
  <1>4. heard' \in [RelayNode -> SUBSET RelayTx] /\ \A a \in RelayNode : heard[a] \subseteq heard'[a]
    BY <1>1, <1>2, GrownIs
  <1>5. RelayType'
    BY <1>0, <1>1, <1>3, <1>4 DEF RelayType
  <1>6. PoolsFinite'
    <2>1. ASSUME NEW a \in RelayNode PROVE IsFiniteSet(txPool'[a])
      <3>1. IsFiniteSet(txPool[a]) /\ IsFiniteSet(txPool[a] \cup {t})
        BY <1>0, FS_AddElement DEF PoolsFinite
      <3> QED BY <1>3, <3>1
    <2> QED BY <2>1 DEF PoolsFinite
  <1>7. ReadThenThere'
    BY <1>0, <1>1, <1>3 DEF ReadThenThere
  <1>8. ToldOrExplained'
    BY <1>0, <1>1, <1>4, ToldKept
  <1>9. PullsUnderWay'
    BY <1>0, <1>1 DEF PullsUnderWay, UnderWay
  <1> QED BY <1>5, <1>6, <1>7, <1>8, <1>9 DEF RelayInv

(***************************************************************************)
(* A transaction that leaves between the announcer's two passes is missed. *)
(***************************************************************************)
LEMMA DropKeeps ==
    ASSUME RelayInv, NEW n \in RelayNode, NEW t \in RelayTx, DropTx(n, t)
    PROVE  RelayInv'
  <1>0. RelayType /\ PullsUnderWay /\ ReadThenThere /\ PoolsFinite /\ ToldOrExplained
    BY DEF RelayInv
  <1>1. /\ UNCHANGED <<announced, snapshot, pulls, wire, links, heard>>
        /\ txPool' = [txPool EXCEPT ![n] = txPool[n] \ {t}]
        /\ missed' = missed \cup (IF t \in snapshot[n].current \ announced[n] THEN {<<n, m, t>> : m \in RelayNode} ELSE {})
    BY DEF DropTx
  <1>2. txPool \in [RelayNode -> SUBSET RelayTx]
    BY <1>0 DEF RelayType
  <1>3. /\ txPool' \in [RelayNode -> SUBSET RelayTx]
        /\ \A a \in RelayNode : /\ txPool'[a] = txPool[a] \/ txPool'[a] = txPool[a] \ {t}
                                /\ \A u \in txPool[a] : u \in txPool'[a] \/ (a = n /\ u = t)
    BY <1>1, <1>2, ShrunkIs
  <1>4. /\ missed \subseteq missed' /\ missed' \subseteq RelayNode \X RelayNode \X RelayTx
        /\ t \in snapshot[n].current \ announced[n] => \A m \in RelayNode : <<n, m, t>> \in missed'
    BY <1>0, <1>1 DEF RelayType
  <1>5. RelayType'
    BY <1>0, <1>1, <1>3, <1>4 DEF RelayType
  <1>6. PoolsFinite'
    <2>1. ASSUME NEW a \in RelayNode PROVE IsFiniteSet(txPool'[a])
      <3>1. IsFiniteSet(txPool[a]) /\ IsFiniteSet(txPool[a] \ {t})
        BY <1>0, FS_RemoveElement DEF PoolsFinite
      <3> QED BY <1>3, <3>1
    <2> QED BY <2>1 DEF PoolsFinite
  <1>7. ReadThenThere'
    <2>1. ASSUME NEW a \in RelayNode, NEW u \in snapshot[a].current \ announced[a]
          PROVE  u \in txPool'[a] \/ \A m \in RelayNode : <<a, m, u>> \in missed'
      <3>1. u \in txPool[a] \/ \A m \in RelayNode : <<a, m, u>> \in missed
        BY <1>0 DEF ReadThenThere
      <3> QED BY <1>3, <1>4, <3>1
    <2> QED BY <1>1, <2>1 DEF ReadThenThere
  <1>8. ToldOrExplained'
    BY <1>0, <1>1, <1>4, ToldKept
  <1>9. PullsUnderWay'
    BY <1>0, <1>1, <1>4 DEF PullsUnderWay, UnderWay
  <1> QED BY <1>5, <1>6, <1>7, <1>8, <1>9 DEF RelayInv

(***************************************************************************)
(* What was announced before a connection is missed by it, as is all that  *)
(* a lost connection carried.                                              *)
(***************************************************************************)
LEMMA RoutesOf ==
    ASSUME NEW a \in RelayNode, NEW b \in RelayNode
    PROVE  \A t \in RelayTx : <<a, b, t>> \in Routes(<<a, b>>) /\ <<b, a, t>> \in Routes(<<a, b>>)
  BY DEF Routes

LEMMA LinkUpKeeps ==
    ASSUME RelayInv, NEW a \in RelayNode, NEW b \in RelayNode, a # b, LinkUp(<<a, b>>)
    PROVE  RelayInv'
  <1>0. RelayType /\ PullsUnderWay /\ ReadThenThere /\ PoolsFinite /\ ToldOrExplained
    BY DEF RelayInv
  <1>1. /\ UNCHANGED <<txPool, announced, snapshot, pulls, wire, heard>>
        /\ links' = links \cup {<<a, b>>, <<b, a>>}
        /\ missed' = missed \cup {x \in Routes(<<a, b>>) : x[3] \in announced[x[1]]}
    BY DEF LinkUp
  <1>2. missed \subseteq missed' /\ missed' \subseteq RelayNode \X RelayNode \X RelayTx
    BY <1>0, <1>1 DEF RelayType, Routes
  <1>3. RelayType'
    <2>1. <<a, b>> \in Pair /\ <<b, a>> \in Pair
      BY PairIs
    <2>2. links' \subseteq Pair
      BY <1>0, <1>1, <2>1 DEF RelayType
    <2> QED BY <1>0, <1>1, <1>2, <2>2 DEF RelayType
  <1>4. ToldOrExplained'
    <2>1. ASSUME NEW n \in RelayNode, NEW m \in RelayNode, <<n, m>> \in links', NEW t \in announced[n]
          PROVE  t \in heard[m] \/ ~Listens(m, t) \/ <<n, m, t>> \in missed' \/ On(wire[<<n, m>>], "tx", t)
      <3>0. t \in RelayTx
        BY <1>0 DEF RelayType
      <3>1. CASE <<n, m>> \in links
        BY <1>0, <1>2, <3>1 DEF ToldOrExplained
      <3>2. CASE <<n, m>> \notin links
        <4>1. (n = a /\ m = b) \/ (n = b /\ m = a)
          BY <1>1, <2>1, <3>2
        <4>2. <<n, m, t>> \in Routes(<<a, b>>)
          BY <3>0, <4>1, RoutesOf
        <4> QED BY <1>1, <2>1, <4>2
      <3> QED BY <3>1, <3>2
    <2> QED BY <1>1, <2>1 DEF ToldOrExplained, Listens
  <1>5. PullsUnderWay'
    <2>1. ASSUME NEW n \in RelayNode, NEW m \in RelayNode, NEW t, UnderWay(n, m, t) PROVE UnderWay(n, m, t)'
      BY <1>1, <2>1 DEF UnderWay
    <2> QED BY <1>0, <1>1, <1>2, <2>1, PullsKept
  <1> QED BY <1>0, <1>1, <1>2, <1>3, <1>4, <1>5 DEF RelayInv, PoolsFinite, ReadThenThere

LEMMA LinkDownKeeps ==
    ASSUME RelayInv, NEW a \in RelayNode, NEW b \in RelayNode, a # b, LinkDown(<<a, b>>)
    PROVE  RelayInv'
  <1>0. RelayType /\ PullsUnderWay /\ ReadThenThere /\ PoolsFinite /\ ToldOrExplained
    BY DEF RelayInv
  <1>1. /\ UNCHANGED <<txPool, announced, snapshot, pulls, heard>>
        /\ links' = links \ {<<a, b>>, <<b, a>>}
        /\ wire' = [wire EXCEPT ![<<a, b>>] = <<>>, ![<<b, a>>] = <<>>]
        /\ missed' = missed \cup Routes(<<a, b>>)
    BY DEF LinkDown
  <1>2. missed \subseteq missed' /\ missed' \subseteq RelayNode \X RelayNode \X RelayTx
    BY <1>0, <1>1 DEF RelayType, Routes
  <1>3. /\ wire' \in [Pair -> Seq(RelayMessage)]
        /\ \A p \in Pair : p # <<a, b>> /\ p # <<b, a>> => wire'[p] = wire[p]
    <2>1. wire \in [Pair -> Seq(RelayMessage)] /\ <<>> \in Seq(RelayMessage)
      BY <1>0 DEF RelayType
    <2>2. <<a, b>> \in Pair /\ <<b, a>> \in Pair
      BY PairIs
    <2> QED BY <1>1, <2>1, <2>2
  <1>4. RelayType'
    BY <1>0, <1>1, <1>2, <1>3 DEF RelayType
  <1>5. ASSUME NEW n \in RelayNode, NEW m \in RelayNode, <<n, m>> \in links'
        PROVE  <<n, m>> \in links /\ wire'[<<n, m>>] = wire[<<n, m>>]
    BY <1>0, <1>1, <1>3, <1>5 DEF RelayType
  <1>6. ToldOrExplained'
    <2>1. \A n, m \in RelayNode : <<n, m>> \in links' =>
              \A t \in RelayTx : On(wire[<<n, m>>], "tx", t) => On(wire'[<<n, m>>], "tx", t) \/ t \in heard'[m]
      BY <1>5
    <2> QED BY <1>0, <1>1, <1>2, <2>1, ToldKept
  <1>7. PullsUnderWay'
    <2>1. ASSUME NEW n \in RelayNode, NEW m \in RelayNode, NEW t \in pulls'[n], UnderWay(n, m, t)
          PROVE  UnderWay(n, m, t)' \/ <<m, n, t>> \in missed'
      <3>0. t \in RelayTx /\ <<m, n>> \in links /\ <<m, n>> \in Pair /\ <<n, m>> \in Pair
        BY <1>0, <1>1, <2>1, PairIs DEF RelayType, UnderWay
      <3>1. CASE (m = a /\ n = b) \/ (m = b /\ n = a)
        BY <1>1, <3>0, <3>1, RoutesOf
      <3>2. CASE ~((m = a /\ n = b) \/ (m = b /\ n = a))
        <4>1. /\ <<m, n>> # <<a, b>> /\ <<m, n>> # <<b, a>> /\ <<n, m>> # <<a, b>> /\ <<n, m>> # <<b, a>>
          BY <3>2
        <4>2. <<m, n>> \in links' /\ wire'[<<m, n>>] = wire[<<m, n>>] /\ wire'[<<n, m>>] = wire[<<n, m>>]
          BY <1>1, <1>3, <3>0, <4>1
        <4> QED BY <2>1, <4>2 DEF UnderWay
      <3> QED BY <3>1, <3>2
    <2> QED BY <1>0, <1>1, <1>2, <2>1, PullsKept
  <1> QED BY <1>0, <1>1, <1>2, <1>4, <1>6, <1>7 DEF RelayInv, PoolsFinite, ReadThenThere

LEMMA ReadHashesKeeps ==
    ASSUME RelayInv, NEW n \in RelayNode, ReadHashes(n)
    PROVE  RelayInv'
  <1>0. RelayType /\ PullsUnderWay /\ ReadThenThere /\ PoolsFinite /\ ToldOrExplained
    BY DEF RelayInv
  <1>1. /\ UNCHANGED <<txPool, announced, pulls, wire, links, heard, missed>>
        /\ snapshot' = [snapshot EXCEPT ![n] = [busy |-> TRUE, current |-> txPool[n]]]
    BY DEF ReadHashes
  <1>2. /\ txPool[n] \in SUBSET RelayTx
        /\ snapshot \in [RelayNode -> [busy : BOOLEAN, current : SUBSET RelayTx]]
    BY <1>0 DEF RelayType
  <1>3. /\ snapshot' \in [RelayNode -> [busy : BOOLEAN, current : SUBSET RelayTx]]
        /\ \A a \in RelayNode : snapshot'[a].current = IF a = n THEN txPool[a] ELSE snapshot[a].current
    BY <1>1, <1>2
  <1>4. RelayType'
    BY <1>0, <1>1, <1>3 DEF RelayType
  <1>5. ReadThenThere'
    BY <1>0, <1>1, <1>3 DEF ReadThenThere
  <1> QED BY <1>0, <1>1, <1>4, <1>5 DEF RelayInv, PoolsFinite, ToldOrExplained, PullsUnderWay, UnderWay, Listens

(***************************************************************************)
(* Of the hashes read, those still pending go out in full to whom they     *)
(* interest, and the others were noted as missed when they left.           *)
(***************************************************************************)
LEMMA AnnounceKeeps ==
    ASSUME RelayInv, NEW n \in RelayNode, Announce(n)
    PROVE  RelayInv'
  <1>0. RelayType /\ PullsUnderWay /\ ReadThenThere /\ PoolsFinite /\ ToldOrExplained
    BY DEF RelayInv
  <1> DEFINE want == (snapshot[n].current \ announced[n]) \cap txPool[n]
             Told(m) == {t \in want : Listens(m, t)}
  <1>1. /\ UNCHANGED <<txPool, pulls, links, heard, missed>>
        /\ wire' = [p \in Pair |-> IF p[1] = n /\ p \in links THEN wire[p] \o Pushes(Told(p[2])) ELSE wire[p]]
        /\ announced' = [announced EXCEPT ![n] = snapshot[n].current]
        /\ snapshot' = [snapshot EXCEPT ![n] = NoSnapshot]
    BY DEF Announce, NowAnnounced
  <1>2. /\ snapshot[n].current \subseteq RelayTx
        /\ snapshot \in [RelayNode -> [busy : BOOLEAN, current : SUBSET RelayTx]]
        /\ announced \in [RelayNode -> SUBSET RelayTx]
        /\ wire \in [Pair -> Seq(RelayMessage)] /\ links \subseteq Pair
    BY <1>0 DEF RelayType
  <1>3. ASSUME NEW m \in RelayNode
        PROVE  Pushes(Told(m)) \in Seq(RelayMessage) /\ \A t \in Told(m) : On(Pushes(Told(m)), "tx", t)
    <2>1. IsFiniteSet(txPool[n]) /\ Told(m) \subseteq txPool[n]
      BY <1>0 DEF PoolsFinite
    <2>2. IsFiniteSet(Told(m)) /\ Told(m) \in SUBSET RelayTx
      BY <1>2, <2>1, FS_Subset
    <2> HIDE DEF Told
    <2> QED BY <2>2, PushesAll
  <1>t. \A m \in RelayNode : \A t \in want : Listens(m, t) => t \in Told(m)
    OBVIOUS
  <1>w. want = (snapshot[n].current \ announced[n]) \cap txPool[n]
    OBVIOUS
  <1> HIDE DEF Told, want
  <1>4. ASSUME NEW p \in Pair
        PROVE  /\ wire'[p] \in Seq(RelayMessage)
               /\ \A k, t : On(wire[p], k, t) => On(wire'[p], k, t)
               /\ p[1] = n /\ p \in links => \A t \in Told(p[2]) : On(wire'[p], "tx", t)
    <2>1. p[2] \in RelayNode /\ wire[p] \in Seq(RelayMessage)
      BY <1>2, PairIs
    <2>2. CASE p[1] = n /\ p \in links
      <3>1. wire'[p] = wire[p] \o Pushes(Told(p[2]))
        BY <1>1, <2>2
      <3>2. PICK v \in Seq(RelayMessage) : v = Pushes(Told(p[2])) /\ \A t \in Told(p[2]) : On(v, "tx", t)
        BY <1>3, <2>1
      <3> QED BY <2>1, <3>1, <3>2, OnConcat
    <2>3. CASE ~(p[1] = n /\ p \in links)
      <3>1. wire'[p] = wire[p]
        BY <1>1, <2>3
      <3> QED BY <2>1, <2>3, <3>1
    <2> QED BY <2>2, <2>3
  <1>5. wire' \in [Pair -> Seq(RelayMessage)]
    <2>1. DOMAIN wire' = Pair /\ wire' = [p \in Pair |-> wire'[p]]
      BY <1>1
    <2> QED BY <1>4, <2>1
  <1>6. /\ announced' \in [RelayNode -> SUBSET RelayTx]
        /\ \A a \in RelayNode : announced'[a] = IF a = n THEN snapshot[n].current ELSE announced[a]
    BY <1>1, <1>2
  <1>7. /\ snapshot' \in [RelayNode -> [busy : BOOLEAN, current : SUBSET RelayTx]]
        /\ \A a \in RelayNode : snapshot'[a].current = IF a = n THEN {} ELSE snapshot[a].current
    BY <1>1, <1>2 DEF NoSnapshot
  <1>8. RelayType'
    BY <1>0, <1>1, <1>5, <1>6, <1>7 DEF RelayType
  <1>9. ReadThenThere'
    BY <1>0, <1>1, <1>6, <1>7 DEF ReadThenThere
  <1>10. ToldOrExplained'
    <2>1. ASSUME NEW a \in RelayNode, NEW m \in RelayNode, <<a, m>> \in links, NEW t \in announced'[a]
          PROVE  t \in heard[m] \/ ~Listens(m, t) \/ <<a, m, t>> \in missed \/ On(wire'[<<a, m>>], "tx", t)
      <3>0. <<a, m>> \in Pair
        BY <1>2, <2>1
      <3>1. CASE t \in announced[a]
        <4>1. t \in heard[m] \/ ~Listens(m, t) \/ <<a, m, t>> \in missed \/ On(wire[<<a, m>>], "tx", t)
          BY <1>0, <2>1, <3>1 DEF ToldOrExplained
        <4> QED BY <1>4, <3>0, <4>1
      <3>2. CASE t \notin announced[a]
        <4>1. a = n /\ t \in snapshot[n].current \ announced[n]
          BY <1>6, <2>1, <3>2
        <4>2. CASE t \in txPool[n]
          <5>1. Listens(m, t) => t \in Told(m)
            BY <1>t, <1>w, <4>1, <4>2
          <5> QED BY <1>4, <2>1, <3>0, <4>1, <5>1
        <4>3. CASE t \notin txPool[n]
          BY <1>0, <4>1, <4>3 DEF ReadThenThere
        <4> QED BY <4>2, <4>3
      <3> QED BY <3>1, <3>2
    <2> QED BY <1>1, <2>1 DEF ToldOrExplained, Listens
  <1>11. PullsUnderWay'
    <2>1. ASSUME NEW a \in RelayNode, NEW m \in RelayNode, NEW t, UnderWay(a, m, t) PROVE UnderWay(a, m, t)'
      <3>1. <<m, a>> \in links /\ <<m, a>> \in Pair /\ <<a, m>> \in Pair
        BY <1>2, <2>1, PairIs DEF UnderWay
      <3> QED BY <1>1, <1>4, <2>1, <3>1 DEF UnderWay
    <2> QED BY <1>0, <1>1, <2>1, PullsKept
  <1> QED BY <1>0, <1>1, <1>8, <1>9, <1>10, <1>11 DEF RelayInv, PoolsFinite

LEMMA RelayInvKept == RelayInv /\ [RelayNext]_relayVars => RelayInv'
  <1> SUFFICES ASSUME RelayInv, [RelayNext]_relayVars PROVE RelayInv'
    OBVIOUS
  <1>1. ASSUME NEW p \in Pair, \/ LinkUp(p) \/ LinkDown(p)
                               \/ OnTxInv(p[1], p[2]) \/ OnGetTx(p[1], p[2])
                               \/ OnTx(p[1], p[2]) \/ OnTxNotFound(p[1], p[2])
        PROVE  RelayInv'
    <2>1. PICK m \in RelayNode, n \in RelayNode : m # n /\ p = <<m, n>> /\ p[1] = m /\ p[2] = n
      BY PairIs
    <2> QED BY <1>1, <2>1, LinkUpKeeps, LinkDownKeeps, ReceiveKeeps
  <1>2. CASE UNCHANGED relayVars
    BY <1>2 DEF relayVars, RelayInv, RelayType, PoolsFinite, ReadThenThere, ToldOrExplained, PullsUnderWay,
                UnderWay, Listens
  <1>3. CASE RelayNext
    BY <1>1, <1>3, ReadHashesKeeps, AnnounceKeeps, SubmitKeeps, DropKeeps DEF RelayNext
  <1> QED BY <1>2, <1>3

LEMMA RelayInvExplains == RelayInv => PropagationExplained
  <1> SUFFICES ASSUME RelayInv, AllTold PROVE PropagationExplained
    BY DEF PropagationExplained
  <1>0. RelayType /\ PullsUnderWay /\ ToldOrExplained
    BY DEF RelayInv
  <1>1. \A p \in Pair : \A k, t : ~On(wire[p], k, t)
    BY DEF AllTold, On
  <1>2. ASSUME NEW p \in links, NEW t \in txPool[p[1]]
        PROVE  t \in heard[p[2]] \/ ~Listens(p[2], t) \/ <<p[1], p[2], t>> \in missed
    <2>1. PICK n \in RelayNode, m \in RelayNode : p = <<n, m>> /\ p[1] = n /\ p[2] = m /\ p \in Pair
      BY <1>0, PairIs DEF RelayType
    <2>2. t \in announced[n]
      BY <2>1 DEF AllTold
    <2> QED BY <1>0, <1>1, <2>1, <2>2 DEF ToldOrExplained
  <1>3. ASSUME NEW n \in RelayNode, NEW t \in pulls[n]
        PROVE  \E m \in RelayNode : <<m, n, t>> \in missed
    <2>1. PICK m \in RelayNode : <<m, n, t>> \in missed \/ UnderWay(n, m, t)
      BY <1>0 DEF PullsUnderWay
    <2>2. ~UnderWay(n, m, t)
      BY <1>0, <1>1, PairIs DEF UnderWay, RelayType
    <2> QED BY <2>1, <2>2
  <1> QED BY <1>2, <1>3 DEF PropagationExplained

(***************************************************************************)
(* Whatever the number of nodes, the connections and the order in which    *)
(* the announcer's two passes, the messages and the evictions interleave:  *)
(* once everything is told, a pending transaction is unknown to a          *)
(* connected peer only for one of the reasons of PropagationExplained, and *)
(* a pull stays in `in_flight_tx_gets` only after a lost connection        *)
(* (`spawn_mempool_announcer`, `request_tx_pull`, `clear_tx_inflight`).    *)
(***************************************************************************)
THEOREM RelayExplained == RelaySpec => []PropagationExplained
  <1>1. RelayInit => RelayInv
    BY RelayInitInv
  <1>2. RelayInv /\ [RelayNext]_relayVars => RelayInv'
    BY RelayInvKept
  <1>3. RelayInv => PropagationExplained
    BY RelayInvExplains
  <1> QED BY <1>1, <1>2, <1>3, PTL DEF RelaySpec

-----------------------------------------------------------------------------
(***************************************************************************)
(* Sync: what a sequence holds after it is extended or shortened, and what *)
(* the orders that SetToSeqs and SetToSeq choose from hold.                *)
(***************************************************************************)
LEMMA SeqAppend ==
    ASSUME NEW S, NEW q \in Seq(S), NEW x \in S
    PROVE  Append(q, x) \in Seq(S) /\ ToSet(Append(q, x)) = ToSet(q) \cup {x}
  <1>1. PICK n : n = Len(q)
    OBVIOUS
  <1>2. n \in Nat /\ DOMAIN q = 1..n
    BY <1>1
  <1>3. PICK r : r = Append(q, x)
    OBVIOUS
  <1>4. r \in Seq(S) /\ DOMAIN r = 1..(n + 1) /\ r[n + 1] = x /\ \A i \in 1..n : r[i] = q[i]
    BY <1>1, <1>3, AppendProperties
  <1>5. ToSet(r) = {r[i] : i \in 1..(n + 1)} /\ ToSet(q) = {q[i] : i \in 1..n}
    BY <1>2, <1>4 DEF ToSet
  <1>6. \A i \in 1..(n + 1) : i \in 1..n \/ i = n + 1
    BY <1>2
  <1>7. n + 1 \in 1..(n + 1) /\ \A i \in 1..n : i \in 1..(n + 1)
    BY <1>2
  <1>8. ToSet(r) = ToSet(q) \cup {x}
    BY <1>4, <1>5, <1>6, <1>7
  <1> QED BY <1>3, <1>4, <1>8

LEMMA SeqEnd ==
    ASSUME NEW S, NEW q \in Seq(S), q # <<>>
    PROVE  /\ Last(q) \in S
           /\ Front(q) \in Seq(S)
           /\ Len(Front(q)) = Len(q) - 1
           /\ ToSet(q) = ToSet(Front(q)) \cup {Last(q)}
  <1>1. PICK n : n = Len(q)
    OBVIOUS
  <1>2. n \in Nat /\ n > 0 /\ DOMAIN q = 1..n
    BY <1>1, EmptySeq
  <1>3. PICK r : r = Front(q)
    OBVIOUS
  <1>4. r = SubSeq(q, 1, n - 1)
    BY <1>1, <1>3 DEF Front
  <1>5. r \in Seq(S) /\ Len(r) = n - 1 /\ \A i \in 1..(n - 1) : r[i] = q[i]
    BY <1>1, <1>2, <1>4
  <1>6. DOMAIN r = 1..(n - 1)
    BY <1>5
  <1>7. Last(q) = q[n] /\ n \in 1..n /\ q[n] \in S
    BY <1>1, <1>2 DEF Last
  <1>8. ToSet(r) = {r[i] : i \in 1..(n - 1)} /\ ToSet(q) = {q[i] : i \in 1..n}
    BY <1>2, <1>6 DEF ToSet
  <1>9. (\A i \in 1..n : i \in 1..(n - 1) \/ i = n) /\ \A i \in 1..(n - 1) : i \in 1..n
    BY <1>2
  <1>10. ToSet(q) = ToSet(r) \cup {Last(q)}
    BY <1>5, <1>7, <1>8, <1>9
  <1> QED BY <1>1, <1>3, <1>5, <1>7, <1>10

LEMMA SeqStart ==
    ASSUME NEW S, NEW q \in Seq(S), q # <<>>
    PROVE  Head(q) \in S /\ Tail(q) \in Seq(S) /\ ToSet(q) = ToSet(Tail(q)) \cup {Head(q)}
  <1>1. PICK n : n = Len(q)
    OBVIOUS
  <1>2. n \in Nat /\ n > 0 /\ DOMAIN q = 1..n
    BY <1>1, EmptySeq
  <1>3. PICK r : r = Tail(q)
    OBVIOUS
  <1>4. r \in Seq(S) /\ Len(r) = n - 1 /\ \A i \in 1..(n - 1) : r[i] = q[i + 1]
    BY <1>1, <1>2, <1>3, HeadTailProperties
  <1>5. DOMAIN r = 1..(n - 1)
    BY <1>4
  <1>6. Head(q) = q[1] /\ 1 \in 1..n /\ q[1] \in S
    BY <1>1, <1>2
  <1>7. ToSet(r) = {r[i] : i \in 1..(n - 1)} /\ ToSet(q) = {q[i] : i \in 1..n}
    BY <1>2, <1>5 DEF ToSet
  <1>8. \A i \in 1..n : i = 1 \/ (i - 1 \in 1..(n - 1) /\ (i - 1) + 1 = i)
    BY <1>2
  <1>9. \A i \in 1..(n - 1) : i + 1 \in 1..n
    BY <1>2
  <1>10. ToSet(q) \subseteq ToSet(r) \cup {Head(q)}
    <2> SUFFICES ASSUME NEW i \in 1..n PROVE q[i] \in ToSet(r) \cup {Head(q)}
      BY <1>7
    <2>1. CASE i = 1
      BY <1>6, <2>1
    <2>2. CASE i - 1 \in 1..(n - 1) /\ (i - 1) + 1 = i
      <3>1. r[i - 1] = q[i]
        BY <1>4, <2>2
      <3> QED BY <1>7, <2>2, <3>1
    <2> QED BY <1>8, <2>1, <2>2
  <1>11. ToSet(r) \cup {Head(q)} \subseteq ToSet(q)
    BY <1>4, <1>6, <1>7, <1>9
  <1> QED BY <1>3, <1>4, <1>6, <1>10, <1>11

LEMMA SeqJoin ==
    ASSUME NEW S, NEW q \in Seq(S), NEW r \in Seq(S)
    PROVE  q \o r \in Seq(S) /\ ToSet(q \o r) = ToSet(q) \cup ToSet(r)
  <1>1. PICK n, m, s : n = Len(q) /\ m = Len(r) /\ s = q \o r
    OBVIOUS
  <1>2. n \in Nat /\ DOMAIN q = 1..n /\ m \in Nat /\ DOMAIN r = 1..m
    BY <1>1
  <1>3. s \in Seq(S) /\ Len(s) = n + m
    BY <1>1, ConcatProperties
  <1>4. (\A i \in 1..n : s[i] = q[i]) /\ \A i \in 1..m : s[n + i] = r[i]
    BY <1>1, <1>2
  <1>5. DOMAIN s = 1..(n + m)
    BY <1>3
  <1>6. ToSet(s) = {s[i] : i \in 1..(n + m)} /\ ToSet(q) = {q[i] : i \in 1..n} /\ ToSet(r) = {r[i] : i \in 1..m}
    BY <1>2, <1>5 DEF ToSet
  <1>7. \A i \in 1..(n + m) : i \in 1..n \/ (i - n \in 1..m /\ n + (i - n) = i)
    BY <1>2
  <1>8. (\A i \in 1..n : i \in 1..(n + m)) /\ \A i \in 1..m : n + i \in 1..(n + m)
    BY <1>2
  <1>9. ToSet(s) \subseteq ToSet(q) \cup ToSet(r)
    <2> SUFFICES ASSUME NEW i \in 1..(n + m) PROVE s[i] \in ToSet(q) \cup ToSet(r)
      BY <1>6
    <2>1. CASE i \in 1..n
      BY <1>4, <1>6, <2>1
    <2>2. CASE i - n \in 1..m /\ n + (i - n) = i
      <3>1. s[i] = r[i - n]
        BY <1>4, <2>2
      <3> QED BY <1>6, <2>2, <3>1
    <2> QED BY <1>7, <2>1, <2>2
  <1>10. ToSet(q) \cup ToSet(r) \subseteq ToSet(s)
    BY <1>4, <1>6, <1>8
  <1> QED BY <1>1, <1>3, <1>9, <1>10

LEMMA SeqWithin ==
    ASSUME NEW S, NEW q \in Seq(S)
    PROVE  ToSet(q) \subseteq S
  BY DEF ToSet

(***************************************************************************)
(* The ancestors of a block are its parents and their ancestors.           *)
(***************************************************************************)
LEMMA PastOf ==
    ASSUME NEW z \in SyncBlock, NEW y \in ParentsOf[z]
    PROVE  y \in SyncBlock /\ y \in Past(z) /\ Past(y) \subseteq Past(z)
  <1>1. y \in SyncBlock
    BY SyncConstants
  <1>2. y \in Past(z)
    BY <1>1 DEF Past
  <1>3. ASSUME NEW b \in Past(y) PROVE b \in Past(z)
    <2> SUFFICES ASSUME NEW S \in SUBSET SyncBlock, ParentsOf[z] \subseteq S,
                        \A x \in S : ParentsOf[x] \subseteq S
                 PROVE  b \in S
      BY <1>3 DEF Past
    <2>1. ParentsOf[y] \subseteq S
      OBVIOUS
    <2> QED BY <1>3, <2>1 DEF Past
  <1> QED BY <1>1, <1>2, <1>3

LEMMA PastSplit ==
    ASSUME NEW z \in SyncBlock, NEW b \in Past(z)
    PROVE  \E y \in ParentsOf[z] : b = y \/ b \in Past(y)
  <1>1. PICK S : S = {x \in SyncBlock : \E y \in ParentsOf[z] : x = y \/ x \in Past(y)}
    OBVIOUS
  <1>2. S \in SUBSET SyncBlock /\ ParentsOf[z] \subseteq S
    BY <1>1, SyncConstants
  <1>3. ASSUME NEW x \in S, NEW q \in ParentsOf[x] PROVE q \in S
    <2>1. x \in SyncBlock
      BY <1>1, <1>3
    <2>2. q \in SyncBlock /\ q \in Past(x)
      BY <1>3, <2>1, PastOf
    <2>3. PICK y \in ParentsOf[z] : x = y \/ x \in Past(y)
      BY <1>1, <1>3
    <2>4. y \in SyncBlock
      BY SyncConstants
    <2>5. CASE x = y
      BY <1>1, <2>2, <2>3, <2>5
    <2>6. CASE x \in Past(y)
      <3>1. ASSUME NEW U \in SUBSET SyncBlock, ParentsOf[y] \subseteq U, \A a \in U : ParentsOf[a] \subseteq U
            PROVE  q \in U
        <4>1. x \in U
          BY <2>6, <3>1 DEF Past
        <4> QED BY <1>3, <3>1, <4>1
      <3>2. q \in Past(y)
        BY <2>2, <3>1 DEF Past
      <3> QED BY <1>1, <2>2, <2>3, <3>2
    <2> QED BY <2>3, <2>5, <2>6
  <1>4. b \in S
    BY <1>2, <1>3 DEF Past
  <1> QED BY <1>1, <1>4

LEMMA OrderCovers ==
    ASSUME NEW S, IsFiniteSet(S), NEW q \in SetToSeqs(S)
    PROVE  q \in Seq(S) /\ ToSet(q) = S
  <1>1. PICK n : n = Cardinality(S)
    OBVIOUS
  <1>2. n \in Nat
    BY <1>1, FS_CardinalityType
  <1>3. q \in [1..n -> S] /\ \A i, j \in 1..n : i # j => q[i] # q[j]
    BY <1>1 DEF SetToSeqs
  <1>4. q \in Injection(1..n, S)
    BY <1>3 DEF Injection, IsInjective
  <1>5. IsFiniteSet(1..n) /\ Cardinality(1..n) = n
    BY <1>2, FS_Interval
  <1>6. q \in Surjection(1..n, S)
    BY <1>1, <1>4, <1>5, FS_Injection
  <1>7. ToSet(q) = S
    BY <1>3, <1>6 DEF Surjection, ToSet
  <1>8. q \in Seq(S)
    BY <1>2, <1>3
  <1> QED BY <1>7, <1>8

LEMMA SetAsSeq ==
    ASSUME NEW S, IsFiniteSet(S)
    PROVE  SetToSeq(S) \in Seq(S) /\ ToSet(SetToSeq(S)) = S
  <1>1. PICK n : n = Cardinality(S)
    OBVIOUS
  <1>2. n \in Nat /\ IsFiniteSet(1..n) /\ Cardinality(1..n) = n
    BY <1>1, FS_CardinalityType, FS_Interval
  <1>3. ExistsBijection(1..n, S)
    BY <1>1, <1>2, FS_SameCardinalityBij
  <1>4. PICK f : f \in Bijection(1..n, S)
    BY <1>3 DEF ExistsBijection
  <1>5. f \in [1..n -> S] /\ IsInjective(f)
    BY <1>4 DEF Bijection, Injection
  <1>6. SetToSeq(S) \in [1..n -> S] /\ IsInjective(SetToSeq(S))
    BY <1>1, <1>5 DEF SetToSeq
  <1>7. SetToSeq(S) \in SetToSeqs(S)
    BY <1>1, <1>6 DEF SetToSeqs, IsInjective
  <1> QED BY <1>7, OrderCovers

(***************************************************************************)
(* `request_block_body` in turn for a sequence of blocks: the fold of the  *)
(* module is a run of single requests.                                     *)
(***************************************************************************)
ReqStep(known, max, r, h) ==
    IF h \in known \/ h \in r.flight THEN r
    ELSE IF Cardinality(r.flight) >= max
    THEN [r EXCEPT !.refused = @ \cup {h}]
    ELSE [r EXCEPT !.flight = @ \cup {h}, !.asked = Append(@, h)]

ReqAt(known, max, base, seq, f, s) ==
    IF s = {} THEN base ELSE ReqStep(known, max, f[s \ {Max(s)}], seq[Max(s)])

IsReqAll(known, max, base, seq, f) == f = [s \in SUBSET DOMAIN seq |-> ReqAt(known, max, base, seq, f, s)]

ReqAll(known, max, base, seq) == (CHOOSE f : IsReqAll(known, max, base, seq, f))[DOMAIN seq]

NoRequests == [flight |-> inFlight \ have, asked |-> <<>>, refused |-> {}]

LEMMA RequestsFold == ASSUME NEW hs PROVE Requests(hs) = ReqAll(have, MAX_IN_FLIGHT_BODIES, NoRequests, hs)
  BY DEF Requests, FoldLeft, MapThenFoldSet, ReqAll, IsReqAll, ReqAt, ReqStep, NoRequests

IsReqRun(known, max, A, base, seq, n, G) ==
    G \in [0..n -> A] /\ G[0] = base /\ \A i \in 1..n : G[i] = ReqStep(known, max, G[i - 1], seq[i])

ReqStays(known, max, A, V) == \A a \in A : \A v \in V : ReqStep(known, max, a, v) \in A

LEMMA ReqRuns ==
    ASSUME NEW known, NEW max, NEW A, NEW V, NEW base \in A,
           NEW n \in Nat, NEW seq, DOMAIN seq = 1..n, IndexedIn(seq, n, V),
           ReqStays(known, max, A, V)
    PROVE  \E G : IsReqRun(known, max, A, base, seq, n, G) /\ G[n] = ReqAll(known, max, base, seq)
  <1>1. \A i \in 1..n : seq[i] \in V
    BY DEF IndexedIn
  <1>2. PICK F : F = [p \in A \X V |-> ReqStep(known, max, p[1], p[2])]
    OBVIOUS
  <1>3. \A a \in A : \A v \in V : F[<<a, v>>] = ReqStep(known, max, a, v)
    BY <1>2
  <1>4. F \in [A \X V -> A]
    <2>1. \A p \in A \X V : ReqStep(known, max, p[1], p[2]) \in A
      BY DEF ReqStays
    <2> QED BY <1>2, <2>1
  <1>5. PICK f \in [SUBSET (1..n) -> A] : IsFoldOf(F, base, seq, 1..n, f)
    <2>1. IsFiniteSet(1..n) /\ \A y \in 1..n : y \in Nat
      BY FS_Interval
    <2>2. PICK I : I = 1..n
      OBVIOUS
    <2>3. IsFiniteSet(I) /\ \A y \in I : y \in Nat
      BY <2>1, <2>2
    <2>4. \A x \in I : seq[x] \in V
      BY <1>1, <2>2
    <2>5. \E g \in [SUBSET I -> A] : IsFoldOf(F, base, seq, I, g)
      BY <1>4, <2>3, <2>4, FoldExists
    <2> QED BY <2>2, <2>5
  <1>6. IsReqAll(known, max, base, seq, f)
    <2>1. ASSUME NEW s \in SUBSET (1..n) PROVE f[s] = ReqAt(known, max, base, seq, f, s)
      <3>1. f[s] = IF s = {} THEN base ELSE F[<<f[s \ {Max(s)}], seq[Max(s)]>>]
        BY <1>5 DEF IsFoldOf
      <3>2. CASE s # {}
        <4>1. Max(s) \in s
          BY <3>2, IndexMax
        <4>2. f[s \ {Max(s)}] \in A /\ seq[Max(s)] \in V
          BY <1>1, <1>5, <4>1
        <4> QED BY <1>3, <3>1, <3>2, <4>2 DEF ReqAt
      <3> QED BY <3>1, <3>2 DEF ReqAt
    <2>2. f = [s \in SUBSET (1..n) |-> ReqAt(known, max, base, seq, f, s)]
      BY <1>5, <2>1
    <2> QED BY <2>2 DEF IsReqAll
  <1>7. PICK h : h = (CHOOSE g : IsReqAll(known, max, base, seq, g)) /\ IsReqAll(known, max, base, seq, h)
    BY <1>6
  <1>8. h[1..n] = ReqAll(known, max, base, seq)
    BY <1>7 DEF ReqAll
  <1>9. \A s \in SUBSET (1..n) : h[s] = ReqAt(known, max, base, seq, h, s)
    BY <1>7 DEF IsReqAll
  <1>10. FollowsFold(A, F, base, seq, n, h)
    <2>1. h[{}] = base
      BY <1>9 DEF ReqAt
    <2>2. ASSUME NEW s \in SUBSET (1..n), s # {}, h[s \ {Max(s)}] \in A
          PROVE  h[s] = F[<<h[s \ {Max(s)}], seq[Max(s)]>>]
      <3>1. h[s] = ReqStep(known, max, h[s \ {Max(s)}], seq[Max(s)])
        BY <1>9, <2>2 DEF ReqAt
      <3>2. seq[Max(s)] \in V
        BY <1>1, <2>2, IndexMax
      <3> QED BY <1>3, <2>2, <3>1, <3>2
    <2> QED BY <2>1, <2>2 DEF FollowsFold
  <1>11. PICK G : IsRun(A, F, base, seq, n, G) /\ G[n] = h[1..n]
    <2>1. IsStepOn(A, V, F)
      BY <1>4 DEF IsStepOn
    <2> QED BY <1>10, <2>1, FoldRuns
  <1>12. G \in [0..n -> A] /\ G[0] = base /\ \A i \in 1..n : G[i] = F[<<G[i - 1], seq[i]>>]
    BY <1>11 DEF IsRun
  <1>13. ASSUME NEW i \in 1..n PROVE G[i] = ReqStep(known, max, G[i - 1], seq[i])
    <2>1. G[i - 1] \in A /\ seq[i] \in V
      BY <1>1, <1>12
    <2> QED BY <1>3, <1>12, <2>1
  <1> QED BY <1>8, <1>11, <1>12, <1>13 DEF IsReqRun

(***************************************************************************)
(* After i requests: what is asked is under way, nothing else has joined,  *)
(* and every block tried is known, under way or kept out by the budget.    *)
(***************************************************************************)
ReqRec == [flight : SUBSET SyncBlock, asked : Seq(SyncBlock), refused : SUBSET SyncBlock]

ReqFits(flight, known, hs, i, r) ==
    /\ r \in ReqRec
    /\ r.flight \subseteq flight \cup ToSet(r.asked)
    /\ ToSet(r.asked) \subseteq r.flight
    /\ flight \subseteq r.flight
    /\ r.refused \subseteq ToSet(hs) /\ ToSet(r.asked) \subseteq ToSet(hs)
    /\ \A j \in 1..i : hs[j] \in known \cup r.flight \cup r.refused

LEMMA ReqStepFits ==
    ASSUME NEW flight, NEW known, NEW max, NEW hs \in Seq(SyncBlock), NEW i \in 1..Len(hs),
           NEW r, ReqFits(flight, known, hs, i - 1, r)
    PROVE  ReqFits(flight, known, hs, i, ReqStep(known, max, r, hs[i]))
  <1>1. PICK h : h = hs[i]
    OBVIOUS
  <1>2. h \in SyncBlock /\ h \in ToSet(hs)
    BY <1>1 DEF ToSet
  <1>3. PICK fl, aq, rf : r = [flight |-> fl, asked |-> aq, refused |-> rf]
          /\ fl \in SUBSET SyncBlock /\ aq \in Seq(SyncBlock) /\ rf \in SUBSET SyncBlock
    BY DEF ReqFits, ReqRec
  <1>4. ToSet(Append(aq, h)) = ToSet(aq) \cup {h} /\ Append(aq, h) \in Seq(SyncBlock)
    <2>1. aq \in Seq(SyncBlock) /\ h \in SyncBlock
      BY <1>2, <1>3
    <2>2. Append(aq, h) \in Seq(SyncBlock)
      BY <2>1
    <2>3. ToSet(Append(aq, h)) = ToSet(aq) \cup {h}
      BY <2>1, SeqAppend
    <2> QED BY <2>2, <2>3
  <1>5. \A j \in 1..i : j # i => j \in 1..(i - 1)
    OBVIOUS
  <1>6. CASE h \in known \/ h \in r.flight
    <2>1. ReqStep(known, max, r, h) = r
      BY <1>6 DEF ReqStep
    <2>2. \A j \in 1..i : hs[j] \in known \cup r.flight \cup r.refused
      BY <1>1, <1>5, <1>6 DEF ReqFits
    <2> QED BY <1>1, <2>1, <2>2 DEF ReqFits
  <1>7. CASE ~(h \in known \/ h \in r.flight) /\ Cardinality(r.flight) >= max
    <2>1. ReqStep(known, max, r, h) = [flight |-> fl, asked |-> aq, refused |-> rf \cup {h}]
      BY <1>3, <1>7 DEF ReqStep
    <2>2. PICK s : s = [flight |-> fl, asked |-> aq, refused |-> rf \cup {h}]
      OBVIOUS
    <2>3. s \in ReqRec /\ s.flight = r.flight /\ s.asked = r.asked /\ s.refused = r.refused \cup {h}
      BY <1>2, <1>3, <2>2 DEF ReqRec
    <2>4. \A j \in 1..i : hs[j] \in known \cup s.flight \cup s.refused
      BY <1>1, <1>5, <2>3 DEF ReqFits
    <2>5. ReqFits(flight, known, hs, i, s)
      BY <1>2, <2>3, <2>4 DEF ReqFits
    <2> QED BY <1>1, <2>1, <2>2, <2>5
  <1>8. CASE ~(h \in known \/ h \in r.flight) /\ ~(Cardinality(r.flight) >= max)
    <2>1. ReqStep(known, max, r, h) = [flight |-> fl \cup {h}, asked |-> Append(aq, h), refused |-> rf]
      BY <1>3, <1>8 DEF ReqStep
    <2>2. PICK s : s = [flight |-> fl \cup {h}, asked |-> Append(aq, h), refused |-> rf]
      OBVIOUS
    <2>3. s.flight = r.flight \cup {h} /\ ToSet(s.asked) = ToSet(r.asked) \cup {h} /\ s.refused = r.refused
      BY <1>3, <1>4, <2>2
    <2>4. s \in ReqRec
      BY <1>2, <1>3, <1>4, <2>2 DEF ReqRec
    <2>5. \A j \in 1..i : hs[j] \in known \cup s.flight \cup s.refused
      BY <1>1, <1>5, <2>3 DEF ReqFits
    <2>6. ReqFits(flight, known, hs, i, s)
      BY <1>2, <2>3, <2>4, <2>5 DEF ReqFits
    <2> QED BY <1>1, <2>1, <2>2, <2>6
  <1> QED BY <1>6, <1>7, <1>8

LEMMA ReqOutcome ==
    ASSUME NEW hs \in Seq(SyncBlock), inFlight \subseteq SyncBlock
    PROVE  ReqFits(inFlight \ have, have, hs, Len(hs), Requests(hs))
  <1>1. PICK n : n = Len(hs)
    OBVIOUS
  <1>2. n \in Nat /\ DOMAIN hs = 1..n
    BY <1>1
  <1>3. IndexedIn(hs, n, SyncBlock)
    BY <1>1 DEF IndexedIn
  <1>4. PICK max : max = MAX_IN_FLIGHT_BODIES
    OBVIOUS
  <1>5. ReqStays(have, max, ReqRec, SyncBlock)
    <2> SUFFICES ASSUME NEW a \in ReqRec, NEW v \in SyncBlock PROVE ReqStep(have, max, a, v) \in ReqRec
      BY DEF ReqStays
    <2>1. Append(a.asked, v) \in Seq(SyncBlock)
      BY DEF ReqRec
    <2> QED BY <2>1 DEF ReqStep, ReqRec
  <1>6. NoRequests \in ReqRec
    BY DEF NoRequests, ReqRec
  <1>7. PICK G : IsReqRun(have, max, ReqRec, NoRequests, hs, n, G) /\ G[n] = ReqAll(have, max, NoRequests, hs)
    BY <1>2, <1>3, <1>5, <1>6, ReqRuns
  <1>8. PICK Good : Good = {i \in 0..n : ReqFits(inFlight \ have, have, hs, i, G[i])}
    OBVIOUS
  <1>9. 0 \in Good
    <2>1. G[0] = NoRequests
      BY <1>7 DEF IsReqRun
    <2>2. ToSet(<<>>) = {}
      BY DEF ToSet
    <2>3. ReqFits(inFlight \ have, have, hs, 0, NoRequests)
      BY <1>6, <2>2 DEF ReqFits, NoRequests
    <2> QED BY <1>2, <1>8, <2>1, <2>3
  <1>10. \A i \in 1..n : (i - 1) \in Good => i \in Good
    <2> SUFFICES ASSUME NEW i \in 1..n, (i - 1) \in Good PROVE i \in Good
      OBVIOUS
    <2>1. ReqFits(inFlight \ have, have, hs, i - 1, G[i - 1])
      BY <1>8
    <2>2. G[i] = ReqStep(have, max, G[i - 1], hs[i])
      BY <1>7 DEF IsReqRun
    <2>3. ReqFits(inFlight \ have, have, hs, i, G[i])
      BY <1>1, <2>1, <2>2, ReqStepFits
    <2> QED BY <1>2, <1>8, <2>3
  <1>11. n \in Good
    <2>1. \A i \in 0..n : i \in Good
      BY <1>2, <1>9, <1>10, UpTo
    <2> QED BY <1>2, <2>1
  <1>12. Requests(hs) = G[n]
    BY <1>4, <1>7, RequestsFold
  <1> QED BY <1>1, <1>8, <1>11, <1>12

(***************************************************************************)
(* The state of a thread that works on a block, and the messages.          *)
(***************************************************************************)
Pcs == {"next", "check", "missing", "buffer", "ask", "add"}

Item == [h : SyncBlock, full : BOOLEAN]

Job == [pc : Pcs, queue : Seq(Item), direct : SyncBlock, first : BOOLEAN, missing : SUBSET SyncBlock]

SyncMsg ==
    [t : {"Hello"}] \cup [t : {"Tips", "Headers"}, hs : SUBSET SyncBlock]
        \cup [t : {"Block", "NotFound"}, h : SyncBlock, full : BOOLEAN]

(***************************************************************************)
(* What is on the way to asking a peer for its tips.                       *)
(***************************************************************************)
IsDue(m) == m.t \in {"Hello", "Tips"}

SyncTypes ==
    /\ have \in SUBSET SyncBlock
    /\ orphans \in [SyncBlock -> SUBSET Item]
    /\ inFlight \in SUBSET SyncBlock
    /\ DOMAIN pending \in SUBSET SyncBlock
    /\ inbox \in [SyncPeer -> Seq(SyncMsg)]
    /\ thread \in [SyncPeer -> {Idle} \cup Job]
    /\ link \in [SyncPeer -> {"down", "up", "banned"}]
    /\ refused \in SUBSET SyncBlock
    /\ unanswered \in SUBSET SyncBlock

Busy(p) == thread[p] \in Job

(***************************************************************************)
(* The parents of a known block are known, so a parent that is found known *)
(* stays so.  A thread at work belongs to a live connection; what it found *)
(* missing covers what is missing still; and the block that the peer sent  *)
(* comes from what the peer holds, which it can ask that peer for.         *)
(***************************************************************************)
HaveClosed == \A b \in have : ParentsOf[b] \subseteq have

JobFits(p) ==
    /\ link[p] = "up"
    /\ thread[p].pc # "next" => thread[p].queue # <<>>
    /\ thread[p].pc = "add" => Missing(Cur(p)) = {}
    /\ thread[p].pc \in {"buffer", "ask"} =>
          Missing(Cur(p)) \subseteq thread[p].missing /\ thread[p].missing \subseteq ParentsOf[Cur(p)]
    /\ thread[p].first => Len(thread[p].queue) = 1 /\ Cur(p) \in Holds[p]

JobsFit == \A p \in SyncPeer : Busy(p) => JobFits(p)

(***************************************************************************)
(* What a peer has sent is what it holds, and a link that is not up brings *)
(* nothing.                                                                *)
(***************************************************************************)
MsgFits(p, m) ==
    /\ m.t = "Tips" => m.hs = Tips(p)
    /\ m.t = "Headers" => m.hs = Holds[p]
    /\ m.t = "Block" => m.h \in Holds[p]

InboxFits ==
    \A p \in SyncPeer :
        /\ link[p] # "up" => inbox[p] = <<>>
        /\ \A m \in ToSet(inbox[p]) : MsgFits(p, m)

OrphansFit == \A y \in SyncBlock : \A w \in orphans[y] : y \in ParentsOf[w.h]

Names(S) == {w.h : w \in S}

(***************************************************************************)
(* The blocks a thread has at hand, and those of them it has still to      *)
(* place: one that it buffered or refused, and only asks parents for, has  *)
(* its place already.                                                      *)
(***************************************************************************)
Work(p) == IF Busy(p) THEN Names(ToSet(thread[p].queue)) ELSE {}

Ahead(p) ==
    IF ~Busy(p) THEN {}
    ELSE IF At(p, "ask") THEN Names(ToSet(Front(thread[p].queue)))
    ELSE Names(ToSet(thread[p].queue))

Orphaned == Names(UNION {orphans[y] : y \in SyncBlock})

(***************************************************************************)
(* The heart of the argument: the blocks the node still knows of, or has   *)
(* dropped for a reason that it can name.  A block once in Kept stays in   *)
(* it, whatever the threads do.                                            *)
(***************************************************************************)
Kept ==
    have \cup refused \cup unanswered \cup (UNION {Underway(p) : p \in SyncPeer})
         \cup (UNION {Ahead(p) : p \in SyncPeer}) \cup Orphaned

(***************************************************************************)
(* A block that was requested, waits as a header, or was announced as a    *)
(* tip is kept; this is what makes the budget's "is under way already" a   *)
(* safe reason not to ask.                                                 *)
(***************************************************************************)
AskedIsKept == \A p \in SyncPeer : Busy(p) /\ At(p, "ask") => Cur(p) \in Kept

RequestedIsKept == inFlight \subseteq Kept /\ DOMAIN pending \subseteq Kept

TipsAreKept ==
    \A p \in SyncPeer :
        link[p] = "up" /\ p \notin unasked /\ (\A m \in ToSet(inbox[p]) : ~IsDue(m)) => Tips(p) \subseteq Kept

(***************************************************************************)
(* A peer that was not asked had no higher block, and has none now.        *)
(***************************************************************************)
UnaskedLower == \A p \in SyncPeer : p \in unasked => ~HasHigherBlue(p)

(***************************************************************************)
(* The missing parents of every block at hand or in the pool are kept too, *)
(* unless a thread has this block straight from its peer and has yet to    *)
(* ask for them.  That thread's peer holds them and will answer, also when *)
(* another thread asks first.                                              *)
(***************************************************************************)
Carried == (UNION {Work(p) : p \in SyncPeer}) \cup Orphaned

Asker(s, z) == Busy(s) /\ thread[s].first /\ Cur(s) = z

Sought(z) == \A y \in Missing(z) : y \in Kept \/ \E s \in SyncPeer : Asker(s, z)

ParentsSought == \A z \in Carried : Sought(z)

(***************************************************************************)
(* The inductive invariant.                                                *)
(***************************************************************************)
SyncInv ==
    /\ SyncTypes
    /\ HaveClosed
    /\ JobsFit
    /\ InboxFits
    /\ OrphansFit
    /\ AskedIsKept
    /\ RequestedIsKept
    /\ TipsAreKept
    /\ UnaskedLower
    /\ ParentsSought

LEMMA JobShape ==
    ASSUME NEW t \in Job
    PROVE  /\ t.pc \in Pcs /\ t.queue \in Seq(Item) /\ t.direct \in SyncBlock
           /\ t.first \in BOOLEAN /\ t.missing \in SUBSET SyncBlock
           /\ t # Idle /\ t.pc # "idle"
  <1>1. /\ t.pc \in Pcs /\ t.queue \in Seq(Item) /\ t.direct \in SyncBlock
        /\ t.first \in BOOLEAN /\ t.missing \in SUBSET SyncBlock
    BY DEF Job
  <1>2. t.pc # "idle"
    BY <1>1 DEF Pcs
  <1>3. t # Idle
    BY <1>2 DEF Idle
  <1> QED BY <1>1, <1>2, <1>3

LEMMA DoneJob ==
    ASSUME NEW t \in Job, t.queue # <<>>
    PROVE  /\ Done(t) \in Job
           /\ Done(t).pc = "next" /\ Done(t).queue = Front(t.queue) /\ Done(t).first = FALSE
           /\ Done(t).direct = t.direct
  <1>1. Front(t.queue) \in Seq(Item)
    BY JobShape, SeqEnd
  <1>2. PICK f : f = Front(t.queue)
    OBVIOUS
  <1>3. Done(t) = [t EXCEPT !.pc = "next", !.queue = f, !.first = FALSE, !.missing = {}]
    BY <1>2 DEF Done
  <1>4. f \in Seq(Item)
    BY <1>1, <1>2
  <1>5. Done(t) \in Job
    BY <1>3, <1>4 DEF Job, Pcs
  <1>6. Done(t).pc = "next" /\ Done(t).queue = f /\ Done(t).first = FALSE /\ Done(t).direct = t.direct
    BY <1>3 DEF Job
  <1> QED BY <1>2, <1>5, <1>6

LEMMA ThreadsSet ==
    ASSUME SyncTypes, NEW p \in SyncPeer, NEW t \in {Idle} \cup Job, thread' = [thread EXCEPT ![p] = t]
    PROVE  /\ thread' \in [SyncPeer -> {Idle} \cup Job]
           /\ thread'[p] = t
           /\ \A s \in SyncPeer : s # p => thread'[s] = thread[s]
  BY DEF SyncTypes

LEMMA JobsOf ==
    ASSUME SyncTypes, NEW p \in SyncPeer
    PROVE  /\ thread[p] = Idle \/ thread[p] \in Job
           /\ thread[p] # Idle => Busy(p)
           /\ thread[p].pc # "idle" => Busy(p)
           /\ Busy(p) => thread[p] # Idle
  BY JobShape DEF SyncTypes, Busy, Idle

LEMMA AnswerIs ==
    ASSUME NEW p \in SyncPeer, NEW h \in SyncBlock
    PROVE  /\ Answer(p, h) \in SyncMsg
           /\ Answer(p, h).t \in {"Block", "NotFound"}
           /\ Answer(p, h).h = h
           /\ Answer(p, h).t = "Block" <=> h \in Holds[p]
  BY DEF Answer, SyncMsg

(***************************************************************************)
(* The answers of a peer to a sequence of requests: it sends what it holds.*)
(***************************************************************************)
AnswersOf(p, q) == [i \in DOMAIN q |-> Answer(p, q[i])]

GoodAnswers(p, a) == \A m \in ToSet(a) : m.t \in {"Block", "NotFound"} /\ MsgFits(p, m)

Sends(a, x) == \E m \in ToSet(a) : m.t = "Block" /\ m.h = x

LEMMA Answers ==
    ASSUME NEW p \in SyncPeer, NEW q \in Seq(SyncBlock)
    PROVE  /\ AnswersOf(p, q) \in Seq(SyncMsg)
           /\ GoodAnswers(p, AnswersOf(p, q))
           /\ \A x \in ToSet(q) : x \in Holds[p] => Sends(AnswersOf(p, q), x)
  <1> PICK a : a = AnswersOf(p, q)
    OBVIOUS
  <1>0. a = [i \in DOMAIN q |-> Answer(p, q[i])]
    BY DEF AnswersOf
  <1>1. DOMAIN q = 1..Len(q) /\ Len(q) \in Nat /\ \A i \in DOMAIN q : q[i] \in SyncBlock
    OBVIOUS
  <1>2. \A i \in DOMAIN q : a[i] = Answer(p, q[i]) /\ a[i] \in SyncMsg
    BY <1>0, <1>1, AnswerIs
  <1>3. a \in [1..Len(q) -> SyncMsg]
    BY <1>0, <1>1, <1>2
  <1>4. a \in Seq(SyncMsg)
    BY <1>1, <1>3
  <1>5. DOMAIN a = DOMAIN q
    BY <1>0
  <1>6. ASSUME NEW m \in ToSet(a) PROVE m.t \in {"Block", "NotFound"} /\ MsgFits(p, m)
    <2>1. PICK i \in DOMAIN q : m = a[i]
      BY <1>5, <1>6 DEF ToSet
    <2>2. m = Answer(p, q[i]) /\ q[i] \in SyncBlock
      BY <1>1, <1>2, <2>1
    <2>3. m.t \in {"Block", "NotFound"} /\ m.h = q[i] /\ (m.t = "Block" <=> q[i] \in Holds[p])
      BY <2>2, AnswerIs
    <2>4. m.t # "Tips" /\ m.t # "Headers"
      BY <2>3
    <2> QED BY <2>3, <2>4 DEF MsgFits
  <1>7. ASSUME NEW x \in ToSet(q), x \in Holds[p] PROVE \E m \in ToSet(a) : m.t = "Block" /\ m.h = x
    <2>1. PICK i \in DOMAIN q : x = q[i]
      BY <1>7 DEF ToSet
    <2>2. a[i] \in ToSet(a)
      BY <1>5 DEF ToSet
    <2>3. a[i].t = "Block" /\ a[i].h = x
      BY <1>1, <1>2, <1>7, <2>1, AnswerIs
    <2> QED BY <2>2, <2>3
  <1> QED BY <1>4, <1>6, <1>7 DEF GoodAnswers, Sends

LEMMA KeptCases ==
    ASSUME NEW x \in Kept
    PROVE  \/ x \in have \/ x \in refused \/ x \in unanswered \/ x \in Orphaned
           \/ (\E q \in SyncPeer : x \in Underway(q)) \/ (\E q \in SyncPeer : x \in Ahead(q))
  BY DEF Kept

LEMMA KeptGrows ==
    ASSUME have \subseteq have', refused \subseteq refused', unanswered \subseteq unanswered',
           \A q \in SyncPeer : Underway(q) \subseteq Kept',
           \A q \in SyncPeer : Ahead(q) \subseteq Kept',
           Orphaned \subseteq Kept'
    PROVE  Kept \subseteq Kept'
  <1>1. have' \subseteq Kept' /\ refused' \subseteq Kept' /\ unanswered' \subseteq Kept'
    BY DEF Kept
  <1>2. ASSUME NEW x \in Kept PROVE x \in Kept'
    <2>1. \/ x \in have \/ x \in refused \/ x \in unanswered \/ x \in Orphaned
          \/ (\E q \in SyncPeer : x \in Underway(q)) \/ (\E q \in SyncPeer : x \in Ahead(q))
      BY <1>2, KeptCases
    <2> QED BY <1>1, <2>1
  <1> QED BY <1>2

LEMMA SoughtStays ==
    ASSUME have \subseteq have', Kept \subseteq Kept', NEW z, Sought(z),
           \A s \in SyncPeer : Asker(s, z) => Asker(s, z)' \/ Missing(z)' \subseteq Kept'
    PROVE  Sought(z)'
  <1> SUFFICES ASSUME NEW y \in Missing(z)' PROVE y \in Kept' \/ \E s \in SyncPeer : Asker(s, z)'
    BY DEF Sought
  <1>1. y \in Missing(z)
    BY DEF Missing
  <1>2. CASE y \in Kept
    BY <1>2
  <1>3. CASE \E s \in SyncPeer : Asker(s, z)
    BY <1>3
  <1> QED BY <1>1, <1>2, <1>3 DEF Sought

LEMMA JobFitsStays ==
    ASSUME NEW s \in SyncPeer, have \subseteq have', thread'[s] = thread[s], link'[s] = link[s], JobFits(s)
    PROVE  JobFits(s)'
  <1>1. Cur(s)' = Cur(s)
    BY DEF Cur
  <1>2. Missing(Cur(s))' \subseteq Missing(Cur(s))
    BY <1>1 DEF Missing
  <1> QED BY <1>1, <1>2 DEF JobFits

LEMMA SameThread ==
    ASSUME NEW s \in SyncPeer, thread'[s] = thread[s]
    PROVE  /\ Busy(s)' = Busy(s) /\ Ahead(s)' = Ahead(s) /\ Work(s)' = Work(s) /\ Cur(s)' = Cur(s)
           /\ \A pc : At(s, pc)' = At(s, pc)
           /\ \A z : Asker(s, z)' = Asker(s, z)
  BY DEF Busy, Ahead, Work, Asker, Cur, At

(***************************************************************************)
(* A step of one thread, or of none: the others' jobs and the parents they *)
(* seek need no second look.                                               *)
(***************************************************************************)
OnlyThread(p) == \A s \in SyncPeer : s # p => thread'[s] = thread[s] /\ (Busy(s) => link'[s] = link[s])

JobStays(p) ==
    /\ (Busy(p) => JobFits(p))'
    /\ (Busy(p) /\ At(p, "ask") => Cur(p) \in Kept)'
    /\ \A z : Asker(p, z) => Asker(p, z)' \/ Missing(z)' \subseteq Kept'

LEMMA StepKeeps ==
    ASSUME SyncInv, NEW p, OnlyThread(p), p \in SyncPeer => JobStays(p),
           have \subseteq have', Kept \subseteq Kept',
           SyncTypes', HaveClosed', InboxFits', OrphansFit', RequestedIsKept', TipsAreKept', UnaskedLower',
           \A z \in Carried' : z \in Carried \/ Sought(z)'
    PROVE  SyncInv'
  <1>1. ASSUME NEW s \in SyncPeer, Busy(s)' PROVE JobFits(s)' /\ (At(s, "ask")' => Cur(s)' \in Kept')
    <2>1. CASE s = p
      BY <1>1, <2>1 DEF JobStays
    <2>2. CASE s # p
      <3>1. thread'[s] = thread[s]
        BY <2>2 DEF OnlyThread
      <3>2. Busy(s) /\ Cur(s)' = Cur(s) /\ At(s, "ask")' = At(s, "ask")
        BY <1>1, <3>1, SameThread
      <3>3. link'[s] = link[s]
        BY <2>2, <3>2 DEF OnlyThread
      <3>4. JobFits(s) /\ (At(s, "ask") => Cur(s) \in Kept)
        BY <3>2 DEF SyncInv, JobsFit, AskedIsKept
      <3>5. JobFits(s)'
        BY <3>1, <3>3, <3>4, JobFitsStays
      <3> QED BY <3>2, <3>4, <3>5
    <2> QED BY <2>1, <2>2
  <1>2. ASSUME NEW z \in Carried' PROVE Sought(z)'
    <2> SUFFICES ASSUME z \in Carried PROVE Sought(z)'
      BY <1>2
    <2>1. Sought(z)
      BY DEF SyncInv, ParentsSought
    <2>2. ASSUME NEW s \in SyncPeer, Asker(s, z) PROVE Asker(s, z)' \/ Missing(z)' \subseteq Kept'
      <3>1. CASE s = p
        BY <2>2, <3>1 DEF JobStays
      <3>2. CASE s # p
        BY <2>2, <3>2, SameThread DEF OnlyThread
      <3> QED BY <3>1, <3>2
    <2> QED BY <2>1, <2>2, SoughtStays
  <1>3. JobsFit' /\ AskedIsKept'
    BY <1>1 DEF JobsFit, AskedIsKept
  <1>4. ParentsSought'
    BY <1>2 DEF ParentsSought
  <1> QED BY <1>3, <1>4 DEF SyncInv

LEMMA LowerStays ==
    ASSUME SyncInv, have \subseteq have', unasked' = unasked
    PROVE  UnaskedLower'
  BY DEF SyncInv, UnaskedLower, HasHigherBlue

LEMMA SameThreads ==
    ASSUME SyncInv, UNCHANGED <<have, thread>>, NEW p \in SyncPeer, Busy(p) => link'[p] = link[p],
           Kept \subseteq Kept'
    PROVE  JobStays(p)
  <1>1. thread'[p] = thread[p]
    OBVIOUS
  <1>2. /\ Busy(p)' = Busy(p) /\ Cur(p)' = Cur(p) /\ At(p, "ask")' = At(p, "ask")
        /\ \A z : Asker(p, z)' = Asker(p, z)
    BY <1>1, SameThread
  <1>3. ASSUME Busy(p) PROVE JobFits(p)'
    BY <1>1, <1>3, JobFitsStays DEF SyncInv, JobsFit
  <1>4. ASSUME Busy(p), At(p, "ask") PROVE Cur(p) \in Kept
    BY <1>4 DEF SyncInv, AskedIsKept
  <1> QED BY <1>2, <1>3, <1>4 DEF JobStays

LEMMA CarriedSame ==
    ASSUME \A s \in SyncPeer : Work(s)' \subseteq Carried, Orphaned' \subseteq Carried
    PROVE  Carried' \subseteq Carried
  BY DEF Carried

LEMMA UnderwayTyped ==
    ASSUME SyncTypes, NEW p \in SyncPeer
    PROVE  /\ Underway(p) \subseteq SyncBlock
           /\ \A x : x \in Underway(p) <=> \E m \in ToSet(inbox[p]) : m.t = "Block" /\ m.h = x
  <1>1. ToSet(inbox[p]) \subseteq SyncMsg
    BY SeqWithin DEF SyncTypes
  <1>2. \A m \in SyncMsg : m.t = "Block" => m.h \in SyncBlock
    BY DEF SyncMsg
  <1> QED BY <1>1, <1>2 DEF Underway

(***************************************************************************)
(* A step that changes only what is on the way from p, and what is asked.  *)
(***************************************************************************)
InboxStep(p, new) ==
    /\ thread[p] = Idle
    /\ UNCHANGED <<have, orphans, thread>>
    /\ link' = [link EXCEPT ![p] = link'[p]] /\ link'[p] \in {"down", "up", "banned"}
    /\ refused \subseteq refused' /\ refused' \subseteq SyncBlock
    /\ unanswered \subseteq unanswered' /\ unanswered' \subseteq SyncBlock
    /\ inbox' = [inbox EXCEPT ![p] = new]
    /\ new \in Seq(SyncMsg)
    /\ \A m \in ToSet(new) : MsgFits(p, m)
    /\ link'[p] # "up" => new = <<>>
    /\ \A s \in SyncPeer : s # p => (s \in unasked' <=> s \in unasked)
    /\ p \in unasked' => p \in unasked \/ ~HasHigherBlue(p)

LEMMA InboxStepFrame ==
    ASSUME SyncInv, NEW p \in SyncPeer, NEW new, InboxStep(p, new)
    PROVE  /\ inbox' \in [SyncPeer -> Seq(SyncMsg)] /\ inbox'[p] = new
           /\ \A s \in SyncPeer : s # p => inbox'[s] = inbox[s] /\ link'[s] = link[s]
           /\ link' \in [SyncPeer -> {"down", "up", "banned"}]
  <1>1. SyncTypes
    BY DEF SyncInv
  <1>2. inbox' \in [SyncPeer -> Seq(SyncMsg)] /\ inbox'[p] = new /\ \A s \in SyncPeer : s # p => inbox'[s] = inbox[s]
    BY <1>1 DEF InboxStep, SyncTypes
  <1>3. link' \in [SyncPeer -> {"down", "up", "banned"}] /\ \A s \in SyncPeer : s # p => link'[s] = link[s]
    BY <1>1 DEF InboxStep, SyncTypes
  <1> QED BY <1>2, <1>3

LEMMA InboxStepKept ==
    ASSUME SyncInv, NEW p \in SyncPeer, NEW new, InboxStep(p, new), Underway(p) \subseteq Kept'
    PROVE  Kept \subseteq Kept'
  <1>1. ASSUME NEW q \in SyncPeer, NEW x \in Underway(q) PROVE x \in Kept'
    <2>1. CASE q = p
      BY <1>1, <2>1
    <2>2. CASE q # p
      <3>1. inbox'[q] = inbox[q]
        BY <2>2, InboxStepFrame
      <3>2. x \in Underway(q)'
        BY <1>1, <3>1 DEF Underway
      <3> QED BY <3>2 DEF Kept
    <2> QED BY <2>1, <2>2
  <1>2. ASSUME NEW q \in SyncPeer PROVE Ahead(q) \subseteq Kept'
    <2>1. thread'[q] = thread[q]
      BY DEF InboxStep
    <2>2. Ahead(q)' = Ahead(q)
      BY <2>1, SameThread
    <2> QED BY <2>2 DEF Kept
  <1>3. Orphaned \subseteq Kept'
    BY DEF Kept, Orphaned, InboxStep
  <1>4. have \subseteq have' /\ refused \subseteq refused' /\ unanswered \subseteq unanswered'
    BY DEF InboxStep
  <1> QED BY <1>1, <1>2, <1>3, <1>4, KeptGrows

LEMMA InboxStepKeeps ==
    ASSUME SyncInv, NEW p \in SyncPeer, NEW new, InboxStep(p, new), Kept \subseteq Kept',
           inFlight' \subseteq SyncBlock, DOMAIN pending' \subseteq SyncBlock, RequestedIsKept',
           link'[p] = "up" /\ p \notin unasked' /\ (\A m \in ToSet(new) : ~IsDue(m)) => Tips(p) \subseteq Kept'
    PROVE  SyncInv'
  <1>1. /\ thread[p] = Idle
        /\ have' = have /\ thread' = thread /\ orphans' = orphans
        /\ refused' \subseteq SyncBlock /\ unanswered' \subseteq SyncBlock
        /\ \A m \in ToSet(new) : MsgFits(p, m)
        /\ link'[p] # "up" => new = <<>>
    BY DEF InboxStep
  <1>2. SyncTypes
    BY DEF SyncInv
  <1>3. /\ inbox' \in [SyncPeer -> Seq(SyncMsg)] /\ inbox'[p] = new
        /\ \A s \in SyncPeer : s # p => inbox'[s] = inbox[s] /\ link'[s] = link[s]
        /\ link' \in [SyncPeer -> {"down", "up", "banned"}]
    BY InboxStepFrame
  <1>4. SyncTypes'
    BY <1>1, <1>2, <1>3 DEF SyncTypes
  <1>5. InboxFits'
    <2> SUFFICES ASSUME NEW q \in SyncPeer
                 PROVE  (link'[q] # "up" => inbox'[q] = <<>>) /\ \A m \in ToSet(inbox'[q]) : MsgFits(q, m)
      BY DEF InboxFits, MsgFits, Tips
    <2>1. CASE q = p
      BY <1>1, <1>3, <2>1
    <2>2. CASE q # p
      BY <1>3, <2>2 DEF SyncInv, InboxFits
    <2> QED BY <2>1, <2>2
  <1>6. TipsAreKept'
    <2> SUFFICES ASSUME NEW q \in SyncPeer, link'[q] = "up", q \notin unasked', \A m \in ToSet(inbox'[q]) : ~IsDue(m)
                 PROVE  Tips(q) \subseteq Kept'
      BY DEF TipsAreKept, Tips
    <2>1. CASE q = p
      BY <1>3, <2>1
    <2>2. CASE q # p
      <3>1. link[q] = "up" /\ q \notin unasked /\ \A m \in ToSet(inbox[q]) : ~IsDue(m)
        BY <1>3, <2>2 DEF InboxStep
      <3> QED BY <3>1 DEF SyncInv, TipsAreKept
    <2> QED BY <2>1, <2>2
  <1>7. ~Busy(p)
    BY <1>1, <1>2, JobsOf
  <1>8. OnlyThread(p)
    BY <1>1, <1>3 DEF OnlyThread
  <1>9. JobStays(p)
    BY <1>1, <1>7, SameThreads
  <1>10. Carried' \subseteq Carried
    BY <1>1, SameThread, CarriedSame DEF Carried, Orphaned
  <1>11. HaveClosed' /\ OrphansFit'
    BY <1>1 DEF SyncInv, HaveClosed, OrphansFit
  <1>12. UnaskedLower'
    <2> SUFFICES ASSUME NEW q \in SyncPeer, q \in unasked' PROVE ~HasHigherBlue(q)'
      BY DEF UnaskedLower
    <2>1. HasHigherBlue(q)' = HasHigherBlue(q)
      BY <1>1 DEF HasHigherBlue
    <2>2. q \in unasked \/ ~HasHigherBlue(q)
      BY DEF InboxStep
    <2> QED BY <2>1, <2>2 DEF SyncInv, UnaskedLower
  <1> QED BY <1>1, <1>4, <1>5, <1>6, <1>8, <1>9, <1>10, <1>11, <1>12, StepKeeps

LEMMA ConnectKeeps ==
    ASSUME SyncInv, NEW p \in SyncPeer, Connect(p)
    PROVE  SyncInv'
  <1>1. link[p] = "down" /\ thread[p] = Idle /\ link' = [link EXCEPT ![p] = "up"]
        /\ unasked' = unasked \ {p}
        /\ UNCHANGED <<have, orphans, inFlight, pending, thread, refused, unanswered>>
    BY DEF Connect
  <1>2. SyncTypes
    BY DEF SyncInv
  <1>3. inbox[p] = <<>>
    BY <1>1 DEF SyncInv, InboxFits
  <1>4. PICK hello, hdr, rest : /\ hello = [t |-> "Hello"]
                                /\ hdr = [t |-> "Headers", hs |-> Holds[p]]
                                /\ rest = (IF p \in SendsHeaders THEN <<hdr>> ELSE <<>>)
                                /\ inbox' = [inbox EXCEPT ![p] = <<hello>> \o rest]
    BY DEF Connect
  <1>5. hello \in SyncMsg /\ hdr \in SyncMsg
    BY <1>4, SyncConstants DEF SyncMsg
  <1>6. rest \in Seq(SyncMsg) /\ ToSet(rest) \subseteq {hdr}
    BY <1>4, <1>5 DEF ToSet
  <1>7. <<hello>> \in Seq(SyncMsg) /\ ToSet(<<hello>>) = {hello}
    BY <1>5 DEF ToSet
  <1>8. PICK new : new = <<hello>> \o rest
    OBVIOUS
  <1>9. new \in Seq(SyncMsg) /\ ToSet(new) \subseteq {hello, hdr} /\ hello \in ToSet(new)
    <2>1. PICK one : one = <<hello>>
      OBVIOUS
    <2>2. one \in Seq(SyncMsg) /\ ToSet(one) = {hello} /\ new = one \o rest
      BY <1>7, <1>8, <2>1
    <2>3. one \in Seq(SyncMsg)
      BY <2>2
    <2>4. rest \in Seq(SyncMsg)
      BY <1>6
    <2>5. one \o rest \in Seq(SyncMsg) /\ ToSet(one \o rest) = ToSet(one) \cup ToSet(rest)
      BY <2>3, <2>4, SeqJoin
    <2> QED BY <1>6, <2>2, <2>5
  <1>10. \A m \in ToSet(new) : MsgFits(p, m)
    BY <1>4, <1>9 DEF MsgFits
  <1>11. link'[p] = "up" /\ link' = [link EXCEPT ![p] = link'[p]]
    BY <1>1, <1>2 DEF SyncTypes
  <1>12. InboxStep(p, new)
    BY <1>1, <1>2, <1>4, <1>8, <1>9, <1>10, <1>11 DEF InboxStep, SyncTypes
  <1>13. Underway(p) = {}
    BY <1>3 DEF Underway, ToSet
  <1>14. Kept \subseteq Kept'
    BY <1>12, <1>13, InboxStepKept
  <1>15. RequestedIsKept' /\ inFlight' \subseteq SyncBlock /\ DOMAIN pending' \subseteq SyncBlock
    BY <1>1, <1>2, <1>14 DEF SyncInv, RequestedIsKept, SyncTypes
  <1>16. ~ \A m \in ToSet(new) : ~IsDue(m)
    BY <1>4, <1>9 DEF IsDue
  <1> QED BY <1>12, <1>14, <1>15, <1>16, InboxStepKeeps

LEMMA DisconnectKeeps ==
    ASSUME SyncInv, NEW p \in SyncPeer, Disconnect(p)
    PROVE  SyncInv'
  <1>1. /\ thread[p] = Idle /\ link' = [link EXCEPT ![p] = "down"]
        /\ UNCHANGED <<have, orphans, inFlight, pending, thread, refused, unasked>>
        /\ inbox' = [inbox EXCEPT ![p] = <<>>] /\ unanswered' = unanswered \cup Underway(p)
    BY DEF Disconnect
  <1>2. SyncTypes
    BY DEF SyncInv
  <1>3. Underway(p) \subseteq SyncBlock
    BY <1>2, UnderwayTyped
  <1>4. link'[p] = "down" /\ link' = [link EXCEPT ![p] = link'[p]]
    BY <1>1, <1>2 DEF SyncTypes
  <1>5. <<>> \in Seq(SyncMsg) /\ ToSet(<<>>) = {}
    BY DEF ToSet
  <1>6. InboxStep(p, <<>>)
    BY <1>1, <1>2, <1>3, <1>4, <1>5 DEF InboxStep, SyncTypes
  <1>7. Kept \subseteq Kept'
    <2>1. Underway(p) \subseteq Kept'
      BY <1>1 DEF Kept
    <2> QED BY <1>6, <2>1, InboxStepKept
  <1>8. RequestedIsKept' /\ inFlight' \subseteq SyncBlock /\ DOMAIN pending' \subseteq SyncBlock
    BY <1>1, <1>2, <1>7 DEF SyncInv, RequestedIsKept, SyncTypes
  <1>9. link'[p] # "up"
    BY <1>4
  <1> QED BY <1>6, <1>7, <1>8, <1>9, InboxStepKeeps

LEMMA ReadsHead ==
    ASSUME SyncInv, NEW p \in SyncPeer, NEW t, Reads(p, t)
    PROVE  /\ link[p] = "up" /\ thread[p] = Idle /\ inbox[p] # <<>>
           /\ Head(inbox[p]) \in SyncMsg /\ Head(inbox[p]).t = t /\ MsgFits(p, Head(inbox[p]))
           /\ Tail(inbox[p]) \in Seq(SyncMsg)
           /\ ToSet(inbox[p]) = ToSet(Tail(inbox[p])) \cup {Head(inbox[p])}
  <1>1. link[p] = "up" /\ thread[p] = Idle /\ inbox[p] # <<>> /\ Head(inbox[p]).t = t
    BY DEF Reads
  <1>2. inbox[p] \in Seq(SyncMsg)
    BY DEF SyncInv, SyncTypes
  <1>3. /\ Head(inbox[p]) \in SyncMsg /\ Tail(inbox[p]) \in Seq(SyncMsg)
        /\ ToSet(inbox[p]) = ToSet(Tail(inbox[p])) \cup {Head(inbox[p])}
    BY <1>1, <1>2, SeqStart
  <1>4. MsgFits(p, Head(inbox[p]))
    BY <1>3 DEF SyncInv, InboxFits
  <1> QED BY <1>1, <1>3, <1>4

(***************************************************************************)
(* A message that is not a block is read, and the answers to what it made  *)
(* the node ask are on the way.                                            *)
(***************************************************************************)
TipsGone(p, t, new) ==
    (\A m \in ToSet(new) : ~IsDue(m)) => t \in {"Hello", "Tips"} \/ \A m \in ToSet(inbox[p]) : ~IsDue(m)

LEMMA InboxRead ==
    ASSUME SyncInv, NEW p \in SyncPeer, NEW t, Reads(p, t), t # "Block",
           NEW a \in Seq(SyncMsg), GoodAnswers(p, a), NEW new, new = Tail(inbox[p]) \o a
    PROVE  /\ new \in Seq(SyncMsg)
           /\ \A m \in ToSet(new) : MsgFits(p, m)
           /\ \A x \in Underway(p) : Sends(new, x)
           /\ ToSet(a) \subseteq ToSet(new)
           /\ TipsGone(p, t, new)
  <1>1. PICK tl, hd : tl = Tail(inbox[p]) /\ hd = Head(inbox[p])
    OBVIOUS
  <1>2. tl \in Seq(SyncMsg) /\ ToSet(inbox[p]) = ToSet(tl) \cup {hd} /\ hd.t = t
    BY <1>1, ReadsHead
  <1>3. new \in Seq(SyncMsg) /\ ToSet(new) = ToSet(tl) \cup ToSet(a)
    BY <1>1, <1>2, SeqJoin
  <1>4. \A m \in ToSet(new) : MsgFits(p, m)
    BY <1>2, <1>3 DEF SyncInv, InboxFits, GoodAnswers
  <1>5. ASSUME NEW x \in Underway(p) PROVE \E m \in ToSet(new) : m.t = "Block" /\ m.h = x
    <2>1. PICK m \in ToSet(inbox[p]) : m.t = "Block" /\ m.h = x
      BY <1>5, UnderwayTyped DEF SyncInv
    <2>2. m # hd
      BY <1>2, <2>1
    <2> QED BY <1>2, <1>3, <2>1, <2>2
  <1> QED BY <1>2, <1>3, <1>4, <1>5 DEF Sends, TipsGone, IsDue

LEMMA RequestsKeep ==
    ASSUME SyncInv, NEW p \in SyncPeer, NEW t, Reads(p, t), t \notin {"Block", "Hello"},
           NEW hs \in Seq(SyncBlock), NEW keep, RequestBlockBodies(p, hs, keep),
           UNCHANGED <<have, orphans, thread, link, unanswered, unasked>>,
           \A x \in ToSet(hs) : x \in Holds[p] \/ x \in Kept,
           DOMAIN keep \subseteq SyncBlock, \A x \in DOMAIN keep : x \in Kept \/ x \in ToSet(hs),
           t = "Tips" => Tips(p) \subseteq ToSet(hs)
    PROVE  SyncInv'
  <1>1. PICK r : r = Requests(hs)
    OBVIOUS
  <1>2. /\ inFlight' = (IF hs = <<>> THEN inFlight ELSE r.flight)
        /\ refused' = refused \cup r.refused
        /\ DOMAIN pending' = DOMAIN keep
        /\ inbox' = [inbox EXCEPT ![p] = Tail(inbox[p]) \o AnswersOf(p, r.asked)]
    BY <1>1, ReadsHead DEF RequestBlockBodies, SyncInv, SyncTypes, AnswersOf
  <1>3. inFlight \subseteq SyncBlock /\ SyncTypes
    BY DEF SyncInv, SyncTypes
  <1>4. ReqFits(inFlight \ have, have, hs, Len(hs), r)
    BY <1>1, <1>3, ReqOutcome
  <1>5. /\ r.flight \subseteq SyncBlock /\ r.asked \in Seq(SyncBlock) /\ r.refused \subseteq SyncBlock
        /\ r.flight \subseteq (inFlight \ have) \cup ToSet(r.asked)
        /\ ToSet(r.asked) \subseteq ToSet(hs)
    BY <1>4 DEF ReqFits, ReqRec
  <1>6. \A x \in ToSet(hs) : x \in have \cup r.flight \cup r.refused
    <2>1. DOMAIN hs = 1..Len(hs)
      OBVIOUS
    <2> QED BY <1>4, <2>1 DEF ReqFits, ToSet
  <1>7. PICK a : a = AnswersOf(p, r.asked)
    OBVIOUS
  <1>8. a \in Seq(SyncMsg) /\ GoodAnswers(p, a) /\ \A x \in ToSet(r.asked) : x \in Holds[p] => Sends(a, x)
    BY <1>5, <1>7, Answers
  <1>9. PICK new : new = Tail(inbox[p]) \o a
    OBVIOUS
  <1>10. /\ new \in Seq(SyncMsg)
         /\ \A m \in ToSet(new) : MsgFits(p, m)
         /\ \A x \in Underway(p) : Sends(new, x)
         /\ ToSet(a) \subseteq ToSet(new)
         /\ TipsGone(p, t, new)
    BY <1>8, <1>9, InboxRead
  <1>11. link[p] = "up" /\ thread[p] = Idle
    BY ReadsHead
  <1>12. InboxStep(p, new)
    <2>1. inbox' = [inbox EXCEPT ![p] = new]
      BY <1>2, <1>7, <1>9
    <2>2. link' = [link EXCEPT ![p] = link'[p]] /\ link'[p] = "up"
      BY <1>3, <1>11 DEF SyncTypes
    <2>3. refused' \subseteq SyncBlock /\ unanswered' \subseteq SyncBlock
      BY <1>2, <1>3, <1>5 DEF SyncTypes
    <2> QED BY <1>2, <1>10, <1>11, <2>1, <2>2, <2>3 DEF InboxStep
  <1>13. \A x : Sends(new, x) => x \in Kept'
    <2> SUFFICES ASSUME NEW m \in ToSet(new), m.t = "Block" PROVE m.h \in Kept'
      BY DEF Sends
    <2>1. inbox'[p] = new
      BY <1>12, InboxStepFrame
    <2>2. m.h \in Underway(p)'
      BY <2>1 DEF Underway
    <2> QED BY <2>2 DEF Kept
  <1>14. Kept \subseteq Kept'
    BY <1>10, <1>12, <1>13, InboxStepKept
  <1>15. ASSUME NEW x \in ToSet(r.asked) PROVE x \in Kept'
    <2>1. CASE x \in Holds[p]
      BY <1>8, <1>10, <1>13, <1>15, <2>1 DEF Sends
    <2>2. CASE x \in Kept
      BY <1>14, <2>2
    <2> QED BY <1>5, <1>15, <2>1, <2>2
  <1>16. inFlight \subseteq Kept'
    BY <1>14 DEF SyncInv, RequestedIsKept
  <1>17. r.flight \subseteq Kept'
    BY <1>5, <1>15, <1>16
  <1>18. have \subseteq Kept' /\ r.refused \subseteq Kept'
    BY <1>2 DEF Kept
  <1>19. ToSet(hs) \subseteq Kept'
    BY <1>6, <1>17, <1>18
  <1>20. DOMAIN pending' \subseteq Kept'
    BY <1>2, <1>14, <1>19
  <1>21. inFlight' \subseteq Kept' /\ inFlight' \subseteq SyncBlock
    BY <1>2, <1>3, <1>5, <1>16, <1>17
  <1>22. RequestedIsKept'
    BY <1>20, <1>21 DEF RequestedIsKept
  <1>23. ASSUME p \notin unasked, \A m \in ToSet(new) : ~IsDue(m) PROVE Tips(p) \subseteq Kept'
    <2>1. CASE t = "Tips"
      BY <1>19, <2>1
    <2>2. CASE \A m \in ToSet(inbox[p]) : ~IsDue(m)
      BY <1>11, <1>14, <1>23, <2>2 DEF SyncInv, TipsAreKept
    <2> QED BY <1>10, <1>23, <2>1, <2>2 DEF TipsGone
  <1>24. DOMAIN pending' \subseteq SyncBlock
    BY <1>2
  <1> QED BY <1>12, <1>14, <1>21, <1>22, <1>23, <1>24, InboxStepKeeps

LEMMA TipsIn == ASSUME NEW p \in SyncPeer PROVE Tips(p) \subseteq Holds[p] /\ Holds[p] \subseteq SyncBlock
  BY SyncConstants DEF Tips

LEMMA SmallSet == ASSUME NEW S, S \subseteq SyncBlock PROVE IsFiniteSet(S)
  BY SyncConstants, FS_Subset

LEMMA HearHelloKeeps ==
    ASSUME SyncInv, NEW p \in SyncPeer, HearHello(p)
    PROVE  SyncInv'
  <1>1. Reads(p, "Hello")
        /\ UNCHANGED <<have, orphans, inFlight, pending, thread, link, refused, unanswered>>
    BY DEF HearHello
  <1>2. SyncTypes
    BY DEF SyncInv
  <1>3. PICK hd, tl : hd = Head(inbox[p]) /\ tl = Tail(inbox[p])
    OBVIOUS
  <1>4. /\ tl \in Seq(SyncMsg) /\ ToSet(inbox[p]) = ToSet(tl) \cup {hd} /\ hd.t = "Hello"
        /\ link[p] = "up" /\ thread[p] = Idle
    BY <1>1, <1>3, ReadsHead
  <1>5. PICK tips : tips = [t |-> "Tips", hs |-> Tips(p)]
    OBVIOUS
  <1>6. tips \in SyncMsg /\ MsgFits(p, tips) /\ IsDue(tips)
    <2>1. Tips(p) \in SUBSET SyncBlock
      BY TipsIn
    <2> QED BY <1>5, <2>1 DEF SyncMsg, MsgFits, IsDue
  <1>7. Append(tl, tips) \in Seq(SyncMsg) /\ ToSet(Append(tl, tips)) = ToSet(tl) \cup {tips}
    BY <1>4, <1>6, SeqAppend
  <1>8. PICK new : new = IF HasHigherBlue(p) THEN Append(tl, tips) ELSE tl
    OBVIOUS
  <1>9. /\ inbox' = [inbox EXCEPT ![p] = new]
        /\ unasked' = IF HasHigherBlue(p) THEN unasked ELSE unasked \cup {p}
    BY <1>2, <1>3, <1>5, <1>8 DEF HearHello, SyncTypes
  <1>10. new \in Seq(SyncMsg) /\ ToSet(tl) \subseteq ToSet(new) /\ ToSet(new) \subseteq ToSet(tl) \cup {tips}
    BY <1>4, <1>7, <1>8
  <1>11. \A m \in ToSet(new) : MsgFits(p, m)
    BY <1>4, <1>6, <1>10 DEF SyncInv, InboxFits
  <1>12. InboxStep(p, new)
    <2>1. link' = [link EXCEPT ![p] = link'[p]] /\ link'[p] = "up"
      BY <1>1, <1>2, <1>4 DEF SyncTypes
    <2> QED BY <1>1, <1>2, <1>4, <1>9, <1>10, <1>11, <2>1 DEF InboxStep, SyncTypes
  <1>13. Underway(p) \subseteq Kept'
    <2> SUFFICES ASSUME NEW x \in Underway(p) PROVE x \in Kept'
      OBVIOUS
    <2>1. PICK m \in ToSet(inbox[p]) : m.t = "Block" /\ m.h = x
      BY <1>2, UnderwayTyped
    <2>2. m \in ToSet(new)
      BY <1>4, <1>10, <2>1
    <2>3. inbox'[p] = new
      BY <1>12, InboxStepFrame
    <2>4. x \in Underway(p)'
      BY <2>1, <2>2, <2>3 DEF Underway
    <2> QED BY <2>4 DEF Kept
  <1>14. Kept \subseteq Kept'
    BY <1>12, <1>13, InboxStepKept
  <1>15. RequestedIsKept' /\ inFlight' \subseteq SyncBlock /\ DOMAIN pending' \subseteq SyncBlock
    BY <1>1, <1>2, <1>14 DEF SyncInv, RequestedIsKept, SyncTypes
  <1>16. p \in unasked' \/ \E m \in ToSet(new) : IsDue(m)
    <2>1. CASE HasHigherBlue(p)
      BY <1>6, <1>7, <1>8, <2>1
    <2>2. CASE ~HasHigherBlue(p)
      BY <1>9, <2>2
    <2> QED BY <2>1, <2>2
  <1> QED BY <1>12, <1>14, <1>15, <1>16, InboxStepKeeps

LEMMA OnTipsKeeps ==
    ASSUME SyncInv, NEW p \in SyncPeer, OnTips(p)
    PROVE  SyncInv'
  <1>1. Reads(p, "Tips") /\ UNCHANGED <<have, orphans, thread, link, unanswered, unasked>>
    BY DEF OnTips
  <1>2. Head(inbox[p]).hs = Tips(p)
    BY <1>1, ReadsHead DEF MsgFits
  <1>3. PICK hs \in SetToSeqs(Tips(p)) : RequestBlockBodies(p, hs, pending)
    BY <1>2 DEF OnTips
  <1>4. IsFiniteSet(Tips(p))
    BY TipsIn, SmallSet
  <1>5. hs \in Seq(Tips(p)) /\ ToSet(hs) = Tips(p)
    BY <1>3, <1>4, OrderCovers
  <1>6. hs \in Seq(SyncBlock)
    <2>1. Tips(p) \subseteq SyncBlock
      BY TipsIn
    <2> QED BY <1>5, <2>1
  <1>7. DOMAIN pending \subseteq SyncBlock /\ DOMAIN pending \subseteq Kept
    BY DEF SyncInv, SyncTypes, RequestedIsKept
  <1>8. "Tips" \notin {"Block", "Hello"}
    OBVIOUS
  <1>9. (\A x \in ToSet(hs) : x \in Holds[p] \/ x \in Kept) /\ \A x \in DOMAIN pending : x \in Kept \/ x \in ToSet(hs)
    BY <1>5, <1>7, TipsIn
  <1>10. Tips(p) \subseteq ToSet(hs)
    BY <1>5
  <1> QED BY <1>1, <1>3, <1>6, <1>7, <1>8, <1>9, <1>10, RequestsKeep

LEMMA OnNotFoundKeeps ==
    ASSUME SyncInv, NEW p \in SyncPeer, OnNotFound(p)
    PROVE  SyncInv'
  <1>1. Reads(p, "NotFound") /\ UNCHANGED <<have, orphans, pending, thread, link, refused, unanswered, unasked>>
        /\ inFlight' \subseteq inFlight
    BY DEF OnNotFound
  <1>2. SyncTypes
    BY DEF SyncInv
  <1>3. PICK new : new = Tail(inbox[p])
    OBVIOUS
  <1>4. inbox' = [inbox EXCEPT ![p] = new]
    BY <1>2, <1>3 DEF OnNotFound, SyncTypes
  <1>5. PICK hd : hd = Head(inbox[p])
    OBVIOUS
  <1>6. new \in Seq(SyncMsg) /\ ToSet(inbox[p]) = ToSet(new) \cup {hd} /\ hd.t = "NotFound" /\ link[p] = "up" /\ thread[p] = Idle
    BY <1>1, <1>3, <1>5, ReadsHead
  <1>7. \A m \in ToSet(new) : MsgFits(p, m)
    BY <1>6 DEF SyncInv, InboxFits
  <1>8. InboxStep(p, new)
    <2>1. link' = [link EXCEPT ![p] = link'[p]] /\ link'[p] = "up"
      BY <1>1, <1>2, <1>6 DEF SyncTypes
    <2> QED BY <1>1, <1>2, <1>4, <1>6, <1>7, <2>1 DEF InboxStep, SyncTypes
  <1>9. Underway(p) \subseteq Kept'
    <2> SUFFICES ASSUME NEW x \in Underway(p) PROVE x \in Kept'
      OBVIOUS
    <2>1. PICK m \in ToSet(inbox[p]) : m.t = "Block" /\ m.h = x
      BY <1>2, UnderwayTyped
    <2>2. m \in ToSet(new)
      BY <1>6, <2>1
    <2>3. inbox'[p] = new
      BY <1>8, InboxStepFrame
    <2>4. x \in Underway(p)'
      BY <2>1, <2>2, <2>3 DEF Underway
    <2> QED BY <2>4 DEF Kept
  <1>10. Kept \subseteq Kept'
    BY <1>8, <1>9, InboxStepKept
  <1>11. RequestedIsKept' /\ inFlight' \subseteq SyncBlock /\ DOMAIN pending' \subseteq SyncBlock
    BY <1>1, <1>2, <1>10 DEF SyncInv, RequestedIsKept, SyncTypes
  <1>12. ASSUME p \notin unasked, \A m \in ToSet(new) : ~IsDue(m) PROVE Tips(p) \subseteq Kept'
    <2>1. \A m \in ToSet(inbox[p]) : ~IsDue(m)
      BY <1>6, <1>12 DEF IsDue
    <2> QED BY <1>6, <1>10, <1>12, <2>1 DEF SyncInv, TipsAreKept
  <1> QED BY <1>1, <1>8, <1>10, <1>11, <1>12, InboxStepKeeps

LEMMA OnHeadersKeeps ==
    ASSUME SyncInv, NEW p \in SyncPeer, OnHeaders(p)
    PROVE  SyncInv'
  <1>1. Reads(p, "Headers") /\ UNCHANGED <<have, orphans, thread, link, unanswered, unasked>>
    BY DEF OnHeaders
  <1>2. Head(inbox[p]).hs = Holds[p]
    BY <1>1, ReadsHead DEF MsgFits
  <1>3. PICK hs : hs = Holds[p] \ have
    OBVIOUS
  <1>4. PICK accepted : accepted = {h \in hs : PrecheckHeader(h)}
    OBVIOUS
  <1>5. PICK parents : parents = UNION {ParentsOf[h] : h \in hs \ accepted}
    OBVIOUS
  <1>6. PICK kept, all, ranked :
           /\ kept \subseteq DOMAIN pending
           /\ all = [h \in kept \cup accepted |-> h \in kept /\ pending[h]]
           /\ ranked \in SetToSeqs({h \in DOMAIN all : accepted # {} /\ ~all[h]})
           /\ RequestBlockBodies(p, SetToSeq(parents) \o ranked, IF accepted = {} THEN pending ELSE all)
    <2> DEFINE hs0 == Head(inbox[p]).hs \ have
               acc == {h \in hs0 : PrecheckHeader(h)}
               par == UNION {ParentsOf[h] : h \in hs0 \ acc}
               overflow == Max({0, Cardinality(DOMAIN pending) + Cardinality(acc) - MAX_PENDING_HEADERS})
               kep(low) == DOMAIN pending \ ToSet(SubSeq(low, 1, Min({overflow, Len(low)})))
               al(low) == [h \in kep(low) \cup acc |-> h \in kep(low) /\ pending[h]]
    <2>1. PICK low : \E rk \in SetToSeqs({h \in DOMAIN al(low) : acc # {} /\ ~al(low)[h]}) :
                        RequestBlockBodies(p, SetToSeq(par) \o rk, IF acc = {} THEN pending ELSE al(low))
      BY DEF OnHeaders, InSomeOrder
    <2>2. hs0 = hs /\ acc = accepted /\ par = parents
      BY <1>2, <1>3, <1>4, <1>5
    <2>3. PICK kp : kp = kep(low)
      OBVIOUS
    <2>4. kp \subseteq DOMAIN pending /\ al(low) = [h \in kp \cup accepted |-> h \in kp /\ pending[h]]
      BY <2>2, <2>3
    <2>5. PICK al1 : al1 = al(low)
      OBVIOUS
    <2>6. PICK rk \in SetToSeqs({h \in DOMAIN al1 : acc # {} /\ ~al1[h]}) :
                        RequestBlockBodies(p, SetToSeq(par) \o rk, IF acc = {} THEN pending ELSE al1)
      BY <2>1, <2>5
    <2> HIDE DEF hs0, acc, par, overflow, kep, al
    <2> QED BY <2>2, <2>4, <2>5, <2>6
  <1>7. PICK R : R = {h \in DOMAIN all : accepted # {} /\ ~all[h]}
    OBVIOUS
  <1>8. DOMAIN pending \subseteq SyncBlock /\ DOMAIN pending \subseteq Kept
    BY DEF SyncInv, SyncTypes, RequestedIsKept
  <1>9. hs \subseteq Holds[p] /\ accepted \subseteq Holds[p] /\ Holds[p] \subseteq SyncBlock
    BY <1>3, <1>4, TipsIn
  <1>10. parents \subseteq Holds[p]
    BY <1>5, <1>9, SyncConstants
  <1>11. DOMAIN all = kept \cup accepted
    BY <1>6
  <1>12. R \subseteq kept \cup accepted /\ R \subseteq SyncBlock
    BY <1>6, <1>7, <1>8, <1>9, <1>11
  <1>13. PICK a : a = SetToSeq(parents)
    OBVIOUS
  <1>14. a \in Seq(parents) /\ ToSet(a) = parents
    <2>1. IsFiniteSet(parents)
      BY <1>9, <1>10, SmallSet
    <2> QED BY <1>13, <2>1, SetAsSeq
  <1>15. ranked \in Seq(R) /\ ToSet(ranked) = R
    <2>1. IsFiniteSet(R) /\ ranked \in SetToSeqs(R)
      BY <1>6, <1>7, <1>12, SmallSet
    <2> QED BY <2>1, OrderCovers
  <1>16. a \in Seq(SyncBlock)
    BY <1>9, <1>10, <1>14
  <1>17. ranked \in Seq(SyncBlock)
    BY <1>12, <1>15
  <1>18. PICK q : q = a \o ranked
    OBVIOUS
  <1>19. q \in Seq(SyncBlock) /\ ToSet(q) = parents \cup R
    BY <1>14, <1>15, <1>16, <1>17, <1>18, SeqJoin
  <1>20. PICK keep : keep = (IF accepted = {} THEN pending ELSE all)
    OBVIOUS
  <1>21. RequestBlockBodies(p, q, keep)
    BY <1>6, <1>13, <1>18, <1>20
  <1>22. DOMAIN keep \subseteq SyncBlock
    BY <1>6, <1>8, <1>9, <1>11, <1>20
  <1>23. \A x \in ToSet(q) : x \in Holds[p] \/ x \in Kept
    BY <1>6, <1>8, <1>9, <1>10, <1>12, <1>19
  <1>24. \A x \in DOMAIN keep : x \in Kept \/ x \in ToSet(q)
    <2>1. CASE accepted = {}
      BY <1>8, <1>20, <2>1
    <2>2. CASE accepted # {}
      <3> SUFFICES ASSUME NEW x \in kept \cup accepted PROVE x \in Kept \/ x \in ToSet(q)
        BY <1>11, <1>20, <2>2
      <3>1. CASE x \in kept
        BY <1>6, <1>8, <3>1
      <3>2. CASE x \notin kept
        <4>1. ~all[x]
          BY <1>6, <3>2
        <4> QED BY <1>7, <1>11, <1>19, <2>2, <4>1
      <3> QED BY <3>1, <3>2
    <2> QED BY <2>1, <2>2
  <1>25. "Headers" \notin {"Block", "Hello"} /\ ("Headers" = "Tips" => Tips(p) \subseteq ToSet(q))
    OBVIOUS
  <1> QED BY <1>1, <1>19, <1>21, <1>22, <1>23, <1>24, <1>25, RequestsKeep

(***************************************************************************)
(* A step that changes only the job of p and the pool, the DAG and the     *)
(* requests that go down with it.                                          *)
(***************************************************************************)
JobStep(p, t) ==
    /\ t \in {Idle} \cup Job
    /\ thread' = [thread EXCEPT ![p] = t]
    /\ UNCHANGED <<inbox, link, unanswered, unasked>>
    /\ have \subseteq have' /\ have' \subseteq SyncBlock
    /\ refused \subseteq refused' /\ refused' \subseteq SyncBlock
    /\ orphans' \in [SyncBlock -> SUBSET Item]
    /\ inFlight' \subseteq inFlight /\ DOMAIN pending' \subseteq DOMAIN pending

LEMMA JobStepKept ==
    ASSUME SyncInv, NEW p \in SyncPeer, NEW t, JobStep(p, t), Ahead(p) \subseteq Kept', Orphaned \subseteq Kept'
    PROVE  Kept \subseteq Kept'
  <1>1. \A s \in SyncPeer : s # p => thread'[s] = thread[s]
    BY ThreadsSet DEF SyncInv, JobStep
  <1>2. ASSUME NEW q \in SyncPeer PROVE Underway(q) \subseteq Kept'
    BY DEF JobStep, Kept, Underway
  <1>3. ASSUME NEW q \in SyncPeer PROVE Ahead(q) \subseteq Kept'
    <2>1. CASE q = p
      BY <2>1
    <2>2. CASE q # p
      <3>1. Ahead(q)' = Ahead(q)
        BY <1>1, <2>2, SameThread
      <3> QED BY <3>1 DEF Kept
    <2> QED BY <2>1, <2>2
  <1>4. have \subseteq have' /\ refused \subseteq refused' /\ unanswered \subseteq unanswered'
    BY DEF JobStep
  <1> QED BY <1>2, <1>3, <1>4, KeptGrows

LEMMA JobStepKeeps ==
    ASSUME SyncInv, NEW p \in SyncPeer, NEW t, JobStep(p, t), Kept \subseteq Kept',
           HaveClosed', OrphansFit', JobStays(p),
           \A z \in Work(p)' : z \in Carried, Orphaned' \subseteq Carried
    PROVE  SyncInv'
  <1>1. SyncTypes
    BY DEF SyncInv
  <1>2. thread' \in [SyncPeer -> {Idle} \cup Job] /\ \A s \in SyncPeer : s # p => thread'[s] = thread[s]
    BY <1>1, ThreadsSet DEF JobStep
  <1>3. SyncTypes'
    BY <1>1, <1>2 DEF JobStep, SyncTypes
  <1>4. InboxFits'
    BY DEF SyncInv, InboxFits, JobStep, MsgFits, Tips
  <1>5. RequestedIsKept'
    BY DEF SyncInv, RequestedIsKept, JobStep
  <1>6. TipsAreKept'
    BY DEF SyncInv, TipsAreKept, JobStep, Tips
  <1>7. OnlyThread(p)
    BY <1>2 DEF OnlyThread, JobStep
  <1>8. ASSUME NEW s \in SyncPeer PROVE Work(s)' \subseteq Carried
    <2>1. CASE s = p
      BY <2>1
    <2>2. CASE s # p
      <3>1. Work(s)' = Work(s)
        BY <1>2, <2>2, SameThread
      <3> QED BY <3>1 DEF Carried
    <2> QED BY <2>1, <2>2
  <1>9. Carried' \subseteq Carried
    BY <1>8, CarriedSame
  <1>10. have \subseteq have' /\ UnaskedLower'
    BY LowerStays DEF JobStep
  <1> QED BY <1>3, <1>4, <1>5, <1>6, <1>7, <1>9, <1>10, StepKeeps

LEMMA WorkIs ==
    ASSUME SyncTypes, NEW p \in SyncPeer, Busy(p), thread[p].queue # <<>>
    PROVE  /\ Cur(p) \in SyncBlock /\ Cur(p) \in Work(p) /\ Work(p) \subseteq SyncBlock
           /\ Names(ToSet(Front(thread[p].queue))) \subseteq Work(p)
           /\ Work(p) = Names(ToSet(Front(thread[p].queue))) \cup {Cur(p)}
  <1>1. PICK q : q = thread[p].queue
    OBVIOUS
  <1>2. q \in Seq(Item)
    BY <1>1, JobShape DEF Busy
  <1>3. Last(q) \in Item /\ ToSet(q) = ToSet(Front(q)) \cup {Last(q)} /\ ToSet(q) \subseteq Item
    BY <1>1, <1>2, SeqEnd, SeqWithin
  <1>4. Work(p) = Names(ToSet(q)) /\ Cur(p) = Last(q).h
    BY <1>1 DEF Work, Cur
  <1>5. Names(ToSet(q)) = Names(ToSet(Front(q))) \cup {Last(q).h}
    BY <1>3 DEF Names
  <1>6. Names(ToSet(q)) \subseteq SyncBlock
    BY <1>3 DEF Names, Item
  <1> QED BY <1>1, <1>4, <1>5, <1>6

LEMMA DoneWork ==
    ASSUME SyncTypes, NEW p \in SyncPeer, Busy(p), thread[p].queue # <<>>, thread'[p] = Done(thread[p])
    PROVE  /\ Busy(p)' /\ ~At(p, "ask")' /\ thread'[p].pc = "next" /\ thread'[p].first = FALSE
           /\ Ahead(p)' = Work(p)' /\ Work(p) = Work(p)' \cup {Cur(p)}
  <1>1. thread[p] \in Job
    BY DEF Busy
  <1>2. /\ Done(thread[p]) \in Job /\ Done(thread[p]).pc = "next" /\ Done(thread[p]).first = FALSE
        /\ Done(thread[p]).queue = Front(thread[p].queue)
    BY <1>1, DoneJob
  <1>3. Busy(p)' /\ ~At(p, "ask")' /\ thread'[p].pc = "next" /\ thread'[p].first = FALSE
    BY <1>2 DEF Busy, At
  <1>4. thread'[p].queue = Front(thread[p].queue)
    BY <1>2
  <1>5. Work(p)' = Names(ToSet(Front(thread[p].queue))) /\ Ahead(p)' = Names(ToSet(Front(thread[p].queue)))
    BY <1>3, <1>4 DEF Work, Ahead, Names
  <1> QED BY <1>3, <1>5, WorkIs

LEMMA JobStepSets ==
    ASSUME SyncInv, NEW p \in SyncPeer, NEW t, JobStep(p, t)
    PROVE  thread'[p] = t
  BY ThreadsSet DEF SyncInv, JobStep

LEMMA DoneStep ==
    ASSUME SyncInv, NEW p \in SyncPeer, Busy(p), thread[p].queue # <<>>, JobStep(p, Done(thread[p])),
           have' = have, orphans' = orphans, Cur(p) \in have' \cup refused', Missing(Cur(p)) = {}
    PROVE  SyncInv'
  <1>1. thread'[p] = Done(thread[p]) /\ SyncTypes
    BY JobStepSets DEF SyncInv
  <1>2. /\ Busy(p)' /\ ~At(p, "ask")' /\ thread'[p].pc = "next" /\ thread'[p].first = FALSE
        /\ Ahead(p)' = Work(p)' /\ Work(p) = Work(p)' \cup {Cur(p)}
    BY <1>1, DoneWork
  <1>3. Ahead(p)' \subseteq Kept' /\ Cur(p) \in Kept'
    BY DEF Kept
  <1>4. Ahead(p) \subseteq Work(p)
    BY <1>1, WorkIs DEF Ahead, Work
  <1>5. Orphaned' = Orphaned /\ Orphaned' \subseteq Kept'
    BY DEF Orphaned, Kept
  <1>6. Kept \subseteq Kept'
    BY <1>2, <1>3, <1>4, <1>5, JobStepKept
  <1>7. link'[p] = "up"
    BY DEF SyncInv, JobsFit, JobFits, JobStep
  <1>8. JobFits(p)'
    BY <1>2, <1>7 DEF JobFits
  <1>9. Missing(Cur(p))' = Missing(Cur(p))' /\ \A z : Asker(p, z) => Missing(z)' \subseteq Kept'
    BY DEF Asker, Missing
  <1>10. JobStays(p)
    BY <1>2, <1>8, <1>9 DEF JobStays
  <1>11. HaveClosed' /\ OrphansFit'
    BY DEF SyncInv, HaveClosed, OrphansFit
  <1>12. (\A z \in Work(p)' : z \in Carried) /\ Orphaned' \subseteq Carried
    BY <1>2, <1>5 DEF Carried
  <1> QED BY <1>6, <1>10, <1>11, <1>12, JobStepKeeps

LEMMA SameQueue ==
    ASSUME NEW p \in SyncPeer, Busy(p), thread'[p] \in Job,
           thread'[p].queue = thread[p].queue, thread'[p].first = thread[p].first
    PROVE  /\ Busy(p)' /\ Cur(p)' = Cur(p) /\ Work(p)' = Work(p)
           /\ \A z : Asker(p, z)' = Asker(p, z)
           /\ thread[p].pc # "ask" => Ahead(p) = Work(p)
           /\ thread'[p].pc # "ask" => Ahead(p)' = Work(p)'
  <1>1. Busy(p)' /\ Cur(p)' = Cur(p)
    BY DEF Busy, Cur
  <1>2. Work(p)' = Work(p)
    BY <1>1 DEF Work, Names
  <1>3. \A z : Asker(p, z)' = Asker(p, z)
    BY <1>1 DEF Asker
  <1>4. thread[p].pc # "ask" => Ahead(p) = Work(p)
    BY DEF Ahead, Work, At
  <1>5. thread'[p].pc # "ask" => Ahead(p)' = Work(p)'
    BY <1>1 DEF Ahead, Work, At
  <1> QED BY <1>1, <1>2, <1>3, <1>4, <1>5

LEMMA MoveStep ==
    ASSUME SyncInv, NEW p \in SyncPeer, Busy(p), NEW t \in Job, JobStep(p, t),
           t.queue = thread[p].queue, t.first = thread[p].first, thread[p].pc # "ask", t.pc # "ask",
           have' = have, orphans' = orphans, JobFits(p)'
    PROVE  SyncInv'
  <1>1. thread'[p] = t /\ SyncTypes
    BY JobStepSets DEF SyncInv
  <1>2. /\ Busy(p)' /\ Cur(p)' = Cur(p) /\ Work(p)' = Work(p)
        /\ \A z : Asker(p, z)' = Asker(p, z)
        /\ Ahead(p) = Work(p) /\ Ahead(p)' = Work(p)'
    BY <1>1, SameQueue
  <1>3. Ahead(p)' \subseteq Kept'
    BY DEF Kept
  <1>4. Orphaned' = Orphaned /\ Orphaned' \subseteq Kept'
    BY DEF Orphaned, Kept
  <1>5. Kept \subseteq Kept'
    BY <1>2, <1>3, <1>4, JobStepKept
  <1>6. ~At(p, "ask")'
    BY <1>1 DEF At
  <1>7. JobStays(p)
    BY <1>2, <1>6 DEF JobStays
  <1>8. HaveClosed' /\ OrphansFit'
    BY DEF SyncInv, HaveClosed, OrphansFit
  <1>9. (\A z \in Work(p)' : z \in Carried) /\ Orphaned' \subseteq Carried
    BY <1>2, <1>4 DEF Carried
  <1> QED BY <1>5, <1>7, <1>8, <1>9, JobStepKeeps

LEMMA AtBusy ==
    ASSUME SyncInv, NEW p \in SyncPeer, NEW pc \in Pcs, At(p, pc)
    PROVE  Busy(p) /\ thread[p] \in Job /\ thread[p].pc = pc /\ JobFits(p) /\ SyncTypes
  <1>1. pc # "idle"
    BY DEF Pcs
  <1>2. Busy(p) /\ SyncTypes
    BY <1>1, JobsOf DEF SyncInv, At
  <1> QED BY <1>2 DEF SyncInv, JobsFit, Busy, At

(***************************************************************************)
(* One look at the block at hand: it is done with, or goes on to another   *)
(* step with nothing else changed.                                         *)
(***************************************************************************)
LEMMA Looked ==
    ASSUME SyncInv, NEW p \in SyncPeer, Busy(p), thread[p].pc \in {"next", "check"}, thread[p].queue # <<>>,
           UNCHANGED <<have, orphans, inFlight, pending, inbox, link, unanswered, unasked>>,
           refused \subseteq refused', refused' \subseteq refused \cup {Cur(p)},
           \/ /\ thread' = [thread EXCEPT ![p] = Done(thread[p])]
              /\ Cur(p) \in have' \cup refused' /\ Missing(Cur(p)) = {}
           \/ \E c \in {"check", "missing", "add"} :
                 /\ thread' = [thread EXCEPT ![p].pc = c]
                 /\ c = "add" => Missing(Cur(p)) = {}
    PROVE  SyncInv'
  <1>1. thread[p] \in Job /\ JobFits(p) /\ SyncTypes
    BY DEF SyncInv, JobsFit, Busy
  <1>2. Cur(p) \in SyncBlock
    BY <1>1, WorkIs
  <1>3. refused' \subseteq SyncBlock
    BY <1>1, <1>2 DEF SyncTypes
  <1>4. ASSUME NEW t \in Job, thread' = [thread EXCEPT ![p] = t] PROVE JobStep(p, t)
    BY <1>1, <1>3, <1>4 DEF JobStep, SyncTypes
  <1>5. CASE /\ thread' = [thread EXCEPT ![p] = Done(thread[p])]
             /\ Cur(p) \in have' \cup refused' /\ Missing(Cur(p)) = {}
    <2>1. Done(thread[p]) \in Job
      BY <1>1, DoneJob
    <2>2. JobStep(p, Done(thread[p]))
      BY <1>4, <1>5, <2>1
    <2> QED BY <1>5, <2>2, DoneStep
  <1>6. CASE \E c \in {"check", "missing", "add"} :
               /\ thread' = [thread EXCEPT ![p].pc = c]
               /\ c = "add" => Missing(Cur(p)) = {}
    <2>0. PICK c \in {"check", "missing", "add"} :
               /\ thread' = [thread EXCEPT ![p].pc = c]
               /\ c = "add" => Missing(Cur(p)) = {}
      BY <1>6
    <2>1. PICK t : t = [thread[p] EXCEPT !.pc = c]
      OBVIOUS
    <2>2. t \in Job /\ t.queue = thread[p].queue /\ t.first = thread[p].first /\ t.pc = c
      BY <1>1, <2>0, <2>1 DEF Job, Pcs
    <2>3. thread' = [thread EXCEPT ![p] = t]
      BY <1>1, <2>0, <2>1 DEF SyncTypes
    <2>4. JobStep(p, t)
      BY <1>4, <2>2, <2>3
    <2>5. thread'[p] = t
      BY <2>4, JobStepSets
    <2>6. Cur(p)' = Cur(p) /\ Missing(Cur(p))' = Missing(Cur(p))
      BY <2>2, <2>5 DEF Cur, Missing
    <2>7. c # "ask" /\ c # "buffer" /\ c # "next"
      BY <2>0
    <2>8. JobFits(p)'
      BY <1>1, <2>0, <2>2, <2>5, <2>6, <2>7 DEF JobFits
    <2>9. thread[p].pc # "ask" /\ t.pc # "ask"
      BY <2>2, <2>7
    <2> QED BY <2>2, <2>4, <2>8, <2>9, MoveStep
  <1> QED BY <1>5, <1>6

LEMMA KnownHasParents ==
    ASSUME SyncInv, NEW b \in have
    PROVE  Missing(b) = {}
  BY DEF SyncInv, HaveClosed, Missing

LEMMA SkipKnownKeeps ==
    ASSUME SyncInv, NEW p \in SyncPeer, SkipKnown(p)
    PROVE  SyncInv'
  <1>1. /\ At(p, "next") /\ thread[p].queue # <<>>
        /\ UNCHANGED <<have, orphans, inFlight, pending, inbox, link, refused, unanswered, unasked>>
    BY DEF SkipKnown
  <1>2. "next" \in Pcs
    BY DEF Pcs
  <1>3. Busy(p) /\ thread[p] \in Job /\ thread[p].pc = "next" /\ JobFits(p) /\ SyncTypes
    BY <1>1, <1>2, AtBusy
  <1>4. CASE Cur(p) \in have
    <2>1. thread' = [thread EXCEPT ![p] = Done(thread[p])]
      BY <1>3, <1>4 DEF SkipKnown, SyncTypes
    <2>2. Missing(Cur(p)) = {} /\ Cur(p) \in have' \cup refused'
      BY <1>1, <1>4, KnownHasParents
    <2> QED BY <1>1, <1>3, <2>1, <2>2, Looked
  <1>5. CASE Cur(p) \notin have
    <2>1. thread' = [thread EXCEPT ![p].pc = "check"]
      BY <1>3, <1>5 DEF SkipKnown, SyncTypes
    <2> QED BY <1>1, <1>3, <2>1, Looked
  <1> QED BY <1>4, <1>5

LEMMA PrecheckKeeps ==
    ASSUME SyncInv, NEW p \in SyncPeer, Precheck(p)
    PROVE  SyncInv'
  <1>1. At(p, "check") /\ UNCHANGED <<have, orphans, inFlight, pending, inbox, link, unanswered, unasked>>
    BY DEF Precheck
  <1>2. "check" \in Pcs
    BY DEF Pcs
  <1>3. Busy(p) /\ thread[p] \in Job /\ thread[p].pc = "check" /\ JobFits(p) /\ SyncTypes
    BY <1>1, <1>2, AtBusy
  <1>4. thread[p].queue # <<>>
    BY <1>3 DEF JobFits
  <1>5. \/ /\ Cur(p) \in have /\ refused' = refused
           /\ thread' = [thread EXCEPT ![p] = Done(thread[p])]
        \/ refused' = refused /\ thread' = [thread EXCEPT ![p].pc = "missing"]
        \/ /\ Missing(Cur(p)) = {} /\ refused' = refused \cup {Cur(p)}
           /\ thread' = [thread EXCEPT ![p] = Done(thread[p])]
        \/ /\ Missing(Cur(p)) = {} /\ refused' = refused
           /\ thread' = [thread EXCEPT ![p].pc = "add"]
    BY <1>3 DEF Precheck, SyncTypes
  <1>6. CASE /\ Cur(p) \in have /\ refused' = refused
             /\ thread' = [thread EXCEPT ![p] = Done(thread[p])]
    <2>1. Missing(Cur(p)) = {} /\ Cur(p) \in have' \cup refused'
      BY <1>1, <1>6, KnownHasParents
    <2> QED BY <1>1, <1>3, <1>4, <1>6, <2>1, Looked
  <1>7. CASE refused' = refused /\ thread' = [thread EXCEPT ![p].pc = "missing"]
    BY <1>1, <1>3, <1>4, <1>7, Looked
  <1>8. CASE /\ Missing(Cur(p)) = {} /\ refused' = refused \cup {Cur(p)}
             /\ thread' = [thread EXCEPT ![p] = Done(thread[p])]
    <2>1. Cur(p) \in have' \cup refused'
      BY <1>8
    <2> QED BY <1>1, <1>3, <1>4, <1>8, <2>1, Looked
  <1>9. CASE /\ Missing(Cur(p)) = {} /\ refused' = refused
             /\ thread' = [thread EXCEPT ![p].pc = "add"]
    BY <1>1, <1>3, <1>4, <1>9, Looked
  <1> QED BY <1>5, <1>6, <1>7, <1>8, <1>9

LEMMA ReadMissingKeeps ==
    ASSUME SyncInv, NEW p \in SyncPeer, ReadMissing(p)
    PROVE  SyncInv'
  <1>1. At(p, "missing") /\ UNCHANGED <<have, orphans, inFlight, pending, inbox, link, refused, unanswered, unasked>>
    BY DEF ReadMissing
  <1>2. "missing" \in Pcs
    BY DEF Pcs
  <1>3. Busy(p) /\ thread[p] \in Job /\ thread[p].pc = "missing" /\ JobFits(p) /\ SyncTypes
    BY <1>1, <1>2, AtBusy
  <1>4. thread[p].queue # <<>>
    BY <1>3 DEF JobFits
  <1>5. Cur(p) \in SyncBlock
    BY <1>3, <1>4, WorkIs
  <1>6. Missing(Cur(p)) \subseteq SyncBlock /\ Missing(Cur(p)) \subseteq ParentsOf[Cur(p)]
    BY <1>5, SyncConstants DEF Missing
  <1>7. PICK t : t = [thread[p] EXCEPT !.pc = "buffer", !.missing = Missing(Cur(p))]
    OBVIOUS
  <1>8. /\ t \in Job /\ t.queue = thread[p].queue /\ t.first = thread[p].first /\ t.pc = "buffer"
        /\ t.missing = Missing(Cur(p))
    BY <1>3, <1>6, <1>7 DEF Job, Pcs
  <1>9. thread' = [thread EXCEPT ![p] = t]
    BY <1>3, <1>7 DEF ReadMissing, SyncTypes
  <1>10. JobStep(p, t)
    BY <1>1, <1>3, <1>8, <1>9 DEF JobStep, SyncTypes
  <1>11. thread'[p] = t
    BY <1>10, JobStepSets
  <1>12. Cur(p)' = Cur(p) /\ Missing(Cur(p))' = Missing(Cur(p))
    BY <1>1, <1>8, <1>11 DEF Cur, Missing
  <1>13. JobFits(p)'
    BY <1>1, <1>3, <1>4, <1>6, <1>8, <1>11, <1>12 DEF JobFits
  <1>14. thread[p].pc # "ask" /\ t.pc # "ask"
    BY <1>3, <1>8
  <1> QED BY <1>1, <1>3, <1>8, <1>10, <1>13, <1>14, MoveStep

(***************************************************************************)
(* Buffered, added or expired: a block leaves the thread for the pool, the *)
(* pool for a thread, or either for the known or the refused blocks.       *)
(***************************************************************************)
LEMMA ItemsFinite == ASSUME NEW S, S \subseteq Item PROVE IsFiniteSet(S)
  <1>1. IsFiniteSet(BOOLEAN)
    <2>1. BOOLEAN = {} \cup {TRUE} \cup {FALSE}
      OBVIOUS
    <2>2. IsFiniteSet({})
      BY FS_EmptySet
    <2>3. IsFiniteSet({} \cup {TRUE})
      BY <2>2, FS_AddElement
    <2>4. IsFiniteSet({} \cup {TRUE} \cup {FALSE})
      BY <2>3, FS_AddElement
    <2> QED BY <2>1, <2>4
  <1>2. PICK P : P = SyncBlock \X BOOLEAN
    OBVIOUS
  <1>3. IsFiniteSet(P)
    BY <1>1, <1>2, SyncConstants, FS_Product
  <1>4. PICK f : f = [x \in P |-> [h |-> x[1], full |-> x[2]]]
    OBVIOUS
  <1>5. PICK R : R = {f[x] : x \in P}
    OBVIOUS
  <1>6. IsFiniteSet(R)
    <2>1. f \in Surjection(P, R)
      BY <1>4, <1>5 DEF Surjection
    <2> QED BY <1>3, <2>1, FS_Surjection
  <1>7. Item \subseteq R
    <2> SUFFICES ASSUME NEW w \in Item PROVE w \in R
      OBVIOUS
    <2>1. w = [h |-> w.h, full |-> w.full] /\ w.h \in SyncBlock /\ w.full \in BOOLEAN
      BY DEF Item
    <2>2. <<w.h, w.full>> \in P
      BY <1>2, <2>1
    <2>3. f[<<w.h, w.full>>] = w
      BY <1>4, <2>1, <2>2
    <2> QED BY <1>5, <2>2, <2>3
  <1> QED BY <1>6, <1>7, FS_Subset

LEMMA OrphanedIs ==
    ASSUME orphans \in [SyncBlock -> SUBSET Item]
    PROVE  /\ \A x : x \in Orphaned <=> \E y \in SyncBlock : \E w \in orphans[y] : w.h = x
           /\ Orphaned \subseteq SyncBlock
  BY DEF Orphaned, Names, Item

LEMMA BufferOrphanKeeps ==
    ASSUME SyncInv, NEW p \in SyncPeer, BufferOrphan(p)
    PROVE  SyncInv'
  <1>1. At(p, "buffer") /\ UNCHANGED <<have, inFlight, pending, inbox, link, unanswered, unasked>>
        /\ thread' = [thread EXCEPT ![p].pc = "ask"]
    BY DEF BufferOrphan
  <1>2. "buffer" \in Pcs
    BY DEF Pcs
  <1>3. Busy(p) /\ thread[p] \in Job /\ thread[p].pc = "buffer" /\ JobFits(p) /\ SyncTypes
    BY <1>1, <1>2, AtBusy
  <1>4. thread[p].queue # <<>>
    BY <1>3 DEF JobFits
  <1>5. /\ Cur(p) \in SyncBlock /\ Cur(p) \in Work(p)
        /\ Work(p) = Names(ToSet(Front(thread[p].queue))) \cup {Cur(p)}
    BY <1>3, <1>4, WorkIs
  <1>6. /\ Missing(Cur(p)) \subseteq thread[p].missing /\ thread[p].missing \subseteq ParentsOf[Cur(p)]
        /\ thread[p].missing \subseteq SyncBlock
    BY <1>3, JobShape DEF JobFits
  <1>7. PICK e : e = [h |-> Cur(p), full |-> Full(p)]
    OBVIOUS
  <1>8. e \in Item /\ e.h = Cur(p)
    <2>1. Last(thread[p].queue) \in Item
      BY <1>3, <1>4, JobShape, SeqEnd
    <2> QED BY <1>7, <2>1 DEF Item, Cur, Full
  <1>10. \/ refused' = refused \cup {Cur(p)} /\ orphans' = orphans
         \/ /\ refused' = refused /\ thread[p].missing # {}
            /\ orphans' = [b \in SyncBlock |->
                  IF b \notin thread[p].missing \/ \E w \in orphans[b] : w.h = Cur(p) THEN orphans[b]
                  ELSE orphans[b] \cup {e}]
    BY <1>7 DEF BufferOrphan
  <1>11. PICK t : t = [thread[p] EXCEPT !.pc = "ask"]
    OBVIOUS
  <1>12. /\ t \in Job /\ t.queue = thread[p].queue /\ t.first = thread[p].first /\ t.pc = "ask"
         /\ t.missing = thread[p].missing
    BY <1>3, <1>11 DEF Job, Pcs
  <1>13. thread' = [thread EXCEPT ![p] = t]
    BY <1>1, <1>3, <1>11 DEF SyncTypes
  <1>14. orphans \in [SyncBlock -> SUBSET Item]
    BY <1>3 DEF SyncTypes
  <1>15. /\ orphans' \in [SyncBlock -> SUBSET Item]
         /\ \A y \in SyncBlock : orphans[y] \subseteq orphans'[y]
         /\ \A y \in SyncBlock : \A w \in orphans'[y] : w \in orphans[y] \/ (w = e /\ y \in thread[p].missing)
         /\ refused \subseteq refused' /\ refused' \subseteq SyncBlock
    <2>1. CASE refused' = refused \cup {Cur(p)} /\ orphans' = orphans
      BY <1>3, <1>5, <2>1 DEF SyncTypes
    <2>2. CASE /\ refused' = refused
               /\ orphans' = [b \in SyncBlock |->
                     IF b \notin thread[p].missing \/ \E w \in orphans[b] : w.h = Cur(p) THEN orphans[b]
                     ELSE orphans[b] \cup {e}]
      BY <1>3, <1>8, <2>2 DEF SyncTypes
    <2> QED BY <1>10, <2>1, <2>2
  <1>16. /\ \A x : x \in Orphaned <=> \E y \in SyncBlock : \E w \in orphans[y] : w.h = x
         /\ \A x : x \in Orphaned' <=> \E y \in SyncBlock : \E w \in orphans'[y] : w.h = x
    BY <1>14, <1>15 DEF Orphaned, Names
  <1>17. Orphaned \subseteq Orphaned' /\ Orphaned' \subseteq Orphaned \cup {Cur(p)}
    BY <1>8, <1>15, <1>16
  <1>18. Cur(p) \in Kept'
    <2>1. CASE refused' = refused \cup {Cur(p)}
      BY <2>1 DEF Kept
    <2>2. CASE /\ thread[p].missing # {}
               /\ orphans' = [b \in SyncBlock |->
                     IF b \notin thread[p].missing \/ \E w \in orphans[b] : w.h = Cur(p) THEN orphans[b]
                     ELSE orphans[b] \cup {e}]
      <3>1. PICK y \in thread[p].missing : y \in SyncBlock
        BY <1>6, <2>2
      <3>2. \E w \in orphans'[y] : w.h = Cur(p)
        BY <1>8, <2>2, <3>1
      <3>3. Cur(p) \in Orphaned'
        BY <1>16, <3>1, <3>2
      <3> QED BY <3>3 DEF Kept
    <2> QED BY <1>10, <2>1, <2>2
  <1>19. JobStep(p, t)
    BY <1>1, <1>3, <1>12, <1>13, <1>15 DEF JobStep, SyncTypes
  <1>20. thread'[p] = t
    BY <1>19, JobStepSets
  <1>21. /\ Busy(p)' /\ Cur(p)' = Cur(p) /\ Work(p)' = Work(p)
         /\ \A z : Asker(p, z)' = Asker(p, z)
         /\ Ahead(p) = Work(p)
    BY <1>3, <1>12, <1>20, SameQueue
  <1>22. Ahead(p)' = Names(ToSet(Front(thread[p].queue)))
    BY <1>12, <1>20, <1>21 DEF Ahead, At, Names
  <1>23. Ahead(p)' \subseteq Kept' /\ Orphaned' \subseteq Kept'
    BY DEF Kept
  <1>24. Kept \subseteq Kept'
    BY <1>5, <1>17, <1>18, <1>19, <1>21, <1>22, <1>23, JobStepKept
  <1>25. Missing(Cur(p))' = Missing(Cur(p))
    BY <1>1, <1>21 DEF Missing
  <1>26. JobFits(p)'
    BY <1>1, <1>3, <1>4, <1>6, <1>12, <1>20, <1>21, <1>25 DEF JobFits
  <1>27. JobStays(p)
    BY <1>18, <1>21, <1>26 DEF JobStays
  <1>28. HaveClosed'
    BY <1>1 DEF SyncInv, HaveClosed
  <1>29. OrphansFit'
    BY <1>6, <1>8, <1>15 DEF SyncInv, OrphansFit
  <1>30. (\A z \in Work(p)' : z \in Carried) /\ Orphaned' \subseteq Carried
    BY <1>5, <1>17, <1>21 DEF Carried
  <1> QED BY <1>19, <1>24, <1>27, <1>28, <1>29, <1>30, JobStepKeeps

LEMMA AddToDagKeeps ==
    ASSUME SyncInv, NEW p \in SyncPeer, AddToDag(p)
    PROVE  SyncInv'
  <1>1. At(p, "add") /\ UNCHANGED <<inbox, link, refused, unanswered, unasked>>
    BY DEF AddToDag
  <1>2. "add" \in Pcs
    BY DEF Pcs
  <1>3. Busy(p) /\ thread[p] \in Job /\ thread[p].pc = "add" /\ JobFits(p) /\ SyncTypes
    BY <1>1, <1>2, AtBusy
  <1>4. thread[p].queue # <<>> /\ Missing(Cur(p)) = {}
    BY <1>3 DEF JobFits
  <1>5. PICK b : b = Cur(p)
    OBVIOUS
  <1>6. /\ b \in SyncBlock /\ b \in Work(p)
        /\ Work(p) = Names(ToSet(Front(thread[p].queue))) \cup {b}
    BY <1>3, <1>4, <1>5, WorkIs
  <1>7. PICK d : d = Done(thread[p])
    OBVIOUS
  <1>8. d \in Job /\ d.pc = "next" /\ d.queue = Front(thread[p].queue) /\ d.first = FALSE
    BY <1>3, <1>4, <1>7, DoneJob
  <1>9. \/ /\ b \in have /\ thread' = [thread EXCEPT ![p] = d]
           /\ UNCHANGED <<have, orphans, inFlight, pending>>
        \/ /\ b \notin have /\ have' = have \cup {b} /\ inFlight' = inFlight \ {b}
           /\ DOMAIN pending' = DOMAIN pending \ {b}
           /\ thread' = [thread EXCEPT ![p] = Tries(d, orphans[b])]
           /\ orphans' = [orphans EXCEPT ![b] = {}]
    <2>1. \/ /\ Cur(p) \in have /\ thread' = [thread EXCEPT ![p] = Done(thread[p])]
             /\ UNCHANGED <<have, orphans, inFlight, pending>>
          \/ /\ Cur(p) \notin have /\ have' = have \cup {Cur(p)} /\ inFlight' = inFlight \ {Cur(p)}
             /\ pending' = [h \in DOMAIN pending \ {Cur(p)} |-> pending[h]]
             /\ thread' = [thread EXCEPT ![p] = Tries(Done(thread[p]), orphans[Cur(p)])]
             /\ orphans' = [orphans EXCEPT ![Cur(p)] = {}]
      BY DEF AddToDag, Unlocked
    <2>2. CASE /\ Cur(p) \in have /\ thread' = [thread EXCEPT ![p] = Done(thread[p])]
               /\ UNCHANGED <<have, orphans, inFlight, pending>>
      BY <1>5, <1>7, <2>2
    <2>3. CASE /\ Cur(p) \notin have /\ have' = have \cup {Cur(p)} /\ inFlight' = inFlight \ {Cur(p)}
               /\ pending' = [h \in DOMAIN pending \ {Cur(p)} |-> pending[h]]
               /\ thread' = [thread EXCEPT ![p] = Tries(Done(thread[p]), orphans[Cur(p)])]
               /\ orphans' = [orphans EXCEPT ![Cur(p)] = {}]
      BY <1>5, <1>7, <2>3
    <2> QED BY <2>1, <2>2, <2>3
  <1>10. CASE /\ b \in have /\ thread' = [thread EXCEPT ![p] = d]
              /\ UNCHANGED <<have, orphans, inFlight, pending>>
    <2>1. JobStep(p, Done(thread[p]))
      BY <1>1, <1>3, <1>7, <1>8, <1>10 DEF JobStep, SyncTypes
    <2> QED BY <1>3, <1>4, <1>5, <1>10, <2>1, DoneStep
  <1>11. CASE /\ b \notin have /\ have' = have \cup {b} /\ inFlight' = inFlight \ {b}
              /\ DOMAIN pending' = DOMAIN pending \ {b}
              /\ thread' = [thread EXCEPT ![p] = Tries(d, orphans[b])]
              /\ orphans' = [orphans EXCEPT ![b] = {}]
    <2>1. PICK u : u = SetToSeq(orphans[b])
      OBVIOUS
    <2>2. orphans[b] \subseteq Item
      BY <1>3, <1>6 DEF SyncTypes
    <2>3. u \in Seq(orphans[b]) /\ ToSet(u) = orphans[b]
      BY <2>1, <2>2, ItemsFinite, SetAsSeq
    <2>4. u \in Seq(Item)
      BY <2>2, <2>3
    <2>5. PICK f : f = Front(thread[p].queue)
      OBVIOUS
    <2>6. f \in Seq(Item) /\ d.queue = f
      BY <1>8, <2>5, JobShape
    <2>7. f \o u \in Seq(Item) /\ ToSet(f \o u) = ToSet(f) \cup orphans[b]
      BY <2>3, <2>4, <2>6, SeqJoin
    <2>8. PICK q : q = f \o u
      OBVIOUS
    <2>9. PICK t : t = [d EXCEPT !.queue = q]
      OBVIOUS
    <2>10. t \in Job /\ t.pc = "next" /\ t.queue = q /\ t.first = FALSE
      BY <1>8, <2>7, <2>8, <2>9 DEF Job
    <2>11. thread' = [thread EXCEPT ![p] = t]
      BY <1>11, <2>1, <2>6, <2>8, <2>9 DEF Tries
    <2>12. orphans' \in [SyncBlock -> SUBSET Item] /\ orphans'[b] = {} /\ \A y \in SyncBlock : y # b => orphans'[y] = orphans[y]
      BY <1>3, <1>6, <1>11 DEF SyncTypes
    <2>13. JobStep(p, t)
      BY <1>1, <1>3, <1>6, <1>11, <2>10, <2>11, <2>12 DEF JobStep, SyncTypes
    <2>14. thread'[p] = t
      BY <2>13, JobStepSets
    <2>15. Busy(p)' /\ ~At(p, "ask")'
      BY <2>10, <2>14 DEF Busy, At
    <2>16. Work(p)' = Names(ToSet(q)) /\ Ahead(p)' = Names(ToSet(q))
      BY <2>10, <2>14, <2>15 DEF Work, Ahead, Names
    <2>17. Names(ToSet(q)) = Names(ToSet(f)) \cup Names(orphans[b])
      BY <2>7, <2>8 DEF Names
    <2>18. Ahead(p)' \subseteq Kept' /\ Orphaned' \subseteq Kept' /\ b \in Kept'
      BY <1>11 DEF Kept
    <2>19. /\ \A x : x \in Orphaned <=> \E y \in SyncBlock : \E w \in orphans[y] : w.h = x
           /\ \A x : x \in Orphaned' <=> \E y \in SyncBlock : \E w \in orphans'[y] : w.h = x
      BY DEF Orphaned, Names
    <2>20. Orphaned' \subseteq Orphaned /\ Orphaned \subseteq Orphaned' \cup Names(orphans[b])
      <3>1. \A x : x \in Names(orphans[b]) <=> \E w \in orphans[b] : w.h = x
        BY DEF Names
      <3> QED BY <2>12, <2>19, <3>1
    <2>21. Names(orphans[b]) \subseteq Orphaned
      BY <1>6, <2>19 DEF Names
    <2>22. Ahead(p) = Work(p)
      BY <1>3 DEF Ahead, Work, At
    <2>23. Kept \subseteq Kept'
      BY <1>6, <2>5, <2>13, <2>16, <2>17, <2>18, <2>20, <2>22, JobStepKept
    <2>24. HaveClosed'
      BY <1>4, <1>5, <1>11 DEF SyncInv, HaveClosed, Missing
    <2>25. OrphansFit'
      BY <2>12 DEF SyncInv, OrphansFit
    <2>26. JobFits(p)'
      BY <1>1, <1>3, <2>10, <2>14 DEF JobFits
    <2>27. \A z : Asker(p, z) => Missing(z)' \subseteq Kept'
      BY <1>4, <1>11 DEF Asker, Missing
    <2>28. JobStays(p)
      BY <2>15, <2>26, <2>27 DEF JobStays
    <2>29. (\A z \in Work(p)' : z \in Carried) /\ Orphaned' \subseteq Carried
      BY <1>6, <2>5, <2>16, <2>17, <2>20, <2>21 DEF Carried
    <2> QED BY <2>13, <2>23, <2>24, <2>25, <2>28, <2>29, JobStepKeeps
  <1> QED BY <1>9, <1>10, <1>11

LEMMA OrphanExpiresKeeps ==
    ASSUME SyncInv, NEW b \in SyncBlock, OrphanExpires(b)
    PROVE  SyncInv'
  <1>1. /\ orphans' = [orphans EXCEPT ![b] = {}] /\ refused' = refused \cup Names(orphans[b])
        /\ UNCHANGED <<have, inFlight, pending, inbox, thread, link, unanswered, unasked>>
    BY DEF OrphanExpires, Names
  <1>2. SyncTypes
    BY DEF SyncInv
  <1>3. orphans' \in [SyncBlock -> SUBSET Item] /\ orphans'[b] = {} /\ \A y \in SyncBlock : y # b => orphans'[y] = orphans[y]
    BY <1>1, <1>2 DEF SyncTypes
  <1>4. Names(orphans[b]) \subseteq SyncBlock
    BY <1>2 DEF SyncTypes, Names, Item
  <1>5. SyncTypes'
    BY <1>1, <1>2, <1>3, <1>4 DEF SyncTypes
  <1>6. /\ \A x : x \in Orphaned <=> \E y \in SyncBlock : \E w \in orphans[y] : w.h = x
        /\ \A x : x \in Orphaned' <=> \E y \in SyncBlock : \E w \in orphans'[y] : w.h = x
    BY DEF Orphaned, Names
  <1>7. Orphaned' \subseteq Orphaned /\ Orphaned \subseteq Orphaned' \cup Names(orphans[b])
    <2>1. \A x : x \in Names(orphans[b]) <=> \E w \in orphans[b] : w.h = x
      BY DEF Names
    <2> QED BY <1>3, <1>6, <2>1
  <1>8. ASSUME NEW s \in SyncPeer PROVE thread'[s] = thread[s] /\ link'[s] = link[s]
    BY <1>1
  <1>9. Kept \subseteq Kept'
    <2>1. ASSUME NEW q \in SyncPeer PROVE Underway(q) \subseteq Kept'
      BY <1>1 DEF Kept, Underway
    <2>2. ASSUME NEW q \in SyncPeer PROVE Ahead(q) \subseteq Kept'
      <3>1. Ahead(q)' = Ahead(q)
        BY <1>8, SameThread
      <3> QED BY <3>1 DEF Kept
    <2>3. Orphaned \subseteq Kept'
      BY <1>1, <1>7 DEF Kept
    <2>4. have \subseteq have' /\ refused \subseteq refused' /\ unanswered \subseteq unanswered'
      BY <1>1
    <2> QED BY <2>1, <2>2, <2>3, <2>4, KeptGrows
  <1>10. \A s \in SyncPeer : JobStays(s)
    BY <1>1, <1>9, SameThreads
  <1>11. Carried' \subseteq Carried
    <2>1. \A s \in SyncPeer : Work(s)' \subseteq Carried
      BY <1>8, SameThread DEF Carried
    <2>2. Orphaned' \subseteq Carried
      BY <1>7 DEF Carried
    <2> QED BY <2>1, <2>2, CarriedSame
  <1>12. HaveClosed' /\ OrphansFit'
    BY <1>1, <1>3 DEF SyncInv, HaveClosed, OrphansFit
  <1>13. InboxFits'
    BY <1>1 DEF SyncInv, InboxFits, MsgFits, Tips
  <1>14. RequestedIsKept'
    BY <1>1, <1>9 DEF SyncInv, RequestedIsKept
  <1>15. TipsAreKept'
    BY <1>1, <1>9 DEF SyncInv, TipsAreKept, Tips
  <1>16. OnlyThread(b) /\ UnaskedLower'
    BY <1>1, <1>8, LowerStays DEF OnlyThread
  <1> QED BY <1>1, <1>5, <1>9, <1>10, <1>11, <1>12, <1>13, <1>14, <1>15, <1>16, StepKeeps

LEMMA OnBlockKeeps ==
    ASSUME SyncInv, NEW p \in SyncPeer, OnBlock(p)
    PROVE  SyncInv'
  <1>1. Reads(p, "Block") /\ UNCHANGED <<have, orphans, inFlight, pending, link, refused, unanswered, unasked>>
    BY DEF OnBlock
  <1>2. SyncTypes
    BY DEF SyncInv
  <1>3. PICK hd, tl : hd = Head(inbox[p]) /\ tl = Tail(inbox[p])
    OBVIOUS
  <1>4. /\ link[p] = "up" /\ thread[p] = Idle /\ hd \in SyncMsg /\ hd.t = "Block" /\ MsgFits(p, hd)
        /\ tl \in Seq(SyncMsg) /\ ToSet(inbox[p]) = ToSet(tl) \cup {hd}
    BY <1>1, <1>3, ReadsHead
  <1>5. hd.h \in SyncBlock /\ hd.full \in BOOLEAN /\ hd.h \in Holds[p]
    BY <1>4 DEF SyncMsg, MsgFits
  <1>6. PICK e : e = [h |-> hd.h, full |-> hd.full]
    OBVIOUS
  <1>7. e \in Item /\ e.h = hd.h
    BY <1>5, <1>6 DEF Item
  <1>8. PICK q : q = <<e>>
    OBVIOUS
  <1>9. q \in Seq(Item) /\ Len(q) = 1 /\ ToSet(q) = {e} /\ Last(q) = e /\ q # <<>>
    BY <1>7, <1>8 DEF ToSet, Last
  <1>10. PICK t : t = [pc |-> "next", queue |-> q, direct |-> hd.h, first |-> TRUE, missing |-> {}]
    OBVIOUS
  <1>11. t \in Job /\ t.pc = "next" /\ t.queue = q /\ t.first = TRUE
    BY <1>5, <1>9, <1>10 DEF Job, Pcs
  <1>12. thread' = [thread EXCEPT ![p] = t] /\ inbox' = [inbox EXCEPT ![p] = tl]
    BY <1>3, <1>6, <1>8, <1>10 DEF OnBlock
  <1>13. /\ thread' \in [SyncPeer -> {Idle} \cup Job] /\ thread'[p] = t
         /\ \A s \in SyncPeer : s # p => thread'[s] = thread[s]
    BY <1>2, <1>11, <1>12, ThreadsSet
  <1>14. inbox' \in [SyncPeer -> Seq(SyncMsg)] /\ inbox'[p] = tl /\ \A s \in SyncPeer : s # p => inbox'[s] = inbox[s]
    BY <1>2, <1>4, <1>12 DEF SyncTypes
  <1>15. SyncTypes'
    BY <1>1, <1>2, <1>13, <1>14 DEF SyncTypes
  <1>16. Busy(p)' /\ ~At(p, "ask")' /\ Cur(p)' = hd.h
    BY <1>7, <1>9, <1>11, <1>13 DEF Busy, At, Cur
  <1>17. Work(p)' = {hd.h} /\ Ahead(p)' = {hd.h}
    BY <1>7, <1>9, <1>11, <1>13, <1>16 DEF Work, Ahead, Names
  <1>18. InboxFits'
    <2> SUFFICES ASSUME NEW s \in SyncPeer
                 PROVE  (link'[s] # "up" => inbox'[s] = <<>>) /\ \A m \in ToSet(inbox'[s]) : MsgFits(s, m)
      BY DEF InboxFits, MsgFits, Tips
    <2>1. CASE s = p
      BY <1>1, <1>4, <1>14, <2>1 DEF SyncInv, InboxFits
    <2>2. CASE s # p
      BY <1>1, <1>14, <2>2 DEF SyncInv, InboxFits
    <2> QED BY <2>1, <2>2
  <1>19. Kept \subseteq Kept'
    <2>1. ASSUME NEW s \in SyncPeer, NEW x \in Underway(s) PROVE x \in Kept'
      <3>1. CASE s = p /\ x = hd.h
        BY <1>17, <3>1 DEF Kept
      <3>2. CASE s = p /\ x # hd.h
        <4>1. PICK m \in ToSet(inbox[p]) : m.t = "Block" /\ m.h = x
          BY <1>2, <2>1, <3>2, UnderwayTyped
        <4>2. m \in ToSet(tl)
          BY <1>4, <3>2, <4>1
        <4>3. x \in Underway(p)'
          BY <1>14, <4>1, <4>2 DEF Underway
        <4> QED BY <4>3 DEF Kept
      <3>3. CASE s # p
        <4>1. x \in Underway(s)'
          BY <1>14, <2>1, <3>3 DEF Underway
        <4> QED BY <4>1 DEF Kept
      <3> QED BY <3>1, <3>2, <3>3
    <2>2. ASSUME NEW s \in SyncPeer PROVE Ahead(s) \subseteq Kept'
      <3>1. CASE s = p
        <4>1. Ahead(p) = {}
          BY <1>2, <1>4, JobsOf DEF Ahead
        <4> QED BY <3>1, <4>1
      <3>2. CASE s # p
        <4>1. Ahead(s)' = Ahead(s)
          BY <1>13, <3>2, SameThread
        <4> QED BY <4>1 DEF Kept
      <3> QED BY <3>1, <3>2
    <2>3. Orphaned \subseteq Kept'
      BY <1>1 DEF Kept, Orphaned
    <2>4. have \subseteq have' /\ refused \subseteq refused' /\ unanswered \subseteq unanswered'
      BY <1>1
    <2> QED BY <2>1, <2>2, <2>3, <2>4, KeptGrows
  <1>20. JobFits(p)'
    BY <1>1, <1>4, <1>5, <1>9, <1>11, <1>13, <1>16 DEF JobFits
  <1>21. \A z : ~Asker(p, z)
    BY <1>2, <1>4, JobsOf DEF Asker
  <1>22. JobStays(p)
    BY <1>16, <1>20, <1>21 DEF JobStays
  <1>23. ASSUME NEW z \in Carried' PROVE z \in Carried \/ Sought(z)'
    <2>1. CASE z = hd.h
      <3>1. Asker(p, z)'
        BY <1>11, <1>13, <1>16, <2>1 DEF Asker
      <3> QED BY <3>1 DEF Sought
    <2>2. CASE z # hd.h
      <3>1. CASE z \in Orphaned'
        BY <1>1, <3>1 DEF Carried, Orphaned
      <3>2. CASE \E s \in SyncPeer : z \in Work(s)'
        <4>1. PICK s \in SyncPeer : z \in Work(s)'
          BY <3>2
        <4>2. s # p
          BY <1>17, <2>2, <4>1
        <4>3. z \in Work(s)
          BY <1>13, <4>1, <4>2, SameThread
        <4> QED BY <4>3 DEF Carried
      <3> QED BY <1>23, <3>1, <3>2 DEF Carried
    <2> QED BY <2>1, <2>2
  <1>24. RequestedIsKept'
    BY <1>1, <1>19 DEF SyncInv, RequestedIsKept
  <1>25. TipsAreKept'
    <2> SUFFICES ASSUME NEW s \in SyncPeer, link'[s] = "up", s \notin unasked', \A m \in ToSet(inbox'[s]) : ~IsDue(m)
                 PROVE  Tips(s) \subseteq Kept'
      BY DEF TipsAreKept, Tips
    <2>1. \A m \in ToSet(inbox[s]) : ~IsDue(m)
      <3>1. CASE s = p
        BY <1>4, <1>14, <3>1 DEF IsDue
      <3>2. CASE s # p
        BY <1>14, <3>2
      <3> QED BY <3>1, <3>2
    <2> QED BY <1>1, <1>19, <2>1 DEF SyncInv, TipsAreKept
  <1>26. HaveClosed' /\ OrphansFit'
    BY <1>1 DEF SyncInv, HaveClosed, OrphansFit
  <1>27. OnlyThread(p) /\ UnaskedLower'
    BY <1>1, <1>13, LowerStays DEF OnlyThread
  <1> QED BY <1>1, <1>15, <1>18, <1>19, <1>22, <1>23, <1>24, <1>25, <1>26, <1>27, StepKeeps

LEMMA EndBlockKeeps ==
    ASSUME SyncInv, NEW p \in SyncPeer, EndBlock(p)
    PROVE  SyncInv'
  <1>1. /\ At(p, "next") /\ thread[p].queue = <<>> /\ inFlight' \subseteq inFlight
        /\ thread' = [thread EXCEPT ![p] = Idle] /\ UNCHANGED <<have, orphans, pending, refused, unasked>>
    BY DEF EndBlock
  <1>2. "next" \in Pcs
    BY DEF Pcs
  <1>3. Busy(p) /\ thread[p] \in Job /\ thread[p].pc = "next" /\ JobFits(p) /\ SyncTypes
    BY <1>1, <1>2, AtBusy
  <1>4. /\ thread' \in [SyncPeer -> {Idle} \cup Job] /\ thread'[p] = Idle
        /\ \A s \in SyncPeer : s # p => thread'[s] = thread[s]
    BY <1>1, <1>3, ThreadsSet
  <1>5. Underway(p) \subseteq SyncBlock
    BY <1>3, UnderwayTyped
  <1>6. \/ UNCHANGED <<link, inbox, unanswered>>
        \/ /\ link' = [link EXCEPT ![p] = "banned"] /\ inbox' = [inbox EXCEPT ![p] = <<>>]
           /\ unanswered' = unanswered \cup Underway(p)
    BY DEF EndBlock
  <1>7. /\ link' \in [SyncPeer -> {"down", "up", "banned"}] /\ inbox' \in [SyncPeer -> Seq(SyncMsg)]
        /\ \A s \in SyncPeer : s # p => link'[s] = link[s] /\ inbox'[s] = inbox[s]
        /\ unanswered \subseteq unanswered' /\ unanswered' \subseteq SyncBlock
        /\ (link'[p] = link[p] /\ inbox'[p] = inbox[p])
              \/ (link'[p] = "banned" /\ inbox'[p] = <<>> /\ Underway(p) \subseteq unanswered')
    <2>1. CASE UNCHANGED <<link, inbox, unanswered>>
      BY <1>3, <2>1 DEF SyncTypes
    <2>2. CASE /\ link' = [link EXCEPT ![p] = "banned"] /\ inbox' = [inbox EXCEPT ![p] = <<>>]
               /\ unanswered' = unanswered \cup Underway(p)
      <3>1. <<>> \in Seq(SyncMsg)
        OBVIOUS
      <3> QED BY <1>3, <1>5, <2>2, <3>1 DEF SyncTypes
    <2> QED BY <1>6, <2>1, <2>2
  <1>8. SyncTypes'
    BY <1>1, <1>3, <1>4, <1>7 DEF SyncTypes
  <1>9. ~Busy(p)' /\ Work(p)' = {}
    <2>1. Idle \notin Job
      BY JobShape
    <2> QED BY <1>4, <2>1 DEF Busy, Work
  <1>10. InboxFits'
    <2> SUFFICES ASSUME NEW s \in SyncPeer
                 PROVE  (link'[s] # "up" => inbox'[s] = <<>>) /\ \A m \in ToSet(inbox'[s]) : MsgFits(s, m)
      BY DEF InboxFits, MsgFits, Tips
    <2>1. CASE link'[s] = link[s] /\ inbox'[s] = inbox[s]
      BY <2>1 DEF SyncInv, InboxFits
    <2>2. CASE s = p /\ link'[p] = "banned" /\ inbox'[p] = <<>>
      BY <2>2 DEF ToSet
    <2> QED BY <1>7, <2>1, <2>2
  <1>11. Kept \subseteq Kept'
    <2>1. ASSUME NEW s \in SyncPeer PROVE Underway(s) \subseteq Kept'
      <3>1. CASE inbox'[s] = inbox[s]
        <4>1. Underway(s)' = Underway(s)
          BY <3>1 DEF Underway
        <4> QED BY <4>1 DEF Kept
      <3>2. CASE s = p /\ Underway(p) \subseteq unanswered'
        BY <3>2 DEF Kept
      <3> QED BY <1>7, <3>1, <3>2
    <2>2. ASSUME NEW s \in SyncPeer PROVE Ahead(s) \subseteq Kept'
      <3>1. CASE s = p
        <4>1. Ahead(p) = {}
          BY <1>1, <1>3 DEF Ahead, At, Names, ToSet
        <4> QED BY <3>1, <4>1
      <3>2. CASE s # p
        <4>1. Ahead(s)' = Ahead(s)
          BY <1>4, <3>2, SameThread
        <4> QED BY <4>1 DEF Kept
      <3> QED BY <3>1, <3>2
    <2>3. Orphaned \subseteq Kept'
      BY <1>1 DEF Kept, Orphaned
    <2>4. have \subseteq have' /\ refused \subseteq refused' /\ unanswered \subseteq unanswered'
      BY <1>1, <1>7
    <2> QED BY <2>1, <2>2, <2>3, <2>4, KeptGrows
  <1>12. \A z : ~Asker(p, z)
    <2>1. Len(thread[p].queue) = 0
      BY <1>1
    <2> QED BY <1>3, <2>1 DEF Asker, JobFits
  <1>13. JobStays(p)
    BY <1>9, <1>12 DEF JobStays
  <1>14. Carried' \subseteq Carried
    <2>1. \A s \in SyncPeer : Work(s)' \subseteq Carried
      <3> SUFFICES ASSUME NEW s \in SyncPeer PROVE Work(s)' \subseteq Carried
        OBVIOUS
      <3>1. CASE s = p
        BY <1>9, <3>1
      <3>2. CASE s # p
        <4>1. Work(s)' = Work(s)
          BY <1>4, <3>2, SameThread
        <4> QED BY <4>1 DEF Carried
      <3> QED BY <3>1, <3>2
    <2>2. Orphaned' \subseteq Carried
      BY <1>1 DEF Carried, Orphaned
    <2> QED BY <2>1, <2>2, CarriedSame
  <1>15. RequestedIsKept'
    BY <1>1, <1>11 DEF SyncInv, RequestedIsKept
  <1>16. TipsAreKept'
    <2> SUFFICES ASSUME NEW s \in SyncPeer, link'[s] = "up", s \notin unasked', \A m \in ToSet(inbox'[s]) : ~IsDue(m)
                 PROVE  Tips(s) \subseteq Kept'
      BY DEF TipsAreKept, Tips
    <2>1. link[s] = "up" /\ inbox'[s] = inbox[s] /\ s \notin unasked
      BY <1>1, <1>7
    <2> QED BY <1>11, <2>1 DEF SyncInv, TipsAreKept
  <1>17. HaveClosed' /\ OrphansFit'
    BY <1>1 DEF SyncInv, HaveClosed, OrphansFit
  <1>18. OnlyThread(p) /\ UnaskedLower'
    BY <1>1, <1>4, <1>7, LowerStays DEF OnlyThread
  <1> QED BY <1>1, <1>8, <1>10, <1>11, <1>13, <1>14, <1>15, <1>16, <1>17, <1>18, StepKeeps

(***************************************************************************)
(* The step the argument turns on.  What is asked here is missing: either  *)
(* it is kept, or some thread has its child straight from a peer, which    *)
(* then holds it, is connected, and answers this very request.             *)
(***************************************************************************)
LEMMA AskForParentsKeeps ==
    ASSUME SyncInv, NEW p \in SyncPeer, AskForParents(p)
    PROVE  SyncInv'
  <1>1. At(p, "ask") /\ UNCHANGED <<have, orphans, pending, link, unanswered, unasked>>
        /\ thread' = [thread EXCEPT ![p] = Done(thread[p])]
    BY DEF AskForParents
  <1>2. "ask" \in Pcs
    BY DEF Pcs
  <1>3. Busy(p) /\ thread[p] \in Job /\ thread[p].pc = "ask" /\ JobFits(p) /\ SyncTypes
    BY <1>1, <1>2, AtBusy
  <1>4. PICK M, C : M = thread[p].missing /\ C = Cur(p)
    OBVIOUS
  <1>5. thread[p].queue # <<>> /\ Missing(C) \subseteq M /\ M \subseteq ParentsOf[C] /\ M \subseteq SyncBlock
    BY <1>3, <1>4, JobShape DEF JobFits
  <1>6. C \in SyncBlock /\ C \in Work(p) /\ Work(p) = Names(ToSet(Front(thread[p].queue))) \cup {C}
    BY <1>3, <1>4, <1>5, WorkIs
  <1>7. PICK hs : hs = SetToSeq(M)
    OBVIOUS
  <1>8. hs \in Seq(SyncBlock) /\ ToSet(hs) = M
    <2>1. hs \in Seq(M) /\ ToSet(hs) = M
      BY <1>5, <1>7, SmallSet, SetAsSeq
    <2> QED BY <1>5, <2>1
  <1>9. PICK r : r = Requests(hs)
    OBVIOUS
  <1>10. /\ inFlight' = r.flight /\ refused' = refused \cup r.refused
         /\ inbox' = [q \in SyncPeer |-> IF link[q] # "up" THEN inbox[q] ELSE inbox[q] \o AnswersOf(q, r.asked)]
    BY <1>4, <1>7, <1>9 DEF AskForParents, AnswersOf
  <1>11. inFlight \subseteq SyncBlock
    BY <1>3 DEF SyncTypes
  <1>12. ReqFits(inFlight \ have, have, hs, Len(hs), r)
    BY <1>8, <1>9, <1>11, ReqOutcome
  <1>13. /\ r.flight \subseteq SyncBlock /\ r.asked \in Seq(SyncBlock) /\ r.refused \subseteq SyncBlock
         /\ r.flight \subseteq (inFlight \ have) \cup ToSet(r.asked)
         /\ ToSet(r.asked) \subseteq M
    BY <1>8, <1>12 DEF ReqFits, ReqRec
  <1>14. \A x \in M : x \in have \cup r.flight \cup r.refused
    <2>1. DOMAIN hs = 1..Len(hs)
      OBVIOUS
    <2> QED BY <1>8, <1>12, <2>1 DEF ReqFits, ToSet
  <1>15. ASSUME NEW q \in SyncPeer
         PROVE  /\ inbox'[q] \in Seq(SyncMsg) /\ ToSet(inbox[q]) \subseteq ToSet(inbox'[q])
                /\ \A m \in ToSet(inbox'[q]) : MsgFits(q, m)
                /\ link[q] # "up" => inbox'[q] = inbox[q]
                /\ link[q] = "up" => \A x \in ToSet(r.asked) : x \in Holds[q] => Sends(inbox'[q], x)
    <2>1. PICK a : a = AnswersOf(q, r.asked)
      OBVIOUS
    <2>2. a \in Seq(SyncMsg) /\ GoodAnswers(q, a) /\ \A x \in ToSet(r.asked) : x \in Holds[q] => Sends(a, x)
      BY <1>13, <2>1, Answers
    <2>3. inbox[q] \in Seq(SyncMsg) /\ \A m \in ToSet(inbox[q]) : MsgFits(q, m)
      BY <1>3 DEF SyncTypes, SyncInv, InboxFits
    <2>4. CASE link[q] # "up"
      BY <1>10, <2>3, <2>4
    <2>5. CASE link[q] = "up"
      <3>1. PICK old : old = inbox[q]
        OBVIOUS
      <3>2. inbox'[q] = old \o a
        BY <1>10, <2>1, <2>5, <3>1
      <3>3. old \in Seq(SyncMsg)
        BY <2>3, <3>1
      <3>4. old \o a \in Seq(SyncMsg) /\ ToSet(old \o a) = ToSet(old) \cup ToSet(a)
        BY <2>2, <3>3, SeqJoin
      <3>5. \A m \in ToSet(inbox'[q]) : MsgFits(q, m)
        BY <2>2, <2>3, <3>1, <3>2, <3>4 DEF GoodAnswers
      <3>6. \A x : Sends(a, x) => Sends(inbox'[q], x)
        BY <3>2, <3>4 DEF Sends
      <3> QED BY <2>2, <2>5, <3>1, <3>2, <3>4, <3>5, <3>6
    <2> QED BY <2>4, <2>5
  <1>16. inbox' \in [SyncPeer -> Seq(SyncMsg)]
    BY <1>10, <1>15
  <1>17. Done(thread[p]) \in Job
    BY <1>3, <1>5, DoneJob
  <1>18. /\ thread' \in [SyncPeer -> {Idle} \cup Job] /\ thread'[p] = Done(thread[p])
         /\ \A s \in SyncPeer : s # p => thread'[s] = thread[s]
    BY <1>1, <1>3, <1>17, ThreadsSet
  <1>19. SyncTypes'
    BY <1>1, <1>3, <1>10, <1>13, <1>16, <1>18 DEF SyncTypes
  <1>20. /\ Busy(p)' /\ ~At(p, "ask")' /\ thread'[p].pc = "next" /\ thread'[p].first = FALSE
         /\ thread'[p].queue = Front(thread[p].queue)
    BY <1>3, <1>5, <1>18, DoneJob DEF Busy, At
  <1>21. Ahead(p)' = Names(ToSet(Front(thread[p].queue))) /\ Work(p)' = Names(ToSet(Front(thread[p].queue)))
    BY <1>20 DEF Ahead, Work, Names
  <1>22. Ahead(p) = Names(ToSet(Front(thread[p].queue)))
    BY <1>3 DEF Ahead, At
  <1>23. \A q \in SyncPeer : \A x : Sends(inbox'[q], x) => x \in Kept'
    <2> SUFFICES ASSUME NEW q \in SyncPeer, NEW m \in ToSet(inbox'[q]), m.t = "Block" PROVE m.h \in Kept'
      BY DEF Sends
    <2>1. m.h \in Underway(q)'
      BY DEF Underway
    <2> QED BY <2>1 DEF Kept
  <1>24. Kept \subseteq Kept'
    <2>1. ASSUME NEW q \in SyncPeer, NEW x \in Underway(q) PROVE x \in Kept'
      <3>1. PICK m \in ToSet(inbox[q]) : m.t = "Block" /\ m.h = x
        BY <1>3, <2>1, UnderwayTyped
      <3>2. Sends(inbox'[q], x)
        BY <1>15, <3>1 DEF Sends
      <3> QED BY <1>23, <3>2
    <2>2. ASSUME NEW q \in SyncPeer PROVE Ahead(q) \subseteq Kept'
      <3>1. Ahead(q)' = Ahead(q)
        BY <1>18, <1>21, <1>22, SameThread
      <3> QED BY <3>1 DEF Kept
    <2>3. Orphaned \subseteq Kept'
      BY <1>1 DEF Kept, Orphaned
    <2>4. have \subseteq have' /\ refused \subseteq refused' /\ unanswered \subseteq unanswered'
      BY <1>1, <1>10
    <2> QED BY <2>1, <2>2, <2>3, <2>4, KeptGrows
  <1>25. ASSUME NEW x \in ToSet(r.asked) PROVE x \in Kept'
    <2>1. CASE x \in have
      BY <1>1, <2>1 DEF Kept
    <2>2. CASE x \notin have
      <3>1. x \in Missing(C)
        BY <1>5, <1>13, <1>25, <2>2 DEF Missing
      <3>2. C \in Carried
        BY <1>6 DEF Carried
      <3>3. x \in Kept \/ \E s \in SyncPeer : Asker(s, C)
        BY <3>1, <3>2 DEF SyncInv, ParentsSought, Sought
      <3>4. CASE x \in Kept
        BY <1>24, <3>4
      <3>5. CASE \E s \in SyncPeer : Asker(s, C)
        <4>1. PICK s \in SyncPeer : Asker(s, C)
          BY <3>5
        <4>2. JobFits(s) /\ thread[s].first /\ Cur(s) = C
          BY <4>1 DEF Asker, SyncInv, JobsFit
        <4>3. link[s] = "up" /\ C \in Holds[s]
          BY <4>2 DEF JobFits
        <4>4. x \in Holds[s]
          BY <1>5, <1>13, <1>25, <4>3, SyncConstants
        <4> QED BY <1>15, <1>23, <1>25, <4>3, <4>4
      <3> QED BY <3>3, <3>4, <3>5
    <2> QED BY <2>1, <2>2
  <1>26. inFlight' \subseteq Kept'
    <2>1. inFlight \subseteq Kept'
      BY <1>24 DEF SyncInv, RequestedIsKept
    <2> QED BY <1>10, <1>13, <1>25, <2>1
  <1>27. M \subseteq Kept'
    <2>1. have \subseteq Kept' /\ r.refused \subseteq Kept'
      BY <1>1, <1>10 DEF Kept
    <2> QED BY <1>10, <1>14, <1>26, <2>1
  <1>28. RequestedIsKept'
    BY <1>1, <1>24, <1>26 DEF SyncInv, RequestedIsKept
  <1>29. InboxFits'
    <2> SUFFICES ASSUME NEW s \in SyncPeer
                 PROVE  (link'[s] # "up" => inbox'[s] = <<>>) /\ \A m \in ToSet(inbox'[s]) : MsgFits(s, m)
      BY DEF InboxFits, MsgFits, Tips
    <2> QED BY <1>1, <1>15 DEF SyncInv, InboxFits
  <1>30. TipsAreKept'
    <2> SUFFICES ASSUME NEW s \in SyncPeer, link'[s] = "up", s \notin unasked', \A m \in ToSet(inbox'[s]) : ~IsDue(m)
                 PROVE  Tips(s) \subseteq Kept'
      BY DEF TipsAreKept, Tips
    <2>1. \A m \in ToSet(inbox[s]) : ~IsDue(m)
      BY <1>15
    <2> QED BY <1>1, <1>24, <2>1 DEF SyncInv, TipsAreKept
  <1>31. JobFits(p)'
    BY <1>1, <1>3, <1>20 DEF JobFits
  <1>32. \A z : Asker(p, z) => Missing(z)' \subseteq Kept'
    BY <1>1, <1>4, <1>5, <1>27 DEF Asker, Missing
  <1>33. JobStays(p)
    BY <1>20, <1>31, <1>32 DEF JobStays
  <1>34. Carried' \subseteq Carried
    <2>1. \A s \in SyncPeer : Work(s)' \subseteq Carried
      <3> SUFFICES ASSUME NEW s \in SyncPeer PROVE Work(s)' \subseteq Carried
        OBVIOUS
      <3>1. CASE s = p
        BY <1>6, <1>21, <3>1 DEF Carried
      <3>2. CASE s # p
        <4>1. Work(s)' = Work(s)
          BY <1>18, <3>2, SameThread
        <4> QED BY <4>1 DEF Carried
      <3> QED BY <3>1, <3>2
    <2>2. Orphaned' \subseteq Carried
      BY <1>1 DEF Carried, Orphaned
    <2> QED BY <2>1, <2>2, CarriedSame
  <1>35. HaveClosed' /\ OrphansFit'
    BY <1>1 DEF SyncInv, HaveClosed, OrphansFit
  <1>36. OnlyThread(p) /\ UnaskedLower'
    BY <1>1, <1>18, LowerStays DEF OnlyThread
  <1> QED BY <1>1, <1>19, <1>24, <1>28, <1>29, <1>30, <1>33, <1>34, <1>35, <1>36, StepKeeps

LEMMA SyncInitInv == SyncInit => SyncInv
  <1> SUFFICES ASSUME SyncInit PROVE SyncInv
    OBVIOUS
  <1>1. /\ have = {} /\ inFlight = {} /\ refused = {} /\ unanswered = {} /\ unasked = {} /\ DOMAIN pending = {}
        /\ orphans = [b \in SyncBlock |-> {}] /\ inbox = [p \in SyncPeer |-> <<>>]
        /\ thread = [p \in SyncPeer |-> Idle] /\ link = [p \in SyncPeer |-> "down"]
    BY DEF SyncInit
  <1>2. <<>> \in Seq(SyncMsg)
    OBVIOUS
  <1>3. SyncTypes
    BY <1>1, <1>2 DEF SyncTypes
  <1>4. Idle \notin Job
    BY JobShape
  <1>5. \A p \in SyncPeer : ~Busy(p)
    BY <1>1, <1>4 DEF Busy
  <1>6. Orphaned = {}
    BY <1>1 DEF Orphaned, Names
  <1>7. Carried = {}
    BY <1>5, <1>6 DEF Carried, Work
  <1>8. JobsFit /\ AskedIsKept /\ ParentsSought
    BY <1>5, <1>7 DEF JobsFit, AskedIsKept, ParentsSought
  <1>9. HaveClosed /\ OrphansFit /\ RequestedIsKept /\ TipsAreKept /\ UnaskedLower
    BY <1>1 DEF HaveClosed, OrphansFit, RequestedIsKept, TipsAreKept, UnaskedLower
  <1>10. InboxFits
    BY <1>1 DEF InboxFits, ToSet
  <1> QED BY <1>3, <1>8, <1>9, <1>10 DEF SyncInv

LEMMA SyncStutter ==
    ASSUME SyncInv, UNCHANGED syncVars
    PROVE  SyncInv'
  <1>1. UNCHANGED <<have, orphans, inFlight, pending, inbox, thread, link, refused, unanswered, unasked>>
    BY DEF syncVars
  <1>2. \A s \in SyncPeer : thread'[s] = thread[s] /\ link'[s] = link[s] /\ inbox'[s] = inbox[s]
    BY <1>1
  <1>3. Orphaned' = Orphaned /\ \A s \in SyncPeer : Underway(s)' = Underway(s)
    BY <1>1 DEF Orphaned, Underway
  <1>4. \A s \in SyncPeer : Ahead(s)' = Ahead(s) /\ Work(s)' = Work(s)
    BY <1>2, SameThread
  <1>5. Kept' = Kept /\ Carried' = Carried
    BY <1>1, <1>3, <1>4 DEF Kept, Carried
  <1>6. OnlyThread(SyncBlock)
    BY <1>2 DEF OnlyThread
  <1>7. \A s \in SyncPeer : JobStays(s)
    BY <1>1, <1>5, SameThreads
  <1>8. SyncTypes' /\ HaveClosed' /\ OrphansFit'
    BY <1>1 DEF SyncInv, SyncTypes, HaveClosed, OrphansFit
  <1>9. InboxFits' /\ RequestedIsKept' /\ TipsAreKept' /\ UnaskedLower'
    BY <1>1, <1>5, LowerStays DEF SyncInv, InboxFits, RequestedIsKept, TipsAreKept, MsgFits, Tips
  <1> QED BY <1>1, <1>5, <1>6, <1>7, <1>8, <1>9, StepKeeps

LEMMA SyncStepInv == SyncInv /\ [SyncNext]_syncVars => SyncInv'
  <1> SUFFICES ASSUME SyncInv, [SyncNext]_syncVars PROVE SyncInv'
    OBVIOUS
  <1>1. CASE UNCHANGED syncVars
    BY <1>1, SyncStutter
  <1>2. ASSUME NEW p \in SyncPeer, Connect(p) \/ Disconnect(p) PROVE SyncInv'
    BY <1>2, ConnectKeeps, DisconnectKeeps
  <1>3. ASSUME NEW p \in SyncPeer, ThreadStep(p) PROVE SyncInv'
    BY <1>3, HearHelloKeeps, SkipKnownKeeps, OnTipsKeeps, OnNotFoundKeeps, OnHeadersKeeps, OnBlockKeeps, PrecheckKeeps, ReadMissingKeeps,
       BufferOrphanKeeps, AskForParentsKeeps, AddToDagKeeps, EndBlockKeeps DEF ThreadStep
  <1>4. ASSUME NEW b \in SyncBlock, OrphanExpires(b) PROVE SyncInv'
    BY <1>4, OrphanExpiresKeeps
  <1> QED BY <1>1, <1>2, <1>3, <1>4 DEF SyncNext

(***************************************************************************)
(* From the invariant to the property, by induction over parents.          *)
(***************************************************************************)
LEMMA ParentInduction ==
    ASSUME NEW G, \A b \in SyncBlock : ParentsOf[b] \subseteq G => b \in G
    PROVE  SyncBlock \subseteq G
  <1>1. PICK rank \in [SyncBlock -> 0..Cardinality(SyncBlock)] :
           \A b \in SyncBlock : \A p \in ParentsOf[b] : rank[p] < rank[b]
    BY SyncConstants
  <1>2. Cardinality(SyncBlock) \in Nat
    BY SyncConstants, FS_CardinalityType
  <1>3. \A b \in SyncBlock : rank[b] \in Nat
    BY <1>1, <1>2
  <1>4. \A b \in SyncBlock : \A x \in ParentsOf[b] : x \in SyncBlock /\ rank[x] < rank[b]
    BY <1>1, SyncConstants
  <1>5. \A b \in SyncBlock : b \in G
    BY <1>3, <1>4, RankInduction
  <1> QED BY <1>5

LEMMA PastKnown ==
    ASSUME SyncInv, NEW y \in have
    PROVE  Past(y) \subseteq have
  <1>1. have \in SUBSET SyncBlock /\ ParentsOf[y] \subseteq have /\ \A x \in have : ParentsOf[x] \subseteq have
    BY DEF SyncInv, SyncTypes, HaveClosed
  <1> QED BY <1>1 DEF Past

LEMMA TipAbove ==
    ASSUME NEW p \in SyncPeer, NEW b \in Holds[p]
    PROVE  \E z \in Tips(p) : b = z \/ b \in Past(z)
  <1>1. PICK rank \in [SyncBlock -> 0..Cardinality(SyncBlock)] :
           \A c \in SyncBlock : \A x \in ParentsOf[c] : rank[x] < rank[c]
    BY SyncConstants
  <1>2. Cardinality(SyncBlock) \in Nat
    BY SyncConstants, FS_CardinalityType
  <1>3. PICK D : D = {z \in Holds[p] : b = z \/ b \in Past(z)}
    OBVIOUS
  <1>4. D \subseteq SyncBlock /\ b \in D /\ D \subseteq Holds[p]
    BY <1>3, TipsIn
  <1>5. PICK N : N = {rank[z] : z \in D}
    OBVIOUS
  <1>6. (\A n \in N : n \in 0..Cardinality(SyncBlock)) /\ N # {}
    BY <1>1, <1>4, <1>5
  <1>7. IsFiniteSet(N)
    <2>1. IsFiniteSet(0..Cardinality(SyncBlock))
      BY <1>2, FS_Interval
    <2> QED BY <1>6, <2>1, FS_Subset
  <1>8. \A n \in N : n \in Nat
    BY <1>2, <1>6
  <1>9. Max(N) \in N /\ \A n \in N : n <= Max(N)
    BY <1>6, <1>7, <1>8, MaxIs
  <1>10. PICK z \in D : rank[z] = Max(N)
    BY <1>5, <1>9
  <1>11. ASSUME NEW c \in Holds[p], z \in ParentsOf[c] PROVE FALSE
    <2>1. c \in SyncBlock
      BY TipsIn
    <2>2. z \in Past(c) /\ Past(z) \subseteq Past(c)
      BY <1>11, <2>1, PastOf
    <2>3. c \in D
      BY <1>3, <1>10, <2>2
    <2>4. rank[c] <= rank[z]
      BY <1>5, <1>9, <1>10, <2>3
    <2>5. rank[z] < rank[c]
      BY <1>1, <1>11, <2>1
    <2>6. rank[z] \in Int /\ rank[c] \in Int
      BY <1>1, <1>2, <1>4, <1>10, <2>1
    <2> QED BY <2>4, <2>5, <2>6
  <1>12. z \in Tips(p)
    BY <1>4, <1>10, <1>11 DEF Tips
  <1> QED BY <1>3, <1>10, <1>12

Fates == (unanswered \cup refused \cup Stranded) \ have

LEMMA KeptAtRest ==
    ASSUME SyncInv, Quiet, NEW z \in Kept, z \notin have
    PROVE  z \in Fates \/ (z \in Orphaned /\ \E y \in ParentsOf[z] : y \notin have)
  <1>1. \A q \in SyncPeer : Underway(q) = {} /\ Ahead(q) = {}
    <2> SUFFICES ASSUME NEW q \in SyncPeer PROVE Underway(q) = {} /\ Ahead(q) = {}
      OBVIOUS
    <2>1. inbox[q] = <<>> /\ thread[q] = Idle
      BY DEF Quiet
    <2>2. ~Busy(q)
      BY <2>1, JobsOf DEF SyncInv
    <2> QED BY <2>1, <2>2 DEF Underway, Ahead, ToSet
  <1>2. z \in refused \/ z \in unanswered \/ z \in Orphaned
    BY <1>1, KeptCases
  <1>3. CASE z \in Orphaned
    <2>1. PICK y \in SyncBlock : \E w \in orphans[y] : w.h = z
      BY <1>3 DEF Orphaned, Names
    <2>2. PICK w \in orphans[y] : w.h = z
      BY <2>1
    <2>3. y \in ParentsOf[z]
      BY <2>2 DEF SyncInv, OrphansFit
    <2>4. CASE y \in have
      BY <2>2, <2>4 DEF Fates, Stranded
    <2> QED BY <1>3, <2>3, <2>4
  <1> QED BY <1>2, <1>3 DEF Fates

LEMMA MissingIsKept ==
    ASSUME SyncInv, Quiet, NEW z \in Orphaned, NEW y \in ParentsOf[z], y \notin have
    PROVE  y \in Kept
  <1>1. z \in Carried /\ y \in Missing(z)
    BY DEF Carried, Missing
  <1>2. \A s \in SyncPeer : ~Busy(s)
    BY JobsOf DEF Quiet, SyncInv
  <1> QED BY <1>1, <1>2 DEF SyncInv, ParentsSought, Sought, Asker

LEMMA FateBelow ==
    ASSUME SyncInv, Quiet
    PROVE  \A z \in SyncBlock : z \in Kept /\ z \notin have => \E x \in Fates : x = z \/ x \in Past(z)
  <1>1. PICK G : G = {z \in SyncBlock : z \in Kept /\ z \notin have => \E x \in Fates : x = z \/ x \in Past(z)}
    OBVIOUS
  <1>2. ASSUME NEW z \in SyncBlock, ParentsOf[z] \subseteq G PROVE z \in G
    <2> SUFFICES ASSUME z \in Kept, z \notin have PROVE \E x \in Fates : x = z \/ x \in Past(z)
      BY <1>1
    <2>1. CASE z \in Fates
      BY <2>1
    <2>2. CASE z \in Orphaned /\ \E y \in ParentsOf[z] : y \notin have
      <3>1. PICK y \in ParentsOf[z] : y \notin have
        BY <2>2
      <3>2. y \in Kept
        BY <2>2, <3>1, MissingIsKept
      <3>3. PICK x \in Fates : x = y \/ x \in Past(y)
        BY <1>1, <1>2, <3>1, <3>2
      <3>4. y \in Past(z) /\ Past(y) \subseteq Past(z)
        BY <3>1, PastOf
      <3> QED BY <3>3, <3>4
    <2> QED BY <2>1, <2>2, KeptAtRest
  <1>3. SyncBlock \subseteq G
    BY <1>2, ParentInduction
  <1> QED BY <1>1, <1>3

LEMMA FateNear ==
    ASSUME SyncInv, Quiet, NEW p \in SyncPeer, NEW b \in Holds[p], b \notin have
    PROVE  \A z \in SyncBlock : z \in Kept /\ z \notin have /\ z \in Holds[p] /\ (b = z \/ b \in Past(z)) =>
              \E x \in Fates : x \in {b} \cup Past(b) \/ (x \in Holds[p] /\ b \in Past(x))
  <1>1. PICK Near : Near = (\E x \in Fates : x \in {b} \cup Past(b) \/ (x \in Holds[p] /\ b \in Past(x)))
    OBVIOUS
  <1>2. PICK G : G = {z \in SyncBlock : z \in Kept /\ z \notin have /\ z \in Holds[p] /\ (b = z \/ b \in Past(z)) => Near}
    OBVIOUS
  <1>3. ASSUME NEW z \in SyncBlock, ParentsOf[z] \subseteq G PROVE z \in G
    <2> SUFFICES ASSUME z \in Kept, z \notin have, z \in Holds[p], b = z \/ b \in Past(z) PROVE Near
      BY <1>2
    <2>1. CASE b = z
      <3>1. PICK x \in Fates : x = z \/ x \in Past(z)
        BY FateBelow
      <3> QED BY <1>1, <2>1, <3>1
    <2>2. CASE b # z /\ z \in Fates
      BY <1>1, <2>2
    <2>3. CASE b # z /\ z \in Orphaned
      <3>1. PICK y \in ParentsOf[z] : b = y \/ b \in Past(y)
        BY <2>3, PastSplit
      <3>2. y \notin have
        BY <3>1, PastKnown
      <3>3. y \in Kept
        BY <2>3, <3>1, <3>2, MissingIsKept
      <3>4. y \in Holds[p]
        BY <3>1, SyncConstants
      <3> QED BY <1>2, <1>3, <3>1, <3>2, <3>3, <3>4
    <2> QED BY <2>1, <2>2, <2>3, KeptAtRest
  <1>4. SyncBlock \subseteq G
    BY <1>3, ParentInduction
  <1> QED BY <1>1, <1>2, <1>4

(***************************************************************************)
(* When all is quiet, a block that a peer holds and the node lacks is      *)
(* explained by a fate of the block, of an ancestor, or of a descendant    *)
(* that this peer announced, or its peer was not asked and is not above    *)
(* the node: else there is a tip above the block, the tip is kept, and     *)
(* from a kept block without a fate the way leads down, through a parent   *)
(* that is missing and kept, to one with a fate (`Message::Hello`,         *)
(* `ingest_block`, `request_block_body`, `buffer_orphan`).                 *)
(***************************************************************************)
THEOREM StallsExplained == SyncSpec => []StallExplained
  <1>1. SyncInv => StallExplained
    <2> SUFFICES ASSUME SyncInv, Quiet, NEW p \in SyncPeer, NEW b \in Holds[p], b \notin have,
                        ~(p \in unasked /\ ~HasHigherBlue(p))
                 PROVE  \E x \in Fates : x \in {b} \cup Past(b) \/ (x \in Holds[p] /\ b \in Past(x))
      BY DEF StallExplained, Fates
    <2>1. PICK z \in Tips(p) : b = z \/ b \in Past(z)
      BY TipAbove
    <2>2. z \in Kept
      <3>1. link[p] = "up" /\ inbox[p] = <<>> /\ p \notin unasked
        BY DEF Quiet, SyncInv, UnaskedLower
      <3>2. \A m \in ToSet(inbox[p]) : ~IsDue(m)
        BY <3>1 DEF ToSet
      <3> QED BY <2>1, <3>1, <3>2 DEF SyncInv, TipsAreKept
    <2>3. z \notin have
      BY <2>1, PastKnown
    <2>4. z \in SyncBlock /\ z \in Holds[p]
      BY <2>1, TipsIn
    <2> QED BY <2>1, <2>2, <2>3, <2>4, FateNear
  <1> QED BY <1>1, SyncInitInv, SyncStepInv, PTL DEF SyncSpec
-----------------------------------------------------------------------------
(***************************************************************************)
(* Mempool: every fold of the model over a sequence (applying items,       *)
(* replaying the chain, removing transactions, sorting by rate, trimming   *)
(* to the size of a body, the rounds of a preview) is the last value of a  *)
(* run that takes one member of the sequence at a time.                    *)
(***************************************************************************)
ApplyingStep(r, x) ==
    IF Applies(r.l, x) THEN [l |-> Apply(r.l, x), good |-> Append(r.good, x)] ELSE r

ApplyingAt(b0, seq, f, s) == IF s = {} THEN b0 ELSE ApplyingStep(f[s \ {Max(s)}], seq[Max(s)])

IsApplyingAll(b0, seq, f) == f = [s \in SUBSET DOMAIN seq |-> ApplyingAt(b0, seq, f, s)]

ApplyingAll(b0, seq) == (CHOOSE f : IsApplyingAll(b0, seq, f))[DOMAIN seq]

IsApplyingRun(b0, A, seq, n, G) ==
    G \in [0..n -> A] /\ G[0] = b0 /\ \A i \in 1..n : G[i] = ApplyingStep(G[i - 1], seq[i])

ApplyingStays(b0, A, V) == b0 \in A /\ \A a \in A : \A v \in V : ApplyingStep(a, v) \in A

LEMMA ApplyingRuns ==
    ASSUME NEW b0, NEW A, NEW V, NEW n \in Nat, NEW seq, DOMAIN seq = 1..n, IndexedIn(seq, n, V),
           ApplyingStays(b0, A, V)
    PROVE  \E G : IsApplyingRun(b0, A, seq, n, G) /\ G[n] = ApplyingAll(b0, seq)
  <1>1. \A i \in 1..n : seq[i] \in V
    BY DEF IndexedIn
  <1>2. PICK F : F = [p \in A \X V |-> ApplyingStep(p[1], p[2])]
    OBVIOUS
  <1>3. \A a \in A : \A v \in V : F[<<a, v>>] = ApplyingStep(a, v)
    BY <1>2
  <1>4. F \in [A \X V -> A]
    <2>1. \A p \in A \X V : ApplyingStep(p[1], p[2]) \in A
      BY DEF ApplyingStays
    <2> QED BY <1>2, <2>1
  <1>5. PICK base : base = b0 /\ base \in A
    BY DEF ApplyingStays
  <1>6. PICK f \in [SUBSET (1..n) -> A] : IsFoldOf(F, base, seq, 1..n, f)
    <2>1. IsFiniteSet(1..n) /\ \A y \in 1..n : y \in Nat
      BY FS_Interval
    <2>2. PICK I : I = 1..n
      OBVIOUS
    <2>3. IsFiniteSet(I) /\ \A y \in I : y \in Nat
      BY <2>1, <2>2
    <2>4. \A x \in I : seq[x] \in V
      BY <1>1, <2>2
    <2>5. \E g \in [SUBSET I -> A] : IsFoldOf(F, base, seq, I, g)
      BY <1>4, <1>5, <2>3, <2>4, FoldExists
    <2> QED BY <2>2, <2>5
  <1>7. IsApplyingAll(b0, seq, f)
    <2>1. ASSUME NEW s \in SUBSET (1..n) PROVE f[s] = ApplyingAt(b0, seq, f, s)
      <3>1. f[s] = IF s = {} THEN base ELSE F[<<f[s \ {Max(s)}], seq[Max(s)]>>]
        BY <1>6 DEF IsFoldOf
      <3>2. CASE s # {}
        <4>1. Max(s) \in s
          BY <3>2, IndexMax
        <4>2. f[s \ {Max(s)}] \in A /\ seq[Max(s)] \in V
          BY <1>1, <1>6, <4>1
        <4> QED BY <1>3, <3>1, <3>2, <4>2 DEF ApplyingAt
      <3> QED BY <1>5, <3>1, <3>2 DEF ApplyingAt
    <2>2. f = [s \in SUBSET (1..n) |-> ApplyingAt(b0, seq, f, s)]
      BY <1>6, <2>1
    <2> QED BY <2>2 DEF IsApplyingAll
  <1>8. PICK h : h = (CHOOSE g : IsApplyingAll(b0, seq, g)) /\ IsApplyingAll(b0, seq, h)
    BY <1>7
  <1>9. h[1..n] = ApplyingAll(b0, seq)
    BY <1>8 DEF ApplyingAll
  <1>10. \A s \in SUBSET (1..n) : h[s] = ApplyingAt(b0, seq, h, s)
    BY <1>8 DEF IsApplyingAll
  <1>11. FollowsFold(A, F, base, seq, n, h)
    <2>1. h[{}] = base
      BY <1>5, <1>10 DEF ApplyingAt
    <2>2. ASSUME NEW s \in SUBSET (1..n), s # {}, h[s \ {Max(s)}] \in A
          PROVE  h[s] = F[<<h[s \ {Max(s)}], seq[Max(s)]>>]
      <3>1. h[s] = ApplyingStep(h[s \ {Max(s)}], seq[Max(s)])
        BY <1>10, <2>2 DEF ApplyingAt
      <3>2. seq[Max(s)] \in V
        BY <1>1, <2>2, IndexMax
      <3> QED BY <1>3, <2>2, <3>1, <3>2
    <2> QED BY <2>1, <2>2 DEF FollowsFold
  <1>12. PICK G : IsRun(A, F, base, seq, n, G) /\ G[n] = h[1..n]
    <2>1. IsStepOn(A, V, F)
      BY <1>4 DEF IsStepOn
    <2> QED BY <1>5, <1>11, <2>1, FoldRuns
  <1>13. G \in [0..n -> A] /\ G[0] = base /\ \A i \in 1..n : G[i] = F[<<G[i - 1], seq[i]>>]
    BY <1>12 DEF IsRun
  <1>14. ASSUME NEW i \in 1..n PROVE G[i] = ApplyingStep(G[i - 1], seq[i])
    <2>1. G[i - 1] \in A /\ seq[i] \in V
      BY <1>1, <1>13
    <2> QED BY <1>3, <1>13, <2>1
  <1> QED BY <1>5, <1>9, <1>12, <1>13, <1>14 DEF IsApplyingRun

LEMMA ApplyAllFold ==
    ASSUME NEW l, NEW s PROVE ApplyAll(l, s) = ApplyingAll([l |-> l, good |-> <<>>], s)
  BY DEF ApplyAll, FoldLeft, MapThenFoldSet, ApplyingAll, IsApplyingAll, ApplyingAt, ApplyingStep

ReplayingStep(l, b) == ApplyAll([l EXCEPT !.score = b.score], b.body).l

ReplayingAt(b0, seq, f, s) == IF s = {} THEN b0 ELSE ReplayingStep(f[s \ {Max(s)}], seq[Max(s)])

IsReplayingAll(b0, seq, f) == f = [s \in SUBSET DOMAIN seq |-> ReplayingAt(b0, seq, f, s)]

ReplayingAll(b0, seq) == (CHOOSE f : IsReplayingAll(b0, seq, f))[DOMAIN seq]

IsReplayingRun(b0, A, seq, n, G) ==
    G \in [0..n -> A] /\ G[0] = b0 /\ \A i \in 1..n : G[i] = ReplayingStep(G[i - 1], seq[i])

ReplayingStays(b0, A, V) == b0 \in A /\ \A a \in A : \A v \in V : ReplayingStep(a, v) \in A

LEMMA ReplayingRuns ==
    ASSUME NEW b0, NEW A, NEW V, NEW n \in Nat, NEW seq, DOMAIN seq = 1..n, IndexedIn(seq, n, V),
           ReplayingStays(b0, A, V)
    PROVE  \E G : IsReplayingRun(b0, A, seq, n, G) /\ G[n] = ReplayingAll(b0, seq)
  <1>1. \A i \in 1..n : seq[i] \in V
    BY DEF IndexedIn
  <1>2. PICK F : F = [p \in A \X V |-> ReplayingStep(p[1], p[2])]
    OBVIOUS
  <1>3. \A a \in A : \A v \in V : F[<<a, v>>] = ReplayingStep(a, v)
    BY <1>2
  <1>4. F \in [A \X V -> A]
    <2>1. \A p \in A \X V : ReplayingStep(p[1], p[2]) \in A
      BY DEF ReplayingStays
    <2> QED BY <1>2, <2>1
  <1>5. PICK base : base = b0 /\ base \in A
    BY DEF ReplayingStays
  <1>6. PICK f \in [SUBSET (1..n) -> A] : IsFoldOf(F, base, seq, 1..n, f)
    <2>1. IsFiniteSet(1..n) /\ \A y \in 1..n : y \in Nat
      BY FS_Interval
    <2>2. PICK I : I = 1..n
      OBVIOUS
    <2>3. IsFiniteSet(I) /\ \A y \in I : y \in Nat
      BY <2>1, <2>2
    <2>4. \A x \in I : seq[x] \in V
      BY <1>1, <2>2
    <2>5. \E g \in [SUBSET I -> A] : IsFoldOf(F, base, seq, I, g)
      BY <1>4, <1>5, <2>3, <2>4, FoldExists
    <2> QED BY <2>2, <2>5
  <1>7. IsReplayingAll(b0, seq, f)
    <2>1. ASSUME NEW s \in SUBSET (1..n) PROVE f[s] = ReplayingAt(b0, seq, f, s)
      <3>1. f[s] = IF s = {} THEN base ELSE F[<<f[s \ {Max(s)}], seq[Max(s)]>>]
        BY <1>6 DEF IsFoldOf
      <3>2. CASE s # {}
        <4>1. Max(s) \in s
          BY <3>2, IndexMax
        <4>2. f[s \ {Max(s)}] \in A /\ seq[Max(s)] \in V
          BY <1>1, <1>6, <4>1
        <4> QED BY <1>3, <3>1, <3>2, <4>2 DEF ReplayingAt
      <3> QED BY <1>5, <3>1, <3>2 DEF ReplayingAt
    <2>2. f = [s \in SUBSET (1..n) |-> ReplayingAt(b0, seq, f, s)]
      BY <1>6, <2>1
    <2> QED BY <2>2 DEF IsReplayingAll
  <1>8. PICK h : h = (CHOOSE g : IsReplayingAll(b0, seq, g)) /\ IsReplayingAll(b0, seq, h)
    BY <1>7
  <1>9. h[1..n] = ReplayingAll(b0, seq)
    BY <1>8 DEF ReplayingAll
  <1>10. \A s \in SUBSET (1..n) : h[s] = ReplayingAt(b0, seq, h, s)
    BY <1>8 DEF IsReplayingAll
  <1>11. FollowsFold(A, F, base, seq, n, h)
    <2>1. h[{}] = base
      BY <1>5, <1>10 DEF ReplayingAt
    <2>2. ASSUME NEW s \in SUBSET (1..n), s # {}, h[s \ {Max(s)}] \in A
          PROVE  h[s] = F[<<h[s \ {Max(s)}], seq[Max(s)]>>]
      <3>1. h[s] = ReplayingStep(h[s \ {Max(s)}], seq[Max(s)])
        BY <1>10, <2>2 DEF ReplayingAt
      <3>2. seq[Max(s)] \in V
        BY <1>1, <2>2, IndexMax
      <3> QED BY <1>3, <2>2, <3>1, <3>2
    <2> QED BY <2>1, <2>2 DEF FollowsFold
  <1>12. PICK G : IsRun(A, F, base, seq, n, G) /\ G[n] = h[1..n]
    <2>1. IsStepOn(A, V, F)
      BY <1>4 DEF IsStepOn
    <2> QED BY <1>5, <1>11, <2>1, FoldRuns
  <1>13. G \in [0..n -> A] /\ G[0] = base /\ \A i \in 1..n : G[i] = F[<<G[i - 1], seq[i]>>]
    BY <1>12 DEF IsRun
  <1>14. ASSUME NEW i \in 1..n PROVE G[i] = ReplayingStep(G[i - 1], seq[i])
    <2>1. G[i - 1] \in A /\ seq[i] \in V
      BY <1>1, <1>13
    <2> QED BY <1>3, <1>13, <2>1
  <1> QED BY <1>5, <1>9, <1>12, <1>13, <1>14 DEF IsReplayingRun

LEMMA ReplayFold == ASSUME NEW l, NEW blocks PROVE Replay(l, blocks) = ReplayingAll(l, blocks)
  BY DEF Replay, FoldLeft, MapThenFoldSet, ReplayingAll, IsReplayingAll, ReplayingAt, ReplayingStep

KeepingStep(S, r, x) == IF x \in S THEN r ELSE Append(r, x)

KeepingAt(S, b0, seq, f, s) == IF s = {} THEN b0 ELSE KeepingStep(S, f[s \ {Max(s)}], seq[Max(s)])

IsKeepingAll(S, b0, seq, f) == f = [s \in SUBSET DOMAIN seq |-> KeepingAt(S, b0, seq, f, s)]

KeepingAll(S, b0, seq) == (CHOOSE f : IsKeepingAll(S, b0, seq, f))[DOMAIN seq]

IsKeepingRun(S, b0, A, seq, n, G) ==
    G \in [0..n -> A] /\ G[0] = b0 /\ \A i \in 1..n : G[i] = KeepingStep(S, G[i - 1], seq[i])

KeepingStays(S, b0, A, V) == b0 \in A /\ \A a \in A : \A v \in V : KeepingStep(S, a, v) \in A

LEMMA KeepingRuns ==
    ASSUME NEW S, NEW b0, NEW A, NEW V, NEW n \in Nat, NEW seq, DOMAIN seq = 1..n, IndexedIn(seq, n, V),
           KeepingStays(S, b0, A, V)
    PROVE  \E G : IsKeepingRun(S, b0, A, seq, n, G) /\ G[n] = KeepingAll(S, b0, seq)
  <1>1. \A i \in 1..n : seq[i] \in V
    BY DEF IndexedIn
  <1>2. PICK F : F = [p \in A \X V |-> KeepingStep(S, p[1], p[2])]
    OBVIOUS
  <1>3. \A a \in A : \A v \in V : F[<<a, v>>] = KeepingStep(S, a, v)
    BY <1>2
  <1>4. F \in [A \X V -> A]
    <2>1. \A p \in A \X V : KeepingStep(S, p[1], p[2]) \in A
      BY DEF KeepingStays
    <2> QED BY <1>2, <2>1
  <1>5. PICK base : base = b0 /\ base \in A
    BY DEF KeepingStays
  <1>6. PICK f \in [SUBSET (1..n) -> A] : IsFoldOf(F, base, seq, 1..n, f)
    <2>1. IsFiniteSet(1..n) /\ \A y \in 1..n : y \in Nat
      BY FS_Interval
    <2>2. PICK I : I = 1..n
      OBVIOUS
    <2>3. IsFiniteSet(I) /\ \A y \in I : y \in Nat
      BY <2>1, <2>2
    <2>4. \A x \in I : seq[x] \in V
      BY <1>1, <2>2
    <2>5. \E g \in [SUBSET I -> A] : IsFoldOf(F, base, seq, I, g)
      BY <1>4, <1>5, <2>3, <2>4, FoldExists
    <2> QED BY <2>2, <2>5
  <1>7. IsKeepingAll(S, b0, seq, f)
    <2>1. ASSUME NEW s \in SUBSET (1..n) PROVE f[s] = KeepingAt(S, b0, seq, f, s)
      <3>1. f[s] = IF s = {} THEN base ELSE F[<<f[s \ {Max(s)}], seq[Max(s)]>>]
        BY <1>6 DEF IsFoldOf
      <3>2. CASE s # {}
        <4>1. Max(s) \in s
          BY <3>2, IndexMax
        <4>2. f[s \ {Max(s)}] \in A /\ seq[Max(s)] \in V
          BY <1>1, <1>6, <4>1
        <4> QED BY <1>3, <3>1, <3>2, <4>2 DEF KeepingAt
      <3> QED BY <1>5, <3>1, <3>2 DEF KeepingAt
    <2>2. f = [s \in SUBSET (1..n) |-> KeepingAt(S, b0, seq, f, s)]
      BY <1>6, <2>1
    <2> QED BY <2>2 DEF IsKeepingAll
  <1>8. PICK h : h = (CHOOSE g : IsKeepingAll(S, b0, seq, g)) /\ IsKeepingAll(S, b0, seq, h)
    BY <1>7
  <1>9. h[1..n] = KeepingAll(S, b0, seq)
    BY <1>8 DEF KeepingAll
  <1>10. \A s \in SUBSET (1..n) : h[s] = KeepingAt(S, b0, seq, h, s)
    BY <1>8 DEF IsKeepingAll
  <1>11. FollowsFold(A, F, base, seq, n, h)
    <2>1. h[{}] = base
      BY <1>5, <1>10 DEF KeepingAt
    <2>2. ASSUME NEW s \in SUBSET (1..n), s # {}, h[s \ {Max(s)}] \in A
          PROVE  h[s] = F[<<h[s \ {Max(s)}], seq[Max(s)]>>]
      <3>1. h[s] = KeepingStep(S, h[s \ {Max(s)}], seq[Max(s)])
        BY <1>10, <2>2 DEF KeepingAt
      <3>2. seq[Max(s)] \in V
        BY <1>1, <2>2, IndexMax
      <3> QED BY <1>3, <2>2, <3>1, <3>2
    <2> QED BY <2>1, <2>2 DEF FollowsFold
  <1>12. PICK G : IsRun(A, F, base, seq, n, G) /\ G[n] = h[1..n]
    <2>1. IsStepOn(A, V, F)
      BY <1>4 DEF IsStepOn
    <2> QED BY <1>5, <1>11, <2>1, FoldRuns
  <1>13. G \in [0..n -> A] /\ G[0] = base /\ \A i \in 1..n : G[i] = F[<<G[i - 1], seq[i]>>]
    BY <1>12 DEF IsRun
  <1>14. ASSUME NEW i \in 1..n PROVE G[i] = KeepingStep(S, G[i - 1], seq[i])
    <2>1. G[i - 1] \in A /\ seq[i] \in V
      BY <1>1, <1>13
    <2> QED BY <1>3, <1>13, <2>1
  <1> QED BY <1>5, <1>9, <1>12, <1>13, <1>14 DEF IsKeepingRun

LEMMA WithoutFold == ASSUME NEW s, NEW S PROVE Without(s, S) = KeepingAll(S, <<>>, s)
  BY DEF Without, FoldLeft, MapThenFoldSet, KeepingAll, IsKeepingAll, KeepingAt, KeepingStep

SortingStep(r, t) ==
    LET before == {s \in ToSet(r) : Outranks(s, t)}
    IN Without(r, ToSet(r) \ before) \o <<t>> \o Without(r, before)

SortingAt(b0, seq, f, s) == IF s = {} THEN b0 ELSE SortingStep(f[s \ {Max(s)}], seq[Max(s)])

IsSortingAll(b0, seq, f) == f = [s \in SUBSET DOMAIN seq |-> SortingAt(b0, seq, f, s)]

SortingAll(b0, seq) == (CHOOSE f : IsSortingAll(b0, seq, f))[DOMAIN seq]

IsSortingRun(b0, A, seq, n, G) ==
    G \in [0..n -> A] /\ G[0] = b0 /\ \A i \in 1..n : G[i] = SortingStep(G[i - 1], seq[i])

SortingStays(b0, A, V) == b0 \in A /\ \A a \in A : \A v \in V : SortingStep(a, v) \in A

LEMMA SortingRuns ==
    ASSUME NEW b0, NEW A, NEW V, NEW n \in Nat, NEW seq, DOMAIN seq = 1..n, IndexedIn(seq, n, V),
           SortingStays(b0, A, V)
    PROVE  \E G : IsSortingRun(b0, A, seq, n, G) /\ G[n] = SortingAll(b0, seq)
  <1>1. \A i \in 1..n : seq[i] \in V
    BY DEF IndexedIn
  <1>2. PICK F : F = [p \in A \X V |-> SortingStep(p[1], p[2])]
    OBVIOUS
  <1>3. \A a \in A : \A v \in V : F[<<a, v>>] = SortingStep(a, v)
    BY <1>2
  <1>4. F \in [A \X V -> A]
    <2>1. \A p \in A \X V : SortingStep(p[1], p[2]) \in A
      BY DEF SortingStays
    <2> QED BY <1>2, <2>1
  <1>5. PICK base : base = b0 /\ base \in A
    BY DEF SortingStays
  <1>6. PICK f \in [SUBSET (1..n) -> A] : IsFoldOf(F, base, seq, 1..n, f)
    <2>1. IsFiniteSet(1..n) /\ \A y \in 1..n : y \in Nat
      BY FS_Interval
    <2>2. PICK I : I = 1..n
      OBVIOUS
    <2>3. IsFiniteSet(I) /\ \A y \in I : y \in Nat
      BY <2>1, <2>2
    <2>4. \A x \in I : seq[x] \in V
      BY <1>1, <2>2
    <2>5. \E g \in [SUBSET I -> A] : IsFoldOf(F, base, seq, I, g)
      BY <1>4, <1>5, <2>3, <2>4, FoldExists
    <2> QED BY <2>2, <2>5
  <1>7. IsSortingAll(b0, seq, f)
    <2>1. ASSUME NEW s \in SUBSET (1..n) PROVE f[s] = SortingAt(b0, seq, f, s)
      <3>1. f[s] = IF s = {} THEN base ELSE F[<<f[s \ {Max(s)}], seq[Max(s)]>>]
        BY <1>6 DEF IsFoldOf
      <3>2. CASE s # {}
        <4>1. Max(s) \in s
          BY <3>2, IndexMax
        <4>2. f[s \ {Max(s)}] \in A /\ seq[Max(s)] \in V
          BY <1>1, <1>6, <4>1
        <4> QED BY <1>3, <3>1, <3>2, <4>2 DEF SortingAt
      <3> QED BY <1>5, <3>1, <3>2 DEF SortingAt
    <2>2. f = [s \in SUBSET (1..n) |-> SortingAt(b0, seq, f, s)]
      BY <1>6, <2>1
    <2> QED BY <2>2 DEF IsSortingAll
  <1>8. PICK h : h = (CHOOSE g : IsSortingAll(b0, seq, g)) /\ IsSortingAll(b0, seq, h)
    BY <1>7
  <1>9. h[1..n] = SortingAll(b0, seq)
    BY <1>8 DEF SortingAll
  <1>10. \A s \in SUBSET (1..n) : h[s] = SortingAt(b0, seq, h, s)
    BY <1>8 DEF IsSortingAll
  <1>11. FollowsFold(A, F, base, seq, n, h)
    <2>1. h[{}] = base
      BY <1>5, <1>10 DEF SortingAt
    <2>2. ASSUME NEW s \in SUBSET (1..n), s # {}, h[s \ {Max(s)}] \in A
          PROVE  h[s] = F[<<h[s \ {Max(s)}], seq[Max(s)]>>]
      <3>1. h[s] = SortingStep(h[s \ {Max(s)}], seq[Max(s)])
        BY <1>10, <2>2 DEF SortingAt
      <3>2. seq[Max(s)] \in V
        BY <1>1, <2>2, IndexMax
      <3> QED BY <1>3, <2>2, <3>1, <3>2
    <2> QED BY <2>1, <2>2 DEF FollowsFold
  <1>12. PICK G : IsRun(A, F, base, seq, n, G) /\ G[n] = h[1..n]
    <2>1. IsStepOn(A, V, F)
      BY <1>4 DEF IsStepOn
    <2> QED BY <1>5, <1>11, <2>1, FoldRuns
  <1>13. G \in [0..n -> A] /\ G[0] = base /\ \A i \in 1..n : G[i] = F[<<G[i - 1], seq[i]>>]
    BY <1>12 DEF IsRun
  <1>14. ASSUME NEW i \in 1..n PROVE G[i] = SortingStep(G[i - 1], seq[i])
    <2>1. G[i - 1] \in A /\ seq[i] \in V
      BY <1>1, <1>13
    <2> QED BY <1>3, <1>13, <2>1
  <1> QED BY <1>5, <1>9, <1>12, <1>13, <1>14 DEF IsSortingRun

LEMMA ByRateFold == ByRate = SortingAll(<<>>, pool)
  BY DEF ByRate, FoldLeft, MapThenFoldSet, SortingAll, IsSortingAll, SortingAt, SortingStep

TrimmingStep(c, x) == IF BodySize(c) <= MaxBlockSize THEN c ELSE TrimOne(c)

TrimmingAt(b0, seq, f, s) == IF s = {} THEN b0 ELSE TrimmingStep(f[s \ {Max(s)}], seq[Max(s)])

IsTrimmingAll(b0, seq, f) == f = [s \in SUBSET DOMAIN seq |-> TrimmingAt(b0, seq, f, s)]

TrimmingAll(b0, seq) == (CHOOSE f : IsTrimmingAll(b0, seq, f))[DOMAIN seq]

IsTrimmingRun(b0, A, seq, n, G) ==
    G \in [0..n -> A] /\ G[0] = b0 /\ \A i \in 1..n : G[i] = TrimmingStep(G[i - 1], seq[i])

TrimmingStays(b0, A, V) == b0 \in A /\ \A a \in A : \A v \in V : TrimmingStep(a, v) \in A

LEMMA TrimmingRuns ==
    ASSUME NEW b0, NEW A, NEW V, NEW n \in Nat, NEW seq, DOMAIN seq = 1..n, IndexedIn(seq, n, V),
           TrimmingStays(b0, A, V)
    PROVE  \E G : IsTrimmingRun(b0, A, seq, n, G) /\ G[n] = TrimmingAll(b0, seq)
  <1>1. \A i \in 1..n : seq[i] \in V
    BY DEF IndexedIn
  <1>2. PICK F : F = [p \in A \X V |-> TrimmingStep(p[1], p[2])]
    OBVIOUS
  <1>3. \A a \in A : \A v \in V : F[<<a, v>>] = TrimmingStep(a, v)
    BY <1>2
  <1>4. F \in [A \X V -> A]
    <2>1. \A p \in A \X V : TrimmingStep(p[1], p[2]) \in A
      BY DEF TrimmingStays
    <2> QED BY <1>2, <2>1
  <1>5. PICK base : base = b0 /\ base \in A
    BY DEF TrimmingStays
  <1>6. PICK f \in [SUBSET (1..n) -> A] : IsFoldOf(F, base, seq, 1..n, f)
    <2>1. IsFiniteSet(1..n) /\ \A y \in 1..n : y \in Nat
      BY FS_Interval
    <2>2. PICK I : I = 1..n
      OBVIOUS
    <2>3. IsFiniteSet(I) /\ \A y \in I : y \in Nat
      BY <2>1, <2>2
    <2>4. \A x \in I : seq[x] \in V
      BY <1>1, <2>2
    <2>5. \E g \in [SUBSET I -> A] : IsFoldOf(F, base, seq, I, g)
      BY <1>4, <1>5, <2>3, <2>4, FoldExists
    <2> QED BY <2>2, <2>5
  <1>7. IsTrimmingAll(b0, seq, f)
    <2>1. ASSUME NEW s \in SUBSET (1..n) PROVE f[s] = TrimmingAt(b0, seq, f, s)
      <3>1. f[s] = IF s = {} THEN base ELSE F[<<f[s \ {Max(s)}], seq[Max(s)]>>]
        BY <1>6 DEF IsFoldOf
      <3>2. CASE s # {}
        <4>1. Max(s) \in s
          BY <3>2, IndexMax
        <4>2. f[s \ {Max(s)}] \in A /\ seq[Max(s)] \in V
          BY <1>1, <1>6, <4>1
        <4> QED BY <1>3, <3>1, <3>2, <4>2 DEF TrimmingAt
      <3> QED BY <1>5, <3>1, <3>2 DEF TrimmingAt
    <2>2. f = [s \in SUBSET (1..n) |-> TrimmingAt(b0, seq, f, s)]
      BY <1>6, <2>1
    <2> QED BY <2>2 DEF IsTrimmingAll
  <1>8. PICK h : h = (CHOOSE g : IsTrimmingAll(b0, seq, g)) /\ IsTrimmingAll(b0, seq, h)
    BY <1>7
  <1>9. h[1..n] = TrimmingAll(b0, seq)
    BY <1>8 DEF TrimmingAll
  <1>10. \A s \in SUBSET (1..n) : h[s] = TrimmingAt(b0, seq, h, s)
    BY <1>8 DEF IsTrimmingAll
  <1>11. FollowsFold(A, F, base, seq, n, h)
    <2>1. h[{}] = base
      BY <1>5, <1>10 DEF TrimmingAt
    <2>2. ASSUME NEW s \in SUBSET (1..n), s # {}, h[s \ {Max(s)}] \in A
          PROVE  h[s] = F[<<h[s \ {Max(s)}], seq[Max(s)]>>]
      <3>1. h[s] = TrimmingStep(h[s \ {Max(s)}], seq[Max(s)])
        BY <1>10, <2>2 DEF TrimmingAt
      <3>2. seq[Max(s)] \in V
        BY <1>1, <2>2, IndexMax
      <3> QED BY <1>3, <2>2, <3>1, <3>2
    <2> QED BY <2>1, <2>2 DEF FollowsFold
  <1>12. PICK G : IsRun(A, F, base, seq, n, G) /\ G[n] = h[1..n]
    <2>1. IsStepOn(A, V, F)
      BY <1>4 DEF IsStepOn
    <2> QED BY <1>5, <1>11, <2>1, FoldRuns
  <1>13. G \in [0..n -> A] /\ G[0] = base /\ \A i \in 1..n : G[i] = F[<<G[i - 1], seq[i]>>]
    BY <1>12 DEF IsRun
  <1>14. ASSUME NEW i \in 1..n PROVE G[i] = TrimmingStep(G[i - 1], seq[i])
    <2>1. G[i - 1] \in A /\ seq[i] \in V
      BY <1>1, <1>13
    <2> QED BY <1>3, <1>13, <2>1
  <1> QED BY <1>5, <1>9, <1>12, <1>13, <1>14 DEF IsTrimmingRun

LEMMA TrimmedFold == ASSUME NEW b PROVE Trimmed(b) = TrimmingAll(b, Body(b))
  BY DEF Trimmed, FoldLeft, MapThenFoldSet, TrimmingAll, IsTrimmingAll, TrimmingAt, TrimmingStep

RoundsStep(r, t) == Round(r)

RoundsAt(b0, seq, f, s) == IF s = {} THEN b0 ELSE RoundsStep(f[s \ {Max(s)}], seq[Max(s)])

IsRoundsAll(b0, seq, f) == f = [s \in SUBSET DOMAIN seq |-> RoundsAt(b0, seq, f, s)]

RoundsAll(b0, seq) == (CHOOSE f : IsRoundsAll(b0, seq, f))[DOMAIN seq]

IsRoundsRun(b0, A, seq, n, G) ==
    G \in [0..n -> A] /\ G[0] = b0 /\ \A i \in 1..n : G[i] = RoundsStep(G[i - 1], seq[i])

RoundsStays(b0, A, V) == b0 \in A /\ \A a \in A : \A v \in V : RoundsStep(a, v) \in A

LEMMA RoundsRuns ==
    ASSUME NEW b0, NEW A, NEW V, NEW n \in Nat, NEW seq, DOMAIN seq = 1..n, IndexedIn(seq, n, V),
           RoundsStays(b0, A, V)
    PROVE  \E G : IsRoundsRun(b0, A, seq, n, G) /\ G[n] = RoundsAll(b0, seq)
  <1>1. \A i \in 1..n : seq[i] \in V
    BY DEF IndexedIn
  <1>2. PICK F : F = [p \in A \X V |-> RoundsStep(p[1], p[2])]
    OBVIOUS
  <1>3. \A a \in A : \A v \in V : F[<<a, v>>] = RoundsStep(a, v)
    BY <1>2
  <1>4. F \in [A \X V -> A]
    <2>1. \A p \in A \X V : RoundsStep(p[1], p[2]) \in A
      BY DEF RoundsStays
    <2> QED BY <1>2, <2>1
  <1>5. PICK base : base = b0 /\ base \in A
    BY DEF RoundsStays
  <1>6. PICK f \in [SUBSET (1..n) -> A] : IsFoldOf(F, base, seq, 1..n, f)
    <2>1. IsFiniteSet(1..n) /\ \A y \in 1..n : y \in Nat
      BY FS_Interval
    <2>2. PICK I : I = 1..n
      OBVIOUS
    <2>3. IsFiniteSet(I) /\ \A y \in I : y \in Nat
      BY <2>1, <2>2
    <2>4. \A x \in I : seq[x] \in V
      BY <1>1, <2>2
    <2>5. \E g \in [SUBSET I -> A] : IsFoldOf(F, base, seq, I, g)
      BY <1>4, <1>5, <2>3, <2>4, FoldExists
    <2> QED BY <2>2, <2>5
  <1>7. IsRoundsAll(b0, seq, f)
    <2>1. ASSUME NEW s \in SUBSET (1..n) PROVE f[s] = RoundsAt(b0, seq, f, s)
      <3>1. f[s] = IF s = {} THEN base ELSE F[<<f[s \ {Max(s)}], seq[Max(s)]>>]
        BY <1>6 DEF IsFoldOf
      <3>2. CASE s # {}
        <4>1. Max(s) \in s
          BY <3>2, IndexMax
        <4>2. f[s \ {Max(s)}] \in A /\ seq[Max(s)] \in V
          BY <1>1, <1>6, <4>1
        <4> QED BY <1>3, <3>1, <3>2, <4>2 DEF RoundsAt
      <3> QED BY <1>5, <3>1, <3>2 DEF RoundsAt
    <2>2. f = [s \in SUBSET (1..n) |-> RoundsAt(b0, seq, f, s)]
      BY <1>6, <2>1
    <2> QED BY <2>2 DEF IsRoundsAll
  <1>8. PICK h : h = (CHOOSE g : IsRoundsAll(b0, seq, g)) /\ IsRoundsAll(b0, seq, h)
    BY <1>7
  <1>9. h[1..n] = RoundsAll(b0, seq)
    BY <1>8 DEF RoundsAll
  <1>10. \A s \in SUBSET (1..n) : h[s] = RoundsAt(b0, seq, h, s)
    BY <1>8 DEF IsRoundsAll
  <1>11. FollowsFold(A, F, base, seq, n, h)
    <2>1. h[{}] = base
      BY <1>5, <1>10 DEF RoundsAt
    <2>2. ASSUME NEW s \in SUBSET (1..n), s # {}, h[s \ {Max(s)}] \in A
          PROVE  h[s] = F[<<h[s \ {Max(s)}], seq[Max(s)]>>]
      <3>1. h[s] = RoundsStep(h[s \ {Max(s)}], seq[Max(s)])
        BY <1>10, <2>2 DEF RoundsAt
      <3>2. seq[Max(s)] \in V
        BY <1>1, <2>2, IndexMax
      <3> QED BY <1>3, <2>2, <3>1, <3>2
    <2> QED BY <2>1, <2>2 DEF FollowsFold
  <1>12. PICK G : IsRun(A, F, base, seq, n, G) /\ G[n] = h[1..n]
    <2>1. IsStepOn(A, V, F)
      BY <1>4 DEF IsStepOn
    <2> QED BY <1>5, <1>11, <2>1, FoldRuns
  <1>13. G \in [0..n -> A] /\ G[0] = base /\ \A i \in 1..n : G[i] = F[<<G[i - 1], seq[i]>>]
    BY <1>12 DEF IsRun
  <1>14. ASSUME NEW i \in 1..n PROVE G[i] = RoundsStep(G[i - 1], seq[i])
    <2>1. G[i - 1] \in A /\ seq[i] \in V
      BY <1>1, <1>13
    <2> QED BY <1>3, <1>13, <2>1
  <1> QED BY <1>5, <1>9, <1>12, <1>13, <1>14 DEF IsRoundsRun

LEMMA PreviewFold ==
    ASSUME NEW rest PROVE Preview(rest) = RoundsAll([l |-> Live, pending |-> rest], rest).l
  BY DEF Preview, FoldLeft, MapThenFoldSet, RoundsAll, IsRoundsAll, RoundsAt, RoundsStep

PoolItem == Tx \cup Op
LState == [coins : SUBSET Coin, nonce : [Signer -> Nat], score : Nat]
PoolBlock == [body : Seq(PoolItem), score : Nat]
Progress == [l : LState, good : Seq(PoolItem)]

LEMMA OpIs ==
    ASSUME NEW x \in Op
    PROVE  x \notin Tx /\ x.signer \in Signer /\ x.nonce \in Nat /\ x.list \in {"registry", "custody"}
  <1>1. x \notin Tx /\ x \in [list : {"registry", "custody"}, signer : {o.signer : o \in Op},
                               nonce : Nat, kind : {o.kind : o \in Op}]
    BY PoolConstants
  <1>2. x.signer \in Signer
    BY DEF Signer
  <1> QED BY <1>1, <1>2

LEMMA ApplyTx ==
    ASSUME NEW l \in LState, NEW x \in Tx
    PROVE  /\ Apply(l, x) \in LState /\ Apply(l, x).nonce = l.nonce /\ Apply(l, x).score = l.score
           /\ Apply(l, x).coins = (l.coins \ Spends[x]) \cup Makes[x]
           /\ Applies(l, x) <=> Spends[x] \subseteq l.coins /\ l.score < Expires[x]
  <1>1. Makes[x] \subseteq Coin
    BY DEF Coin
  <1>2. PICK c : c = (l.coins \ Spends[x]) \cup Makes[x]
    OBVIOUS
  <1>3. c \in SUBSET Coin
    BY <1>1, <1>2 DEF LState
  <1>4. Apply(l, x) = [l EXCEPT !.coins = c]
    BY <1>2 DEF Apply
  <1>5. Applies(l, x) <=> Spends[x] \subseteq l.coins /\ l.score < Expires[x]
    BY DEF Applies
  <1>6. /\ [l EXCEPT !.coins = c] \in LState /\ [l EXCEPT !.coins = c].nonce = l.nonce
        /\ [l EXCEPT !.coins = c].score = l.score /\ [l EXCEPT !.coins = c].coins = c
    BY <1>3 DEF LState
  <1> QED BY <1>2, <1>4, <1>5, <1>6

LEMMA ApplyOp ==
    ASSUME NEW l \in LState, NEW x \in Op
    PROVE  /\ Apply(l, x) \in LState /\ Apply(l, x).coins = l.coins /\ Apply(l, x).score = l.score
           /\ Apply(l, x).nonce[x.signer] = l.nonce[x.signer] + 1
           /\ \A s \in Signer : s # x.signer => Apply(l, x).nonce[s] = l.nonce[s]
           /\ Applies(l, x) = (l.nonce[x.signer] = x.nonce)
  <1>1. x \notin Tx /\ x.signer \in Signer
    BY OpIs
  <1>2. PICK f : f = l.nonce
    OBVIOUS
  <1>3. f \in [Signer -> Nat]
    BY <1>2 DEF LState
  <1>4. PICK g : g = [f EXCEPT ![x.signer] = f[x.signer] + 1]
    OBVIOUS
  <1>5. g \in [Signer -> Nat] /\ g[x.signer] = f[x.signer] + 1 /\ \A s \in Signer : s # x.signer => g[s] = f[s]
    BY <1>1, <1>3, <1>4
  <1>6. Apply(l, x) = [l EXCEPT !.nonce = g]
    BY <1>1, <1>2, <1>4 DEF Apply, LState
  <1>7. /\ [l EXCEPT !.nonce = g] \in LState /\ [l EXCEPT !.nonce = g].coins = l.coins
        /\ [l EXCEPT !.nonce = g].score = l.score /\ [l EXCEPT !.nonce = g].nonce = g
    BY <1>5 DEF LState
  <1>8. Applies(l, x) = (l.nonce[x.signer] = x.nonce)
    BY <1>1 DEF Applies
  <1> QED BY <1>2, <1>5, <1>6, <1>7, <1>8

LEMMA TxCoins ==
    ASSUME NEW l \in LState, NEW x \in Tx
    PROVE  Apply(l, x).coins = (l.coins \ Spends[x]) \cup Makes[x]
  BY ApplyTx

LEMMA TxApplies ==
    ASSUME NEW l \in LState, NEW x \in Tx
    PROVE  Applies(l, x) <=> Spends[x] \subseteq l.coins /\ l.score < Expires[x]
  BY ApplyTx

LEMMA OpApplies ==
    ASSUME NEW l \in LState, NEW x \in Op
    PROVE  Applies(l, x) = (l.nonce[x.signer] = x.nonce)
  BY ApplyOp

LEMMA ApplyTyped ==
    ASSUME NEW l \in LState, NEW x \in PoolItem
    PROVE  Apply(l, x) \in LState
  BY ApplyTx, ApplyOp DEF PoolItem

LEMMA StateFields ==
    ASSUME NEW l \in LState
    PROVE  /\ l.coins \subseteq Coin /\ l.nonce \in [Signer -> Nat] /\ \A s \in Signer : l.nonce[s] \in Nat
           /\ l.score \in Nat
  BY DEF LState

LEMMA StepTyped ==
    ASSUME NEW r \in Progress, NEW x \in PoolItem
    PROVE  /\ ApplyingStep(r, x) \in Progress
           /\ r.l \in LState /\ r.good \in Seq(PoolItem)
           /\ Applies(r.l, x) => /\ ApplyingStep(r, x).l = Apply(r.l, x)
                                 /\ ApplyingStep(r, x).good = Append(r.good, x)
           /\ ~Applies(r.l, x) => ApplyingStep(r, x) = r
  <1>1. r.l \in LState /\ r.good \in Seq(PoolItem)
    BY DEF Progress
  <1>2. PICK a : a = Apply(r.l, x)
    OBVIOUS
  <1>3. a \in LState
    BY <1>1, <1>2, ApplyTyped
  <1>4. PICK g : g = Append(r.good, x)
    OBVIOUS
  <1>5. g \in Seq(PoolItem)
    BY <1>1, <1>4
  <1>6. [l |-> a, good |-> g] \in Progress /\ [l |-> a, good |-> g].l = a /\ [l |-> a, good |-> g].good = g
    BY <1>3, <1>5 DEF Progress
  <1>7. ApplyingStep(r, x) = IF Applies(r.l, x) THEN [l |-> a, good |-> g] ELSE r
    BY <1>2, <1>4 DEF ApplyingStep
  <1> QED BY <1>1, <1>2, <1>4, <1>6, <1>7

IsApplyRun(l, s, G) ==
    /\ G \in [0..Len(s) -> Progress]
    /\ G[0].l = l /\ G[0].good = <<>>
    /\ \A i \in 1..Len(s) : G[i] = ApplyingStep(G[i - 1], s[i])
    /\ G[Len(s)] = ApplyAll(l, s)

LEMMA ApplyAllRuns ==
    ASSUME NEW l \in LState, NEW s \in Seq(PoolItem)
    PROVE  \E G : IsApplyRun(l, s, G)
  <1>1. PICK b : b = [l |-> l, good |-> <<>>]
    OBVIOUS
  <1>2. b \in Progress /\ b.l = l /\ b.good = <<>>
    BY <1>1 DEF Progress
  <1>3. ApplyingStays(b, Progress, PoolItem)
    BY <1>2, StepTyped DEF ApplyingStays
  <1>4. PICK n \in Nat : n = Len(s)
    OBVIOUS
  <1>5. DOMAIN s = 1..n /\ IndexedIn(s, n, PoolItem)
    BY <1>4 DEF IndexedIn
  <1>6. PICK G : IsApplyingRun(b, Progress, s, n, G) /\ G[n] = ApplyingAll(b, s)
    BY <1>3, <1>5, ApplyingRuns
  <1>7. ApplyingAll(b, s) = ApplyAll(l, s)
    BY <1>1, ApplyAllFold
  <1>8. G \in [0..n -> Progress] /\ G[0] = b /\ \A i \in 1..n : G[i] = ApplyingStep(G[i - 1], s[i])
    BY <1>6 DEF IsApplyingRun
  <1> QED BY <1>2, <1>4, <1>6, <1>7, <1>8 DEF IsApplyRun

LEMMA ApplyAllTyped ==
    ASSUME NEW l \in LState, NEW s \in Seq(PoolItem)
    PROVE  ApplyAll(l, s).l \in LState /\ ApplyAll(l, s).good \in Seq(PoolItem)
  <1>1. PICK G : IsApplyRun(l, s, G)
    BY ApplyAllRuns
  <1>2. G[Len(s)] \in Progress /\ G[Len(s)] = ApplyAll(l, s)
    BY <1>1 DEF IsApplyRun
  <1> QED BY <1>2 DEF Progress

(***************************************************************************)
(* A path: the states when each of the items applies.                      *)
(***************************************************************************)
IsPath(l, s, st) ==
    /\ st \in [0..Len(s) -> LState]
    /\ st[0] = l
    /\ \A i \in 1..Len(s) : Applies(st[i - 1], s[i]) /\ st[i] = Apply(st[i - 1], s[i])

LEMMA PathBinds ==
    ASSUME NEW l \in LState, NEW s \in Seq(PoolItem), NEW st, IsPath(l, s, st)
    PROVE  Binds(l, s)
  <1>1. PICK G : IsApplyRun(l, s, G)
    BY ApplyAllRuns
  <1>2. PICK n \in Nat : n = Len(s)
    OBVIOUS
  <1>3. DOMAIN s = 1..n /\ \A i \in 1..n : s[i] \in PoolItem
    BY <1>2
  <1>4. /\ G \in [0..n -> Progress] /\ G[0].l = l /\ G[0].good = <<>>
        /\ \A i \in 1..n : G[i] = ApplyingStep(G[i - 1], s[i])
        /\ G[n] = ApplyAll(l, s)
    BY <1>1, <1>2 DEF IsApplyRun
  <1>5. /\ st[0] = l
        /\ \A i \in 1..n : Applies(st[i - 1], s[i]) /\ st[i] = Apply(st[i - 1], s[i])
    BY <1>2 DEF IsPath
  <1> DEFINE Good == {i \in 0..n : G[i].l = st[i] /\ Len(G[i].good) = i /\ \A j \in 1..i : G[i].good[j] = s[j]}
  <1>6. 0 \in Good
    BY <1>4, <1>5
  <1>7. ASSUME NEW i \in 1..n, (i - 1) \in Good PROVE i \in Good
    <2>1. /\ G[i - 1].l = st[i - 1] /\ Len(G[i - 1].good) = i - 1
          /\ \A j \in 1..(i - 1) : G[i - 1].good[j] = s[j]
      BY <1>7
    <2>2. G[i - 1] \in Progress /\ s[i] \in PoolItem /\ G[i] = ApplyingStep(G[i - 1], s[i]) /\ i \in 0..n
      BY <1>3, <1>4
    <2>3. Applies(G[i - 1].l, s[i]) /\ st[i] = Apply(G[i - 1].l, s[i])
      BY <1>5, <2>1
    <2>4. G[i].l = st[i] /\ G[i].good = Append(G[i - 1].good, s[i]) /\ G[i - 1].good \in Seq(PoolItem)
      <3>1. PICK r : r = G[i - 1]
        OBVIOUS
      <3>2. PICK q : q = ApplyingStep(r, s[i])
        OBVIOUS
      <3>3. r \in Progress /\ s[i] \in PoolItem /\ Applies(r.l, s[i])
        BY <2>2, <2>3, <3>1
      <3>5. st[i] = Apply(r.l, s[i]) /\ q = G[i]
        BY <2>2, <2>3, <3>1, <3>2
      <3>4. q.l = Apply(r.l, s[i]) /\ q.good = Append(r.good, s[i]) /\ r.good \in Seq(PoolItem)
        BY <3>2, <3>3, StepTyped
      <3> QED BY <3>1, <3>4, <3>5
    <2>5. Len(G[i].good) = i /\ \A j \in 1..i : G[i].good[j] = s[j]
      BY <2>1, <2>4
    <2> QED BY <2>2, <2>4, <2>5
  <1>8. n \in Good
    <2>1. n \in 0..n
      OBVIOUS
    <2> HIDE DEF Good
    <2> QED BY <1>6, <1>7, <2>1, UpTo
  <1>9. G[n].good \in Seq(PoolItem) /\ Len(G[n].good) = n /\ \A j \in 1..n : G[n].good[j] = s[j]
    BY <1>4, <1>8 DEF Progress
  <1>10. G[n].good = s
    BY <1>2, <1>9
  <1> QED BY <1>4, <1>10 DEF Binds

LEMMA BindsPath ==
    ASSUME NEW l \in LState, NEW s \in Seq(PoolItem), Binds(l, s)
    PROVE  \E st : IsPath(l, s, st)
  <1>1. PICK G : IsApplyRun(l, s, G)
    BY ApplyAllRuns
  <1>2. PICK n \in Nat : n = Len(s)
    OBVIOUS
  <1>3. DOMAIN s = 1..n /\ \A i \in 1..n : s[i] \in PoolItem
    BY <1>2
  <1>4. /\ G \in [0..n -> Progress] /\ G[0].l = l /\ G[0].good = <<>>
        /\ \A i \in 1..n : G[i] = ApplyingStep(G[i - 1], s[i])
        /\ G[n].good = s
    BY <1>1, <1>2 DEF IsApplyRun, Binds
  <1> DEFINE Fine(j) == Applies(G[j - 1].l, s[j])
             Good == {i \in 0..n : /\ Len(G[i].good) <= i
                                   /\ Len(G[i].good) = i => \A j \in 1..i : Fine(j)}
  <1>5. 0 \in Good
    BY <1>4
  <1>6. ASSUME NEW i \in 1..n, (i - 1) \in Good PROVE i \in Good
    <2>1. PICK k \in Nat : k = Len(G[i - 1].good)
      BY <1>4 DEF Progress
    <2>2. k <= i - 1 /\ (k = i - 1 => \A j \in 1..(i - 1) : Fine(j))
      <3> HIDE DEF Fine
      <3> QED BY <1>6, <2>1
    <2>3. G[i - 1] \in Progress /\ s[i] \in PoolItem /\ G[i] = ApplyingStep(G[i - 1], s[i]) /\ i \in 0..n
      BY <1>3, <1>4
    <2>4. CASE Fine(i)
      <3>1. G[i].good = Append(G[i - 1].good, s[i]) /\ G[i - 1].good \in Seq(PoolItem)
        BY <2>3, <2>4, StepTyped
      <3>2. Len(G[i].good) = k + 1
        BY <2>1, <3>1
      <3>3. k + 1 = i => \A j \in 1..i : Fine(j)
        <4> HIDE DEF Fine
        <4> QED BY <2>2, <2>4
      <3> HIDE DEF Fine
      <3> QED BY <2>2, <2>3, <3>2, <3>3
    <2>5. CASE ~Fine(i)
      <3>1. G[i] = G[i - 1]
        BY <2>3, <2>5, StepTyped
      <3> HIDE DEF Fine
      <3> QED BY <2>1, <2>2, <2>3, <3>1
    <2> QED BY <2>4, <2>5
  <1>7. n \in Good
    <2>1. n \in 0..n
      OBVIOUS
    <2> HIDE DEF Good
    <2> QED BY <1>5, <1>6, <2>1, UpTo
  <1>8. \A j \in 1..n : Fine(j)
    <2> HIDE DEF Fine
    <2> QED BY <1>2, <1>4, <1>7
  <1>9. PICK st : st = [i \in 0..n |-> G[i].l]
    OBVIOUS
  <1>10. st \in [0..n -> LState] /\ st[0] = l
    BY <1>4, <1>9 DEF Progress
  <1>11. ASSUME NEW i \in 1..n PROVE Applies(st[i - 1], s[i]) /\ st[i] = Apply(st[i - 1], s[i])
    <2>1. st[i - 1] = G[i - 1].l /\ st[i] = G[i].l
      BY <1>9
    <2>2. Applies(G[i - 1].l, s[i]) /\ G[i - 1] \in Progress /\ s[i] \in PoolItem /\ G[i] = ApplyingStep(G[i - 1], s[i])
      BY <1>3, <1>4, <1>8
    <2>3. G[i].l = Apply(G[i - 1].l, s[i])
      BY <2>2, StepTyped
    <2> QED BY <2>1, <2>2, <2>3
  <1> QED BY <1>2, <1>10, <1>11 DEF IsPath

LEMMA PathExtends ==
    ASSUME NEW l \in LState, NEW s \in Seq(PoolItem), NEW st, IsPath(l, s, st), NEW x \in PoolItem,
           Applies(st[Len(s)], x)
    PROVE  \E u : IsPath(l, Append(s, x), u) /\ u[Len(Append(s, x))] = Apply(st[Len(s)], x)
  <1>1. PICK n \in Nat : n = Len(s)
    OBVIOUS
  <1>2. st \in [0..n -> LState] /\ st[0] = l /\ \A i \in 1..n : Applies(st[i - 1], s[i]) /\ st[i] = Apply(st[i - 1], s[i])
    BY <1>1 DEF IsPath
  <1>3. PICK t : t = Append(s, x)
    OBVIOUS
  <1>4. Len(t) = n + 1 /\ t[n + 1] = x /\ \A i \in 1..n : t[i] = s[i]
    BY <1>1, <1>3
  <1>5. PICK a : a = Apply(st[n], x)
    OBVIOUS
  <1>6. a \in LState
    BY <1>2, <1>5, ApplyTyped
  <1>7. PICK u : u = [i \in 0..(n + 1) |-> IF i = n + 1 THEN a ELSE st[i]]
    OBVIOUS
  <1>8. u \in [0..(n + 1) -> LState] /\ u[0] = l /\ u[n + 1] = a /\ \A i \in 0..n : u[i] = st[i]
    BY <1>2, <1>6, <1>7
  <1>9. ASSUME NEW i \in 1..(n + 1) PROVE Applies(u[i - 1], t[i]) /\ u[i] = Apply(u[i - 1], t[i])
    <2>1. u[i - 1] = st[i - 1]
      BY <1>8
    <2>2. CASE i = n + 1
      BY <1>1, <1>4, <1>5, <1>8, <2>1, <2>2
    <2>3. CASE i # n + 1
      BY <1>2, <1>4, <1>8, <2>1, <2>3
    <2> QED BY <2>2, <2>3
  <1>10. IsPath(l, t, u)
    BY <1>4, <1>8, <1>9 DEF IsPath
  <1> QED BY <1>1, <1>3, <1>4, <1>5, <1>8, <1>10

LEMMA SelectBinds ==
    ASSUME NEW l \in LState, NEW s \in Seq(PoolItem)
    PROVE  /\ Select(l, s) \in Seq(PoolItem) /\ ToSet(Select(l, s)) \subseteq ToSet(s)
           /\ \E st : IsPath(l, Select(l, s), st)
  <1>1. PICK G : IsApplyRun(l, s, G)
    BY ApplyAllRuns
  <1>2. PICK n \in Nat : n = Len(s)
    OBVIOUS
  <1>3. DOMAIN s = 1..n /\ \A i \in 1..n : s[i] \in PoolItem /\ s[i] \in ToSet(s)
    BY <1>2 DEF ToSet
  <1>4. /\ G \in [0..n -> Progress] /\ G[0].l = l /\ G[0].good = <<>>
        /\ \A i \in 1..n : G[i] = ApplyingStep(G[i - 1], s[i])
        /\ G[n].good = Select(l, s)
    BY <1>1, <1>2 DEF IsApplyRun, Select
  <1> DEFINE Sound(r) == /\ \A j \in 1..Len(r.good) : r.good[j] \in ToSet(s)
                         /\ \E st : IsPath(l, r.good, st) /\ st[Len(r.good)] = r.l
             Good == {i \in 0..n : Sound(G[i])}
  <1>5. 0 \in Good
    <2>1. PICK st : st = [i \in 0..0 |-> l]
      OBVIOUS
    <2>2. st \in [0..0 -> LState] /\ st[0] = l /\ Len(<<>>) = 0 /\ 1..0 = {}
      BY <2>1
    <2>3. IsPath(l, <<>>, st)
      BY <2>2 DEF IsPath
    <2>4. PICK r : r = G[0]
      OBVIOUS
    <2>5. r.good = <<>> /\ r.l = l
      BY <1>4, <2>4
    <2>6. Sound(r)
      BY <2>2, <2>3, <2>5
    <2> QED BY <2>4, <2>6
  <1>6. ASSUME NEW i \in 1..n, (i - 1) \in Good PROVE i \in Good
    <2>1. PICK r : r = G[i - 1]
      OBVIOUS
    <2>2. Sound(r)
      <3> HIDE DEF Sound
      <3> QED BY <1>6, <2>1
    <2>3. r \in Progress /\ s[i] \in PoolItem /\ s[i] \in ToSet(s) /\ G[i] = ApplyingStep(r, s[i]) /\ i \in 0..n
      BY <1>3, <1>4, <2>1
    <2>4. CASE Applies(r.l, s[i])
      <3>1. PICK q : q = ApplyingStep(r, s[i])
        OBVIOUS
      <3>2. r.l \in LState /\ r.good \in Seq(PoolItem) /\ q.l = Apply(r.l, s[i]) /\ q.good = Append(r.good, s[i])
        BY <2>3, <2>4, <3>1, StepTyped
      <3>3. PICK st : IsPath(l, r.good, st) /\ st[Len(r.good)] = r.l
        BY <2>2
      <3>4. \E u : IsPath(l, Append(r.good, s[i]), u) /\ u[Len(Append(r.good, s[i]))] = Apply(st[Len(r.good)], s[i])
        BY <2>3, <2>4, <3>2, <3>3, PathExtends
      <3>5. \E u : IsPath(l, q.good, u) /\ u[Len(q.good)] = q.l
        BY <3>2, <3>3, <3>4
      <3>6. \A j \in 1..Len(q.good) : q.good[j] \in ToSet(s)
        BY <2>2, <2>3, <3>2
      <3>7. Sound(q)
        BY <3>5, <3>6
      <3> HIDE DEF Sound
      <3> QED BY <2>3, <3>1, <3>7
    <2>5. CASE ~Applies(r.l, s[i])
      <3>1. G[i] = r
        BY <2>3, <2>5, StepTyped
      <3> HIDE DEF Sound
      <3> QED BY <2>2, <2>3, <3>1
    <2> QED BY <2>4, <2>5
  <1>7. n \in Good
    <2>1. n \in 0..n
      OBVIOUS
    <2> HIDE DEF Good
    <2> QED BY <1>5, <1>6, <2>1, UpTo
  <1>8. PICK r : r = G[n]
    OBVIOUS
  <1>9. Sound(r)
    <2> HIDE DEF Sound
    <2> QED BY <1>7, <1>8
  <1>10. r.good \in Seq(PoolItem) /\ r.good = Select(l, s)
    BY <1>4, <1>8 DEF Progress
  <1>11. \E st : IsPath(l, r.good, st)
    BY <1>9
  <1>12. ToSet(r.good) \subseteq ToSet(s)
    <2>1. ToSet(r.good) = {r.good[j] : j \in 1..Len(r.good)}
      BY <1>10 DEF ToSet
    <2> QED BY <1>9, <2>1
  <1> QED BY <1>10, <1>11, <1>12

(***************************************************************************)
(* Along a path the nonce of a signer grows with that signer's operations, *)
(* and only with these.                                                    *)
(***************************************************************************)
SignedBy(x, sg) == x \in Op /\ x.signer = sg

LEMMA NonceStep ==
    ASSUME NEW l \in LState, NEW x \in PoolItem, NEW sg \in Signer
    PROVE  /\ l.nonce[sg] \in Nat
           /\ SignedBy(x, sg) => Apply(l, x).nonce[sg] = l.nonce[sg] + 1
           /\ ~SignedBy(x, sg) => Apply(l, x).nonce[sg] = l.nonce[sg]
  <1>1. CASE x \in Tx
    <2>1. Apply(l, x).nonce = l.nonce
      BY <1>1, ApplyTx
    <2>2. ~SignedBy(x, sg)
      BY <1>1, OpIs DEF SignedBy
    <2> QED BY <2>1, <2>2, StateFields
  <1>2. CASE x \in Op
    BY <1>2, ApplyOp, StateFields DEF SignedBy
  <1> QED BY <1>1, <1>2 DEF PoolItem

LEMMA NonceAlong ==
    ASSUME NEW l \in LState, NEW s \in Seq(PoolItem), NEW st, IsPath(l, s, st), NEW sg \in Signer
    PROVE  \A k \in 0..Len(s) :
              /\ l.nonce[sg] \in Nat /\ st[k].nonce[sg] \in Nat
              /\ st[k].nonce[sg] >= l.nonce[sg]
              /\ (\A j \in 1..k : ~SignedBy(s[j], sg)) => st[k].nonce[sg] = l.nonce[sg]
              /\ (\E j \in 1..k : SignedBy(s[j], sg)) => st[k].nonce[sg] > l.nonce[sg]
  <1>1. PICK n \in Nat : n = Len(s)
    OBVIOUS
  <1>2. /\ st \in [0..n -> LState] /\ st[0] = l
        /\ \A i \in 1..n : s[i] \in PoolItem /\ st[i] = Apply(st[i - 1], s[i])
    BY <1>1 DEF IsPath
  <1>3. l.nonce[sg] \in Nat
    BY StateFields
  <1> DEFINE N(k) == st[k].nonce[sg]
             Mine(k) == SignedBy(s[k], sg)
             P(k) == /\ N(k) \in Nat /\ N(k) >= l.nonce[sg]
                     /\ (\A j \in 1..k : ~Mine(j)) => N(k) = l.nonce[sg]
                     /\ (\E j \in 1..k : Mine(j)) => N(k) > l.nonce[sg]
             Good == {k \in 0..n : P(k)}
  <1>4. 0 \in Good
    BY <1>2, <1>3
  <1>5. ASSUME NEW k \in 1..n, (k - 1) \in Good PROVE k \in Good
    <2>1. st[k - 1] \in LState /\ s[k] \in PoolItem /\ st[k] = Apply(st[k - 1], s[k]) /\ k \in 0..n
      BY <1>2
    <2>2. (Mine(k) => N(k) = N(k - 1) + 1) /\ (~Mine(k) => N(k) = N(k - 1))
      BY <2>1, NonceStep
    <2> HIDE DEF N, Mine
    <2>3. P(k - 1)
      BY <1>5
    <2>4. P(k)
      BY <1>3, <2>2, <2>3
    <2> QED BY <2>1, <2>4
  <1>6. \A k \in 0..n : k \in Good
    <2> HIDE DEF Good
    <2> QED BY <1>4, <1>5, UpTo
  <1>7. \A k \in 0..n : P(k)
    <2> HIDE DEF P
    <2> QED BY <1>6
  <1> QED BY <1>1, <1>3, <1>7

LEMMA ScoreAlong ==
    ASSUME NEW l \in LState, NEW s \in Seq(PoolItem), NEW st, IsPath(l, s, st)
    PROVE  \A k \in 0..Len(s) : st[k].score = l.score
  <1>1. PICK n \in Nat : n = Len(s)
    OBVIOUS
  <1>2. /\ st \in [0..n -> LState] /\ st[0] = l
        /\ \A i \in 1..n : s[i] \in PoolItem /\ st[i] = Apply(st[i - 1], s[i])
    BY <1>1 DEF IsPath
  <1> DEFINE Good == {k \in 0..n : st[k].score = l.score}
  <1>3. 0 \in Good
    BY <1>2
  <1>4. ASSUME NEW k \in 1..n, (k - 1) \in Good PROVE k \in Good
    <2>1. PICK a \in LState : a = st[k - 1]
      BY <1>2
    <2>2. PICK x \in PoolItem : x = s[k]
      BY <1>2
    <2>3. Apply(a, x).score = a.score
      BY ApplyTx, ApplyOp DEF PoolItem
    <2> QED BY <1>2, <1>4, <2>1, <2>2, <2>3
  <1>5. \A k \in 0..n : k \in Good
    <2> HIDE DEF Good
    <2> QED BY <1>3, <1>4, UpTo
  <1> QED BY <1>1, <1>5

(***************************************************************************)
(* Two paths from one state can be joined if no signer of the first has an *)
(* operation in the second, which has operations only.                     *)
(***************************************************************************)
LEMMA ConcatIs ==
    ASSUME NEW A, NEW s \in Seq(A), NEW t \in Seq(A)
    PROVE  /\ s \o t \in Seq(A)
           /\ \A u \in Seq(A) :
                 /\ Len(u) = Len(s) + Len(t)
                 /\ \A i \in 1..Len(s) : u[i] = s[i]
                 /\ \A i \in 1..Len(t) : u[Len(s) + i] = t[i]
                 => u = s \o t
  <1>1. PICK v : v = s \o t
    OBVIOUS
  <1>2. v \in Seq(A) /\ Len(v) = Len(s) + Len(t)
    BY <1>1
  <1>3. (\A i \in 1..Len(s) : v[i] = s[i]) /\ (\A i \in 1..Len(t) : v[Len(s) + i] = t[i])
    BY <1>1
  <1>4. ASSUME NEW u \in Seq(A), Len(u) = Len(s) + Len(t), \A i \in 1..Len(s) : u[i] = s[i],
               \A i \in 1..Len(t) : u[Len(s) + i] = t[i]
        PROVE  u = v
    <2>0. Len(s) \in Nat /\ Len(t) \in Nat
      OBVIOUS
    <2>1. ASSUME NEW i \in 1..Len(v) PROVE u[i] = v[i]
      <3>1. CASE i <= Len(s)
        BY <1>3, <1>4, <3>1
      <3>2. CASE i > Len(s)
        <4>0. i \in Nat /\ i <= Len(s) + Len(t) /\ i - Len(s) \in 1..Len(t)
          <5>1. PICK n \in Nat, m \in Nat : n = Len(s) /\ m = Len(t)
            BY <2>0
          <5>2. i \in 1..(n + m) /\ i > n
            BY <1>2, <3>2, <5>1
          <5>3. i \in Nat /\ i <= n + m /\ i - n \in 1..m
            BY <5>2
          <5> QED BY <5>1, <5>3
        <4>1. PICK j \in 1..Len(t) : j = i - Len(s)
          BY <4>0
        <4>2. Len(s) + j = i
          BY <1>2, <2>0, <4>1
        <4> QED BY <1>3, <1>4, <4>1, <4>2
      <3> QED BY <3>1, <3>2
    <2> QED BY <1>2, <1>4, <2>1
  <1> QED BY <1>1, <1>2, <1>4

Apart(s, t) == \A i \in 1..Len(s) : \A j \in 1..Len(t) : ~SignedBy(s[i], t[j].signer)

LEMMA PathsJoin ==
    ASSUME NEW l \in LState, NEW s \in Seq(PoolItem), NEW t \in Seq(Op), Apart(s, t),
           NEW p, IsPath(l, s, p), NEW q, IsPath(l, t, q)
    PROVE  \E r : IsPath(l, s \o t, r)
  <1>1. PICK n \in Nat : n = Len(s)
    OBVIOUS
  <1>2. PICK m \in Nat : m = Len(t)
    OBVIOUS
  <1>3. /\ q \in [0..m -> LState] /\ q[0] = l
        /\ \A i \in 1..m : t[i] \in Op /\ Applies(q[i - 1], t[i]) /\ q[i] = Apply(q[i - 1], t[i])
    BY <1>2 DEF IsPath
  <1> DEFINE Agrees(k, u, r) ==
                /\ u \in Seq(PoolItem) /\ Len(u) = n + k
                /\ \A i \in 1..n : u[i] = s[i]
                /\ \A i \in 1..k : u[n + i] = t[i]
                /\ IsPath(l, u, r)
                /\ \A j \in 1..m : r[n + k].nonce[t[j].signer] = q[k].nonce[t[j].signer]
             Good == {k \in 0..m : \E u, r : Agrees(k, u, r)}
  <1>4. 0 \in Good
    <2>1. ASSUME NEW j \in 1..m PROVE p[n].nonce[t[j].signer] = q[0].nonce[t[j].signer]
      <3>1. PICK sg \in Signer : sg = t[j].signer
        BY <1>3, OpIs
      <3>2. \A i \in 1..n : ~SignedBy(s[i], sg)
        BY <1>1, <1>2, <3>1 DEF Apart
      <3>3. \A k \in 0..n : (\A i \in 1..k : ~SignedBy(s[i], sg)) => p[k].nonce[sg] = l.nonce[sg]
        BY <1>1, NonceAlong
      <3>4. p[n].nonce[sg] = l.nonce[sg]
        BY <3>2, <3>3
      <3> QED BY <1>3, <3>1, <3>4
    <2>2. Agrees(0, s, p)
      BY <1>1, <2>1
    <2> QED BY <2>2
  <1>5. ASSUME NEW k \in 1..m, (k - 1) \in Good PROVE k \in Good
    <2>1. PICK u, r : Agrees(k - 1, u, r)
      BY <1>5
    <2>2. PICK x \in Op : x = t[k]
      BY <1>3
    <2>3. x \in PoolItem /\ x.signer \in Signer /\ k \in 0..m /\ q[k - 1] \in LState
      <3>1. x \in PoolItem
        BY <2>2 DEF PoolItem
      <3>2. x.signer \in Signer
        BY <2>2, OpIs
      <3>3. k \in 0..m /\ (k - 1) \in 0..m
        OBVIOUS
      <3>4. q[k - 1] \in LState
        BY <1>3, <3>3
      <3> QED BY <3>1, <3>2, <3>3, <3>4
    <2>4. PICK a \in LState : a = r[n + (k - 1)]
      BY <2>1 DEF IsPath
    <2>5. Len(u) = n + (k - 1) /\ u \in Seq(PoolItem) /\ IsPath(l, u, r) /\ a = r[Len(u)]
      BY <2>1, <2>4
    <2>6. Applies(a, x)
      <3>1. a.nonce[x.signer] = q[k - 1].nonce[x.signer]
        BY <2>1, <2>2, <2>4
      <3>2. q[k - 1].nonce[x.signer] = x.nonce
        <4>1. PICK b \in LState : b = q[k - 1]
          BY <2>3
        <4>2. Applies(b, x)
          BY <1>3, <2>2, <4>1
        <4> QED BY <4>1, <4>2, OpApplies
      <3>3. a.nonce[x.signer] = x.nonce
        BY <3>1, <3>2
      <3> QED BY <3>3, OpApplies
    <2>7. PICK v : v = Append(u, x)
      OBVIOUS
    <2>8. PICK w : IsPath(l, v, w) /\ w[Len(v)] = Apply(a, x)
      BY <2>3, <2>5, <2>6, <2>7, PathExtends
    <2>9. /\ v \in Seq(PoolItem) /\ Len(v) = n + k /\ v[n + k] = x
          /\ \A i \in 1..(n + (k - 1)) : v[i] = u[i]
      BY <2>3, <2>5, <2>7
    <2>10. (\A i \in 1..n : v[i] = s[i]) /\ (\A i \in 1..k : v[n + i] = t[i])
      <3>1. \A i \in 1..n : v[i] = s[i]
        BY <2>1, <2>9
      <3>2. \A i \in 1..(k - 1) : u[n + i] = t[i] /\ n + i \in 1..(n + (k - 1))
        BY <2>1
      <3>3. ASSUME NEW i \in 1..k PROVE v[n + i] = t[i]
        <4>1. CASE i = k
          BY <2>2, <2>9, <4>1
        <4>2. CASE i # k
          <5>1. i \in 1..(k - 1)
            BY <4>2
          <5> QED BY <2>9, <3>2, <5>1
        <4> QED BY <4>1, <4>2
      <3> QED BY <3>1, <3>3
    <2>11. ASSUME NEW j \in 1..m PROVE w[n + k].nonce[t[j].signer] = q[k].nonce[t[j].signer]
      <3>1. PICK sg \in Signer : sg = t[j].signer
        BY <1>3, OpIs
      <3>2. q[k] = Apply(q[k - 1], x) /\ w[n + k] = Apply(a, x)
        BY <1>3, <2>2, <2>8, <2>9
      <3>3. a.nonce[sg] = q[k - 1].nonce[sg]
        BY <2>1, <2>4, <3>1
      <3>4. Apply(a, x).nonce[sg] = Apply(q[k - 1], x).nonce[sg]
        BY <2>3, <3>3, NonceStep
      <3> QED BY <3>1, <3>2, <3>4
    <2>12. Agrees(k, v, w)
      BY <2>8, <2>9, <2>10, <2>11
    <2> HIDE DEF Agrees
    <2> QED BY <2>3, <2>12
  <1>6. m \in Good
    <2>1. m \in 0..m
      OBVIOUS
    <2> HIDE DEF Good
    <2> QED BY <1>4, <1>5, <2>1, UpTo
  <1>7. PICK u, r : Agrees(m, u, r)
    BY <1>6
  <1>8. u = s \o t
    <2>1. u \in Seq(PoolItem) /\ Len(u) = n + m /\ (\A i \in 1..n : u[i] = s[i]) /\ (\A i \in 1..m : u[n + i] = t[i])
      BY <1>7
    <2>2. t \in Seq(PoolItem)
      BY DEF PoolItem
    <2> HIDE DEF Agrees
    <2>3. /\ Len(u) = Len(s) + Len(t)
          /\ \A i \in 1..Len(s) : u[i] = s[i]
          /\ \A i \in 1..Len(t) : u[Len(s) + i] = t[i]
      BY <1>1, <1>2, <2>1
    <2>4. PICK v \in Seq(PoolItem) : v = u
      BY <2>1
    <2> QED BY <2>2, <2>3, <2>4, ConcatIs
  <1> QED BY <1>7, <1>8

(***************************************************************************)
(* The first operation of a signer on a path has the nonce that the signer *)
(* starts with, a later one a greater nonce.                               *)
(***************************************************************************)
LEMMA FirstNonce ==
    ASSUME NEW l \in LState, NEW s \in Seq(PoolItem), NEW st, IsPath(l, s, st), NEW sg \in Signer,
           NEW k \in 1..Len(s), SignedBy(s[k], sg)
    PROVE  /\ l.nonce[sg] \in Nat
           /\ (\A j \in 1..(k - 1) : ~SignedBy(s[j], sg)) => s[k].nonce = l.nonce[sg]
           /\ (\E j \in 1..(k - 1) : SignedBy(s[j], sg)) => s[k].nonce > l.nonce[sg]
  <1>1. PICK n \in Nat : n = Len(s)
    OBVIOUS
  <1>2. k \in 1..n /\ k - 1 \in 0..n
    BY <1>1
  <1>3. /\ l.nonce[sg] \in Nat
        /\ (\A j \in 1..(k - 1) : ~SignedBy(s[j], sg)) => st[k - 1].nonce[sg] = l.nonce[sg]
        /\ (\E j \in 1..(k - 1) : SignedBy(s[j], sg)) => st[k - 1].nonce[sg] > l.nonce[sg]
    BY <1>1, <1>2, NonceAlong
  <1>4. st \in [0..n -> LState] /\ Applies(st[k - 1], s[k])
    BY <1>1, <1>2 DEF IsPath
  <1>5. PICK a \in LState : a = st[k - 1]
    BY <1>2, <1>4
  <1>6. s[k] \in Op /\ s[k].signer = sg
    BY DEF SignedBy
  <1>7. a.nonce[sg] = s[k].nonce
    BY <1>4, <1>5, <1>6, OpApplies
  <1> QED BY <1>3, <1>5, <1>7

LEMMA FirstOf ==
    ASSUME NEW s, NEW n \in Nat, NEW sg, \E i \in 1..n : SignedBy(s[i], sg)
    PROVE  \E i \in 1..n : SignedBy(s[i], sg) /\ \A y \in 1..(i - 1) : ~SignedBy(s[y], sg)
  <1>1. PICK J : J = {i \in 1..n : SignedBy(s[i], sg)}
    OBVIOUS
  <1>2. J \subseteq Nat /\ J # {}
    BY <1>1
  <1>3. PICK i \in J : \A y \in J : i <= y
    BY <1>2, SmallestNat
  <1>4. i \in 1..n /\ SignedBy(s[i], sg)
    BY <1>1, <1>3
  <1>5. ASSUME NEW y \in 1..(i - 1) PROVE ~SignedBy(s[y], sg)
    <2>1. y \in 1..n /\ ~(i <= y)
      BY <1>4
    <2> QED BY <1>1, <1>3, <2>1
  <1> QED BY <1>4, <1>5

(***************************************************************************)
(* If what was selected from the two queues, each against the state l2,    *)
(* binds together in some state, then the signers of the two differ.       *)
(***************************************************************************)
LEMMA BoundApart ==
    ASSUME NEW l \in LState, NEW l2 \in LState, NEW u \in Seq(Tx), NEW s \in Seq(Op), NEW t \in Seq(Op),
           NEW p, IsPath(l2, s, p), NEW q, IsPath(l2, t, q), NEW r, IsPath(l, u \o s \o t, r)
    PROVE  Apart(s, t)
  <1>1. PICK h \in Nat, n \in Nat, m \in Nat : h = Len(u) /\ n = Len(s) /\ m = Len(t)
    OBVIOUS
  <1>2. u \in Seq(PoolItem) /\ s \in Seq(PoolItem) /\ t \in Seq(PoolItem)
    <2>1. Tx \subseteq PoolItem /\ Op \subseteq PoolItem
      BY DEF PoolItem
    <2> QED BY <2>1
  <1>3. SUFFICES ASSUME NEW i0 \in 1..n, NEW j0 \in 1..m, SignedBy(s[i0], t[j0].signer) PROVE FALSE
    BY <1>1 DEF Apart
  <1>4. t[j0] \in Op
    BY <1>1
  <1>5. PICK sg \in Signer : sg = t[j0].signer
    BY <1>4, OpIs
  <1>6. SignedBy(s[i0], sg) /\ SignedBy(t[j0], sg)
    BY <1>3, <1>4, <1>5 DEF SignedBy
  <1>7. PICK i \in 1..n : SignedBy(s[i], sg) /\ \A y \in 1..(i - 1) : ~SignedBy(s[y], sg)
    BY <1>6, FirstOf
  <1>8. PICK j \in 1..m : SignedBy(t[j], sg) /\ \A y \in 1..(j - 1) : ~SignedBy(t[y], sg)
    BY <1>6, FirstOf
  <1>9. s[i].nonce = l2.nonce[sg] /\ t[j].nonce = l2.nonce[sg]
    BY <1>1, <1>2, <1>7, <1>8, FirstNonce
  <1>10. PICK v \in Seq(PoolItem) : v = u \o s
    BY <1>2, ConcatProperties
  <1>11. Len(v) = h + n /\ \A y \in 1..(h + n) : v[y] = IF y <= h THEN u[y] ELSE s[y - h]
    BY <1>1, <1>2, <1>10, ConcatProperties
  <1>12. PICK w \in Seq(PoolItem) : w = v \o t
    BY <1>2, <1>10, ConcatProperties
  <1>13. Len(w) = h + n + m /\ \A y \in 1..(h + n + m) : w[y] = IF y <= h + n THEN v[y] ELSE t[y - (h + n)]
    <2>1. PICK g \in Nat : g = h + n
      OBVIOUS
    <2>2. Len(v) = g /\ Len(t) = m
      BY <1>1, <1>11, <2>1
    <2>3. Len(w) = g + m /\ \A y \in 1..(g + m) : w[y] = IF y <= g THEN v[y] ELSE t[y - g]
      BY <1>2, <1>12, <2>2, ConcatProperties
    <2> QED BY <2>1, <2>3
  <1>14. IsPath(l, w, r)
    BY <1>10, <1>12
  <1>15. PICK k \in Nat : k = h + i
    OBVIOUS
  <1>16. k \in 1..Len(w) /\ w[k] = s[i]
    <2>1. k \in 1..(h + n) /\ ~(k <= h) /\ k - h = i
      BY <1>15
    <2>2. v[k] = s[i]
      BY <1>11, <2>1
    <2>3. k \in 1..(h + n + m) /\ k <= h + n
      BY <2>1
    <2> QED BY <1>13, <2>2, <2>3
  <1>17. ASSUME NEW y \in 1..(k - 1) PROVE ~SignedBy(w[y], sg)
    <2>1. y \in 1..(h + n + m) /\ y <= h + n /\ y \in 1..(h + n)
      BY <1>15
    <2>2. w[y] = v[y]
      BY <1>13, <2>1
    <2>3. CASE y <= h
      <3>1. w[y] = u[y] /\ u[y] \in Tx
        BY <1>1, <1>11, <2>1, <2>2, <2>3
      <3> QED BY <3>1, OpIs DEF SignedBy
    <2>4. CASE ~(y <= h)
      <3>1. y - h \in 1..(i - 1) /\ w[y] = s[y - h]
        BY <1>11, <1>15, <2>1, <2>2, <2>4
      <3> QED BY <1>7, <3>1
    <2> QED BY <2>3, <2>4
  <1>18. s[i].nonce = l.nonce[sg]
    <2>1. SignedBy(w[k], sg)
      BY <1>7, <1>16
    <2>2. (\A y \in 1..(k - 1) : ~SignedBy(w[y], sg)) => w[k].nonce = l.nonce[sg]
      BY <1>14, <1>16, <2>1, FirstNonce
    <2> QED BY <1>16, <1>17, <2>2
  <1>19. PICK z \in Nat : z = h + n + j
    OBVIOUS
  <1>20. z \in 1..Len(w) /\ w[z] = t[j] /\ k \in 1..(z - 1)
    <2>1. z \in 1..(h + n + m) /\ ~(z <= h + n) /\ z - (h + n) = j
      BY <1>19
    <2>2. k \in 1..(z - 1)
      BY <1>15, <1>19
    <2> QED BY <1>13, <2>1, <2>2
  <1>21. t[j].nonce > l.nonce[sg]
    <2>1. SignedBy(w[z], sg) /\ SignedBy(w[k], sg)
      BY <1>7, <1>8, <1>16, <1>20
    <2>2. (\E y \in 1..(z - 1) : SignedBy(w[y], sg)) => w[z].nonce > l.nonce[sg]
      BY <1>14, <1>20, <2>1, FirstNonce
    <2> QED BY <1>20, <2>1, <2>2
  <1>22. l.nonce[sg] \in Nat
    BY StateFields
  <1> QED BY <1>9, <1>18, <1>21, <1>22

(***************************************************************************)
(* A path can be walked from another state that has the coins it needs,    *)
(* all but those of X, and the same nonces for the signers of G, at a      *)
(* score at which nothing on it is annulled.                               *)
(***************************************************************************)
Movable(m, X, G, x) ==
    /\ x \in Tx => Spends[x] \cap X = {} /\ m.score < Expires[x]
    /\ x \in Op => x.signer \in G

Near(a, b, X, G) == a.coins \ X \subseteq b.coins /\ \A g \in G : a.nonce[g] = b.nonce[g]

LEMMA WalkStep ==
    ASSUME NEW a \in LState, NEW b \in LState, NEW X, NEW G \in SUBSET Signer, Near(a, b, X, G),
           NEW x \in PoolItem, Applies(a, x), Movable(b, X, G, x)
    PROVE  Applies(b, x) /\ Near(Apply(a, x), Apply(b, x), X, G)
  <1>1. CASE x \in Tx
    <2>1. Spends[x] \subseteq a.coins /\ Spends[x] \cap X = {} /\ b.score < Expires[x]
      BY <1>1, TxApplies DEF Movable
    <2>2. Spends[x] \subseteq b.coins
      BY <2>1 DEF Near
    <2>3. Applies(b, x)
      BY <1>1, <2>1, <2>2, TxApplies
    <2>4. /\ Apply(a, x).coins = (a.coins \ Spends[x]) \cup Makes[x] /\ Apply(a, x).nonce = a.nonce
          /\ Apply(b, x).coins = (b.coins \ Spends[x]) \cup Makes[x] /\ Apply(b, x).nonce = b.nonce
      BY <1>1, ApplyTx
    <2>5. Apply(a, x).coins \ X \subseteq Apply(b, x).coins
      BY <2>4 DEF Near
    <2>6. \A g \in G : Apply(a, x).nonce[g] = Apply(b, x).nonce[g]
      BY <2>4 DEF Near
    <2> QED BY <2>3, <2>5, <2>6 DEF Near
  <1>2. CASE x \in Op
    <2>1. x.signer \in G /\ a.nonce[x.signer] = x.nonce
      BY <1>2, OpApplies DEF Movable
    <2>2. Applies(b, x)
      BY <1>2, <2>1, OpApplies DEF Near
    <2>3. Apply(a, x).coins = a.coins /\ Apply(b, x).coins = b.coins
      BY <1>2, ApplyOp
    <2>4. ASSUME NEW g \in G PROVE Apply(a, x).nonce[g] = Apply(b, x).nonce[g]
      <3>1. g \in Signer /\ a.nonce[g] = b.nonce[g]
        BY DEF Near
      <3> QED BY <3>1, NonceStep
    <2> QED BY <2>2, <2>3, <2>4 DEF Near
  <1> QED BY <1>1, <1>2 DEF PoolItem

HasPath(l, s) == \E st : IsPath(l, s, st)

LEMMA PathMoves ==
    ASSUME NEW l \in LState, NEW m \in LState, NEW X, NEW G \in SUBSET Signer, Near(l, m, X, G),
           NEW s \in Seq(PoolItem), HasPath(l, s), \A i \in 1..Len(s) : Movable(m, X, G, s[i])
    PROVE  HasPath(m, s)
  <1>1. PICK n \in Nat : n = Len(s)
    OBVIOUS
  <1>2. PICK st : IsPath(l, s, st)
    BY DEF HasPath
  <1>3. /\ st \in [0..n -> LState] /\ st[0] = l
        /\ \A i \in 1..n : s[i] \in PoolItem /\ Applies(st[i - 1], s[i]) /\ st[i] = Apply(st[i - 1], s[i])
    BY <1>1, <1>2 DEF IsPath
  <1> DEFINE Reaches(k, t, v) ==
                /\ t \in Seq(PoolItem) /\ Len(t) = k /\ \A i \in 1..k : t[i] = s[i]
                /\ IsPath(m, t, v) /\ Near(st[k], v[k], X, G)
             Good == {k \in 0..n : \E t, v : Reaches(k, t, v)}
  <1>4. 0 \in Good
    <2>1. PICK v : v = [i \in 0..0 |-> m]
      OBVIOUS
    <2>2. v \in [0..0 -> LState] /\ v[0] = m /\ Len(<<>>) = 0 /\ 1..0 = {}
      BY <2>1
    <2>3. IsPath(m, <<>>, v)
      BY <2>2 DEF IsPath
    <2>4. Near(st[0], v[0], X, G)
      BY <1>3, <2>2
    <2>5. Reaches(0, <<>>, v)
      BY <2>2, <2>3, <2>4
    <2> HIDE DEF Reaches
    <2> QED BY <2>5
  <1>5. ASSUME NEW k \in 1..n, (k - 1) \in Good PROVE k \in Good
    <2>1. PICK t, v : Reaches(k - 1, t, v)
      BY <1>5
    <2>2. /\ t \in Seq(PoolItem) /\ Len(t) = k - 1 /\ (\A i \in 1..(k - 1) : t[i] = s[i])
          /\ IsPath(m, t, v) /\ Near(st[k - 1], v[k - 1], X, G)
      BY <2>1
    <2>3. PICK x \in PoolItem : x = s[k]
      BY <1>3
    <2>4. k - 1 \in 0..Len(t) /\ k - 1 \in 0..n
      BY <2>2
    <2>5. PICK b \in LState : b = v[k - 1]
      BY <2>2, <2>4 DEF IsPath
    <2>6. PICK a \in LState : a = st[k - 1]
      BY <1>3, <2>4
    <2>7. b.score = m.score
      BY <2>2, <2>4, <2>5, ScoreAlong
    <2>8. Movable(b, X, G, x)
      BY <1>1, <2>3, <2>7 DEF Movable
    <2>9. Applies(a, x) /\ st[k] = Apply(a, x) /\ Near(a, b, X, G)
      BY <1>3, <2>2, <2>3, <2>5, <2>6
    <2>10. Applies(b, x) /\ Near(st[k], Apply(b, x), X, G)
      BY <2>8, <2>9, WalkStep
    <2>11. PICK y : y = Append(t, x)
      OBVIOUS
    <2>12. PICK z : IsPath(m, y, z) /\ z[Len(y)] = Apply(b, x)
      <3>1. Applies(v[Len(t)], x) /\ v[Len(t)] = b
        BY <2>2, <2>5, <2>10
      <3>2. \E z : IsPath(m, Append(t, x), z) /\ z[Len(Append(t, x))] = Apply(v[Len(t)], x)
        BY <2>2, <3>1, PathExtends
      <3> QED BY <2>11, <3>1, <3>2
    <2>13. y \in Seq(PoolItem) /\ Len(y) = k /\ y[k] = x /\ \A i \in 1..(k - 1) : y[i] = t[i]
      BY <2>2, <2>11
    <2>14. \A i \in 1..k : y[i] = s[i]
      BY <2>2, <2>3, <2>13
    <2>15. Reaches(k, y, z)
      BY <2>10, <2>12, <2>13, <2>14
    <2>16. k \in 0..n
      OBVIOUS
    <2> HIDE DEF Reaches
    <2> QED BY <2>15, <2>16
  <1>6. n \in Good
    <2>1. n \in 0..n
      OBVIOUS
    <2> HIDE DEF Good
    <2> QED BY <1>4, <1>5, <2>1, UpTo
  <1>7. PICK t, v : Reaches(n, t, v)
    BY <1>6
  <1>8. t \in Seq(PoolItem) /\ Len(t) = n /\ (\A i \in 1..n : t[i] = s[i]) /\ IsPath(m, t, v)
    BY <1>7
  <1>9. t = s
    <2>1. DOMAIN t = 1..n /\ DOMAIN s = 1..n
      BY <1>1, <1>8
    <2> QED BY <1>1, <1>8, <2>1
  <1> QED BY <1>8, <1>9 DEF HasPath

(***************************************************************************)
(* The two parts of a path, when no signer of the first is one of the      *)
(* second's: each is a path of its own.                                    *)
(***************************************************************************)
LEMMA PathSplits ==
    ASSUME NEW l \in LState, NEW s \in Seq(PoolItem), NEW t \in Seq(Op), Apart(s, t), HasPath(l, s \o t)
    PROVE  HasPath(l, s) /\ HasPath(l, t)
  <1>1. PICK n \in Nat, m \in Nat : n = Len(s) /\ m = Len(t)
    OBVIOUS
  <1>2. t \in Seq(PoolItem)
    BY DEF PoolItem
  <1>3. PICK w \in Seq(PoolItem) : w = s \o t
    BY <1>2, ConcatProperties
  <1>4. Len(w) = n + m /\ \A y \in 1..(n + m) : w[y] = IF y <= n THEN s[y] ELSE t[y - n]
    BY <1>1, <1>2, <1>3, ConcatProperties
  <1>5. PICK r : IsPath(l, w, r)
    BY <1>3 DEF HasPath
  <1>6. /\ r \in [0..(n + m) -> LState] /\ r[0] = l
        /\ \A i \in 1..(n + m) : Applies(r[i - 1], w[i]) /\ r[i] = Apply(r[i - 1], w[i])
    BY <1>4, <1>5 DEF IsPath
  <1>7. HasPath(l, s)
    <2>1. PICK p : p = [i \in 0..n |-> r[i]]
      OBVIOUS
    <2>2. p \in [0..n -> LState] /\ p[0] = l
      BY <1>6, <2>1
    <2>3. ASSUME NEW i \in 1..n PROVE Applies(p[i - 1], s[i]) /\ p[i] = Apply(p[i - 1], s[i])
      <3>1. i \in 1..(n + m) /\ i <= n /\ i \in 0..n /\ i - 1 \in 0..n
        OBVIOUS
      <3>2. w[i] = s[i] /\ p[i] = r[i] /\ p[i - 1] = r[i - 1]
        BY <1>4, <2>1, <3>1
      <3> QED BY <1>6, <3>1, <3>2
    <2>4. IsPath(l, s, p)
      BY <1>1, <2>2, <2>3 DEF IsPath
    <2> QED BY <2>4 DEF HasPath
  <1>8. PICK a \in LState : a = r[n]
    <2>1. n \in 0..(n + m)
      OBVIOUS
    <2> QED BY <1>6, <2>1
  <1>9. HasPath(a, t)
    <2>1. PICK p : p = [i \in 0..m |-> r[n + i]]
      OBVIOUS
    <2>2. p \in [0..m -> LState] /\ p[0] = a
      <3>1. \A i \in 0..m : n + i \in 0..(n + m)
        OBVIOUS
      <3>2. n + 0 = n
        OBVIOUS
      <3> QED BY <1>6, <1>8, <2>1, <3>1, <3>2
    <2>3. ASSUME NEW i \in 1..m PROVE Applies(p[i - 1], t[i]) /\ p[i] = Apply(p[i - 1], t[i])
      <3>1. PICK y \in 1..(n + m) : y = n + i
        OBVIOUS
      <3>2. ~(y <= n) /\ y - n = i /\ y - 1 = n + (i - 1) /\ i \in 0..m /\ i - 1 \in 0..m
        BY <3>1
      <3>3. w[y] = t[i] /\ p[i] = r[y] /\ p[i - 1] = r[y - 1]
        BY <1>4, <2>1, <3>1, <3>2
      <3> QED BY <1>6, <3>3
    <2>4. IsPath(a, t, p)
      BY <1>1, <2>2, <2>3 DEF IsPath
    <2> QED BY <2>4 DEF HasPath
  <1>10. PICK G : G = {t[j].signer : j \in 1..m}
    OBVIOUS
  <1>11. \A j \in 1..m : t[j] \in Op /\ t[j].signer \in G
    BY <1>1, <1>10
  <1>12. G \in SUBSET Signer
    BY <1>10, <1>11, OpIs
  <1>13. ASSUME NEW g \in G PROVE a.nonce[g] = l.nonce[g]
    <2>1. PICK j \in 1..m : g = t[j].signer
      BY <1>10
    <2>2. \A i \in 1..n : ~SignedBy(w[i], g)
      <3>1. \A i \in 1..n : i \in 1..(n + m) /\ i <= n
        OBVIOUS
      <3> QED BY <1>1, <1>4, <2>1, <3>1 DEF Apart
    <2>3. n \in 0..Len(w) /\ g \in Signer
      BY <1>4, <1>12
    <2> QED BY <1>5, <1>8, <2>2, <2>3, NonceAlong
  <1>14. Near(a, l, a.coins, G)
    BY <1>13 DEF Near
  <1>15. \A j \in 1..Len(t) : Movable(l, a.coins, G, t[j])
    BY <1>1, <1>11, OpIs DEF Movable
  <1>16. HasPath(l, t)
    BY <1>2, <1>9, <1>12, <1>14, <1>15, PathMoves
  <1> QED BY <1>7, <1>16

LEMMA FrontPath ==
    ASSUME NEW l \in LState, NEW s \in Seq(PoolItem), s # <<>>, NEW st, IsPath(l, s, st)
    PROVE  \E u : IsPath(l, Front(s), u)
  <1>1. PICK n \in Nat : n = Len(s)
    OBVIOUS
  <1>2. n >= 1
    BY <1>1
  <1>3. PICK t : t = Front(s)
    OBVIOUS
  <1>4. Len(t) = n - 1 /\ \A i \in 1..(n - 1) : t[i] = s[i]
    BY <1>1, <1>2, <1>3 DEF Front
  <1>5. /\ st \in [0..n -> LState] /\ st[0] = l
        /\ \A i \in 1..n : Applies(st[i - 1], s[i]) /\ st[i] = Apply(st[i - 1], s[i])
    BY <1>1 DEF IsPath
  <1>6. PICK u : u = [i \in 0..(n - 1) |-> st[i]]
    OBVIOUS
  <1>7. u \in [0..(n - 1) -> LState] /\ u[0] = l /\ \A i \in 0..(n - 1) : u[i] = st[i]
    BY <1>2, <1>5, <1>6
  <1>8. ASSUME NEW i \in 1..(n - 1) PROVE Applies(u[i - 1], t[i]) /\ u[i] = Apply(u[i - 1], t[i])
    <2>1. i \in 1..n /\ i \in 0..(n - 1) /\ i - 1 \in 0..(n - 1)
      BY <1>2
    <2>2. u[i] = st[i] /\ u[i - 1] = st[i - 1] /\ t[i] = s[i]
      BY <1>4, <1>7, <2>1
    <2> QED BY <1>5, <2>1, <2>2
  <1>9. IsPath(l, t, u)
    BY <1>4, <1>7, <1>8 DEF IsPath
  <1> QED BY <1>3, <1>9

LEMMA RemovedIs ==
    ASSUME NEW A, NEW s \in Seq(A), NEW k \in 1..Len(s)
    PROVE  /\ RemoveAt(s, k) \in Seq(A) /\ Len(RemoveAt(s, k)) = Len(s) - 1
           /\ \A i \in 1..(Len(s) - 1) : RemoveAt(s, k)[i] = IF i < k THEN s[i] ELSE s[i + 1]
  <1>1. PICK n \in Nat : n = Len(s)
    OBVIOUS
  <1>0. k \in 1..n /\ k - 1 \in 0..n /\ k + 1 \in 1..(n + 1) /\ 1 \in 1..(n + 1) /\ n \in k..n /\ k - 1 \in 0..n
    BY <1>1
  <1>2. PICK a \in Seq(A) : a = SubSeq(s, 1, k - 1)
    <2>1. PICK h \in Int : h = k - 1
      BY <1>0
    <2>2. \A i \in 1..h : s[i] \in A
      BY <1>0, <1>1, <2>1
    <2>3. SubSeq(s, 1, h) \in Seq(A)
      BY <2>2, SubSeqProperties
    <2> QED BY <2>1, <2>3
  <1>3. PICK b \in Seq(A) : b = SubSeq(s, k + 1, n)
    <2>1. PICK h \in Int : h = k + 1
      BY <1>0
    <2>2. \A i \in h..n : s[i] \in A
      BY <1>0, <1>1, <2>1
    <2>3. SubSeq(s, h, n) \in Seq(A)
      BY <2>2, SubSeqProperties
    <2> QED BY <2>1, <2>3
  <1>4. Len(a) = k - 1 /\ \A i \in 1..(k - 1) : a[i] = s[i]
    BY <1>1, <1>2
  <1>5. Len(b) = n - k /\ \A i \in 1..(n - k) : b[i] = s[k + i]
    BY <1>1, <1>3
  <1>6. RemoveAt(s, k) = a \o b
    BY <1>1, <1>2, <1>3 DEF RemoveAt
  <1>7. k \in 1..n /\ (k - 1) + (n - k) = n - 1
    BY <1>1
  <1>8. a \o b \in Seq(A) /\ Len(a \o b) = n - 1
    <2>1. a \o b \in Seq(A) /\ Len(a \o b) = Len(a) + Len(b)
      BY ConcatProperties
    <2> QED BY <1>4, <1>5, <1>7, <2>1
  <1>9. ASSUME NEW i \in 1..(n - 1) PROVE (a \o b)[i] = IF i < k THEN s[i] ELSE s[i + 1]
    <2>1. CASE i < k
      BY <1>4, <1>5, <1>7, <2>1
    <2>2. CASE ~(i < k)
      <3>1. PICK j \in 1..(n - k) : j = i - (k - 1)
        BY <1>7, <2>2
      <3>2. (a \o b)[i] = b[j]
        BY <1>4, <1>5, <1>7, <2>2, <3>1
      <3>3. b[j] = s[i + 1]
        BY <1>5, <1>7, <3>1
      <3> QED BY <2>2, <3>2, <3>3
    <2> QED BY <2>1, <2>2
  <1> QED BY <1>1, <1>6, <1>8, <1>9

(***************************************************************************)
(* A transaction whose coins no other one spends can be left out.          *)
(***************************************************************************)
LEMMA RemovePath ==
    ASSUME NEW l \in LState, NEW s \in Seq(Tx), NEW st, IsPath(l, s, st), NEW low \in 1..Len(s),
           \A i \in 1..Len(s) : Makes[s[low]] \cap Spends[s[i]] = {}
    PROVE  \E u : IsPath(l, RemoveAt(s, low), u)
  <1>1. PICK n \in Nat : n = Len(s)
    OBVIOUS
  <1>2. PICK m \in Nat : m = n - 1
    BY <1>1
  <1>3. PICK w : w = RemoveAt(s, low)
    OBVIOUS
  <1>4. /\ w \in Seq(Tx) /\ Len(w) = m /\ low \in 1..n /\ n = m + 1
        /\ \A i \in 1..m : w[i] = IF i < low THEN s[i] ELSE s[i + 1]
    <2>1. w \in Seq(Tx) /\ Len(w) = Len(s) - 1 /\ \A i \in 1..(Len(s) - 1) : w[i] = IF i < low THEN s[i] ELSE s[i + 1]
      BY <1>3, RemovedIs
    <2>2. low \in 1..n /\ n = m + 1
      BY <1>1, <1>2
    <2> QED BY <1>1, <1>2, <2>1, <2>2
  <1>5. PICK M : M = Makes[s[low]]
    OBVIOUS
  <1>6. \A i \in 1..n : s[i] \in Tx /\ s[i] \in PoolItem /\ M \cap Spends[s[i]] = {}
    BY <1>1, <1>5 DEF PoolItem
  <1>7. /\ st \in [0..n -> LState] /\ st[0] = l
        /\ \A i \in 1..n : Applies(st[i - 1], s[i]) /\ st[i] = Apply(st[i - 1], s[i])
    BY <1>1 DEF IsPath
  <1>16. s \in Seq(PoolItem)
    <2>1. Tx \subseteq PoolItem
      BY DEF PoolItem
    <2> QED BY <2>1
  <1>8. ASSUME NEW i \in 1..n
        PROVE  /\ Spends[s[i]] \subseteq st[i - 1].coins /\ l.score < Expires[s[i]]
               /\ st[i].coins = (st[i - 1].coins \ Spends[s[i]]) \cup Makes[s[i]]
    <2>1. PICK a \in LState : a = st[i - 1]
      BY <1>7
    <2>2. PICK x \in Tx : x = s[i]
      BY <1>6
    <2>3. Applies(a, x) /\ st[i] = Apply(a, x)
      BY <1>7, <2>1, <2>2
    <2>4. Apply(a, x).coins = (a.coins \ Spends[x]) \cup Makes[x]
      BY TxCoins
    <2>5. Spends[x] \subseteq a.coins /\ a.score < Expires[x]
      BY <2>3, TxApplies
    <2>6. a.score = l.score
      <3>1. i - 1 \in 0..Len(s)
        BY <1>1
      <3> QED BY <1>16, <2>1, <3>1, ScoreAlong
    <2> QED BY <2>1, <2>2, <2>3, <2>4, <2>5, <2>6
  <1> DEFINE C(i) == st[i].coins
             Covers(k, c) == /\ k < low => C(k) \subseteq c
                             /\ k + 1 >= low => C(k + 1) \subseteq c \cup M
             Reaches(k, t, v) ==
                /\ t \in Seq(PoolItem) /\ Len(t) = k /\ \A i \in 1..k : t[i] = w[i]
                /\ IsPath(l, t, v) /\ Covers(k, v[k].coins)
             Good == {k \in 0..m : \E t, v : Reaches(k, t, v)}
  <1>9. C(low) \subseteq C(low - 1) \cup M
    BY <1>4, <1>5, <1>8
  <1>10. 0 \in Good
    <2>1. PICK v : v = [i \in 0..0 |-> l]
      OBVIOUS
    <2>2. v \in [0..0 -> LState] /\ v[0] = l /\ Len(<<>>) = 0 /\ 1..0 = {}
      BY <2>1
    <2>3. IsPath(l, <<>>, v)
      BY <2>2 DEF IsPath
    <2>4. Covers(0, v[0].coins)
      <3>1. C(0) = v[0].coins
        BY <1>7, <2>2
      <3>2. 0 + 1 >= low => low = 1
        BY <1>4
      <3> HIDE DEF C
      <3> QED BY <1>9, <3>1, <3>2
    <2>5. Reaches(0, <<>>, v)
      <3> HIDE DEF Covers
      <3> QED BY <2>2, <2>3, <2>4
    <2> HIDE DEF Reaches
    <2> QED BY <2>5
  <1>11. ASSUME NEW k \in 1..m, (k - 1) \in Good PROVE k \in Good
    <2>1. PICK t, v : Reaches(k - 1, t, v)
      BY <1>11
    <2>2. PICK h \in 1..n : h = IF k < low THEN k ELSE k + 1
      BY <1>4
    <2>3. PICK x \in Tx : x = s[h] /\ x = w[k]
      BY <1>4, <1>6, <2>2
    <2>4. t \in Seq(PoolItem) /\ Len(t) = k - 1 /\ (\A i \in 1..(k - 1) : t[i] = w[i]) /\ IsPath(l, t, v)
      BY <2>1
    <2>5. PICK a \in LState : a = v[k - 1]
      BY <2>4 DEF IsPath
    <2>6. Covers(k - 1, a.coins)
      BY <2>1, <2>5
    <2>7. PICK c : c = a.coins
      OBVIOUS
    <2>8. Spends[x] \subseteq C(h - 1) /\ C(h) = (C(h - 1) \ Spends[x]) \cup Makes[x] /\ M \cap Spends[x] = {}
      BY <1>6, <1>8, <2>3
    <2>19. a.score < Expires[x]
      <3>1. k - 1 \in 0..Len(t)
        BY <2>4
      <3>2. a.score = l.score
        BY <2>4, <2>5, <3>1, ScoreAlong
      <3>3. l.score < Expires[x]
        BY <1>8, <2>3
      <3> QED BY <3>2, <3>3
    <2>9. Spends[x] \subseteq c /\ Covers(k, (c \ Spends[x]) \cup Makes[x])
      <3> HIDE DEF C
      <3>1. CASE k < low
        <4>1. C(k - 1) \subseteq c /\ h = k
          BY <2>2, <2>6, <2>7, <3>1
        <4>2. Spends[x] \subseteq c /\ C(k) \subseteq (c \ Spends[x]) \cup Makes[x]
          BY <2>8, <4>1
        <4>3. k + 1 >= low => k + 1 = low /\ low - 1 = k
          BY <1>4, <3>1
        <4> QED BY <1>9, <3>1, <4>2, <4>3
      <3>2. CASE ~(k < low)
        <4>1. h = k + 1 /\ h - 1 = k /\ (k - 1) + 1 = k /\ k >= low
          BY <1>4, <2>2, <3>2
        <4>2. C(k) \subseteq c \cup M
          BY <2>6, <2>7, <4>1
        <4>3. Spends[x] \subseteq c /\ C(k + 1) \subseteq ((c \ Spends[x]) \cup Makes[x]) \cup M
          BY <2>8, <4>1, <4>2
        <4> QED BY <3>2, <4>3
      <3> QED BY <3>1, <3>2
    <2>10. Applies(a, x) /\ Apply(a, x).coins = (c \ Spends[x]) \cup Makes[x]
      <3>1. Apply(a, x).coins = (a.coins \ Spends[x]) \cup Makes[x]
        BY TxCoins
      <3>2. Applies(a, x)
        BY <2>7, <2>9, <2>19, TxApplies
      <3> QED BY <2>7, <3>1, <3>2
    <2>11. PICK y : y = Append(t, x)
      OBVIOUS
    <2>12. x \in PoolItem
      BY DEF PoolItem
    <2>13. PICK z : IsPath(l, y, z) /\ z[Len(y)] = Apply(a, x)
      <3>1. Applies(v[Len(t)], x) /\ v[Len(t)] = a
        BY <2>4, <2>5, <2>10
      <3>2. \E z : IsPath(l, Append(t, x), z) /\ z[Len(Append(t, x))] = Apply(v[Len(t)], x)
        BY <2>4, <2>12, <3>1, PathExtends
      <3> QED BY <2>11, <3>1, <3>2
    <2>14. y \in Seq(PoolItem) /\ Len(y) = k /\ y[k] = x /\ \A i \in 1..(k - 1) : y[i] = t[i]
      BY <2>4, <2>11, <2>12
    <2>15. \A i \in 1..k : y[i] = w[i]
      BY <2>3, <2>4, <2>14
    <2>16. Covers(k, z[k].coins)
      <3>1. z[k].coins = (c \ Spends[x]) \cup Makes[x]
        BY <2>10, <2>13, <2>14
      <3> HIDE DEF Covers
      <3> QED BY <2>9, <3>1
    <2>17. Reaches(k, y, z)
      <3> HIDE DEF Covers
      <3> QED BY <2>13, <2>14, <2>15, <2>16
    <2>18. k \in 0..m
      OBVIOUS
    <2> HIDE DEF Reaches
    <2> QED BY <2>17, <2>18
  <1>12. m \in Good
    <2>1. m \in 0..m
      OBVIOUS
    <2> HIDE DEF Good
    <2> QED BY <1>10, <1>11, <2>1, UpTo
  <1>13. PICK t, v : Reaches(m, t, v)
    BY <1>12
  <1>14. t \in Seq(PoolItem) /\ Len(t) = m /\ (\A i \in 1..m : t[i] = w[i]) /\ IsPath(l, t, v)
    BY <1>13
  <1>15. t = w
    <2>1. DOMAIN w = 1..m /\ DOMAIN t = 1..m
      BY <1>4, <1>14
    <2> QED BY <1>4, <1>14, <2>1
  <1> QED BY <1>3, <1>14, <1>15

LEMMA LowestFee ==
    ASSUME NEW s \in Seq(Tx), s # <<>>, NEW low,
           low = CHOOSE i \in DOMAIN s : \A j \in DOMAIN s :
                    \/ Fee[s[i]] < Fee[s[j]]
                    \/ Fee[s[i]] = Fee[s[j]] /\ i <= j
    PROVE  low \in 1..Len(s) /\ \A j \in 1..Len(s) : Fee[s[low]] <= Fee[s[j]]
  <1>1. PICK n \in Nat : n = Len(s) /\ n >= 1
    OBVIOUS
  <1>2. DOMAIN s = 1..n /\ \A i \in 1..n : Fee[s[i]] \in Nat
    BY <1>1, PoolConstants
  <1>3. PICK F : F = {Fee[s[i]] : i \in 1..n}
    OBVIOUS
  <1>4. F \subseteq Nat /\ F # {}
    BY <1>1, <1>2, <1>3
  <1>5. PICK f \in F : \A y \in F : f <= y
    BY <1>4, SmallestNat
  <1>6. PICK I : I = {i \in 1..n : Fee[s[i]] = f}
    OBVIOUS
  <1>7. I \subseteq Nat /\ I # {}
    <2>1. \E i \in 1..n : Fee[s[i]] = f
      BY <1>3, <1>5
    <2>2. I # {}
      BY <1>6, <2>1
    <2>3. I \subseteq Nat
      BY <1>6
    <2> QED BY <2>2, <2>3
  <1>8. PICK i \in I : \A y \in I : i <= y
    BY <1>7, SmallestNat
  <1>9. i \in 1..n /\ Fee[s[i]] = f
    BY <1>6, <1>8
  <1>10. ASSUME NEW j \in 1..n PROVE Fee[s[i]] < Fee[s[j]] \/ (Fee[s[i]] = Fee[s[j]] /\ i <= j)
    <2>1. Fee[s[j]] \in F /\ Fee[s[j]] \in Nat /\ f \in Nat
      BY <1>2, <1>3, <1>4, <1>5
    <2>2. f <= Fee[s[j]]
      BY <1>5, <2>1
    <2>3. CASE Fee[s[j]] = f
      BY <1>6, <1>8, <1>9, <2>3
    <2>4. CASE Fee[s[j]] # f
      BY <1>9, <2>1, <2>2, <2>4
    <2> QED BY <2>3, <2>4
  <1>11. low \in 1..n /\ \A j \in 1..n : Fee[s[low]] < Fee[s[j]] \/ (Fee[s[low]] = Fee[s[j]] /\ low <= j)
    BY <1>2, <1>9, <1>10
  <1>12. ASSUME NEW j \in 1..n PROVE Fee[s[low]] <= Fee[s[j]]
    <2>1. Fee[s[low]] \in Nat /\ Fee[s[j]] \in Nat
      BY <1>2, <1>11
    <2>2. PICK a \in Nat, b \in Nat : a = Fee[s[low]] /\ b = Fee[s[j]]
      BY <2>1
    <2>3. a < b \/ a = b
      BY <1>11, <2>2
    <2>4. a <= b
      BY <2>3
    <2> QED BY <2>2, <2>4
  <1> QED BY <1>1, <1>11, <1>12

(***************************************************************************)
(* The members of sequences.                                               *)
(***************************************************************************)
LEMMA MembersOf ==
    ASSUME NEW A, NEW s \in Seq(A)
    PROVE  ToSet(s) \subseteq A /\ ToSet(s) = {s[i] : i \in 1..Len(s)}
  <1>1. DOMAIN s = 1..Len(s) /\ \A i \in 1..Len(s) : s[i] \in A
    OBVIOUS
  <1> QED BY <1>1 DEF ToSet

LEMMA MembersAppend ==
    ASSUME NEW A, NEW s \in Seq(A), NEW x \in A
    PROVE  Append(s, x) \in Seq(A) /\ ToSet(Append(s, x)) = ToSet(s) \cup {x}
  <1>1. PICK t : t = Append(s, x)
    OBVIOUS
  <1>2. PICK n \in Nat : n = Len(s)
    OBVIOUS
  <1>3. t \in Seq(A) /\ Len(t) = n + 1 /\ t[n + 1] = x /\ \A i \in 1..n : t[i] = s[i]
    BY <1>1, <1>2
  <1>4. ToSet(t) = {t[i] : i \in 1..(n + 1)} /\ ToSet(s) = {s[i] : i \in 1..n}
    BY <1>2, <1>3, MembersOf
  <1>5. {t[i] : i \in 1..(n + 1)} = {t[i] : i \in 1..n} \cup {t[n + 1]}
    OBVIOUS
  <1>6. {t[i] : i \in 1..n} = {s[i] : i \in 1..n}
    BY <1>3
  <1> QED BY <1>1, <1>3, <1>4, <1>5, <1>6

LEMMA MembersIn ==
    ASSUME NEW A, NEW s \in Seq(A), NEW B, ToSet(s) \subseteq B
    PROVE  s \in Seq(B)
  <1>1. PICK n \in Nat : n = Len(s)
    OBVIOUS
  <1>2. DOMAIN s = 1..n /\ s = [i \in 1..n |-> s[i]]
    BY <1>1
  <1>3. \A i \in 1..n : s[i] \in B
    BY <1>1, MembersOf
  <1> QED BY <1>2, <1>3

LEMMA MembersConcat ==
    ASSUME NEW A, NEW s \in Seq(A), NEW t \in Seq(A)
    PROVE  s \o t \in Seq(A) /\ ToSet(s \o t) = ToSet(s) \cup ToSet(t)
  <1>1. PICK u : u = s \o t
    OBVIOUS
  <1>2. PICK n \in Nat, m \in Nat : n = Len(s) /\ m = Len(t)
    OBVIOUS
  <1>3. u \in Seq(A) /\ Len(u) = n + m /\ \A i \in 1..(n + m) : u[i] = IF i <= n THEN s[i] ELSE t[i - n]
    BY <1>1, <1>2, ConcatProperties
  <1>4. /\ ToSet(u) = {u[i] : i \in 1..(n + m)} /\ ToSet(s) = {s[i] : i \in 1..n}
        /\ ToSet(t) = {t[i] : i \in 1..m}
    BY <1>2, <1>3, MembersOf
  <1>5. ASSUME NEW y \in ToSet(u) PROVE y \in ToSet(s) \cup ToSet(t)
    <2>1. PICK i \in 1..(n + m) : y = u[i]
      BY <1>4
    <2>2. CASE i <= n
      BY <1>3, <1>4, <2>1, <2>2
    <2>3. CASE ~(i <= n)
      <3>1. i - n \in 1..m
        BY <2>3
      <3> QED BY <1>3, <1>4, <2>1, <2>3, <3>1
    <2> QED BY <2>2, <2>3
  <1>6. ASSUME NEW y \in ToSet(s) PROVE y \in ToSet(u)
    <2>1. PICK i \in 1..n : y = s[i]
      BY <1>4
    <2>2. i \in 1..(n + m) /\ i <= n
      OBVIOUS
    <2> QED BY <1>3, <1>4, <2>1, <2>2
  <1>7. ASSUME NEW y \in ToSet(t) PROVE y \in ToSet(u)
    <2>1. PICK i \in 1..m : y = t[i]
      BY <1>4
    <2>2. n + i \in 1..(n + m) /\ ~(n + i <= n) /\ (n + i) - n = i
      OBVIOUS
    <2> QED BY <1>3, <1>4, <2>1, <2>2
  <1> QED BY <1>1, <1>3, <1>5, <1>6, <1>7

LEMMA WithoutIs ==
    ASSUME NEW A, NEW s \in Seq(A), NEW S
    PROVE  Without(s, S) \in Seq(A) /\ ToSet(Without(s, S)) = ToSet(s) \ S
  <1>1. PICK n \in Nat : n = Len(s)
    OBVIOUS
  <1>2. DOMAIN s = 1..n /\ IndexedIn(s, n, A) /\ \A i \in 1..n : s[i] \in A
    BY <1>1 DEF IndexedIn
  <1>3. PICK b \in Seq(A) : b = <<>>
    <2>1. <<>> \in Seq(A)
      OBVIOUS
    <2> QED BY <2>1
  <1>4. KeepingStays(S, b, Seq(A), A)
    <2>1. ASSUME NEW r \in Seq(A), NEW x \in A PROVE KeepingStep(S, r, x) \in Seq(A)
      BY DEF KeepingStep
    <2> QED BY <2>1 DEF KeepingStays
  <1>5. PICK G : IsKeepingRun(S, b, Seq(A), s, n, G) /\ G[n] = KeepingAll(S, b, s)
    BY <1>2, <1>4, KeepingRuns
  <1>6. G \in [0..n -> Seq(A)] /\ G[0] = b /\ \A i \in 1..n : G[i] = KeepingStep(S, G[i - 1], s[i])
    BY <1>5 DEF IsKeepingRun
  <1> DEFINE Good == {i \in 0..n : ToSet(G[i]) = {s[j] : j \in 1..i} \ S}
  <1>7. 0 \in Good
    BY <1>3, <1>6 DEF ToSet
  <1>8. ASSUME NEW i \in 1..n, (i - 1) \in Good PROVE i \in Good
    <2>1. PICK r \in Seq(A) : r = G[i - 1]
      BY <1>6
    <2>2. PICK x \in A : x = s[i]
      BY <1>2
    <2>3. ToSet(r) = {s[j] : j \in 1..(i - 1)} \ S /\ G[i] = KeepingStep(S, r, x)
      BY <1>6, <1>8, <2>1, <2>2
    <2>4. {s[j] : j \in 1..i} = {s[j] : j \in 1..(i - 1)} \cup {x}
      BY <2>2
    <2>5. ToSet(KeepingStep(S, r, x)) = IF x \in S THEN ToSet(r) ELSE ToSet(r) \cup {x}
      <3>1. ToSet(Append(r, x)) = ToSet(r) \cup {x}
        BY MembersAppend
      <3> QED BY <3>1 DEF KeepingStep
    <2>6. ToSet(G[i]) = {s[j] : j \in 1..i} \ S
      BY <2>3, <2>4, <2>5
    <2> QED BY <2>6
  <1>9. n \in Good
    <2>1. n \in 0..n
      OBVIOUS
    <2> HIDE DEF Good
    <2> QED BY <1>7, <1>8, <2>1, UpTo
  <1>10. ToSet(s) = {s[j] : j \in 1..n}
    BY <1>1, MembersOf
  <1>11. G[n] = Without(s, S)
    BY <1>3, <1>5, WithoutFold
  <1>12. G[n] \in Seq(A) /\ ToSet(G[n]) = ToSet(s) \ S
    BY <1>6, <1>9, <1>10
  <1> QED BY <1>11, <1>12

LEMMA ByRateIs ==
    ASSUME pool \in Seq(Tx)
    PROVE  ByRate \in Seq(ToSet(pool))
  <1>1. PICK n \in Nat : n = Len(pool)
    OBVIOUS
  <1>2. PICK P : P = ToSet(pool)
    OBVIOUS
  <1>3. DOMAIN pool = 1..n /\ IndexedIn(pool, n, P)
    BY <1>1, <1>2 DEF IndexedIn, ToSet
  <1>4. PICK b \in Seq(P) : b = <<>>
    <2>1. <<>> \in Seq(P)
      OBVIOUS
    <2> QED BY <2>1
  <1>5. SortingStays(b, Seq(P), P)
    <2>1. ASSUME NEW r \in Seq(P), NEW t \in P PROVE SortingStep(r, t) \in Seq(P)
      <3>1. PICK B : B = {s \in ToSet(r) : Outranks(s, t)}
        OBVIOUS
      <3>2. PICK u \in Seq(P) : u = Without(r, ToSet(r) \ B)
        BY WithoutIs
      <3>3. PICK v \in Seq(P) : v = Without(r, B)
        BY WithoutIs
      <3>4. <<t>> \in Seq(P)
        OBVIOUS
      <3>5. u \o <<t>> \in Seq(P)
        BY <3>4, ConcatProperties
      <3>6. u \o <<t>> \o v \in Seq(P)
        BY <3>5, ConcatProperties
      <3> QED BY <3>1, <3>2, <3>3, <3>6 DEF SortingStep
    <2> QED BY <2>1 DEF SortingStays
  <1>6. PICK G : IsSortingRun(b, Seq(P), pool, n, G) /\ G[n] = SortingAll(b, pool)
    BY <1>3, <1>5, SortingRuns
  <1>7. G[n] \in Seq(P)
    BY <1>6 DEF IsSortingRun
  <1> QED BY <1>2, <1>4, <1>6, <1>7, ByRateFold

LEMMA AtScore ==
    ASSUME NEW l \in LState, NEW sc \in Nat
    PROVE  /\ [l EXCEPT !.score = sc] \in LState /\ [l EXCEPT !.score = sc].score = sc
           /\ [l EXCEPT !.score = sc].coins = l.coins /\ [l EXCEPT !.score = sc].nonce = l.nonce
  BY DEF LState

LEMMA BlockFields ==
    ASSUME NEW b \in PoolBlock
    PROVE  b.body \in Seq(PoolItem) /\ b.score \in Nat
  BY DEF PoolBlock

(***************************************************************************)
(* What a replay of blocks, and each of their items, leaves alone.         *)
(***************************************************************************)
LEMMA ReplayStays ==
    ASSUME NEW A \in SUBSET LState, NEW V \in SUBSET PoolBlock, NEW l \in A, NEW blocks \in Seq(V),
           \A a \in A, sc \in Nat : [a EXCEPT !.score = sc] \in A,
           \A a \in A, b \in V : \A x \in ToSet(b.body) : Applies(a, x) => Apply(a, x) \in A
    PROVE  Replay(l, blocks) \in A
  <1>1. PICK n \in Nat : n = Len(blocks)
    OBVIOUS
  <1>2. DOMAIN blocks = 1..n /\ IndexedIn(blocks, n, V)
    BY <1>1 DEF IndexedIn
  <1>3. ASSUME NEW a \in A, NEW b \in V PROVE ReplayingStep(a, b) \in A
    <2>1. b.body \in Seq(PoolItem) /\ b.score \in Nat
      BY BlockFields
    <2>2. PICK c \in A : c = [a EXCEPT !.score = b.score]
      BY <2>1
    <2>3. PICK s \in Seq(PoolItem) : s = b.body
      BY <2>1
    <2>4. PICK G : IsApplyRun(c, s, G)
      BY ApplyAllRuns
    <2>5. PICK m \in Nat : m = Len(s)
      OBVIOUS
    <2>6. /\ G \in [0..m -> Progress] /\ G[0].l = c /\ G[m] = ApplyAll(c, s)
          /\ \A i \in 1..m : G[i] = ApplyingStep(G[i - 1], s[i])
      BY <2>4, <2>5 DEF IsApplyRun
    <2> DEFINE Good == {i \in 0..m : G[i].l \in A}
    <2>7. 0 \in Good
      BY <2>6
    <2>8. ASSUME NEW i \in 1..m, (i - 1) \in Good PROVE i \in Good
      <3>1. PICK r \in Progress : r = G[i - 1] /\ r.l \in A
        BY <2>6, <2>8
      <3>2. PICK x \in PoolItem : x = s[i] /\ x \in ToSet(s)
        BY <2>5, MembersOf
      <3>3. PICK q : q = ApplyingStep(r, x)
        OBVIOUS
      <3>4. CASE Applies(r.l, x)
        <4>1. q.l = Apply(r.l, x)
          BY <3>3, <3>4, StepTyped
        <4>2. Apply(r.l, x) \in A
          BY <2>3, <3>1, <3>2, <3>4
        <4> QED BY <2>6, <3>1, <3>2, <3>3, <4>1, <4>2
      <3>5. CASE ~Applies(r.l, x)
        <4>1. q = r
          BY <3>3, <3>5, StepTyped
        <4>2. G[i] = q
          BY <2>6, <3>1, <3>2, <3>3
        <4>3. G[i].l \in A /\ i \in 0..m
          BY <3>1, <4>1, <4>2
        <4> QED BY <4>3
      <3> QED BY <3>4, <3>5
    <2>9. m \in Good
      <3>1. m \in 0..m
        OBVIOUS
      <3> HIDE DEF Good
      <3> QED BY <2>7, <2>8, <3>1, UpTo
    <2>10. ApplyAll(c, s).l \in A
      BY <2>6, <2>9
    <2> QED BY <2>2, <2>3, <2>10 DEF ReplayingStep
  <1>4. ReplayingStays(l, A, V)
    BY <1>3 DEF ReplayingStays
  <1>5. PICK G : IsReplayingRun(l, A, blocks, n, G) /\ G[n] = ReplayingAll(l, blocks)
    BY <1>2, <1>4, ReplayingRuns
  <1>6. G[n] \in A
    BY <1>5 DEF IsReplayingRun
  <1> QED BY <1>5, <1>6, ReplayFold

LEMMA ReplayTyped ==
    ASSUME NEW l \in LState, NEW blocks \in Seq(PoolBlock)
    PROVE  Replay(l, blocks) \in LState
  <1>1. \A a \in LState, sc \in Nat : [a EXCEPT !.score = sc] \in LState
    BY AtScore
  <1>2. ASSUME NEW a \in LState, NEW b \in PoolBlock, NEW x \in ToSet(b.body) PROVE Apply(a, x) \in LState
    <2>1. b.body \in Seq(PoolItem)
      BY BlockFields
    <2>2. x \in PoolItem
      BY <2>1, MembersOf
    <2> QED BY <2>2, ApplyTyped
  <1> QED BY <1>1, <1>2, ReplayStays

LEMMA LiveTyped ==
    ASSUME chain \in Seq(PoolBlock)
    PROVE  Live \in LState
  <1>1. SeedState \in LState
    BY DEF SeedState, LState, Coin
  <1> QED BY <1>1, ReplayTyped DEF Live

LEMMA ScoreTyped ==
    ASSUME NEW blocks \in Seq(PoolBlock)
    PROVE  ScoreOf(blocks) \in Nat
  <1>1. CASE blocks = <<>>
    BY <1>1 DEF ScoreOf
  <1>2. CASE blocks # <<>>
    <2>1. PICK n \in Nat : n = Len(blocks) /\ n >= 1
      BY <1>2
    <2>2. blocks[n] \in PoolBlock
      BY <2>1
    <2> QED BY <1>2, <2>1, <2>2, BlockFields DEF ScoreOf, Last
  <1> QED BY <1>1, <1>2

Bodies == [utxo : Seq(Tx), registry : Seq(Op), custody : Seq(Op)]

Fit(l, P, b) ==
    /\ b \in Bodies /\ ToSet(b.utxo) \subseteq P
    /\ HasPath(l, b.utxo) /\ HasPath(l, b.registry) /\ HasPath(l, b.custody)
    /\ Apart(b.registry, b.custody)

LEMMA BodyFields ==
    ASSUME NEW b \in Bodies
    PROVE  /\ b.utxo \in Seq(Tx) /\ b.registry \in Seq(Op) /\ b.custody \in Seq(Op)
           /\ b.utxo \in Seq(PoolItem) /\ b.registry \in Seq(PoolItem) /\ b.custody \in Seq(PoolItem)
           /\ Body(b) \in Seq(PoolItem)
  <1>1. b.utxo \in Seq(Tx) /\ b.registry \in Seq(Op) /\ b.custody \in Seq(Op)
    BY DEF Bodies
  <1>2. b.utxo \in Seq(PoolItem) /\ b.registry \in Seq(PoolItem) /\ b.custody \in Seq(PoolItem)
    <2>1. Tx \subseteq PoolItem /\ Op \subseteq PoolItem
      BY DEF PoolItem
    <2>2. \A s \in Seq(Tx) : s \in Seq(PoolItem)
      BY <2>1
    <2>3. \A s \in Seq(Op) : s \in Seq(PoolItem)
      BY <2>1
    <2> QED BY <1>1, <2>2, <2>3
  <1>3. Body(b) \in Seq(PoolItem)
    <2>1. b.utxo \o b.registry \in Seq(PoolItem)
      BY <1>2, ConcatProperties
    <2>2. b.utxo \o b.registry \o b.custody \in Seq(PoolItem)
      BY <1>2, <2>1, ConcatProperties
    <2> QED BY <2>2 DEF Body
  <1> QED BY <1>1, <1>2, <1>3

LEMMA ApartConcat ==
    ASSUME NEW u \in Seq(Tx), NEW r \in Seq(Op), NEW c \in Seq(Op)
    PROVE  Apart(u, r) /\ (Apart(u \o r, c) <=> Apart(r, c))
  <1>1. PICK n \in Nat, m \in Nat, k \in Nat : n = Len(u) /\ m = Len(r) /\ k = Len(c)
    OBVIOUS
  <1>2. \A i \in 1..n : u[i] \in Tx
    BY <1>1
  <1>3. \A i \in 1..n : \A sg : ~SignedBy(u[i], sg)
    BY <1>2, OpIs DEF SignedBy
  <1>4. Apart(u, r)
    BY <1>1, <1>3 DEF Apart
  <1>5. u \in Seq(PoolItem) /\ r \in Seq(PoolItem)
    <2>1. Tx \subseteq PoolItem /\ Op \subseteq PoolItem
      BY DEF PoolItem
    <2> QED BY <2>1
  <1>6. PICK w : w = u \o r
    OBVIOUS
  <1>7. Len(w) = n + m /\ \A i \in 1..(n + m) : w[i] = IF i <= n THEN u[i] ELSE r[i - n]
    BY <1>1, <1>5, <1>6, ConcatProperties
  <1>8. ASSUME Apart(w, c), NEW i \in 1..m, NEW j \in 1..k PROVE ~SignedBy(r[i], c[j].signer)
    <2>1. n + i \in 1..(n + m) /\ ~(n + i <= n) /\ (n + i) - n = i
      OBVIOUS
    <2>2. w[n + i] = r[i]
      BY <1>7, <2>1
    <2>3. ~SignedBy(w[n + i], c[j].signer)
      BY <1>1, <1>7, <1>8, <2>1 DEF Apart
    <2> QED BY <2>2, <2>3
  <1>9. ASSUME Apart(r, c), NEW i \in 1..(n + m), NEW j \in 1..k PROVE ~SignedBy(w[i], c[j].signer)
    <2>1. CASE i <= n
      <3>1. w[i] = u[i] /\ i \in 1..n
        BY <1>7, <2>1
      <3> QED BY <1>3, <3>1
    <2>2. CASE ~(i <= n)
      <3>1. PICK h \in 1..m : h = i - n
        BY <2>2
      <3>2. w[i] = r[h]
        BY <1>7, <2>2, <3>1
      <3>3. ~SignedBy(r[h], c[j].signer)
        BY <1>1, <1>9, <3>1 DEF Apart
      <3> QED BY <3>2, <3>3
    <2> QED BY <2>1, <2>2
  <1>10. Apart(w, c) => Apart(r, c)
    BY <1>1, <1>8 DEF Apart
  <1>11. Apart(r, c) => Apart(w, c)
    BY <1>1, <1>7, <1>9 DEF Apart
  <1> QED BY <1>4, <1>6, <1>10, <1>11

LEMMA FitBinds ==
    ASSUME NEW l \in LState, NEW P, NEW b, Fit(l, P, b)
    PROVE  Binds(l, Body(b))
  <1>1. PICK u, r, c : u = b.utxo /\ r = b.registry /\ c = b.custody
    OBVIOUS
  <1>2. b \in Bodies
    BY DEF Fit
  <1>3. /\ u \in Seq(Tx) /\ r \in Seq(Op) /\ c \in Seq(Op) /\ u \in Seq(PoolItem) /\ r \in Seq(PoolItem)
        /\ Body(b) = u \o r \o c /\ Body(b) \in Seq(PoolItem)
    BY <1>1, <1>2, BodyFields DEF Body
  <1>4. HasPath(l, u) /\ HasPath(l, r) /\ HasPath(l, c) /\ Apart(r, c)
    BY <1>1 DEF Fit
  <1>5. Apart(u, r) /\ Apart(u \o r, c)
    BY <1>3, <1>4, ApartConcat
  <1>6. PICK s \in Seq(PoolItem) : s = u \o r
    BY <1>3, ConcatProperties
  <1>7. HasPath(l, s)
    BY <1>3, <1>4, <1>5, <1>6, PathsJoin DEF HasPath
  <1>8. HasPath(l, s \o c)
    BY <1>3, <1>4, <1>5, <1>6, <1>7, PathsJoin DEF HasPath
  <1>9. PICK w \in Seq(PoolItem) : w = Body(b)
    BY <1>3
  <1>10. HasPath(l, w)
    BY <1>3, <1>6, <1>8, <1>9
  <1> QED BY <1>9, <1>10, PathBinds DEF HasPath

LEMMA FrontIs ==
    ASSUME NEW A, NEW s \in Seq(A), s # <<>>
    PROVE  /\ Front(s) \in Seq(A) /\ Len(Front(s)) = Len(s) - 1 /\ Len(s) - 1 \in Nat
           /\ \A i \in 1..(Len(s) - 1) : Front(s)[i] = s[i]
  <1>1. PICK n \in Nat : n = Len(s) /\ n >= 1
    OBVIOUS
  <1>2. PICK m \in Nat : m = n - 1
    BY <1>1
  <1>3. \A i \in 1..m : s[i] \in A
    BY <1>1, <1>2
  <1>4. SubSeq(s, 1, m) \in Seq(A) /\ Len(SubSeq(s, 1, m)) = m /\ \A i \in 1..m : SubSeq(s, 1, m)[i] = s[i]
    BY <1>3
  <1> QED BY <1>1, <1>2, <1>4 DEF Front

NoLowFeeParent(P) == \A s, t \in P : Makes[s] \cap Spends[t] # {} => ~(Fee[s] <= Fee[t])

LEMMA TrimOneFits ==
    ASSUME NEW l \in LState, NEW P, NoLowFeeParent(P), NEW b, Fit(l, P, b)
    PROVE  Fit(l, P, TrimOne(b))
  <1>1. PICK u, r, c : u = b.utxo /\ r = b.registry /\ c = b.custody
    OBVIOUS
  <1>2. b \in Bodies
    BY DEF Fit
  <1>3. /\ u \in Seq(Tx) /\ r \in Seq(Op) /\ c \in Seq(Op)
        /\ u \in Seq(PoolItem) /\ r \in Seq(PoolItem) /\ c \in Seq(PoolItem)
    BY <1>1, <1>2, BodyFields
  <1>4. HasPath(l, u) /\ HasPath(l, r) /\ HasPath(l, c) /\ Apart(r, c) /\ ToSet(u) \subseteq P
    BY <1>1 DEF Fit
  <1>5. CASE u # <<>>
    <2>1. PICK low : low = CHOOSE i \in DOMAIN u : \A j \in DOMAIN u :
                        \/ Fee[u[i]] < Fee[u[j]]
                        \/ Fee[u[i]] = Fee[u[j]] /\ i <= j
      OBVIOUS
    <2>2. low \in 1..Len(u) /\ \A j \in 1..Len(u) : Fee[u[low]] <= Fee[u[j]]
      BY <1>3, <1>5, <2>1, LowestFee
    <2>3. ASSUME NEW j \in 1..Len(u) PROVE Makes[u[low]] \cap Spends[u[j]] = {}
      <3>1. u[low] \in P /\ u[j] \in P
        BY <1>3, <1>4, <2>2, MembersOf
      <3>2. Fee[u[low]] <= Fee[u[j]]
        BY <2>2
      <3> QED BY <3>1, <3>2 DEF NoLowFeeParent
    <2>4. PICK w : w = RemoveAt(u, low)
      OBVIOUS
    <2>5. HasPath(l, w)
      BY <1>3, <1>4, <2>2, <2>3, <2>4, RemovePath DEF HasPath
    <2>6. w \in Seq(Tx) /\ ToSet(w) \subseteq P
      <3>1. /\ w \in Seq(Tx) /\ Len(w) = Len(u) - 1
            /\ \A i \in 1..(Len(u) - 1) : w[i] = IF i < low THEN u[i] ELSE u[i + 1]
        BY <1>3, <2>2, <2>4, RemovedIs
      <3>2. \A i \in 1..Len(u) : u[i] \in P
        BY <1>3, <1>4, MembersOf
      <3>3. Len(u) \in Nat
        BY <1>3
      <3>4. ASSUME NEW i \in 1..Len(w) PROVE w[i] \in P
        <4>1. i \in 1..Len(u) /\ i + 1 \in 1..Len(u) /\ i \in 1..(Len(u) - 1)
          BY <3>1, <3>3
        <4> QED BY <3>1, <3>2, <4>1
      <3> QED BY <3>1, <3>4, MembersOf
    <2>7. PICK d : d = TrimOne(b)
      OBVIOUS
    <2>8. d = [b EXCEPT !.utxo = w]
      BY <1>1, <1>5, <2>1, <2>4, <2>7 DEF TrimOne
    <2>9. d \in Bodies /\ d.utxo = w /\ d.registry = r /\ d.custody = c
      BY <1>1, <1>2, <2>6, <2>8 DEF Bodies
    <2>10. Fit(l, P, d)
      BY <1>4, <2>5, <2>6, <2>9 DEF Fit
    <2> QED BY <2>7, <2>10
  <1>6. CASE u = <<>> /\ r # <<>>
    <2>1. PICK w : w = Front(r)
      OBVIOUS
    <2>2. HasPath(l, w)
      BY <1>3, <1>4, <1>6, <2>1, FrontPath DEF HasPath
    <2>3. w \in Seq(Op) /\ Len(w) = Len(r) - 1 /\ Len(r) - 1 \in Nat /\ \A i \in 1..(Len(r) - 1) : w[i] = r[i]
      BY <1>3, <1>6, <2>1, FrontIs
    <2>4. Apart(w, c)
      <3>1. \A i \in 1..Len(w) : i \in 1..Len(r) /\ w[i] = r[i]
        BY <1>3, <2>3
      <3> QED BY <1>4, <3>1 DEF Apart
    <2>5. PICK d : d = TrimOne(b)
      OBVIOUS
    <2>6. d = [b EXCEPT !.registry = w]
      BY <1>1, <1>6, <2>1, <2>5 DEF TrimOne
    <2>7. d \in Bodies /\ d.utxo = u /\ d.registry = w /\ d.custody = c
      BY <1>1, <1>2, <2>3, <2>6 DEF Bodies
    <2>8. Fit(l, P, d)
      BY <1>4, <2>2, <2>4, <2>7 DEF Fit
    <2> QED BY <2>5, <2>8
  <1>7. CASE u = <<>> /\ r = <<>> /\ c # <<>>
    <2>1. PICK w : w = Front(c)
      OBVIOUS
    <2>2. HasPath(l, w)
      BY <1>3, <1>4, <1>7, <2>1, FrontPath DEF HasPath
    <2>3. w \in Seq(Op)
      BY <1>3, <1>7, <2>1, FrontIs
    <2>4. Apart(r, w)
      BY <1>7 DEF Apart
    <2>5. PICK d : d = TrimOne(b)
      OBVIOUS
    <2>6. d = [b EXCEPT !.custody = w]
      BY <1>1, <1>7, <2>1, <2>5 DEF TrimOne
    <2>7. d \in Bodies /\ d.utxo = u /\ d.registry = r /\ d.custody = w
      BY <1>1, <1>2, <2>3, <2>6 DEF Bodies
    <2>8. Fit(l, P, d)
      BY <1>4, <2>2, <2>4, <2>7 DEF Fit
    <2> QED BY <2>5, <2>8
  <1>8. CASE u = <<>> /\ r = <<>> /\ c = <<>>
    BY <1>1, <1>8 DEF TrimOne
  <1> QED BY <1>5, <1>6, <1>7, <1>8

LEMMA TrimmedFits ==
    ASSUME NEW l \in LState, NEW P, NoLowFeeParent(P), NEW b, Fit(l, P, b)
    PROVE  Fit(l, P, Trimmed(b))
  <1>1. b \in Bodies
    BY DEF Fit
  <1>2. PICK s \in Seq(PoolItem) : s = Body(b)
    BY <1>1, BodyFields
  <1>3. PICK n \in Nat : n = Len(s)
    OBVIOUS
  <1>4. DOMAIN s = 1..n /\ IndexedIn(s, n, PoolItem)
    BY <1>3 DEF IndexedIn
  <1>5. PICK A : A = {d \in Bodies : Fit(l, P, d)}
    OBVIOUS
  <1>6. \A d : d \in A <=> Fit(l, P, d)
    BY <1>5 DEF Fit
  <1>7. TrimmingStays(b, A, PoolItem)
    <2>1. ASSUME NEW d \in A, NEW x \in PoolItem PROVE TrimmingStep(d, x) \in A
      BY <1>6, TrimOneFits DEF TrimmingStep
    <2> QED BY <1>6, <2>1 DEF TrimmingStays
  <1>8. PICK G : IsTrimmingRun(b, A, s, n, G) /\ G[n] = TrimmingAll(b, s)
    BY <1>4, <1>7, TrimmingRuns
  <1>9. G[n] \in A
    BY <1>8 DEF IsTrimmingRun
  <1> QED BY <1>2, <1>6, <1>8, <1>9, TrimmedFold

LEMMA TrimOneTyped ==
    ASSUME NEW b \in Bodies
    PROVE  TrimOne(b) \in Bodies
  <1>1. PICK u, r, c : u = b.utxo /\ r = b.registry /\ c = b.custody
    OBVIOUS
  <1>2. u \in Seq(Tx) /\ r \in Seq(Op) /\ c \in Seq(Op)
    BY <1>1, BodyFields
  <1>3. PICK d : d = TrimOne(b)
    OBVIOUS
  <1>4. CASE u # <<>>
    <2>1. PICK low : low = CHOOSE i \in DOMAIN u : \A j \in DOMAIN u :
                        \/ Fee[u[i]] < Fee[u[j]]
                        \/ Fee[u[i]] = Fee[u[j]] /\ i <= j
      OBVIOUS
    <2>2. low \in 1..Len(u)
      BY <1>2, <1>4, <2>1, LowestFee
    <2>3. PICK w : w = RemoveAt(u, low)
      OBVIOUS
    <2>4. w \in Seq(Tx)
      BY <1>2, <2>2, <2>3, RemovedIs
    <2>5. d = [b EXCEPT !.utxo = w]
      BY <1>1, <1>3, <1>4, <2>1, <2>3 DEF TrimOne
    <2>6. d \in Bodies
      BY <2>4, <2>5 DEF Bodies
    <2> QED BY <1>3, <2>6
  <1>5. CASE u = <<>> /\ r # <<>>
    <2>1. PICK w \in Seq(Op) : w = Front(r)
      BY <1>2, <1>5, FrontIs
    <2>2. d = [b EXCEPT !.registry = w]
      BY <1>1, <1>3, <1>5, <2>1 DEF TrimOne
    <2>3. d \in Bodies
      BY <2>1, <2>2 DEF Bodies
    <2> QED BY <1>3, <2>3
  <1>6. CASE u = <<>> /\ r = <<>> /\ c # <<>>
    <2>1. PICK w \in Seq(Op) : w = Front(c)
      BY <1>2, <1>6, FrontIs
    <2>2. d = [b EXCEPT !.custody = w]
      BY <1>1, <1>3, <1>6, <2>1 DEF TrimOne
    <2>3. d \in Bodies
      BY <2>1, <2>2 DEF Bodies
    <2> QED BY <1>3, <2>3
  <1>7. CASE u = <<>> /\ r = <<>> /\ c = <<>>
    BY <1>1, <1>7 DEF TrimOne
  <1> QED BY <1>4, <1>5, <1>6, <1>7

LEMMA TrimmedTyped ==
    ASSUME NEW b \in Bodies
    PROVE  Trimmed(b) \in Bodies
  <1>1. PICK s \in Seq(PoolItem) : s = Body(b)
    BY BodyFields
  <1>2. PICK n \in Nat : n = Len(s)
    OBVIOUS
  <1>3. DOMAIN s = 1..n /\ IndexedIn(s, n, PoolItem)
    BY <1>2 DEF IndexedIn
  <1>4. TrimmingStays(b, Bodies, PoolItem)
    BY TrimOneTyped DEF TrimmingStays, TrimmingStep
  <1>5. PICK G : IsTrimmingRun(b, Bodies, s, n, G) /\ G[n] = TrimmingAll(b, s)
    BY <1>3, <1>4, TrimmingRuns
  <1>6. G[n] \in Bodies
    BY <1>5 DEF IsTrimmingRun
  <1> QED BY <1>1, <1>5, <1>6, TrimmedFold

PoolType ==
    /\ pool \in Seq(Tx)
    /\ queue \in [{"registry", "custody"} -> Seq(Op)]
    /\ chain \in Seq(PoolBlock)
    /\ side \in Seq(PoolBlock)
    /\ work \in Seq(PoolItem)

PoolInv == PoolType /\ PanicsAreKnown

LEMMA SelectPart ==
    ASSUME NEW l \in LState, NEW V, V \subseteq PoolItem, NEW s \in Seq(V)
    PROVE  Select(l, s) \in Seq(V) /\ ToSet(Select(l, s)) \subseteq ToSet(s) /\ HasPath(l, Select(l, s))
  <1>1. s \in Seq(PoolItem) /\ ToSet(s) \subseteq V
    BY MembersOf
  <1>2. Select(l, s) \in Seq(PoolItem) /\ ToSet(Select(l, s)) \subseteq ToSet(s) /\ HasPath(l, Select(l, s))
    BY <1>1, SelectBinds DEF HasPath
  <1>3. PICK g \in Seq(PoolItem) : g = Select(l, s)
    BY <1>2
  <1>4. ToSet(g) \subseteq V
    BY <1>1, <1>2, <1>3
  <1>5. g \in Seq(V)
    BY <1>4, MembersIn
  <1> QED BY <1>2, <1>3, <1>5

LEMMA SelectedIs ==
    ASSUME PoolType
    PROVE  /\ Live \in LState /\ Selected \in Bodies
           /\ ToSet(Selected.utxo) \subseteq ToSet(pool)
           /\ ToSet(Selected.registry) \subseteq ToSet(queue["registry"])
           /\ ToSet(Selected.custody) \subseteq ToSet(queue["custody"])
           /\ HasPath(Live, Selected.utxo) /\ HasPath(Live, Selected.registry)
           /\ HasPath(Live, Selected.custody)
  <1>1. Live \in LState
    BY LiveTyped DEF PoolType
  <1>2. PICK l \in LState : l = Live
    BY <1>1
  <1>3. PICK P : P = ToSet(pool)
    OBVIOUS
  <1>4. ByRate \in Seq(P) /\ P \subseteq Tx /\ P \subseteq PoolItem /\ Op \subseteq PoolItem
    BY <1>3, ByRateIs, MembersOf DEF PoolType, PoolItem
  <1>5. queue["registry"] \in Seq(Op) /\ queue["custody"] \in Seq(Op)
    BY DEF PoolType
  <1>6. PICK u, r, c : u = Select(l, ByRate) /\ r = Select(l, queue["registry"]) /\ c = Select(l, queue["custody"])
    OBVIOUS
  <1>7. u \in Seq(P) /\ HasPath(l, u)
    BY <1>4, <1>6, SelectPart
  <1>8. u \in Seq(Tx) /\ ToSet(u) \subseteq P
    <2>1. ToSet(u) \subseteq P
      BY <1>7, MembersOf
    <2>2. ToSet(u) \subseteq Tx
      BY <1>4, <2>1
    <2> QED BY <1>7, <2>1, <2>2, MembersIn
  <1>9. r \in Seq(Op) /\ ToSet(r) \subseteq ToSet(queue["registry"]) /\ HasPath(l, r)
    BY <1>4, <1>5, <1>6, SelectPart
  <1>10. c \in Seq(Op) /\ ToSet(c) \subseteq ToSet(queue["custody"]) /\ HasPath(l, c)
    BY <1>4, <1>5, <1>6, SelectPart
  <1>11. Selected = [utxo |-> u, registry |-> r, custody |-> c]
    BY <1>2, <1>6 DEF Selected
  <1>12. Selected.utxo = u /\ Selected.registry = r /\ Selected.custody = c
    BY <1>11
  <1>13. Selected \in Bodies
    BY <1>8, <1>9, <1>10, <1>11 DEF Bodies
  <1> QED BY <1>1, <1>2, <1>3, <1>7, <1>8, <1>9, <1>10, <1>12, <1>13

(***************************************************************************)
(* The blocks that a template may cite, and the state that they leave: it  *)
(* has the live coins that no block at the side spends, and the nonces of  *)
(* whom no block at the side has an operation.                             *)
(***************************************************************************)
LEMMA CitedIs ==
    ASSUME PoolType, NEW cited \in Cited
    PROVE  /\ cited \in Seq(PoolBlock) /\ Len(cited) <= Len(side)
           /\ \A i \in 1..Len(cited) : i \in 1..Len(side) /\ cited[i] = side[i]
  <1>1. PICK n \in Nat : n = Len(side)
    BY DEF PoolType
  <1>2. side \in Seq(PoolBlock) /\ \A i \in 1..n : side[i] \in PoolBlock
    BY <1>1 DEF PoolType
  <1>3. CASE cited = side
    BY <1>1, <1>2, <1>3
  <1>4. CASE cited # side
    <2>1. PICK m \in MAX_BLOCK_PARENTS - 1 .. n : cited = SubSeq(side, 1, m)
      BY <1>1, <1>4 DEF Cited
    <2>2. m \in 0..n
      BY PoolConstants, <2>1
    <2>3. \A i \in 1..m : i \in 1..n /\ side[i] \in PoolBlock
      BY <1>2, <2>2
    <2>4. cited \in Seq(PoolBlock) /\ Len(cited) = m /\ \A i \in 1..m : cited[i] = side[i]
      BY <2>1, <2>2, <2>3
    <2> QED BY <1>1, <2>2, <2>3, <2>4
  <1> QED BY <1>3, <1>4

SideSpends == UNION {Spends[x] : x \in Items(side) \cap Tx}
SideSilent == {g \in Signer : \A x \in Items(side) \cap Op : x.signer # g}

LEMMA NearStays ==
    ASSUME NEW l, NEW a \in LState, Near(l, a, SideSpends, SideSilent),
           NEW x \in PoolItem, x \in Items(side)
    PROVE  Near(l, Apply(a, x), SideSpends, SideSilent)
  <1>1. CASE x \in Tx
    <2>1. Spends[x] \subseteq SideSpends
      BY <1>1 DEF SideSpends
    <2>2. Apply(a, x).coins = (a.coins \ Spends[x]) \cup Makes[x] /\ Apply(a, x).nonce = a.nonce
      BY <1>1, ApplyTx
    <2> QED BY <2>1, <2>2 DEF Near
  <1>2. CASE x \in Op
    <2>1. ASSUME NEW g \in SideSilent PROVE Apply(a, x).nonce[g] = a.nonce[g]
      <3>1. g \in Signer /\ g # x.signer
        BY <1>2 DEF SideSilent
      <3> QED BY <1>2, <3>1, ApplyOp
    <2>2. Apply(a, x).coins = a.coins
      BY <1>2, ApplyOp
    <2> QED BY <2>1, <2>2 DEF Near
  <1> QED BY <1>1, <1>2 DEF PoolItem

LEMMA MergedIs ==
    ASSUME PoolType, NEW cited \in Cited, NEW blues \in 0..Len(cited),
           NEW l, l = MergedState(chain, cited, blues)
    PROVE  /\ l \in LState /\ Near(Live, l, SideSpends, SideSilent)
           /\ l.score = ScoreOf(chain) + 1 + blues
  <1>1. PICK k \in LState : k = Live
    BY LiveTyped DEF PoolType
  <1>2. PICK A : A = {a \in LState : Near(k, a, SideSpends, SideSilent)}
    OBVIOUS
  <1>3. PICK V : V = {b \in PoolBlock : ToSet(b.body) \subseteq Items(side)}
    OBVIOUS
  <1>4. k \in A
    BY <1>2 DEF Near
  <1>5. cited \in Seq(V)
    <2>1. PICK m \in Nat : m = Len(cited) /\ cited = [i \in 1..m |-> cited[i]]
      BY CitedIs
    <2>2. ASSUME NEW i \in 1..m PROVE cited[i] \in V
      <3>1. i \in 1..Len(side) /\ cited[i] = side[i] /\ cited[i] \in PoolBlock
        BY <2>1, CitedIs
      <3>2. i \in DOMAIN side
        BY <3>1 DEF PoolType
      <3>3. ToSet(side[i].body) \subseteq Items(side)
        BY <3>2 DEF Items
      <3> QED BY <1>3, <3>1, <3>3
    <2> QED BY <2>1, <2>2
  <1>6. ASSUME NEW a \in A, NEW sc \in Nat PROVE [a EXCEPT !.score = sc] \in A
    <2>1. a \in LState /\ Near(k, a, SideSpends, SideSilent)
      BY <1>2
    <2>2. PICK b : b = [a EXCEPT !.score = sc]
      OBVIOUS
    <2>3. b \in LState /\ b.coins = a.coins /\ b.nonce = a.nonce
      BY <2>1, <2>2, AtScore
    <2>4. Near(k, b, SideSpends, SideSilent)
      BY <2>1, <2>3 DEF Near
    <2> QED BY <1>2, <2>2, <2>3, <2>4
  <1>7. ASSUME NEW a \in A, NEW b \in V, NEW x \in ToSet(b.body) PROVE Apply(a, x) \in A
    <2>1. a \in LState /\ Near(k, a, SideSpends, SideSilent) /\ b \in PoolBlock /\ x \in Items(side)
      BY <1>2, <1>3
    <2>2. x \in PoolItem
      BY <2>1, BlockFields, MembersOf
    <2>3. Apply(a, x) \in LState /\ Near(k, Apply(a, x), SideSpends, SideSilent)
      BY <2>1, <2>2, ApplyTyped, NearStays
    <2> QED BY <1>2, <2>3
  <1>8. Replay(k, cited) \in A
    <2>1. A \in SUBSET LState /\ V \in SUBSET PoolBlock
      BY <1>2, <1>3
    <2>2. \A a \in A, sc \in Nat : [a EXCEPT !.score = sc] \in A
      BY <1>6
    <2>3. \A a \in A, b \in V : \A x \in ToSet(b.body) : Applies(a, x) => Apply(a, x) \in A
      BY <1>7
    <2> QED BY <1>4, <1>5, <2>1, <2>2, <2>3, ReplayStays
  <1>9. PICK m : m = Replay(k, cited)
    OBVIOUS
  <1>10. m \in A /\ m \in LState
    BY <1>2, <1>8, <1>9
  <1>11. PICK sc \in Nat : sc = ScoreOf(chain) + 1 + blues
    <2>1. ScoreOf(chain) \in Nat /\ blues \in Nat
      BY CitedIs, ScoreTyped DEF PoolType
    <2> QED BY <2>1
  <1>12. l = [m EXCEPT !.score = sc]
    BY <1>1, <1>9, <1>11 DEF MergedState, Live
  <1>13. l \in A /\ l.score = sc
    BY <1>6, <1>10, <1>11, <1>12, AtScore
  <1> QED BY <1>1, <1>2, <1>11, <1>13

(***************************************************************************)
(* The two bindings of a template.  The first holds if no signer is in     *)
(* both queues, no block at the side is in the way, and nothing is         *)
(* annulled on the way: what was selected can be walked from the merged    *)
(* state as well.  Once it holds, no signer is in both parts of what was   *)
(* selected, and the second fails only if a parent is trimmed before its   *)
(* child.                                                                  *)
(***************************************************************************)
LEMMA SelectedAreMovable ==
    ASSUME PoolType, ~SiblingInterferes, ~ExpiresOnTheWay, NEW l \in LState,
           l.score \in 0 .. ScoreOf(chain) + 1 + Len(side)
    PROVE  /\ \A i \in 1..Len(Selected.utxo) : Movable(l, SideSpends, SideSilent, Selected.utxo[i])
           /\ \A i \in 1..Len(Selected.registry) : Movable(l, SideSpends, SideSilent, Selected.registry[i])
           /\ \A i \in 1..Len(Selected.custody) : Movable(l, SideSpends, SideSilent, Selected.custody[i])
  <1>1. PICK b : b = Selected
    OBVIOUS
  <1>2. PICK k \in LState : k = Live
    BY SelectedIs
  <1>3. /\ b \in Bodies /\ ToSet(b.utxo) \subseteq ToSet(pool)
        /\ ToSet(b.registry) \subseteq ToSet(queue["registry"])
        /\ ToSet(b.custody) \subseteq ToSet(queue["custody"])
        /\ HasPath(k, b.utxo)
    BY <1>1, <1>2, SelectedIs
  <1>4. b.utxo \in Seq(Tx) /\ b.registry \in Seq(Op) /\ b.custody \in Seq(Op) /\ b.utxo \in Seq(PoolItem)
    BY <1>3, BodyFields
  <1>5. ASSUME NEW i \in 1..Len(b.utxo) PROVE Movable(l, SideSpends, SideSilent, b.utxo[i])
    <2>1. PICK t \in Tx : t = b.utxo[i]
      BY <1>4
    <2>2. t \in ToSet(pool)
      BY <1>3, <1>4, <2>1, MembersOf
    <2>3. Spends[t] \cap SideSpends = {}
      BY <2>2 DEF SiblingInterferes, SideSpends
    <2>4. k.score < Expires[t]
      <3>1. PICK n \in Nat : n = Len(b.utxo) /\ i \in 1..n
        BY <1>4
      <3>2. PICK st : IsPath(k, b.utxo, st)
        BY <1>3 DEF HasPath
      <3>3. i - 1 \in 0..n
        BY <3>1
      <3>4. PICK a \in LState : a = st[i - 1] /\ Applies(a, t)
        BY <2>1, <3>1, <3>2, <3>3 DEF IsPath
      <3>5. a.score = k.score
        BY <1>4, <3>1, <3>2, <3>3, <3>4, ScoreAlong
      <3> QED BY <3>4, <3>5, TxApplies
    <2>5. ~(Expires[t] <= ScoreOf(chain) + 1 + Len(side))
      BY <1>2, <2>2, <2>4 DEF ExpiresOnTheWay
    <2>6. Expires[t] \in Nat /\ ScoreOf(chain) + 1 + Len(side) \in Nat
      BY PoolConstants, ScoreTyped DEF PoolType
    <2>7. l.score < Expires[t]
      BY <2>5, <2>6
    <2> QED BY <2>1, <2>3, <2>7, OpIs DEF Movable
  <1>6. ASSUME NEW q \in {"registry", "custody"}, NEW o \in Op, o \in ToSet(queue[q])
        PROVE  Movable(l, SideSpends, SideSilent, o)
    <2>1. q \in DOMAIN queue
      BY DEF PoolType
    <2>2. \A x \in Items(side) \cap Op : x.signer # o.signer
      BY <1>6, <2>1 DEF SiblingInterferes
    <2>3. o.signer \in SideSilent
      BY <2>2, OpIs DEF SideSilent
    <2> QED BY <2>3, OpIs DEF Movable
  <1>7. ASSUME NEW i \in 1..Len(b.registry) PROVE Movable(l, SideSpends, SideSilent, b.registry[i])
    <2>1. b.registry[i] \in Op /\ b.registry[i] \in ToSet(queue["registry"])
      BY <1>3, <1>4, MembersOf
    <2> QED BY <1>6, <2>1
  <1>8. ASSUME NEW i \in 1..Len(b.custody) PROVE Movable(l, SideSpends, SideSilent, b.custody[i])
    <2>1. b.custody[i] \in Op /\ b.custody[i] \in ToSet(queue["custody"])
      BY <1>3, <1>4, MembersOf
    <2> QED BY <1>6, <2>1
  <1> QED BY <1>1, <1>5, <1>7, <1>8

LEMMA FirstBinding ==
    ASSUME PoolType, ~SharedSigner, ~SiblingInterferes, ~ExpiresOnTheWay, NEW l \in LState,
           Near(Live, l, SideSpends, SideSilent), l.score \in 0 .. ScoreOf(chain) + 1 + Len(side)
    PROVE  Binds(l, Body(Selected))
  <1>1. PICK b : b = Selected
    OBVIOUS
  <1>2. PICK k \in LState : k = Live
    BY SelectedIs
  <1>3. /\ b \in Bodies
        /\ ToSet(b.utxo) \subseteq ToSet(pool)
        /\ ToSet(b.registry) \subseteq ToSet(queue["registry"])
        /\ ToSet(b.custody) \subseteq ToSet(queue["custody"])
        /\ HasPath(k, b.utxo) /\ HasPath(k, b.registry) /\ HasPath(k, b.custody)
    BY <1>1, <1>2, SelectedIs
  <1>4. PICK u, r, c : u = b.utxo /\ r = b.registry /\ c = b.custody
    OBVIOUS
  <1>5. /\ r \in Seq(Op) /\ c \in Seq(Op)
        /\ u \in Seq(PoolItem) /\ r \in Seq(PoolItem) /\ c \in Seq(PoolItem)
    BY <1>3, <1>4, BodyFields
  <1>6. ASSUME NEW i \in 1..Len(r), NEW j \in 1..Len(c) PROVE ~SignedBy(r[i], c[j].signer)
    <2>1. r[i] \in ToSet(queue["registry"]) /\ c[j] \in ToSet(queue["custody"])
      BY <1>3, <1>4, <1>5, MembersOf
    <2>2. r[i].signer # c[j].signer
      BY <2>1 DEF SharedSigner
    <2> QED BY <2>2 DEF SignedBy
  <1>7. Apart(r, c)
    BY <1>6 DEF Apart
  <1>8. /\ \A i \in 1..Len(u) : Movable(l, SideSpends, SideSilent, u[i])
        /\ \A i \in 1..Len(r) : Movable(l, SideSpends, SideSilent, r[i])
        /\ \A i \in 1..Len(c) : Movable(l, SideSpends, SideSilent, c[i])
    BY <1>1, <1>4, SelectedAreMovable
  <1>9. SideSilent \in SUBSET Signer /\ Near(k, l, SideSpends, SideSilent)
    BY <1>2 DEF SideSilent
  <1>10. HasPath(l, u)
    BY <1>3, <1>4, <1>5, <1>8, <1>9, PathMoves
  <1>11. HasPath(l, r)
    BY <1>3, <1>4, <1>5, <1>8, <1>9, PathMoves
  <1>12. HasPath(l, c)
    BY <1>3, <1>4, <1>5, <1>8, <1>9, PathMoves
  <1>13. Fit(l, ToSet(pool), b)
    BY <1>3, <1>4, <1>7, <1>10, <1>11, <1>12 DEF Fit
  <1> QED BY <1>1, <1>13, FitBinds

LEMMA SecondBinding ==
    ASSUME PoolType, NoLowFeeParent(ToSet(pool)), NEW l \in LState, Binds(l, Body(Selected))
    PROVE  Binds(l, Body(Trimmed(Selected)))
  <1>1. PICK b : b = Selected
    OBVIOUS
  <1>2. PICK k \in LState : k = Live
    BY SelectedIs
  <1>3. /\ b \in Bodies /\ ToSet(b.utxo) \subseteq ToSet(pool)
        /\ HasPath(k, b.registry) /\ HasPath(k, b.custody)
    BY <1>1, <1>2, SelectedIs
  <1>4. PICK u, r, c : u = b.utxo /\ r = b.registry /\ c = b.custody
    OBVIOUS
  <1>5. u \in Seq(Tx) /\ r \in Seq(Op) /\ c \in Seq(Op) /\ u \in Seq(PoolItem) /\ r \in Seq(PoolItem) /\ Body(b) \in Seq(PoolItem)
    BY <1>3, <1>4, BodyFields
  <1>6. PICK s \in Seq(PoolItem) : s = u \o r
    BY <1>5, ConcatProperties
  <1>7. PICK w \in Seq(PoolItem) : w = Body(b) /\ w = s \o c
    BY <1>4, <1>5, <1>6 DEF Body
  <1>8. PICK st : IsPath(l, w, st)
    BY <1>1, <1>7, BindsPath
  <1>9. PICK p, q : IsPath(k, r, p) /\ IsPath(k, c, q)
    BY <1>3, <1>4 DEF HasPath
  <1>10. IsPath(l, u \o r \o c, st)
    BY <1>6, <1>7, <1>8
  <1>11. Apart(r, c)
    BY <1>5, <1>9, <1>10, BoundApart
  <1>12. Apart(u, r) /\ Apart(s, c)
    BY <1>5, <1>6, <1>11, ApartConcat
  <1>13. HasPath(l, s \o c)
    BY <1>7, <1>8 DEF HasPath
  <1>14. HasPath(l, s) /\ HasPath(l, c)
    BY <1>5, <1>12, <1>13, PathSplits
  <1>15. HasPath(l, u \o r)
    BY <1>6, <1>14
  <1>16. HasPath(l, u) /\ HasPath(l, r)
    BY <1>5, <1>12, <1>15, PathSplits
  <1>17. Fit(l, ToSet(pool), b)
    BY <1>3, <1>4, <1>11, <1>14, <1>16 DEF Fit
  <1>18. Fit(l, ToSet(pool), Trimmed(b))
    BY <1>17, TrimmedFits
  <1> QED BY <1>1, <1>18, FitBinds

LEMMA PoolInitInv == PoolInit => PoolInv
  <1> SUFFICES ASSUME PoolInit PROVE PoolInv
    OBVIOUS
  <1>1. PoolType
    <2>1. <<>> \in Seq(Tx) /\ <<>> \in Seq(Op) /\ <<>> \in Seq(PoolBlock) /\ <<>> \in Seq(PoolItem)
      OBVIOUS
    <2> QED BY <2>1 DEF PoolInit, PoolType, NoWork
  <1> QED BY <1>1 DEF PoolInit, PoolInv, PanicsAreKnown

LEMMA AdmissionIs ==
    ASSUME pool \in Seq(Tx), NEW t \in Tx
    PROVE  Admission(t) \in Seq(Tx)
  <1> DEFINE rest == Without(pool, ConflictSet(t))
             rate == Rate(Package(ToSet(rest), t))
             p(S) == Without(rest, S)
  <1>1. rest \in Seq(Tx) /\ \A S : p(S) \in Seq(Tx)
    BY WithoutIs
  <1>2. \A S, R : Append(Without(p(S), R), t) \in Seq(Tx)
    <2> SUFFICES ASSUME NEW S, NEW R PROVE Append(Without(p(S), R), t) \in Seq(Tx)
      OBVIOUS
    <2>1. p(S) \in Seq(Tx)
      BY <1>1
    <2> HIDE DEF p
    <2>2. Without(p(S), R) \in Seq(Tx)
      BY <2>1, WithoutIs
    <2> QED BY <2>2
  <1> HIDE DEF p
  <1>3. Admission(t) \in {pool, rest} \cup {p(S) : S \in {CHOOSE S \in BytesToEvict(rest, t, rate) : TRUE}}
           \/ \E S, R : Admission(t) = Append(Without(p(S), R), t)
    BY DEF Admission, p
  <1> QED BY <1>1, <1>2, <1>3

LEMMA IncludeTyped ==
    ASSUME PoolType, NEW body \in Seq(PoolItem), IncludeBlock(body)
    PROVE  /\ pool' \in Seq(Tx) /\ chain' \in Seq(PoolBlock) /\ side' \in Seq(PoolBlock)
           /\ queue' \in [{"registry", "custody"} -> Seq(Op)]
  <1>1. pool' \in Seq(Tx)
    <2>1. pool' = Without(pool, ToSet(body))
      BY DEF IncludeBlock, DropIncluded
    <2> QED BY <2>1, WithoutIs DEF PoolType
  <1>2. queue' \in [{"registry", "custody"} -> Seq(Op)]
    <2> DEFINE Gone(l) == {q \in ToSet(queue[l]) : \E x \in ToSet(body) \cap Op : Duplicates(x, q)}
    <2>1. queue' = [l \in DOMAIN queue |-> Without(queue[l], Gone(l))]
      BY DEF IncludeBlock, DropIncluded
    <2> HIDE DEF Gone
    <2>2. \A l \in {"registry", "custody"} : Without(queue[l], Gone(l)) \in Seq(Op)
      BY WithoutIs DEF PoolType
    <2>3. DOMAIN queue = {"registry", "custody"}
      BY DEF PoolType
    <2> QED BY <2>1, <2>2, <2>3
  <1>3. PICK c \in Seq(PoolBlock), w \in Seq(PoolBlock) : c = chain /\ w = side
    BY DEF PoolType
  <1>4. PICK n \in Nat : n = Len(c) /\ \A i \in 1..n : c[i] \in PoolBlock
    OBVIOUS
  <1> DEFINE New(k, blues) == [body |-> body, score |-> ScoreOf(SubSeq(c, 1, k)) + 1 + blues]
             Joins(k, merged, b) == \/ /\ chain' = SubSeq(c, 1, k) \o merged \o <<b>>
                                       /\ side' = SubSeq(c, k + 1, n) \o (IF merged = w THEN <<>> ELSE w)
                                    \/ side' = Append(w, b) /\ chain' = c
  <1>4a. PICK k \in 0..n, merged \in {<<>>, w} : \E blues \in 0..Len(merged) : Joins(k, merged, New(k, blues))
    BY <1>3, <1>4 DEF IncludeBlock
  <1>4b. PICK blues \in 0..Len(merged) : Joins(k, merged, New(k, blues))
    BY <1>4a
  <1>5. PICK b : b = New(k, blues) /\ Joins(k, merged, b)
    BY <1>4b
  <1>6. PICK base \in Seq(PoolBlock) : base = SubSeq(c, 1, k)
    <2>1. \A i \in 1..k : c[i] \in PoolBlock
      BY <1>4
    <2>2. k \in Nat /\ SubSeq(c, 1, k) = [i \in 1..k |-> c[i]]
      OBVIOUS
    <2>3. [i \in 1..k |-> c[i]] \in Seq(PoolBlock)
      BY <2>1, <2>2
    <2> QED BY <2>2, <2>3
  <1>7. PICK rest \in Seq(PoolBlock) : rest = SubSeq(c, k + 1, n)
    <2>1. \A i \in (k + 1)..n : c[i] \in PoolBlock
      BY <1>4
    <2>2. SubSeq(c, k + 1, n) \in Seq(PoolBlock)
      BY <1>4, <2>1, SubSeqProperties
    <2> QED BY <2>2
  <1>8. merged \in Seq(PoolBlock) /\ <<>> \in Seq(PoolBlock)
    <2>1. <<>> \in Seq(PoolBlock)
      OBVIOUS
    <2> QED BY <2>1
  <1>9. b \in PoolBlock /\ <<b>> \in Seq(PoolBlock)
    <2>1. PICK sc \in Nat : sc = ScoreOf(base) + 1 + blues
      <3>1. ScoreOf(base) \in Nat /\ blues \in Nat
        BY <1>8, ScoreTyped
      <3> QED BY <3>1
    <2>2. b = [body |-> body, score |-> sc]
      BY <1>5, <1>6, <2>1
    <2>3. b \in PoolBlock
      BY <2>2 DEF PoolBlock
    <2> QED BY <2>3
  <1>10. /\ base \o merged \o <<b>> \in Seq(PoolBlock) /\ Append(w, b) \in Seq(PoolBlock)
         /\ rest \o (IF merged = w THEN <<>> ELSE w) \in Seq(PoolBlock)
    <2>1. base \o merged \in Seq(PoolBlock)
      BY <1>8, ConcatProperties
    <2>2. base \o merged \o <<b>> \in Seq(PoolBlock)
      BY <1>9, <2>1, ConcatProperties
    <2>3. PICK z \in Seq(PoolBlock) : z = IF merged = w THEN <<>> ELSE w
      BY <1>8
    <2>4. rest \o z \in Seq(PoolBlock)
      BY ConcatProperties
    <2>5. Append(w, b) \in Seq(PoolBlock)
      BY <1>9
    <2> QED BY <2>2, <2>3, <2>4, <2>5
  <1>11. chain' \in Seq(PoolBlock) /\ side' \in Seq(PoolBlock)
    BY <1>5, <1>6, <1>7, <1>10
  <1> QED BY <1>1, <1>2, <1>11

(***************************************************************************)
(* A template, by how it ends.                                             *)
(***************************************************************************)
KnownFirst == SharedSigner \/ SiblingInterferes \/ ExpiresOnTheWay \/ Len(side) > MAX_MERGESET_SIZE
KnownSecond == \E s, t \in ToSet(pool) : Makes[s] \cap Spends[t] # {} /\ Fee[s] <= Fee[t]

LEMMA TemplateEnds ==
    ASSUME PoolType, CreateBlockTemplate
    PROVE  /\ UNCHANGED <<pool, queue, chain, side>>
           /\ \/ mode' = "template parents must yield a selected parent" /\ work' = work /\ KnownFirst
              \/ mode' = "post-trim commitments" /\ work' = work /\ KnownSecond
              \/ mode' = "up" /\ work' = Body(Trimmed(Selected))
  <1>1. UNCHANGED <<pool, queue, chain, side>> /\ mode = "up"
    BY DEF CreateBlockTemplate
  <1> DEFINE Ends(cited, l) ==
                \/ /\ Len(cited) > MAX_MERGESET_SIZE \/ ~Binds(l, Body(Selected))
                   /\ mode' = "template parents must yield a selected parent"
                   /\ work' = work
                \/ /\ Binds(l, Body(Selected))
                   /\ ~Binds(l, Body(Trimmed(Selected)))
                   /\ mode' = "post-trim commitments"
                   /\ work' = work
                \/ work' = Body(Trimmed(Selected)) /\ mode' = mode
  <1>1a. PICK cited \in Cited : \E blues \in 0..Len(cited) : Ends(cited, MergedState(chain, cited, blues))
    BY DEF CreateBlockTemplate
  <1>1b. PICK blues \in 0..Len(cited) : Ends(cited, MergedState(chain, cited, blues))
    BY <1>1a
  <1>2. PICK l : l = MergedState(chain, cited, blues) /\ Ends(cited, l)
    BY <1>1b
  <1>3. /\ l \in LState /\ Near(Live, l, SideSpends, SideSilent)
        /\ l.score = ScoreOf(chain) + 1 + blues
    BY <1>2, MergedIs
  <1>4. PICK n \in Nat, m \in Nat, sc \in Nat : n = Len(side) /\ m = Len(cited) /\ m <= n /\ sc = ScoreOf(chain)
    BY CitedIs, ScoreTyped DEF PoolType
  <1>5. l.score \in 0 .. ScoreOf(chain) + 1 + Len(side)
    <2>1. blues \in 0..m /\ sc + 1 + blues \in 0 .. sc + 1 + n
      BY <1>4
    <2> QED BY <1>3, <1>4, <2>1
  <1>6. ASSUME Len(cited) > MAX_MERGESET_SIZE PROVE Len(side) > MAX_MERGESET_SIZE
    BY <1>4, <1>6, PoolConstants
  <1>7. ASSUME ~Binds(l, Body(Selected)) PROVE SharedSigner \/ SiblingInterferes \/ ExpiresOnTheWay
    BY <1>3, <1>5, <1>7, FirstBinding
  <1>8. ASSUME Binds(l, Body(Selected)), ~Binds(l, Body(Trimmed(Selected))) PROVE KnownSecond
    BY <1>3, <1>8, SecondBinding DEF NoLowFeeParent, KnownSecond
  <1> QED BY <1>1, <1>2, <1>6, <1>7, <1>8 DEF KnownFirst

LEMMA KnownStays ==
    ASSUME UNCHANGED <<pool, queue, chain, side>>
    PROVE  (KnownFirst => KnownFirst') /\ (KnownSecond => KnownSecond')
  <1>1. SharedSigner => SharedSigner'
    BY DEF SharedSigner
  <1>2. SiblingInterferes => SiblingInterferes'
    BY DEF SiblingInterferes, Items
  <1>3. ExpiresOnTheWay => ExpiresOnTheWay'
    BY DEF ExpiresOnTheWay, Live, ScoreOf, Last
  <1>4. KnownSecond => KnownSecond'
    BY DEF KnownSecond
  <1> QED BY <1>1, <1>2, <1>3, <1>4 DEF KnownFirst

LEMMA PoolStep ==
    ASSUME PoolInv, [PoolNext]_poolVars
    PROVE  PoolInv'
  <1>0. PoolType /\ PanicsAreKnown
    BY DEF PoolInv
  <1>1. ASSUME PoolType', mode' = "up" PROVE PoolInv'
    BY <1>1 DEF PoolInv, PanicsAreKnown
  <1>2. ASSUME NEW t \in Tx, AdmitUtxo(t) PROVE PoolInv'
    <2>1. pool' \in Seq(Tx) /\ mode' = "up"
      BY <1>0, <1>2, AdmissionIs DEF AdmitUtxo, PoolType
    <2>2. PoolType'
      BY <1>0, <1>2, <2>1 DEF AdmitUtxo, PoolType
    <2> QED BY <1>1, <2>1, <2>2
  <1>3. ASSUME NEW o \in Op, AdmitOp(o) PROVE PoolInv'
    <2>1. o.list \in {"registry", "custody"}
      BY OpIs
    <2>2. PICK f : f = queue
      OBVIOUS
    <2>3. f \in [{"registry", "custody"} -> Seq(Op)]
      BY <1>0, <2>2 DEF PoolType
    <2>4. queue' = [f EXCEPT ![o.list] = Append(f[o.list], o)] /\ mode' = "up"
      BY <1>3, <2>2 DEF AdmitOp
    <2>5. Append(f[o.list], o) \in Seq(Op)
      BY <2>1, <2>3
    <2>6. queue' \in [{"registry", "custody"} -> Seq(Op)]
      BY <2>3, <2>4, <2>5
    <2>7. PoolType'
      BY <1>0, <1>3, <2>6 DEF AdmitOp, PoolType
    <2> QED BY <1>1, <2>4, <2>7
  <1>4. CASE CreateBlockTemplate
    <2>1. /\ UNCHANGED <<pool, queue, chain, side>>
          /\ \/ mode' = "template parents must yield a selected parent" /\ work' = work /\ KnownFirst
             \/ mode' = "post-trim commitments" /\ work' = work /\ KnownSecond
             \/ mode' = "up" /\ work' = Body(Trimmed(Selected))
      BY <1>0, <1>4, TemplateEnds
    <2>2. Body(Trimmed(Selected)) \in Seq(PoolItem)
      <3>1. PICK b : b = Selected
        OBVIOUS
      <3>2. b \in Bodies
        BY <1>0, <3>1, SelectedIs
      <3>3. Trimmed(b) \in Bodies
        BY <3>2, TrimmedTyped
      <3> QED BY <3>1, <3>3, BodyFields
    <2>3. work' \in Seq(PoolItem)
      BY <1>0, <2>1, <2>2 DEF PoolType
    <2>4. PoolType'
      BY <1>0, <2>1, <2>3 DEF PoolType
    <2>5. PanicsAreKnown'
      BY <2>1, KnownStays DEF PanicsAreKnown, KnownFirst, KnownSecond
    <2> QED BY <2>4, <2>5 DEF PoolInv
  <1>5. CASE FindNonce
    <2>1. IncludeBlock(work) /\ work' = NoWork /\ mode' = "up" /\ work \in Seq(PoolItem)
      BY <1>0, <1>5 DEF FindNonce, PoolType
    <2>2. PoolType'
      <3>1. NoWork \in Seq(PoolItem)
        BY DEF NoWork
      <3> QED BY <1>0, <2>1, <3>1, IncludeTyped DEF PoolType
    <2> QED BY <1>1, <2>1, <2>2
  <1>6. CASE SearchTimesOut
    <2>1. work' = NoWork /\ mode' = "up" /\ UNCHANGED <<pool, queue, chain, side>>
      BY <1>6 DEF SearchTimesOut
    <2>2. NoWork \in Seq(PoolItem)
      BY DEF NoWork
    <2>3. PoolType'
      BY <1>0, <2>1, <2>2 DEF PoolType
    <2> QED BY <1>1, <2>1, <2>3
  <1>7. ASSUME NEW x \in Tx \cup Op, ReceiveBlock(x) PROVE PoolInv'
    <2>1. IncludeBlock(<<x>>) /\ work' = work /\ mode' = "up"
      BY <1>7 DEF ReceiveBlock
    <2>2. <<x>> \in Seq(PoolItem)
      BY DEF PoolItem
    <2>3. PoolType'
      BY <1>0, <2>1, <2>2, IncludeTyped DEF PoolType
    <2> QED BY <1>1, <2>1, <2>3
  <1>8. CASE UNCHANGED poolVars
    <2>1. UNCHANGED <<pool, queue, chain, side, work, mode>>
      BY <1>8 DEF poolVars
    <2>2. PoolType'
      BY <1>0, <2>1 DEF PoolType
    <2>3. PanicsAreKnown'
      BY <1>0, <2>1, KnownStays DEF PanicsAreKnown, KnownFirst, KnownSecond
    <2> QED BY <2>2, <2>3 DEF PoolInv
  <1> QED BY <1>2, <1>3, <1>4, <1>5, <1>6, <1>7, <1>8 DEF PoolNext

(***************************************************************************)
(* For any transactions, operations and limits, and whatever arrives while *)
(* a block is searched for: the producer (`create_block_template`) fails   *)
(* its first strict check only if a signer is in both queues, a block at   *)
(* the side spends what a queued transaction spends or has an operation of *)
(* a queued signer, an input is annulled between the tip's score and the   *)
(* template's, or there are too many blocks to merge; and the one after    *)
(* the trimming only if a parent in the pool pays no more than its child.  *)
(***************************************************************************)
THEOREM PanicsExplained == PoolSpec => []PanicsAreKnown
  <1>1. PoolInv => PanicsAreKnown
    BY DEF PoolInv
  <1>2. PoolInv /\ [PoolNext]_poolVars => PoolInv'
    BY PoolStep
  <1> QED BY <1>1, <1>2, PoolInitInv, PTL DEF PoolSpec

(***************************************************************************)
(* The ancestors within a finite set are the least set that holds the      *)
(* parents of the given ones and the parents of its members.               *)
(***************************************************************************)
ParentsOfAll(S, T) == UNION {Parents(S, t) : t \in T}

IsClimb(S, T, n, f) ==
    f = [i \in 0..n |-> IF i = 0 THEN ParentsOfAll(S, T) ELSE f[i - 1] \cup ParentsOfAll(S, f[i - 1])]

LEMMA AncestorsClimb ==
    ASSUME NEW S, NEW T
    PROVE  AncestorsIn(S, T) = (CHOOSE f : IsClimb(S, T, Cardinality(S), f))[Cardinality(S)]
  BY DEF AncestorsIn, IsClimb, ParentsOfAll

LEMMA ParentsWithin == ASSUME NEW S, NEW T PROVE ParentsOfAll(S, T) \subseteq S
  BY DEF ParentsOfAll, Parents

LEMMA ClimbExists ==
    ASSUME NEW S, NEW T, NEW n \in Nat
    PROVE  \E f : IsClimb(S, T, n, f)
  <1> DEFINE Climbs(k, f) ==
                /\ f \in [0..n -> SUBSET S] /\ f[0] = ParentsOfAll(S, T)
                /\ \A i \in 1..k : f[i] = f[i - 1] \cup ParentsOfAll(S, f[i - 1])
             Good == {k \in 0..n : \E f : Climbs(k, f)}
  <1>1. 0 \in Good
    <2>1. PICK f : f = [i \in 0..n |-> ParentsOfAll(S, T)]
      OBVIOUS
    <2>2. f \in [0..n -> SUBSET S] /\ f[0] = ParentsOfAll(S, T)
      BY <2>1, ParentsWithin
    <2> QED BY <2>2
  <1>2. ASSUME NEW k \in 1..n, (k - 1) \in Good PROVE k \in Good
    <2>1. PICK f : Climbs(k - 1, f)
      BY <1>2
    <2>2. PICK v : v = f[k - 1] \cup ParentsOfAll(S, f[k - 1])
      OBVIOUS
    <2>3. v \in SUBSET S
      BY <2>1, <2>2, ParentsWithin
    <2>4. PICK g : g = [i \in 0..n |-> IF i = k THEN v ELSE f[i]]
      OBVIOUS
    <2>5. g \in [0..n -> SUBSET S] /\ g[0] = f[0] /\ g[k] = v /\ \A i \in 0..n : i # k => g[i] = f[i]
      BY <2>1, <2>3, <2>4
    <2>6. ASSUME NEW i \in 1..k PROVE g[i] = g[i - 1] \cup ParentsOfAll(S, g[i - 1])
      <3>1. g[i - 1] = f[i - 1]
        BY <2>5
      <3>2. CASE i = k
        BY <2>2, <2>5, <3>1, <3>2
      <3>3. CASE i # k
        <4>1. i \in 1..(k - 1) /\ i \in 0..n
          BY <3>3
        <4> QED BY <2>1, <2>5, <3>1, <3>3, <4>1
      <3> QED BY <3>2, <3>3
    <2>7. Climbs(k, g)
      BY <2>1, <2>5, <2>6
    <2> HIDE DEF Climbs
    <2> QED BY <2>7
  <1>3. n \in Good
    <2>1. n \in 0..n
      OBVIOUS
    <2> HIDE DEF Good
    <2> QED BY <1>1, <1>2, <2>1, UpTo
  <1>4. PICK f : Climbs(n, f)
    BY <1>3
  <1>5. f = [i \in 0..n |-> IF i = 0 THEN ParentsOfAll(S, T) ELSE f[i - 1] \cup ParentsOfAll(S, f[i - 1])]
    <2>1. ASSUME NEW i \in 0..n
          PROVE  f[i] = IF i = 0 THEN ParentsOfAll(S, T) ELSE f[i - 1] \cup ParentsOfAll(S, f[i - 1])
      BY <1>4
    <2> QED BY <1>4, <2>1
  <1> QED BY <1>5 DEF IsClimb

Closed(S, X) == \A Y : Y \subseteq X => ParentsOfAll(S, Y) \subseteq X

ByRounds(S, T, A) ==
    \E n \in Nat : \E f :
        /\ n = Cardinality(S) /\ A = f[n]
        /\ f[0] = ParentsOfAll(S, T)
        /\ \A i \in 1..n : f[i] = f[i - 1] \cup ParentsOfAll(S, f[i - 1])

LEMMA AncestorsByRounds ==
    ASSUME NEW S, IsFiniteSet(S), NEW T, NEW A, A = AncestorsIn(S, T)
    PROVE  ByRounds(S, T, A)
  <1>1. PICK n \in Nat : n = Cardinality(S)
    BY FS_CardinalityType
  <1>2. PICK f : f = (CHOOSE g : IsClimb(S, T, n, g)) /\ IsClimb(S, T, n, f)
    BY ClimbExists
  <1>3. A = f[n]
    BY <1>1, <1>2, AncestorsClimb
  <1>4. /\ f[0] = ParentsOfAll(S, T)
        /\ \A i \in 1..n : f[i] = f[i - 1] \cup ParentsOfAll(S, f[i - 1])
    <2>1. \A i \in 0..n : f[i] = IF i = 0 THEN ParentsOfAll(S, T) ELSE f[i - 1] \cup ParentsOfAll(S, f[i - 1])
      BY <1>2 DEF IsClimb
    <2>2. f[0] = ParentsOfAll(S, T)
      <3>1. 0 \in 0..n
        OBVIOUS
      <3> QED BY <2>1, <3>1
    <2>3. ASSUME NEW i \in 1..n PROVE f[i] = f[i - 1] \cup ParentsOfAll(S, f[i - 1])
      <3>1. i \in 0..n /\ i # 0
        OBVIOUS
      <3> QED BY <2>1, <3>1
    <2> QED BY <2>2, <2>3
  <1> QED BY <1>1, <1>3, <1>4 DEF ByRounds

LEMMA AncestorsAre ==
    ASSUME NEW S, IsFiniteSet(S), NEW T, NEW A, A = AncestorsIn(S, T)
    PROVE  /\ ParentsOfAll(S, T) \subseteq A /\ A \subseteq S
           /\ ParentsOfAll(S, A) \subseteq A
  <1> ByRounds(S, T, A)
    BY AncestorsByRounds
  <1>0. PICK n \in Nat : \E f : /\ n = Cardinality(S) /\ A = f[n]
                   /\ f[0] = ParentsOfAll(S, T)
                   /\ \A i \in 1..n : f[i] = f[i - 1] \cup ParentsOfAll(S, f[i - 1])
    BY DEF ByRounds
  <1>1. PICK f : /\ n = Cardinality(S) /\ A = f[n]
                 /\ f[0] = ParentsOfAll(S, T)
                 /\ \A i \in 1..n : f[i] = f[i - 1] \cup ParentsOfAll(S, f[i - 1])
    BY <1>0
  <1>3. A = f[n]
    BY <1>1
  <1>4. /\ f[0] = ParentsOfAll(S, T)
        /\ \A i \in 1..n : f[i] = f[i - 1] \cup ParentsOfAll(S, f[i - 1])
    BY <1>1
  <1> DEFINE Stable(k) == ParentsOfAll(S, f[k]) \subseteq f[k]
             Good == {k \in 0..n : /\ ParentsOfAll(S, T) \subseteq f[k] /\ f[k] \subseteq S
                                   /\ Stable(k) \/ Cardinality(f[k]) >= k + 1}
  <1>5. 0 \in Good
    <2>1. f[0] \subseteq S
      BY <1>4, ParentsWithin
    <2>2. IsFiniteSet(f[0])
      BY <2>1, FS_Subset
    <2>3. CASE f[0] = {}
      <3>1. ParentsOfAll(S, {}) = {}
        BY DEF ParentsOfAll
      <3> QED BY <1>4, <2>1, <2>3, <3>1
    <2>4. CASE f[0] # {}
      <3>1. Cardinality(f[0]) \in Nat /\ Cardinality(f[0]) # 0
        BY <2>2, <2>4, FS_CardinalityType, FS_EmptySet
      <3>2. Cardinality(f[0]) >= 0 + 1
        BY <3>1
      <3> QED BY <1>4, <2>1, <3>2
    <2> QED BY <2>3, <2>4
  <1>6. ASSUME NEW k \in 1..n, (k - 1) \in Good PROVE k \in Good
    <2>1. PICK a : a = f[k - 1]
      OBVIOUS
    <2>2. PICK b : b = f[k]
      OBVIOUS
    <2>3. b = a \cup ParentsOfAll(S, a)
      BY <1>4, <2>1, <2>2
    <2>4. ParentsOfAll(S, T) \subseteq a /\ a \subseteq S /\ (Stable(k - 1) \/ Cardinality(a) >= k)
      <3>1. (k - 1) + 1 = k
        OBVIOUS
      <3> HIDE DEF Stable
      <3> QED BY <1>6, <2>1, <3>1
    <2>5. ParentsOfAll(S, T) \subseteq b /\ b \subseteq S /\ a \subseteq b
      BY <2>3, <2>4, ParentsWithin
    <2>6. Stable(k) \/ Cardinality(b) >= k + 1
      <3>1. CASE b = a
        BY <2>1, <2>2, <2>3, <3>1
      <3>2. CASE b # a
        <4>1. ~Stable(k - 1)
          BY <2>1, <2>3, <3>2
        <4>2. Cardinality(a) >= k
          BY <2>4, <4>1
        <4>3. IsFiniteSet(a) /\ IsFiniteSet(b)
          BY <2>4, <2>5, FS_Subset
        <4>4. Cardinality(a) < Cardinality(b) /\ Cardinality(a) \in Nat /\ Cardinality(b) \in Nat
          BY <2>5, <3>2, <4>3, FS_Subset, FS_CardinalityType
        <4> HIDE DEF Stable
        <4> QED BY <4>2, <4>4
      <3> QED BY <3>1, <3>2
    <2> HIDE DEF Stable
    <2>7. k \in 0..n
      OBVIOUS
    <2> QED BY <2>2, <2>5, <2>6, <2>7
  <1>7. n \in Good
    <2>1. n \in 0..n
      OBVIOUS
    <2> HIDE DEF Good
    <2> QED BY <1>5, <1>6, <2>1, UpTo
  <1>8. ParentsOfAll(S, T) \subseteq A /\ A \subseteq S /\ (Stable(n) \/ Cardinality(A) >= n + 1)
    <2> HIDE DEF Stable
    <2> QED BY <1>3, <1>7
  <1>9. ParentsOfAll(S, A) \subseteq A
    <2>1. Cardinality(A) <= n /\ Cardinality(A) \in Nat
      <3>1. IsFiniteSet(A)
        BY <1>8, FS_Subset
      <3> QED BY <1>1, <1>8, <3>1, FS_Subset, FS_CardinalityType
    <2>2. Stable(n)
      <3> HIDE DEF Stable
      <3> QED BY <1>8, <2>1
    <2> QED BY <1>3, <2>2
  <1> QED BY <1>8, <1>9

LEMMA AncestorsLeast ==
    ASSUME NEW S, IsFiniteSet(S), NEW T, NEW A, A = AncestorsIn(S, T),
           NEW X, ParentsOfAll(S, T) \subseteq X, Closed(S, X)
    PROVE  A \subseteq X
  <1> ByRounds(S, T, A)
    BY AncestorsByRounds
  <1>0. PICK n \in Nat : \E f : /\ n = Cardinality(S) /\ A = f[n]
                   /\ f[0] = ParentsOfAll(S, T)
                   /\ \A i \in 1..n : f[i] = f[i - 1] \cup ParentsOfAll(S, f[i - 1])
    BY DEF ByRounds
  <1>1. PICK f : /\ n = Cardinality(S) /\ A = f[n]
                 /\ f[0] = ParentsOfAll(S, T)
                 /\ \A i \in 1..n : f[i] = f[i - 1] \cup ParentsOfAll(S, f[i - 1])
    BY <1>0
  <1> DEFINE Low == {k \in 0..n : f[k] \subseteq X}
  <1>2. 0 \in Low
    BY <1>1
  <1>3. ASSUME NEW k \in 1..n, (k - 1) \in Low PROVE k \in Low
    <2>1. f[k] = f[k - 1] \cup ParentsOfAll(S, f[k - 1]) /\ k \in 0..n
      BY <1>1
    <2>2. f[k - 1] \subseteq X
      BY <1>3
    <2>3. ParentsOfAll(S, f[k - 1]) \subseteq X
      BY <2>2 DEF Closed
    <2> QED BY <2>1, <2>2, <2>3
  <1>4. n \in Low
    <2>1. n \in 0..n
      OBVIOUS
    <2> HIDE DEF Low
    <2> QED BY <1>2, <1>3, <2>1, UpTo
  <1> QED BY <1>1, <1>4

(***************************************************************************)
(* A child of a conflict is a conflict.                                    *)
(***************************************************************************)
LEMMA ChildConflicts ==
    ASSUME NEW S, IsFiniteSet(S), NEW T, NEW d \in S, NEW q \in S, Makes[q] \cap Spends[d] # {},
           q \in T \/ q \in DescendantsIn(S, T)
    PROVE  d \in DescendantsIn(S, T)
  <1>1. PICK A : A = AncestorsIn(S, {d})
    OBVIOUS
  <1>2. q \in Parents(S, d)
    BY DEF Parents
  <1>3. q \in A
    <2>1. q \in ParentsOfAll(S, {d})
      BY <1>2 DEF ParentsOfAll
    <2> QED BY <1>1, <2>1, AncestorsAre
  <1>4. CASE q \in T
    BY <1>1, <1>3, <1>4 DEF DescendantsIn
  <1>5. CASE q \in DescendantsIn(S, T)
    <2>1. PICK B : B = AncestorsIn(S, {q})
      OBVIOUS
    <2>2. B \cap T # {}
      BY <1>5, <2>1 DEF DescendantsIn
    <2>3. ParentsOfAll(S, A) \subseteq A
      BY <1>1, AncestorsAre
    <2>4. ASSUME NEW Y, Y \subseteq A PROVE ParentsOfAll(S, Y) \subseteq A
      BY <2>3, <2>4 DEF ParentsOfAll
    <2>5. B \subseteq A
      <3>1. ParentsOfAll(S, {q}) \subseteq A
        BY <1>3, <2>4
      <3>2. Closed(S, A)
        BY <2>4 DEF Closed
      <3> QED BY <2>1, <3>1, <3>2, AncestorsLeast
    <2> QED BY <1>1, <2>2, <2>5 DEF DescendantsIn
  <1> QED BY <1>4, <1>5

LEMMA MembersFinite ==
    ASSUME NEW A, NEW s \in Seq(A)
    PROVE  IsFiniteSet(ToSet(s))
  <1>1. PICK n \in Nat : n = Len(s)
    OBVIOUS
  <1> DEFINE First(i) == {s[j] : j \in 1..i}
             Good == {i \in 0..n : IsFiniteSet(First(i))}
  <1>2. 0 \in Good
    <2>1. First(0) = {}
      OBVIOUS
    <2>2. IsFiniteSet(First(0))
      BY <2>1, FS_EmptySet
    <2> HIDE DEF First
    <2> QED BY <2>2
  <1>3. ASSUME NEW i \in 1..n, (i - 1) \in Good PROVE i \in Good
    <2>1. First(i) = First(i - 1) \cup {s[i]}
      OBVIOUS
    <2> HIDE DEF First
    <2>2. IsFiniteSet(First(i - 1))
      BY <1>3
    <2>3. IsFiniteSet(First(i))
      <3>1. PICK F : F = First(i - 1)
        OBVIOUS
      <3>2. IsFiniteSet(F \cup {s[i]})
        BY <2>2, <3>1, FS_AddElement
      <3> QED BY <2>1, <3>1, <3>2
    <2> QED BY <2>3
  <1>4. n \in Good
    <2>1. n \in 0..n
      OBVIOUS
    <2> HIDE DEF Good
    <2> QED BY <1>2, <1>3, <2>1, UpTo
  <1>5. ToSet(s) = First(n)
    BY <1>1, MembersOf
  <1> HIDE DEF First
  <1> QED BY <1>4, <1>5

(***************************************************************************)
(* What a preview has comes from the live state or from what was applied.  *)
(***************************************************************************)
LEMMA ApplyAllCoins ==
    ASSUME NEW l \in LState, NEW s \in Seq(Tx), NEW X, l.coins \subseteq X,
           \A t \in ToSet(s) : Makes[t] \subseteq X
    PROVE  ApplyAll(l, s).l.coins \subseteq X
  <1>0. s \in Seq(PoolItem)
    <2>1. Tx \subseteq PoolItem
      BY DEF PoolItem
    <2> QED BY <2>1
  <1>1. PICK G : IsApplyRun(l, s, G)
    BY <1>0, ApplyAllRuns
  <1>2. PICK n \in Nat : n = Len(s)
    OBVIOUS
  <1>3. \A i \in 1..n : s[i] \in Tx /\ s[i] \in PoolItem /\ Makes[s[i]] \subseteq X
    BY <1>2, MembersOf DEF PoolItem
  <1>4. /\ G \in [0..n -> Progress] /\ G[0].l = l
        /\ \A i \in 1..n : G[i] = ApplyingStep(G[i - 1], s[i])
        /\ G[n] = ApplyAll(l, s)
    BY <1>1, <1>2 DEF IsApplyRun
  <1> DEFINE Good == {i \in 0..n : G[i].l.coins \subseteq X}
  <1>5. 0 \in Good
    BY <1>4
  <1>6. ASSUME NEW i \in 1..n, (i - 1) \in Good PROVE i \in Good
    <2>1. PICK r \in Progress : r = G[i - 1]
      BY <1>4
    <2>2. PICK x \in Tx : x = s[i]
      BY <1>3
    <2>3. x \in PoolItem /\ Makes[x] \subseteq X /\ G[i] = ApplyingStep(r, x) /\ r.l.coins \subseteq X
      BY <1>3, <1>4, <1>6, <2>1, <2>2
    <2>4. PICK q : q = ApplyingStep(r, x)
      OBVIOUS
    <2>5. q.l.coins \subseteq X
      <3>1. CASE Applies(r.l, x)
        <4>1. r.l \in LState /\ q.l = Apply(r.l, x)
          BY <2>3, <2>4, <3>1, StepTyped
        <4>2. Apply(r.l, x).coins = (r.l.coins \ Spends[x]) \cup Makes[x]
          BY <4>1, ApplyTx
        <4> QED BY <2>3, <4>1, <4>2
      <3>2. CASE ~Applies(r.l, x)
        <4>1. q = r
          BY <2>3, <2>4, <3>2, StepTyped
        <4> QED BY <2>3, <4>1
      <3> QED BY <3>1, <3>2
    <2> QED BY <2>3, <2>4, <2>5
  <1>7. n \in Good
    <2>1. n \in 0..n
      OBVIOUS
    <2> HIDE DEF Good
    <2> QED BY <1>5, <1>6, <2>1, UpTo
  <1> QED BY <1>4, <1>7

LEMMA PreviewCoins ==
    ASSUME Live \in LState, NEW rest \in Seq(Tx)
    PROVE  Preview(rest).coins \subseteq Live.coins \cup UNION {Makes[q] : q \in ToSet(rest)}
  <1>1. PICK P : P = ToSet(rest)
    OBVIOUS
  <1>2. PICK X : X = Live.coins \cup UNION {Makes[q] : q \in P}
    OBVIOUS
  <1>3. PICK n \in Nat : n = Len(rest)
    OBVIOUS
  <1>4. DOMAIN rest = 1..n /\ IndexedIn(rest, n, Tx)
    BY <1>3 DEF IndexedIn
  <1>5. P \subseteq Tx /\ rest \in Seq(P)
    BY <1>1, MembersOf, MembersIn
  <1>6. PICK R : R = {r \in [l : LState, pending : Seq(P)] : r.l.coins \subseteq X}
    OBVIOUS
  <1>7. PICK b : b = [l |-> Live, pending |-> rest]
    OBVIOUS
  <1>8. b \in R
    BY <1>2, <1>5, <1>6, <1>7
  <1>9. ASSUME NEW r \in R, NEW t \in Tx PROVE RoundsStep(r, t) \in R
    <2>1. r.l \in LState /\ r.pending \in Seq(P) /\ r.l.coins \subseteq X
      BY <1>6
    <2>2. PICK s : s = r.pending
      OBVIOUS
    <2>3. s \in Seq(P) /\ ToSet(s) \subseteq P
      BY <2>1, <2>2, MembersOf
    <2>4. s \in Seq(Tx) /\ s \in Seq(PoolItem)
      <3>1. P \subseteq PoolItem
        BY <1>5 DEF PoolItem
      <3> QED BY <1>5, <2>3, <3>1
    <2>5. PICK d : d = ApplyAll(r.l, s)
      OBVIOUS
    <2>6. d.l \in LState /\ d.l.coins \subseteq X
      <3>1. \A q \in ToSet(s) : Makes[q] \subseteq X
        BY <1>2, <2>3
      <3> QED BY <2>1, <2>4, <2>5, <3>1, ApplyAllTyped, ApplyAllCoins
    <2>7. PICK w \in Seq(P) : w = Without(s, ToSet(d.good))
      BY <2>3, WithoutIs
    <2>8. RoundsStep(r, t) = [l |-> d.l, pending |-> w]
      BY <2>2, <2>5, <2>7 DEF RoundsStep, Round
    <2> QED BY <1>6, <2>6, <2>8
  <1>10. RoundsStays(b, R, Tx)
    BY <1>8, <1>9 DEF RoundsStays
  <1>11. PICK G : IsRoundsRun(b, R, rest, n, G) /\ G[n] = RoundsAll(b, rest)
    BY <1>4, <1>10, RoundsRuns
  <1>12. G[n] \in R
    BY <1>11 DEF IsRoundsRun
  <1>13. G[n].l = Preview(rest)
    BY <1>7, <1>11, PreviewFold
  <1>14. G[n].l.coins \subseteq X
    BY <1>6, <1>12
  <1> QED BY <1>1, <1>2, <1>13, <1>14

DirectConflicts(t) == {q \in ToSet(pool) : Spends[q] \cap Spends[t] # {}}

(***************************************************************************)
(* What an admission keeps: all of the pool, or a part of it without the   *)
(* conflicts, and then the new transaction only if the preview had its     *)
(* coins.                                                                  *)
(***************************************************************************)
LEMMA AdmissionKeeps ==
    ASSUME pool \in Seq(Tx), NEW t \in Tx, NEW K, K = ToSet(pool) \ ConflictSet(t)
    PROVE  \/ ToSet(Admission(t)) \subseteq ToSet(pool)
           \/ /\ ToSet(Admission(t)) \subseteq K \cup {t}
              /\ \E rest \in Seq(Tx) : ToSet(rest) = K /\ Applies(Preview(rest), t)
  <1>1. PICK rest \in Seq(Tx) : rest = Without(pool, ConflictSet(t)) /\ ToSet(rest) = K
    BY WithoutIs
  <1>2. PICK rate : rate = Rate(Package(ToSet(rest), t))
    OBVIOUS
  <1>3. CASE Admission(t) = pool \/ Admission(t) = rest
    BY <1>1, <1>3
  <1>4. CASE Admission(t) # pool
    <2>1. Applies(Preview(rest), t)
      BY <1>1, <1>4 DEF Admission
    <2>2. ASSUME NEW S PROVE Without(rest, S) \in Seq(Tx) /\ ToSet(Without(rest, S)) \subseteq K
      BY <1>1, WithoutIs
    <2>3. ASSUME NEW S, NEW R PROVE ToSet(Append(Without(Without(rest, S), R), t)) \subseteq K \cup {t}
      <3>1. PICK p \in Seq(Tx) : p = Without(rest, S) /\ ToSet(p) \subseteq K
        BY <2>2
      <3>2. PICK p2 \in Seq(Tx) : p2 = Without(p, R) /\ ToSet(p2) \subseteq K
        BY <3>1, WithoutIs
      <3>3. ToSet(Append(p2, t)) \subseteq K \cup {t}
        BY <3>2, MembersAppend
      <3> QED BY <3>1, <3>2, <3>3
    <2>4. \/ Admission(t) = rest
          \/ \E S : Admission(t) = Without(rest, S)
          \/ \E S, R : Admission(t) = Append(Without(Without(rest, S), R), t)
      BY <1>1, <1>2, <1>4 DEF Admission
    <2>5. ToSet(Admission(t)) \subseteq K \cup {t}
      BY <1>1, <2>2, <2>3, <2>4
    <2> QED BY <1>1, <2>1, <2>5
  <1> QED BY <1>3, <1>4

LEMMA AdmissionStrandsNobody ==
    ASSUME PoolType, NEW t \in Tx, AdmitUtxo(t)
    PROVE  StrandsNobody
  <1>1. pool \in Seq(Tx) /\ pool' = Admission(t) /\ chain \in Seq(PoolBlock)
    BY DEF AdmitUtxo, PoolType
  <1>2. PICK P : P = ToSet(pool)
    OBVIOUS
  <1>3. PICK Q : Q = ToSet(pool')
    OBVIOUS
  <1>4. PICK C : C = ConflictSet(t)
    OBVIOUS
  <1>5. \/ Q \subseteq P
        \/ Q \subseteq (P \ C) \cup {t} /\ \E rest \in Seq(Tx) : ToSet(rest) = P \ C /\ Applies(Preview(rest), t)
    BY <1>1, <1>2, <1>3, <1>4, AdmissionKeeps
  <1>6. C = DirectConflicts(t) \cup DescendantsIn(P, DirectConflicts(t))
    BY <1>2, <1>4 DEF ConflictSet, DirectConflicts
  <1>7. SUFFICES ASSUME NEW n \in Q \ P, P \ Q \subseteq DirectConflicts(n) \cup DescendantsIn(P, DirectConflicts(n)),
                        NEW d \in Q, Sourced(d, pool)
                 PROVE  Sourced(d, pool')
    BY <1>2, <1>3 DEF StrandsNobody, DirectConflicts
  <1>8. n = t /\ Q \subseteq (P \ C) \cup {t} /\ P \ Q \subseteq C
    BY <1>5, <1>6, <1>7
  <1>9. PICK rest \in Seq(Tx) : ToSet(rest) = P \ C /\ Applies(Preview(rest), t)
    BY <1>5, <1>7
  <1>10. IsFiniteSet(P)
    BY <1>1, <1>2, MembersFinite
  <1>11. ASSUME NEW c \in Spends[d], c \notin Live.coins PROVE \E q \in Q : c \in Makes[q]
    <2>1. CASE d = t
      <3>1. Preview(rest).coins \subseteq Live.coins \cup UNION {Makes[q] : q \in P \ C}
        BY <1>1, <1>9, LiveTyped, PreviewCoins
      <3>2. Spends[t] \subseteq Preview(rest).coins
        BY <1>9 DEF Applies
      <3>3. PICK q \in P \ C : c \in Makes[q]
        BY <1>11, <2>1, <3>1, <3>2
      <3>4. q \in Q
        BY <1>8, <3>3
      <3> QED BY <3>3, <3>4
    <2>2. CASE d # t
      <3>1. PICK q \in P : c \in Makes[q]
        BY <1>2, <1>7, <1>11 DEF Sourced
      <3>2. d \in P /\ d \notin C
        BY <1>8, <2>2
      <3>3. q \notin C
        <4> SUFFICES ASSUME q \in C PROVE FALSE
          OBVIOUS
        <4>1. q \in DirectConflicts(t) \/ q \in DescendantsIn(P, DirectConflicts(t))
          BY <1>6
        <4>2. Makes[q] \cap Spends[d] # {}
          BY <1>11, <3>1
        <4>3. d \in DescendantsIn(P, DirectConflicts(t))
          BY <1>10, <3>2, <4>1, <4>2, ChildConflicts
        <4> QED BY <1>6, <3>2, <4>3
      <3>4. q \in Q
        BY <1>8, <3>1, <3>3
      <3> QED BY <3>1, <3>4
    <2> QED BY <2>1, <2>2
  <1> QED BY <1>3, <1>11 DEF Sourced

(***************************************************************************)
(* For any transactions and limits: where `admit_utxo_to_mempool` removes  *)
(* conflicts and their descendants only, who had a source for each input,  *)
(* in the live state or in the pool, still has it.                         *)
(***************************************************************************)
THEOREM NobodyStranded == PoolSpec => ReplacementStrandsNobody
  <1>1. ASSUME PoolInv, [PoolNext]_poolVars PROVE [StrandsNobody]_poolVars
    <2>1. PoolType /\ pool \in Seq(Tx)
      BY <1>1 DEF PoolInv, PoolType
    <2>2. ASSUME ToSet(pool') \subseteq ToSet(pool) PROVE StrandsNobody
      BY <2>2 DEF StrandsNobody
    <2>3. ASSUME NEW body, IncludeBlock(body) PROVE StrandsNobody
      <3>1. pool' = Without(pool, ToSet(body))
        BY <2>3 DEF IncludeBlock, DropIncluded
      <3>2. ToSet(pool') \subseteq ToSet(pool)
        BY <2>1, <3>1, WithoutIs
      <3> QED BY <2>2, <3>2
    <2>4. ASSUME pool' = pool PROVE StrandsNobody
      BY <2>2, <2>4
    <2>5. ASSUME NEW t \in Tx, AdmitUtxo(t) PROVE StrandsNobody
      BY <2>1, <2>5, AdmissionStrandsNobody
    <2>6. ASSUME PoolNext PROVE StrandsNobody
      <3>1. ASSUME NEW o \in Op, AdmitOp(o) PROVE StrandsNobody
        BY <2>4, <3>1 DEF AdmitOp
      <3>2. CASE CreateBlockTemplate
        BY <2>4, <3>2 DEF CreateBlockTemplate
      <3>3. CASE FindNonce
        BY <2>3, <3>3 DEF FindNonce
      <3>4. CASE SearchTimesOut
        BY <2>4, <3>4 DEF SearchTimesOut
      <3>5. ASSUME NEW x \in Tx \cup Op, ReceiveBlock(x) PROVE StrandsNobody
        BY <2>3, <3>5 DEF ReceiveBlock
      <3> QED BY <2>5, <2>6, <3>1, <3>2, <3>3, <3>4, <3>5 DEF PoolNext
    <2> QED BY <1>1, <2>6
  <1>2. PoolInv /\ [PoolNext]_poolVars => PoolInv'
    BY PoolStep
  <1> QED BY <1>1, <1>2, PoolInitInv, PTL DEF PoolSpec, ReplacementStrandsNobody
=============================================================================
