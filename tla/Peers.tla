------------------------------- MODULE Peers -------------------------------
(***************************************************************************)
(* The connections of a node: dialing with a reservation, accepting, the   *)
(* handshake, registration under the caps, Hello and gossip of addresses,  *)
(* bans, and the end of a connection.  Each connection is a thread; a      *)
(* handler takes the locks of the tables one after the other.              *)
(*                                                                         *)
(* D_Xxx is D with the mistake Xxx, to see that a property notices it.     *)
(***************************************************************************)
EXTENDS Integers, FiniteSets

CONSTANTS
    Remote,               \* remote nodes
    ListenAt,             \* [Remote -> addresses], where a dial reaches it
    GroupOf,              \* [Remote -> groups], "loopback" is exempt
    MayAdvertise,         \* [Remote -> SUBSET addresses], what its Hello may say
    Undialable,           \* addresses that is_dialable_gossip_addr refuses
    Pinned,               \* remotes whose identity fails the pins when dialed
    Slot,                 \* bound: connection threads
    MAX_PEERS,            \* most registered connections
    MAX_PEERS_PER_GROUP,  \* most of them in one group
    MAX_KNOWN_ADDRS,      \* addresses at which no more are remembered
    MaxBans               \* bound: bans

VARIABLES
    conn,        \* slot -> connection
    connected,   \* connected_addrs: reserved or in use
    knownAddrs,
    bannedAddrs,
    ipBans,      \* remotes, by their socket address
    lost         \* history: reservations whose connection went without releasing them

peerVars == <<conn, connected, knownAddrs, bannedAddrs, ipBans, lost>>

NoAddr == "none"
FreeSlot == [pc |-> "free"]
Address == {ListenAt[r] : r \in Remote} \cup UNION {MayAdvertise[r] : r \in Remote}

\* No remote listens at, or advertises, the address that stands for none.
ASSUME PeersAssumption == NoAddr \notin Address

LiveSlots == {s \in Slot : conn[s] # FreeSlot}
Registered == {s \in Slot : conn[s].pc = "open"}

PeersInit ==
    /\ conn = [s \in Slot |-> FreeSlot]
    /\ connected = {}
    /\ knownAddrs = {}
    /\ bannedAddrs = {}
    /\ ipBans = {}
    /\ lost = {}

-----------------------------------------------------------------------------
(***************************************************************************)
(* `remember_addr`.                                                        *)
(***************************************************************************)
Remember(a) ==
    IF a \in Undialable \cup bannedAddrs \cup {NoAddr} \/ Cardinality(knownAddrs) >= MAX_KNOWN_ADDRS
    THEN knownAddrs ELSE knownAddrs \cup {a}

Begin(s, pc, r, dialed) ==
    conn' = [conn EXCEPT ![s] = [pc |-> pc, remote |-> r, dialed |-> dialed, listen |-> dialed]]

(***************************************************************************)
(* `dial`, of a known address from discovery or of any that a peer names:  *)
(* the reservation comes before the connection; a failed one releases it.  *)
(***************************************************************************)
Dial(s, r) ==
    LET a == ListenAt[r]
    IN /\ conn[s] = FreeSlot
       /\ a \in knownAddrs \/ Registered # {}
       /\ a \notin Undialable \cup bannedAddrs \cup connected
       /\ Cardinality(Registered) < MAX_PEERS
       /\ connected' = connected \cup {a}
       /\ Begin(s, "dialing", r, a)
       /\ lost' = lost \ {a}
       /\ UNCHANGED <<knownAddrs, bannedAddrs, ipBans>>

ReleaseFailed_Never(a) == connected
ReleaseFailed(a) == connected \ {a}

DialFails(s) ==
    /\ conn[s].pc = "dialing"
    /\ connected' = ReleaseFailed(conn[s].dialed)
    /\ conn' = [conn EXCEPT ![s] = FreeSlot]
    /\ UNCHANGED <<knownAddrs, bannedAddrs, ipBans, lost>>

DialSucceeds(s) ==
    /\ conn[s].pc = "dialing"
    /\ conn' = [conn EXCEPT ![s].pc = "start"]
    /\ UNCHANGED <<connected, knownAddrs, bannedAddrs, ipBans, lost>>

(***************************************************************************)
(* `connect`, for the addresses the operator gives: no check, the entry    *)
(* after the connection.                                                   *)
(***************************************************************************)
ConnectTo(s, r) ==
    /\ conn[s] = FreeSlot
    /\ knownAddrs' = Remember(ListenAt[r])
    /\ connected' = connected \cup {ListenAt[r]}
    /\ Begin(s, "start", r, ListenAt[r])
    /\ lost' = lost \ {ListenAt[r]}
    /\ UNCHANGED <<bannedAddrs, ipBans>>

Accept(s, r) ==
    /\ conn[s] = FreeSlot
    /\ Cardinality(Registered) < MAX_PEERS
    /\ Begin(s, "start", r, NoAddr)
    /\ UNCHANGED <<connected, knownAddrs, bannedAddrs, ipBans, lost>>

StartHandshake(s) ==
    /\ conn[s].pc = "start"
    /\ conn[s].remote \notin ipBans
    /\ conn' = [conn EXCEPT ![s].pc = "handshake"]
    /\ UNCHANGED <<connected, knownAddrs, bannedAddrs, ipBans, lost>>

(***************************************************************************)
(* The early returns of `handle_conn`: a banned remote, a failed handshake *)
(* or authentication, a full table.  None touches the reservation.         *)
(***************************************************************************)
Room(s) ==
    LET g == GroupOf[conn[s].remote]
    IN /\ Cardinality(Registered) < MAX_PEERS
       /\ g = "loopback" \/ Cardinality({t \in Registered : GroupOf[conn[t].remote] = g}) < MAX_PEERS_PER_GROUP

DropEarly(s) ==
    /\ conn[s].pc = "handshake" \/ (conn[s].pc = "start" /\ conn[s].remote \in ipBans)
    /\ conn' = [conn EXCEPT ![s] = FreeSlot]
    /\ lost' = lost \cup ({conn[s].dialed} \ {NoAddr})
    /\ UNCHANGED <<connected, knownAddrs, bannedAddrs, ipBans>>

Register(s) ==
    /\ conn[s].pc = "handshake"
    /\ conn[s].dialed # NoAddr => conn[s].remote \notin Pinned
    /\ Room(s)
    /\ conn' = [conn EXCEPT ![s].pc = "open"]
    /\ knownAddrs' = Remember(conn[s].dialed)
    /\ UNCHANGED <<connected, bannedAddrs, ipBans, lost>>

-----------------------------------------------------------------------------
(***************************************************************************)
(* `Message::Hello` of a compatible peer that says where it listens: the   *)
(* address replaces the dialed one in what the connection will release.    *)
(***************************************************************************)
OnHello(s, a) ==
    /\ conn[s].pc = "open"
    /\ a \in MayAdvertise[conn[s].remote]
    /\ knownAddrs' = Remember(a)
    /\ connected' = connected \cup {a}
    /\ conn' = [conn EXCEPT ![s].listen = a]
    /\ lost' = (lost \cup ({conn[s].listen} \ {NoAddr})) \ {a}
    /\ UNCHANGED <<bannedAddrs, ipBans>>

(***************************************************************************)
(* `Message::Addr`; the dials it leads to are those of Dial.               *)
(***************************************************************************)
OnAddr(s, a) ==
    /\ conn[s].pc = "open"
    /\ knownAddrs' = Remember(a)
    /\ UNCHANGED <<conn, connected, bannedAddrs, ipBans, lost>>

(***************************************************************************)
(* The end of a connection releases the address it knows by then.  It may  *)
(* be one that another connection uses as well.                            *)
(***************************************************************************)
Release(s) ==
    /\ conn' = [conn EXCEPT ![s] = FreeSlot]
    /\ connected' = connected \ {conn[s].listen}

CloseConn(s) ==
    /\ conn[s].pc = "open"
    /\ Release(s)
    /\ UNCHANGED <<knownAddrs, bannedAddrs, ipBans, lost>>

Ban(s) ==
    /\ conn[s].pc = "open"
    /\ Cardinality(ipBans) < MaxBans
    /\ bannedAddrs' = IF Cardinality(bannedAddrs) >= MAX_KNOWN_ADDRS THEN bannedAddrs
                      ELSE bannedAddrs \cup ({conn[s].listen} \ {NoAddr})
    /\ knownAddrs' = knownAddrs \ {conn[s].listen}
    /\ ipBans' = ipBans \cup {conn[s].remote}
    /\ Release(s)
    /\ UNCHANGED lost

IpBanExpires(r) ==
    /\ r \in ipBans
    /\ ipBans' = ipBans \ {r}
    /\ UNCHANGED <<conn, connected, knownAddrs, bannedAddrs, lost>>

PeersNext ==
    \/ \E s \in Slot, r \in Remote : Dial(s, r) \/ ConnectTo(s, r) \/ Accept(s, r)
    \/ \E s \in Slot : DialFails(s) \/ DialSucceeds(s) \/ StartHandshake(s) \/ DropEarly(s)
                       \/ Register(s) \/ CloseConn(s) \/ Ban(s)
    \/ \E s \in Slot, a \in Address : OnHello(s, a) \/ OnAddr(s, a)
    \/ \E r \in Remote : IpBanExpires(r)

PeersSpec == PeersInit /\ [][PeersNext]_peerVars

-----------------------------------------------------------------------------
(***************************************************************************)
(* An address that stays reserved without a connection, and so is never    *)
(* dialed again, got so in one of two ways and no other: its connection    *)
(* ended before it was registered, or its Hello named another address      *)
(* (`dial`, `handle_conn`).                                                *)
(***************************************************************************)
ReservationsExplained ==
    connected \subseteq lost \cup {conn[s].dialed : s \in LiveSlots} \cup {conn[s].listen : s \in LiveSlots}
=============================================================================
