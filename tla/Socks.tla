------------------------------- MODULE Socks --------------------------------
(***************************************************************************)
(* A dial, directly or through a SOCKS5 proxy.  The proxy answers the      *)
(* greeting and then the request, and after its answer the same stream     *)
(* carries the bytes of the peer, which may have come by the time that the *)
(* answer is read.  The proxy may refuse, break off or be something else;  *)
(* its answer has a part whose length depends on the kind of address in    *)
(* it (external: the proxy, RFC 1928).                                     *)
(*                                                                         *)
(* The bytes of addresses and ports, which nobody looks at, are 9, and the *)
(* bytes of the peer are 7.                                                *)
(* D_Xxx is D with the mistake Xxx, to see that a property notices it.     *)
(***************************************************************************)
EXTENDS Integers, Sequences

CONSTANTS
    UseProxy,    \* {TRUE, FALSE}: whether a dial has a proxy to go through
    Host,        \* hosts to dial: [kind |-> "ip4", "ip6" or "name", len |-> Nat]
    MaxName,     \* most bytes of a name (255)
    IP4, IP6,    \* bytes of an address (4 and 16)
    MaxPeerData  \* bound: bytes of the peer

ASSUME SocksAssumption == UseProxy \subseteq BOOLEAN /\ {MaxName, IP4, IP6} \subseteq Nat

VARIABLES
    dialer,   \* [pc, proxied, host, left]
    proxy,    \* [pc, asked]: what the proxy said, and what it was asked
    unread    \* bytes on the stream that the dialer has not read

socksVars == <<dialer, proxy, unread>>

SocksInit ==
    /\ dialer = [pc |-> "idle", proxied |-> FALSE, host |-> [kind |-> "none", len |-> 0], left |-> 0]
    /\ proxy = [pc |-> "closed", asked |-> {}, data |-> 0]
    /\ unread = <<>>

-----------------------------------------------------------------------------
DialerAt(pc) == dialer.pc = pc
Moves(pc) == dialer' = [dialer EXCEPT !.pc = pc]
Fails == Moves("failed")
Read(n) == unread' = SubSeq(unread, n + 1, Len(unread))

(***************************************************************************)
(* `dial_target`: with a proxy set there is no other way.                  *)
(***************************************************************************)
DialTarget ==
    /\ DialerAt("idle")
    /\ \E h \in Host, viaProxy \in UseProxy, up \in BOOLEAN :
          /\ dialer' = [dialer EXCEPT !.host = h, !.proxied = viaProxy,
                                      !.pc = IF ~up THEN "failed" ELSE IF viaProxy THEN "method" ELSE "open"]
          /\ proxy' = [proxy EXCEPT !.pc = IF ~up THEN "closed" ELSE IF viaProxy THEN "greeted" ELSE "relay"]
    /\ UNCHANGED unread

(***************************************************************************)
(* `build_socks5_connect_request`: a name longer than its length byte can  *)
(* say is refused.                                                         *)
(***************************************************************************)
Request(h) ==
    IF h.kind = "name" /\ h.len \notin 1..MaxName THEN {} ELSE {h}

(***************************************************************************)
(* `socks5_connect_timeout`, up to each `read_exact`.                      *)
(***************************************************************************)
ReadMethod ==
    /\ DialerAt("method")
    /\ Len(unread) >= 2
    /\ Read(2)
    /\ IF unread[1] # 5 \/ unread[2] # 0 \/ Request(dialer.host) = {}
       THEN Fails /\ UNCHANGED proxy
       ELSE /\ Moves("head")
            /\ proxy' = [proxy EXCEPT !.asked = Request(dialer.host)]

ReadHead ==
    /\ DialerAt("head")
    /\ Len(unread) >= 4
    /\ Read(4)
    /\ IF unread[1] # 5 \/ unread[2] # 0 \/ unread[4] \notin {1, 3, 4} THEN Fails
       ELSE dialer' = [dialer EXCEPT !.pc = IF unread[4] = 3 THEN "len" ELSE "rest",
                                     !.left = IF unread[4] = 1 THEN IP4 ELSE IP6]
    /\ UNCHANGED proxy

ReadLen ==
    /\ DialerAt("len")
    /\ Len(unread) >= 1
    /\ Read(1)
    /\ dialer' = [dialer EXCEPT !.pc = "rest", !.left = unread[1]]
    /\ UNCHANGED proxy

RestOf_AddressOnly(addr) == addr
RestOf(addr) == addr + 2

ReadRest ==
    /\ DialerAt("rest")
    /\ Len(unread) >= RestOf(dialer.left)
    /\ Read(RestOf(dialer.left))
    /\ Moves("open")
    /\ UNCHANGED proxy

(***************************************************************************)
(* A read that times out, or finds the stream at its end.                  *)
(***************************************************************************)
ReadBreaks ==
    /\ dialer.pc \in {"method", "head", "len", "rest"}
    /\ Fails
    /\ UNCHANGED <<proxy, unread>>

-----------------------------------------------------------------------------
(***************************************************************************)
(* The other side.                                                         *)
(***************************************************************************)
Says(bytes) == unread' = unread \o bytes
Marks(n) == [i \in 1..n |-> 9]

ProxyGreets ==
    /\ proxy.pc = "greeted"
    /\ \E version \in {4, 5}, method \in {0, 255} : Says(<<version, method>>)
    /\ proxy' = [proxy EXCEPT !.pc = "asked"]
    /\ UNCHANGED dialer

ProxyGrants ==
    /\ proxy.pc = "asked" /\ proxy.asked # {}
    /\ \/ Says(<<5, 0, 0, 1>> \o Marks(IP4 + 2))
       \/ Says(<<5, 0, 0, 4>> \o Marks(IP6 + 2))
       \/ \E n \in 0..MaxName : Says(<<5, 0, 0, 3, n>> \o Marks(n + 2))
    /\ proxy' = [proxy EXCEPT !.pc = "relay"]
    /\ UNCHANGED dialer

ProxyRefuses ==
    /\ proxy.pc = "asked" /\ proxy.asked # {}
    /\ \E head \in {<<5, 1, 0, 1>>, <<4, 0, 0, 1>>, <<5, 0, 0, 2>>} : Says(head)
    /\ proxy' = [proxy EXCEPT !.pc = "closed"]
    /\ UNCHANGED dialer

PeerSends ==
    /\ proxy.pc = "relay"
    /\ proxy.data < MaxPeerData
    /\ proxy' = [proxy EXCEPT !.data = @ + 1]
    /\ Says(<<7>>)
    /\ UNCHANGED dialer

SocksNext ==
    \/ DialTarget \/ ReadMethod \/ ReadHead \/ ReadLen \/ ReadRest \/ ReadBreaks
    \/ ProxyGreets \/ ProxyGrants \/ ProxyRefuses \/ PeerSends

SocksSpec == SocksInit /\ [][SocksNext]_socksVars

-----------------------------------------------------------------------------
(***************************************************************************)
(* Whatever the proxy's answer looks like and however much of the peer's   *)
(* data is behind it, the dialer hands on a stream that starts with the    *)
(* peer's first byte, from a proxy that granted the very host it was to    *)
(* dial (`socks5_connect_timeout`: "leave the stream at the start of the   *)
(* actual proxied data").                                                  *)
(***************************************************************************)
StreamStartsAtPeer ==
    DialerAt("open") =>
        /\ proxy.pc = "relay"
        /\ dialer.proxied => proxy.asked = {dialer.host}
        /\ unread = [i \in 1..proxy.data |-> 7]
=============================================================================
