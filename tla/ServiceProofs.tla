--------------------------- MODULE ServiceProofs ----------------------------
(***************************************************************************)
(* Proofs about the services of a node: its HTTP server, the pool endpoint *)
(* and the dialer, for any number of connections, workers and bytes; about *)
(* the limits that it puts on those who talk to it, for any limits,        *)
(* windows and lengths of bans; and about the address manager, the         *)
(* signalling for upgrades and the estimates of fees.                      *)
(***************************************************************************)
EXTENDS HttpServer, Stratum, Socks, RateLimit, PeerBudget, AddrMan, VersionBits, FeeHistory, Inductions,
        FiniteSetTheorems, SequenceTheorems, TLAPS

-----------------------------------------------------------------------------
(***************************************************************************)
(* HttpServer: the counters are the numbers of the threads that run and of *)
(* those that hold a stream.  SlotsAccounted alone is not inductive: that  *)
(* the exchange stays within the limit needs that the value it compares    *)
(* with was below the limit when it was read.                              *)
(***************************************************************************)
HttpPc == {"read", "limit", "guard", "serve", "load", "exchange", "stream", "release", "done"}

HttpThread ==
    [pc : HttpPc, req : HttpRequest, buf : Int, eof : BOOLEAN, seen : Nat]

Running == {c \in HttpConn : ~InState(c, "closed")}
Streaming == {c \in HttpConn : conn[c].pc \in {"stream", "release"}}

HttpType ==
    /\ conn = [c \in HttpConn |-> conn[c]]
    /\ \A c \in HttpConn : conn[c] = Closed \/ conn[c] \in HttpThread

SeenBelowLimit == \A c \in HttpConn : conn[c].pc = "exchange" => conn[c].seen < MAX_SSE_STREAMS

HttpInv == HttpType /\ SeenBelowLimit /\ IsFiniteSet(Running) /\ SlotsAccounted

LEMMA SlotsAreCounted ==
    SlotsAccounted <=> /\ activeConns = Cardinality(Running) /\ activeConns <= MAX_API_CONNECTIONS
                       /\ sseStreams = Cardinality(Streaming) /\ sseStreams <= MAX_SSE_STREAMS
  BY DEF SlotsAccounted, Running, Streaming

LEMMA SlotsCountedThen ==
    SlotsAccounted' <=> /\ activeConns' = Cardinality(Running') /\ activeConns' <= MAX_API_CONNECTIONS
                        /\ sseStreams' = Cardinality(Streaming') /\ sseStreams' <= MAX_SSE_STREAMS
  BY DEF SlotsAccounted, Running, Streaming

Changed(t, pc, n) == [t EXCEPT !.pc = pc, !.seen = n]

LEMMA ThreadWith ==
    ASSUME NEW t \in HttpThread, NEW pc \in HttpPc, NEW n \in Nat
    PROVE  /\ Changed(t, pc, n) \in HttpThread
           /\ Changed(t, pc, n).pc = pc /\ Changed(t, pc, n).seen = n
  BY DEF HttpThread, Changed

LEMMA ThreadOrClosed ==
    ASSUME HttpInv, NEW c \in HttpConn, conn[c].pc # "closed"
    PROVE  conn[c] \in HttpThread
  BY DEF HttpInv, HttpType, Closed

LEMMA HttpInitInv == HttpInit => HttpInv
  <1> SUFFICES ASSUME HttpInit PROVE HttpInv
    OBVIOUS
  <1>1. HttpType /\ SeenBelowLimit
    BY DEF HttpInit, HttpType, SeenBelowLimit, Closed
  <1>2. Running = {} /\ Streaming = {}
    BY DEF HttpInit, Running, Streaming, InState, Closed
  <1> QED BY <1>1, <1>2, FS_EmptySet, HttpAssumption
          DEF HttpInv, SlotsAccounted, HttpInit, Running, Streaming

(***************************************************************************)
(* A step that changes the thread of c, and of no other connection.        *)
(***************************************************************************)
OnlyThread(c) ==
    /\ conn' = [d \in HttpConn |-> conn'[d]]
    /\ \A d \in HttpConn : d # c => conn'[d] = conn[d]
    /\ conn'[c] = Closed \/ conn'[c] \in HttpThread
    /\ conn'[c].pc = "exchange" => conn'[c].seen < MAX_SSE_STREAMS

LEMMA HttpThreadTypes ==
    ASSUME HttpInv, NEW c \in HttpConn, OnlyThread(c)
    PROVE  HttpType' /\ SeenBelowLimit'
  BY DEF HttpInv, HttpType, SeenBelowLimit, OnlyThread

(***************************************************************************)
(* The thread goes on: no counter changes.                                 *)
(***************************************************************************)
LEMMA ThreadGoesOn ==
    ASSUME HttpInv, NEW c \in HttpConn, OnlyThread(c),
           conn[c].pc # "closed", conn'[c].pc # "closed",
           conn[c].pc \in {"stream", "release"} <=> conn'[c].pc \in {"stream", "release"},
           UNCHANGED <<activeConns, sseStreams>>
    PROVE  HttpInv'
  <1>1. Running' = Running /\ Streaming' = Streaming
    BY DEF Running, Streaming, InState, OnlyThread
  <1> QED BY <1>1, HttpThreadTypes DEF HttpInv, SlotsAccounted, Running, Streaming

LEMMA StreamingFinite ==
    ASSUME HttpInv PROVE IsFiniteSet(Streaming)
  <1>1. Streaming \subseteq Running
    BY DEF Streaming, Running, InState
  <1> QED BY <1>1, FS_Subset DEF HttpInv

LEMMA AcceptKeeps ==
    ASSUME HttpInv, NEW c \in HttpConn, NEW r \in HttpRequest, Accept(c, r)
    PROVE  HttpInv'
  <1>0. conn'[c] = [pc |-> "read", req |-> r, buf |-> 0, eof |-> FALSE, seen |-> 0]
    BY DEF Accept, HttpInv, HttpType
  <1>a. conn'[c] \in HttpThread
    BY <1>0 DEF HttpThread, HttpPc
  <1>1. OnlyThread(c) /\ conn[c].pc = "closed" /\ conn'[c].pc = "read"
    BY <1>0, <1>a DEF Accept, InState, HttpInv, HttpType, OnlyThread
  <1>2. Running' = Running \cup {c} /\ c \notin Running /\ Streaming' = Streaming
    BY <1>1 DEF Running, Streaming, InState, OnlyThread
  <1>3. IsFiniteSet(Running') /\ Cardinality(Running') = Cardinality(Running) + 1
    BY <1>2, FS_AddElement DEF HttpInv
  <1>4. activeConns \in Nat /\ MAX_API_CONNECTIONS \in Nat
    BY FS_CardinalityType, HttpAssumption DEF HttpInv, SlotsAccounted, Running
  <1> QED BY <1>1, <1>2, <1>3, <1>4, HttpThreadTypes, SlotsAreCounted, SlotsCountedThen
          DEF HttpInv, Accept

LEMMA EndThreadKeeps ==
    ASSUME HttpInv, NEW c \in HttpConn, EndThread(c)
    PROVE  HttpInv'
  <1>1. OnlyThread(c) /\ conn[c].pc = "done" /\ conn'[c].pc = "closed"
    BY DEF EndThread, InState, HttpInv, HttpType, OnlyThread, HttpThread, Closed
  <1>2. Running' = Running \ {c} /\ c \in Running /\ Streaming' = Streaming
    BY <1>1 DEF Running, Streaming, InState, OnlyThread
  <1>3. IsFiniteSet(Running') /\ Cardinality(Running') = Cardinality(Running) - 1
    BY <1>2, FS_RemoveElement DEF HttpInv
  <1>4. activeConns \in Nat /\ MAX_API_CONNECTIONS \in Nat
    BY FS_CardinalityType, HttpAssumption DEF HttpInv, SlotsAccounted, Running
  <1> QED BY <1>1, <1>2, <1>3, <1>4, HttpThreadTypes, SlotsAreCounted, SlotsCountedThen
          DEF HttpInv, EndThread

(***************************************************************************)
(* The exchange takes a slot only if the counter is still what was read,   *)
(* and what was read was below the limit.                                  *)
(***************************************************************************)
LEMMA ExchangeKeeps ==
    ASSUME HttpInv, NEW c \in HttpConn, Exchange(c)
    PROVE  HttpInv'
  <1>0. conn[c] \in HttpThread /\ conn[c].pc = "exchange"
    BY ThreadOrClosed DEF Exchange, InState
  <1>1. CASE /\ Exchanges(conn[c].seen)
             /\ sseStreams' = conn[c].seen + 1
             /\ conn' = [conn EXCEPT ![c].pc = "stream", ![c].seen = 0]
    <2>1. conn'[c] = Changed(conn[c], "stream", 0)
      BY <1>1 DEF Changed, HttpInv, HttpType
    <2>2. conn'[c] \in HttpThread /\ conn'[c].pc = "stream"
      <3>1. 0 \in Nat /\ "stream" \in HttpPc /\ "load" \in HttpPc
        BY DEF HttpPc
      <3> QED BY <1>0, <2>1, <3>1, ThreadWith
    <2>3. OnlyThread(c)
      BY <1>1, <2>2 DEF HttpInv, HttpType, OnlyThread
    <2>4. Running' = Running /\ Streaming' = Streaming \cup {c} /\ c \notin Streaming
      BY <1>0, <2>2, <2>3 DEF Running, Streaming, InState, OnlyThread
    <2>5. Cardinality(Streaming') = Cardinality(Streaming) + 1
      BY <2>4, StreamingFinite, FS_AddElement
    <2>6. sseStreams' = sseStreams + 1 /\ sseStreams < MAX_SSE_STREAMS
      BY <1>0, <1>1 DEF Exchanges, HttpInv, SeenBelowLimit
    <2>7. sseStreams \in Nat /\ MAX_SSE_STREAMS \in Nat
      BY StreamingFinite, FS_CardinalityType, HttpAssumption DEF HttpInv, SlotsAccounted, Streaming
    <2> QED BY <2>3, <2>4, <2>5, <2>6, <2>7, HttpThreadTypes, SlotsAreCounted, SlotsCountedThen
            DEF HttpInv, Exchange
  <1>2. CASE /\ conn' = [conn EXCEPT ![c].pc = "load", ![c].seen = 0]
             /\ UNCHANGED sseStreams
    <2>1. conn'[c] = Changed(conn[c], "load", 0)
      BY <1>2 DEF Changed, HttpInv, HttpType
    <2>2. conn'[c] \in HttpThread /\ conn'[c].pc = "load"
      <3>1. 0 \in Nat /\ "stream" \in HttpPc /\ "load" \in HttpPc
        BY DEF HttpPc
      <3> QED BY <1>0, <2>1, <3>1, ThreadWith
    <2>3. OnlyThread(c)
      BY <1>2, <2>2 DEF HttpInv, HttpType, OnlyThread
    <2> QED BY <1>0, <1>2, <2>2, <2>3, ThreadGoesOn DEF Exchange
  <1> QED BY <1>1, <1>2 DEF Exchange

LEMMA ReleaseSlotKeeps ==
    ASSUME HttpInv, NEW c \in HttpConn, ReleaseSlot(c)
    PROVE  HttpInv'
  <1>0. conn[c] \in HttpThread /\ conn[c].pc = "release"
    BY ThreadOrClosed DEF ReleaseSlot, InState
  <1>1. conn'[c] = [conn[c] EXCEPT !.pc = "done"]
    BY DEF ReleaseSlot, Becomes, HttpInv, HttpType
  <1>2. conn'[c] \in HttpThread /\ conn'[c].pc = "done"
    BY <1>0, <1>1 DEF HttpThread, HttpPc
  <1>3. OnlyThread(c)
    BY <1>2 DEF ReleaseSlot, Becomes, HttpInv, HttpType, OnlyThread
  <1>4. Running' = Running /\ Streaming' = Streaming \ {c} /\ c \in Streaming
    BY <1>0, <1>2, <1>3 DEF Running, Streaming, InState, OnlyThread
  <1>5. Cardinality(Streaming') = Cardinality(Streaming) - 1
    BY <1>4, StreamingFinite, FS_RemoveElement
  <1>6. sseStreams \in Nat /\ MAX_SSE_STREAMS \in Nat
    BY StreamingFinite, FS_CardinalityType, HttpAssumption DEF HttpInv, SlotsAccounted, Streaming
  <1> QED BY <1>3, <1>4, <1>5, <1>6, HttpThreadTypes, SlotsAreCounted, SlotsCountedThen
          DEF HttpInv, ReleaseSlot

(***************************************************************************)
(* The other steps of a thread move its pc, and not into or out of the     *)
(* states that hold a slot.                                                *)
(***************************************************************************)
Quiet == {"read", "limit", "guard", "serve", "load", "done"}

LEMMA BecomesKeeps ==
    ASSUME HttpInv, NEW c \in HttpConn, NEW pc, Becomes(c, pc),
           \/ conn[c].pc \in Quiet /\ pc \in Quiet
           \/ conn[c].pc = "stream" /\ pc = "release",
           UNCHANGED <<activeConns, sseStreams>>
    PROVE  HttpInv'
  <1>0. conn[c] \in HttpThread
    BY ThreadOrClosed DEF Quiet
  <1>1. conn'[c] = [conn[c] EXCEPT !.pc = pc]
    BY DEF Becomes, HttpInv, HttpType
  <1>2. conn'[c] \in HttpThread /\ conn'[c].pc = pc
    BY <1>0, <1>1 DEF HttpThread, HttpPc, Quiet
  <1>3. OnlyThread(c)
    BY <1>2 DEF Becomes, HttpInv, HttpType, OnlyThread, Quiet
  <1> QED BY <1>2, <1>3, ThreadGoesOn DEF Quiet

LEMMA ReadKeeps ==
    ASSUME HttpInv, NEW c \in HttpConn, (\E n \in 1..CHUNK : ReadChunk(c, n)) \/ ReadEof(c)
    PROVE  HttpInv'
  <1>0. conn[c] \in HttpThread /\ conn[c].pc = "read"
    BY ThreadOrClosed DEF ReadChunk, ReadEof, InState
  <1>1. conn'[c] \in HttpThread /\ conn'[c].pc \in Quiet
    <2>1. ASSUME NEW n \in 1..CHUNK, ReadChunk(c, n) PROVE conn'[c] \in HttpThread /\ conn'[c].pc \in Quiet
      <3>1. PICK pc \in Quiet : conn'[c] = [conn[c] EXCEPT !.buf = conn[c].buf + n, !.pc = pc]
        BY <2>1 DEF ReadChunk, HttpInv, HttpType, Quiet
      <3>2. conn[c].buf + n \in Int
        BY <1>0, HttpAssumption DEF HttpThread
      <3> QED BY <1>0, <3>1, <3>2 DEF HttpThread, HttpPc, Quiet
    <2>2. ASSUME ReadEof(c) PROVE conn'[c] \in HttpThread /\ conn'[c].pc \in Quiet
      <3>1. PICK pc \in Quiet : conn'[c] = [conn[c] EXCEPT !.eof = TRUE, !.pc = pc]
        BY <2>2 DEF ReadEof, HttpInv, HttpType, Quiet
      <3> QED BY <1>0, <3>1 DEF HttpThread, HttpPc, Quiet
    <2> QED BY <2>1, <2>2
  <1>2. OnlyThread(c)
    BY <1>1 DEF ReadChunk, ReadEof, HttpInv, HttpType, OnlyThread, Quiet
  <1>3. UNCHANGED <<activeConns, sseStreams>>
    BY DEF ReadChunk, ReadEof
  <1> QED BY <1>0, <1>1, <1>2, <1>3, ThreadGoesOn DEF Quiet

LEMMA LoadSlotsKeeps ==
    ASSUME HttpInv, NEW c \in HttpConn, LoadSlots(c)
    PROVE  HttpInv'
  <1>0. conn[c] \in HttpThread /\ conn[c].pc = "load"
    BY ThreadOrClosed DEF LoadSlots, InState
  <1>1. CASE sseStreams >= MAX_SSE_STREAMS
    BY <1>0, <1>1, BecomesKeeps DEF LoadSlots, Quiet
  <1>2. CASE ~(sseStreams >= MAX_SSE_STREAMS)
    <2>0. sseStreams \in Nat /\ sseStreams < MAX_SSE_STREAMS
      BY <1>2, StreamingFinite, FS_CardinalityType, HttpAssumption DEF HttpInv, SlotsAccounted, Streaming
    <2>1. conn'[c] = Changed(conn[c], "exchange", sseStreams)
      BY <1>2 DEF Changed, LoadSlots, HttpInv, HttpType
    <2>2. conn'[c] \in HttpThread /\ conn'[c].pc = "exchange" /\ conn'[c].seen < MAX_SSE_STREAMS
      <3>1. "exchange" \in HttpPc
        BY DEF HttpPc
      <3> QED BY <1>0, <2>0, <2>1, <3>1, ThreadWith
    <2>3. OnlyThread(c)
      BY <1>2, <2>2 DEF LoadSlots, HttpInv, HttpType, OnlyThread
    <2> QED BY <1>0, <2>2, <2>3, ThreadGoesOn DEF LoadSlots
  <1> QED BY <1>1, <1>2

(***************************************************************************)
(* Over every behaviour of the HTTP server, with any number of sockets and *)
(* any limits, its two counters are what they count and stay within their  *)
(* limits (`start_api_server`, `acquire_sse_slot`).                        *)
(***************************************************************************)
THEOREM CountersAccounted == HttpSpec => []SlotsAccounted
  <1>1. HttpInv /\ [HttpNext]_httpVars => HttpInv'
    <2> SUFFICES ASSUME HttpInv, [HttpNext]_httpVars PROVE HttpInv'
      OBVIOUS
    <2>1. CASE UNCHANGED httpVars
      BY <2>1 DEF httpVars, HttpInv, HttpType, SeenBelowLimit, SlotsAccounted, Running, InState
    <2>2. ASSUME NEW c \in HttpConn,
                 ReadTimeout(c) \/ Limit(c) \/ Guard(c) \/ ServePage(c) \/ ServeRead(c) \/ SubmitWrite(c)
                 \/ EndStream(c)
          PROVE  HttpInv'
      <3>1. /\ UNCHANGED <<activeConns, sseStreams>>
            /\ \E pc : /\ Becomes(c, pc)
                       /\ \/ conn[c].pc \in Quiet /\ pc \in Quiet
                          \/ conn[c].pc = "stream" /\ pc = "release"
        BY <2>2 DEF ReadTimeout, Limit, Guard, ServePage, ServeRead, SubmitWrite, EndStream, InState, Quiet
      <3> QED BY <3>1, BecomesKeeps
    <2> QED BY <2>1, <2>2, AcceptKeeps, ReadKeeps, LoadSlotsKeeps, ExchangeKeeps, ReleaseSlotKeeps, EndThreadKeeps
            DEF HttpNext
  <1>2. HttpInv => SlotsAccounted
    BY DEF HttpInv
  <1> QED BY HttpInitInv, <1>1, <1>2, PTL DEF HttpSpec

-----------------------------------------------------------------------------
(***************************************************************************)
(* Socks: at each step of the dialer, how many bytes of the proxy are      *)
(* before the first byte of the peer.  The invariant is StreamStartsAtPeer *)
(* moved back along the answer: the bytes left to read are those of the    *)
(* answer, exactly.                                                        *)
(***************************************************************************)
PeerAfter(k) ==
    /\ Len(unread) = k + proxy.data
    /\ \A i \in k + 1 .. k + proxy.data : unread[i] = 7

GrantedHead ==
    \/ unread[4] = 1 /\ PeerAfter(4 + (IP4 + 2))
    \/ unread[4] = 4 /\ PeerAfter(4 + (IP6 + 2))
    \/ unread[4] = 3 /\ unread[5] \in Nat /\ PeerAfter(5 + (unread[5] + 2))

RefusedHead == Len(unread) = 4 /\ (unread[1] # 5 \/ unread[2] # 0 \/ unread[4] \notin {1, 3, 4})

NoAnswerYet == unread = <<>> /\ proxy.data = 0

DialerRecord ==
    [pc : {"idle", "method", "head", "len", "rest", "open", "failed"}, proxied : BOOLEAN,
     host : Host \cup {[kind |-> "none", len |-> 0]}, left : Nat]

ProxyRecord ==
    [pc : {"closed", "greeted", "asked", "relay"}, asked : SUBSET Host, data : Nat]

SocksType == dialer \in DialerRecord /\ proxy \in ProxyRecord /\ unread \in Seq(Nat)

ProxyRelays == proxy.pc = "relay" /\ proxy.asked = {dialer.host}

Answer ==
    /\ dialer.pc = "idle" => proxy.pc = "closed" /\ proxy.asked = {} /\ NoAnswerYet
    /\ dialer.pc = "method" => /\ proxy.asked = {} /\ proxy.data = 0
                               /\ dialer.host \in Host
                               /\ \/ proxy.pc = "greeted" /\ unread = <<>>
                                  \/ proxy.pc = "asked" /\ Len(unread) = 2
    /\ dialer.pc = "head" => /\ proxy.asked = {dialer.host}
                             /\ \/ proxy.pc = "asked" /\ NoAnswerYet
                                \/ proxy.pc = "closed" /\ RefusedHead
                                \/ proxy.pc = "relay" /\ GrantedHead
    /\ dialer.pc = "len" => ProxyRelays /\ unread[1] \in Nat /\ PeerAfter(1 + (unread[1] + 2))
    /\ dialer.pc = "rest" => ProxyRelays /\ PeerAfter(dialer.left + 2)
    /\ dialer.pc = "open" => /\ proxy.pc = "relay"
                             /\ dialer.proxied => proxy.asked = {dialer.host}
                             /\ PeerAfter(0)

SocksInv == SocksType /\ Answer

LEMMA SocksInitInv == SocksInit => SocksInv
  BY DEF SocksInit, SocksInv, SocksType, Answer, DialerRecord, ProxyRecord, NoAnswerYet

LEMMA SocksInvStarts == SocksInv => StreamStartsAtPeer
  <1> SUFFICES ASSUME SocksInv, dialer.pc = "open" PROVE StreamStartsAtPeer
    BY DEF StreamStartsAtPeer, DialerAt
  <1>1. PeerAfter(0) /\ proxy.data \in Nat /\ unread \in Seq(Nat)
    BY DEF SocksInv, Answer, SocksType, ProxyRecord
  <1>2. Len(unread) = proxy.data /\ \A i \in 1..proxy.data : unread[i] = 7
    BY <1>1 DEF PeerAfter
  <1>3. unread = [i \in 1..proxy.data |-> 7]
    BY <1>1, <1>2
  <1> QED BY <1>3 DEF StreamStartsAtPeer, SocksInv, Answer

(***************************************************************************)
(* What reading n bytes leaves, and what more bytes add.                   *)
(***************************************************************************)
LEMMA ReadLeaves ==
    ASSUME NEW s \in Seq(Nat), NEW n \in Nat, n <= Len(s), NEW t, t = SubSeq(s, n + 1, Len(s))
    PROVE  /\ t \in Seq(Nat)
           /\ Len(t) = Len(s) - n
           /\ \A i \in 1 .. Len(s) - n : t[i] = s[n + i]
  BY SubSeqProperties, SMTT(30)

LEMMA ReadLeft ==
    ASSUME SocksType, NEW n \in Nat, Read(n), n <= Len(unread)
    PROVE  /\ unread' \in Seq(Nat)
           /\ Len(unread') = Len(unread) - n
           /\ \A i \in 1 .. Len(unread) - n : unread'[i] = unread[n + i]
  BY ReadLeaves DEF SocksType, Read

LEMMA ReadMovesPeer ==
    ASSUME SocksType, NEW n \in Nat, NEW k \in Nat, Read(n), PeerAfter(n + k), UNCHANGED proxy
    PROVE  PeerAfter(k)' /\ unread' \in Seq(Nat)
  <1>1. n <= Len(unread) /\ proxy.data \in Nat
    BY DEF PeerAfter, SocksType, ProxyRecord
  <1>2. /\ unread' \in Seq(Nat)
        /\ Len(unread') = Len(unread) - n
        /\ \A i \in 1 .. Len(unread) - n : unread'[i] = unread[n + i]
    BY <1>1, ReadLeaves DEF SocksType, Read
  <1>3. Len(unread') = k + proxy'.data
    BY <1>1, <1>2 DEF PeerAfter
  <1>4. ASSUME NEW i \in k + 1 .. k + proxy'.data PROVE unread'[i] = 7
    <2>1. n + i \in (n + k) + 1 .. (n + k) + proxy.data /\ i \in 1 .. Len(unread) - n
      BY <1>1 DEF PeerAfter
    <2> QED BY <1>2, <2>1 DEF PeerAfter
  <1> QED BY <1>2, <1>3, <1>4 DEF PeerAfter

LEMMA SaysAdds ==
    ASSUME SocksType, NEW b \in Seq(Nat), Says(b)
    PROVE  /\ unread' \in Seq(Nat)
           /\ Len(unread') = Len(unread) + Len(b)
           /\ \A i \in 1..Len(unread) : unread'[i] = unread[i]
           /\ \A i \in 1..Len(b) : unread'[Len(unread) + i] = b[i]
  BY ConcatProperties DEF SocksType, Says

-----------------------------------------------------------------------------
(***************************************************************************)
(* The steps of the dialer.                                                *)
(***************************************************************************)
LEMMA DialerRead ==
    ASSUME SocksType, NEW pc \in {"method", "head", "len", "rest", "open", "failed"}, Moves(pc)
    PROVE  /\ dialer' \in DialerRecord /\ dialer'.pc = pc
           /\ dialer'.host = dialer.host /\ dialer'.proxied = dialer.proxied /\ dialer'.left = dialer.left
  BY DEF SocksType, DialerRecord, Moves

LEMMA FailureKeeps ==
    ASSUME SocksInv, Fails, proxy' \in ProxyRecord, unread' \in Seq(Nat)
    PROVE  SocksInv'
  BY DialerRead DEF SocksInv, SocksType, Answer, Fails

LEMMA DialTargetKeeps == ASSUME SocksInv, DialTarget PROVE SocksInv'
  <1>1. PICK h \in Host, viaProxy \in UseProxy, up \in BOOLEAN :
          /\ dialer' = [dialer EXCEPT !.host = h, !.proxied = viaProxy,
                                      !.pc = IF ~up THEN "failed" ELSE IF viaProxy THEN "method" ELSE "open"]
          /\ proxy' = [proxy EXCEPT !.pc = IF ~up THEN "closed" ELSE IF viaProxy THEN "greeted" ELSE "relay"]
    BY DEF DialTarget
  <1>2. viaProxy \in BOOLEAN
    BY SocksAssumption
  <1>3. /\ dialer' \in DialerRecord /\ dialer'.host = h /\ dialer'.proxied = viaProxy
        /\ dialer'.pc = IF ~up THEN "failed" ELSE IF viaProxy THEN "method" ELSE "open"
    BY <1>1, <1>2 DEF SocksInv, SocksType, DialerRecord
  <1>4. /\ proxy' \in ProxyRecord /\ proxy'.asked = {} /\ proxy'.data = 0
        /\ proxy'.pc = IF ~up THEN "closed" ELSE IF viaProxy THEN "greeted" ELSE "relay"
    BY <1>1 DEF SocksInv, SocksType, ProxyRecord, Answer, DialTarget, DialerAt, NoAnswerYet
  <1>5. unread' = <<>>
    BY DEF SocksInv, Answer, DialTarget, DialerAt, NoAnswerYet
  <1> QED BY <1>2, <1>3, <1>4, <1>5 DEF SocksInv, SocksType, Answer, PeerAfter

LEMMA ReadMethodKeeps == ASSUME SocksInv, ReadMethod PROVE SocksInv'
  <1>0. /\ dialer.pc = "method" /\ Len(unread) = 2 /\ SocksType
        /\ proxy.pc = "asked" /\ proxy.data = 0 /\ dialer.host \in Host
    BY DEF SocksInv, Answer, ReadMethod, DialerAt
  <1>1. unread' \in Seq(Nat) /\ Len(unread') = 0
    BY <1>0, ReadLeaves DEF ReadMethod, Read, SocksType
  <1>2. unread' = <<>>
    BY <1>1, EmptySeq
  <1>3. CASE Fails /\ UNCHANGED proxy
    BY <1>0, <1>1, <1>3, FailureKeeps DEF SocksType
  <1>4. CASE /\ Request(dialer.host) # {} /\ Moves("head")
             /\ proxy' = [proxy EXCEPT !.asked = Request(dialer.host)]
    <2>1. Request(dialer.host) = {dialer.host}
      BY <1>4 DEF Request
    <2>2. /\ proxy' \in ProxyRecord /\ proxy'.asked = {dialer.host}
          /\ proxy'.pc = "asked" /\ proxy'.data = 0
      BY <1>0, <1>4, <2>1 DEF SocksType, ProxyRecord
    <2>3. dialer' \in DialerRecord /\ dialer'.pc = "head" /\ dialer'.host = dialer.host
      BY <1>0, <1>4, DialerRead
    <2> QED BY <1>1, <1>2, <2>2, <2>3 DEF SocksInv, SocksType, Answer, NoAnswerYet
  <1> QED BY <1>3, <1>4 DEF ReadMethod

LEMMA ReadHeadKeeps == ASSUME SocksInv, ReadHead PROVE SocksInv'
  <1>0. dialer.pc = "head" /\ Len(unread) >= 4 /\ SocksType /\ proxy' = proxy /\ proxy.asked = {dialer.host}
    BY DEF SocksInv, Answer, ReadHead, DialerAt
  <1>1. /\ unread' \in Seq(Nat)
        /\ Len(unread') = Len(unread) - 4
        /\ \A i \in 1 .. Len(unread) - 4 : unread'[i] = unread[4 + i]
    <2>1. 4 \in Nat /\ 4 <= Len(unread) /\ Read(4)
      BY <1>0 DEF ReadHead
    <2> QED BY <1>0, <2>1, ReadLeft
  <1>2. CASE Fails
    BY <1>0, <1>1, <1>2, FailureKeeps DEF SocksType
  <1>3. CASE /\ ~(unread[1] # 5 \/ unread[2] # 0 \/ unread[4] \notin {1, 3, 4})
             /\ dialer' = [dialer EXCEPT !.pc = IF unread[4] = 3 THEN "len" ELSE "rest",
                                         !.left = IF unread[4] = 1 THEN IP4 ELSE IP6]
    <2>1. proxy.pc = "relay" /\ GrantedHead
      BY <1>0, <1>3 DEF SocksInv, Answer, NoAnswerYet, RefusedHead
    <2>2. /\ dialer' \in DialerRecord /\ dialer'.host = dialer.host
          /\ dialer'.pc = IF unread[4] = 3 THEN "len" ELSE "rest"
          /\ dialer'.left = IF unread[4] = 1 THEN IP4 ELSE IP6
      BY <1>0, <1>3, SocksAssumption DEF SocksType, DialerRecord
    <2>3. CASE unread[4] = 3
      <3>1. PICK n \in Nat : n = unread[5] /\ PeerAfter(5 + (n + 2))
        BY <2>1, <2>3 DEF GrantedHead
      <3>2. unread'[1] = n
        <4>1. 1 \in 1 .. Len(unread) - 4
          BY <1>0, <3>1, SMTT(30) DEF PeerAfter, SocksType, ProxyRecord
        <4> QED BY <1>1, <3>1, <4>1
      <3>3. PeerAfter(1 + (n + 2))'
        <4>1. 5 + (n + 2) = 4 + (1 + (n + 2)) /\ 1 + (n + 2) \in Nat /\ 4 \in Nat
          BY <3>1
        <4>2. PeerAfter(4 + (1 + (n + 2)))
          BY <3>1, <4>1
        <4> QED BY <1>0, <4>1, <4>2, ReadMovesPeer DEF ReadHead
      <3>4. ProxyRelays'
        BY <1>0, <2>1, <2>2 DEF ProxyRelays
      <3> QED BY <1>0, <1>1, <2>2, <2>3, <3>2, <3>3, <3>4 DEF SocksInv, SocksType, Answer, PeerAfter
    <2>4. CASE unread[4] # 3
      <3>1. PICK k \in Nat : k = dialer'.left /\ PeerAfter(4 + (k + 2))
        BY <1>3, <2>1, <2>2, <2>4, SocksAssumption DEF GrantedHead
      <3>2. PeerAfter(k + 2)'
        BY <1>0, <3>1, ReadMovesPeer DEF ReadHead
      <3>3. ProxyRelays'
        BY <1>0, <2>1, <2>2 DEF ProxyRelays
      <3> QED BY <1>0, <1>1, <2>2, <2>4, <3>1, <3>2, <3>3 DEF SocksInv, SocksType, Answer, PeerAfter
    <2> QED BY <2>3, <2>4
  <1> QED BY <1>2, <1>3 DEF ReadHead

LEMMA ReadLenKeeps == ASSUME SocksInv, ReadLen PROVE SocksInv'
  <1>0. dialer.pc = "len" /\ SocksType /\ proxy' = proxy /\ ProxyRelays
    BY DEF SocksInv, Answer, ReadLen, DialerAt
  <1>1. PICK n \in Nat : n = unread[1] /\ PeerAfter(1 + (n + 2))
    BY <1>0 DEF SocksInv, Answer
  <1>2. dialer' \in DialerRecord /\ dialer'.host = dialer.host /\ dialer'.pc = "rest" /\ dialer'.left = n
    BY <1>0, <1>1 DEF ReadLen, SocksType, DialerRecord
  <1>3. PeerAfter(n + 2)' /\ unread' \in Seq(Nat)
    BY <1>0, <1>1, ReadMovesPeer DEF ReadLen
  <1>4. ProxyRelays'
    BY <1>0, <1>2 DEF ProxyRelays
  <1> QED BY <1>0, <1>2, <1>3, <1>4 DEF SocksInv, SocksType, Answer, PeerAfter

LEMMA ReadRestKeeps == ASSUME SocksInv, ReadRest PROVE SocksInv'
  <1>0. dialer.pc = "rest" /\ SocksType /\ proxy' = proxy /\ ProxyRelays
    BY DEF SocksInv, Answer, ReadRest, DialerAt
  <1>1. PICK n \in Nat : n = dialer.left + 2 /\ PeerAfter(n)
    BY <1>0 DEF SocksInv, Answer, SocksType, DialerRecord
  <1>2. dialer' \in DialerRecord /\ dialer'.host = dialer.host /\ dialer'.pc = "open"
    BY <1>0, DialerRead DEF ReadRest
  <1>3. PeerAfter(0)' /\ unread' \in Seq(Nat)
    <2>1. Read(n) /\ PeerAfter(n + 0)
      BY <1>1 DEF ReadRest, RestOf
    <2> QED BY <1>0, <2>1, ReadMovesPeer
  <1> QED BY <1>0, <1>2, <1>3 DEF SocksInv, SocksType, Answer, ProxyRelays

LEMMA ReadBreaksKeeps == ASSUME SocksInv, ReadBreaks PROVE SocksInv'
  BY FailureKeeps DEF SocksInv, SocksType, ReadBreaks

-----------------------------------------------------------------------------
(***************************************************************************)
(* The steps of the proxy.                                                 *)
(***************************************************************************)
LEMMA ProxyMoves ==
    ASSUME SocksType, NEW pc \in {"closed", "asked", "relay"}, proxy' = [proxy EXCEPT !.pc = pc]
    PROVE  proxy' \in ProxyRecord /\ proxy'.pc = pc /\ proxy'.asked = proxy.asked /\ proxy'.data = proxy.data
  BY DEF SocksType, ProxyRecord

LEMMA ProxyGreetsKeeps == ASSUME SocksInv, ProxyGreets PROVE SocksInv'
  <1>1. PICK b \in Seq(Nat) : Len(b) = 2 /\ Says(b)
    <2>1. PICK version \in {4, 5}, method \in {0, 255} : Says(<<version, method>>)
      BY DEF ProxyGreets
    <2>2. <<version, method>> \in Seq(Nat) /\ Len(<<version, method>>) = 2
      OBVIOUS
    <2> QED BY <2>1, <2>2
  <1>2. unread' \in Seq(Nat) /\ Len(unread') = Len(unread) + 2
    BY <1>1, SaysAdds DEF SocksInv
  <1>3. proxy' \in ProxyRecord /\ proxy'.pc = "asked" /\ proxy'.asked = proxy.asked /\ proxy'.data = proxy.data
    BY ProxyMoves DEF SocksInv, ProxyGreets
  <1>4. dialer.pc \in {"method", "failed"} /\ (dialer.pc = "method" => unread = <<>>)
    BY DEF SocksInv, SocksType, DialerRecord, Answer, ProxyRelays, ProxyGreets
  <1>5. Len(<<>>) = 0
    OBVIOUS
  <1> QED BY <1>2, <1>3, <1>4, <1>5 DEF SocksInv, SocksType, Answer, ProxyGreets

LEMMA ProxyRefusesKeeps == ASSUME SocksInv, ProxyRefuses PROVE SocksInv'
  <1>1. PICK b \in Seq(Nat) : /\ Len(b) = 4 /\ Says(b)
                              /\ b[1] # 5 \/ b[2] # 0 \/ b[4] \notin {1, 3, 4}
    <2>1. PICK head \in {<<5, 1, 0, 1>>, <<4, 0, 0, 1>>, <<5, 0, 0, 2>>} : Says(head)
      BY DEF ProxyRefuses
    <2>2. /\ head \in Seq(Nat) /\ Len(head) = 4
          /\ head[1] # 5 \/ head[2] # 0 \/ head[4] \notin {1, 3, 4}
      <3>1. CASE head = <<5, 1, 0, 1>>
        BY <3>1
      <3>2. CASE head = <<4, 0, 0, 1>>
        BY <3>2
      <3>3. CASE head = <<5, 0, 0, 2>>
        BY <3>3
      <3> QED BY <2>1, <3>1, <3>2, <3>3
    <2> QED BY <2>1, <2>2
  <1>2. /\ unread' \in Seq(Nat) /\ Len(unread') = Len(unread) + 4
        /\ \A i \in 1..4 : unread'[Len(unread) + i] = b[i]
    BY <1>1, SaysAdds DEF SocksInv
  <1>3. proxy' \in ProxyRecord /\ proxy'.pc = "closed" /\ proxy'.asked = proxy.asked /\ proxy'.data = proxy.data
    BY ProxyMoves DEF SocksInv, ProxyRefuses
  <1>4. dialer.pc \in {"head", "failed"} /\ (dialer.pc = "head" => unread = <<>>)
    BY DEF SocksInv, SocksType, DialerRecord, Answer, ProxyRelays, ProxyRefuses, NoAnswerYet
  <1>5. dialer.pc = "head" => RefusedHead'
    BY <1>1, <1>2, <1>4 DEF RefusedHead
  <1> QED BY <1>2, <1>3, <1>4, <1>5 DEF SocksInv, SocksType, Answer, ProxyRefuses

LEMMA ProxyGrantsKeeps == ASSUME SocksInv, ProxyGrants PROVE SocksInv'
  <1>1. PICK b \in Seq(Nat) :
          /\ Says(b)
          /\ \/ b[4] = 1 /\ Len(b) = 4 + (IP4 + 2)
             \/ b[4] = 4 /\ Len(b) = 4 + (IP6 + 2)
             \/ b[4] = 3 /\ b[5] \in Nat /\ Len(b) = 5 + (b[5] + 2)
    <2>1. ASSUME NEW n \in Nat
          PROVE  Marks(n + 2) \in Seq(Nat) /\ Len(Marks(n + 2)) = n + 2
      BY DEF Marks
    <2>2. ASSUME NEW n \in Nat, NEW k \in {1, 4}, NEW b, b = <<5, 0, 0, k>> \o Marks(n + 2)
          PROVE  b \in Seq(Nat) /\ b[4] = k /\ Len(b) = 4 + (n + 2)
      BY <2>1, <2>2, ConcatProperties
    <2>3. ASSUME NEW n \in Nat, NEW b, b = <<5, 0, 0, 3, n>> \o Marks(n + 2)
          PROVE  b \in Seq(Nat) /\ b[4] = 3 /\ b[5] = n /\ Len(b) = 5 + (n + 2)
      BY <2>1, <2>3, ConcatProperties
    <2>4. CASE Says(<<5, 0, 0, 1>> \o Marks(IP4 + 2))
      BY <2>2, <2>4, SocksAssumption
    <2>5. CASE Says(<<5, 0, 0, 4>> \o Marks(IP6 + 2))
      BY <2>2, <2>5, SocksAssumption
    <2>6. CASE \E n \in 0..MaxName : Says(<<5, 0, 0, 3, n>> \o Marks(n + 2))
      <3>0. PICK n \in 0..MaxName : Says(<<5, 0, 0, 3, n>> \o Marks(n + 2))
        BY <2>6
      <3>1. n \in Nat
        BY SocksAssumption
      <3>2. PICK b : b = <<5, 0, 0, 3, n>> \o Marks(n + 2)
        OBVIOUS
      <3>3. b \in Seq(Nat) /\ b[4] = 3 /\ b[5] = n /\ Len(b) = 5 + (n + 2) /\ Says(b)
        BY <2>3, <3>0, <3>1, <3>2
      <3> QED BY <3>1, <3>3
    <2> QED BY <2>4, <2>5, <2>6 DEF ProxyGrants
  <1>2. /\ unread' \in Seq(Nat) /\ Len(unread') = Len(unread) + Len(b)
        /\ \A i \in 1..Len(b) : unread'[Len(unread) + i] = b[i]
    BY <1>1, SaysAdds DEF SocksInv
  <1>3. proxy' \in ProxyRecord /\ proxy'.pc = "relay" /\ proxy'.asked = proxy.asked /\ proxy'.data = proxy.data
    BY ProxyMoves DEF SocksInv, ProxyGrants
  <1>4. dialer.pc \in {"head", "failed"} /\ (dialer.pc = "head" => unread = <<>> /\ proxy.data = 0)
    BY DEF SocksInv, SocksType, DialerRecord, Answer, ProxyRelays, ProxyGrants, NoAnswerYet
  <1>5. ASSUME dialer.pc = "head" PROVE GrantedHead'
    <2>1. Len(unread) = 0 /\ proxy'.data = 0
      BY <1>3, <1>4, <1>5
    <2>2. Len(unread') = Len(b) /\ \A i \in 1..Len(b) : unread'[i] = b[i]
      BY <1>1, <1>2, <2>1
    <2>a. Len(b) \in Nat /\ Len(b) >= 4 /\ (b[4] = 3 => Len(b) >= 5)
      <3>1. IP4 \in Nat /\ IP6 \in Nat /\ Len(b) \in Nat
        BY <1>1, SocksAssumption
      <3>2. CASE b[4] = 1 /\ Len(b) = 4 + (IP4 + 2)
        BY <3>1, <3>2
      <3>3. CASE b[4] = 4 /\ Len(b) = 4 + (IP6 + 2)
        BY <3>1, <3>3
      <3>4. CASE b[4] = 3 /\ b[5] \in Nat /\ Len(b) = 5 + (b[5] + 2)
        <4>1. PICK n \in Nat : n = b[5] /\ Len(b) = 5 + (n + 2)
          BY <3>4
        <4>2. 5 + (n + 2) >= 5
          BY <4>1
        <4> QED BY <3>1, <3>4, <4>1, <4>2, SMTT(30)
      <3> QED BY <1>1, <3>2, <3>3, <3>4
    <2>b. 4 \in 1..Len(b) /\ (b[4] = 3 => 5 \in 1..Len(b))
      BY <2>a
    <2>3. unread'[4] = b[4] /\ (b[4] = 3 => unread'[5] = b[5])
      BY <2>2, <2>b
    <2>4. Len(b) + 1 .. Len(b) = {}
      BY <1>1
    <2>5. ASSUME NEW k \in Nat, Len(b) = k PROVE PeerAfter(k)'
      BY <2>1, <2>2, <2>4, <2>5 DEF PeerAfter
    <2>6. CASE b[4] = 1 /\ Len(b) = 4 + (IP4 + 2)
      BY <2>3, <2>5, <2>6, SocksAssumption DEF GrantedHead
    <2>7. CASE b[4] = 4 /\ Len(b) = 4 + (IP6 + 2)
      BY <2>3, <2>5, <2>7, SocksAssumption DEF GrantedHead
    <2>8. CASE b[4] = 3 /\ b[5] \in Nat /\ Len(b) = 5 + (b[5] + 2)
      <3>1. PeerAfter(5 + (b[5] + 2))' /\ unread'[4] = 3 /\ unread'[5] = b[5]
        BY <2>3, <2>5, <2>8
      <3> QED BY <2>8, <3>1 DEF GrantedHead, PeerAfter
    <2> QED BY <1>1, <2>6, <2>7, <2>8
  <1> QED BY <1>2, <1>3, <1>4, <1>5 DEF SocksInv, SocksType, Answer, ProxyGrants

LEMMA PeerSendsKeeps == ASSUME SocksInv, PeerSends PROVE SocksInv'
  <1>1. proxy' \in ProxyRecord /\ proxy'.pc = "relay" /\ proxy'.asked = proxy.asked /\ proxy'.data = proxy.data + 1
    BY DEF SocksInv, SocksType, ProxyRecord, PeerSends
  <1>2. /\ unread' \in Seq(Nat) /\ Len(unread') = Len(unread) + 1
        /\ \A i \in 1..Len(unread) : unread'[i] = unread[i]
        /\ unread'[Len(unread) + 1] = 7
    <2>1. <<7>> \in Seq(Nat) /\ Len(<<7>>) = 1 /\ <<7>>[1] = 7
      OBVIOUS
    <2>2. PICK b \in Seq(Nat) : Len(b) = 1 /\ b[1] = 7 /\ Says(b)
      BY <2>1 DEF PeerSends
    <2>3. 1 \in 1..Len(b) /\ SocksType
      BY <2>2 DEF SocksInv
    <2>4. /\ unread' \in Seq(Nat) /\ Len(unread') = Len(unread) + Len(b)
          /\ \A i \in 1..Len(unread) : unread'[i] = unread[i]
          /\ \A i \in 1..Len(b) : unread'[Len(unread) + i] = b[i]
      BY <2>2, <2>3, SaysAdds
    <2> QED BY <2>2, <2>3, <2>4
  <1>3. ASSUME NEW k \in Nat, PeerAfter(k) PROVE PeerAfter(k)'
    <2>1. proxy.data \in Nat
      BY DEF SocksInv, SocksType, ProxyRecord
    <2>2. Len(unread') = k + proxy'.data
      BY <1>1, <1>2, <1>3, <2>1 DEF PeerAfter
    <2>3. ASSUME NEW i \in k + 1 .. k + proxy'.data PROVE unread'[i] = 7
      <3>1. i \in k + 1 .. k + proxy.data \/ i = Len(unread) + 1
        BY <1>1, <1>3, <2>1 DEF PeerAfter
      <3>2. CASE i \in k + 1 .. k + proxy.data
        <4>1. i \in 1..Len(unread)
          BY <1>3, <2>1, <3>2 DEF PeerAfter
        <4> QED BY <1>2, <1>3, <3>2, <4>1 DEF PeerAfter
      <3> QED BY <1>2, <3>1, <3>2
    <2> QED BY <2>2, <2>3 DEF PeerAfter
  <1>4. dialer' = dialer /\ dialer \in DialerRecord /\ proxy.pc = "relay"
    BY DEF SocksInv, SocksType, PeerSends
  <1>5. SocksType'
    BY <1>1, <1>2, <1>4 DEF SocksType
  <1>6. dialer.pc \notin {"idle", "method"} /\ (dialer.pc = "head" => GrantedHead)
    BY <1>4 DEF SocksInv, Answer
  <1>7. CASE dialer.pc = "head"
    <2>1. GrantedHead /\ Len(unread) >= 4 /\ (unread[4] = 3 => Len(unread) >= 5)
      <3>1. proxy.data \in Nat /\ IP4 \in Nat /\ IP6 \in Nat
        BY SocksAssumption DEF SocksInv, SocksType, ProxyRecord
      <3>3. ASSUME unread[4] = 3 PROVE Len(unread) >= 5
        <4>1. PICK n \in Nat : PeerAfter(5 + (n + 2))
          BY <1>6, <1>7, <3>3 DEF GrantedHead
        <4> QED BY <3>1, <4>1 DEF PeerAfter
      <3>4. ASSUME unread[4] # 3 PROVE Len(unread) >= 4
        <4>1. PICK n \in Nat : PeerAfter(4 + (n + 2))
          BY <1>6, <1>7, <3>1, <3>4 DEF GrantedHead
        <4> QED BY <3>1, <4>1 DEF PeerAfter
      <3> QED BY <1>6, <1>7, <3>3, <3>4
    <2>2. unread'[4] = unread[4] /\ (unread[4] = 3 => unread'[5] = unread[5])
      BY <1>2, <2>1 DEF SocksInv, SocksType
    <2>3. GrantedHead'
      BY <1>3, <2>1, <2>2, SocksAssumption, SMTT(30) DEF GrantedHead
    <2> QED BY <1>1, <1>4, <1>5, <1>7, <2>3 DEF SocksInv, Answer
  <1>8. CASE dialer.pc = "len"
    <2>1. PICK n \in Nat : n = unread[1] /\ PeerAfter(1 + (n + 2))
      BY <1>8 DEF SocksInv, Answer
    <2>2. unread'[1] = n
      BY <1>2, <2>1, SMTT(30) DEF PeerAfter, SocksInv, SocksType, ProxyRecord
    <2>3. PeerAfter(1 + (n + 2))'
      BY <1>3, <2>1
    <2> QED BY <1>1, <1>4, <1>5, <1>8, <2>2, <2>3 DEF SocksInv, Answer, ProxyRelays, PeerAfter
  <1>9. CASE dialer.pc = "rest"
    <2>1. PICK k \in Nat : k = dialer.left /\ PeerAfter(k + 2)
      BY <1>4, <1>9 DEF SocksInv, Answer, DialerRecord
    <2>2. PeerAfter(k + 2)'
      BY <1>3, <2>1
    <2> QED BY <1>1, <1>4, <1>5, <1>9, <2>1, <2>2 DEF SocksInv, Answer, ProxyRelays, PeerAfter
  <1>10. CASE dialer.pc = "open"
    <2>1. PeerAfter(0)'
      BY <1>3, <1>10 DEF SocksInv, Answer
    <2> QED BY <1>1, <1>4, <1>5, <1>10, <2>1 DEF SocksInv, Answer
  <1>11. CASE dialer.pc = "failed"
    BY <1>4, <1>5, <1>11 DEF SocksInv, Answer
  <1> QED BY <1>4, <1>6, <1>7, <1>8, <1>9, <1>10, <1>11 DEF DialerRecord

(***************************************************************************)
(* Over every behaviour of a dial, for addresses and names of any length,  *)
(* a stream that is handed on starts with the first byte of the peer       *)
(* (`socks5_connect_timeout`).                                             *)
(***************************************************************************)
THEOREM DialedStreamStartsAtPeer == SocksSpec => []StreamStartsAtPeer
  <1>1. SocksInv /\ [SocksNext]_socksVars => SocksInv'
    <2> SUFFICES ASSUME SocksInv, [SocksNext]_socksVars PROVE SocksInv'
      OBVIOUS
    <2>1. CASE UNCHANGED socksVars
      BY <2>1 DEF socksVars, SocksInv, SocksType, Answer, NoAnswerYet, RefusedHead, GrantedHead, ProxyRelays, PeerAfter
    <2> QED BY <2>1, DialTargetKeeps, ReadMethodKeeps, ReadHeadKeeps, ReadLenKeeps, ReadRestKeeps,
               ReadBreaksKeeps, ProxyGreetsKeeps, ProxyGrantsKeeps, ProxyRefusesKeeps, PeerSendsKeeps
            DEF SocksNext
  <1> QED BY SocksInitInv, <1>1, SocksInvStarts, PTL DEF SocksSpec

-----------------------------------------------------------------------------
(***************************************************************************)
(* Stratum: an accepted share names a job that was made, and its nonce is  *)
(* among those seen for as long as the job is there.  ShareCreditedOnce    *)
(* needs both: a job that is dropped is never made again, since ids grow.  *)
(***************************************************************************)
JobIds == {ToString(k) : k \in 1..MaxJobId}
Made(j, n) == \E k \in 1 .. n - 1 : j = ToString(k)

StratumType ==
    /\ nextJob \in 1 .. MaxJobId + 1
    /\ shares \in Seq(JobIds \X ShareNonce)
    /\ jobs = [j \in DOMAIN jobs |-> jobs[j]]
    /\ \A j \in DOMAIN jobs : jobs[j] = [created |-> jobs[j].created, seen |-> jobs[j].seen]

JobsMade == \A j \in DOMAIN jobs : Made(j, nextJob)

SharesKnown ==
    \A i \in DOMAIN shares :
        /\ Made(shares[i][1], nextJob)
        /\ shares[i][1] \in DOMAIN jobs => shares[i][2] \in jobs[shares[i][1]].seen

StratumInv == StratumType /\ JobsMade /\ SharesKnown /\ ShareCreditedOnce

LEMMA StratumInitInv == StratumInit => StratumInv
  BY JobIdsDiffer
     DEF StratumInit, StratumInv, StratumType, JobsMade, SharesKnown, ShareCreditedOnce, IsInjective

LEMMA MadeIsId ==
    ASSUME StratumInv, NEW j, Made(j, nextJob)
    PROVE  j \in JobIds /\ (nextJob \in 1..MaxJobId => j # JobId)
  <1>1. PICK k \in 1 .. nextJob - 1 : j = ToString(k)
    BY DEF Made
  <1>2. k \in 1..MaxJobId
    BY JobIdsDiffer DEF StratumInv, StratumType
  <1>3. k # nextJob
    BY JobIdsDiffer DEF StratumInv, StratumType
  <1> QED BY <1>1, <1>2, <1>3, JobIdsDiffer DEF JobIds, JobId

LEMMA MakeNotifyKeeps == ASSUME StratumInv, MakeNotify PROVE StratumInv'
  <1> DEFINE all == With(jobs, JobId, [created |-> now, seen |-> {}])
  <1>1. PICK drop \in SUBSET DOMAIN all : jobs' = [j \in DOMAIN all \ drop |-> all[j]]
    BY DEF MakeNotify
  <1>2. /\ DOMAIN all = DOMAIN jobs \cup {JobId}
        /\ all[JobId] = [created |-> now, seen |-> {}]
        /\ \A j \in DOMAIN jobs : j # JobId => all[j] = jobs[j]
    BY DEF With
  <1>3. nextJob \in 1..MaxJobId /\ nextJob' = nextJob + 1 /\ shares' = shares
    BY JobIdsDiffer DEF MakeNotify, StratumInv, StratumType
  <1>4. JobId = ToString(nextJob) /\ \A j : Made(j, nextJob) => Made(j, nextJob') /\ j # JobId
    <2>1. ASSUME NEW j, Made(j, nextJob) PROVE Made(j, nextJob')
      <3>1. PICK k \in 1 .. nextJob - 1 : j = ToString(k)
        BY <2>1 DEF Made
      <3>2. k \in 1 .. nextJob' - 1
        BY <1>3
      <3> QED BY <3>1, <3>2 DEF Made
    <2> QED BY <1>3, <2>1, MadeIsId DEF JobId
  <1>5. DOMAIN jobs' \subseteq DOMAIN jobs \cup {JobId} /\ \A j \in DOMAIN jobs' : jobs'[j] = all[j]
    BY <1>1, <1>2
  <1> HIDE DEF all
  <1>6. JobsMade'
    <2>1. Made(JobId, nextJob')
      <3>1. nextJob \in 1 .. nextJob' - 1
        BY <1>3
      <3> QED BY <1>4, <3>1 DEF Made
    <2> QED BY <1>4, <1>5, <2>1 DEF StratumInv, JobsMade
  <1>7. SharesKnown'
    BY <1>2, <1>3, <1>4, <1>5 DEF SharesKnown, StratumInv
  <1>8. StratumType'
    <2>1. nextJob' \in 1 .. MaxJobId + 1 /\ shares' \in Seq(JobIds \X ShareNonce)
      BY <1>3, JobIdsDiffer DEF StratumInv, StratumType
    <2>2. jobs' = [j \in DOMAIN jobs' |-> jobs'[j]]
      BY <1>1
    <2>3. ASSUME NEW j \in DOMAIN jobs'
          PROVE  jobs'[j] = [created |-> jobs'[j].created, seen |-> jobs'[j].seen]
      BY <1>2, <1>5 DEF StratumInv, StratumType
    <2> QED BY <2>1, <2>2, <2>3 DEF StratumType
  <1> QED BY <1>3, <1>6, <1>7, <1>8 DEF StratumInv, ShareCreditedOnce

(***************************************************************************)
(* Jobs may go, and the nonces seen of one that stays may grow.            *)
(***************************************************************************)
JobsShrinkOrSee ==
    /\ jobs' = [j \in DOMAIN jobs' |-> jobs'[j]]
    /\ DOMAIN jobs' \subseteq DOMAIN jobs
    /\ \A j \in DOMAIN jobs' : /\ jobs[j].seen \subseteq jobs'[j].seen
                               /\ jobs'[j] = [created |-> jobs'[j].created, seen |-> jobs'[j].seen]

LEMMA NoShareKeeps ==
    ASSUME StratumInv, JobsShrinkOrSee, UNCHANGED <<nextJob, shares>>
    PROVE  StratumInv'
  BY DEF StratumInv, StratumType, JobsMade, SharesKnown, Made, ShareCreditedOnce, JobsShrinkOrSee

(***************************************************************************)
(* A share of a nonce that its job had not seen, and now has.              *)
(***************************************************************************)
LEMMA ShareKeeps ==
    ASSUME StratumInv, JobsShrinkOrSee, nextJob' = nextJob,
           NEW j \in DOMAIN jobs, NEW nonce \in ShareNonce, nonce \notin jobs[j].seen,
           j \in DOMAIN jobs' => nonce \in jobs'[j].seen,
           shares' = Append(shares, <<j, nonce>>)
    PROVE  StratumInv'
  <1>1. Made(j, nextJob)
    BY DEF StratumInv, JobsMade
  <1>2. <<j, nonce>> \in JobIds \X ShareNonce
    BY <1>1, MadeIsId
  <1>3. /\ shares' \in Seq(JobIds \X ShareNonce)
        /\ DOMAIN shares' = DOMAIN shares \cup {Len(shares) + 1}
        /\ \A i \in DOMAIN shares : i # Len(shares) + 1 /\ shares'[i] = shares[i]
        /\ shares'[Len(shares) + 1] = <<j, nonce>>
    BY <1>2, AppendProperties DEF StratumInv, StratumType
  <1>4. \A i \in DOMAIN shares : shares[i] # <<j, nonce>>
    BY DEF StratumInv, SharesKnown
  <1>5. ShareCreditedOnce'
    <2>1. \A a, b \in DOMAIN shares : shares[a] = shares[b] => a = b
      BY DEF StratumInv, ShareCreditedOnce, IsInjective
    <2>2. \A a, b \in DOMAIN shares' : shares'[a] = shares'[b] => a = b
      <3>1. PICK e, n : e = <<j, nonce>> /\ n = Len(shares) + 1
        OBVIOUS
      <3>2. /\ DOMAIN shares' = DOMAIN shares \cup {n} /\ shares'[n] = e
            /\ \A i \in DOMAIN shares : shares'[i] = shares[i] /\ shares[i] # e
        BY <1>3, <1>4, <3>1
      <3> SUFFICES ASSUME NEW a \in DOMAIN shares', NEW b \in DOMAIN shares', shares'[a] = shares'[b]
                   PROVE  a = b
        OBVIOUS
      <3>3. CASE a \in DOMAIN shares /\ b \in DOMAIN shares
        <4>1. shares[a] = shares[b]
          BY <3>2, <3>3
        <4> QED BY <2>1, <3>3, <4>1
      <3>4. CASE a = n \/ b = n
        BY <3>2, <3>4
      <3> QED BY <3>2, <3>3, <3>4
    <2> QED BY <2>2 DEF ShareCreditedOnce, IsInjective
  <1>6. SharesKnown'
    <2>1. \A k : Made(k, nextJob) => Made(k, nextJob')
      BY DEF Made
    <2>2. <<j, nonce>>[1] = j /\ <<j, nonce>>[2] = nonce
      OBVIOUS
    <2>3. ASSUME NEW i \in DOMAIN shares
          PROVE  /\ Made(shares'[i][1], nextJob')
                 /\ shares'[i][1] \in DOMAIN jobs' => shares'[i][2] \in jobs'[shares'[i][1]].seen
      BY <1>3, <2>1 DEF StratumInv, SharesKnown, JobsShrinkOrSee
    <2>4. /\ Made(shares'[Len(shares) + 1][1], nextJob')
          /\ shares'[Len(shares) + 1][1] \in DOMAIN jobs'
             => shares'[Len(shares) + 1][2] \in jobs'[shares'[Len(shares) + 1][1]].seen
      BY <1>1, <1>3, <2>1, <2>2
    <2> QED BY <1>3, <2>3, <2>4 DEF SharesKnown
  <1>7. StratumType' /\ JobsMade'
    BY <1>3 DEF StratumInv, StratumType, JobsMade, Made, JobsShrinkOrSee
  <1> QED BY <1>5, <1>6, <1>7 DEF StratumInv

LEMMA SubmitKeeps ==
    ASSUME StratumInv, NEW w \in Worker, NEW j \in DOMAIN jobs, NEW nonce \in ShareNonce, Submit(w, j, nonce)
    PROVE  StratumInv'
  <1>0. nextJob' = nextJob /\ jobs = [k \in DOMAIN jobs |-> jobs[k]]
    BY DEF Submit, StratumInv, StratumType
  <1>a. JobsShrinkOrSee
    <2>1. CASE jobs' = jobs
      BY <2>1, <1>0 DEF JobsShrinkOrSee, StratumInv, StratumType
    <2>2. CASE jobs' = [k \in DOMAIN jobs \ {j} |-> jobs[k]]
      BY <2>2, <1>0 DEF JobsShrinkOrSee, StratumInv, StratumType
    <2>3. CASE jobs' = [jobs EXCEPT ![j].seen = jobs[j].seen \cup {nonce}]
      BY <2>3, <1>0 DEF JobsShrinkOrSee, StratumInv, StratumType
    <2> QED BY <2>1, <2>2, <2>3 DEF Submit
  <1>1. CASE shares' = shares
    BY <1>0, <1>a, <1>1, NoShareKeeps
  <1>2. CASE /\ nonce \notin jobs[j].seen
             /\ jobs' = [jobs EXCEPT ![j].seen = jobs[j].seen \cup {nonce}]
             /\ shares' = Append(shares, <<j, nonce>>)
    <2>1. nonce \in jobs'[j].seen
      BY <1>0, <1>2 DEF StratumInv, StratumType
    <2> QED BY <1>0, <1>a, <1>2, <2>1, ShareKeeps
  <1> QED BY <1>1, <1>2 DEF Submit

(***************************************************************************)
(* Over every behaviour of the pool endpoint, with any workers, limits and *)
(* times, the same nonce of the same job is credited once (`submit`).      *)
(***************************************************************************)
THEOREM WorkCreditedOnce == StratumSpec => []ShareCreditedOnce
  <1>1. StratumInv /\ [StratumNext]_stratumVars => StratumInv'
    <2> SUFFICES ASSUME StratumInv, [StratumNext]_stratumVars PROVE StratumInv'
      OBVIOUS
    <2>1. CASE UNCHANGED <<jobs, nextJob, shares>>
      BY <2>1 DEF StratumInv, StratumType, JobsMade, SharesKnown, Made, ShareCreditedOnce
    <2>2. CASE \E w \in Worker : Authorize(w) \/ RefuseEarly(w)
      BY <2>1, <2>2 DEF Authorize, RefuseEarly
    <2> QED BY <2>1, <2>2, SubmitKeeps, MakeNotifyKeeps DEF StratumNext, Wait, stratumVars
  <1>2. StratumInv => ShareCreditedOnce
    BY DEF StratumInv
  <1> QED BY StratumInitInv, <1>1, <1>2, PTL DEF StratumSpec

-----------------------------------------------------------------------------
(***************************************************************************)
(* RateLimit.  What the entry of a client says of what it was granted: all *)
(* of it before the end of the window and not after the last request; from *)
(* the start of the window on, no more than was counted and no more than   *)
(* the limit; and no more than the limit in the stretch just before.       *)
(***************************************************************************)
Times == 1..MaxClock

Sum(c, T) == SumOn(granted[c], T)

From(s) == {u \in Times : u >= s}

Before(s) == {u \in Times : s - WINDOW < u /\ u < s}

Span(t) == {u \in Times : t <= u /\ u < t + WINDOW}

RateEntry == [windowStart : Nat, lastSeen : Nat, count : Nat, bannedUntil : Nat]

RateType ==
    /\ clock \in Times
    /\ DOMAIN ipState \subseteq Client
    /\ \A c \in DOMAIN ipState :
          /\ ipState[c] \in RateEntry
          /\ ipState[c].windowStart <= ipState[c].lastSeen
          /\ ipState[c].lastSeen <= clock
    /\ granted \in [Client -> [Times -> Nat]]
    /\ bans \subseteq Client \X Nat \X Nat

(***************************************************************************)
(* What holds of the entry e of the client c.                              *)
(***************************************************************************)
EntryTells(c, e) ==
    /\ \A u \in Times : granted[c][u] # 0 => u < e.windowStart + WINDOW /\ u <= clock
    /\ Sum(c, From(e.windowStart)) <= e.count
    /\ Sum(c, From(e.windowStart)) <= MAX_REQUESTS_PER_WINDOW
    /\ Sum(c, Before(e.windowStart)) <= MAX_REQUESTS_PER_WINDOW

EntriesTell ==
    \A c \in DOMAIN ipState :
       /\ EntryTells(c, ipState[c])
       /\ \A u \in Times : granted[c][u] # 0 => u <= ipState[c].lastSeen
       /\ ipState[c].bannedUntil # NoBan => ipState[c].bannedUntil >= ipState[c].windowStart + BAN_DURATION

ForgottenAreIdle ==
    \A c \in Client \ DOMAIN ipState : \A u \in Times : granted[c][u] # 0 => u + WINDOW <= clock

SpansBounded == \A c \in Client : \A t \in Times : Sum(c, Span(t)) <= 2 * MAX_REQUESTS_PER_WINDOW

(***************************************************************************)
(* A ban that runs is in the entry of its client; nothing was granted from *)
(* a ban on.                                                               *)
(***************************************************************************)
BansHold ==
    \A x \in bans :
       /\ x[2] <= clock
       /\ clock < x[3] => x[1] \in DOMAIN ipState /\ ipState[x[1]].bannedUntil = x[3]
       /\ \A t \in Times : x[2] < t /\ t < x[3] => granted[x[1]][t] = 0

RateInv == RateType /\ EntriesTell /\ ForgottenAreIdle /\ SpansBounded /\ BansHold

LEMMA BurstIs == ASSUME NEW c, NEW t PROVE Burst(c, t) = Sum(c, Span(t))
  BY DEF Burst, MapThenSumSet, MapThenFoldSet, Sum, SumOn, IsSum, Pick, Span, Times

LEMMA TimesFinite == IsFiniteSet(Times) /\ Times \subseteq Nat /\ MaxClock \in Nat /\ 1 \in Times
  <1>1. MaxClock \in Nat /\ MaxClock >= 1
    BY RateConstants
  <1>2. IsFiniteSet(1..MaxClock)
    BY <1>1, FS_Interval
  <1> QED BY <1>1, <1>2 DEF Times

LEMMA SpanFacts ==
    ASSUME NEW f \in [Times -> Nat], NEW T \in SUBSET Times
    PROVE  /\ SumOn(f, T) \in Int
           /\ \A A \in SUBSET T : SumOn(f, A) <= SumOn(f, T)
           /\ (\A u \in T : f[u] = 0) => SumOn(f, T) = 0
  <1>a. IsFiniteSet(T)
    BY TimesFinite, FS_Subset
  <1>b. (\A u \in T : f[u] \in Nat) /\ (\A u \in T : f[u] \in Int)
    OBVIOUS
  <1>1. IsFiniteSet(T) /\ (\A u \in T : f[u] \in Nat) /\ (\A u \in T : f[u] \in Int)
    BY <1>a, <1>b
  <1>2. SumOn(f, T) \in Int
    BY <1>1, SumType
  <1>3. \A A \in SUBSET T : SumOn(f, A) <= SumOn(f, T)
    BY <1>1, SumPart
  <1>4. (\A u \in T : f[u] = 0) => SumOn(f, T) = 0
    BY <1>1, SumZero
  <1> QED BY <1>2, <1>3, <1>4

IsOneMore(g, f, k) == g = [f EXCEPT ![k] = f[k] + 1]

LEMMA OneMore ==
    ASSUME NEW f \in [Times -> Nat], NEW T \in SUBSET Times, NEW k \in Times, NEW g, IsOneMore(g, f, k)
    PROVE  /\ g \in [Times -> Nat]
           /\ k \in T => SumOn(g, T) = SumOn(f, T) + 1
           /\ k \notin T => SumOn(g, T) = SumOn(f, T)
  <1>1. g \in [Times -> Nat] /\ g[k] = f[k] + 1 /\ \A u \in Times : u # k => g[u] = f[u]
    BY DEF IsOneMore
  <1>2. IsFiniteSet(T)
    BY TimesFinite, FS_Subset
  <1>3. PICK h : h = f
    OBVIOUS
  <1>4. PICK m : m = g
    OBVIOUS
  <1>5. ASSUME k \in T PROVE SumOn(g, T) = SumOn(f, T) + 1
    <2>1. \A u \in T : h[u] \in Int /\ m[u] \in Int
      BY <1>1, <1>3, <1>4
    <2>2. \A u \in T \ {k} : h[u] = m[u]
      BY <1>1, <1>3, <1>4
    <2>3. SumOn(m, T) = SumOn(h, T) - h[k] + m[k]
      BY <1>2, <1>5, <2>1, <2>2, SumChange
    <2>4. h[k] \in Nat /\ m[k] = h[k] + 1 /\ SumOn(h, T) \in Int
      BY <1>1, <1>3, <1>4, SpanFacts
    <2> QED BY <1>3, <1>4, <2>3, <2>4
  <1>6. ASSUME k \notin T PROVE SumOn(g, T) = SumOn(f, T)
    <2>1. \A u \in T : m[u] = h[u]
      BY <1>1, <1>3, <1>4, <1>6
    <2>2. SumOn(m, T) = SumOn(h, T)
      BY <1>2, <2>1, SumSame
    <2> QED BY <1>3, <1>4, <2>2
  <1> QED BY <1>1, <1>5, <1>6

(***************************************************************************)
(* A window that starts now: nothing was granted in it, and what came just *)
(* before lies in the window of the old entry.                             *)
(***************************************************************************)
LEMMA FreshTells ==
    ASSUME RateType, NEW c \in Client, NEW e \in RateEntry, e.windowStart = clock, e.count = 0,
           \A u \in Times : granted[c][u] # 0 => u < clock,
           Sum(c, Before(clock)) <= MAX_REQUESTS_PER_WINDOW
    PROVE  EntryTells(c, e)
  <1>1. granted[c] \in [Times -> Nat] /\ clock \in Nat
    BY TimesFinite DEF RateType
  <1>2. From(clock) \in SUBSET Times /\ \A u \in From(clock) : granted[c][u] = 0
    BY <1>1, TimesFinite DEF From
  <1>3. Sum(c, From(clock)) = 0
    BY <1>1, <1>2, SpanFacts DEF Sum
  <1>4. ASSUME NEW u \in Times, granted[c][u] # 0 PROVE u < clock + WINDOW /\ u <= clock
    <2>1. u \in Nat /\ u < clock /\ WINDOW \in Nat
      BY <1>4, TimesFinite, RateConstants
    <2> QED BY <1>1, <2>1
  <1> QED BY <1>3, <1>4, RateConstants DEF EntryTells

(***************************************************************************)
(* The entry in which a request is counted tells the truth.                *)
(***************************************************************************)
LEMMA EntryIsTrue ==
    ASSUME RateInv, NEW c \in Client, ~Banned(c)
    PROVE  /\ Entry(c) \in RateEntry
           /\ EntryTells(c, Entry(c))
           /\ Entry(c).windowStart <= clock
           /\ clock < Entry(c).windowStart + WINDOW
           /\ Entry(c).lastSeen = clock
           /\ Entry(c).bannedUntil = NoBan
  <1> DEFINE fresh == [windowStart |-> clock, lastSeen |-> clock, count |-> 0, bannedUntil |-> NoBan]
             old == [ipState[c] EXCEPT !.lastSeen = clock]
  <1>1. clock \in Nat /\ granted[c] \in [Times -> Nat] /\ WINDOW \in Nat
    BY TimesFinite, RateConstants DEF RateInv, RateType
  <1>2. fresh \in RateEntry
    BY <1>1 DEF RateEntry, NoBan
  <1>3. Before(clock) \in SUBSET Times
    BY DEF Before
  <1>4. ASSUME c \notin DOMAIN ipState PROVE EntryTells(c, fresh)
    <2>1. \A u \in Times : granted[c][u] # 0 => u + WINDOW <= clock
      BY <1>4 DEF RateInv, ForgottenAreIdle
    <2>2. \A u \in Times : granted[c][u] # 0 => u < clock
      BY <1>1, <2>1, TimesFinite, RateConstants
    <2>3. \A u \in Before(clock) : granted[c][u] = 0
      <3> SUFFICES ASSUME NEW u \in Times, clock - WINDOW < u, granted[c][u] # 0 PROVE FALSE
        BY DEF Before
      <3>1. u + WINDOW <= clock /\ u \in Nat
        BY <2>1, TimesFinite
      <3> QED BY <1>1, <3>1
    <2>4. Sum(c, Before(clock)) = 0
      BY <1>1, <1>3, <2>3, SpanFacts DEF Sum
    <2>5. Sum(c, Before(clock)) <= MAX_REQUESTS_PER_WINDOW
      BY <2>4, RateConstants
    <2> QED BY <1>2, <2>2, <2>5, FreshTells DEF RateInv
  <1>5. ASSUME c \in DOMAIN ipState, clock >= ipState[c].windowStart + WINDOW PROVE EntryTells(c, fresh)
    <2>1. PICK s \in Nat : s = ipState[c].windowStart
      BY <1>5 DEF RateInv, RateType, RateEntry
    <2>2. EntryTells(c, ipState[c])
      BY <1>5 DEF RateInv, EntriesTell
    <2>a. s + WINDOW <= clock /\ \A u \in Times : u \in Nat
      BY <1>1, <1>5, <2>1, TimesFinite
    <2>b. \A u \in Times : granted[c][u] # 0 => u < s + WINDOW
      BY <2>1, <2>2 DEF EntryTells
    <2>3. \A u \in Times : granted[c][u] # 0 => u < clock
      BY <1>1, <2>1, <2>a, <2>b
    <2>4. Before(clock) \in SUBSET From(s) /\ From(s) \in SUBSET Times
      BY <1>1, <2>1, <2>a DEF Before, From
    <2>5. Sum(c, Before(clock)) <= Sum(c, From(s)) /\ Sum(c, From(s)) \in Int /\ Sum(c, Before(clock)) \in Int
      BY <1>1, <1>3, <2>4, SpanFacts DEF Sum
    <2>6. Sum(c, From(s)) <= MAX_REQUESTS_PER_WINDOW
      BY <2>1, <2>2 DEF EntryTells
    <2>7. Sum(c, Before(clock)) <= MAX_REQUESTS_PER_WINDOW
      BY <2>5, <2>6, RateConstants
    <2> QED BY <1>2, <2>3, <2>7, FreshTells DEF RateInv
  <1>b. c \in DOMAIN ipState =>
          /\ ipState[c] \in RateEntry /\ ipState[c].windowStart <= ipState[c].lastSeen
          /\ ipState[c].windowStart \in Nat /\ ipState[c].lastSeen \in Nat /\ ipState[c].bannedUntil \in Nat
          /\ old.bannedUntil = ipState[c].bannedUntil /\ old.windowStart = ipState[c].windowStart
    BY DEF RateInv, RateType, RateEntry
  <1>c. Survivors \subseteq DOMAIN ipState
    BY DEF Survivors
  <1> DEFINE Renewed == \/ c \notin Survivors
                        \/ ipState[c].bannedUntil # NoBan
                        \/ clock - ipState[c].windowStart >= WINDOW
  <1>6. CASE Renewed
    <2>1. c \notin DOMAIN ipState \/ clock >= ipState[c].windowStart + WINDOW
      <3> SUFFICES ASSUME c \in DOMAIN ipState PROVE clock >= ipState[c].windowStart + WINDOW
        OBVIOUS
      <3>2. CASE c \notin Survivors
        BY <1>1, <1>b, <3>2, RateConstants DEF Survivors
      <3>3. CASE c \in Survivors /\ ipState[c].bannedUntil # NoBan
        <4>1. clock >= ipState[c].bannedUntil
          BY <1>1, <1>b, <3>3 DEF Banned
        <4>2. ipState[c].bannedUntil >= ipState[c].windowStart + BAN_DURATION
          BY <3>3 DEF RateInv, EntriesTell
        <4> QED BY <1>1, <1>b, <4>1, <4>2, RateConstants
      <3>4. CASE clock - ipState[c].windowStart >= WINDOW
        BY <1>1, <1>b, <3>4
      <3> QED BY <1>6, <3>2, <3>3, <3>4
    <2>3. Entry(c) = fresh
      BY <1>6, <1>b, <1>c DEF Entry
    <2>2. EntryTells(c, fresh)
      BY <1>4, <1>5, <2>1
    <2>4. clock < clock + WINDOW
      BY <1>1, RateConstants
    <2> QED BY <1>1, <1>2, <2>2, <2>3, <2>4
  <1>7. CASE ~Renewed
    <2>1. c \in Survivors /\ c \in DOMAIN ipState /\ ipState[c] \in RateEntry
      BY <1>7, <1>b, <1>c
    <2>2. Entry(c) = old /\ ~(old.bannedUntil # NoBan \/ clock - old.windowStart >= WINDOW)
      BY <1>7, <1>b, <1>c DEF Entry
    <2>3. /\ old \in RateEntry /\ old.windowStart = ipState[c].windowStart /\ old.lastSeen = clock
          /\ old.count = ipState[c].count /\ old.bannedUntil = NoBan
      BY <1>1, <2>1, <2>2 DEF RateEntry
    <2>4. EntryTells(c, ipState[c])
      BY <2>1 DEF RateInv, EntriesTell
    <2>5. EntryTells(c, old)
      BY <2>3, <2>4 DEF EntryTells
    <2>6. ipState[c].windowStart <= clock
      BY <1>1, <2>1 DEF RateInv, RateType, RateEntry
    <2>7. clock < ipState[c].windowStart + WINDOW
      BY <1>1, <1>7, <1>b, <2>1
    <2> QED BY <2>2, <2>3, <2>5, <2>6, <2>7
  <1> QED BY <1>6, <1>7

(***************************************************************************)
(* A request that is granted: the entry goes on telling the truth, and a   *)
(* span that holds this moment lies in the window and the stretch before.  *)
(***************************************************************************)
LEMMA GrantTells ==
    ASSUME RateType, NEW c \in Client, NEW e \in RateEntry, EntryTells(c, e), e.windowStart <= clock,
           clock < e.windowStart + WINDOW,
           NEW n, n = e.count + 1, n <= MAX_REQUESTS_PER_WINDOW,
           NEW x \in RateEntry, x.windowStart = e.windowStart, x.count = n,
           granted' = [granted EXCEPT ![c][clock] = granted[c][clock] + 1], clock' = clock
    PROVE  EntryTells(c, x)'
  <1>1. PICK f \in [Times -> Nat] : f = granted[c]
    BY DEF RateType
  <1>2. PICK k \in Times : k = clock
    BY DEF RateType
  <1>3. PICK g : IsOneMore(g, f, k)
    BY DEF IsOneMore
  <1>4. granted'[c] = g
    BY <1>1, <1>2, <1>3 DEF RateType, IsOneMore
  <1>5. PICK s \in Nat : s = e.windowStart
    BY DEF RateEntry
  <1>6. s <= k /\ From(s) \in SUBSET Times /\ Before(s) \in SUBSET Times /\ k \in From(s) /\ k \notin Before(s)
    BY <1>2, <1>5, TimesFinite DEF From, Before
  <1>7. SumOn(g, From(s)) = SumOn(f, From(s)) + 1 /\ SumOn(g, Before(s)) = SumOn(f, Before(s))
    BY <1>3, <1>6, OneMore
  <1>8. /\ SumOn(f, From(s)) <= e.count /\ SumOn(f, Before(s)) <= MAX_REQUESTS_PER_WINDOW
        /\ \A u \in Times : f[u] # 0 => u < s + WINDOW /\ u <= k
    BY <1>1, <1>2, <1>5 DEF EntryTells, Sum
  <1>9. SumOn(f, From(s)) \in Int /\ e.count \in Nat
    BY <1>6, SpanFacts DEF RateEntry
  <1>10. SumOn(g, From(s)) <= n
    BY <1>7, <1>8, <1>9
  <1>11. SumOn(g, From(s)) <= MAX_REQUESTS_PER_WINDOW
    BY <1>7, <1>9, <1>10, RateConstants
  <1>12. \A u \in Times : g[u] # 0 => u < s + WINDOW /\ u <= k
    <2> SUFFICES ASSUME NEW u \in Times, g[u] # 0 PROVE u < s + WINDOW /\ u <= k
      OBVIOUS
    <2>1. CASE u = k
      BY <1>2, <1>5, <2>1, TimesFinite
    <2>2. CASE u # k
      BY <1>3, <1>8, <2>2 DEF IsOneMore
    <2> QED BY <2>1, <2>2
  <1>13. SumOn(g, Before(s)) <= MAX_REQUESTS_PER_WINDOW
    BY <1>7, <1>8
  <1> QED BY <1>2, <1>4, <1>5, <1>10, <1>11, <1>12, <1>13 DEF EntryTells, Sum

LEMMA GrantBounds ==
    ASSUME RateType, SpansBounded, NEW c \in Client, NEW e \in RateEntry, EntryTells(c, e), e.windowStart <= clock,
           e.count + 1 <= MAX_REQUESTS_PER_WINDOW,
           granted' = [granted EXCEPT ![c][clock] = granted[c][clock] + 1]
    PROVE  SpansBounded'
  <1>1. PICK f \in [Times -> Nat] : f = granted[c]
    BY DEF RateType
  <1>2. PICK k \in Times : k = clock
    BY DEF RateType
  <1>3. PICK g : IsOneMore(g, f, k)
    BY DEF IsOneMore
  <1>4. granted'[c] = g /\ \A d \in Client : d # c => granted'[d] = granted[d]
    BY <1>1, <1>2, <1>3 DEF RateType, IsOneMore
  <1>5. PICK s \in Nat : s = e.windowStart
    BY DEF RateEntry
  <1>6. PICK max \in Nat : max = MAX_REQUESTS_PER_WINDOW
    BY RateConstants
  <1>7. s <= k /\ From(s) \in SUBSET Times /\ Before(s) \in SUBSET Times /\ k \in From(s) /\ k \notin Before(s)
    BY <1>2, <1>5, TimesFinite DEF From, Before
  <1>8. g \in [Times -> Nat] /\ SumOn(g, From(s)) = SumOn(f, From(s)) + 1 /\ SumOn(g, Before(s)) = SumOn(f, Before(s))
    BY <1>3, <1>7, OneMore
  <1>9. SumOn(f, From(s)) <= e.count /\ SumOn(f, Before(s)) <= max /\ e.count \in Nat
    BY <1>1, <1>5, <1>6 DEF EntryTells, Sum, RateEntry
  <1>10. SumOn(f, From(s)) \in Int /\ SumOn(f, Before(s)) \in Int
    BY <1>7, SpanFacts
  <1>11. SumOn(g, From(s)) <= max /\ SumOn(g, Before(s)) <= max
    BY <1>6, <1>8, <1>9, <1>10
  <1>12. ASSUME NEW t \in Times PROVE SumOn(g, Span(t)) <= 2 * max
    <2>0. Span(t) \in SUBSET Times
      BY DEF Span
    <2>1. CASE k \notin Span(t)
      <3>1. SumOn(g, Span(t)) = SumOn(f, Span(t))
        BY <1>3, <2>0, <2>1, OneMore
      <3> QED BY <1>1, <1>6, <3>1 DEF SpansBounded, Sum
    <2>2. CASE k \in Span(t)
      <3>1. Span(t) \subseteq Before(s) \cup From(s)
        BY <1>7, <2>2, TimesFinite, RateConstants DEF Span, Before, From
      <3>2. PICK U : U = Before(s) \cup From(s)
        OBVIOUS
      <3>3. U \in SUBSET Times /\ Span(t) \in SUBSET U
        BY <1>7, <3>1, <3>2
      <3>4. SumOn(g, Span(t)) <= SumOn(g, U)
        BY <1>8, <3>3, SpanFacts
      <3>5. SumOn(g, U) <= SumOn(g, Before(s)) + SumOn(g, From(s))
        <4>1. \A u \in Times : g[u] \in Nat
          BY <1>8
        <4> QED BY <1>7, <3>2, <4>1, TimesFinite, SumUnion
      <3>6. SumOn(g, Span(t)) \in Int /\ SumOn(g, U) \in Int /\ SumOn(g, Before(s)) \in Int /\ SumOn(g, From(s)) \in Int
        BY <1>7, <1>8, <2>0, <3>3, SpanFacts
      <3> QED BY <1>11, <3>4, <3>5, <3>6
    <2> QED BY <2>1, <2>2
  <1>13. ASSUME NEW d \in Client, NEW t \in Times
         PROVE  SumOn(granted'[d], Span(t)) <= 2 * MAX_REQUESTS_PER_WINDOW
    <2>1. CASE d = c
      BY <1>4, <1>6, <1>12, <2>1
    <2>2. CASE d # c
      BY <1>4, <2>2 DEF SpansBounded, Sum
    <2> QED BY <2>1, <2>2
  <1> QED BY <1>13 DEF SpansBounded, Sum

(***************************************************************************)
(* The entries after a request of c: those that survive are as they were,  *)
(* those that do not had been idle.                                        *)
(***************************************************************************)
LEMMA EntriesAfter ==
    ASSUME RateInv, NEW c \in Client, NEW x \in RateEntry, ipState' = Keep(c, x), clock' = clock,
           granted' \in [Client -> [Times -> Nat]], \A d \in Client : d # c => granted'[d] = granted[d],
           EntryTells(c, x)', x.windowStart <= clock, x.lastSeen = clock,
           x.bannedUntil # NoBan => x.bannedUntil >= x.windowStart + BAN_DURATION,
           bans' \subseteq Client \X Nat \X Nat
    PROVE  RateType' /\ EntriesTell' /\ ForgottenAreIdle'
  <1>1. /\ DOMAIN ipState' = Survivors \cup {c} /\ ipState'[c] = x
        /\ \A d \in Survivors : d # c => ipState'[d] = ipState[d]
    BY DEF Keep
  <1>2. Survivors \subseteq DOMAIN ipState /\ DOMAIN ipState \subseteq Client /\ clock \in Nat /\ clock \in Times
    BY TimesFinite DEF Survivors, RateInv, RateType
  <1>3. RateType'
    <2>1. ASSUME NEW d \in DOMAIN ipState'
          PROVE  /\ ipState'[d] \in RateEntry
                 /\ ipState'[d].windowStart <= ipState'[d].lastSeen
                 /\ ipState'[d].lastSeen <= clock
      <3>1. CASE d = c
        BY <1>1, <1>2, <3>1
      <3>2. CASE d # c
        BY <1>1, <1>2, <3>2 DEF RateInv, RateType
      <3> QED BY <3>1, <3>2
    <2> QED BY <1>1, <1>2, <2>1 DEF RateType
  <1>4. EntriesTell'
    <2>1. ASSUME NEW d \in DOMAIN ipState'
          PROVE  /\ EntryTells(d, ipState[d])'
                 /\ \A u \in Times : granted'[d][u] # 0 => u <= ipState'[d].lastSeen
                 /\ ipState'[d].bannedUntil # NoBan => ipState'[d].bannedUntil >= ipState'[d].windowStart + BAN_DURATION
      <3>1. CASE d = c
        <4>1. EntryTells(d, ipState[d])'
          BY <1>1, <3>1 DEF EntryTells, Sum
        <4>2. \A u \in Times : granted'[c][u] # 0 => u <= clock
          BY DEF EntryTells
        <4> QED BY <1>1, <3>1, <4>1, <4>2
      <3>2. CASE d # c
        <4>1. d \in DOMAIN ipState /\ d \in Client /\ ipState'[d] = ipState[d] /\ granted'[d] = granted[d]
          BY <1>1, <1>2, <3>2
        <4>2. /\ EntryTells(d, ipState[d])
              /\ \A u \in Times : granted[d][u] # 0 => u <= ipState[d].lastSeen
              /\ ipState[d].bannedUntil # NoBan => ipState[d].bannedUntil >= ipState[d].windowStart + BAN_DURATION
          BY <4>1 DEF RateInv, EntriesTell
        <4>3. EntryTells(d, ipState[d])'
          BY <4>1, <4>2 DEF EntryTells, Sum
        <4> QED BY <4>1, <4>2, <4>3
      <3> QED BY <3>1, <3>2
    <2> QED BY <2>1 DEF EntriesTell
  <1>5. ForgottenAreIdle'
    <2> SUFFICES ASSUME NEW d \in Client, d \notin DOMAIN ipState', NEW u \in Times, granted'[d][u] # 0
                 PROVE  u + WINDOW <= clock
      BY DEF ForgottenAreIdle
    <2>1. d # c /\ d \notin Survivors /\ granted[d][u] # 0 /\ u \in Nat
      BY <1>1, TimesFinite
    <2>2. CASE d \notin DOMAIN ipState
      BY <2>1, <2>2 DEF RateInv, ForgottenAreIdle
    <2>3. CASE d \in DOMAIN ipState
      <3>1. u <= ipState[d].lastSeen /\ ipState[d].lastSeen \in Nat
        BY <2>1, <2>3 DEF RateInv, EntriesTell, RateType, RateEntry
      <3>2. clock - ipState[d].lastSeen >= IP_ENTRY_TTL
        BY <1>2, <2>1, <2>3, <3>1, RateConstants DEF Survivors
      <3> QED BY <1>2, <2>1, <3>1, <3>2, RateConstants
    <2> QED BY <2>2, <2>3
  <1> QED BY <1>3, <1>4, <1>5

(***************************************************************************)
(* A ban that runs keeps its entry.                                        *)
(***************************************************************************)
LEMMA OtherBansHold ==
    ASSUME RateInv, NEW c \in Client, NEW x \in RateEntry, ipState' = Keep(c, x), clock' = clock,
           \A d \in Client : d # c => granted'[d] = granted[d], NEW y \in bans, y[1] # c
    PROVE  /\ y[2] <= clock
           /\ clock < y[3] => y[1] \in DOMAIN ipState' /\ ipState'[y[1]].bannedUntil = y[3]
           /\ \A t \in Times : y[2] < t /\ t < y[3] => granted'[y[1]][t] = 0
  <1>1. y[1] \in Client
    BY DEF RateInv, RateType
  <1>2. PICK d \in Client : d = y[1]
    BY <1>1
  <1>3. /\ y[2] <= clock
        /\ clock < y[3] => d \in DOMAIN ipState /\ ipState[d].bannedUntil = y[3]
        /\ \A t \in Times : y[2] < t /\ t < y[3] => granted[d][t] = 0
    BY <1>2 DEF RateInv, BansHold
  <1>4. clock < y[3] => d \in DOMAIN ipState' /\ ipState'[d] = ipState[d]
    BY <1>2, <1>3 DEF Keep, Survivors
  <1>5. granted'[d] = granted[d]
    BY <1>2
  <1> QED BY <1>2, <1>3, <1>4, <1>5

LEMMA BannedStep ==
    ASSUME RateInv, NEW c \in Client, Banned(c), clock' = clock,
           ipState' = Keep(c, [ipState[c] EXCEPT !.lastSeen = clock]), UNCHANGED <<granted, bans>>
    PROVE  RateInv'
  <1>1. PICK x : x = [ipState[c] EXCEPT !.lastSeen = clock]
    OBVIOUS
  <1>2. c \in DOMAIN ipState /\ ipState[c] \in RateEntry /\ clock \in Nat /\ ipState[c].windowStart <= clock
    BY TimesFinite DEF Banned, Survivors, RateInv, RateType, RateEntry
  <1>3. /\ x \in RateEntry /\ x.lastSeen = clock /\ x.windowStart = ipState[c].windowStart /\ x.count = ipState[c].count
        /\ x.bannedUntil = ipState[c].bannedUntil
    BY <1>1, <1>2 DEF RateEntry
  <1>4. /\ EntryTells(c, ipState[c])
        /\ ipState[c].bannedUntil # NoBan => ipState[c].bannedUntil >= ipState[c].windowStart + BAN_DURATION
    BY <1>2 DEF RateInv, EntriesTell
  <1>5. EntryTells(c, x)'
    BY <1>3, <1>4 DEF EntryTells, Sum
  <1>6. granted' \in [Client -> [Times -> Nat]] /\ bans' \subseteq Client \X Nat \X Nat /\ \A d \in Client : granted'[d] = granted[d]
    BY DEF RateInv, RateType
  <1>7. ipState' = Keep(c, x)
    BY <1>1
  <1>8. RateType' /\ EntriesTell' /\ ForgottenAreIdle'
    BY <1>2, <1>3, <1>4, <1>5, <1>6, <1>7, EntriesAfter
  <1>9. SpansBounded'
    BY DEF RateInv, SpansBounded, Sum
  <1>10. BansHold'
    <2>1. ASSUME NEW y \in bans
          PROVE  /\ y[2] <= clock
                 /\ clock < y[3] => y[1] \in DOMAIN ipState' /\ ipState'[y[1]].bannedUntil = y[3]
                 /\ \A t \in Times : y[2] < t /\ t < y[3] => granted'[y[1]][t] = 0
      <3>1. CASE y[1] # c
        BY <1>3, <1>6, <1>7, <3>1, OtherBansHold
      <3>2. CASE y[1] = c
        <4>1. c \in DOMAIN ipState' /\ ipState'[c] = x
          BY <1>7 DEF Keep
        <4> QED BY <1>3, <3>2, <4>1 DEF RateInv, BansHold
      <3> QED BY <3>1, <3>2
    <2> QED BY <2>1 DEF BansHold
  <1> QED BY <1>8, <1>9, <1>10 DEF RateInv

LEMMA CountedStep ==
    ASSUME RateInv, NEW c \in Client, ~Banned(c), CheckRequest(c)
    PROVE  RateInv'
  <1>1. PICK e : e = Entry(c)
    OBVIOUS
  <1>2. /\ e \in RateEntry /\ EntryTells(c, e) /\ e.windowStart <= clock /\ clock < e.windowStart + WINDOW
        /\ e.lastSeen = clock /\ e.bannedUntil = NoBan
    BY <1>1, EntryIsTrue
  <1>3. PICK n \in Nat : n = e.count + 1
    BY <1>2 DEF RateEntry
  <1>4. PICK x : x = [e EXCEPT !.count = n, !.bannedUntil = IF n > BAN_THRESHOLD THEN clock + BAN_DURATION ELSE @]
    OBVIOUS
  <1>5. /\ ipState' = Keep(c, x) /\ clock' = clock
        /\ bans' = IF n > BAN_THRESHOLD THEN bans \cup {<<c, clock, clock + BAN_DURATION>>} ELSE bans
        /\ granted' = IF n > MAX_REQUESTS_PER_WINDOW THEN granted
                      ELSE [granted EXCEPT ![c][clock] = granted[c][clock] + 1]
    BY <1>1, <1>3, <1>4 DEF CheckRequest
  <1>6. /\ clock \in Times /\ clock \in Nat /\ granted \in [Client -> [Times -> Nat]] /\ BAN_DURATION \in Nat /\ BAN_DURATION > 0
        /\ bans \subseteq Client \X Nat \X Nat /\ RateType /\ SpansBounded
    BY TimesFinite, RateConstants DEF RateInv, RateType
  <1>7. /\ x \in RateEntry /\ x.windowStart = e.windowStart /\ x.lastSeen = clock /\ x.count = n
        /\ n > BAN_THRESHOLD => x.bannedUntil = clock + BAN_DURATION
        /\ ~(n > BAN_THRESHOLD) => x.bannedUntil = NoBan
    <2>1. clock + BAN_DURATION \in Nat
      BY <1>6
    <2>2. CASE n > BAN_THRESHOLD
      BY <1>2, <1>4, <2>1, <2>2 DEF RateEntry
    <2>3. CASE ~(n > BAN_THRESHOLD)
      BY <1>2, <1>4, <2>3 DEF RateEntry
    <2> QED BY <2>2, <2>3
  <1>8. x.bannedUntil # NoBan => x.bannedUntil >= x.windowStart + BAN_DURATION
    BY <1>2, <1>6, <1>7 DEF RateEntry
  <1>9. EntryTells(c, x)' /\ SpansBounded' /\ granted' \in [Client -> [Times -> Nat]]
        /\ \A d \in Client : d # c => granted'[d] = granted[d]
    <2>1. CASE n > MAX_REQUESTS_PER_WINDOW
      <3>1. granted' = granted
        BY <1>5, <2>1
      <3>2. Sum(c, From(e.windowStart)) \in Int
        <4>1. granted[c] \in [Times -> Nat] /\ From(e.windowStart) \in SUBSET Times
          BY <1>6 DEF From
        <4> QED BY <4>1, SpanFacts DEF Sum
      <3>3. e.count \in Nat
        BY <1>2 DEF RateEntry
      <3>4. Sum(c, From(e.windowStart)) <= n
        BY <1>2, <1>3, <3>2, <3>3 DEF EntryTells
      <3>5. EntryTells(c, x)'
        BY <1>2, <1>5, <1>7, <3>1, <3>4 DEF EntryTells, Sum
      <3>6. SpansBounded'
        BY <1>6, <3>1 DEF SpansBounded, Sum
      <3> QED BY <1>6, <3>1, <3>5, <3>6
    <2>2. CASE ~(n > MAX_REQUESTS_PER_WINDOW)
      <3>1. n <= MAX_REQUESTS_PER_WINDOW /\ granted' = [granted EXCEPT ![c][clock] = granted[c][clock] + 1]
        BY <1>5, <2>2, RateConstants
      <3>2. EntryTells(c, x)'
        BY <1>2, <1>3, <1>5, <1>6, <1>7, <3>1, GrantTells
      <3>3. SpansBounded'
        BY <1>2, <1>3, <1>6, <3>1, GrantBounds
      <3>4. granted' \in [Client -> [Times -> Nat]] /\ \A d \in Client : d # c => granted'[d] = granted[d]
        BY <1>6, <3>1
      <3> QED BY <3>2, <3>3, <3>4
    <2> QED BY <2>1, <2>2
  <1>10. bans' \subseteq Client \X Nat \X Nat
    BY <1>5, <1>6
  <1>11. RateType' /\ EntriesTell' /\ ForgottenAreIdle'
    BY <1>2, <1>5, <1>7, <1>8, <1>9, <1>10, EntriesAfter
  <1>12. c \in DOMAIN ipState' /\ ipState'[c] = x
    BY <1>5 DEF Keep
  <1>13. BansHold'
    <2>1. ASSUME NEW y \in bans
          PROVE  /\ y[2] <= clock
                 /\ clock < y[3] => y[1] \in DOMAIN ipState' /\ ipState'[y[1]].bannedUntil = y[3]
                 /\ \A t \in Times : y[2] < t /\ t < y[3] => granted'[y[1]][t] = 0
      <3>1. CASE y[1] # c
        BY <1>5, <1>7, <1>9, <3>1, OtherBansHold
      <3>2. CASE y[1] = c
        <4>1. y[2] <= clock /\ ~(clock < y[3]) /\ \A t \in Times : y[2] < t /\ t < y[3] => granted[c][t] = 0
          <5>1. /\ y[2] <= clock
                /\ clock < y[3] => c \in DOMAIN ipState /\ ipState[c].bannedUntil = y[3]
                /\ \A t \in Times : y[2] < t /\ t < y[3] => granted[c][t] = 0
            BY <3>2 DEF RateInv, BansHold
          <5> QED BY <5>1 DEF Banned, Survivors
        <4>2. ASSUME NEW t \in Times, y[2] < t, t < y[3] PROVE granted'[c][t] = 0
          <5>1. t # clock /\ granted[c][t] = 0
            BY <4>1, <4>2
          <5>2. granted'[c][t] = granted[c][t]
            <6>1. CASE n > MAX_REQUESTS_PER_WINDOW
              BY <1>5, <6>1
            <6>2. CASE ~(n > MAX_REQUESTS_PER_WINDOW)
              BY <1>5, <1>6, <5>1, <6>2
            <6> QED BY <6>1, <6>2
          <5> QED BY <5>1, <5>2
        <4> QED BY <3>2, <4>1, <4>2
      <3> QED BY <3>1, <3>2
    <2>2. ASSUME NEW y, y = <<c, clock, clock + BAN_DURATION>>, n > BAN_THRESHOLD
          PROVE  /\ y[2] <= clock
                 /\ clock < y[3] => y[1] \in DOMAIN ipState' /\ ipState'[y[1]].bannedUntil = y[3]
                 /\ \A t \in Times : y[2] < t /\ t < y[3] => granted'[y[1]][t] = 0
      <3>1. y[1] = c /\ y[2] = clock /\ y[3] = clock + BAN_DURATION
        BY <2>2
      <3>2. \A t \in Times : granted'[c][t] # 0 => t <= clock
        BY <1>5, <1>9 DEF EntryTells
      <3>3. ASSUME NEW t \in Times, clock < t PROVE granted'[c][t] = 0
        <4>1. t \in Nat /\ clock \in Nat
          BY <1>6, TimesFinite
        <4> QED BY <3>2, <3>3, <4>1
      <3> QED BY <1>6, <1>7, <1>12, <2>2, <3>1, <3>3
    <2>3. CASE n > BAN_THRESHOLD
      BY <1>5, <2>1, <2>2, <2>3 DEF BansHold
    <2>4. CASE ~(n > BAN_THRESHOLD)
      BY <1>5, <2>1, <2>4 DEF BansHold
    <2> QED BY <2>3, <2>4
  <1> QED BY <1>9, <1>11, <1>13 DEF RateInv

LEMMA TickStep ==
    ASSUME RateInv, Tick
    PROVE  RateInv'
  <1>1. /\ clock \in Nat /\ clock' = clock + 1 /\ clock' \in Times /\ ipState' = ipState /\ granted' = granted /\ bans' = bans
    BY TimesFinite DEF RateInv, RateType, Tick, Times
  <1>2. RateType'
    <2>1. ASSUME NEW c \in DOMAIN ipState PROVE ipState[c].lastSeen <= clock'
      BY <1>1 DEF RateInv, RateType, RateEntry
    <2> QED BY <1>1, <2>1 DEF RateInv, RateType
  <1>3. EntriesTell'
    <2>1. ASSUME NEW c \in DOMAIN ipState PROVE EntryTells(c, ipState[c])'
      <3>1. EntryTells(c, ipState[c])
        BY DEF RateInv, EntriesTell
      <3>2. \A u \in Times : granted[c][u] # 0 => u <= clock'
        BY <1>1, <3>1, TimesFinite DEF EntryTells
      <3> QED BY <1>1, <3>1, <3>2 DEF EntryTells, Sum
    <2> QED BY <1>1, <2>1 DEF RateInv, EntriesTell
  <1>4. ForgottenAreIdle'
    <2> SUFFICES ASSUME NEW c \in Client, c \notin DOMAIN ipState, NEW u \in Times, granted[c][u] # 0
                 PROVE  u + WINDOW <= clock'
      BY <1>1 DEF ForgottenAreIdle
    <2>1. u + WINDOW <= clock /\ u \in Nat /\ WINDOW \in Nat
      BY TimesFinite, RateConstants DEF RateInv, ForgottenAreIdle
    <2> QED BY <1>1, <2>1
  <1>5. SpansBounded'
    BY <1>1 DEF RateInv, SpansBounded, Sum
  <1>6. BansHold'
    <2>1. ASSUME NEW y \in bans PROVE y[2] <= clock' /\ (clock' < y[3] => clock < y[3])
      <3>1. y[2] \in Nat /\ y[3] \in Nat /\ y[2] <= clock
        BY DEF RateInv, RateType, BansHold
      <3> QED BY <1>1, <3>1
    <2> QED BY <1>1, <2>1 DEF RateInv, BansHold
  <1> QED BY <1>2, <1>3, <1>4, <1>5, <1>6 DEF RateInv

LEMMA RateInvInit == RateInit => RateInv
  <1> SUFFICES ASSUME RateInit PROVE RateInv
    OBVIOUS
  <1>1. clock = 1 /\ DOMAIN ipState = {} /\ bans = {} /\ granted = [c \in Client |-> [t \in Times |-> 0]]
    BY DEF RateInit, Times
  <1>2. RateType
    BY <1>1, TimesFinite DEF RateType
  <1>3. EntriesTell /\ ForgottenAreIdle /\ BansHold
    BY <1>1 DEF EntriesTell, ForgottenAreIdle, BansHold
  <1>4. SpansBounded
    <2> SUFFICES ASSUME NEW c \in Client, NEW t \in Times PROVE Sum(c, Span(t)) <= 2 * MAX_REQUESTS_PER_WINDOW
      BY DEF SpansBounded
    <2>1. granted[c] \in [Times -> Nat] /\ Span(t) \in SUBSET Times /\ \A u \in Span(t) : granted[c][u] = 0
      BY <1>1 DEF Span
    <2>2. Sum(c, Span(t)) = 0
      BY <2>1, SpanFacts DEF Sum
    <2> QED BY <2>2, RateConstants
  <1> QED BY <1>2, <1>3, <1>4 DEF RateInv

LEMMA RateInvStep == RateInv /\ [RateNext]_rateVars => RateInv'
  <1> SUFFICES ASSUME RateInv, [RateNext]_rateVars PROVE RateInv'
    OBVIOUS
  <1>1. CASE Tick
    BY <1>1, TickStep
  <1>2. ASSUME NEW c \in Client, CheckRequest(c) PROVE RateInv'
    <2>1. CASE Banned(c)
      BY <1>2, <2>1, BannedStep DEF CheckRequest
    <2>2. CASE ~Banned(c)
      BY <1>2, <2>2, CountedStep
    <2> QED BY <2>1, <2>2
  <1>3. CASE UNCHANGED rateVars
    BY <1>3 DEF rateVars, RateInv, RateType, EntriesTell, EntryTells, ForgottenAreIdle, SpansBounded, BansHold, Sum
  <1> QED BY <1>1, <1>2, <1>3 DEF RateNext

(***************************************************************************)
(* A client gets at most two windows' worth of requests in any span as     *)
(* long as a window, and none while it is banned, for any limits and any   *)
(* lengths: the limiter counts only what its current entry saw, and that   *)
(* is enough because a window is never started within WINDOW of the last   *)
(* one, neither after a ban nor after an entry was dropped (`check`).      *)
(***************************************************************************)
THEOREM GrantsBounded == RateSpec => []GrantsAreBounded
  <1>1. RateInv => GrantsAreBounded
    BY BurstIs DEF RateInv, SpansBounded, BansHold, GrantsAreBounded, Times
  <1> QED BY <1>1, RateInvInit, RateInvStep, PTL DEF RateSpec

-----------------------------------------------------------------------------
(***************************************************************************)
(* PeerBudget.  The score holds what the connection was charged from any   *)
(* message on, but for the points that faded since; and the counter of     *)
(* verifications counts blocks received in its window.                     *)
(***************************************************************************)
Meter == [start : Nat, count : Nat]

Receipt == [at : Nat, kind : MessageKind, charge : Nat]

BudgetType ==
    /\ second \in Nat /\ second <= MaxSeconds
    /\ meter \in [rate : Meter, stark : Meter, score : Nat, lastDecay : Nat]
    /\ meter.lastDecay <= second
    /\ meter.stark.start <= second
    /\ fate \in {"open", "flood", "oversize", "banned"}
    /\ history \in Seq(Receipt)
    /\ \A i \in 1..Len(history) : history[i].at <= second

Charges == [j \in 1..Len(history) |-> history[j].charge]

Charged(i) == SumOn(Charges, i..Len(history))

Blocks(t) == {i \in 1..Len(history) : /\ history[i].kind = "block"
                                      /\ t <= history[i].at /\ history[i].at < t + STARK_WINDOW}

Innocent == \A i \in 1..Len(history) : history[i].kind \in {"plain", "block"}

FadedTimes(k, i) == k = 0 \/ (k - 1) * BAN_DECAY_INTERVAL <= meter.lastDecay - history[i].at

ChargesRemembered ==
    fate = "open" =>
        /\ meter.score < BAN_SCORE_THRESHOLD
        /\ \A i \in 1..Len(history) : \E k \in Nat :
              /\ FadedTimes(k, i)
              /\ Charged(i) <= meter.score + k * BAN_DECAY_POINTS

BlocksCounted ==
    Innocent => /\ fate = "open" => meter.stark.count <= Cardinality(Blocks(meter.stark.start))
                /\ fate = "banned" => \E t \in 0..MaxSeconds : Cardinality(Blocks(t)) > STARK_LIMIT

BudgetInv == BudgetType /\ ChargesRemembered /\ BlocksCounted

LEMMA SumOfCharges ==
    ASSUME NEW h, NEW S, IsFiniteSet(S), NEW f, \A j \in S : f[j] = h[j].charge
    PROVE  MapThenSumSet(LAMBDA j : h[j].charge, S) = SumOn(f, S)
  <1> DEFINE V(g, s) == IF s = {} THEN 0 ELSE h[Pick(s)].charge + g[s \ {Pick(s)}]
             W(g, s) == IF s = {} THEN 0 ELSE f[Pick(s)] + g[s \ {Pick(s)}]
             IsIt(g) == g = [s \in SUBSET S |-> V(g, s)]
  <1>1. MapThenSumSet(LAMBDA j : h[j].charge, S) = (CHOOSE g : IsIt(g))[S]
    BY DEF MapThenSumSet, MapThenFoldSet, Pick
  <1>2. ASSUME NEW g PROVE IsIt(g) <=> IsSum(f, S, g)
    <2>1. ASSUME NEW s \in SUBSET S PROVE V(g, s) = W(g, s)
      <3>1. CASE s = {}
        BY <3>1
      <3>2. CASE s # {}
        <4>1. Pick(s) \in S
          BY <3>2, PickIs
        <4> QED BY <4>1
      <3> QED BY <3>1, <3>2
    <2>2. IsSum(f, S, g) <=> g = [s \in SUBSET S |-> W(g, s)]
      BY DEF IsSum
    <2>3. [s \in SUBSET S |-> V(g, s)] = [s \in SUBSET S |-> W(g, s)]
      <3> HIDE DEF V, W
      <3> QED BY <2>1
    <2> QED BY <2>2, <2>3
  <1> HIDE DEF IsIt, V, W
  <1>3. PICK g0 : IsSum(f, S, g0)
    BY SumExists
  <1>4. PICK m : m = (CHOOSE g : IsIt(g)) /\ IsIt(m)
    BY <1>2, <1>3
  <1>5. PICK q : q = (CHOOSE g : IsSum(f, S, g)) /\ IsSum(f, S, q)
    BY <1>3
  <1>6. IsSum(f, S, m)
    BY <1>2, <1>4
  <1>7. m[S] = q[S]
    BY <1>5, <1>6, SumsAgree
  <1> QED BY <1>1, <1>4, <1>5, <1>7 DEF SumOn

LEMMA ReceiptsTyped ==
    ASSUME BudgetType
    PROVE  /\ Len(history) \in Nat
           /\ \A j \in 1..Len(history) : /\ history[j] \in Receipt /\ history[j].charge \in Nat
                                         /\ history[j].at \in Nat /\ history[j].kind \in MessageKind
  <1>1. Len(history) \in Nat /\ \A j \in 1..Len(history) : history[j] \in Receipt
    BY DEF BudgetType
  <1>2. \A r \in Receipt : r.charge \in Nat /\ r.at \in Nat /\ r.kind \in MessageKind
    BY DEF Receipt
  <1> QED BY <1>1, <1>2

LEMMA ChargedIs ==
    ASSUME BudgetType, NEW i \in 1..Len(history)
    PROVE  /\ MapThenSumSet(LAMBDA j : history[j].charge, i..Len(history)) = Charged(i)
           /\ Charged(i) \in Int
  <1>1. Len(history) \in Nat /\ \A j \in 1..Len(history) : history[j].charge \in Nat
    BY ReceiptsTyped
  <1>2. PICK S : S = i..Len(history)
    OBVIOUS
  <1>3. IsFiniteSet(S) /\ S \subseteq 1..Len(history)
    <2>1. IsFiniteSet(i..Len(history))
      BY <1>1, FS_Interval
    <2> QED BY <1>1, <1>2, <2>1
  <1>4. PICK f : f = Charges
    OBVIOUS
  <1>5. (\A j \in S : f[j] = history[j].charge) /\ (\A j \in S : f[j] \in Int)
    BY <1>1, <1>3, <1>4 DEF Charges
  <1>6. MapThenSumSet(LAMBDA j : history[j].charge, S) = SumOn(f, S)
    BY <1>3, <1>5, SumOfCharges
  <1>7. SumOn(f, S) \in Int
    BY <1>3, <1>5, SumType
  <1> QED BY <1>2, <1>4, <1>6, <1>7 DEF Charged

(***************************************************************************)
(* With one more message, the charge of the last is added to every sum.    *)
(***************************************************************************)
LEMMA ChargedMore ==
    ASSUME BudgetType, NEW r \in Receipt, history' = Append(history, r)
    PROVE  /\ Len(history') = Len(history) + 1 /\ history'[Len(history) + 1] = r
           /\ \A i \in 1..Len(history) : history'[i] = history[i] /\ Charged(i)' = Charged(i) + r.charge
           /\ \A i : i = Len(history) + 1 => Charged(i)' = r.charge
  <1>1. PICK n \in Nat : n = Len(history)
    BY DEF BudgetType
  <1>2. Len(history') = n + 1 /\ history'[n + 1] = r /\ \A i \in 1..n : history'[i] = history[i]
    BY <1>1 DEF BudgetType
  <1>3. (\A j \in 1..n : history[j].charge \in Nat) /\ r.charge \in Nat
    BY <1>1, ReceiptsTyped DEF Receipt
  <1>4. PICK f : f = [j \in 1..n |-> history[j].charge]
    OBVIOUS
  <1>5. PICK g : g = [j \in 1..(n + 1) |-> history'[j].charge]
    OBVIOUS
  <1>6. (\A j \in 1..n : f[j] = history[j].charge /\ g[j] = f[j] /\ f[j] \in Nat) /\ g[n + 1] = r.charge
    BY <1>2, <1>3, <1>4, <1>5
  <1>7. Charges = f /\ Charges' = g
    BY <1>1, <1>2, <1>4, <1>5 DEF Charges
  <1>8. ASSUME NEW i \in 1..(n + 1)
        PROVE  SumOn(g, i..(n + 1)) = r.charge + SumOn(f, i..n) /\ SumOn(f, i..n) \in Int
    <2>1. PICK S, T : S = i..(n + 1) /\ T = i..n
      OBVIOUS
    <2>2. /\ IsFiniteSet(S) /\ IsFiniteSet(T) /\ n + 1 \in S /\ S \ {n + 1} = T /\ T \subseteq 1..n
          /\ S \subseteq 1..(n + 1)
      <3>1. n + 1 \in Nat /\ i \in Int
        OBVIOUS
      <3>2. IsFiniteSet(S) /\ IsFiniteSet(T)
        BY <2>1, <3>1, FS_Interval
      <3>3. n + 1 \in S /\ S \ {n + 1} = T /\ T \subseteq 1..n /\ S \subseteq 1..(n + 1)
        BY <2>1
      <3> QED BY <3>2, <3>3
    <2>3. (\A j \in S : g[j] \in Int) /\ (\A j \in T : g[j] = f[j]) /\ (\A j \in T : f[j] \in Int)
      BY <1>3, <1>6, <2>2
    <2>4. PICK k : k = n + 1
      OBVIOUS
    <2>5. SumOn(g, S) = g[k] + SumOn(g, S \ {k})
      <3>1. k \in S
        BY <2>2, <2>4
      <3>2. IsFiniteSet(S)
        BY <2>2
      <3>3. PICK h : h = g
        OBVIOUS
      <3>4. \A j \in S : h[j] \in Int
        BY <2>3, <3>3
      <3>5. SumOn(h, S) = h[k] + SumOn(h, S \ {k})
        BY <3>1, <3>2, <3>4, SumRemove
      <3> QED BY <3>3, <3>5
    <2>6. SumOn(g, T) = SumOn(f, T) /\ SumOn(f, T) \in Int
      BY <2>2, <2>3, SumSame, SumType
    <2> QED BY <1>6, <2>1, <2>2, <2>4, <2>5, <2>6
  <1>9. ASSUME NEW i \in 1..n PROVE Charged(i)' = Charged(i) + r.charge
    BY <1>1, <1>2, <1>3, <1>7, <1>8 DEF Charged
  <1>10. Charged(n + 1)' = r.charge
    <2>1. (n + 1)..n = {} /\ SumOn(f, {}) = 0
      BY SumEmpty
    <2>2. SumOn(g, (n + 1)..(n + 1)) = r.charge
      <3>1. n + 1 \in 1..(n + 1)
        OBVIOUS
      <3>2. SumOn(g, (n + 1)..(n + 1)) = r.charge + SumOn(f, (n + 1)..n)
        BY <1>8, <3>1
      <3> QED BY <1>3, <2>1, <3>2
    <2> QED BY <1>1, <1>2, <1>7, <2>2 DEF Charged
  <1> QED BY <1>1, <1>2, <1>9, <1>10

Paced(old, c, new) ==
    \/ new.score = old.score + c /\ new.lastDecay = old.lastDecay
    \/ /\ second - old.lastDecay >= BAN_DECAY_INTERVAL
       /\ new.lastDecay = second
       /\ new.score >= old.score + c - BAN_DECAY_POINTS /\ new.score <= old.score + c

LEMMA PenaltyType ==
    ASSUME NEW kind \in MessageKind
    PROVE  Penalty(kind) \in Nat
  BY BudgetConstants DEF Penalty

LEMMA FadedType ==
    ASSUME NEW score \in Nat, NEW since \in Nat, second \in Nat, since <= second
    PROVE  /\ Faded(score, since).score \in Nat /\ Faded(score, since).lastDecay \in Nat
           /\ Faded(score, since).lastDecay <= second
           /\ \/ Faded(score, since).score = score /\ Faded(score, since).lastDecay = since
              \/ /\ second - since >= BAN_DECAY_INTERVAL
                 /\ Faded(score, since).lastDecay = second
                 /\ Faded(score, since).score >= score - BAN_DECAY_POINTS /\ Faded(score, since).score <= score
  <1>1. BAN_DECAY_POINTS \in Nat /\ BAN_DECAY_INTERVAL \in Nat
    BY BudgetConstants
  <1>2. CASE second - since < BAN_DECAY_INTERVAL
    BY <1>2 DEF Faded
  <1>3. CASE ~(second - since < BAN_DECAY_INTERVAL) /\ score > BAN_DECAY_POINTS
    BY <1>1, <1>3 DEF Faded
  <1>4. CASE ~(second - since < BAN_DECAY_INTERVAL) /\ ~(score > BAN_DECAY_POINTS)
    BY <1>1, <1>4 DEF Faded
  <1> QED BY <1>2, <1>3, <1>4

LEMMA MetersType ==
    ASSUME NEW w \in Meter, second \in Nat
    PROVE  Record(w) \in Meter /\ ConsumeBudget(w) \in Meter
  <1>1. w.start \in Nat /\ w.count \in Nat /\ w.count + 1 \in Nat
    BY DEF Meter
  <1>2. Record(w) \in Meter
    BY <1>1 DEF Record, Meter
  <1>3. ConsumeBudget(w) \in Meter
    BY <1>1 DEF ConsumeBudget, Meter
  <1> QED BY <1>2, <1>3

LEMMA Received ==
    ASSUME BudgetType, NEW kind \in MessageKind, ReceiveMessage(kind)
    PROVE  \E c \in Nat :
             /\ fate = "open"
             /\ history' = Append(history, [at |-> second, kind |-> kind, charge |-> c])
             /\ meter' \in [rate : Meter, stark : Meter, score : Nat, lastDecay : Nat]
             /\ meter'.lastDecay <= second
             /\ Paced(meter, c, meter')
             /\ fate' \in {"open", "flood", "oversize", "banned"}
             /\ fate' = "open" => meter.score + c < BAN_SCORE_THRESHOLD
             /\ fate' = "banned" => meter.score + c >= BAN_SCORE_THRESHOLD
             /\ second' = second
             /\ kind = "plain" => c = 0 /\ meter'.stark = meter.stark
             /\ kind = "block" /\ fate' # "flood" =>
                   meter'.stark = ConsumeBudget(meter.stark) /\ (c # 0 => ~Granted(meter.stark))
             /\ meter'.stark \in {meter.stark, ConsumeBudget(meter.stark)}
  <1> DEFINE tooBig == OverTypeCap(kind)
             flood == ~tooBig /\ ~WithinRate(meter.rate)
             charge == IF flood THEN 0 ELSE Penalty(kind)
  <1>1. charge \in Nat
    BY PenaltyType
  <1>2. PICK c \in Nat : c = charge
    BY <1>1
  <1>3. /\ second \in Nat /\ meter.rate \in Meter /\ meter.stark \in Meter /\ meter.score \in Nat
        /\ meter.lastDecay \in Nat /\ meter.lastDecay <= second
    BY DEF BudgetType
  <1>4. PICK m \in Nat : m = meter.score + c
    BY <1>3
  <1>5. PICK f : f = Faded(m, meter.lastDecay)
    OBVIOUS
  <1>6. /\ f.score \in Nat /\ f.lastDecay \in Nat /\ f.lastDecay <= second
        /\ \/ f.score = m /\ f.lastDecay = meter.lastDecay
           \/ /\ second - meter.lastDecay >= BAN_DECAY_INTERVAL
              /\ f.lastDecay = second
              /\ f.score >= m - BAN_DECAY_POINTS /\ f.score <= m
    BY <1>3, <1>5, FadedType
  <1>7. PICK r \in Meter : r = IF tooBig THEN meter.rate ELSE Record(meter.rate)
    BY <1>3, MetersType
  <1>8. PICK st \in Meter : st = IF (~tooBig /\ ~flood) /\ NeedsVerify(kind) THEN ConsumeBudget(meter.stark) ELSE meter.stark
    BY <1>3, MetersType
  <1>9. meter' = [rate |-> r, stark |-> st, score |-> f.score, lastDecay |-> f.lastDecay]
    BY <1>2, <1>4, <1>5, <1>7, <1>8 DEF ReceiveMessage
  <1>10. /\ fate = "open" /\ second' = second /\ history' = Append(history, [at |-> second, kind |-> kind, charge |-> c])
         /\ fate' = IF flood THEN "flood" ELSE IF ~(m >= BAN_SCORE_THRESHOLD) THEN "open" ELSE IF tooBig THEN "oversize" ELSE "banned"
    BY <1>2, <1>4 DEF ReceiveMessage
  <1>11. /\ meter' \in [rate : Meter, stark : Meter, score : Nat, lastDecay : Nat]
         /\ meter'.score = f.score /\ meter'.lastDecay = f.lastDecay /\ meter'.stark = st
    BY <1>6, <1>9
  <1>12. Paced(meter, c, meter') /\ meter'.lastDecay <= second
    <2>1. meter'.score = f.score /\ meter'.lastDecay = f.lastDecay
      BY <1>11
    <2>2. CASE f.score = m /\ f.lastDecay = meter.lastDecay
      BY <1>3, <1>4, <2>1, <2>2 DEF Paced
    <2>3. CASE /\ second - meter.lastDecay >= BAN_DECAY_INTERVAL /\ f.lastDecay = second
               /\ f.score >= m - BAN_DECAY_POINTS /\ f.score <= m
      BY <1>3, <1>4, <1>6, <2>1, <2>3, BudgetConstants DEF Paced
    <2>4. meter'.lastDecay <= second
      BY <1>6, <2>1
    <2> QED BY <1>6, <2>2, <2>3, <2>4
  <1>13. /\ fate' \in {"open", "flood", "oversize", "banned"}
         /\ fate' = "open" => ~flood /\ m < BAN_SCORE_THRESHOLD
         /\ fate' = "banned" => ~flood /\ m >= BAN_SCORE_THRESHOLD
         /\ fate' # "flood" => ~flood
    <2>1. m < BAN_SCORE_THRESHOLD <=> ~(m >= BAN_SCORE_THRESHOLD)
      BY BudgetConstants
    <2> HIDE DEF tooBig, flood
    <2> QED BY <1>10, <2>1
  <1>14. kind = "plain" => c = 0 /\ st = meter.stark
    BY <1>2, <1>8 DEF Penalty, NeedsVerify
  <1>15. kind = "block" => ~tooBig /\ NeedsVerify(kind)
    BY DEF OverTypeCap, NeedsVerify
  <1>16. kind = "block" /\ ~flood => st = ConsumeBudget(meter.stark)
    BY <1>8, <1>15
  <1>17. kind = "block" /\ ~flood /\ c # 0 => ~Granted(meter.stark)
    BY <1>2, <1>15 DEF Penalty, Verified, NeedsVerify
  <1>18. st \in {meter.stark, ConsumeBudget(meter.stark)}
    BY <1>8
  <1> QED BY <1>4, <1>10, <1>11, <1>12, <1>13, <1>14, <1>16, <1>17, <1>18

(***************************************************************************)
(* Arithmetic of the points that fade.                                     *)
(***************************************************************************)
LEMMA TimesMore ==
    ASSUME NEW k \in Nat, NEW n \in Nat
    PROVE  (k + 1) * n = k * n + n /\ k * n \in Nat
  OBVIOUS

LEMMA TimesGrows ==
    ASSUME NEW k \in Nat, NEW m \in Nat, NEW n \in Nat, k <= m
    PROVE  k * n <= m * n /\ m * n \in Nat
  OBVIOUS

LEMMA FadesFit ==
    ASSUME NEW k \in Nat, NEW d \in Nat, NEW n \in Nat, n # 0, k = 0 \/ (k - 1) * n <= d
    PROVE  k <= d \div n + 1 /\ d \div n \in Nat
  <1>1. PICK q \in Nat : q = d \div n
    OBVIOUS
  <1>2. d < (q + 1) * n
    BY <1>1
  <1>3. CASE k = 0
    BY <1>1, <1>3
  <1>4. CASE k # 0
    <2>1. PICK j \in Nat : j = k - 1
      BY <1>4
    <2>2. j * n <= d
      BY <1>4, <2>1
    <2>3. ~(q + 1 <= j)
      <3> SUFFICES ASSUME q + 1 <= j PROVE FALSE
        OBVIOUS
      <3>1. (q + 1) * n <= j * n /\ j * n \in Nat
        BY TimesGrows
      <3>2. (q + 1) * n \in Nat
        OBVIOUS
      <3> QED BY <1>2, <2>2, <3>1, <3>2
    <2> QED BY <1>1, <2>1, <2>3
  <1> QED BY <1>3, <1>4

(***************************************************************************)
(* One more point that fades, an interval after the last.                  *)
(***************************************************************************)
LEMMA OneMoreFade ==
    ASSUME NEW k \in Nat, NEW n \in Nat, NEW last \in Nat, NEW t0 \in Nat, NEW at \in Nat,
           k = 0 \/ (k - 1) * n <= last - at, t0 - last >= n, at <= t0
    PROVE  k * n <= t0 - at
  <1>1. CASE k = 0
    <2>1. k * n = 0
      BY <1>1
    <2> QED BY <2>1
  <1>2. CASE k # 0
    <2>1. PICK j \in Nat : j = k - 1
      BY <1>2
    <2>2. j * n <= last - at
      BY <1>2, <2>1
    <2>3. k * n = j * n + n /\ j * n \in Nat
      <3>1. k = j + 1
        BY <2>1
      <3> QED BY <3>1, TimesMore
    <2>4. PICK p \in Nat, q \in Nat : p = j * n /\ q = k * n
      BY <2>3
    <2>5. q = p + n /\ p <= last - at
      BY <2>2, <2>3, <2>4
    <2>6. q <= t0 - at
      BY <2>5
    <2> QED BY <2>4, <2>6
  <1> QED BY <1>1, <1>2

LEMMA ReceiveRemembers ==
    ASSUME BudgetType, ChargesRemembered, NEW kind \in MessageKind, ReceiveMessage(kind)
    PROVE  ChargesRemembered'
  <1> SUFFICES ASSUME fate' = "open" PROVE ChargesRemembered'
    BY DEF ChargesRemembered
  <1>1. PICK c \in Nat :
             /\ fate = "open"
             /\ history' = Append(history, [at |-> second, kind |-> kind, charge |-> c])
             /\ meter' \in [rate : Meter, stark : Meter, score : Nat, lastDecay : Nat]
             /\ Paced(meter, c, meter')
             /\ meter.score + c < BAN_SCORE_THRESHOLD
    BY Received
  <1>2. PICK r \in Receipt : r = [at |-> second, kind |-> kind, charge |-> c]
    BY DEF Receipt, BudgetType
  <1>3. r.at = second /\ r.charge = c /\ history' = Append(history, r)
    BY <1>1, <1>2
  <1>4. PICK n \in Nat : n = Len(history)
    BY ReceiptsTyped
  <1>5. /\ Len(history') = n + 1 /\ history'[n + 1] = r
        /\ \A i \in 1..n : history'[i] = history[i] /\ Charged(i)' = Charged(i) + c
        /\ Charged(n + 1)' = c
    BY <1>3, <1>4, ChargedMore
  <1>6. PICK D \in Nat, I \in Nat : D = BAN_DECAY_POINTS /\ I = BAN_DECAY_INTERVAL
    BY BudgetConstants
  <1>7. PICK s \in Nat, l \in Nat, t0 \in Nat : s = meter.score /\ l = meter.lastDecay /\ t0 = second
    BY DEF BudgetType
  <1>8. PICK s1 \in Nat, l1 \in Nat : s1 = meter'.score /\ l1 = meter'.lastDecay
    BY <1>1
  <1>9. \/ s1 = s + c /\ l1 = l
        \/ t0 - l >= I /\ l1 = t0 /\ s1 >= s + c - D /\ s1 <= s + c
    BY <1>1, <1>6, <1>7, <1>8 DEF Paced
  <1>10. s1 < BAN_SCORE_THRESHOLD
    <2>1. s + c < BAN_SCORE_THRESHOLD
      BY <1>1, <1>7
    <2> QED BY <1>9, <2>1, BudgetConstants
  <1>11. ASSUME NEW i \in 1..(n + 1)
         PROVE  \E k \in Nat : (k = 0 \/ (k - 1) * I <= l1 - history'[i].at) /\ Charged(i)' <= s1 + k * D
    <2>1. CASE i \in 1..n
      <3>1. PICK a \in Nat : a = history[i].at /\ a <= t0 /\ a = history'[i].at
        BY <1>4, <1>5, <1>7, <2>1, ReceiptsTyped DEF BudgetType
      <3>2. PICK k \in Nat : (k = 0 \/ (k - 1) * I <= l - a) /\ Charged(i) <= s + k * D
        BY <1>1, <1>4, <1>6, <1>7, <2>1, <3>1 DEF ChargesRemembered, FadedTimes
      <3>3. PICK p \in Nat : p = k * D
        BY TimesMore
      <3>4. PICK x \in Int : x = Charged(i)
        BY <1>4, <2>1, ChargedIs
      <3>5. Charged(i)' = x + c /\ x <= s + p
        BY <1>5, <2>1, <3>2, <3>3, <3>4
      <3>6. CASE s1 = s + c /\ l1 = l
        <4>1. Charged(i)' <= s1 + k * D
          BY <3>3, <3>5, <3>6
        <4> QED BY <3>1, <3>2, <3>6, <4>1
      <3>7. CASE t0 - l >= I /\ l1 = t0 /\ s1 >= s + c - D /\ s1 <= s + c
        <4>1. k * I <= t0 - a
          BY <3>1, <3>2, <3>7, OneMoreFade
        <4>2. PICK j \in Nat : j = k + 1
          OBVIOUS
        <4>3. j - 1 = k
          BY <4>2
        <4>4. j * D = p + D
          BY <3>3, <4>2, TimesMore
        <4>5. x + c <= s1 + (p + D)
          BY <3>5, <3>7
        <4>6. (j - 1) * I <= l1 - history'[i].at
          BY <3>1, <3>7, <4>1, <4>3
        <4>7. Charged(i)' <= s1 + j * D
          BY <3>5, <4>4, <4>5
        <4> QED BY <4>6, <4>7
      <3> QED BY <1>9, <3>6, <3>7
    <2>2. CASE i = n + 1
      <3>1. history'[i].at = t0 /\ Charged(i)' = c
        BY <1>3, <1>5, <1>7, <2>2
      <3>2. CASE s1 = s + c /\ l1 = l
        <4>1. 0 * D = 0
          OBVIOUS
        <4>2. c <= s1 + 0 * D
          BY <3>2, <4>1
        <4> QED BY <3>1, <4>2
      <3>3. CASE t0 - l >= I /\ l1 = t0 /\ s1 >= s + c - D /\ s1 <= s + c
        <4>1. 1 * D = D /\ (1 - 1) * I = 0
          OBVIOUS
        <4>2. c <= s1 + 1 * D /\ (1 - 1) * I <= l1 - t0
          BY <3>3, <4>1
        <4> QED BY <3>1, <4>2
      <3> QED BY <1>9, <3>2, <3>3
    <2> QED BY <2>1, <2>2
  <1> QED BY <1>5, <1>6, <1>8, <1>10, <1>11 DEF ChargesRemembered, FadedTimes

LEMMA BlocksMore ==
    ASSUME BudgetType, NEW r \in Receipt, history' = Append(history, r), NEW t \in Nat
    PROVE  /\ IsFiniteSet(Blocks(t)) /\ IsFiniteSet(Blocks(t)') /\ Blocks(t) \subseteq Blocks(t)'
           /\ Cardinality(Blocks(t)) \in Nat /\ Cardinality(Blocks(t)') \in Nat
           /\ Cardinality(Blocks(t)) <= Cardinality(Blocks(t)')
           /\ r.kind = "block" /\ t <= r.at /\ r.at < t + STARK_WINDOW =>
                 Cardinality(Blocks(t)') = Cardinality(Blocks(t)) + 1
  <1>1. PICK n \in Nat : n = Len(history)
    BY ReceiptsTyped
  <1>2. Len(history') = n + 1 /\ history'[n + 1] = r /\ \A i \in 1..n : history'[i] = history[i]
    BY <1>1, ChargedMore
  <1>3. PICK A, B : A = Blocks(t) /\ B = Blocks(t)'
    OBVIOUS
  <1>4. A \subseteq 1..n /\ B \subseteq 1..(n + 1) /\ A \subseteq B
    BY <1>1, <1>2, <1>3 DEF Blocks
  <1>5. IsFiniteSet(1..n) /\ IsFiniteSet(1..(n + 1))
    BY FS_Interval
  <1>6. IsFiniteSet(A) /\ IsFiniteSet(B)
    BY <1>4, <1>5, FS_Subset
  <1>7. Cardinality(A) \in Nat /\ Cardinality(B) \in Nat
    BY <1>6, FS_CardinalityType
  <1>8. Cardinality(A) <= Cardinality(B)
    BY <1>4, <1>6, FS_Subset
  <1>9. ASSUME r.kind = "block", t <= r.at, r.at < t + STARK_WINDOW
        PROVE  Cardinality(B) = Cardinality(A) + 1
    <2>1. n + 1 \notin A
      BY <1>4
    <2>2. B = A \cup {n + 1}
      <3>1. n + 1 \in B
        BY <1>2, <1>3, <1>9 DEF Blocks
      <3>2. ASSUME NEW i \in B, i # n + 1 PROVE i \in A
        <4>1. i \in 1..n
          BY <1>4, <3>2
        <4> QED BY <1>1, <1>2, <1>3, <3>2, <4>1 DEF Blocks
      <3> QED BY <1>4, <3>1, <3>2
    <2> QED BY <1>6, <2>1, <2>2, FS_AddElement
  <1> QED BY <1>3, <1>4, <1>6, <1>7, <1>8, <1>9

LEMMA ReceiveCounts ==
    ASSUME BudgetInv, NEW kind \in MessageKind, ReceiveMessage(kind)
    PROVE  BlocksCounted'
  <1> SUFFICES ASSUME Innocent' PROVE BlocksCounted'
    BY DEF BlocksCounted
  <1>1. PICK c \in Nat :
             /\ fate = "open"
             /\ history' = Append(history, [at |-> second, kind |-> kind, charge |-> c])
             /\ fate' = "banned" => meter.score + c >= BAN_SCORE_THRESHOLD
             /\ kind = "plain" => c = 0 /\ meter'.stark = meter.stark
             /\ kind = "block" /\ fate' # "flood" =>
                   meter'.stark = ConsumeBudget(meter.stark) /\ (c # 0 => ~Granted(meter.stark))
    BY Received DEF BudgetInv
  <1>2. PICK r \in Receipt : r = [at |-> second, kind |-> kind, charge |-> c]
    BY DEF Receipt, BudgetInv, BudgetType
  <1>3. r.at = second /\ r.kind = kind /\ history' = Append(history, r)
    BY <1>1, <1>2
  <1>4. PICK n \in Nat : n = Len(history)
    BY ReceiptsTyped DEF BudgetInv
  <1>5. Len(history') = n + 1 /\ history'[n + 1] = r /\ \A i \in 1..n : history'[i] = history[i]
    BY <1>3, <1>4, ChargedMore DEF BudgetInv
  <1>6. kind \in {"plain", "block"}
    BY <1>3, <1>5 DEF Innocent
  <1>7. Innocent
    BY <1>4, <1>5 DEF Innocent
  <1>8. PICK start \in Nat, count \in Nat : start = meter.stark.start /\ count = meter.stark.count
    BY DEF BudgetInv, BudgetType, Meter
  <1>9. /\ second \in Nat /\ second <= MaxSeconds /\ start <= second /\ meter.stark \in Meter
        /\ meter.score \in Nat /\ meter.score < BAN_SCORE_THRESHOLD /\ STARK_WINDOW \in Nat /\ STARK_WINDOW > 0
        /\ STARK_LIMIT \in Nat /\ MaxSeconds \in Nat
    <2>1. STARK_WINDOW \in Nat /\ STARK_WINDOW > 0 /\ STARK_LIMIT \in Nat /\ MaxSeconds \in Nat
      BY BudgetConstants
    <2>2. second \in Nat /\ second <= MaxSeconds /\ start <= second
      BY <1>8 DEF BudgetInv, BudgetType
    <2>3. meter.stark \in Meter /\ meter.score \in Nat
      BY DEF BudgetInv, BudgetType
    <2>4. meter.score < BAN_SCORE_THRESHOLD
      BY <1>1 DEF BudgetInv, ChargesRemembered
    <2> QED BY <2>1, <2>2, <2>3, <2>4
  <1>10. count <= Cardinality(Blocks(start))
    BY <1>1, <1>7, <1>8 DEF BudgetInv, BlocksCounted
  <1>11. ASSUME kind = "block", second - start < STARK_WINDOW PROVE Cardinality(Blocks(start)') >= count + 1
    <2>1. start <= r.at /\ r.at < start + STARK_WINDOW /\ r.kind = "block"
      BY <1>3, <1>9, <1>11
    <2>2. Cardinality(Blocks(start)') = Cardinality(Blocks(start)) + 1 /\ Cardinality(Blocks(start)) \in Nat
      BY <1>3, <2>1, BlocksMore DEF BudgetInv
    <2> QED BY <1>10, <2>2
  <1>12. ASSUME fate' = "open" PROVE meter'.stark.count <= Cardinality(Blocks(meter.stark.start)')
    <2>1. CASE kind = "plain"
      <3>1. meter'.stark.start = start /\ meter'.stark.count = count
        BY <1>1, <1>8, <2>1
      <3>2. Cardinality(Blocks(start)) <= Cardinality(Blocks(start)')
            /\ Cardinality(Blocks(start)) \in Nat /\ Cardinality(Blocks(start)') \in Nat
        BY <1>3, BlocksMore DEF BudgetInv
      <3>3. count <= Cardinality(Blocks(start)')
        BY <1>10, <3>2
      <3>4. Blocks(start)' = Blocks(meter.stark.start)'
        BY <3>1 DEF Blocks
      <3> QED BY <3>1, <3>3, <3>4
    <2>2. CASE kind = "block" /\ second - start >= STARK_WINDOW
      <3>1. meter'.stark = [start |-> second, count |-> 1]
        BY <1>1, <1>8, <1>12, <2>2 DEF ConsumeBudget
      <3>2. PICK t \in Nat : t = second
        BY <1>9
      <3>3. Cardinality(Blocks(t)') = Cardinality(Blocks(t)) + 1 /\ Cardinality(Blocks(t)) \in Nat
        <4>1. r.kind = "block" /\ t <= r.at /\ r.at < t + STARK_WINDOW
          BY <1>3, <1>9, <2>2, <3>2
        <4> QED BY <1>3, <4>1, BlocksMore DEF BudgetInv
      <3>4. meter'.stark.start = t /\ meter'.stark.count = 1
        BY <3>1, <3>2
      <3>5. Blocks(t)' = Blocks(meter.stark.start)'
        BY <3>4 DEF Blocks
      <3> QED BY <3>3, <3>4, <3>5
    <2>3. CASE kind = "block" /\ ~(second - start >= STARK_WINDOW)
      <3>1. meter'.stark = [meter.stark EXCEPT !.count = @ + 1]
        BY <1>1, <1>8, <1>12, <2>3 DEF ConsumeBudget
      <3>2. meter'.stark.start = start /\ meter'.stark.count = count + 1
        BY <1>8, <1>9, <3>1 DEF Meter
      <3>3. Cardinality(Blocks(start)') >= count + 1
        BY <1>9, <1>11, <2>3
      <3>4. Cardinality(Blocks(start)') \in Nat
        BY <1>3, BlocksMore DEF BudgetInv
      <3>5. Blocks(start)' = Blocks(meter.stark.start)'
        BY <3>2 DEF Blocks
      <3> QED BY <3>2, <3>3, <3>4, <3>5
    <2> QED BY <1>6, <2>1, <2>2, <2>3
  <1>13. ASSUME fate' = "banned" PROVE \E t \in 0..MaxSeconds : Cardinality(Blocks(t)') > STARK_LIMIT
    <2>1. c # 0
      BY <1>1, <1>9, <1>13, BudgetConstants
    <2>2. kind = "block" /\ ~Granted(meter.stark)
      BY <1>1, <1>6, <1>13, <2>1
    <2>3. second - start < STARK_WINDOW /\ count >= STARK_LIMIT
      BY <1>8, <1>9, <2>2 DEF Granted
    <2>4. Cardinality(Blocks(start)') >= count + 1
      BY <1>11, <2>2, <2>3
    <2>5. Cardinality(Blocks(start)') \in Nat
      BY <1>3, BlocksMore DEF BudgetInv
    <2>6. Cardinality(Blocks(start)') > STARK_LIMIT
      BY <1>9, <2>3, <2>4, <2>5
    <2>7. start \in 0..MaxSeconds
      BY <1>9
    <2> QED BY <2>6, <2>7
  <1> QED BY <1>12, <1>13 DEF BlocksCounted

LEMMA ReceiveType ==
    ASSUME BudgetType, NEW kind \in MessageKind, ReceiveMessage(kind)
    PROVE  BudgetType'
  <1>1. PICK c \in Nat :
             /\ history' = Append(history, [at |-> second, kind |-> kind, charge |-> c])
             /\ meter' \in [rate : Meter, stark : Meter, score : Nat, lastDecay : Nat]
             /\ meter'.lastDecay <= second
             /\ fate' \in {"open", "flood", "oversize", "banned"}
             /\ second' = second
             /\ meter'.stark \in {meter.stark, ConsumeBudget(meter.stark)}
    BY Received
  <1>2. PICK r \in Receipt : r = [at |-> second, kind |-> kind, charge |-> c]
    BY DEF Receipt, BudgetType
  <1>3. r.at = second /\ history' = Append(history, r)
    BY <1>1, <1>2
  <1>4. history' \in Seq(Receipt)
    BY <1>3 DEF BudgetType
  <1>5. ASSUME NEW i \in 1..Len(history') PROVE history'[i].at <= second
    <2>1. PICK n \in Nat : n = Len(history)
      BY ReceiptsTyped
    <2>2. Len(history') = n + 1 /\ history'[n + 1] = r /\ \A j \in 1..n : history'[j] = history[j]
      BY <1>3, <2>1, ChargedMore
    <2>3. CASE i = n + 1
      BY <1>3, <2>2, <2>3 DEF BudgetType
    <2>4. CASE i \in 1..n
      BY <2>1, <2>2, <2>4 DEF BudgetType
    <2> QED BY <2>1, <2>2, <2>3, <2>4
  <1>6. meter'.stark.start <= second
    <2>1. second \in Nat /\ meter.stark \in Meter /\ meter.stark.start <= second
      BY DEF BudgetType
    <2>2. ConsumeBudget(meter.stark).start <= second
      BY <2>1 DEF ConsumeBudget, Meter
    <2> QED BY <1>1, <2>1, <2>2
  <1> QED BY <1>1, <1>4, <1>5, <1>6 DEF BudgetType

LEMMA SecondStep ==
    ASSUME BudgetInv, SecondPasses
    PROVE  BudgetInv'
  <1>1. second \in Nat /\ second' = second + 1 /\ second < MaxSeconds /\ UNCHANGED <<meter, fate, history>> /\ MaxSeconds \in Nat
    BY BudgetConstants DEF SecondPasses, BudgetInv, BudgetType
  <1>2. BudgetType'
    <2>1. second' \in Nat /\ second' <= MaxSeconds /\ second <= second'
      BY <1>1
    <2>2. meter.lastDecay \in Nat /\ meter.stark.start \in Nat /\ meter.lastDecay <= second /\ meter.stark.start <= second
      BY DEF BudgetInv, BudgetType, Meter
    <2>3. ASSUME NEW i \in 1..Len(history) PROVE history[i].at <= second'
      <3>1. history[i].at \in Nat /\ history[i].at <= second
        BY ReceiptsTyped DEF BudgetInv, BudgetType
      <3> QED BY <1>1, <3>1
    <2>4. meter.lastDecay <= second' /\ meter.stark.start <= second'
      BY <1>1, <2>2
    <2> QED BY <1>1, <2>1, <2>3, <2>4 DEF BudgetInv, BudgetType
  <1>3. ChargesRemembered'
    BY <1>1 DEF BudgetInv, ChargesRemembered, FadedTimes, Charged, Charges
  <1>4. BlocksCounted'
    BY <1>1 DEF BudgetInv, BlocksCounted, Innocent, Blocks
  <1> QED BY <1>2, <1>3, <1>4 DEF BudgetInv

LEMMA BudgetInvInit == BudgetInit => BudgetInv
  <1> SUFFICES ASSUME BudgetInit PROVE BudgetInv
    OBVIOUS
  <1>1. /\ second \in Nat /\ second <= MaxSeconds /\ history = <<>> /\ fate = "open" /\ Len(history) = 0
        /\ BAN_SCORE_THRESHOLD \in Nat /\ BAN_SCORE_THRESHOLD > 0
    BY BudgetConstants DEF BudgetInit
  <1>2. meter = [rate |-> [start |-> second, count |-> 0], stark |-> [start |-> 0, count |-> 0], score |-> 0, lastDecay |-> second]
    BY DEF BudgetInit
  <1>3. BudgetType
    <2>1. meter \in [rate : Meter, stark : Meter, score : Nat, lastDecay : Nat]
      BY <1>1, <1>2 DEF Meter
    <2>2. meter.lastDecay = second /\ meter.stark.start = 0
      BY <1>2
    <2>3. history \in Seq(Receipt)
      BY <1>1
    <2> QED BY <1>1, <2>1, <2>2, <2>3 DEF BudgetType
  <1>4. ChargesRemembered
    BY <1>1, <1>2 DEF ChargesRemembered
  <1>5. BlocksCounted
    <2>1. Blocks(meter.stark.start) = {} /\ meter.stark.count = 0
      BY <1>1, <1>2 DEF Blocks
    <2>2. Cardinality({}) = 0
      BY FS_EmptySet
    <2> QED BY <1>1, <2>1, <2>2 DEF BlocksCounted
  <1> QED BY <1>3, <1>4, <1>5 DEF BudgetInv

LEMMA BudgetInvStep == BudgetInv /\ [BudgetNext]_budgetVars => BudgetInv'
  <1> SUFFICES ASSUME BudgetInv, [BudgetNext]_budgetVars PROVE BudgetInv'
    OBVIOUS
  <1>1. CASE SecondPasses
    BY <1>1, SecondStep
  <1>2. ASSUME NEW kind \in MessageKind, ReceiveMessage(kind) PROVE BudgetInv'
    BY <1>2, ReceiveType, ReceiveRemembers, ReceiveCounts DEF BudgetInv
  <1>3. CASE UNCHANGED budgetVars
    BY <1>3 DEF budgetVars, BudgetInv, BudgetType, ChargesRemembered, FadedTimes, Charged, Charges, BlocksCounted,
                Innocent, Blocks
  <1> QED BY <1>1, <1>2, <1>3 DEF BudgetNext

LEMMA BudgetSuffices == BudgetInv => BansAreEarned
  <1> SUFFICES ASSUME BudgetInv PROVE BansAreEarned
    OBVIOUS
  <1>0. PICK n \in Nat : n = Len(history) /\ DOMAIN history = 1..n
    BY DEF BudgetInv, BudgetType
  <1>1. ASSUME fate = "open", NEW i \in 1..n
        PROVE  MapThenSumSet(LAMBDA j : history[j].charge, i..Len(history))
                  < BAN_SCORE_THRESHOLD + ((second - history[i].at) \div BAN_DECAY_INTERVAL + 1) * BAN_DECAY_POINTS
    <2>1. PICK D \in Nat, I \in Nat, T \in Nat : D = BAN_DECAY_POINTS /\ I = BAN_DECAY_INTERVAL /\ T = BAN_SCORE_THRESHOLD /\ I # 0
      BY BudgetConstants
    <2>2. PICK a \in Nat, t0 \in Nat, l \in Nat, s \in Nat :
             a = history[i].at /\ t0 = second /\ l = meter.lastDecay /\ s = meter.score /\ a <= t0 /\ l <= t0
      BY <1>0, ReceiptsTyped DEF BudgetInv, BudgetType
    <2>3. PICK k \in Nat : (k = 0 \/ (k - 1) * I <= l - a) /\ Charged(i) <= s + k * D /\ s < T
      BY <1>0, <1>1, <2>1, <2>2 DEF BudgetInv, ChargesRemembered, FadedTimes
    <2>4. PICK d \in Nat : d = t0 - a
      BY <2>2
    <2>5. k = 0 \/ (k - 1) * I <= d
      <3>1. CASE k = 0
        BY <3>1
      <3>2. CASE k # 0
        <4>1. PICK j \in Nat : j = k - 1
          BY <3>2
        <4>2. PICK p \in Nat : p = j * I
          BY TimesMore
        <4>3. p <= l - a
          BY <2>3, <3>2, <4>1, <4>2
        <4>4. p <= d
          BY <2>2, <2>4, <4>3
        <4> QED BY <4>1, <4>2, <4>4
      <3> QED BY <3>1, <3>2
    <2>6. k <= d \div I + 1 /\ d \div I \in Nat
      BY <2>1, <2>5, FadesFit
    <2>7. PICK m \in Nat : m = d \div I + 1
      BY <2>6
    <2>8. k * D <= m * D /\ m * D \in Nat /\ k * D \in Nat
      BY <2>6, <2>7, TimesGrows, TimesMore
    <2>9. PICK x \in Int, p \in Nat, q \in Nat : x = Charged(i) /\ p = k * D /\ q = m * D
      BY <1>0, <2>8, ChargedIs DEF BudgetInv
    <2>10. x < T + q
      BY <2>3, <2>8, <2>9
    <2>11. MapThenSumSet(LAMBDA j : history[j].charge, i..Len(history)) = x
      BY <1>0, <2>9, ChargedIs DEF BudgetInv
    <2>12. q = ((second - history[i].at) \div BAN_DECAY_INTERVAL + 1) * BAN_DECAY_POINTS
      BY <2>1, <2>2, <2>4, <2>7, <2>9
    <2> QED BY <2>1, <2>10, <2>11, <2>12
  <1>2. ASSUME fate = "banned", \A i \in DOMAIN history : history[i].kind \in {"plain", "block"}
        PROVE  \E t \in 0..MaxSeconds : Cardinality({i \in Within(t, STARK_WINDOW) : history[i].kind = "block"}) > STARK_LIMIT
    <2>1. Innocent
      BY <1>0, <1>2 DEF Innocent
    <2>2. PICK t \in 0..MaxSeconds : Cardinality(Blocks(t)) > STARK_LIMIT
      BY <1>2, <2>1 DEF BudgetInv, BlocksCounted
    <2>3. {i \in Within(t, STARK_WINDOW) : history[i].kind = "block"} = Blocks(t)
      BY <1>0 DEF Within, Blocks
    <2> QED BY <2>2, <2>3
  <1> QED BY <1>0, <1>1, <1>2 DEF BansAreEarned

(***************************************************************************)
(* The score of an open connection remembers all it was charged but for    *)
(* the points that had time to fade, and a peer that sends nothing invalid *)
(* is banned only if it sent more blocks in one window than the budget     *)
(* verifies, for any penalties, windows and threshold (`handle_conn`).     *)
(***************************************************************************)
THEOREM BansEarned == BudgetSpec => []BansAreEarned
  BY BudgetInvInit, BudgetInvStep, BudgetSuffices, PTL DEF BudgetSpec

-----------------------------------------------------------------------------
(***************************************************************************)
(* AddrMan: every address is in its own bucket of one table, once.         *)
(* OnePlaceOnly alone is not inductive: that the promotion of an address   *)
(* leaves no second copy of it behind needs that each bucket holds only    *)
(* addresses that hash to it. The tables are walked through by three       *)
(* loops, `select`'s over their joined buckets, the one that joins them    *)
(* and `retain`; what each returns is shown along its run.                 *)
(***************************************************************************)
JoinStep(r, x) == r \o x

JoinAt(seq, f, s) == IF s = {} THEN <<>> ELSE JoinStep(f[s \ {Max(s)}], seq[Max(s)])

IsJoinAll(seq, f) == f = [s \in SUBSET DOMAIN seq |-> JoinAt(seq, f, s)]

JoinAll(seq) == (CHOOSE f : IsJoinAll(seq, f))[DOMAIN seq]

IsJoinRun(A, seq, n, G) ==
    G \in [0..n -> A] /\ G[0] = <<>> /\ \A i \in 1..n : G[i] = JoinStep(G[i - 1], seq[i])

JoinStays(A, V) == <<>> \in A /\ \A a \in A : \A v \in V : JoinStep(a, v) \in A

LEMMA JoinRuns ==
    ASSUME NEW A, NEW V, NEW n \in Nat, NEW seq, DOMAIN seq = 1..n, IndexedIn(seq, n, V),
           JoinStays(A, V)
    PROVE  \E G : IsJoinRun(A, seq, n, G) /\ G[n] = JoinAll(seq)
  <1>1. \A i \in 1..n : seq[i] \in V
    BY DEF IndexedIn
  <1>2. PICK F : F = [p \in A \X V |-> JoinStep(p[1], p[2])]
    OBVIOUS
  <1>3. \A a \in A : \A v \in V : F[<<a, v>>] = JoinStep(a, v)
    BY <1>2
  <1>4. F \in [A \X V -> A]
    <2>1. \A p \in A \X V : JoinStep(p[1], p[2]) \in A
      BY DEF JoinStays
    <2> QED BY <1>2, <2>1
  <1>5. PICK base : base = <<>> /\ base \in A
    BY DEF JoinStays
  <1>6. PICK f \in [SUBSET (1..n) -> A] : IsFoldOf(F, base, seq, 1..n, f)
    <2>1. IsFiniteSet(1..n) /\ \A y \in 1..n : y \in Nat
      BY FS_Interval
    <2>2. PICK I : I = 1..n
      OBVIOUS
    <2>3. IsFiniteSet(I) /\ \A y \in I : y \in Nat
      BY <2>1, <2>2
    <2>4. \A x \in I : seq[x] \in V
      BY <1>1, <2>2
    <2>5. \E g \in [SUBSET I -> A] : IsFoldOf(F, base, seq, I, g)
      BY <1>4, <1>5, <2>3, <2>4, FoldExists
    <2> QED BY <2>2, <2>5
  <1>7. IsJoinAll(seq, f)
    <2>1. ASSUME NEW s \in SUBSET (1..n) PROVE f[s] = JoinAt(seq, f, s)
      <3>1. f[s] = IF s = {} THEN base ELSE F[<<f[s \ {Max(s)}], seq[Max(s)]>>]
        BY <1>6 DEF IsFoldOf
      <3>2. CASE s # {}
        <4>1. Max(s) \in s
          BY <3>2, IndexMax
        <4>2. f[s \ {Max(s)}] \in A /\ seq[Max(s)] \in V
          BY <1>1, <1>6, <4>1
        <4> QED BY <1>3, <3>1, <3>2, <4>2 DEF JoinAt
      <3> QED BY <1>5, <3>1, <3>2 DEF JoinAt
    <2>2. f = [s \in SUBSET (1..n) |-> JoinAt(seq, f, s)]
      BY <1>6, <2>1
    <2> QED BY <2>2 DEF IsJoinAll
  <1>8. PICK h : h = (CHOOSE g : IsJoinAll(seq, g)) /\ IsJoinAll(seq, h)
    BY <1>7
  <1>9. h[1..n] = JoinAll(seq)
    BY <1>8 DEF JoinAll
  <1>10. \A s \in SUBSET (1..n) : h[s] = JoinAt(seq, h, s)
    BY <1>8 DEF IsJoinAll
  <1>11. FollowsFold(A, F, base, seq, n, h)
    <2>1. h[{}] = base
      BY <1>5, <1>10 DEF JoinAt
    <2>2. ASSUME NEW s \in SUBSET (1..n), s # {}, h[s \ {Max(s)}] \in A
          PROVE  h[s] = F[<<h[s \ {Max(s)}], seq[Max(s)]>>]
      <3>1. h[s] = JoinStep(h[s \ {Max(s)}], seq[Max(s)])
        BY <1>10, <2>2 DEF JoinAt
      <3>2. seq[Max(s)] \in V
        BY <1>1, <2>2, IndexMax
      <3> QED BY <1>3, <2>2, <3>1, <3>2
    <2> QED BY <2>1, <2>2 DEF FollowsFold
  <1>12. PICK G : IsRun(A, F, base, seq, n, G) /\ G[n] = h[1..n]
    <2>1. IsStepOn(A, V, F)
      BY <1>4 DEF IsStepOn
    <2> QED BY <1>5, <1>11, <2>1, FoldRuns
  <1>13. G \in [0..n -> A] /\ G[0] = base /\ \A i \in 1..n : G[i] = F[<<G[i - 1], seq[i]>>]
    BY <1>12 DEF IsRun
  <1>14. ASSUME NEW i \in 1..n PROVE G[i] = JoinStep(G[i - 1], seq[i])
    <2>1. G[i - 1] \in A /\ seq[i] \in V
      BY <1>1, <1>13
    <2> QED BY <1>3, <1>13, <2>1
  <1> QED BY <1>5, <1>9, <1>12, <1>13, <1>14 DEF IsJoinRun

LEMMA EntriesFold == ASSUME NEW t PROVE Entries(t) = JoinAll(t)
  BY DEF Entries, FoldLeft, MapThenFoldSet, JoinAll, IsJoinAll, JoinAt, JoinStep

DropStep(a, r, x) == IF x = a THEN r ELSE Append(r, x)

DropAt(a0, seq, f, s) == IF s = {} THEN <<>> ELSE DropStep(a0, f[s \ {Max(s)}], seq[Max(s)])

IsDropAll(a0, seq, f) == f = [s \in SUBSET DOMAIN seq |-> DropAt(a0, seq, f, s)]

DropAll(a0, seq) == (CHOOSE f : IsDropAll(a0, seq, f))[DOMAIN seq]

IsDropRun(a0, A, seq, n, G) ==
    G \in [0..n -> A] /\ G[0] = <<>> /\ \A i \in 1..n : G[i] = DropStep(a0, G[i - 1], seq[i])

DropStays(a0, A, V) == <<>> \in A /\ \A a \in A : \A v \in V : DropStep(a0, a, v) \in A

LEMMA DropRuns ==
    ASSUME NEW a0, NEW A, NEW V, NEW n \in Nat, NEW seq, DOMAIN seq = 1..n, IndexedIn(seq, n, V),
           DropStays(a0, A, V)
    PROVE  \E G : IsDropRun(a0, A, seq, n, G) /\ G[n] = DropAll(a0, seq)
  <1>1. \A i \in 1..n : seq[i] \in V
    BY DEF IndexedIn
  <1>2. PICK F : F = [p \in A \X V |-> DropStep(a0, p[1], p[2])]
    OBVIOUS
  <1>3. \A a \in A : \A v \in V : F[<<a, v>>] = DropStep(a0, a, v)
    BY <1>2
  <1>4. F \in [A \X V -> A]
    <2>1. \A p \in A \X V : DropStep(a0, p[1], p[2]) \in A
      BY DEF DropStays
    <2> QED BY <1>2, <2>1
  <1>5. PICK base : base = <<>> /\ base \in A
    BY DEF DropStays
  <1>6. PICK f \in [SUBSET (1..n) -> A] : IsFoldOf(F, base, seq, 1..n, f)
    <2>1. IsFiniteSet(1..n) /\ \A y \in 1..n : y \in Nat
      BY FS_Interval
    <2>2. PICK I : I = 1..n
      OBVIOUS
    <2>3. IsFiniteSet(I) /\ \A y \in I : y \in Nat
      BY <2>1, <2>2
    <2>4. \A x \in I : seq[x] \in V
      BY <1>1, <2>2
    <2>5. \E g \in [SUBSET I -> A] : IsFoldOf(F, base, seq, I, g)
      BY <1>4, <1>5, <2>3, <2>4, FoldExists
    <2> QED BY <2>2, <2>5
  <1>7. IsDropAll(a0, seq, f)
    <2>1. ASSUME NEW s \in SUBSET (1..n) PROVE f[s] = DropAt(a0, seq, f, s)
      <3>1. f[s] = IF s = {} THEN base ELSE F[<<f[s \ {Max(s)}], seq[Max(s)]>>]
        BY <1>6 DEF IsFoldOf
      <3>2. CASE s # {}
        <4>1. Max(s) \in s
          BY <3>2, IndexMax
        <4>2. f[s \ {Max(s)}] \in A /\ seq[Max(s)] \in V
          BY <1>1, <1>6, <4>1
        <4> QED BY <1>3, <3>1, <3>2, <4>2 DEF DropAt
      <3> QED BY <1>5, <3>1, <3>2 DEF DropAt
    <2>2. f = [s \in SUBSET (1..n) |-> DropAt(a0, seq, f, s)]
      BY <1>6, <2>1
    <2> QED BY <2>2 DEF IsDropAll
  <1>8. PICK h : h = (CHOOSE g : IsDropAll(a0, seq, g)) /\ IsDropAll(a0, seq, h)
    BY <1>7
  <1>9. h[1..n] = DropAll(a0, seq)
    BY <1>8 DEF DropAll
  <1>10. \A s \in SUBSET (1..n) : h[s] = DropAt(a0, seq, h, s)
    BY <1>8 DEF IsDropAll
  <1>11. FollowsFold(A, F, base, seq, n, h)
    <2>1. h[{}] = base
      BY <1>5, <1>10 DEF DropAt
    <2>2. ASSUME NEW s \in SUBSET (1..n), s # {}, h[s \ {Max(s)}] \in A
          PROVE  h[s] = F[<<h[s \ {Max(s)}], seq[Max(s)]>>]
      <3>1. h[s] = DropStep(a0, h[s \ {Max(s)}], seq[Max(s)])
        BY <1>10, <2>2 DEF DropAt
      <3>2. seq[Max(s)] \in V
        BY <1>1, <2>2, IndexMax
      <3> QED BY <1>3, <2>2, <3>1, <3>2
    <2> QED BY <2>1, <2>2 DEF FollowsFold
  <1>12. PICK G : IsRun(A, F, base, seq, n, G) /\ G[n] = h[1..n]
    <2>1. IsStepOn(A, V, F)
      BY <1>4 DEF IsStepOn
    <2> QED BY <1>5, <1>11, <2>1, FoldRuns
  <1>13. G \in [0..n -> A] /\ G[0] = base /\ \A i \in 1..n : G[i] = F[<<G[i - 1], seq[i]>>]
    BY <1>12 DEF IsRun
  <1>14. ASSUME NEW i \in 1..n PROVE G[i] = DropStep(a0, G[i - 1], seq[i])
    <2>1. G[i - 1] \in A /\ seq[i] \in V
      BY <1>1, <1>13
    <2> QED BY <1>3, <1>13, <2>1
  <1> QED BY <1>5, <1>9, <1>12, <1>13, <1>14 DEF IsDropRun

LEMMA WithoutFold == ASSUME NEW s, NEW a PROVE WithoutAddr(s, a) = DropAll(a, s)
  BY DEF WithoutAddr, FoldLeft, MapThenFoldSet, DropAll, IsDropAll, DropAt, DropStep

TakeStep(k, ex, r, x) == IF Len(r) >= k \/ x \in ex \/ x \in ToSet(r) THEN r ELSE Append(r, x)

TakeAt(k, ex, seq, f, s) == IF s = {} THEN <<>> ELSE TakeStep(k, ex, f[s \ {Max(s)}], seq[Max(s)])

IsTakeAll(k, ex, seq, f) == f = [s \in SUBSET DOMAIN seq |-> TakeAt(k, ex, seq, f, s)]

TakeAll(k, ex, seq) == (CHOOSE f : IsTakeAll(k, ex, seq, f))[DOMAIN seq]

IsTakeRun(k, ex, A, seq, n, G) ==
    G \in [0..n -> A] /\ G[0] = <<>> /\ \A i \in 1..n : G[i] = TakeStep(k, ex, G[i - 1], seq[i])

TakeStays(k, ex, A, V) == <<>> \in A /\ \A a \in A : \A v \in V : TakeStep(k, ex, a, v) \in A

LEMMA TakeRuns ==
    ASSUME NEW k, NEW ex, NEW A, NEW V, NEW n \in Nat, NEW seq, DOMAIN seq = 1..n, IndexedIn(seq, n, V),
           TakeStays(k, ex, A, V)
    PROVE  \E G : IsTakeRun(k, ex, A, seq, n, G) /\ G[n] = TakeAll(k, ex, seq)
  <1>1. \A i \in 1..n : seq[i] \in V
    BY DEF IndexedIn
  <1>2. PICK F : F = [p \in A \X V |-> TakeStep(k, ex, p[1], p[2])]
    OBVIOUS
  <1>3. \A a \in A : \A v \in V : F[<<a, v>>] = TakeStep(k, ex, a, v)
    BY <1>2
  <1>4. F \in [A \X V -> A]
    <2>1. \A p \in A \X V : TakeStep(k, ex, p[1], p[2]) \in A
      BY DEF TakeStays
    <2> QED BY <1>2, <2>1
  <1>5. PICK base : base = <<>> /\ base \in A
    BY DEF TakeStays
  <1>6. PICK f \in [SUBSET (1..n) -> A] : IsFoldOf(F, base, seq, 1..n, f)
    <2>1. IsFiniteSet(1..n) /\ \A y \in 1..n : y \in Nat
      BY FS_Interval
    <2>2. PICK I : I = 1..n
      OBVIOUS
    <2>3. IsFiniteSet(I) /\ \A y \in I : y \in Nat
      BY <2>1, <2>2
    <2>4. \A x \in I : seq[x] \in V
      BY <1>1, <2>2
    <2>5. \E g \in [SUBSET I -> A] : IsFoldOf(F, base, seq, I, g)
      BY <1>4, <1>5, <2>3, <2>4, FoldExists
    <2> QED BY <2>2, <2>5
  <1>7. IsTakeAll(k, ex, seq, f)
    <2>1. ASSUME NEW s \in SUBSET (1..n) PROVE f[s] = TakeAt(k, ex, seq, f, s)
      <3>1. f[s] = IF s = {} THEN base ELSE F[<<f[s \ {Max(s)}], seq[Max(s)]>>]
        BY <1>6 DEF IsFoldOf
      <3>2. CASE s # {}
        <4>1. Max(s) \in s
          BY <3>2, IndexMax
        <4>2. f[s \ {Max(s)}] \in A /\ seq[Max(s)] \in V
          BY <1>1, <1>6, <4>1
        <4> QED BY <1>3, <3>1, <3>2, <4>2 DEF TakeAt
      <3> QED BY <1>5, <3>1, <3>2 DEF TakeAt
    <2>2. f = [s \in SUBSET (1..n) |-> TakeAt(k, ex, seq, f, s)]
      BY <1>6, <2>1
    <2> QED BY <2>2 DEF IsTakeAll
  <1>8. PICK h : h = (CHOOSE g : IsTakeAll(k, ex, seq, g)) /\ IsTakeAll(k, ex, seq, h)
    BY <1>7
  <1>9. h[1..n] = TakeAll(k, ex, seq)
    BY <1>8 DEF TakeAll
  <1>10. \A s \in SUBSET (1..n) : h[s] = TakeAt(k, ex, seq, h, s)
    BY <1>8 DEF IsTakeAll
  <1>11. FollowsFold(A, F, base, seq, n, h)
    <2>1. h[{}] = base
      BY <1>5, <1>10 DEF TakeAt
    <2>2. ASSUME NEW s \in SUBSET (1..n), s # {}, h[s \ {Max(s)}] \in A
          PROVE  h[s] = F[<<h[s \ {Max(s)}], seq[Max(s)]>>]
      <3>1. h[s] = TakeStep(k, ex, h[s \ {Max(s)}], seq[Max(s)])
        BY <1>10, <2>2 DEF TakeAt
      <3>2. seq[Max(s)] \in V
        BY <1>1, <2>2, IndexMax
      <3> QED BY <1>3, <2>2, <3>1, <3>2
    <2> QED BY <2>1, <2>2 DEF FollowsFold
  <1>12. PICK G : IsRun(A, F, base, seq, n, G) /\ G[n] = h[1..n]
    <2>1. IsStepOn(A, V, F)
      BY <1>4 DEF IsStepOn
    <2> QED BY <1>5, <1>11, <2>1, FoldRuns
  <1>13. G \in [0..n -> A] /\ G[0] = base /\ \A i \in 1..n : G[i] = F[<<G[i - 1], seq[i]>>]
    BY <1>12 DEF IsRun
  <1>14. ASSUME NEW i \in 1..n PROVE G[i] = TakeStep(k, ex, G[i - 1], seq[i])
    <2>1. G[i - 1] \in A /\ seq[i] \in V
      BY <1>1, <1>13
    <2> QED BY <1>3, <1>13, <2>1
  <1> QED BY <1>5, <1>9, <1>12, <1>13, <1>14 DEF IsTakeRun

LEMMA SelectFold == ASSUME NEW k, NEW ex PROVE SelectAddrs(k, ex) = TakeAll(k, ex, Entries(triedTable) \o Entries(newTable))
  BY DEF SelectAddrs, FoldLeft, MapThenFoldSet, TakeAll, IsTakeAll, TakeAt, TakeStep

(***************************************************************************)
(* Sequences that hold nothing twice, and what is done with buckets.       *)
(***************************************************************************)
OnceEach(s) == \A i, j \in DOMAIN s : s[i] = s[j] => i = j

LEMMA AppendOnce ==
    ASSUME NEW S, NEW s \in Seq(S), NEW x \in S
    PROVE  /\ Append(s, x) \in Seq(S) /\ Len(Append(s, x)) = Len(s) + 1
           /\ ToSet(Append(s, x)) = ToSet(s) \cup {x}
           /\ OnceEach(s) /\ x \notin ToSet(s) => OnceEach(Append(s, x))
  <1>1. PICK n : n = Len(s)
    OBVIOUS
  <1>2. n \in Nat /\ DOMAIN s = 1..n
    BY <1>1
  <1>3. PICK r : r = Append(s, x)
    OBVIOUS
  <1>4. r \in Seq(S) /\ Len(r) = n + 1 /\ DOMAIN r = 1..(n + 1) /\ r[n + 1] = x /\ \A i \in 1..n : r[i] = s[i]
    BY <1>1, <1>3, AppendProperties
  <1>5. ToSet(r) = {r[i] : i \in 1..(n + 1)} /\ ToSet(s) = {s[i] : i \in 1..n}
    BY <1>2, <1>4 DEF ToSet
  <1>6. \A i \in 1..(n + 1) : i \in 1..n \/ i = n + 1
    BY <1>2
  <1>7. n + 1 \in 1..(n + 1) /\ \A i \in 1..n : i \in 1..(n + 1)
    BY <1>2
  <1>8. ToSet(r) = ToSet(s) \cup {x}
    BY <1>4, <1>5, <1>6, <1>7
  <1>9. ASSUME OnceEach(s), x \notin ToSet(s) PROVE OnceEach(r)
    <2>1. \A i \in 1..n : s[i] # x
      BY <1>5, <1>9
    <2>2. \A i, j \in 1..n : s[i] = s[j] => i = j
      BY <1>2, <1>9 DEF OnceEach
    <2>3. \A i, j \in 1..(n + 1) : r[i] = r[j] => i = j
      BY <1>4, <1>6, <2>1, <2>2
    <2> QED BY <1>4, <2>3 DEF OnceEach
  <1> QED BY <1>1, <1>3, <1>4, <1>8, <1>9

LEMMA TailOnce ==
    ASSUME NEW S, NEW s \in Seq(S), s # <<>>, OnceEach(s)
    PROVE  Tail(s) \in Seq(S) /\ ToSet(Tail(s)) \subseteq ToSet(s) /\ OnceEach(Tail(s))
  <1>1. PICK n : n = Len(s)
    OBVIOUS
  <1>2. n \in Nat /\ n > 0 /\ DOMAIN s = 1..n
    BY <1>1
  <1>3. PICK r : r = Tail(s)
    OBVIOUS
  <1>4. r \in Seq(S) /\ Len(r) = n - 1 /\ \A i \in 1..(n - 1) : r[i] = s[i + 1]
    BY <1>1, <1>2, <1>3
  <1>5. DOMAIN r = 1..(n - 1) /\ \A i \in 1..(n - 1) : i + 1 \in 1..n /\ i \in Nat
    BY <1>2, <1>4
  <1>6. ToSet(r) = {r[i] : i \in 1..(n - 1)} /\ ToSet(s) = {s[i] : i \in 1..n}
    BY <1>2, <1>5 DEF ToSet
  <1>7. ToSet(r) \subseteq ToSet(s)
    BY <1>4, <1>5, <1>6
  <1>8. ASSUME NEW i \in 1..(n - 1), NEW j \in 1..(n - 1), r[i] = r[j] PROVE i = j
    <2>1. s[i + 1] = s[j + 1] /\ i + 1 \in DOMAIN s /\ j + 1 \in DOMAIN s /\ i \in Nat /\ j \in Nat
      BY <1>2, <1>4, <1>5, <1>8
    <2>2. i + 1 = j + 1
      BY <2>1 DEF OnceEach
    <2> QED BY <2>1, <2>2
  <1>9. OnceEach(r)
    BY <1>5, <1>8 DEF OnceEach
  <1> QED BY <1>3, <1>4, <1>7, <1>9

LEMMA PushOnce ==
    ASSUME NEW s \in Seq(Addr), NEW a \in Addr, OnceEach(s), a \notin ToSet(s)
    PROVE  /\ Push(s, a) \in Seq(Addr) /\ OnceEach(Push(s, a))
           /\ ToSet(Push(s, a)) \subseteq ToSet(s) \cup {a}
  <1>1. PICK r : r = IF Len(s) >= ADDRS_PER_BUCKET THEN Tail(s) ELSE s
    OBVIOUS
  <1>2. r \in Seq(Addr) /\ OnceEach(r) /\ ToSet(r) \subseteq ToSet(s)
    <2>1. CASE Len(s) >= ADDRS_PER_BUCKET
      <3>1. s # <<>>
        BY <2>1, AddrConstants
      <3> QED BY <1>1, <2>1, <3>1, TailOnce
    <2> QED BY <1>1, <2>1
  <1>3. a \notin ToSet(r)
    BY <1>2
  <1>4. Push(s, a) = Append(r, a)
    BY <1>1 DEF Push
  <1> QED BY <1>2, <1>3, <1>4, AppendOnce

LEMMA JoinOnce ==
    ASSUME NEW S, NEW s \in Seq(S), NEW t \in Seq(S), OnceEach(s), OnceEach(t), ToSet(s) \cap ToSet(t) = {}
    PROVE  s \o t \in Seq(S) /\ OnceEach(s \o t) /\ ToSet(s \o t) = ToSet(s) \cup ToSet(t)
  <1>1. PICK n, m : n = Len(s) /\ m = Len(t)
    OBVIOUS
  <1>2. n \in Nat /\ m \in Nat /\ DOMAIN s = 1..n /\ DOMAIN t = 1..m
    BY <1>1
  <1>3. PICK r : r = s \o t
    OBVIOUS
  <1>4. r \in Seq(S) /\ Len(r) = n + m /\ \A i \in 1..(n + m) : r[i] = IF i <= n THEN s[i] ELSE t[i - n]
    BY <1>1, <1>3, ConcatProperties
  <1>5. DOMAIN r = 1..(n + m)
    BY <1>4
  <1>6. ToSet(r) = {r[i] : i \in 1..(n + m)} /\ ToSet(s) = {s[i] : i \in 1..n} /\ ToSet(t) = {t[i] : i \in 1..m}
    BY <1>2, <1>5 DEF ToSet
  <1>7. \A i \in 1..(n + m) : (i <= n /\ i \in 1..n /\ r[i] = s[i]) \/ (~(i <= n) /\ i - n \in 1..m /\ r[i] = t[i - n])
    BY <1>2, <1>4
  <1>8. \A i \in 1..n : i \in 1..(n + m) /\ r[i] = s[i]
    BY <1>2, <1>4
  <1>9. \A i \in 1..m : i + n \in 1..(n + m) /\ r[i + n] = t[i]
    <2>1. ASSUME NEW i \in 1..m PROVE i + n \in 1..(n + m) /\ ~(i + n <= n) /\ (i + n) - n = i
      BY <1>2
    <2> QED BY <1>4, <2>1
  <1>10. ToSet(r) = ToSet(s) \cup ToSet(t)
    BY <1>6, <1>7, <1>8, <1>9
  <1>11. ASSUME NEW i \in 1..(n + m), NEW j \in 1..(n + m), r[i] = r[j] PROVE i = j
    <2>1. i \in Nat /\ j \in Nat
      BY <1>2
    <2>2. CASE i <= n /\ j <= n
      BY <1>2, <1>7, <1>11, <2>2 DEF OnceEach
    <2>3. CASE ~(i <= n) /\ ~(j <= n)
      <3>1. t[i - n] = t[j - n] /\ i - n \in DOMAIN t /\ j - n \in DOMAIN t
        BY <1>2, <1>7, <1>11, <2>3
      <3>2. i - n = j - n
        BY <3>1 DEF OnceEach
      <3> QED BY <1>2, <2>1, <3>2
    <2>4. CASE i <= n /\ ~(j <= n)
      <3>1. r[i] \in ToSet(s) /\ r[j] \in ToSet(t)
        BY <1>6, <1>7, <2>4
      <3> QED BY <1>11, <3>1
    <2>5. CASE ~(i <= n) /\ j <= n
      <3>1. r[i] \in ToSet(t) /\ r[j] \in ToSet(s)
        BY <1>6, <1>7, <2>5
      <3> QED BY <1>11, <3>1
    <2> QED BY <2>2, <2>3, <2>4, <2>5
  <1>12. OnceEach(r)
    BY <1>5, <1>11 DEF OnceEach
  <1> QED BY <1>3, <1>4, <1>10, <1>12

LEMMA OnceCounted ==
    ASSUME NEW S, NEW s \in Seq(S), OnceEach(s)
    PROVE  IsFiniteSet(ToSet(s)) /\ Cardinality(ToSet(s)) = Len(s)
  <1>1. PICK n : n = Len(s)
    OBVIOUS
  <1>2. n \in Nat /\ DOMAIN s = 1..n /\ s \in [1..n -> S]
    BY <1>1
  <1>3. ToSet(s) = {s[i] : i \in 1..n}
    BY <1>2 DEF ToSet
  <1>4. s \in Bijection(1..n, ToSet(s))
    <2>1. s \in [1..n -> ToSet(s)]
      BY <1>2, <1>3
    <2>2. \A i, j \in 1..n : s[i] = s[j] => i = j
      BY <1>2 DEF OnceEach
    <2>3. \A y \in ToSet(s) : \E i \in 1..n : s[i] = y
      BY <1>3
    <2>4. s \in Injection(1..n, ToSet(s))
      BY <2>1, <2>2 DEF Injection, IsInjective
    <2>5. s \in Surjection(1..n, ToSet(s))
      BY <2>1, <2>3 DEF Surjection
    <2> QED BY <2>4, <2>5 DEF Bijection
  <1>5. IsFiniteSet(1..n) /\ Cardinality(1..n) = n
    BY <1>2, FS_Interval
  <1>6. ExistsBijection(1..n, ToSet(s))
    BY <1>4 DEF ExistsBijection
  <1>7. IsFiniteSet(ToSet(s)) /\ Cardinality(ToSet(s)) = Cardinality(1..n)
    BY <1>5, <1>6, FS_Bijection
  <1> QED BY <1>1, <1>5, <1>7

(***************************************************************************)
(* A table whose buckets hold only addresses that belong there, each of    *)
(* them once.                                                              *)
(***************************************************************************)
WellTable(t, n, of) ==
    /\ n \in Nat /\ t \in [1..n -> Seq(Addr)]
    /\ \A i \in 1..n : OnceEach(t[i]) /\ \A a \in ToSet(t[i]) : of[a] = i

UpToBucket(t, i) == UNION {ToSet(t[j]) : j \in 1..i}

LEMMA EntriesOnce ==
    ASSUME NEW t, NEW n, NEW of, WellTable(t, n, of)
    PROVE  Entries(t) \in Seq(Addr) /\ OnceEach(Entries(t)) /\ ToSet(Entries(t)) = Members(t)
  <1>1. n \in Nat /\ t \in [1..n -> Seq(Addr)] /\ DOMAIN t = 1..n
        /\ \A i \in 1..n : OnceEach(t[i]) /\ \A a \in ToSet(t[i]) : of[a] = i
    BY DEF WellTable
  <1>2. PICK A : A = Seq(Addr)
    OBVIOUS
  <1>3. JoinStays(A, A)
    BY <1>2 DEF JoinStays, JoinStep
  <1>4. IndexedIn(t, n, A)
    BY <1>1, <1>2 DEF IndexedIn
  <1>5. PICK G : IsJoinRun(A, t, n, G) /\ G[n] = JoinAll(t)
    BY <1>1, <1>3, <1>4, JoinRuns
  <1>6. G \in [0..n -> Seq(Addr)] /\ G[0] = <<>> /\ \A i \in 1..n : G[i] = G[i - 1] \o t[i]
    BY <1>2, <1>5 DEF IsJoinRun, JoinStep
  <1> DEFINE Well == {i \in 0..n : OnceEach(G[i]) /\ ToSet(G[i]) = UpToBucket(t, i)}
  <1>7. 0 \in Well
    <2>1. OnceEach(<<>>) /\ ToSet(<<>>) = {}
      BY DEF OnceEach, ToSet
    <2>2. UpToBucket(t, 0) = {}
      BY DEF UpToBucket
    <2>3. 0 \in 0..n
      BY <1>1
    <2>4. G[0] = <<>>
      BY <1>6
    <2>5. OnceEach(G[0]) /\ ToSet(G[0]) = UpToBucket(t, 0)
      BY <2>1, <2>2, <2>4, Zenon
    <2> QED BY <2>3, <2>5
  <1>8. ASSUME NEW i \in 1..n, (i - 1) \in Well PROVE i \in Well
    <2>1. OnceEach(G[i - 1]) /\ ToSet(G[i - 1]) = UpToBucket(t, i - 1) /\ i \in 0..n /\ i \in Nat
      BY <1>1, <1>8
    <2>2. G[i - 1] \in Seq(Addr) /\ t[i] \in Seq(Addr) /\ OnceEach(t[i])
      <3>1. i - 1 \in 0..n
        BY <1>1
      <3> QED BY <1>1, <1>6, <3>1
    <2>3. ToSet(G[i - 1]) \cap ToSet(t[i]) = {}
      <3>1. \A j \in 1..(i - 1) : j \in 1..n /\ j # i
        BY <1>1, <2>1
      <3>2. \A j \in 1..(i - 1) : \A a \in ToSet(t[j]) : of[a] = j
        BY <1>1, <3>1
      <3>3. \A a \in ToSet(t[i]) : of[a] = i
        BY <1>1
      <3> QED BY <2>1, <3>1, <3>2, <3>3 DEF UpToBucket
    <2>4. PICK r, q : r = G[i - 1] /\ q = t[i]
      OBVIOUS
    <2>5. OnceEach(r \o q) /\ ToSet(r \o q) = ToSet(r) \cup ToSet(q)
      BY <2>1, <2>2, <2>3, <2>4, JoinOnce
    <2>6. UpToBucket(t, i) = UpToBucket(t, i - 1) \cup ToSet(t[i])
      <3>1. \A j \in 1..i : j \in 1..(i - 1) \/ j = i
        BY <2>1
      <3>2. i \in 1..i /\ \A j \in 1..(i - 1) : j \in 1..i
        BY <2>1
      <3> QED BY <3>1, <3>2 DEF UpToBucket
    <2> QED BY <1>6, <2>1, <2>4, <2>5, <2>6
  <1>9. \A i \in 0..n : i \in Well
    <2> HIDE DEF Well
    <2> QED BY <1>1, <1>7, <1>8, UpTo
  <1>10. OnceEach(G[n]) /\ ToSet(G[n]) = UpToBucket(t, n) /\ G[n] \in Seq(Addr)
    BY <1>1, <1>6, <1>9
  <1>11. UpToBucket(t, n) = Members(t)
    BY <1>1 DEF UpToBucket, Members
  <1> QED BY <1>5, <1>10, <1>11, EntriesFold

LEMMA WithoutIs ==
    ASSUME NEW s \in Seq(Addr), NEW a
    PROVE  /\ WithoutAddr(s, a) \in Seq(Addr)
           /\ OnceEach(s) => OnceEach(WithoutAddr(s, a)) /\ ToSet(WithoutAddr(s, a)) = ToSet(s) \ {a}
  <1>1. PICK n : n = Len(s)
    OBVIOUS
  <1>2. n \in Nat /\ DOMAIN s = 1..n /\ \A i \in 1..n : s[i] \in Addr
    BY <1>1
  <1>3. PICK A : A = Seq(Addr)
    OBVIOUS
  <1>4. DropStays(a, A, Addr)
    BY <1>3 DEF DropStays, DropStep
  <1>5. IndexedIn(s, n, Addr)
    BY <1>2 DEF IndexedIn
  <1>6. PICK G : IsDropRun(a, A, s, n, G) /\ G[n] = DropAll(a, s)
    BY <1>2, <1>4, <1>5, DropRuns
  <1>7. G \in [0..n -> Seq(Addr)] /\ G[0] = <<>> /\ \A i \in 1..n : G[i] = IF s[i] = a THEN G[i - 1] ELSE Append(G[i - 1], s[i])
    BY <1>3, <1>6 DEF IsDropRun, DropStep
  <1>8. G[n] \in Seq(Addr) /\ WithoutAddr(s, a) = G[n]
    BY <1>2, <1>6, <1>7, WithoutFold
  <1>9. ASSUME OnceEach(s) PROVE OnceEach(G[n]) /\ ToSet(G[n]) = ToSet(s) \ {a}
    <2> DEFINE Some(i) == {s[j] : j \in 1..i}
               Well == {i \in 0..n : OnceEach(G[i]) /\ ToSet(G[i]) = Some(i) \ {a}}
    <2>1. 0 \in Well
      <3>1. OnceEach(<<>>) /\ ToSet(<<>>) = {}
        BY DEF OnceEach, ToSet
      <3>2. Some(0) = {}
        OBVIOUS
      <3> QED BY <1>2, <1>7, <3>1, <3>2
    <2>2. ASSUME NEW i \in 1..n, (i - 1) \in Well PROVE i \in Well
      <3>1. OnceEach(G[i - 1]) /\ ToSet(G[i - 1]) = Some(i - 1) \ {a} /\ i \in 0..n /\ i \in Nat
        BY <1>2, <2>2
      <3>2. G[i - 1] \in Seq(Addr) /\ s[i] \in Addr
        BY <1>2, <1>7
      <3>3. \A j \in 1..i : j \in 1..(i - 1) \/ j = i
        BY <3>1
      <3>4. i \in 1..i /\ \A j \in 1..(i - 1) : j \in 1..i /\ j # i /\ j \in 1..n
        BY <1>2, <3>1
      <3>5. Some(i) = Some(i - 1) \cup {s[i]}
        BY <3>3, <3>4
      <3>6. s[i] \notin Some(i - 1)
        BY <1>2, <1>9, <3>4 DEF OnceEach
      <3> HIDE DEF Some
      <3>7. CASE s[i] = a
        <4>1. G[i] = G[i - 1]
          BY <1>7, <3>7
        <4>2. ToSet(G[i]) = Some(i) \ {a}
          BY <3>1, <3>5, <3>7, <4>1
        <4> QED BY <3>1, <4>1, <4>2
      <3>8. CASE s[i] # a
        <4>1. PICK r, x : r = G[i - 1] /\ x = s[i]
          OBVIOUS
        <4>2. G[i] = Append(r, x) /\ r \in Seq(Addr) /\ x \in Addr /\ OnceEach(r) /\ ToSet(r) = Some(i - 1) \ {a}
          BY <1>7, <3>1, <3>2, <3>8, <4>1
        <4>3. x \notin ToSet(r)
          BY <3>6, <4>1, <4>2
        <4>4. OnceEach(Append(r, x)) /\ ToSet(Append(r, x)) = ToSet(r) \cup {x}
          BY <4>2, <4>3, AppendOnce
        <4>5. ToSet(G[i]) = Some(i) \ {a} /\ OnceEach(G[i])
          BY <3>5, <3>8, <4>1, <4>2, <4>4
        <4> QED BY <3>1, <4>5
      <3> QED BY <3>7, <3>8
    <2>3. \A i \in 0..n : i \in Well
      <3> HIDE DEF Well
      <3> QED BY <1>2, <2>1, <2>2, UpTo
    <2>4. Some(n) = ToSet(s)
      BY <1>2 DEF ToSet
    <2>5. n \in Well
      <3>1. n \in 0..n
        BY <1>2
      <3> HIDE DEF Well
      <3> QED BY <2>3, <3>1
    <2> HIDE DEF Some
    <2> QED BY <2>4, <2>5
  <1> QED BY <1>8, <1>9

LEMMA TakesEnough ==
    ASSUME NEW s \in Seq(Addr), OnceEach(s), NEW k \in 0..Len(s)
    PROVE  Len(TakeAll(k, {}, s)) = k
  <1>1. PICK n : n = Len(s)
    OBVIOUS
  <1>2. n \in Nat /\ DOMAIN s = 1..n /\ (\A i \in 1..n : s[i] \in Addr) /\ k \in Nat /\ k <= n
    BY <1>1
  <1>3. PICK A : A = Seq(Addr)
    OBVIOUS
  <1>4. PICK E : E = {}
    OBVIOUS
  <1>5. TakeStays(k, E, A, Addr)
    BY <1>3 DEF TakeStays, TakeStep
  <1>6. IndexedIn(s, n, Addr)
    BY <1>2 DEF IndexedIn
  <1>7. PICK G : IsTakeRun(k, E, A, s, n, G) /\ G[n] = TakeAll(k, E, s)
    BY <1>2, <1>5, <1>6, TakeRuns
  <1>8. /\ G \in [0..n -> Seq(Addr)] /\ G[0] = <<>>
        /\ \A i \in 1..n : G[i] = IF Len(G[i - 1]) >= k \/ s[i] \in ToSet(G[i - 1]) THEN G[i - 1] ELSE Append(G[i - 1], s[i])
    BY <1>3, <1>4, <1>7 DEF IsTakeRun, TakeStep
  <1> DEFINE Some(i) == {s[j] : j \in 1..i}
             Well == {i \in 0..n : Len(G[i]) = (IF i < k THEN i ELSE k) /\ ToSet(G[i]) \subseteq Some(i)}
  <1>9. 0 \in Well
    <2>1. Len(<<>>) = 0 /\ ToSet(<<>>) = {}
      BY DEF ToSet
    <2> QED BY <1>2, <1>8, <2>1
  <1>10. ASSUME NEW i \in 1..n, (i - 1) \in Well PROVE i \in Well
    <2>1. Len(G[i - 1]) = (IF i - 1 < k THEN i - 1 ELSE k) /\ ToSet(G[i - 1]) \subseteq Some(i - 1) /\ i \in 0..n /\ i \in Nat
      BY <1>2, <1>10
    <2>2. G[i - 1] \in Seq(Addr) /\ s[i] \in Addr
      BY <1>2, <1>8
    <2>3. i \in 1..i /\ \A j \in 1..(i - 1) : j \in 1..i /\ j # i /\ j \in 1..n
      BY <1>2, <2>1
    <2>4. s[i] \notin Some(i - 1)
      BY <1>2, <2>3 DEF OnceEach
    <2>5. Some(i - 1) \subseteq Some(i) /\ s[i] \in Some(i)
      BY <2>3
    <2> HIDE DEF Some
    <2>6. CASE Len(G[i - 1]) >= k
      <3>1. G[i] = G[i - 1]
        BY <1>8, <2>6
      <3>2. ~(i - 1 < k) /\ ~(i < k)
        BY <1>2, <2>1, <2>6
      <3>3. Len(G[i]) = (IF i < k THEN i ELSE k)
        BY <2>1, <3>1, <3>2
      <3>4. ToSet(G[i]) \subseteq Some(i)
        BY <2>1, <2>5, <3>1
      <3> QED BY <2>1, <3>3, <3>4
    <2>7. CASE ~(Len(G[i - 1]) >= k)
      <3>1. PICK r, x : r = G[i - 1] /\ x = s[i]
        OBVIOUS
      <3>2. G[i] = Append(r, x) /\ r \in Seq(Addr) /\ x \in Addr /\ ToSet(r) \subseteq Some(i - 1)
        BY <1>8, <2>1, <2>2, <2>4, <2>7, <3>1
      <3>3. Len(Append(r, x)) = Len(r) + 1 /\ ToSet(Append(r, x)) = ToSet(r) \cup {x}
        BY <3>2, AppendOnce
      <3>4. i - 1 < k /\ Len(r) = i - 1
        BY <1>2, <2>1, <2>7, <3>1
      <3>5. Len(G[i]) = (IF i < k THEN i ELSE k)
        BY <1>2, <2>1, <3>2, <3>3, <3>4
      <3>6. ToSet(G[i]) \subseteq Some(i)
        BY <2>5, <3>1, <3>2, <3>3
      <3> QED BY <2>1, <3>5, <3>6
    <2> QED BY <2>6, <2>7
  <1>11. \A i \in 0..n : i \in Well
    <2> HIDE DEF Well
    <2> QED BY <1>2, <1>9, <1>10, UpTo
  <1>12. Len(G[n]) = k
    BY <1>2, <1>11
  <1> QED BY <1>4, <1>7, <1>12

WellNew == WellTable(newTable, NEW_BUCKETS, NewBucketOf)
WellTried == WellTable(triedTable, TRIED_BUCKETS, TriedBucketOf)

AddrInv ==
    /\ WellNew /\ WellTried /\ feelers \in Seq(Addr)
    /\ Members(newTable) \cap Members(triedTable) = {}
    /\ feeler \subseteq Members(newTable)

LEMMA EmptyTable ==
    ASSUME NEW n \in Nat, NEW of, NEW t, t = [i \in 1..n |-> <<>>]
    PROVE  WellTable(t, n, of) /\ Members(t) = {}
  <1>1. ToSet(<<>>) = {} /\ OnceEach(<<>>)
    BY DEF ToSet, OnceEach
  <1>2. DOMAIN t = 1..n /\ t \in [1..n -> Seq(Addr)] /\ \A i \in 1..n : t[i] = <<>>
    OBVIOUS
  <1>3. WellTable(t, n, of)
    BY <1>1, <1>2 DEF WellTable
  <1>4. Members(t) = {}
    BY <1>1, <1>2 DEF Members
  <1> QED BY <1>3, <1>4

IsPushed(t, b, a, u) == u = [t EXCEPT ![b] = Push(t[b], a)]

LEMMA PushedTable ==
    ASSUME NEW t, NEW n, NEW of, WellTable(t, n, of), NEW a \in Addr, of[a] \in 1..n,
           a \notin ToSet(t[of[a]]), NEW u, IsPushed(t, of[a], a, u)
    PROVE  WellTable(u, n, of) /\ Members(u) \subseteq Members(t) \cup {a}
  <1>1. n \in Nat /\ t \in [1..n -> Seq(Addr)] /\ DOMAIN t = 1..n
        /\ \A i \in 1..n : OnceEach(t[i]) /\ \A x \in ToSet(t[i]) : of[x] = i
    BY DEF WellTable
  <1>2. PICK b : b = of[a] /\ b \in 1..n
    OBVIOUS
  <1>3. PICK q : q = Push(t[b], a)
    OBVIOUS
  <1>4. t[b] \in Seq(Addr) /\ OnceEach(t[b]) /\ a \notin ToSet(t[b])
    BY <1>1, <1>2
  <1>5. q \in Seq(Addr) /\ OnceEach(q) /\ ToSet(q) \subseteq ToSet(t[b]) \cup {a}
    BY <1>3, <1>4, PushOnce
  <1>6. u = [t EXCEPT ![b] = q]
    BY <1>2, <1>3 DEF IsPushed
  <1>7. u \in [1..n -> Seq(Addr)] /\ DOMAIN u = 1..n /\ u[b] = q /\ \A i \in 1..n : i # b => u[i] = t[i]
    BY <1>1, <1>2, <1>5, <1>6
  <1>8. ASSUME NEW i \in 1..n PROVE OnceEach(u[i]) /\ \A x \in ToSet(u[i]) : of[x] = i
    <2>1. CASE i = b
      BY <1>1, <1>2, <1>5, <1>7, <2>1
    <2>2. CASE i # b
      BY <1>1, <1>7, <2>2
    <2> QED BY <2>1, <2>2
  <1>9. WellTable(u, n, of)
    BY <1>1, <1>7, <1>8 DEF WellTable
  <1>10. Members(u) \subseteq Members(t) \cup {a}
    <2>1. ASSUME NEW x \in Members(u), x # a PROVE x \in Members(t)
      <3>1. PICK i \in 1..n : x \in ToSet(u[i])
        BY <1>7 DEF Members
      <3>2. x \in ToSet(t[i])
        BY <1>5, <1>7, <2>1, <3>1
      <3> QED BY <1>1, <3>2 DEF Members
    <2> QED BY <2>1
  <1> QED BY <1>9, <1>10

LEMMA ForgottenTable ==
    ASSUME NEW t, NEW n, NEW of, WellTable(t, n, of), NEW a
    PROVE  WellTable(Forget(t, a), n, of) /\ Members(Forget(t, a)) \subseteq Members(t) \ {a}
  <1>1. n \in Nat /\ t \in [1..n -> Seq(Addr)] /\ DOMAIN t = 1..n
        /\ \A i \in 1..n : OnceEach(t[i]) /\ \A x \in ToSet(t[i]) : of[x] = i
    BY DEF WellTable
  <1>2. PICK u : u = Forget(t, a)
    OBVIOUS
  <1>3. DOMAIN u = 1..n /\ u = [i \in 1..n |-> WithoutAddr(t[i], a)]
    BY <1>1, <1>2 DEF Forget
  <1>4. \A i \in 1..n : u[i] \in Seq(Addr) /\ OnceEach(u[i]) /\ ToSet(u[i]) = ToSet(t[i]) \ {a}
    BY <1>1, <1>3, WithoutIs
  <1>5. u \in [1..n -> Seq(Addr)]
    BY <1>3, <1>4
  <1>6. WellTable(u, n, of)
    BY <1>1, <1>4, <1>5 DEF WellTable
  <1>7. Members(u) \subseteq Members(t) \ {a}
    BY <1>1, <1>3, <1>4 DEF Members
  <1> QED BY <1>2, <1>6, <1>7

LEMMA AddrInitInv == AddrInit => AddrInv
  <1> SUFFICES ASSUME AddrInit PROVE AddrInv
    OBVIOUS
  <1>1. WellNew /\ Members(newTable) = {}
    BY EmptyTable, AddrConstants DEF AddrInit, WellNew
  <1>2. WellTried /\ Members(triedTable) = {}
    BY EmptyTable, AddrConstants DEF AddrInit, WellTried
  <1> QED BY <1>1, <1>2 DEF AddrInv, AddrInit

LEMMA AddKeeps ==
    ASSUME AddrInv, NEW a \in Addr, Add(a) PROVE AddrInv'
  <1>1. WellNew /\ WellTried /\ feelers \in Seq(Addr) /\ Members(newTable) \cap Members(triedTable) = {}
    BY DEF AddrInv
  <1>2. /\ a \notin Members(newTable) /\ a \notin Members(triedTable)
        /\ newTable' = [newTable EXCEPT ![NewBucketOf[a]] = Push(@, a)]
        /\ feelers' = IF a \in ToSet(feelers) THEN feelers ELSE Append(feelers, a)
        /\ feeler' = {} /\ triedTable' = triedTable
    BY DEF Add
  <1>3. NewBucketOf[a] \in 1..NEW_BUCKETS
    BY AddrConstants
  <1>4. a \notin ToSet(newTable[NewBucketOf[a]])
    <2>1. DOMAIN newTable = 1..NEW_BUCKETS
      BY <1>1 DEF WellNew, WellTable
    <2> QED BY <1>2, <1>3, <2>1 DEF Members
  <1>5. WellTable(newTable', NEW_BUCKETS, NewBucketOf) /\ Members(newTable') \subseteq Members(newTable) \cup {a}
    <2>1. PICK t, of, u : t = newTable /\ of = NewBucketOf /\ u = newTable'
      OBVIOUS
    <2>2. WellTable(t, NEW_BUCKETS, of) /\ of[a] \in 1..NEW_BUCKETS /\ a \notin ToSet(t[of[a]])
      BY <1>1, <1>3, <1>4, <2>1 DEF WellNew
    <2>3. IsPushed(t, of[a], a, u)
      BY <1>2, <2>1 DEF IsPushed
    <2>4. WellTable(u, NEW_BUCKETS, of) /\ Members(u) \subseteq Members(t) \cup {a}
      BY <2>2, <2>3, PushedTable
    <2> QED BY <2>1, <2>4
  <1>6. feelers' \in Seq(Addr)
    BY <1>1, <1>2
  <1>7. Members(newTable') \cap Members(triedTable') = {}
    BY <1>1, <1>2, <1>5
  <1>8. WellNew' /\ WellTried'
    BY <1>1, <1>2, <1>5 DEF WellNew, WellTried
  <1> QED BY <1>2, <1>6, <1>7, <1>8 DEF AddrInv

LEMMA GoodKeeps ==
    ASSUME AddrInv, NEW a \in Addr, Good(a) PROVE AddrInv'
  <1>1. WellNew /\ WellTried /\ feelers \in Seq(Addr) /\ Members(newTable) \cap Members(triedTable) = {}
    BY DEF AddrInv
  <1>2. /\ newTable' = Forget(newTable, a) /\ feelers' = WithoutAddr(feelers, a)
        /\ triedTable' = IF a \in ToSet(triedTable[TriedBucketOf[a]]) THEN triedTable
                         ELSE [triedTable EXCEPT ![TriedBucketOf[a]] = Push(@, a)]
        /\ feeler' = {}
    BY DEF Good
  <1>3. WellTable(newTable', NEW_BUCKETS, NewBucketOf) /\ Members(newTable') \subseteq Members(newTable) \ {a}
    BY <1>1, <1>2, ForgottenTable DEF WellNew
  <1>4. feelers' \in Seq(Addr)
    BY <1>1, <1>2, WithoutIs
  <1>5. TriedBucketOf[a] \in 1..TRIED_BUCKETS
    BY AddrConstants
  <1>6. WellTable(triedTable', TRIED_BUCKETS, TriedBucketOf) /\ Members(triedTable') \subseteq Members(triedTable) \cup {a}
    <2>1. CASE a \in ToSet(triedTable[TriedBucketOf[a]])
      BY <1>1, <1>2, <2>1 DEF WellTried
    <2>2. CASE a \notin ToSet(triedTable[TriedBucketOf[a]])
      <3>1. triedTable' = [triedTable EXCEPT ![TriedBucketOf[a]] = Push(@, a)]
        BY <1>2, <2>2
      <3>2. PICK t, of, u : t = triedTable /\ of = TriedBucketOf /\ u = triedTable'
        OBVIOUS
      <3>3. WellTable(t, TRIED_BUCKETS, of) /\ of[a] \in 1..TRIED_BUCKETS /\ a \notin ToSet(t[of[a]])
        BY <1>1, <1>5, <2>2, <3>2 DEF WellTried
      <3>4. IsPushed(t, of[a], a, u)
        BY <3>1, <3>2 DEF IsPushed
      <3>5. WellTable(u, TRIED_BUCKETS, of) /\ Members(u) \subseteq Members(t) \cup {a}
        BY <3>3, <3>4, PushedTable
      <3> QED BY <3>2, <3>5
    <2> QED BY <2>1, <2>2
  <1>7. Members(newTable') \cap Members(triedTable') = {}
    BY <1>1, <1>3, <1>6
  <1>8. WellNew' /\ WellTried'
    BY <1>3, <1>6 DEF WellNew, WellTried
  <1> QED BY <1>2, <1>4, <1>7, <1>8 DEF AddrInv

LEMMA FeelerKeeps ==
    ASSUME AddrInv, SelectFeeler PROVE AddrInv'
  <1>1. newTable' = newTable /\ triedTable' = triedTable /\ feelers \in Seq(Addr)
    BY DEF SelectFeeler, AddrInv
  <1>2. WellNew' /\ WellTried' /\ Members(newTable') \cap Members(triedTable') = {}
    BY <1>1 DEF AddrInv, WellNew, WellTried
  <1>3. PICK fit : fit = {i \in DOMAIN feelers : StillNew(feelers[i])}
    OBVIOUS
  <1>4. PICK n : n = Len(feelers) /\ n \in Nat /\ DOMAIN feelers = 1..n
    BY <1>1
  <1>5. CASE fit = {}
    <2>1. feelers' = <<>> /\ feeler' = {}
      BY <1>3, <1>5 DEF SelectFeeler
    <2> QED BY <1>2, <2>1 DEF AddrInv
  <1>6. CASE fit # {}
    <2>1. PICK m : m = Max(fit)
      OBVIOUS
    <2>2. feelers' = SubSeq(feelers, 1, m - 1) /\ feeler' = {feelers[m]}
      BY <1>3, <1>6, <2>1 DEF SelectFeeler
    <2>3. fit \in SUBSET (1..n)
      BY <1>3, <1>4
    <2>4. m \in fit /\ m \in 1..n
      BY <1>4, <1>6, <2>1, <2>3, IndexMax
    <2>5. feelers[m] \in Members(newTable)
      BY <1>3, <2>4 DEF StillNew
    <2>6. feelers' \in Seq(Addr)
      <3>1. \A i \in 1..(m - 1) : i \in 1..n
        BY <1>4, <2>4
      <3>2. m - 1 \in Nat /\ m - 1 <= n
        BY <1>4, <2>4
      <3> QED BY <1>1, <1>4, <2>2, <3>2
    <2> QED BY <1>1, <1>2, <2>2, <2>5, <2>6 DEF AddrInv
  <1> QED BY <1>5, <1>6

LEMMA AddrInvNext == AddrInv /\ [AddrNext]_addrVars => AddrInv'
  <1> SUFFICES ASSUME AddrInv, [AddrNext]_addrVars PROVE AddrInv'
    OBVIOUS
  <1>1. ASSUME NEW a \in Addr, Add(a) PROVE AddrInv'
    BY <1>1, AddKeeps
  <1>2. ASSUME NEW a \in Addr, Good(a) PROVE AddrInv'
    BY <1>2, GoodKeeps
  <1>3. CASE SelectFeeler
    BY <1>3, FeelerKeeps
  <1>4. CASE UNCHANGED addrVars
    BY <1>4 DEF AddrInv, WellNew, WellTried, addrVars
  <1> QED BY <1>1, <1>2, <1>3, <1>4 DEF AddrNext

LEMMA AddrInvMeans == AddrInv => OnePlaceOnly
  <1> SUFFICES ASSUME AddrInv PROVE OnePlaceOnly
    OBVIOUS
  <1>1. PICK en, et : en = Entries(newTable) /\ et = Entries(triedTable)
    OBVIOUS
  <1>2. en \in Seq(Addr) /\ OnceEach(en) /\ ToSet(en) = Members(newTable)
    BY <1>1, EntriesOnce DEF AddrInv, WellNew
  <1>3. et \in Seq(Addr) /\ OnceEach(et) /\ ToSet(et) = Members(triedTable)
    BY <1>1, EntriesOnce DEF AddrInv, WellTried
  <1>4. ToSet(et) \cap ToSet(en) = {}
    BY <1>2, <1>3 DEF AddrInv
  <1>5. PICK s : s = et \o en
    OBVIOUS
  <1>6. s \in Seq(Addr) /\ OnceEach(s) /\ ToSet(s) = ToSet(et) \cup ToSet(en)
    BY <1>2, <1>3, <1>4, <1>5, JoinOnce
  <1>7. Len(s) = Len(et) + Len(en) /\ Len(et) \in Nat /\ Len(en) \in Nat
    BY <1>2, <1>3, <1>5
  <1>8. Count(newTable) + Count(triedTable) = Len(s)
    BY <1>1, <1>7 DEF Count
  <1>9. Members(newTable) \cup Members(triedTable) = ToSet(s)
    BY <1>2, <1>3, <1>6
  <1>10. Cardinality(ToSet(s)) = Len(s)
    BY <1>6, OnceCounted
  <1>11. ASSUME NEW n \in 0..Len(s) PROVE Len(SelectAddrs(n, {})) = n
    <2>1. SelectAddrs(n, {}) = TakeAll(n, {}, s)
      BY <1>1, <1>5, SelectFold
    <2> QED BY <1>6, <2>1, TakesEnough
  <1>12. feeler \subseteq Members(newTable) \ Members(triedTable)
    BY DEF AddrInv
  <1> QED BY <1>8, <1>9, <1>10, <1>11, <1>12 DEF OnePlaceOnly

(***************************************************************************)
(* For any number of addresses, any buckets and any limits: an address is  *)
(* at one place of the address manager only, so that `len` counts none     *)
(* twice and `select` finds as many candidates as are asked for, if there  *)
(* are as many; and the feeler that `select_feeler` hands out is new and   *)
(* not tried.                                                              *)
(***************************************************************************)
THEOREM AddressesAtOnePlace == AddrSpec => []OnePlaceOnly
  BY AddrInitInv, AddrInvNext, AddrInvMeans, PTL DEF AddrSpec

-----------------------------------------------------------------------------
(***************************************************************************)
(* VersionBits: after every block of the walk the machine of `observe`     *)
(* stands where the rule puts it. The invariant of the walk is that blue   *)
(* scores grow; the rest is an induction along the blocks of one walk      *)
(* (Fits): what each of the five states says of the windows that have been *)
(* closed, and of the one that is open.                                    *)
(***************************************************************************)
VbBlock == Nat \X BOOLEAN

Deployment == [state : {"Defined", "Started", "LockedIn", "Active", "Failed"}, count : Nat, start : Nat]

Undecided == [state |-> "Defined", count |-> 0, start |-> 0]

VbAt(seq, f, s) == IF s = {} THEN Undecided ELSE Observe(f[s \ {Max(s)}], seq[Max(s)])

IsVbAll(seq, f) == f = [s \in SUBSET DOMAIN seq |-> VbAt(seq, f, s)]

VbAll(seq) == (CHOOSE f : IsVbAll(seq, f))[DOMAIN seq]

LEMMA StatusFold == ASSUME NEW w PROVE VersionBitsStatus(w) = VbAll(w)
  BY DEF VersionBitsStatus, FoldLeft, MapThenFoldSet, VbAll, IsVbAll, VbAt, Undecided

IsVbRun(seq, n, G) ==
    G \in [0..n -> Deployment] /\ G[0] = Undecided /\ \A i \in 1..n : G[i] = Observe(G[i - 1], seq[i])

LEMMA WindowIs ==
    ASSUME NEW a \in Nat
    PROVE  Window(a) \in Nat /\ Window(Window(a) * SIGNAL_WINDOW) = Window(a)
           /\ Window(a) * SIGNAL_WINDOW \in Nat
  BY VersionConstants DEF Window

LEMMA WindowGrows ==
    ASSUME NEW a \in Nat, NEW b \in Nat, a <= b
    PROVE  Window(a) <= Window(b)
  BY VersionConstants DEF Window

LEMMA CloseIs ==
    ASSUME NEW v \in Deployment, NEW a \in Nat
    PROVE  /\ Close(v, a) \in Deployment /\ Close(v, a).count = 0
           /\ Window(Close(v, a).start) = Window(a)
           /\ v.state = "Started" /\ v.count >= SIGNAL_THRESHOLD => Close(v, a).state = "LockedIn"
           /\ v.state = "Started" /\ ~(v.count >= SIGNAL_THRESHOLD) =>
                 Close(v, a).state = (IF a >= Timeout THEN "Failed" ELSE "Started")
           /\ v.state = "LockedIn" => Close(v, a).state = "Active"
           /\ v.state \in {"Defined", "Active", "Failed"} => Close(v, a).state = v.state
  <1>1. PICK s : s = Window(a) * SIGNAL_WINDOW
    OBVIOUS
  <1>2. s \in Nat /\ Window(s) = Window(a)
    BY <1>1, WindowIs
  <1>3. PICK st : st = Close(v, a).state
    OBVIOUS
  <1>4. st = CASE v.state = "Started" /\ v.count >= SIGNAL_THRESHOLD -> "LockedIn"
                 [] v.state = "Started" /\ v.count < SIGNAL_THRESHOLD /\ a >= Timeout -> "Failed"
                 [] v.state = "LockedIn" -> "Active"
                 [] OTHER -> v.state
    BY <1>3 DEF Close
  <1>5. Close(v, a) = [state |-> st, count |-> 0, start |-> s]
    BY <1>1, <1>4 DEF Close
  <1>6. v.count \in Nat /\ SIGNAL_THRESHOLD \in Nat /\ Timeout \in Nat /\ v.state \in {"Defined", "Started", "LockedIn", "Active", "Failed"}
    BY VersionConstants DEF Deployment
  <1>7. v.count < SIGNAL_THRESHOLD <=> ~(v.count >= SIGNAL_THRESHOLD)
    BY <1>6
  <1>8. /\ v.state = "Started" /\ v.count >= SIGNAL_THRESHOLD => st = "LockedIn"
        /\ v.state = "Started" /\ ~(v.count >= SIGNAL_THRESHOLD) =>
                 st = (IF a >= Timeout THEN "Failed" ELSE "Started")
        /\ v.state = "LockedIn" => st = "Active"
        /\ v.state \in {"Defined", "Active", "Failed"} => st = v.state
    BY <1>4, <1>6, <1>7
  <1>9. st \in {"Defined", "Started", "LockedIn", "Active", "Failed"}
    BY <1>6, <1>8
  <1> QED BY <1>2, <1>5, <1>8, <1>9 DEF Deployment

(***************************************************************************)
(* What `observe` does to the deployment once the window is settled.       *)
(***************************************************************************)
Settled(v, a) == IF Window(a) > Window(v.start) THEN Close(v, a) ELSE v

LEMMA SettledIs ==
    ASSUME NEW v \in Deployment, NEW a \in Nat
    PROVE  /\ Settled(v, a) \in Deployment
           /\ Window(v.start) <= Window(a) => Window(Settled(v, a).start) = Window(a)
  <1>1. Window(a) \in Nat /\ Window(v.start) \in Nat
    BY WindowIs DEF Deployment
  <1>2. CASE Window(a) > Window(v.start)
    <2>1. Settled(v, a) = Close(v, a)
      BY <1>2 DEF Settled
    <2> QED BY <2>1, CloseIs
  <1>3. CASE ~(Window(a) > Window(v.start))
    <2>1. Settled(v, a) = v
      BY <1>3 DEF Settled
    <2> QED BY <1>1, <1>3, <2>1
  <1> QED BY <1>2, <1>3

LEMMA ObserveIs ==
    ASSUME NEW v \in Deployment, NEW b \in VbBlock,
           NEW c, c = Settled(v, b[1]), NEW o, o = Observe(v, b)
    PROVE  /\ o \in Deployment
           /\ Window(v.start) <= Window(b[1]) => Window(o.start) = Window(b[1])
           /\ c.state = "Defined" /\ ~(b[1] >= Start) => o.state = "Defined" /\ o.count = c.count
           /\ c.state = "Started" \/ (c.state = "Defined" /\ b[1] >= Start) =>
                 /\ o.state = (IF b[1] >= Timeout THEN "Failed" ELSE "Started")
                 /\ o.count = (IF b[2] THEN c.count + 1 ELSE c.count)
           /\ c.state \in {"LockedIn", "Active", "Failed"} => o.state = c.state
  <1>0. b[1] \in Nat /\ b[2] \in BOOLEAN
    BY DEF VbBlock
  <1>1. c \in Deployment /\ (Window(v.start) <= Window(b[1]) => Window(c.start) = Window(b[1]))
    BY <1>0, SettledIs
  <1>2. PICK s : s = IF c.state = "Defined" /\ b[1] >= Start THEN "Started" ELSE c.state
    OBVIOUS
  <1>3. PICK n : n = IF s \in {"Started", "LockedIn"} /\ b[2] THEN c.count + 1 ELSE c.count
    OBVIOUS
  <1>4. PICK t : t = IF s = "Started" /\ b[1] >= Timeout THEN "Failed" ELSE s
    OBVIOUS
  <1>5. o = [c EXCEPT !.state = t, !.count = n]
    BY <1>2, <1>3, <1>4 DEF Observe, Settled
  <1>6. s \in {"Defined", "Started", "LockedIn", "Active", "Failed"}
    BY <1>1, <1>2 DEF Deployment
  <1>7. t \in {"Defined", "Started", "LockedIn", "Active", "Failed"} /\ n \in Nat
    BY <1>1, <1>3, <1>4, <1>6 DEF Deployment
  <1>8. o \in Deployment /\ o.state = t /\ o.count = n /\ o.start = c.start
    BY <1>1, <1>5, <1>7 DEF Deployment
  <1>9. Window(v.start) <= Window(b[1]) => Window(o.start) = Window(b[1])
    BY <1>1, <1>8
  <1>10. c.state = "Defined" /\ ~(b[1] >= Start) => o.state = "Defined" /\ o.count = c.count
    BY <1>2, <1>3, <1>4, <1>8
  <1>11. c.state = "Started" \/ (c.state = "Defined" /\ b[1] >= Start) =>
                 /\ o.state = (IF b[1] >= Timeout THEN "Failed" ELSE "Started")
                 /\ o.count = (IF b[2] THEN c.count + 1 ELSE c.count)
    BY <1>2, <1>3, <1>4, <1>8
  <1>12. c.state \in {"LockedIn", "Active", "Failed"} => o.state = c.state
    BY <1>2, <1>3, <1>4, <1>8
  <1> QED BY <1>8, <1>9, <1>10, <1>11, <1>12

LEMMA VbRuns ==
    ASSUME NEW n \in Nat, NEW seq, DOMAIN seq = 1..n, \A i \in 1..n : seq[i] \in VbBlock
    PROVE  \E G : IsVbRun(seq, n, G) /\ G[n] = VbAll(seq)
  <1>1. PICK F : F = [p \in Deployment \X VbBlock |-> Observe(p[1], p[2])]
    OBVIOUS
  <1>2. \A a \in Deployment : \A b \in VbBlock : F[<<a, b>>] = Observe(a, b)
    BY <1>1
  <1>3. \A a \in Deployment : \A b \in VbBlock : Observe(a, b) \in Deployment
    BY ObserveIs
  <1>4. F \in [Deployment \X VbBlock -> Deployment]
    <2>1. \A p \in Deployment \X VbBlock : Observe(p[1], p[2]) \in Deployment
      BY <1>3
    <2> QED BY <1>1, <2>1
  <1>5. Undecided \in Deployment
    BY DEF Undecided, Deployment
  <1>6. PICK f \in [SUBSET (1..n) -> Deployment] : IsFoldOf(F, Undecided, seq, 1..n, f)
    <2>1. IsFiniteSet(1..n) /\ \A y \in 1..n : y \in Nat
      BY FS_Interval
    <2>2. PICK I : I = 1..n
      OBVIOUS
    <2>3. IsFiniteSet(I) /\ \A y \in I : y \in Nat
      BY <2>1, <2>2
    <2>4. \A x \in I : seq[x] \in VbBlock
      BY <2>2
    <2>5. \E g \in [SUBSET I -> Deployment] : IsFoldOf(F, Undecided, seq, I, g)
      BY <1>4, <1>5, <2>3, <2>4, FoldExists
    <2> QED BY <2>2, <2>5
  <1>7. IsVbAll(seq, f)
    <2>1. ASSUME NEW s \in SUBSET (1..n) PROVE f[s] = VbAt(seq, f, s)
      <3>1. f[s] = IF s = {} THEN Undecided ELSE F[<<f[s \ {Max(s)}], seq[Max(s)]>>]
        BY <1>6 DEF IsFoldOf
      <3>2. CASE s # {}
        <4>1. Max(s) \in s
          BY <3>2, IndexMax
        <4>2. f[s \ {Max(s)}] \in Deployment /\ seq[Max(s)] \in VbBlock
          BY <1>6, <4>1
        <4> QED BY <1>2, <3>1, <3>2, <4>2 DEF VbAt
      <3> QED BY <3>1, <3>2 DEF VbAt
    <2>2. f = [s \in SUBSET (1..n) |-> VbAt(seq, f, s)]
      BY <1>6, <2>1
    <2> QED BY <2>2 DEF IsVbAll
  <1>8. PICK h : h = (CHOOSE g : IsVbAll(seq, g)) /\ IsVbAll(seq, h)
    BY <1>7
  <1>9. h[1..n] = VbAll(seq)
    BY <1>8 DEF VbAll
  <1>10. \A s \in SUBSET (1..n) : h[s] = VbAt(seq, h, s)
    BY <1>8 DEF IsVbAll
  <1>11. FollowsFold(Deployment, F, Undecided, seq, n, h)
    <2>1. h[{}] = Undecided
      BY <1>10 DEF VbAt
    <2>2. ASSUME NEW s \in SUBSET (1..n), s # {}, h[s \ {Max(s)}] \in Deployment
          PROVE  h[s] = F[<<h[s \ {Max(s)}], seq[Max(s)]>>]
      <3>1. h[s] = Observe(h[s \ {Max(s)}], seq[Max(s)])
        BY <1>10, <2>2 DEF VbAt
      <3>2. seq[Max(s)] \in VbBlock
        BY <2>2, IndexMax
      <3> QED BY <1>2, <2>2, <3>1, <3>2
    <2> QED BY <2>1, <2>2 DEF FollowsFold
  <1>12. PICK G : IsRun(Deployment, F, Undecided, seq, n, G) /\ G[n] = h[1..n]
    <2>1. IsStepOn(Deployment, VbBlock, F)
      BY <1>4 DEF IsStepOn
    <2>2. IndexedIn(seq, n, VbBlock)
      BY DEF IndexedIn
    <2> QED BY <1>5, <1>11, <2>1, <2>2, FoldRuns
  <1>13. G \in [0..n -> Deployment] /\ G[0] = Undecided /\ \A i \in 1..n : G[i] = F[<<G[i - 1], seq[i]>>]
    BY <1>12 DEF IsRun
  <1>14. ASSUME NEW i \in 1..n PROVE G[i] = Observe(G[i - 1], seq[i])
    <2>1. G[i - 1] \in Deployment /\ seq[i] \in VbBlock
      BY <1>13
    <2> QED BY <1>2, <1>13, <2>1
  <1> QED BY <1>9, <1>12, <1>13, <1>14 DEF IsVbRun

(***************************************************************************)
(* What the blocks up to the i-th say of a window: who signals in it,      *)
(* whether Timeout has been reached, whether it earns the lock-in.         *)
(***************************************************************************)
WindowAt(w, i) == Window(w[i][1])

IsWalk(w) ==
    /\ w \in Seq(VbBlock) /\ Len(w) > 0
    /\ \A i, j \in 1..Len(w) : i < j => w[i][1] < w[j][1]

Signals(w, i, x) == {j \in 1..i : WindowAt(w, j) = x /\ w[j][2] /\ w[j][1] >= Start}

Reached(w, i, s) == \E j \in 1..i : w[j][1] >= s

ReachedBy(w, i, x) == \E j \in 1..i : WindowAt(w, j) <= x /\ w[j][1] >= Timeout

EarnedBy(w, i, x) == Cardinality(Signals(w, i, x)) >= SIGNAL_THRESHOLD /\ ~ReachedBy(w, i, x)

FirstEarned(w, i, m) ==
    m \in Nat /\ EarnedBy(w, i, m) /\ \A x \in Nat : x < m => ~EarnedBy(w, i, x)

LEMMA WalkIs ==
    ASSUME NEW w, IsWalk(w), NEW i \in 1..Len(w)
    PROVE  /\ w[i] \in VbBlock /\ w[i][1] \in Nat /\ w[i][2] \in BOOLEAN /\ WindowAt(w, i) \in Nat
           /\ \A j \in 1..i : /\ j \in 1..Len(w) /\ WindowAt(w, j) <= WindowAt(w, i)
                              /\ w[j][1] <= w[i][1] /\ WindowAt(w, j) \in Nat /\ w[j][1] \in Nat
  <1>1. ASSUME NEW j \in 1..Len(w) PROVE w[j] \in VbBlock /\ w[j][1] \in Nat /\ w[j][2] \in BOOLEAN
    BY DEF IsWalk, VbBlock
  <1>2. Len(w) \in Nat
    BY DEF IsWalk
  <1>3. ASSUME NEW j \in 1..i
        PROVE  /\ j \in 1..Len(w) /\ WindowAt(w, j) <= WindowAt(w, i)
               /\ w[j][1] <= w[i][1] /\ WindowAt(w, j) \in Nat /\ w[j][1] \in Nat
    <2>1. j \in 1..Len(w)
      BY <1>2
    <2>2. w[j][1] \in Nat /\ w[i][1] \in Nat
      BY <1>1, <2>1
    <2>3. w[j][1] <= w[i][1]
      <3>1. CASE j = i
        BY <2>2, <3>1
      <3>2. CASE j < i
        <4>1. w[j][1] < w[i][1]
          BY <2>1, <3>2 DEF IsWalk
        <4> QED BY <2>2, <4>1
      <3> QED BY <1>2, <3>1, <3>2
    <2>4. PICK a, b : a = w[j][1] /\ b = w[i][1]
      OBVIOUS
    <2>5. Window(a) <= Window(b) /\ Window(a) \in Nat
      BY <2>2, <2>3, <2>4, WindowGrows, WindowIs
    <2> QED BY <2>1, <2>2, <2>3, <2>4, <2>5 DEF WindowAt
  <1>4. WindowAt(w, i) \in Nat
    BY <1>1, WindowIs DEF WindowAt
  <1> QED BY <1>1, <1>3, <1>4

LEMMA SignalsFinite ==
    ASSUME NEW w, NEW i \in Nat, NEW x
    PROVE  IsFiniteSet(Signals(w, i, x)) /\ Cardinality(Signals(w, i, x)) \in Nat
  <1>1. IsFiniteSet(1..i)
    BY FS_Interval
  <1>2. Signals(w, i, x) \subseteq 1..i
    BY DEF Signals
  <1>3. IsFiniteSet(Signals(w, i, x))
    BY <1>1, <1>2, FS_Subset
  <1> QED BY <1>3, FS_CardinalityType

LEMMA NoSignals ==
    ASSUME NEW w, NEW i \in Nat, NEW x, Signals(w, i, x) = {}
    PROVE  ~EarnedBy(w, i, x)
  <1>1. Cardinality(Signals(w, i, x)) = 0
    BY FS_EmptySet
  <1> QED BY <1>1, VersionConstants DEF EarnedBy

LEMMA EarnedEarlier ==
    ASSUME NEW w, IsWalk(w), NEW i \in 1..Len(w), NEW x \in Nat, x < WindowAt(w, i)
    PROVE  EarnedBy(w, i, x) <=> EarnedBy(w, i - 1, x)
  <1>1. i \in Nat /\ WindowAt(w, i) \in Nat
    BY WalkIs DEF IsWalk
  <1>2. \A j \in 1..i : j \in 1..(i - 1) \/ j = i
    BY <1>1
  <1>3. \A j \in 1..(i - 1) : j \in 1..i
    BY <1>1
  <1>4. ~(WindowAt(w, i) <= x) /\ WindowAt(w, i) # x
    BY <1>1
  <1>5. Signals(w, i, x) = Signals(w, i - 1, x)
    BY <1>2, <1>3, <1>4 DEF Signals
  <1>6. ReachedBy(w, i, x) <=> ReachedBy(w, i - 1, x)
    BY <1>2, <1>3, <1>4 DEF ReachedBy
  <1> QED BY <1>5, <1>6 DEF EarnedBy

LEMMA NotEarnedBeyond ==
    ASSUME NEW w, IsWalk(w), NEW i \in 1..Len(w), NEW x \in Nat, x > WindowAt(w, i)
    PROVE  ~EarnedBy(w, i, x)
  <1>1. i \in Nat /\ WindowAt(w, i) \in Nat
    BY WalkIs DEF IsWalk
  <1>2. \A j \in 1..i : WindowAt(w, j) <= WindowAt(w, i) /\ WindowAt(w, j) \in Nat
    BY WalkIs
  <1>3. \A j \in 1..i : WindowAt(w, j) # x
    BY <1>1, <1>2
  <1>4. Signals(w, i, x) = {}
    BY <1>3 DEF Signals
  <1> QED BY <1>1, <1>4, NoSignals

LEMMA TooLate ==
    ASSUME NEW w, IsWalk(w), NEW i \in 1..Len(w), NEW x \in Nat, x >= WindowAt(w, i),
           Reached(w, i, Timeout)
    PROVE  ~EarnedBy(w, i, x)
  <1>1. PICK j \in 1..i : w[j][1] >= Timeout
    BY DEF Reached
  <1>2. WindowAt(w, j) <= WindowAt(w, i) /\ WindowAt(w, j) \in Nat /\ WindowAt(w, i) \in Nat
    BY WalkIs
  <1>3. WindowAt(w, j) <= x
    BY <1>2
  <1> QED BY <1>1, <1>3 DEF EarnedBy, ReachedBy

LEMMA TooEarly ==
    ASSUME NEW w, NEW i \in Nat, NEW x, ~Reached(w, i, Start)
    PROVE  Signals(w, i, x) = {} /\ ~EarnedBy(w, i, x)
  <1>1. Signals(w, i, x) = {}
    BY DEF Signals, Reached
  <1> QED BY <1>1, NoSignals

LEMMA ReachedNow ==
    ASSUME NEW w, IsWalk(w), NEW i \in 1..Len(w), NEW s \in Nat
    PROVE  Reached(w, i, s) <=> w[i][1] >= s
  <1>1. i \in 1..i
    BY DEF IsWalk
  <1>2. \A j \in 1..i : w[j][1] <= w[i][1] /\ w[j][1] \in Nat /\ w[i][1] \in Nat
    BY WalkIs
  <1>3. \A j \in 1..i : w[j][1] >= s => w[i][1] >= s
    BY <1>2
  <1> QED BY <1>1, <1>3 DEF Reached

LEMMA ReachedBefore ==
    ASSUME NEW w, IsWalk(w), NEW i \in 1..Len(w), NEW s, Reached(w, i - 1, s)
    PROVE  Reached(w, i, s)
  <1>1. \A j \in 1..(i - 1) : j \in 1..i
    BY DEF IsWalk
  <1> QED BY <1>1 DEF Reached

LEMMA SignalsNow ==
    ASSUME NEW w, IsWalk(w), NEW i \in 1..Len(w), w[i][1] >= Start,
           NEW x, x = WindowAt(w, i),
           NEW c \in Nat, c = Cardinality(Signals(w, i - 1, x))
    PROVE  Cardinality(Signals(w, i, x)) = (IF w[i][2] THEN c + 1 ELSE c)
  <1>1. i \in Nat /\ i - 1 \in Nat /\ w[i][2] \in BOOLEAN
    BY WalkIs DEF IsWalk
  <1>2. \A j \in 1..i : j \in 1..(i - 1) \/ j = i
    BY <1>1
  <1>3. i \in 1..i /\ i \notin 1..(i - 1) /\ \A j \in 1..(i - 1) : j \in 1..i
    BY <1>1
  <1>4. CASE w[i][2]
    <2>1. Signals(w, i, x) = Signals(w, i - 1, x) \cup {i}
      BY <1>2, <1>3, <1>4 DEF Signals
    <2>2. i \notin Signals(w, i - 1, x)
      BY <1>3 DEF Signals
    <2>3. IsFiniteSet(Signals(w, i - 1, x))
      BY <1>1, SignalsFinite
    <2>4. Cardinality(Signals(w, i - 1, x) \cup {i}) = c + 1
      BY <2>2, <2>3, FS_AddElement
    <2> QED BY <1>4, <2>1, <2>4
  <1>5. CASE ~w[i][2]
    <2>1. Signals(w, i, x) = Signals(w, i - 1, x)
      BY <1>2, <1>3, <1>5 DEF Signals
    <2> QED BY <1>5, <2>1
  <1> QED BY <1>4, <1>5

(***************************************************************************)
(* Where the deployment stands after i blocks; its open window is the one  *)
(* of the last block.                                                      *)
(***************************************************************************)
NoneBefore(w, i, x) == \A y \in Nat : y < x => ~EarnedBy(w, i, y)

FitsDefined(w, i, v) == v.count = 0 /\ ~Reached(w, i, Start)

FitsStarted(w, i, v) ==
    /\ Reached(w, i, Start) /\ ~Reached(w, i, Timeout)
    /\ NoneBefore(w, i, Window(v.start))
    /\ v.count = Cardinality(Signals(w, i, Window(v.start)))

FitsLockedIn(w, i, v) ==
    \E m : /\ FirstEarned(w, i, m) /\ m < Window(v.start)
           /\ \E j \in 1..i : WindowAt(w, j) = Window(v.start)
           /\ \A j \in 1..i : WindowAt(w, j) > m => WindowAt(w, j) = Window(v.start)

FitsActive(w, i, v) ==
    \E m : FirstEarned(w, i, m) /\ \E j, k \in 1..i : m < WindowAt(w, j) /\ WindowAt(w, j) < WindowAt(w, k)

FitsFailed(w, i, v) ==
    Reached(w, i, Start) /\ Reached(w, i, Timeout) /\ \A x \in Nat : ~EarnedBy(w, i, x)

Fits(w, i, v) ==
    /\ v \in Deployment
    /\ IF i = 0 THEN v.start = 0 ELSE Window(v.start) = WindowAt(w, i)
    /\ \A j \in 1..i : WindowAt(w, j) <= Window(v.start)
    /\ v.state = "Defined" => FitsDefined(w, i, v)
    /\ v.state = "Started" => FitsStarted(w, i, v)
    /\ v.state = "LockedIn" => FitsLockedIn(w, i, v)
    /\ v.state = "Active" => FitsActive(w, i, v)
    /\ v.state = "Failed" => FitsFailed(w, i, v)

LEMMA EarnedStays ==
    ASSUME NEW w, IsWalk(w), NEW i \in 1..Len(w), NEW m, FirstEarned(w, i - 1, m), m < WindowAt(w, i)
    PROVE  FirstEarned(w, i, m)
  <1>1. m \in Nat /\ WindowAt(w, i) \in Nat
    BY WalkIs DEF FirstEarned
  <1>2. EarnedBy(w, i, m)
    BY <1>1, EarnedEarlier DEF FirstEarned
  <1>3. ASSUME NEW x \in Nat, x < m PROVE ~EarnedBy(w, i, x)
    <2>1. x < WindowAt(w, i)
      BY <1>1, <1>3
    <2>2. ~EarnedBy(w, i - 1, x)
      BY <1>3 DEF FirstEarned
    <2> QED BY <2>1, <2>2, EarnedEarlier
  <1> QED BY <1>1, <1>2, <1>3 DEF FirstEarned

LEMMA NoneStays ==
    ASSUME NEW w, IsWalk(w), NEW i \in 1..Len(w), NoneBefore(w, i - 1, WindowAt(w, i))
    PROVE  NoneBefore(w, i, WindowAt(w, i))
  BY EarnedEarlier DEF NoneBefore

LEMMA FailsForGood ==
    ASSUME NEW w, IsWalk(w), NEW i \in 1..Len(w), NoneBefore(w, i - 1, WindowAt(w, i)),
           Reached(w, i, Timeout), Reached(w, i, Start), NEW v
    PROVE  FitsFailed(w, i, v)
  <1>1. ASSUME NEW x \in Nat PROVE ~EarnedBy(w, i, x)
    <2>1. WindowAt(w, i) \in Nat
      BY WalkIs
    <2>2. CASE x < WindowAt(w, i)
      BY <2>2, NoneStays DEF NoneBefore
    <2>3. CASE x >= WindowAt(w, i)
      BY <2>3, TooLate
    <2> QED BY <2>1, <2>2, <2>3
  <1> QED BY <1>1 DEF FitsFailed

LEMMA CountsOn ==
    ASSUME NEW w, IsWalk(w), NEW i \in 1..Len(w), w[i][1] >= Start,
           NEW o, Window(o.start) = WindowAt(w, i),
           NoneBefore(w, i - 1, WindowAt(w, i)),
           NEW c \in Nat, c = Cardinality(Signals(w, i - 1, WindowAt(w, i))),
           o.state = (IF w[i][1] >= Timeout THEN "Failed" ELSE "Started"),
           o.count = (IF w[i][2] THEN c + 1 ELSE c)
    PROVE  /\ o.state \in {"Started", "Failed"}
           /\ o.state = "Started" => FitsStarted(w, i, o)
           /\ o.state = "Failed" => FitsFailed(w, i, o)
  <1>1. Reached(w, i, Start) /\ (Reached(w, i, Timeout) <=> w[i][1] >= Timeout)
    BY ReachedNow, VersionConstants
  <1>2. ASSUME o.state = "Failed" PROVE FitsFailed(w, i, o)
    <2>1. w[i][1] >= Timeout
      BY <1>2
    <2> QED BY <1>1, <2>1, FailsForGood
  <1>3. ASSUME o.state = "Started" PROVE FitsStarted(w, i, o)
    <2>1. ~Reached(w, i, Timeout)
      BY <1>1, <1>3
    <2>2. NoneBefore(w, i, WindowAt(w, i))
      BY NoneStays
    <2>3. PICK x : x = WindowAt(w, i)
      OBVIOUS
    <2>4. Cardinality(Signals(w, i, x)) = (IF w[i][2] THEN c + 1 ELSE c)
      BY <2>3, SignalsNow
    <2>5. o.count = Cardinality(Signals(w, i, Window(o.start)))
      BY <2>3, <2>4
    <2> QED BY <1>1, <2>1, <2>2, <2>5 DEF FitsStarted
  <1> QED BY <1>2, <1>3

LEMMA EmptyLater ==
    ASSUME NEW w, IsWalk(w), NEW i \in 1..Len(w), NEW p \in Nat, p < WindowAt(w, i),
           \A j \in 1..(i - 1) : WindowAt(w, j) <= p
    PROVE  Cardinality(Signals(w, i - 1, WindowAt(w, i))) = 0
  <1>1. i \in Nat /\ WindowAt(w, i) \in Nat /\ \A j \in 1..(i - 1) : j \in 1..i
    BY WalkIs DEF IsWalk
  <1>2. \A j \in 1..(i - 1) : WindowAt(w, j) \in Nat
    BY <1>1, WalkIs
  <1>3. \A j \in 1..(i - 1) : WindowAt(w, j) # WindowAt(w, i)
    BY <1>1, <1>2
  <1>4. Signals(w, i - 1, WindowAt(w, i)) = {}
    BY <1>3 DEF Signals
  <1> QED BY <1>4, FS_EmptySet

(***************************************************************************)
(* One block more, from each of the states.                                *)
(***************************************************************************)
VbStep(w, i, v, p, o) ==
    /\ IsWalk(w) /\ i \in 1..Len(w) /\ Fits(w, i - 1, v) /\ p = Window(v.start) /\ o = Observe(v, w[i])

LEMMA StepIs ==
    ASSUME NEW w, NEW i, NEW v, NEW p, NEW o, VbStep(w, i, v, p, o)
    PROVE  /\ v \in Deployment /\ p \in Nat /\ WindowAt(w, i) \in Nat /\ p <= WindowAt(w, i)
           /\ w[i] \in VbBlock /\ w[i][1] \in Nat /\ i \in 1..i
           /\ \A j \in 1..i : j \in 1..(i - 1) \/ j = i
           /\ \A j \in 1..(i - 1) : j \in 1..i
           /\ \A j \in 1..(i - 1) : WindowAt(w, j) <= p /\ WindowAt(w, j) \in Nat
  <1>1. IsWalk(w) /\ i \in 1..Len(w) /\ i \in Nat /\ i - 1 \in Nat
    BY DEF VbStep, IsWalk
  <1>2. v \in Deployment /\ v.start \in Nat
    BY DEF VbStep, Fits, Deployment
  <1>3. p \in Nat
    BY <1>2, WindowIs DEF VbStep
  <1>4. WindowAt(w, i) \in Nat /\ w[i] \in VbBlock /\ w[i][1] \in Nat
    BY <1>1, WalkIs
  <1>5. /\ \A j \in 1..i : j \in 1..(i - 1) \/ j = i
        /\ \A j \in 1..(i - 1) : j \in 1..i
        /\ i \in 1..i
    BY <1>1
  <1>6. \A j \in 1..(i - 1) : WindowAt(w, j) <= p /\ WindowAt(w, j) \in Nat
    BY <1>1, <1>5, WalkIs DEF VbStep, Fits
  <1>7. p <= WindowAt(w, i)
    <2>1. CASE i - 1 = 0
      <3>1. v.start = 0
        BY <2>1 DEF VbStep, Fits
      <3>2. p = Window(0)
        BY <3>1 DEF VbStep
      <3>3. Window(0) <= Window(w[i][1])
        BY <1>4, WindowGrows
      <3> QED BY <3>2, <3>3 DEF WindowAt
    <2>2. CASE i - 1 # 0
      <3>1. p = WindowAt(w, i - 1)
        BY <2>2 DEF VbStep, Fits
      <3>2. i - 1 \in 1..i
        BY <1>1, <2>2
      <3> QED BY <1>1, <3>1, <3>2, WalkIs
    <2> QED BY <2>1, <2>2
  <1> QED BY <1>2, <1>3, <1>4, <1>5, <1>6, <1>7

LEMMA StepDefined ==
    ASSUME NEW w, NEW i, NEW v, NEW p, NEW o, VbStep(w, i, v, p, o), v.state = "Defined"
    PROVE  /\ o.state \in {"Defined", "Started", "Failed"}
           /\ o.state = "Defined" => FitsDefined(w, i, o)
           /\ o.state = "Started" => FitsStarted(w, i, o)
           /\ o.state = "Failed" => FitsFailed(w, i, o)
  <1>1. IsWalk(w) /\ i \in 1..Len(w) /\ i - 1 \in Nat /\ o = Observe(v, w[i]) /\ p = Window(v.start)
    BY DEF VbStep, IsWalk
  <1>2. v \in Deployment /\ p \in Nat /\ WindowAt(w, i) \in Nat /\ p <= WindowAt(w, i)
        /\ w[i] \in VbBlock /\ w[i][1] \in Nat
    BY StepIs
  <1>3. v.count = 0 /\ ~Reached(w, i - 1, Start)
    BY DEF VbStep, Fits, FitsDefined
  <1>4. PICK c : c = Settled(v, w[i][1])
    OBVIOUS
  <1>5. c.state = "Defined" /\ c.count = 0
    BY <1>2, <1>3, <1>4, CloseIs DEF Settled
  <1>6. Window(o.start) = WindowAt(w, i)
    BY <1>1, <1>2, <1>4, ObserveIs DEF WindowAt
  <1>7. CASE ~(w[i][1] >= Start)
    <2>1. o.state = "Defined" /\ o.count = 0
      BY <1>1, <1>2, <1>4, <1>5, <1>7, ObserveIs
    <2>2. ~Reached(w, i, Start)
      BY <1>1, <1>7, ReachedNow, VersionConstants
    <2> QED BY <2>1, <2>2 DEF FitsDefined
  <1>8. CASE w[i][1] >= Start
    <2>1. o.state = (IF w[i][1] >= Timeout THEN "Failed" ELSE "Started") /\ o.count = (IF w[i][2] THEN c.count + 1 ELSE c.count)
      BY <1>1, <1>2, <1>4, <1>5, <1>8, ObserveIs
    <2>2. NoneBefore(w, i - 1, WindowAt(w, i))
      BY <1>1, <1>3, TooEarly DEF NoneBefore
    <2>3. Signals(w, i - 1, WindowAt(w, i)) = {}
      BY <1>1, <1>3, TooEarly
    <2>4. 0 = Cardinality(Signals(w, i - 1, WindowAt(w, i)))
      BY <2>3, FS_EmptySet
    <2>5. o.count = (IF w[i][2] THEN 0 + 1 ELSE 0)
      BY <1>5, <2>1
    <2> QED BY <1>1, <1>6, <1>8, <2>1, <2>2, <2>4, <2>5, CountsOn
  <1> QED BY <1>7, <1>8

LEMMA StepStarted ==
    ASSUME NEW w, NEW i, NEW v, NEW p, NEW o, VbStep(w, i, v, p, o), v.state = "Started"
    PROVE  /\ o.state \in {"Started", "LockedIn", "Failed"}
           /\ o.state = "Started" => FitsStarted(w, i, o)
           /\ o.state = "LockedIn" => FitsLockedIn(w, i, o)
           /\ o.state = "Failed" => FitsFailed(w, i, o)
  <1>1. IsWalk(w) /\ i \in 1..Len(w) /\ i - 1 \in Nat /\ o = Observe(v, w[i]) /\ p = Window(v.start)
    BY DEF VbStep, IsWalk
  <1>2. v \in Deployment /\ p \in Nat /\ WindowAt(w, i) \in Nat /\ p <= WindowAt(w, i)
        /\ w[i] \in VbBlock /\ w[i][1] \in Nat
    BY StepIs
  <1>3. /\ Reached(w, i - 1, Start) /\ ~Reached(w, i - 1, Timeout)
        /\ NoneBefore(w, i - 1, p) /\ v.count = Cardinality(Signals(w, i - 1, p))
    BY <1>1 DEF VbStep, Fits, FitsStarted
  <1>4. PICK c : c = Settled(v, w[i][1])
    OBVIOUS
  <1>5. Window(o.start) = WindowAt(w, i)
    BY <1>1, <1>2, <1>4, ObserveIs DEF WindowAt
  <1>6. Reached(w, i, Start) /\ w[i][1] >= Start
    BY <1>1, <1>3, ReachedBefore, ReachedNow, VersionConstants
  <1>7. v.count \in Nat
    BY <1>2 DEF Deployment
  <1>8. CASE p < WindowAt(w, i)
    <2>1. c = Close(v, w[i][1])
      BY <1>1, <1>2, <1>4, <1>8 DEF Settled, WindowAt
    <2>2. CASE v.count >= SIGNAL_THRESHOLD
      <3>1. c.state = "LockedIn"
        BY <1>2, <2>1, <2>2, CloseIs
      <3>2. o.state = "LockedIn"
        BY <1>1, <1>2, <1>4, <3>1, ObserveIs
      <3>3. FirstEarned(w, i - 1, p)
        BY <1>2, <1>3, <2>2 DEF FirstEarned, NoneBefore, EarnedBy, ReachedBy, Reached
      <3>4. FirstEarned(w, i, p)
        BY <1>1, <1>8, <3>3, EarnedStays
      <3>5. \A j \in 1..i : WindowAt(w, j) > p => WindowAt(w, j) = WindowAt(w, i)
        <4>1. ASSUME NEW j \in 1..i, WindowAt(w, j) > p PROVE WindowAt(w, j) = WindowAt(w, i)
          <5>1. CASE j \in 1..(i - 1)
            <6>1. WindowAt(w, j) <= p /\ WindowAt(w, j) \in Nat
              BY <5>1, StepIs
            <6> QED BY <1>2, <4>1, <6>1
          <5> QED BY <5>1, StepIs
        <4> QED BY <4>1
      <3>6. i \in 1..i
        BY StepIs
      <3>7. FitsLockedIn(w, i, o)
        BY <1>5, <1>8, <3>4, <3>5, <3>6 DEF FitsLockedIn
      <3> QED BY <3>2, <3>7
    <2>3. CASE ~(v.count >= SIGNAL_THRESHOLD)
      <3>1. c.state = (IF w[i][1] >= Timeout THEN "Failed" ELSE "Started") /\ c.count = 0
        BY <1>2, <2>1, <2>3, CloseIs
      <3>2. NoneBefore(w, i - 1, WindowAt(w, i))
        <4>1. ASSUME NEW y \in Nat, y < WindowAt(w, i) PROVE ~EarnedBy(w, i - 1, y)
          <5>1. CASE y < p
            BY <1>3, <5>1 DEF NoneBefore
          <5>2. CASE y = p
            BY <1>3, <2>3, <5>2 DEF EarnedBy
          <5>3. CASE y > p
            <6>1. \A j \in 1..(i - 1) : WindowAt(w, j) <= p /\ WindowAt(w, j) \in Nat
              BY StepIs
            <6>2. \A j \in 1..(i - 1) : WindowAt(w, j) # y
              BY <1>2, <5>3, <6>1
            <6>3. Signals(w, i - 1, y) = {}
              BY <6>2 DEF Signals
            <6> QED BY <1>1, <6>3, NoSignals
          <5> QED BY <1>2, <5>1, <5>2, <5>3
        <4> QED BY <4>1 DEF NoneBefore
      <3>3. CASE w[i][1] >= Timeout
        <4>1. o.state = "Failed"
          BY <1>1, <1>2, <1>4, <3>1, <3>3, ObserveIs
        <4>2. Reached(w, i, Timeout)
          BY <1>1, <3>3, ReachedNow, VersionConstants
        <4>3. FitsFailed(w, i, o)
          BY <1>1, <1>6, <3>2, <4>2, FailsForGood
        <4> QED BY <4>1, <4>3
      <3>4. CASE ~(w[i][1] >= Timeout)
        <4>1. c.state = "Started" /\ c.count = 0
          BY <3>1, <3>4
        <4>2. o.state = (IF w[i][1] >= Timeout THEN "Failed" ELSE "Started") /\ o.count = (IF w[i][2] THEN c.count + 1 ELSE c.count)
          BY <1>1, <1>2, <1>4, <4>1, ObserveIs
        <4>3. o.count = (IF w[i][2] THEN 0 + 1 ELSE 0)
          BY <4>1, <4>2
        <4>4. \A j \in 1..(i - 1) : WindowAt(w, j) <= p
          BY StepIs
        <4>5. 0 = Cardinality(Signals(w, i - 1, WindowAt(w, i)))
          BY <1>1, <1>2, <1>8, <4>4, EmptyLater
        <4> QED BY <1>1, <1>5, <1>6, <3>2, <4>2, <4>3, <4>5, CountsOn
      <3> QED BY <3>3, <3>4
    <2> QED BY <2>2, <2>3
  <1>9. CASE p = WindowAt(w, i)
    <2>1. c.state = "Started" /\ c.count = v.count
      BY <1>1, <1>2, <1>4, <1>9 DEF Settled, WindowAt
    <2>2. o.state = (IF w[i][1] >= Timeout THEN "Failed" ELSE "Started") /\ o.count = (IF w[i][2] THEN v.count + 1 ELSE v.count)
      BY <1>1, <1>2, <1>4, <2>1, ObserveIs
    <2>3. NoneBefore(w, i - 1, WindowAt(w, i)) /\ v.count = Cardinality(Signals(w, i - 1, WindowAt(w, i)))
      BY <1>3, <1>9
    <2> QED BY <1>1, <1>5, <1>6, <1>7, <2>2, <2>3, CountsOn
  <1> QED BY <1>2, <1>8, <1>9

LEMMA StepLockedIn ==
    ASSUME NEW w, NEW i, NEW v, NEW p, NEW o, VbStep(w, i, v, p, o), v.state = "LockedIn"
    PROVE  /\ o.state \in {"LockedIn", "Active"}
           /\ o.state = "LockedIn" => FitsLockedIn(w, i, o)
           /\ o.state = "Active" => FitsActive(w, i, o)
  <1>1. IsWalk(w) /\ i \in 1..Len(w) /\ i - 1 \in Nat /\ o = Observe(v, w[i]) /\ p = Window(v.start)
    BY DEF VbStep, IsWalk
  <1>2. v \in Deployment /\ p \in Nat /\ WindowAt(w, i) \in Nat /\ p <= WindowAt(w, i)
        /\ w[i] \in VbBlock /\ w[i][1] \in Nat /\ i \in 1..i
    BY StepIs
  <1>3. PICK m : /\ FirstEarned(w, i - 1, m) /\ m < p
                 /\ \E j \in 1..(i - 1) : WindowAt(w, j) = p
                 /\ \A j \in 1..(i - 1) : WindowAt(w, j) > m => WindowAt(w, j) = p
    BY <1>1 DEF VbStep, Fits, FitsLockedIn
  <1>4. PICK c : c = Settled(v, w[i][1])
    OBVIOUS
  <1>5. Window(o.start) = WindowAt(w, i)
    BY <1>1, <1>2, <1>4, ObserveIs DEF WindowAt
  <1>6. m \in Nat
    BY <1>3 DEF FirstEarned
  <1>7. FirstEarned(w, i, m) /\ m < WindowAt(w, i)
    BY <1>1, <1>2, <1>3, <1>6, EarnedStays
  <1>8. CASE p < WindowAt(w, i)
    <2>1. c = Close(v, w[i][1])
      BY <1>1, <1>2, <1>4, <1>8 DEF Settled, WindowAt
    <2>2. c.state = "Active"
      BY <1>2, <2>1, CloseIs
    <2>3. o.state = "Active"
      BY <1>1, <1>2, <1>4, <2>2, ObserveIs
    <2>4. PICK j \in 1..(i - 1) : WindowAt(w, j) = p
      BY <1>3
    <2>5. j \in 1..i /\ m < WindowAt(w, j) /\ WindowAt(w, j) < WindowAt(w, i)
      BY <1>3, <1>8, <2>4, StepIs
    <2>6. FitsActive(w, i, o)
      BY <1>2, <1>7, <2>5 DEF FitsActive
    <2> QED BY <2>3, <2>6
  <1>9. CASE p = WindowAt(w, i)
    <2>1. c.state = "LockedIn"
      BY <1>1, <1>2, <1>4, <1>9 DEF Settled, WindowAt
    <2>2. o.state = "LockedIn"
      BY <1>1, <1>2, <1>4, <2>1, ObserveIs
    <2>3. \A j \in 1..i : WindowAt(w, j) > m => WindowAt(w, j) = WindowAt(w, i)
      BY <1>3, <1>9, StepIs
    <2>4. FitsLockedIn(w, i, o)
      BY <1>2, <1>5, <1>7, <2>3 DEF FitsLockedIn
    <2> QED BY <2>2, <2>4
  <1> QED BY <1>2, <1>8, <1>9

LEMMA StepSettled ==
    ASSUME NEW w, NEW i, NEW v, NEW p, NEW o, VbStep(w, i, v, p, o), v.state \in {"Active", "Failed"}
    PROVE  /\ o.state = v.state
           /\ o.state = "Active" => FitsActive(w, i, o)
           /\ o.state = "Failed" => FitsFailed(w, i, o)
  <1>1. IsWalk(w) /\ i \in 1..Len(w) /\ i - 1 \in Nat /\ o = Observe(v, w[i]) /\ p = Window(v.start)
    BY DEF VbStep, IsWalk
  <1>2. v \in Deployment /\ p \in Nat /\ WindowAt(w, i) \in Nat /\ p <= WindowAt(w, i)
        /\ w[i] \in VbBlock /\ w[i][1] \in Nat /\ i \in 1..i
    BY StepIs
  <1>3. PICK c : c = Settled(v, w[i][1])
    OBVIOUS
  <1>4. c.state = v.state
    BY <1>2, <1>3, CloseIs DEF Settled
  <1>5. o.state = v.state
    BY <1>1, <1>2, <1>3, <1>4, ObserveIs
  <1>6. ASSUME v.state = "Failed" PROVE FitsFailed(w, i, o)
    <2>1. Reached(w, i - 1, Start) /\ Reached(w, i - 1, Timeout) /\ NoneBefore(w, i - 1, WindowAt(w, i))
      BY <1>6 DEF VbStep, Fits, FitsFailed, NoneBefore
    <2> QED BY <1>1, <2>1, ReachedBefore, FailsForGood
  <1>7. ASSUME v.state = "Active" PROVE FitsActive(w, i, o)
    <2>1. PICK m : FirstEarned(w, i - 1, m) /\ \E j, k \in 1..(i - 1) : m < WindowAt(w, j) /\ WindowAt(w, j) < WindowAt(w, k)
      BY <1>7 DEF VbStep, Fits, FitsActive
    <2>2. PICK j, k \in 1..(i - 1) : m < WindowAt(w, j) /\ WindowAt(w, j) < WindowAt(w, k)
      BY <2>1
    <2>3. m \in Nat /\ WindowAt(w, j) \in Nat /\ WindowAt(w, j) <= p
      BY <2>1, StepIs DEF FirstEarned
    <2>4. m < WindowAt(w, i)
      BY <1>2, <2>2, <2>3
    <2>5. FirstEarned(w, i, m)
      BY <1>1, <2>1, <2>4, EarnedStays
    <2>6. j \in 1..i /\ k \in 1..i
      BY StepIs
    <2> QED BY <2>2, <2>5, <2>6 DEF FitsActive
  <1> QED BY <1>5, <1>6, <1>7

LEMMA FitsOn ==
    ASSUME NEW w, NEW i, NEW v, NEW p, NEW o, VbStep(w, i, v, p, o)
    PROVE  Fits(w, i, o)
  <1>1. IsWalk(w) /\ i \in 1..Len(w) /\ i # 0 /\ o = Observe(v, w[i]) /\ p = Window(v.start)
    BY DEF VbStep, IsWalk
  <1>2. v \in Deployment /\ p <= WindowAt(w, i) /\ w[i] \in VbBlock
    BY StepIs
  <1>3. o \in Deployment /\ Window(o.start) = WindowAt(w, i)
    BY <1>1, <1>2, ObserveIs DEF WindowAt
  <1>4. \A j \in 1..i : WindowAt(w, j) <= Window(o.start)
    BY <1>1, <1>3, WalkIs
  <1>5. v.state \in {"Defined", "Started", "LockedIn", "Active", "Failed"}
    BY <1>2 DEF Deployment
  <1>6. /\ o.state = "Defined" => FitsDefined(w, i, o)
        /\ o.state = "Started" => FitsStarted(w, i, o)
        /\ o.state = "LockedIn" => FitsLockedIn(w, i, o)
        /\ o.state = "Active" => FitsActive(w, i, o)
        /\ o.state = "Failed" => FitsFailed(w, i, o)
    <2>1. CASE v.state = "Defined"
      BY <2>1, StepDefined
    <2>2. CASE v.state = "Started"
      BY <2>2, StepStarted
    <2>3. CASE v.state = "LockedIn"
      BY <2>3, StepLockedIn
    <2>4. CASE v.state \in {"Active", "Failed"}
      BY <2>4, StepSettled
    <2> QED BY <1>5, <2>1, <2>2, <2>3, <2>4
  <1> QED BY <1>1, <1>3, <1>4, <1>6 DEF Fits

LEMMA StatusFits ==
    ASSUME NEW w, IsWalk(w)
    PROVE  Fits(w, Len(w), VersionBitsStatus(w))
  <1>1. PICK n : n = Len(w)
    OBVIOUS
  <1>2. n \in Nat /\ DOMAIN w = 1..n /\ \A i \in 1..n : w[i] \in VbBlock
    BY <1>1 DEF IsWalk
  <1>3. PICK G : IsVbRun(w, n, G) /\ G[n] = VbAll(w)
    BY <1>2, VbRuns
  <1> DEFINE Well == {i \in 0..n : Fits(w, i, G[i])}
  <1>4. 0 \in Well
    <2>1. G[0] = Undecided /\ 0 \in 0..n
      BY <1>2, <1>3 DEF IsVbRun
    <2>2. ~Reached(w, 0, Start) /\ \A j \in 1..0 : WindowAt(w, j) <= Window(G[0].start)
      BY DEF Reached
    <2>3. FitsDefined(w, 0, G[0])
      BY <2>1, <2>2 DEF FitsDefined, Undecided
    <2>4. G[0] \in Deployment /\ G[0].start = 0 /\ G[0].state = "Defined"
      BY <2>1 DEF Undecided, Deployment
    <2>5. Fits(w, 0, G[0])
      BY <2>2, <2>3, <2>4 DEF Fits
    <2> QED BY <2>1, <2>5
  <1>5. ASSUME NEW i \in 1..n, (i - 1) \in Well PROVE i \in Well
    <2>1. Fits(w, i - 1, G[i - 1]) /\ i \in 0..n
      BY <1>2, <1>5
    <2>2. G[i] = Observe(G[i - 1], w[i])
      BY <1>3 DEF IsVbRun
    <2>3. VbStep(w, i, G[i - 1], Window(G[i - 1].start), G[i])
      BY <1>1, <2>1, <2>2 DEF VbStep
    <2>4. Fits(w, i, G[i])
      BY <2>3, FitsOn
    <2> QED BY <2>1, <2>4
  <1>6. \A i \in 0..n : i \in Well
    <2> HIDE DEF Well
    <2> QED BY <1>2, <1>4, <1>5, UpTo
  <1>7. Fits(w, n, G[n])
    BY <1>2, <1>6
  <1> QED BY <1>1, <1>3, <1>7, StatusFold

LEMMA MinIs ==
    ASSUME NEW S, S \subseteq Nat, NEW m \in S, \A y \in S : m <= y
    PROVE  Min(S) = m
  <1>1. PICK x : x = Min(S)
    OBVIOUS
  <1>2. x \in S /\ \A y \in S : x <= y
    BY <1>1 DEF Min
  <1>3. x <= m /\ m <= x /\ x \in Nat /\ m \in Nat
    BY <1>2
  <1> QED BY <1>1, <1>3

WindowsOf(w) == {WindowAt(w, i) : i \in DOMAIN w}
EarnedIn(w) == {x \in WindowsOf(w) : EarnedBy(w, Len(w), x)}
AfterIn(w) == IF EarnedIn(w) = {} THEN {} ELSE {x \in WindowsOf(w) : x > Min(EarnedIn(w))}

RuleKept(w, state) ==
    /\ state = "LockedIn" <=> Cardinality(AfterIn(w)) = 1
    /\ state = "Active" <=> Cardinality(AfterIn(w)) >= 2
    /\ state = "Failed" <=> AfterIn(w) = {} /\ Last(w)[1] >= Timeout /\ Last(w)[1] >= Start

LEMMA RuleIs ==
    ASSUME IsWalk(walk)
    PROVE  LockInIsEarned <=> RuleKept(walk, VersionBitsStatus(walk).state)
  <1>1. PICK n : n = Len(walk)
    OBVIOUS
  <1>2. DOMAIN walk = 1..n
    BY <1>1 DEF IsWalk
  <1>3. \A x : {i \in {k \in DOMAIN walk : Window(walk[k][1]) = x} : walk[i][2] /\ walk[i][1] >= Start} = Signals(walk, n, x)
    BY <1>2 DEF Signals, WindowAt
  <1>4. \A x : (\E i \in DOMAIN walk : Window(walk[i][1]) <= x /\ walk[i][1] >= Timeout) <=> ReachedBy(walk, n, x)
    BY <1>2 DEF ReachedBy, WindowAt
  <1>5. WindowsOf(walk) = {Window(walk[i][1]) : i \in DOMAIN walk}
    BY DEF WindowsOf, WindowAt
  <1> DEFINE earned == {x \in {Window(walk[i][1]) : i \in DOMAIN walk} :
                   /\ Cardinality({i \in {k \in DOMAIN walk : Window(walk[k][1]) = x} : walk[i][2] /\ walk[i][1] >= Start}) >= SIGNAL_THRESHOLD
                   /\ ~\E i \in DOMAIN walk : Window(walk[i][1]) <= x /\ walk[i][1] >= Timeout}
  <1>6. earned = EarnedIn(walk)
    <2>1. EarnedIn(walk) = {x \in WindowsOf(walk) : EarnedBy(walk, n, x)}
      BY <1>1 DEF EarnedIn
    <2>2. \A x : EarnedBy(walk, n, x) <=> /\ Cardinality({i \in {k \in DOMAIN walk : Window(walk[k][1]) = x} : walk[i][2] /\ walk[i][1] >= Start}) >= SIGNAL_THRESHOLD
                                           /\ ~\E i \in DOMAIN walk : Window(walk[i][1]) <= x /\ walk[i][1] >= Timeout
      BY <1>3, <1>4, Zenon DEF EarnedBy
    <2> QED BY <1>5, <2>1, <2>2, Zenon
  <1> DEFINE after == IF earned = {} THEN {} ELSE {x \in {Window(walk[i][1]) : i \in DOMAIN walk} : x > Min(earned)}
  <1>7. after = AfterIn(walk)
    <2> HIDE DEF earned
    <2> QED BY <1>5, <1>6 DEF AfterIn
  <1>8. LockInIsEarned <=> /\ VersionBitsStatus(walk).state = "LockedIn" <=> Cardinality(after) = 1
                           /\ VersionBitsStatus(walk).state = "Active" <=> Cardinality(after) >= 2
                           /\ VersionBitsStatus(walk).state = "Failed" <=> after = {} /\ Last(walk)[1] >= Timeout /\ Last(walk)[1] >= Start
    BY Zenon DEF LockInIsEarned
  <1> HIDE DEF after
  <1> QED BY <1>7, <1>8, Zenon DEF RuleKept

LEMMA WindowsAre ==
    ASSUME NEW w, IsWalk(w), NEW n, n = Len(w)
    PROVE  /\ IsFiniteSet(WindowsOf(w)) /\ WindowsOf(w) \subseteq Nat
           /\ n \in 1..Len(w) /\ n \in Nat /\ DOMAIN w = 1..n
           /\ \A i \in 1..n : WindowAt(w, i) \in WindowsOf(w)
           /\ \A x \in WindowsOf(w) : \E i \in 1..n : x = WindowAt(w, i)
  <1>1. n \in 1..Len(w) /\ n \in Nat /\ DOMAIN w = 1..n
    BY DEF IsWalk
  <1>2. WindowsOf(w) = {WindowAt(w, i) : i \in 1..n}
    BY <1>1 DEF WindowsOf
  <1>3. IsFiniteSet(1..n)
    BY <1>1, FS_Interval
  <1>4. IsFiniteSet(WindowsOf(w))
    <2>1. PICK f : f = [i \in 1..n |-> WindowAt(w, i)]
      OBVIOUS
    <2>2. f \in Surjection(1..n, WindowsOf(w))
      BY <1>2, <2>1 DEF Surjection
    <2> QED BY <1>3, <2>2, FS_Surjection
  <1>5. \A i \in 1..n : WindowAt(w, i) \in Nat
    BY <1>1, WalkIs
  <1> QED BY <1>1, <1>2, <1>4, <1>5

LEMMA AfterFirst ==
    ASSUME NEW w, IsWalk(w), NEW n, n = Len(w), NEW m, FirstEarned(w, n, m)
    PROVE  AfterIn(w) = {x \in WindowsOf(w) : x > m}
  <1>1. WindowsOf(w) \subseteq Nat /\ m \in Nat /\ n \in Nat
    BY WindowsAre DEF FirstEarned
  <1>2. m \in WindowsOf(w)
    <2>1. Signals(w, n, m) # {}
      BY <1>1, NoSignals DEF FirstEarned
    <2>2. PICK j \in 1..n : WindowAt(w, j) = m
      BY <2>1 DEF Signals
    <2> QED BY <2>2, WindowsAre
  <1>3. m \in EarnedIn(w) /\ EarnedIn(w) \subseteq Nat
    BY <1>1, <1>2 DEF EarnedIn, FirstEarned
  <1>4. \A y \in EarnedIn(w) : m <= y
    BY <1>1 DEF EarnedIn, FirstEarned
  <1>5. Min(EarnedIn(w)) = m
    BY <1>3, <1>4, MinIs
  <1> QED BY <1>3, <1>5 DEF AfterIn

LEMMA NothingAfter ==
    ASSUME NEW w, IsWalk(w), NEW n, n = Len(w), NoneBefore(w, n, WindowAt(w, n))
    PROVE  AfterIn(w) = {}
  <1>1. WindowsOf(w) \subseteq Nat /\ n \in Nat /\ n \in 1..Len(w)
    BY WindowsAre
  <1>2. \A x \in WindowsOf(w) : x <= WindowAt(w, n)
    BY <1>1, WalkIs, WindowsAre
  <1>3. WindowAt(w, n) \in Nat
    BY <1>1, WalkIs
  <1>4. \A x \in EarnedIn(w) : x = WindowAt(w, n)
    <2>1. ASSUME NEW x \in EarnedIn(w) PROVE x = WindowAt(w, n)
      <3>1. x \in WindowsOf(w) /\ EarnedBy(w, n, x) /\ x \in Nat
        BY <1>1 DEF EarnedIn
      <3>2. ~(x < WindowAt(w, n))
        BY <3>1 DEF NoneBefore
      <3> QED BY <1>2, <1>3, <3>1, <3>2
    <2> QED BY <2>1
  <1>5. CASE EarnedIn(w) # {}
    <2>1. PICK m : m = WindowAt(w, n)
      OBVIOUS
    <2>2. EarnedIn(w) = {m}
      BY <1>4, <1>5, <2>1
    <2>3. Min(EarnedIn(w)) = m
      BY <1>3, <2>1, <2>2, MinIs
    <2>4. \A x \in WindowsOf(w) : ~(x > m)
      BY <1>1, <1>2, <1>3, <2>1
    <2> QED BY <2>3, <2>4 DEF AfterIn
  <1> QED BY <1>5 DEF AfterIn

LEMMA RuleFollows ==
    ASSUME NEW w, IsWalk(w), NEW v, Fits(w, Len(w), v)
    PROVE  RuleKept(w, v.state)
  <1>1. PICK n : n = Len(w)
    OBVIOUS
  <1>2. /\ n \in 1..Len(w) /\ n \in Nat /\ n # 0 /\ Fits(w, n, v) /\ v \in Deployment
        /\ Window(v.start) = WindowAt(w, n)
    BY <1>1, WindowsAre DEF Fits
  <1>3. IsFiniteSet(WindowsOf(w)) /\ WindowsOf(w) \subseteq Nat
    BY WindowsAre
  <1>4. /\ Last(w)[1] >= Timeout <=> Reached(w, n, Timeout)
        /\ Last(w)[1] >= Start <=> Reached(w, n, Start)
    <2>1. Last(w) = w[n]
      BY <1>1 DEF Last
    <2> QED BY <1>2, <2>1, ReachedNow, VersionConstants
  <1>5. v.state \in {"Defined", "Started", "LockedIn", "Active", "Failed"}
    BY <1>2 DEF Deployment
  <1>6. Cardinality({}) = 0
    BY FS_EmptySet
  <1>7. CASE v.state = "Defined"
    <2>1. ~Reached(w, n, Start)
      BY <1>2, <1>7 DEF Fits, FitsDefined
    <2>2. NoneBefore(w, n, WindowAt(w, n))
      BY <1>2, <2>1, TooEarly DEF NoneBefore
    <2>3. AfterIn(w) = {}
      BY <1>1, <2>2, NothingAfter
    <2> QED BY <1>4, <1>6, <1>7, <2>1, <2>3 DEF RuleKept
  <1>8. CASE v.state = "Started"
    <2>1. ~Reached(w, n, Timeout) /\ NoneBefore(w, n, WindowAt(w, n))
      BY <1>2, <1>8 DEF Fits, FitsStarted
    <2>2. AfterIn(w) = {}
      BY <1>1, <2>1, NothingAfter
    <2> QED BY <1>4, <1>6, <1>8, <2>1, <2>2 DEF RuleKept
  <1>9. CASE v.state = "Failed"
    <2>1. Reached(w, n, Start) /\ Reached(w, n, Timeout) /\ NoneBefore(w, n, WindowAt(w, n))
      BY <1>2, <1>9 DEF Fits, FitsFailed, NoneBefore
    <2>2. AfterIn(w) = {}
      BY <1>1, <2>1, NothingAfter
    <2> QED BY <1>4, <1>6, <1>9, <2>1, <2>2 DEF RuleKept
  <1>10. CASE v.state = "LockedIn"
    <2>1. PICK m : /\ FirstEarned(w, n, m) /\ m < WindowAt(w, n)
                   /\ \A j \in 1..n : WindowAt(w, j) > m => WindowAt(w, j) = WindowAt(w, n)
      BY <1>2, <1>10 DEF Fits, FitsLockedIn
    <2>2. PICK x : x = WindowAt(w, n)
      OBVIOUS
    <2>3. AfterIn(w) = {y \in WindowsOf(w) : y > m}
      BY <1>1, <2>1, AfterFirst
    <2>4. n \in 1..n
      BY <1>2
    <2>5. x \in WindowsOf(w) /\ x > m
      <3>1. x \in Nat /\ m \in Nat
        BY <1>2, <2>1, <2>2, WalkIs DEF FirstEarned
      <3>2. x \in WindowsOf(w)
        BY <1>1, <2>2, <2>4, WindowsAre
      <3> QED BY <2>1, <2>2, <3>1, <3>2
    <2>6. \A y \in WindowsOf(w) : y > m => y = x
      BY <1>1, <2>1, <2>2, WindowsAre
    <2>7. AfterIn(w) = {x}
      BY <2>3, <2>5, <2>6
    <2>8. Cardinality(AfterIn(w)) = 1
      BY <2>7, FS_Singleton
    <2> QED BY <1>10, <2>7, <2>8 DEF RuleKept
  <1>11. CASE v.state = "Active"
    <2>1. PICK m : FirstEarned(w, n, m) /\ \E j, k \in 1..n : m < WindowAt(w, j) /\ WindowAt(w, j) < WindowAt(w, k)
      BY <1>2, <1>11 DEF Fits, FitsActive
    <2>2. PICK j, k \in 1..n : m < WindowAt(w, j) /\ WindowAt(w, j) < WindowAt(w, k)
      BY <2>1
    <2>3. AfterIn(w) = {y \in WindowsOf(w) : y > m}
      BY <1>1, <2>1, AfterFirst
    <2>4. PICK a, b : a = WindowAt(w, j) /\ b = WindowAt(w, k)
      OBVIOUS
    <2>5. a \in WindowsOf(w) /\ b \in WindowsOf(w)
      BY <1>1, <2>4, WindowsAre
    <2>6. a \in Nat /\ b \in Nat /\ m \in Nat
      BY <1>3, <2>1, <2>5 DEF FirstEarned
    <2>7. a \in AfterIn(w) /\ b \in AfterIn(w) /\ a # b
      BY <2>2, <2>3, <2>4, <2>5, <2>6
    <2>8. IsFiniteSet(AfterIn(w))
      BY <1>3, <2>3, FS_Subset
    <2>9. IsFiniteSet({a, b}) /\ Cardinality({a, b}) = 2
      <3>1. IsFiniteSet({a}) /\ Cardinality({a}) = 1
        BY FS_Singleton
      <3>2. b \notin {a} /\ {a} \cup {b} = {a, b}
        BY <2>7
      <3>3. IsFiniteSet({a} \cup {b}) /\ Cardinality({a} \cup {b}) = 2
        BY <3>1, <3>2, FS_AddElement
      <3> QED BY <3>2, <3>3
    <2>10. {a, b} \subseteq AfterIn(w)
      BY <2>7
    <2>11. Cardinality({a, b}) <= Cardinality(AfterIn(w)) /\ Cardinality(AfterIn(w)) \in Nat
      BY <2>8, <2>10, FS_Subset, FS_CardinalityType
    <2>12. Cardinality(AfterIn(w)) >= 2 /\ Cardinality(AfterIn(w)) # 1 /\ AfterIn(w) # {}
      BY <2>7, <2>9, <2>11
    <2> QED BY <1>11, <2>12 DEF RuleKept
  <1> QED BY <1>5, <1>7, <1>8, <1>9, <1>10, <1>11

Walking == IsWalk(walk)

LEMMA WalkStart == VbInit => Walking
  <1> SUFFICES ASSUME VbInit PROVE IsWalk(walk)
    BY DEF Walking
  <1>1. <<0, FALSE>> \in VbBlock
    BY DEF VbBlock
  <1>2. walk \in Seq(VbBlock) /\ Len(walk) = 1
    BY <1>1 DEF VbInit
  <1> QED BY <1>2 DEF IsWalk

LEMMA WalkGrows == Walking /\ [ExtendChain]_walk => Walking'
  <1> SUFFICES ASSUME IsWalk(walk), ExtendChain PROVE IsWalk(walk')
    BY DEF Walking
  <1>1. PICK step \in 1..MaxStep, signal \in BOOLEAN :
            walk' = Append(walk, <<Last(walk)[1] + step, signal>>)
    BY DEF ExtendChain
  <1>2. PICK n : n = Len(walk)
    OBVIOUS
  <1>3. n \in 1..Len(walk) /\ n \in Nat /\ walk \in Seq(VbBlock) /\ Last(walk) = walk[n]
    BY <1>2 DEF IsWalk, Last
  <1>4. PICK b : b = <<walk[n][1] + step, signal>>
    OBVIOUS
  <1>5. walk[n][1] \in Nat /\ step \in Nat /\ step > 0
    BY <1>3, WalkIs, VersionConstants
  <1>6. b \in VbBlock /\ b[1] > walk[n][1] /\ b[1] \in Nat
    BY <1>4, <1>5 DEF VbBlock
  <1>7. walk' = Append(walk, b)
    BY <1>1, <1>3, <1>4
  <1>8. /\ walk' \in Seq(VbBlock) /\ Len(walk') = n + 1
        /\ walk'[n + 1] = b /\ \A i \in 1..n : walk'[i] = walk[i]
    BY <1>2, <1>3, <1>6, <1>7, AppendProperties
  <1>9. ASSUME NEW i \in 1..(n + 1), NEW j \in 1..(n + 1), i < j
        PROVE  walk'[i][1] < walk'[j][1]
    <2>1. i \in 1..n
      BY <1>3, <1>9
    <2>2. CASE j \in 1..n
      <3>1. walk[i][1] < walk[j][1]
        BY <1>2, <1>9, <2>1, <2>2 DEF IsWalk
      <3> QED BY <1>8, <2>1, <2>2, <3>1
    <2>3. CASE j = n + 1
      <3>1. walk[i][1] <= walk[n][1] /\ walk[i][1] \in Nat
        BY <1>3, <2>1, WalkIs
      <3>2. walk[i][1] < b[1]
        BY <1>5, <1>6, <3>1
      <3> QED BY <1>8, <2>1, <2>3, <3>2
    <2> QED BY <1>3, <2>2, <2>3
  <1> QED BY <1>3, <1>8, <1>9 DEF IsWalk

(***************************************************************************)
(* For any window, threshold, start and timeout, and for every walk of     *)
(* blocks with growing blue scores: the state that `version_bits_status`   *)
(* computes is the one that the rule gives, windows that no block falls    *)
(* into and a timeout before the start included.                           *)
(***************************************************************************)
THEOREM LockInEarned == VbSpec => []LockInIsEarned
  <1>1. Walking => LockInIsEarned
    <2> SUFFICES ASSUME IsWalk(walk) PROVE LockInIsEarned
      BY DEF Walking
    <2>1. RuleKept(walk, VersionBitsStatus(walk).state)
      BY StatusFits, RuleFollows
    <2> QED BY <2>1, RuleIs
  <1> QED BY <1>1, WalkStart, WalkGrows, PTL DEF VbSpec
-----------------------------------------------------------------------------
(***************************************************************************)
(* FeeHistory: the estimates.  EstimateIsSupported alone is not inductive: *)
(* what a sample tells of a lag is decided when its block is recorded,     *)
(* which may be long after the block came.  FeeInv adds that an entry of   *)
(* first_seen belongs to a waiting transaction and is from its last        *)
(* admission, no later than the tip, and that a transaction of a block     *)
(* above the last sample is marked as unseen: the block came beside the    *)
(* chain, and a reorganisation that records it later finds no entry.       *)
(***************************************************************************)

WellTree(tr) ==
    /\ IsFiniteSet(DOMAIN tr) /\ DOMAIN tr \subseteq Nat
    /\ Root0 \in DOMAIN tr /\ tr[Root0].blue = 0 /\ tr[Root0].txs = {}
    /\ \A x \in DOMAIN tr : tr[x].blue \in Nat /\ tr[x].txs \in SUBSET FeeTx /\ tr[x].parent \in DOMAIN tr
    /\ \A x \in DOMAIN tr \ {Root0} : tr[tr[x].parent].blue < tr[x].blue

ChainStep(tr, f, x) == IF x = Root0 THEN <<>> ELSE Append(f[tr[x].parent], x)

IsChains(tr, f) == f = [x \in DOMAIN tr |-> ChainStep(tr, f, x)]

LEMMA ChainToIs ==
    ASSUME NEW tr, NEW b PROVE ChainTo(tr, b) = (CHOOSE f : IsChains(tr, f))[b]
  BY DEF ChainTo, IsChains, ChainStep

(***************************************************************************)
(* The recursion along the parents has a solution.                         *)
(***************************************************************************)
LEMMA ChainsExist ==
    ASSUME NEW tr, WellTree(tr)
    PROVE  \E f : IsChains(tr, f)
  <1>1. PICK K : K = DOMAIN tr
    OBVIOUS
  <1>2. /\ IsFiniteSet(K) /\ \A x \in K : tr[x].blue \in Nat /\ tr[x].parent \in K
        /\ \A x \in K : x # Root0 => tr[tr[x].parent].blue < tr[x].blue
    BY <1>1 DEF WellTree
  <1>3. PICK A : A = Seq(K)
    OBVIOUS
  <1>4. PICK rank : rank = [x \in K |-> tr[x].blue]
    OBVIOUS
  <1>5. PICK D : D = [x \in K |-> IF x = Root0 THEN {} ELSE {tr[x].parent}]
    OBVIOUS
  <1>6. Ranked(K, rank, D)
    BY <1>2, <1>4, <1>5 DEF Ranked
  <1>7. PICK H : H = [p \in K \X [K -> A] |-> ChainStep(tr, p[2], p[1])]
    OBVIOUS
  <1>8. \A x \in K : \A f \in [K -> A] : H[<<x, f>>] = ChainStep(tr, f, x)
    BY <1>7
  <1>9. A # {}
    <2>1. <<>> \in Seq(K)
      OBVIOUS
    <2> QED BY <1>3, <2>1
  <1>10. ASSUME NEW x \in K, NEW f \in [K -> A] PROVE ChainStep(tr, f, x) \in A
    <2>1. CASE x = Root0
      <3>1. <<>> \in Seq(K)
        OBVIOUS
      <3> QED BY <1>3, <2>1, <3>1 DEF ChainStep
    <2>2. CASE x # Root0
      <3>1. PICK s : s = f[tr[x].parent]
        OBVIOUS
      <3>2. s \in Seq(K)
        BY <1>2, <1>3, <3>1
      <3>3. Append(s, x) \in Seq(K)
        BY <3>2
      <3> QED BY <1>3, <2>2, <3>1, <3>3 DEF ChainStep
    <2> QED BY <2>1, <2>2
  <1>11. ASSUME NEW x \in K, NEW f \in [K -> A], NEW g \in [K -> A], \A y \in D[x] : f[y] = g[y]
         PROVE  ChainStep(tr, f, x) = ChainStep(tr, g, x)
    <2>1. CASE x = Root0
      BY <2>1 DEF ChainStep
    <2>2. CASE x # Root0
      <3>1. tr[x].parent \in D[x]
        BY <1>5, <2>2
      <3>2. f[tr[x].parent] = g[tr[x].parent]
        BY <1>11, <3>1
      <3> QED BY <2>2, <3>2 DEF ChainStep
    <2> QED BY <2>1, <2>2
  <1>12. DependsOn(K, A, D, H)
    BY <1>8, <1>10, <1>11 DEF DependsOn
  <1>13. PICK f : Solves(H, A, K, K, f)
    BY <1>2, <1>6, <1>9, <1>12, RecursionExists
  <1>14. f \in [K -> A] /\ \A x \in K : f[x] = ChainStep(tr, f, x)
    BY <1>8, <1>13 DEF Solves
  <1>15. f = [x \in K |-> ChainStep(tr, f, x)]
    BY <1>14
  <1> QED BY <1>1, <1>15 DEF IsChains

(***************************************************************************)
(* A chain holds blocks of the tree; all but the last are parents.         *)
(***************************************************************************)
Lands(tr, s, x) ==
    /\ s \in Seq(DOMAIN tr)
    /\ \A y \in ToSet(s) : y = x \/ \E z \in DOMAIN tr \ {Root0} : tr[z].parent = y

LEMMA ChainIs ==
    ASSUME NEW tr, WellTree(tr), NEW b \in DOMAIN tr
    PROVE  /\ Lands(tr, ChainTo(tr, b), b)
           /\ b # Root0 => \E s \in Seq(DOMAIN tr) : ChainTo(tr, b) = Append(s, b)
  <1>1. PICK K : K = DOMAIN tr
    OBVIOUS
  <1>2. /\ \A x \in K : tr[x].blue \in Nat /\ tr[x].parent \in K
        /\ \A x \in K : x # Root0 => tr[tr[x].parent].blue < tr[x].blue
    BY <1>1 DEF WellTree
  <1>3. PICK f : f = CHOOSE g : IsChains(tr, g)
    OBVIOUS
  <1>4. IsChains(tr, f)
    BY <1>3, ChainsExist
  <1>5. \A x \in K : f[x] = ChainStep(tr, f, x)
    BY <1>1, <1>4 DEF IsChains
  <1>6. PICK rank : rank = [x \in K |-> tr[x].blue]
    OBVIOUS
  <1>7. PICK D : D = [x \in K |-> IF x = Root0 THEN {} ELSE {tr[x].parent}]
    OBVIOUS
  <1>8. PICK G : G = {x \in K : Lands(tr, f[x], x)}
    OBVIOUS
  <1>9. \A x \in K : rank[x] \in Nat
    BY <1>2, <1>6
  <1>10. \A x \in K : \A y \in D[x] : y \in K /\ rank[y] < rank[x]
    BY <1>2, <1>6, <1>7
  <1>11. ASSUME NEW x \in K, D[x] \subseteq G PROVE x \in G
    <2>1. CASE x = Root0
      <3>1. f[x] = <<>>
        BY <1>5, <2>1 DEF ChainStep
      <3>2. <<>> \in Seq(DOMAIN tr)
        OBVIOUS
      <3>3. ToSet(<<>>) = {}
        BY DEF ToSet
      <3>4. Lands(tr, <<>>, x)
        BY <3>2, <3>3 DEF Lands
      <3> QED BY <1>8, <3>1, <3>4
    <2>2. CASE x # Root0
      <3>1. PICK q : q = tr[x].parent
        OBVIOUS
      <3>2. PICK s : s = f[q]
        OBVIOUS
      <3>3. q \in G
        BY <1>7, <1>11, <2>2, <3>1
      <3>4. Lands(tr, s, q)
        BY <1>8, <3>2, <3>3
      <3>5. s \in Seq(K) /\ x \in K
        BY <1>1, <3>4 DEF Lands
      <3>6. f[x] = Append(s, x)
        BY <1>5, <2>2, <3>1, <3>2 DEF ChainStep
      <3>7. Append(s, x) \in Seq(K)
        BY <3>5
      <3>8. ToSet(Append(s, x)) = ToSet(s) \cup {x}
        BY <3>5 DEF ToSet
      <3>9. ASSUME NEW y \in ToSet(Append(s, x))
            PROVE  y = x \/ \E z \in K \ {Root0} : tr[z].parent = y
        <4>1. CASE y \in ToSet(s)
          <5>1. y = q \/ \E z \in K \ {Root0} : tr[z].parent = y
            BY <1>1, <3>4, <4>1 DEF Lands
          <5> QED BY <2>2, <3>1, <5>1
        <4> QED BY <3>8, <3>9, <4>1
      <3>10. Lands(tr, Append(s, x), x)
        BY <1>1, <3>7, <3>9 DEF Lands
      <3> QED BY <1>8, <3>6, <3>10
    <2> QED BY <2>1, <2>2
  <1>12. \A x \in K : x \in G
    BY <1>9, <1>10, <1>11, RankInduction, SMTT(60)
  <1>13. \A x \in K : ChainTo(tr, x) = f[x]
    BY <1>3, ChainToIs
  <1>14. Lands(tr, f[b], b)
    BY <1>1, <1>8, <1>12
  <1>15. ASSUME b # Root0 PROVE \E s \in Seq(K) : f[b] = Append(s, b)
    <2>1. PICK q \in K : q = tr[b].parent
      BY <1>1, <1>2
    <2>2. PICK s : s = f[q]
      OBVIOUS
    <2>3. Lands(tr, s, q)
      BY <1>8, <1>12, <2>2
    <2>4. s \in Seq(K)
      BY <1>1, <2>3 DEF Lands
    <2>5. f[b] = Append(s, b)
      BY <1>1, <1>5, <1>15, <2>1, <2>2 DEF ChainStep
    <2> QED BY <2>4, <2>5
  <1> QED BY <1>1, <1>13, <1>14, <1>15

(***************************************************************************)
(* The heaviest block has the highest score.                               *)
(***************************************************************************)
LEMMA ImageIs ==
    ASSUME NEW S, IsFiniteSet(S), NEW f, DOMAIN f = S, NEW T, T = {f[x] : x \in S}
    PROVE  /\ IsFiniteSet(T)
           /\ (\A x \in S : \A y \in S : f[x] = f[y] => x = y) => Cardinality(T) = Cardinality(S)
  <1>1. PICK g : g = [x \in S |-> f[x]]
    OBVIOUS
  <1>2. g \in Surjection(S, T)
    BY <1>1 DEF Surjection
  <1>3. IsFiniteSet(T) /\ (Cardinality(T) = Cardinality(S) <=> g \in Injection(S, T))
    BY <1>2, FS_Surjection
  <1>4. ASSUME \A x \in S : \A y \in S : f[x] = f[y] => x = y PROVE g \in Injection(S, T)
    BY <1>1, <1>4 DEF Injection, IsInjective
  <1> QED BY <1>3, <1>4

LEMMA HeaviestIs ==
    ASSUME NEW tr, WellTree(tr), NEW h, h = HeaviestTip(tr)
    PROVE  h \in DOMAIN tr /\ \A c \in DOMAIN tr : tr[c].blue <= tr[h].blue
  <1>1. PICK K : K = DOMAIN tr
    OBVIOUS
  <1>2. IsFiniteSet(K) /\ K \subseteq Nat /\ K # {} /\ \A x \in K : tr[x].blue \in Nat
    BY <1>1 DEF WellTree
  <1>3. PICK B : B = {tr[x].blue : x \in K}
    OBVIOUS
  <1>4. IsFiniteSet(B) /\ B # {} /\ \A y \in B : y \in Nat
    <2>1. PICK f : f = [x \in K |-> tr[x].blue]
      OBVIOUS
    <2>2. DOMAIN f = K /\ B = {f[x] : x \in K}
      BY <1>3, <2>1
    <2>3. IsFiniteSet(B)
      BY <1>2, <2>2, ImageIs
    <2> QED BY <1>2, <1>3, <2>3
  <1>5. PICK m : m = Max(B) /\ m \in B /\ \A y \in B : y <= m
    BY <1>4, MaxIs
  <1>6. PICK T : T = {x \in K : tr[x].blue = m}
    OBVIOUS
  <1>7. IsFiniteSet(T) /\ T # {} /\ \A y \in T : y \in Nat
    BY <1>2, <1>3, <1>5, <1>6, FS_Subset
  <1>8. PICK b : b = Max(T) /\ b \in T /\ \A y \in T : y <= b
    BY <1>7, MaxIs
  <1>9. ASSUME NEW c \in K \ {b} PROVE tr[c].blue < tr[b].blue \/ (tr[c].blue = tr[b].blue /\ c < b)
    <2>1. tr[c].blue \in Nat /\ tr[b].blue = m /\ m \in Nat /\ tr[c].blue <= m /\ c \in Nat /\ b \in Nat
      BY <1>2, <1>3, <1>4, <1>5, <1>6, <1>8
    <2>2. CASE tr[c].blue = m
      <3>1. c \in T
        BY <1>6, <2>2
      <3>2. c <= b /\ c # b
        BY <1>8, <3>1
      <3> QED BY <2>1, <2>2, <3>2
    <2> QED BY <2>1, <2>2
  <1>10. b \in K
    BY <1>6, <1>8
  <1>11. h \in K /\ \A c \in K \ {h} : tr[c].blue < tr[h].blue \/ (tr[c].blue = tr[h].blue /\ c < h)
    BY <1>1, <1>9, <1>10 DEF HeaviestTip
  <1>12. ASSUME NEW c \in K PROVE tr[c].blue <= tr[h].blue
    BY <1>2, <1>11
  <1> QED BY <1>1, <1>11, <1>12

SamplingStep(tr, last, r, b) ==
    IF tr[b].blue > last /\ tr[b].txs # {} THEN Recorded(Append(r, Sample(tr, b))) ELSE r

SamplingAt(tr, last, b0, seq, f, s) == IF s = {} THEN b0 ELSE SamplingStep(tr, last, f[s \ {Max(s)}], seq[Max(s)])

IsSamplingAll(tr, last, b0, seq, f) == f = [s \in SUBSET DOMAIN seq |-> SamplingAt(tr, last, b0, seq, f, s)]

SamplingAll(tr, last, b0, seq) == (CHOOSE f : IsSamplingAll(tr, last, b0, seq, f))[DOMAIN seq]

IsSamplingRun(tr, last, b0, A, seq, n, G) ==
    G \in [0..n -> A] /\ G[0] = b0 /\ \A i \in 1..n : G[i] = SamplingStep(tr, last, G[i - 1], seq[i])

SamplingStays(tr, last, b0, A, V) == b0 \in A /\ \A a \in A : \A v \in V : SamplingStep(tr, last, a, v) \in A

LEMMA SamplingRuns ==
    ASSUME NEW tr, NEW last, NEW b0, NEW A, NEW V, NEW n \in Nat, NEW seq, DOMAIN seq = 1..n, IndexedIn(seq, n, V),
           SamplingStays(tr, last, b0, A, V)
    PROVE  \E G : IsSamplingRun(tr, last, b0, A, seq, n, G) /\ G[n] = SamplingAll(tr, last, b0, seq)
  <1>1. \A i \in 1..n : seq[i] \in V
    BY DEF IndexedIn
  <1>2. PICK F : F = [p \in A \X V |-> SamplingStep(tr, last, p[1], p[2])]
    OBVIOUS
  <1>3. \A a \in A : \A v \in V : F[<<a, v>>] = SamplingStep(tr, last, a, v)
    BY <1>2
  <1>4. F \in [A \X V -> A]
    <2>1. \A p \in A \X V : SamplingStep(tr, last, p[1], p[2]) \in A
      BY DEF SamplingStays
    <2> QED BY <1>2, <2>1
  <1>5. PICK base : base = b0 /\ base \in A
    BY DEF SamplingStays
  <1>6. PICK f \in [SUBSET (1..n) -> A] : IsFoldOf(F, base, seq, 1..n, f)
    <2>1. IsFiniteSet(1..n) /\ \A y \in 1..n : y \in Nat
      BY FS_Interval
    <2>2. PICK I : I = 1..n
      OBVIOUS
    <2>3. IsFiniteSet(I) /\ \A y \in I : y \in Nat
      BY <2>1, <2>2
    <2>4. \A x \in I : seq[x] \in V
      BY <1>1, <2>2
    <2>5. \E g \in [SUBSET I -> A] : IsFoldOf(F, base, seq, I, g)
      BY <1>4, <1>5, <2>3, <2>4, FoldExists
    <2> QED BY <2>2, <2>5
  <1>7. IsSamplingAll(tr, last, b0, seq, f)
    <2>1. ASSUME NEW s \in SUBSET (1..n) PROVE f[s] = SamplingAt(tr, last, b0, seq, f, s)
      <3>1. f[s] = IF s = {} THEN base ELSE F[<<f[s \ {Max(s)}], seq[Max(s)]>>]
        BY <1>6 DEF IsFoldOf
      <3>2. CASE s # {}
        <4>1. Max(s) \in s
          BY <3>2, IndexMax
        <4>2. f[s \ {Max(s)}] \in A /\ seq[Max(s)] \in V
          BY <1>1, <1>6, <4>1
        <4> QED BY <1>3, <3>1, <3>2, <4>2 DEF SamplingAt
      <3> QED BY <1>5, <3>1, <3>2 DEF SamplingAt
    <2>2. f = [s \in SUBSET (1..n) |-> SamplingAt(tr, last, b0, seq, f, s)]
      BY <1>6, <2>1
    <2> QED BY <2>2 DEF IsSamplingAll
  <1>8. PICK h : h = (CHOOSE g : IsSamplingAll(tr, last, b0, seq, g)) /\ IsSamplingAll(tr, last, b0, seq, h)
    BY <1>7
  <1>9. h[1..n] = SamplingAll(tr, last, b0, seq)
    BY <1>8 DEF SamplingAll
  <1>10. \A s \in SUBSET (1..n) : h[s] = SamplingAt(tr, last, b0, seq, h, s)
    BY <1>8 DEF IsSamplingAll
  <1>11. FollowsFold(A, F, base, seq, n, h)
    <2>1. h[{}] = base
      BY <1>5, <1>10 DEF SamplingAt
    <2>2. ASSUME NEW s \in SUBSET (1..n), s # {}, h[s \ {Max(s)}] \in A
          PROVE  h[s] = F[<<h[s \ {Max(s)}], seq[Max(s)]>>]
      <3>1. h[s] = SamplingStep(tr, last, h[s \ {Max(s)}], seq[Max(s)])
        BY <1>10, <2>2 DEF SamplingAt
      <3>2. seq[Max(s)] \in V
        BY <1>1, <2>2, IndexMax
      <3> QED BY <1>3, <2>2, <3>1, <3>2
    <2> QED BY <2>1, <2>2 DEF FollowsFold
  <1>12. PICK G : IsRun(A, F, base, seq, n, G) /\ G[n] = h[1..n]
    <2>1. IsStepOn(A, V, F)
      BY <1>4 DEF IsStepOn
    <2> QED BY <1>5, <1>11, <2>1, FoldRuns
  <1>13. G \in [0..n -> A] /\ G[0] = base /\ \A i \in 1..n : G[i] = F[<<G[i - 1], seq[i]>>]
    BY <1>12 DEF IsRun
  <1>14. ASSUME NEW i \in 1..n PROVE G[i] = SamplingStep(tr, last, G[i - 1], seq[i])
    <2>1. G[i - 1] \in A /\ seq[i] \in V
      BY <1>1, <1>13
    <2> QED BY <1>3, <1>13, <2>1
  <1> QED BY <1>5, <1>9, <1>12, <1>13, <1>14 DEF IsSamplingRun

LEMMA SamplesFold ==
    ASSUME NEW tr PROVE WithNewSamples(tr) = SamplingAll(tr, LastRecorded, samples, FeeChain(tr))
  BY DEF WithNewSamples, FoldLeft, MapThenFoldSet, SamplingAll, IsSamplingAll, SamplingAt, SamplingStep

LEMMA MaxOfTwo ==
    ASSUME NEW a \in Int, NEW b \in Int
    PROVE  Max({a, b}) \in {a, b} /\ Max({a, b}) >= a /\ Max({a, b}) >= b
  <1>1. \E x \in {a, b} : \A y \in {a, b} : x >= y
    <2>1. CASE a >= b
      BY <2>1
    <2>2. CASE ~(a >= b)
      BY <2>2
    <2> QED BY <2>1, <2>2
  <1> QED BY <1>1 DEF Max

(***************************************************************************)
(* What is recorded last stays, and nothing is added to it.                *)
(***************************************************************************)
LEMMA RecordedIs ==
    ASSUME NEW V, NEW s \in Seq(V), NEW x \in V, NEW r, r = Recorded(Append(s, x))
    PROVE  r \in Seq(V) /\ r # <<>> /\ Last(r) = x
  <1>1. PICK u : u = Append(s, x)
    OBVIOUS
  <1>2. PICK n \in Nat : n = Len(u)
    BY <1>1
  <1>3. u \in Seq(V) /\ n >= 1 /\ u[n] = x
    BY <1>1, <1>2
  <1>4. PICK k \in Int : k = n - MAX_FEE_BLOCKS + 1
    BY FeeConstants
  <1>5. k <= n
    BY <1>4, FeeConstants
  <1>6. PICK m : m = Max({1, k})
    OBVIOUS
  <1>7. m \in Int /\ 1 <= m /\ m <= n
    <2>1. PICK i \in Int : i = 1
      OBVIOUS
    <2>2. Max({i, k}) \in {i, k} /\ Max({i, k}) >= i
      BY MaxOfTwo
    <2>3. m \in {1, k} /\ m >= 1
      BY <1>6, <2>1, <2>2
    <2> QED BY <1>3, <1>4, <1>5, <2>3
  <1>8. r = SubSeq(u, m, n)
    BY <1>1, <1>2, <1>4, <1>6 DEF Recorded
  <1>9. \A i \in m..n : u[i] \in V
    BY <1>2, <1>3, <1>7
  <1>10. r \in Seq(V) /\ Len(r) = n - m + 1 /\ r[n - m + 1] = u[n]
    <2>1. r \in Seq(V) /\ Len(r) = (IF m <= n THEN n - m + 1 ELSE 0)
      BY <1>7, <1>8, <1>9, SubSeqProperties
    <2>2. n - m + 1 \in 1..(n - m + 1)
      BY <1>7
    <2>3. \A i \in 1..(n - m + 1) : r[i] = u[m + i - 1]
      BY <1>7, <1>8, <1>9, SubSeqProperties
    <2>4. m + (n - m + 1) - 1 = n
      BY <1>7
    <2> QED BY <1>7, <2>1, <2>2, <2>3, <2>4
  <1>11. r # <<>>
    BY <1>7, <1>10
  <1>12. Last(r) = r[Len(r)]
    BY DEF Last
  <1> QED BY <1>3, <1>10, <1>11, <1>12

-----------------------------------------------------------------------------
SamplePoint == [txs : SUBSET FeeTx, rate : Nat, lag : Nat]

LagIs(lag, blue, x, t, un, sa) ==
    IF <<x, t>> \in un THEN lag = 0 ELSE t \in DOMAIN sa /\ lag = blue - sa[t]

SampleTells(s, tr, un, sa) ==
    /\ s.blue = tr[s.block].blue
    /\ IsFiniteSet(s.points)
    /\ \A t \in FeeTx : \A p \in s.points :
          p.txs = {t} => t \in tr[s.block].txs /\ LagIs(p.lag, s.blue, s.block, t, un, sa)

GoodSamples(tr, un, sa) ==
    {s \in [block : DOMAIN tr, blue : Nat, points : SUBSET SamplePoint] : SampleTells(s, tr, un, sa)}

LagsTell(tr, x, un, sa) ==
    \A t \in tr[x].txs : Lag(tr[x].blue, t) \in Nat /\ LagIs(Lag(tr[x].blue, t), tr[x].blue, x, t, un, sa)

PointOf(bl, t) == [txs |-> {t}, rate |-> Feerate[t], lag |-> Lag(bl, t)]

PackageOf(txs, each) ==
    [txs |-> txs, rate |-> SumFunction([t \in txs |-> Feerate[t]]) \div Cardinality(txs),
     lag |-> Max({p.lag : p \in each})]

LEMMA PointsAre ==
    ASSUME NEW b, NEW each, each = {PointOf(b.blue, t) : t \in b.txs}
    PROVE  Points(b) = IF Cardinality(b.txs) <= 1 THEN each ELSE each \cup {PackageOf(b.txs, each)}
  BY DEF Points, PointOf, PackageOf

LEMMA RatesAdd ==
    ASSUME NEW txs \in SUBSET FeeTx
    PROVE  SumFunction([t \in txs |-> Feerate[t]]) \in Nat
  <1>1. PICK f : f = [t \in txs |-> Feerate[t]]
    OBVIOUS
  <1>2. f \in [txs -> Nat] /\ DOMAIN f = txs
    BY <1>1, FeeConstants
  <1>3. IsFiniteSet(txs)
    BY FeeConstants, FS_Subset
  <1>4. SumFunction(f) \in Int
    BY <1>2, <1>3, SumIsInt
  <1>5. PICK E : E = {}
    OBVIOUS
  <1>6. SumOn(f, E) <= SumOn(f, txs)
    <2>1. E \in SUBSET txs /\ \A x \in txs : f[x] \in Nat
      BY <1>2, <1>5
    <2> QED BY <1>3, <2>1, SumPart
  <1>7. SumOn(f, E) = 0
    BY <1>5, SumEmpty
  <1>8. SumFunction(f) = SumOn(f, txs)
    BY <1>2, SumFunctionIs
  <1>9. SumFunction(f) >= 0
    BY <1>4, <1>6, <1>7, <1>8
  <1> QED BY <1>1, <1>4, <1>9

(***************************************************************************)
(* The sample of a block tells the lags of its transactions, the point for *)
(* the package aside.                                                      *)
(***************************************************************************)
LEMMA SampleIsGood ==
    ASSUME NEW tr, WellTree(tr), NEW x \in DOMAIN tr, NEW un, NEW sa, LagsTell(tr, x, un, sa), tr[x].txs # {}
    PROVE  Sample(tr, x) \in GoodSamples(tr, un, sa)
  <1>1. PICK b : b = tr[x]
    OBVIOUS
  <1>2. PICK txs : txs = b.txs
    OBVIOUS
  <1>3. PICK bl : bl = b.blue
    OBVIOUS
  <1>4. txs \in SUBSET FeeTx /\ bl \in Nat /\ txs # {}
    BY <1>1, <1>2, <1>3 DEF WellTree
  <1>5. \A t \in txs : Lag(bl, t) \in Nat /\ LagIs(Lag(bl, t), bl, x, t, un, sa)
    BY <1>1, <1>2, <1>3 DEF LagsTell
  <1>6. PICK each : each = {PointOf(bl, t) : t \in txs}
    OBVIOUS
  <1>7. IsFiniteSet(txs)
    BY <1>4, FeeConstants, FS_Subset
  <1>8. \A t \in txs : PointOf(bl, t) \in SamplePoint
    <2> SUFFICES ASSUME NEW t \in txs PROVE PointOf(bl, t) \in SamplePoint
      OBVIOUS
    <2>1. Feerate[t] \in Nat /\ {t} \in SUBSET FeeTx /\ Lag(bl, t) \in Nat
      BY <1>4, <1>5, FeeConstants
    <2> QED BY <2>1 DEF PointOf, SamplePoint
  <1>9. each \subseteq SamplePoint /\ each # {}
    BY <1>4, <1>6, <1>8
  <1>10. IsFiniteSet(each)
    <2>1. PICK f : f = [t \in txs |-> PointOf(bl, t)]
      OBVIOUS
    <2>2. DOMAIN f = txs /\ each = {f[t] : t \in txs}
      BY <1>6, <2>1
    <2> QED BY <1>7, <2>2, ImageIs
  <1>11. PICK P : P = Points(b)
    OBVIOUS
  <1>12. P = IF Cardinality(txs) <= 1 THEN each ELSE each \cup {PackageOf(txs, each)}
    <2>1. each = {PointOf(b.blue, t) : t \in b.txs}
      BY <1>2, <1>3, <1>6
    <2>2. Points(b) = IF Cardinality(b.txs) <= 1 THEN each ELSE each \cup {PackageOf(b.txs, each)}
      BY <2>1, PointsAre
    <2> QED BY <1>2, <1>11, <2>2
  <1>13. Cardinality(txs) \in Nat
    BY <1>7, FS_CardinalityType
  <1>14. ASSUME ~(Cardinality(txs) <= 1) PROVE PackageOf(txs, each) \in SamplePoint
    <2>1. PICK total \in Nat : total = SumFunction([t \in txs |-> Feerate[t]])
      BY <1>4, RatesAdd
    <2>2. PICK n \in Nat : n = Cardinality(txs) /\ n > 1
      BY <1>13, <1>14
    <2>3. total \div n \in Nat
      BY <2>2
    <2>4. PICK L : L = {p.lag : p \in each}
      OBVIOUS
    <2>5. IsFiniteSet(L)
      <3>1. PICK f : f = [p \in each |-> p.lag]
        OBVIOUS
      <3>2. DOMAIN f = each /\ L = {f[p] : p \in each}
        BY <2>4, <3>1
      <3> QED BY <1>10, <3>2, ImageIs
    <2>6. L # {} /\ \A y \in L : y \in Nat
      BY <1>9, <2>4 DEF SamplePoint
    <2>7. Max(L) \in Nat
      BY <2>5, <2>6, MaxIs
    <2>8. PackageOf(txs, each) = [txs |-> txs, rate |-> total \div n, lag |-> Max(L)]
      BY <2>1, <2>2, <2>4 DEF PackageOf
    <2> QED BY <1>4, <2>3, <2>7, <2>8 DEF SamplePoint
  <1>15. P \in SUBSET SamplePoint
    BY <1>9, <1>12, <1>14
  <1>16. IsFiniteSet(P)
    BY <1>10, <1>12, FS_AddElement
  <1>17. ASSUME NEW t \in FeeTx, NEW p \in P, p.txs = {t}
         PROVE  t \in txs /\ LagIs(p.lag, bl, x, t, un, sa)
    <2>1. CASE p \in each
      <3>1. PICK y \in txs : p = PointOf(bl, y)
        BY <1>6, <2>1
      <3>2. p.txs = {y} /\ p.lag = Lag(bl, y)
        BY <3>1 DEF PointOf
      <3>3. y = t
        BY <1>17, <3>2
      <3> QED BY <1>5, <3>2, <3>3
    <2>2. CASE p \notin each
      <3>1. ~(Cardinality(txs) <= 1) /\ p = PackageOf(txs, each)
        BY <1>12, <1>17, <2>2
      <3>2. txs = {t}
        BY <1>17, <3>1 DEF PackageOf
      <3>3. Cardinality({t}) = 1
        BY FS_Singleton
      <3>4. 1 <= 1
        OBVIOUS
      <3> QED BY <3>1, <3>2, <3>3, <3>4
    <2> QED BY <2>1, <2>2
  <1>18. PICK s : s = [block |-> x, blue |-> bl, points |-> P]
    OBVIOUS
  <1>19. s.block = x /\ s.blue = bl /\ s.points = P
    BY <1>18
  <1>20. SampleTells(s, tr, un, sa)
    BY <1>1, <1>2, <1>3, <1>16, <1>17, <1>19 DEF SampleTells
  <1>21. s \in [block : DOMAIN tr, blue : Nat, points : SUBSET SamplePoint]
    BY <1>4, <1>15, <1>18
  <1>22. s = Sample(tr, x)
    BY <1>1, <1>3, <1>11, <1>18 DEF Sample
  <1> QED BY <1>20, <1>21, <1>22 DEF GoodSamples

LastBlue(s) == IF s = <<>> THEN 0 ELSE Last(s).blue

Fresh(tr, last, x) == tr[x].blue > last /\ tr[x].txs # {}

LEMMA SamplingGrows ==
    ASSUME NEW tr, WellTree(tr), NEW un, NEW sa, NEW last \in Nat,
           NEW s0 \in Seq(GoodSamples(tr, un, sa)), LastBlue(s0) >= last,
           NEW c \in Seq(DOMAIN tr),
           \A x \in DOMAIN tr : x \in ToSet(c) /\ Fresh(tr, last, x) => LagsTell(tr, x, un, sa),
           NEW s, s = SamplingAll(tr, last, s0, c)
    PROVE  /\ s \in Seq(GoodSamples(tr, un, sa)) /\ LastBlue(s) >= last
           /\ \A q \in Seq(DOMAIN tr) : \A b \in DOMAIN tr :
                 c = Append(q, b) /\ Fresh(tr, last, b) => LastBlue(s) = tr[b].blue
  <1>1. PICK n \in Nat : n = Len(c)
    OBVIOUS
  <1>2. PICK S : S = GoodSamples(tr, un, sa)
    OBVIOUS
  <1>3. PICK A : A = {r \in Seq(S) : LastBlue(r) >= last}
    OBVIOUS
  <1>4. PICK V : V = ToSet(c)
    OBVIOUS
  <1>5. DOMAIN c = 1..n /\ V \subseteq DOMAIN tr /\ \A i \in 1..n : c[i] \in V
    BY <1>1, <1>4 DEF ToSet
  <1>6. ASSUME NEW r \in Seq(S), NEW x \in V, Fresh(tr, last, x), NEW u, u = SamplingStep(tr, last, r, x)
        PROVE  u \in Seq(S) /\ LastBlue(u) = tr[x].blue /\ tr[x].blue > last
    <2>1. u = Recorded(Append(r, Sample(tr, x)))
      BY <1>6 DEF SamplingStep, Fresh
    <2>2. x \in DOMAIN tr /\ x \in ToSet(c) /\ tr[x].txs # {}
      BY <1>4, <1>5, <1>6 DEF Fresh
    <2>3. LagsTell(tr, x, un, sa)
      BY <1>6, <2>2
    <2>4. Sample(tr, x) \in S
      BY <1>2, <2>2, <2>3, SampleIsGood
    <2>5. PICK y \in S : y = Sample(tr, x)
      BY <2>4
    <2>6. u \in Seq(S) /\ u # <<>> /\ Last(u) = y
      BY <2>1, <2>5, RecordedIs
    <2>7. y.blue = tr[x].blue
      BY <2>5 DEF Sample
    <2> QED BY <1>6, <2>6, <2>7 DEF LastBlue, Fresh
  <1>7. ASSUME NEW r \in A, NEW x \in V PROVE SamplingStep(tr, last, r, x) \in A
    <2>1. r \in Seq(S)
      BY <1>3
    <2>2. CASE Fresh(tr, last, x)
      <3>1. PICK u : u = SamplingStep(tr, last, r, x)
        OBVIOUS
      <3>2. u \in Seq(S) /\ LastBlue(u) = tr[x].blue /\ tr[x].blue > last
        BY <1>6, <2>1, <2>2, <3>1
      <3>3. tr[x].blue \in Nat
        BY <1>5 DEF WellTree
      <3>4. LastBlue(u) >= last
        BY <3>2, <3>3
      <3> QED BY <1>3, <3>1, <3>2, <3>4
    <2>3. CASE ~Fresh(tr, last, x)
      <3>1. SamplingStep(tr, last, r, x) = r
        BY <2>3 DEF SamplingStep, Fresh
      <3> QED BY <3>1
    <2> QED BY <2>2, <2>3
  <1>8. SamplingStays(tr, last, s0, A, V)
    BY <1>2, <1>3, <1>7 DEF SamplingStays
  <1>9. IndexedIn(c, n, V)
    BY <1>5 DEF IndexedIn
  <1>10. PICK G : IsSamplingRun(tr, last, s0, A, c, n, G) /\ G[n] = SamplingAll(tr, last, s0, c)
    BY <1>5, <1>8, <1>9, SamplingRuns
  <1>11. G \in [0..n -> A] /\ \A i \in 1..n : G[i] = SamplingStep(tr, last, G[i - 1], c[i])
    BY <1>10 DEF IsSamplingRun
  <1>12. s \in A
    BY <1>10, <1>11
  <1>13. ASSUME NEW q \in Seq(DOMAIN tr), NEW b \in DOMAIN tr, c = Append(q, b), Fresh(tr, last, b)
         PROVE  LastBlue(s) = tr[b].blue
    <2>1. n \in 1..n /\ c[n] = b /\ (n - 1) \in 0..n
      BY <1>1, <1>13
    <2>2. PICK r : r = G[n - 1]
      OBVIOUS
    <2>3. r \in Seq(S) /\ s = SamplingStep(tr, last, r, b) /\ b \in V
      BY <1>3, <1>5, <1>10, <1>11, <2>1, <2>2
    <2> QED BY <1>6, <1>13, <2>3
  <1> QED BY <1>2, <1>3, <1>12, <1>13

LEMMA SeqWithin ==
    ASSUME NEW A, NEW B, A \subseteq B, NEW s \in Seq(A)
    PROVE  s \in Seq(B)
  OBVIOUS

(***************************************************************************)
(* Samples keep telling the lags of their transactions.                    *)
(***************************************************************************)
StillTells(tr, un, sa, tr2, un2, sa2) ==
    /\ DOMAIN tr \subseteq DOMAIN tr2 /\ \A x \in DOMAIN tr : tr2[x] = tr[x]
    /\ \A x \in DOMAIN tr : \A t \in FeeTx : <<x, t>> \in un2 <=> <<x, t>> \in un
    /\ \A x \in DOMAIN tr : \A t \in tr[x].txs : t \in DOMAIN sa => t \in DOMAIN sa2 /\ sa2[t] = sa[t]

LEMMA SamplesStayGood ==
    ASSUME NEW tr, NEW un, NEW sa, NEW tr2, NEW un2, NEW sa2, StillTells(tr, un, sa, tr2, un2, sa2)
    PROVE  GoodSamples(tr, un, sa) \subseteq GoodSamples(tr2, un2, sa2)
  <1> SUFFICES ASSUME NEW s \in GoodSamples(tr, un, sa) PROVE s \in GoodSamples(tr2, un2, sa2)
    OBVIOUS
  <1>1. s \in [block : DOMAIN tr, blue : Nat, points : SUBSET SamplePoint] /\ SampleTells(s, tr, un, sa)
    BY DEF GoodSamples
  <1>2. PICK x : x = s.block
    OBVIOUS
  <1>3. x \in DOMAIN tr /\ x \in DOMAIN tr2 /\ tr2[x] = tr[x]
    BY <1>1, <1>2 DEF StillTells
  <1>4. s \in [block : DOMAIN tr2, blue : Nat, points : SUBSET SamplePoint]
    BY <1>1, <1>2, <1>3
  <1>5. s.blue = tr[x].blue /\ IsFiniteSet(s.points)
    BY <1>1, <1>2 DEF SampleTells
  <1>6. ASSUME NEW t \in FeeTx, NEW p \in s.points, p.txs = {t}
        PROVE  t \in tr[x].txs /\ LagIs(p.lag, s.blue, x, t, un2, sa2)
    <2>1. t \in tr[x].txs /\ LagIs(p.lag, s.blue, x, t, un, sa)
      BY <1>1, <1>2, <1>6 DEF SampleTells
    <2>2. <<x, t>> \in un2 <=> <<x, t>> \in un
      BY <1>3 DEF StillTells
    <2>3. t \in DOMAIN sa => t \in DOMAIN sa2 /\ sa2[t] = sa[t]
      BY <1>3, <2>1 DEF StillTells
    <2> QED BY <2>1, <2>2, <2>3 DEF LagIs
  <1>7. SampleTells(s, tr2, un2, sa2)
    BY <1>2, <1>3, <1>5, <1>6 DEF SampleTells
  <1> QED BY <1>4, <1>7 DEF GoodSamples

(***************************************************************************)
(* Growing the tree by one block.                                          *)
(***************************************************************************)
GrownBy(tr, b, parent, txs, g) ==
    /\ WellTree(tr) /\ b \in Nat \ DOMAIN tr /\ parent \in DOMAIN tr /\ txs \in SUBSET FeeTx
    /\ g = Put(tr, b, [parent |-> parent, blue |-> tr[parent].blue + 1, txs |-> txs])

Grows(tr, b, txs, g) ==
    /\ WellTree(g) /\ DOMAIN g = DOMAIN tr \cup {b} /\ b \notin DOMAIN tr /\ b # Root0
    /\ \A x \in DOMAIN tr : g[x] = tr[x]
    /\ g[b].txs = txs /\ \A z \in DOMAIN g : g[z].parent # b

LEMMA GrownGrows ==
    ASSUME NEW tr, NEW b, NEW parent, NEW txs, NEW g, GrownBy(tr, b, parent, txs, g)
    PROVE  Grows(tr, b, txs, g)
  <1>0. /\ WellTree(tr) /\ b \in Nat /\ b \notin DOMAIN tr /\ parent \in DOMAIN tr /\ txs \in SUBSET FeeTx
        /\ g = Put(tr, b, [parent |-> parent, blue |-> tr[parent].blue + 1, txs |-> txs])
    BY DEF GrownBy
  <1>1. PICK v : v = [parent |-> parent, blue |-> tr[parent].blue + 1, txs |-> txs]
    OBVIOUS
  <1>2. g = [x \in DOMAIN tr \cup {b} |-> IF x = b THEN v ELSE tr[x]]
    BY <1>0, <1>1 DEF Put
  <1>3. PICK K : K = DOMAIN tr
    OBVIOUS
  <1>4. /\ IsFiniteSet(K) /\ K \subseteq Nat
        /\ Root0 \in K /\ tr[Root0].blue = 0 /\ tr[Root0].txs = {}
        /\ \A x \in K : tr[x].blue \in Nat /\ tr[x].txs \in SUBSET FeeTx /\ tr[x].parent \in K
        /\ \A x \in K \ {Root0} : tr[tr[x].parent].blue < tr[x].blue
    BY <1>0, <1>3 DEF WellTree
  <1>5. DOMAIN g = K \cup {b} /\ b \notin K /\ g[b] = v /\ \A x \in K : g[x] = tr[x]
    BY <1>0, <1>2, <1>3
  <1>6. v.blue = tr[parent].blue + 1 /\ v.txs = txs /\ v.parent = parent /\ parent \in K /\ v.blue \in Nat
    BY <1>0, <1>1, <1>3, <1>4
  <1>7. b # Root0
    BY <1>4, <1>5
  <1>8. IsFiniteSet(K \cup {b})
    BY <1>4, FS_AddElement
  <1>9. \A x \in K \cup {b} : g[x].blue \in Nat /\ g[x].txs \in SUBSET FeeTx /\ g[x].parent \in K
    BY <1>0, <1>4, <1>5, <1>6
  <1>10. ASSUME NEW x \in K \cup {b}, x # Root0 PROVE g[g[x].parent].blue < g[x].blue
    <2>1. CASE x \in K
      BY <1>4, <1>5, <1>10, <2>1
    <2>2. CASE x = b
      <3>1. g[x].parent = parent /\ g[parent] = tr[parent] /\ tr[parent].blue \in Nat
        BY <1>4, <1>5, <1>6, <2>2
      <3> QED BY <1>5, <1>6, <2>2, <3>1
    <2> QED BY <1>10, <2>1, <2>2
  <1>11. WellTree(g)
    <2>1. K \cup {b} \subseteq Nat
      BY <1>0, <1>4
    <2> QED BY <1>4, <1>5, <1>8, <1>9, <1>10, <2>1 DEF WellTree
  <1>12. \A z \in DOMAIN g : g[z].parent # b
    BY <1>5, <1>9
  <1> QED BY <1>3, <1>5, <1>6, <1>7, <1>11, <1>12 DEF Grows

FeePoolsOk ==
    /\ waiting \subseteq FeeTx
    /\ \A t \in DOMAIN firstSeen : t \in waiting /\ t \in DOMAIN seenAt /\ firstSeen[t] = seenAt[t]
    /\ \A t \in DOMAIN firstSeen : firstSeen[t] \in Nat /\ firstSeen[t] <= TipBlue
    /\ \A t \in waiting : \A b \in DOMAIN tree : t \notin tree[b].txs

SamplesOk == samples \in Seq(GoodSamples(tree, unseen, seenAt))

RecordedOnce ==
    /\ unseen \subseteq (DOMAIN tree) \X FeeTx
    /\ \A b \in DOMAIN tree : \A t \in tree[b].txs : <<b, t>> \in unseen \/ tree[b].blue <= LastBlue(samples)

FeeInv == WellTree(tree) /\ FeePoolsOk /\ SamplesOk /\ RecordedOnce

LEMMA LastIsNat ==
    ASSUME NEW tr, NEW un, NEW sa, NEW s \in Seq(GoodSamples(tr, un, sa))
    PROVE  LastBlue(s) \in Nat
  <1>1. CASE s = <<>>
    BY <1>1 DEF LastBlue
  <1>2. CASE s # <<>>
    <2>1. Last(s) \in GoodSamples(tr, un, sa)
      BY <1>2 DEF Last
    <2>2. Last(s).blue \in Nat
      BY <2>1 DEF GoodSamples
    <2> QED BY <1>2, <2>2 DEF LastBlue
  <1> QED BY <1>1, <1>2

LEMMA FeeInitInv == FeeInit => FeeInv
  <1> SUFFICES ASSUME FeeInit PROVE FeeInv
    OBVIOUS
  <1>1. DOMAIN tree = {0} /\ tree[0] = [parent |-> 0, blue |-> 0, txs |-> {}]
    BY DEF FeeInit, Root0
  <1>2. tree[0].parent = 0 /\ tree[0].blue = 0 /\ tree[0].txs = {}
    BY <1>1
  <1>3. IsFiniteSet(DOMAIN tree)
    BY <1>1, FS_Singleton
  <1>4. WellTree(tree)
    BY <1>1, <1>2, <1>3 DEF WellTree, Root0
  <1>5. waiting = {} /\ DOMAIN firstSeen = {} /\ samples = <<>> /\ unseen = {}
    BY DEF FeeInit, Unknown
  <1>6. FeePoolsOk
    BY <1>5 DEF FeePoolsOk
  <1>7. <<>> \in Seq(GoodSamples(tree, unseen, seenAt))
    OBVIOUS
  <1>8. RecordedOnce
    BY <1>1, <1>2, <1>5 DEF RecordedOnce
  <1> QED BY <1>4, <1>5, <1>6, <1>7, <1>8 DEF FeeInv, SamplesOk

LEMMA TipIs ==
    ASSUME WellTree(tree)
    PROVE  TipBlue \in Nat /\ \A x \in DOMAIN tree : tree[x].blue <= TipBlue
  <1>1. PICK h : h = HeaviestTip(tree)
    OBVIOUS
  <1>2. h \in DOMAIN tree /\ \A c \in DOMAIN tree : tree[c].blue <= tree[h].blue
    BY <1>1, HeaviestIs
  <1>3. tree[h].blue \in Nat
    BY <1>2 DEF WellTree
  <1> QED BY <1>1, <1>2, <1>3 DEF TipBlue

LEMMA SeeTxKeeps ==
    ASSUME FeeInv, NEW t \in FeeTx, SeeTx(t)
    PROVE  FeeInv'
  <1>1. /\ t \notin waiting /\ \A b \in DOMAIN tree : t \notin tree[b].txs
        /\ waiting' = waiting \cup {t} /\ seenAt' = Put(seenAt, t, TipBlue)
        /\ tree' = tree /\ samples' = samples /\ unseen' = unseen
    BY DEF SeeTx
  <1>2. PICK room : firstSeen' = OrInsert(Without(firstSeen, room), t, TipBlue)
    BY DEF SeeTx
  <1>3. TipBlue \in Nat
    BY TipIs DEF FeeInv
  <1>4. TipBlue' = TipBlue
    BY <1>1 DEF TipBlue
  <1>5. PICK f : f = Without(firstSeen, room)
    OBVIOUS
  <1>6. f = [y \in DOMAIN firstSeen \ room |-> firstSeen[y]]
    BY <1>5 DEF Without
  <1>7. /\ waiting \subseteq FeeTx
        /\ \A y \in DOMAIN firstSeen : y \in waiting /\ y \in DOMAIN seenAt /\ firstSeen[y] = seenAt[y]
        /\ \A y \in DOMAIN firstSeen : firstSeen[y] \in Nat /\ firstSeen[y] <= TipBlue
        /\ \A y \in waiting : \A b \in DOMAIN tree : y \notin tree[b].txs
    BY DEF FeeInv, FeePoolsOk
  <1>8. t \notin DOMAIN f
    BY <1>1, <1>6, <1>7
  <1>9. firstSeen' = Put(f, t, TipBlue)
    BY <1>2, <1>5, <1>8 DEF OrInsert
  <1>10. /\ DOMAIN firstSeen' = DOMAIN f \cup {t} /\ firstSeen'[t] = TipBlue
         /\ \A y \in DOMAIN f : firstSeen'[y] = f[y]
    BY <1>8, <1>9 DEF Put
  <1>11. /\ DOMAIN seenAt' = DOMAIN seenAt \cup {t} /\ seenAt'[t] = TipBlue
         /\ \A y \in DOMAIN seenAt : y # t => seenAt'[y] = seenAt[y]
    BY <1>1 DEF Put
  <1>12. \A y \in DOMAIN f : y \in DOMAIN firstSeen /\ f[y] = firstSeen[y]
    BY <1>6
  <1>13. \A y \in DOMAIN firstSeen' : y \in waiting' /\ y \in DOMAIN seenAt' /\ firstSeen'[y] = seenAt'[y]
    <2> SUFFICES ASSUME NEW y \in DOMAIN firstSeen'
                 PROVE  y \in waiting' /\ y \in DOMAIN seenAt' /\ firstSeen'[y] = seenAt'[y]
      OBVIOUS
    <2>1. CASE y = t
      BY <1>1, <1>10, <1>11, <2>1
    <2>2. CASE y # t
      <3>1. y \in DOMAIN f /\ y \in DOMAIN firstSeen
        BY <1>10, <1>12, <2>2
      <3> QED BY <1>1, <1>7, <1>10, <1>11, <1>12, <2>2, <3>1
    <2> QED BY <2>1, <2>2
  <1>14. \A y \in DOMAIN firstSeen' : firstSeen'[y] \in Nat /\ firstSeen'[y] <= TipBlue
    <2> SUFFICES ASSUME NEW y \in DOMAIN firstSeen' PROVE firstSeen'[y] \in Nat /\ firstSeen'[y] <= TipBlue
      OBVIOUS
    <2>1. CASE y = t
      BY <1>3, <1>10, <2>1
    <2>2. CASE y # t
      <3>1. y \in DOMAIN f /\ y \in DOMAIN firstSeen
        BY <1>10, <1>12, <2>2
      <3> QED BY <1>7, <1>10, <1>12, <3>1
    <2> QED BY <2>1, <2>2
  <1>15. \A y \in waiting' : \A b \in DOMAIN tree : y \notin tree[b].txs
    BY <1>1, <1>7
  <1>16. FeePoolsOk'
    BY <1>1, <1>4, <1>7, <1>13, <1>14, <1>15 DEF FeePoolsOk
  <1>17. StillTells(tree, unseen, seenAt, tree, unseen, seenAt')
    BY <1>1, <1>11 DEF StillTells
  <1>18. SamplesOk'
    <2>1. PICK S2 : S2 = GoodSamples(tree, unseen, seenAt')
      OBVIOUS
    <2>2. GoodSamples(tree, unseen, seenAt) \subseteq S2
      BY <1>17, <2>1, SamplesStayGood
    <2>3. samples \in Seq(S2)
      BY <2>2, SeqWithin DEF FeeInv, SamplesOk
    <2> QED BY <1>1, <2>1, <2>3 DEF SamplesOk
  <1>19. WellTree(tree)' /\ RecordedOnce'
    BY <1>1 DEF FeeInv, RecordedOnce
  <1> QED BY <1>16, <1>18, <1>19 DEF FeeInv

LEMMA EvictTxKeeps ==
    ASSUME FeeInv, NEW t \in FeeTx, EvictTx(t)
    PROVE  FeeInv'
  <1>1. /\ waiting' = waiting \ {t} /\ firstSeen' = [y \in DOMAIN firstSeen \ {t} |-> firstSeen[y]]
        /\ tree' = tree /\ samples' = samples /\ unseen' = unseen /\ seenAt' = seenAt
    BY DEF EvictTx, Without
  <1>2. \A y \in DOMAIN firstSeen' : y \in DOMAIN firstSeen /\ y # t /\ firstSeen'[y] = firstSeen[y]
    BY <1>1
  <1>3. TipBlue' = TipBlue
    BY <1>1 DEF TipBlue
  <1>4. FeePoolsOk'
    BY <1>1, <1>2, <1>3 DEF FeeInv, FeePoolsOk
  <1>5. WellTree(tree)' /\ RecordedOnce' /\ SamplesOk'
    BY <1>1 DEF FeeInv, RecordedOnce, SamplesOk
  <1> QED BY <1>4, <1>5 DEF FeeInv

(***************************************************************************)
(* What an added block does to the tree and to the history.                *)
(***************************************************************************)
NewUnseen(b, txs, g) == IF b \in ToSet(FeeChain(g)) THEN txs \ DOMAIN firstSeen ELSE txs

AddsTo(b, txs, g) ==
    /\ b \in Nat /\ txs \in SUBSET FeeTx /\ Grows(tree, b, txs, g)
    /\ tree' = g /\ samples' = WithNewSamples(g)
    /\ waiting' = waiting \ txs
    /\ firstSeen' = [y \in DOMAIN firstSeen \ txs |-> firstSeen[y]]
    /\ unseen' = unseen \cup {<<b, t>> : t \in NewUnseen(b, txs, g)}
    /\ seenAt' = seenAt

LEMMA AddFeeBlockIs ==
    ASSUME FeeInv, NEW b \in (1..MaxFeeBlocks) \ DOMAIN tree, NEW parent \in DOMAIN tree,
           NEW txs \in SUBSET FeeTx, AddFeeBlock(b, parent, txs)
    PROVE  \E g : AddsTo(b, txs, g)
  <1>1. PICK g : g = Put(tree, b, [parent |-> parent, blue |-> tree[parent].blue + 1, txs |-> txs])
    OBVIOUS
  <1>2. b \in Nat \ DOMAIN tree
    OBVIOUS
  <1>3. WellTree(tree)
    BY DEF FeeInv
  <1>4. Grows(tree, b, txs, g)
    <2>1. GrownBy(tree, b, parent, txs, g)
      BY <1>1, <1>2, <1>3 DEF GrownBy
    <2> QED BY <2>1, GrownGrows
  <1>5. /\ tree' = g /\ samples' = WithNewSamples(g) /\ waiting' = waiting \ txs
        /\ firstSeen' = Without(firstSeen, txs) /\ seenAt' = seenAt
        /\ unseen' = unseen \cup {<<b, t>> : t \in NewUnseen(b, txs, g)}
    BY <1>1 DEF AddFeeBlock, NewUnseen
  <1> QED BY <1>2, <1>4, <1>5 DEF AddsTo, Without

(***************************************************************************)
(* The new block is on the chain only as its end.                          *)
(***************************************************************************)
LEMMA OnChainAsTip ==
    ASSUME NEW b, NEW txs, NEW g, Grows(tree, b, txs, g)
    PROVE  /\ FeeChain(g) \in Seq(DOMAIN g)
           /\ b \in ToSet(FeeChain(g)) =>
                 /\ \A x \in DOMAIN g : g[x].blue <= g[b].blue
                 /\ \E q \in Seq(DOMAIN g) : FeeChain(g) = Append(q, b)
  <1>1. WellTree(g) /\ \A z \in DOMAIN g : g[z].parent # b
    BY DEF Grows
  <1>2. PICK h : h = HeaviestTip(g)
    OBVIOUS
  <1>3. h \in DOMAIN g /\ \A c \in DOMAIN g : g[c].blue <= g[h].blue
    BY <1>1, <1>2, HeaviestIs
  <1>4. PICK c : c = FeeChain(g)
    OBVIOUS
  <1>5. c = ChainTo(g, h)
    BY <1>2, <1>4 DEF FeeChain
  <1>6. Lands(g, c, h) /\ (h # Root0 => \E s \in Seq(DOMAIN g) : c = Append(s, h))
    BY <1>1, <1>3, <1>5, ChainIs
  <1>7. c \in Seq(DOMAIN g)
    BY <1>6 DEF Lands
  <1>8. ASSUME b \in ToSet(c) PROVE b = h
    BY <1>1, <1>6, <1>8 DEF Lands
  <1>9. b # Root0
    BY DEF Grows
  <1> QED BY <1>3, <1>4, <1>6, <1>7, <1>8, <1>9

LEMMA LagAtMost ==
    ASSUME NEW blue \in Nat, NEW t
    PROVE  /\ t \notin DOMAIN firstSeen => Lag(blue, t) = 0
           /\ t \in DOMAIN firstSeen /\ firstSeen[t] \in Nat /\ firstSeen[t] <= blue => Lag(blue, t) = blue - firstSeen[t]
  <1>1. ASSUME t \in DOMAIN firstSeen, firstSeen[t] \in Nat, firstSeen[t] <= blue
        PROVE  Lag(blue, t) = blue - firstSeen[t]
    <2>1. PICK d \in Nat : d = blue - firstSeen[t]
      BY <1>1
    <2>2. PICK z \in Int : z = 0
      OBVIOUS
    <2>3. Max({z, d}) \in {z, d} /\ Max({z, d}) >= d
      BY MaxOfTwo
    <2>4. Max({0, d}) = d
      BY <2>2, <2>3
    <2> QED BY <1>1, <2>1, <2>4 DEF Lag
  <1>2. t \notin DOMAIN firstSeen => Lag(blue, t) = 0
    BY DEF Lag
  <1> QED BY <1>1, <1>2

(***************************************************************************)
(* A block that is recorded now either arrives on the chain, and the lag   *)
(* runs from the entries that are there, or came beside the chain, and     *)
(* took its entries with it.                                               *)
(***************************************************************************)
LEMMA FreshBlocksTell ==
    ASSUME FeeInv, NEW b, NEW txs, NEW g, AddsTo(b, txs, g), NEW x \in DOMAIN g,
           x \in ToSet(FeeChain(g)), Fresh(g, LastBlue(samples), x)
    PROVE  LagsTell(g, x, unseen', seenAt')
  <1>1. /\ b \in Nat /\ txs \in SUBSET FeeTx /\ Grows(tree, b, txs, g) /\ seenAt' = seenAt
        /\ unseen' = unseen \cup {<<b, t>> : t \in NewUnseen(b, txs, g)}
    BY DEF AddsTo
  <1>2. /\ WellTree(g) /\ DOMAIN g = DOMAIN tree \cup {b} /\ b \notin DOMAIN tree
        /\ \A y \in DOMAIN tree : g[y] = tree[y]
        /\ g[b].txs = txs
    BY <1>1 DEF Grows
  <1>3. PICK bl \in Nat : bl = g[x].blue
    BY <1>2 DEF WellTree
  <1>4. SUFFICES ASSUME NEW t \in g[x].txs PROVE Lag(bl, t) \in Nat /\ LagIs(Lag(bl, t), bl, x, t, unseen', seenAt)
    BY <1>1, <1>3 DEF LagsTell
  <1>5. FeePoolsOk /\ RecordedOnce /\ SamplesOk /\ WellTree(tree)
    BY DEF FeeInv
  <1>6. CASE x = b
    <2>1. t \in txs
      BY <1>2, <1>4, <1>6
    <2>2. NewUnseen(b, txs, g) = txs \ DOMAIN firstSeen
      BY <1>6 DEF NewUnseen
    <2>3. <<b, t>> \notin unseen
      BY <1>2, <1>5 DEF RecordedOnce
    <2>4. CASE t \in DOMAIN firstSeen
      <3>1. \A y \in DOMAIN g : g[y].blue <= bl
        BY <1>1, <1>3, <1>6, OnChainAsTip
      <3>2. TipBlue <= bl /\ TipBlue \in Nat
        <4>1. PICK h : h = HeaviestTip(tree)
          OBVIOUS
        <4>2. h \in DOMAIN tree
          BY <1>5, <4>1, HeaviestIs
        <4>3. TipBlue = g[h].blue /\ h \in DOMAIN g
          BY <1>2, <4>1, <4>2 DEF TipBlue
        <4> QED BY <1>5, <3>1, <4>3, TipIs
      <3>3. firstSeen[t] \in Nat /\ firstSeen[t] <= TipBlue /\ t \in DOMAIN seenAt /\ firstSeen[t] = seenAt[t]
        BY <1>5, <2>4 DEF FeePoolsOk
      <3>4. firstSeen[t] <= bl
        BY <3>2, <3>3
      <3>5. Lag(bl, t) = bl - firstSeen[t]
        BY <2>4, <3>3, <3>4, LagAtMost
      <3>6. Lag(bl, t) \in Nat
        BY <3>3, <3>4, <3>5
      <3>7. <<x, t>> \notin unseen'
        BY <1>1, <1>6, <2>2, <2>3, <2>4
      <3> QED BY <3>3, <3>5, <3>6, <3>7 DEF LagIs
    <2>5. CASE t \notin DOMAIN firstSeen
      <3>1. <<x, t>> \in unseen'
        BY <1>1, <1>6, <2>1, <2>2, <2>5
      <3>2. Lag(bl, t) = 0
        BY <2>5, LagAtMost
      <3> QED BY <3>1, <3>2 DEF LagIs
    <2> QED BY <2>4, <2>5
  <1>7. CASE x # b
    <2>1. x \in DOMAIN tree /\ g[x] = tree[x]
      BY <1>2, <1>7
    <2>2. t \in tree[x].txs /\ tree[x].blue = bl
      BY <1>3, <1>4, <2>1
    <2>3. t \notin waiting
      BY <1>5, <2>1, <2>2 DEF FeePoolsOk
    <2>4. t \notin DOMAIN firstSeen
      BY <1>5, <2>3 DEF FeePoolsOk
    <2>5. bl > LastBlue(samples)
      BY <1>3 DEF Fresh
    <2>6. LastBlue(samples) \in Nat
      BY <1>5, LastIsNat DEF SamplesOk
    <2>7. ~(bl <= LastBlue(samples))
      BY <2>5, <2>6
    <2>8. <<x, t>> \in unseen
      BY <1>5, <2>1, <2>2, <2>7 DEF RecordedOnce
    <2>9. <<x, t>> \in unseen' /\ Lag(bl, t) = 0
      BY <1>1, <2>4, <2>8, LagAtMost
    <2> QED BY <2>9 DEF LagIs
  <1> QED BY <1>6, <1>7

LEMMA AddKeepsSamples ==
    ASSUME FeeInv, NEW b, NEW txs, NEW g, AddsTo(b, txs, g)
    PROVE  SamplesOk' /\ RecordedOnce'
  <1>1. /\ b \in Nat /\ txs \in SUBSET FeeTx /\ Grows(tree, b, txs, g) /\ seenAt' = seenAt /\ tree' = g
        /\ unseen' = unseen \cup {<<b, t>> : t \in NewUnseen(b, txs, g)} /\ samples' = WithNewSamples(g)
    BY DEF AddsTo
  <1>2. /\ WellTree(g) /\ DOMAIN g = DOMAIN tree \cup {b} /\ b \notin DOMAIN tree
        /\ \A y \in DOMAIN tree : g[y] = tree[y]
        /\ g[b].txs = txs
    BY <1>1 DEF Grows
  <1>3. PICK un : un = unseen'
    OBVIOUS
  <1>4. NewUnseen(b, txs, g) \subseteq txs
    BY DEF NewUnseen
  <1>5. StillTells(tree, unseen, seenAt, g, un, seenAt)
    BY <1>1, <1>2, <1>3 DEF StillTells
  <1>6. SamplesOk /\ RecordedOnce
    BY DEF FeeInv
  <1>7. PICK last \in Nat : last = LastBlue(samples)
    BY <1>6, LastIsNat DEF SamplesOk
  <1>8. PICK S : S = GoodSamples(g, un, seenAt)
    OBVIOUS
  <1>9. GoodSamples(tree, unseen, seenAt) \subseteq S
    BY <1>5, <1>8, SamplesStayGood
  <1>10. samples \in Seq(S)
    BY <1>6, <1>9, SeqWithin DEF SamplesOk
  <1>11. PICK c : c = FeeChain(g)
    OBVIOUS
  <1>12. c \in Seq(DOMAIN g)
    BY <1>1, <1>11, OnChainAsTip
  <1>13. \A x \in DOMAIN g : x \in ToSet(c) /\ Fresh(g, last, x) => LagsTell(g, x, un, seenAt)
    BY <1>1, <1>3, <1>7, <1>11, FreshBlocksTell
  <1>14. PICK s : s = SamplingAll(g, last, samples, c)
    OBVIOUS
  <1>15. LastBlue(samples) >= last
    BY <1>7
  <1>16. /\ s \in Seq(S) /\ LastBlue(s) >= last
         /\ \A q \in Seq(DOMAIN g) : \A y \in DOMAIN g :
               c = Append(q, y) /\ Fresh(g, last, y) => LastBlue(s) = g[y].blue
    BY <1>2, <1>8, <1>10, <1>12, <1>13, <1>14, <1>15, SamplingGrows
  <1>17. LastRecorded = last
    BY <1>7 DEF LastRecorded, LastBlue
  <1>18. samples' = s
    BY <1>1, <1>11, <1>14, <1>17, SamplesFold
  <1>19. SamplesOk'
    BY <1>1, <1>3, <1>8, <1>16, <1>18 DEF SamplesOk
  <1>20. LastBlue(s) \in Nat
    BY <1>8, <1>16, LastIsNat
  <1>21. un \subseteq (DOMAIN g) \X FeeTx
    <2>1. unseen \subseteq (DOMAIN g) \X FeeTx
      BY <1>2, <1>6 DEF RecordedOnce
    <2> QED BY <1>1, <1>2, <1>3, <1>4, <2>1
  <1>22. ASSUME NEW x \in DOMAIN g, NEW t \in g[x].txs
         PROVE  <<x, t>> \in un \/ g[x].blue <= LastBlue(s)
    <2>1. g[x].blue \in Nat
      BY <1>2 DEF WellTree
    <2>2. CASE x \in DOMAIN tree
      <3>1. <<x, t>> \in unseen \/ tree[x].blue <= last
        BY <1>2, <1>6, <1>7, <1>22, <2>2 DEF RecordedOnce
      <3>2. CASE <<x, t>> \in unseen
        BY <1>1, <1>3, <3>2
      <3>3. CASE tree[x].blue <= last
        <4>1. g[x].blue <= last
          BY <1>2, <2>2, <3>3
        <4> QED BY <1>16, <1>20, <2>1, <4>1
      <3> QED BY <3>1, <3>2, <3>3
    <2>3. CASE x = b
      <3>1. t \in txs
        BY <1>2, <1>22, <2>3
      <3>2. CASE b \in ToSet(c)
        <4>1. PICK q \in Seq(DOMAIN g) : c = Append(q, b)
          BY <1>1, <1>11, <3>2, OnChainAsTip
        <4>2. CASE Fresh(g, last, b)
          <5>1. LastBlue(s) = g[b].blue
            BY <1>16, <2>3, <4>1, <4>2
          <5> QED BY <1>20, <2>3, <5>1
        <4>3. CASE ~Fresh(g, last, b)
          <5>1. ~(g[b].blue > last)
            BY <1>2, <3>1, <4>3 DEF Fresh
          <5>2. g[x].blue <= LastBlue(s)
            BY <1>16, <1>20, <2>1, <2>3, <5>1
          <5> QED BY <5>2
        <4> QED BY <4>2, <4>3
      <3>3. CASE b \notin ToSet(c)
        <4>1. NewUnseen(b, txs, g) = txs
          BY <1>11, <3>3 DEF NewUnseen
        <4> QED BY <1>1, <1>3, <2>3, <3>1, <4>1
      <3> QED BY <3>2, <3>3
    <2> QED BY <1>2, <2>2, <2>3
  <1>23. RecordedOnce'
    BY <1>1, <1>3, <1>18, <1>21, <1>22 DEF RecordedOnce
  <1> QED BY <1>19, <1>23

LEMMA AddKeepsPools ==
    ASSUME FeeInv, NEW b, NEW txs, NEW g, AddsTo(b, txs, g)
    PROVE  FeePoolsOk' /\ WellTree(tree)'
  <1>1. /\ Grows(tree, b, txs, g) /\ seenAt' = seenAt /\ tree' = g /\ waiting' = waiting \ txs
        /\ firstSeen' = [y \in DOMAIN firstSeen \ txs |-> firstSeen[y]]
    BY DEF AddsTo
  <1>2. /\ WellTree(g) /\ DOMAIN g = DOMAIN tree \cup {b} /\ g[b].txs = txs
        /\ \A y \in DOMAIN tree : g[y] = tree[y]
    BY <1>1 DEF Grows
  <1>3. /\ waiting \subseteq FeeTx
        /\ \A t \in DOMAIN firstSeen : t \in waiting /\ t \in DOMAIN seenAt /\ firstSeen[t] = seenAt[t]
        /\ \A t \in DOMAIN firstSeen : firstSeen[t] \in Nat /\ firstSeen[t] <= TipBlue
        /\ \A t \in waiting : \A y \in DOMAIN tree : t \notin tree[y].txs
    BY DEF FeeInv, FeePoolsOk
  <1>4. PICK h : h = HeaviestTip(g)
    OBVIOUS
  <1>5. h \in DOMAIN g /\ \A y \in DOMAIN g : g[y].blue <= g[h].blue
    BY <1>2, <1>4, HeaviestIs
  <1>6. TipBlue' = g[h].blue /\ g[h].blue \in Nat
    BY <1>1, <1>2, <1>4, <1>5 DEF TipBlue, WellTree
  <1>7. TipBlue <= TipBlue' /\ TipBlue \in Nat
    <2>1. WellTree(tree)
      BY DEF FeeInv
    <2>2. PICK k : k = HeaviestTip(tree)
      OBVIOUS
    <2>3. k \in DOMAIN tree
      BY <2>1, <2>2, HeaviestIs
    <2>4. TipBlue = g[k].blue /\ k \in DOMAIN g
      BY <1>2, <2>2, <2>3 DEF TipBlue
    <2> QED BY <1>5, <1>6, <2>1, <2>4, TipIs
  <1>8. \A t \in DOMAIN firstSeen' : t \in DOMAIN firstSeen /\ t \notin txs /\ firstSeen'[t] = firstSeen[t]
    BY <1>1
  <1>9. \A t \in DOMAIN firstSeen' : t \in waiting' /\ t \in DOMAIN seenAt' /\ firstSeen'[t] = seenAt'[t]
    BY <1>1, <1>3, <1>8
  <1>10. ASSUME NEW t \in DOMAIN firstSeen' PROVE firstSeen'[t] \in Nat /\ firstSeen'[t] <= TipBlue'
    <2>1. firstSeen'[t] \in Nat /\ firstSeen'[t] <= TipBlue
      BY <1>3, <1>8, <1>10
    <2> QED BY <1>6, <1>7, <2>1
  <1>11. ASSUME NEW t \in waiting', NEW y \in DOMAIN g PROVE t \notin g[y].txs
    BY <1>1, <1>2, <1>3, <1>11
  <1>12. waiting' \subseteq FeeTx
    BY <1>1, <1>3
  <1> QED BY <1>1, <1>2, <1>9, <1>10, <1>11, <1>12 DEF FeePoolsOk

LEMMA FeeInvStep == FeeInv /\ [FeeNext]_feeVars => FeeInv'
  <1> SUFFICES ASSUME FeeInv, [FeeNext]_feeVars PROVE FeeInv'
    OBVIOUS
  <1>1. ASSUME NEW t \in FeeTx, SeeTx(t) \/ EvictTx(t) PROVE FeeInv'
    BY <1>1, SeeTxKeeps, EvictTxKeeps
  <1>2. ASSUME NEW b \in (1..MaxFeeBlocks) \ DOMAIN tree, NEW parent \in DOMAIN tree, NEW txs \in SUBSET FeeTx,
               AddFeeBlock(b, parent, txs)
        PROVE  FeeInv'
    <2>1. PICK g : AddsTo(b, txs, g)
      BY <1>2, AddFeeBlockIs
    <2> QED BY <2>1, AddKeepsSamples, AddKeepsPools DEF FeeInv
  <1>3. CASE UNCHANGED feeVars
    <2>1. UNCHANGED <<tree, waiting, firstSeen, samples, seenAt, unseen>>
      BY <1>3 DEF feeVars
    <2> QED BY <2>1 DEF FeeInv, FeePoolsOk, SamplesOk, RecordedOnce, WellTree, TipBlue
  <1> QED BY <1>1, <1>2, <1>3 DEF FeeNext

(***************************************************************************)
(* The recorded points: finitely many, each with a rate and a lag.         *)
(***************************************************************************)
LEMMA SamplesAre ==
    ASSUME FeeInv, NEW i \in DOMAIN samples
    PROVE  /\ i \in Nat /\ i # 0
           /\ samples[i].points \subseteq SamplePoint /\ IsFiniteSet(samples[i].points)
           /\ SampleTells(samples[i], tree, unseen, seenAt)
  <1>1. PICK S : S = GoodSamples(tree, unseen, seenAt)
    OBVIOUS
  <1>2. samples \in Seq(S)
    BY <1>1 DEF FeeInv, SamplesOk
  <1>3. samples[i] \in S /\ i \in Nat /\ i # 0
    BY <1>2
  <1>4. SampleTells(samples[i], tree, unseen, seenAt) /\ samples[i].points \in SUBSET SamplePoint
    BY <1>1, <1>3 DEF GoodSamples
  <1> QED BY <1>3, <1>4 DEF SampleTells

LEMMA LagsAreTold ==
    ASSUME FeeInv, NEW i \in DOMAIN samples, NEW t \in FeeTx, NEW p \in samples[i].points, p.txs = {t}
    PROVE  p.lag = IF <<samples[i].block, t>> \in unseen THEN 0 ELSE samples[i].blue - seenAt[t]
  <1>1. LagIs(p.lag, samples[i].blue, samples[i].block, t, unseen, seenAt)
    BY SamplesAre DEF SampleTells
  <1> QED BY <1>1 DEF LagIs

PointsAt(i) == {<<i, p>> : p \in samples[i].points}
AllPoints == UNION {PointsAt(i) : i \in DOMAIN samples}

WaitPoint(t) == <<0, [txs |-> {t}, rate |-> Feerate[t], lag |-> TipBlue - firstSeen[t]]>>

LEMMA OutcomesAre ==
    ASSUME NEW target
    PROVE  Outcomes(target) = AllPoints \cup {WaitPoint(t) : t \in Waited(target)}
  BY DEF Outcomes, AllPoints, PointsAt, WaitPoint

LEMMA AllPointsFinite ==
    ASSUME FeeInv
    PROVE  IsFiniteSet(AllPoints)
  <1>1. PICK n \in Nat : DOMAIN samples = 1..n
    <2>1. samples \in Seq(GoodSamples(tree, unseen, seenAt))
      BY DEF FeeInv, SamplesOk
    <2> QED BY <2>1
  <1>2. PICK I : I = DOMAIN samples
    OBVIOUS
  <1>3. IsFiniteSet(I)
    BY <1>1, <1>2, FS_Interval
  <1>4. ASSUME NEW i \in I PROVE IsFiniteSet(PointsAt(i))
    <2>1. PICK P : P = samples[i].points
      OBVIOUS
    <2>2. IsFiniteSet(P)
      BY <1>2, <2>1, SamplesAre
    <2>3. PICK f : f = [p \in P |-> <<i, p>>]
      OBVIOUS
    <2>4. DOMAIN f = P /\ PointsAt(i) = {f[p] : p \in P}
      BY <2>1, <2>3 DEF PointsAt
    <2> QED BY <2>2, <2>4, ImageIs
  <1>5. PICK U : U = {PointsAt(i) : i \in I}
    OBVIOUS
  <1>6. IsFiniteSet(U)
    <2>1. PICK f : f = [i \in I |-> PointsAt(i)]
      OBVIOUS
    <2>2. DOMAIN f = I /\ U = {f[i] : i \in I}
      BY <1>5, <2>1
    <2> QED BY <1>3, <2>2, ImageIs
  <1>7. \A T \in U : IsFiniteSet(T)
    BY <1>4, <1>5
  <1>8. IsFiniteSet(UNION U)
    BY <1>6, <1>7, FS_UNION
  <1> QED BY <1>2, <1>5, <1>8 DEF AllPoints

LEMMA PointIs ==
    ASSUME FeeInv, NEW o \in AllPoints
    PROVE  o[1] # 0 /\ o[2].rate \in Nat /\ o[2].lag \in Nat
  <1>1. PICK i \in DOMAIN samples : o \in PointsAt(i)
    BY DEF AllPoints
  <1>2. PICK p \in samples[i].points : o = <<i, p>>
    BY <1>1 DEF PointsAt
  <1>3. i # 0 /\ p \in SamplePoint
    BY SamplesAre
  <1> QED BY <1>2, <1>3 DEF SamplePoint

Paid(e, target, late) ==
    UNION {{<<i, p>> : p \in {q \in samples[i].points : q.rate >= e /\ (q.lag > target <=> late)}} : i \in DOMAIN samples}
Stuck(e, target) == {t \in waiting \cap DOMAIN firstSeen : Feerate[t] >= e /\ firstSeen[t] + target < TipBlue}

LEMMA PaidIs ==
    ASSUME FeeInv, NEW e, NEW target, NEW late
    PROVE  Paid(e, target, late) = {o \in AllPoints : o[2].rate >= e /\ (o[2].lag > target <=> late)}
  <1>1. ASSUME NEW o \in Paid(e, target, late)
        PROVE  o \in AllPoints /\ o[2].rate >= e /\ (o[2].lag > target <=> late)
    <2>1. PICK i \in DOMAIN samples : o \in {<<i, p>> : p \in {q \in samples[i].points : q.rate >= e /\ (q.lag > target <=> late)}}
      BY <1>1 DEF Paid
    <2>2. PICK p \in samples[i].points : o = <<i, p>> /\ p.rate >= e /\ (p.lag > target <=> late)
      BY <2>1
    <2>3. o \in PointsAt(i)
      BY <2>2 DEF PointsAt
    <2>4. o \in AllPoints
      BY <2>3 DEF AllPoints
    <2>5. o[2] = p
      BY <2>2
    <2> QED BY <2>2, <2>4, <2>5
  <1>2. ASSUME NEW o \in AllPoints, o[2].rate >= e, o[2].lag > target <=> late
        PROVE  o \in Paid(e, target, late)
    <2>1. PICK i \in DOMAIN samples : o \in PointsAt(i)
      BY <1>2 DEF AllPoints
    <2>2. PICK p \in samples[i].points : o = <<i, p>>
      BY <2>1 DEF PointsAt
    <2>3. o[2] = p
      BY <2>2
    <2>4. p \in {q \in samples[i].points : q.rate >= e /\ (q.lag > target <=> late)}
      BY <1>2, <2>2, <2>3
    <2>5. o \in {<<i, q>> : q \in {q \in samples[i].points : q.rate >= e /\ (q.lag > target <=> late)}}
      BY <2>2, <2>4
    <2> QED BY <2>5 DEF Paid
  <1> QED BY <1>1, <1>2

LEMMA LeastIs ==
    ASSUME NEW S, S \subseteq Nat, S # {}
    PROVE  Min(S) \in S /\ \A y \in S : Min(S) <= y
  <1>1. PICK m \in S : \A y \in S : m <= y
    BY SmallestNat
  <1> QED BY <1>1 DEF Min

LEMMA DisjointSum ==
    ASSUME NEW A, NEW B, IsFiniteSet(A), IsFiniteSet(B), A \cap B = {}
    PROVE  /\ IsFiniteSet(A \cup B) /\ Cardinality(A \cup B) = Cardinality(A) + Cardinality(B)
           /\ Cardinality(A) \in Nat /\ Cardinality(B) \in Nat
  <1>1. Cardinality(A) \in Nat /\ Cardinality(B) \in Nat
    BY FS_CardinalityType
  <1>2. Cardinality(A \cap B) = 0
    BY FS_EmptySet
  <1>3. IsFiniteSet(A \cup B) /\ Cardinality(A \cup B) = Cardinality(A) + Cardinality(B) - Cardinality(A \cap B)
    BY FS_Union
  <1> QED BY <1>1, <1>2, <1>3

LEMMA PoolIsFinite ==
    ASSUME FeeInv
    PROVE  waiting \subseteq FeeTx /\ IsFiniteSet(waiting) /\ \A t \in waiting : Feerate[t] \in Nat
  <1>1. waiting \subseteq FeeTx
    BY DEF FeeInv, FeePoolsOk
  <1>2. IsFiniteSet(waiting)
    BY <1>1, FeeConstants, FS_Subset
  <1> QED BY <1>1, <1>2, FeeConstants

LEMMA WaitersAre ==
    ASSUME FeeInv, NEW target \in Nat, NEW t \in Waited(target), NEW o, o = WaitPoint(t)
    PROVE  /\ o[1] = 0 /\ o[2].txs = {t} /\ o[2].rate = Feerate[t] /\ Feerate[t] \in Nat
           /\ o[2].lag \in Int /\ o[2].lag > target
           /\ t \in waiting \cap DOMAIN firstSeen /\ firstSeen[t] + target < TipBlue
  <1>1. t \in waiting \cap DOMAIN firstSeen /\ TipBlue - firstSeen[t] > target
    BY DEF Waited
  <1>2. Feerate[t] \in Nat
    BY <1>1, PoolIsFinite
  <1>3. firstSeen[t] \in Nat
    BY <1>1 DEF FeeInv, FeePoolsOk
  <1>4. TipBlue \in Nat
    BY TipIs DEF FeeInv
  <1>5. PICK d \in Int : d = TipBlue - firstSeen[t]
    BY <1>3, <1>4
  <1>6. o = <<0, [txs |-> {t}, rate |-> Feerate[t], lag |-> d]>>
    BY <1>5 DEF WaitPoint
  <1>7. firstSeen[t] + target < TipBlue
    BY <1>1, <1>3, <1>4
  <1> QED BY <1>1, <1>2, <1>5, <1>6, <1>7

LEMMA OutcomesFinite ==
    ASSUME FeeInv, NEW target \in Nat
    PROVE  IsFiniteSet(Outcomes(target)) /\ \A o \in Outcomes(target) : o[2].rate \in Nat
  <1>1. PICK W : W = Waited(target)
    OBVIOUS
  <1>2. IsFiniteSet(W)
    <2>1. W \in SUBSET waiting
      BY <1>1 DEF Waited
    <2> QED BY <2>1, PoolIsFinite, FS_Subset
  <1>3. PICK P : P = {WaitPoint(t) : t \in W}
    OBVIOUS
  <1>4. IsFiniteSet(P)
    <2>1. PICK f : f = [t \in W |-> WaitPoint(t)]
      OBVIOUS
    <2>2. DOMAIN f = W /\ P = {f[t] : t \in W}
      BY <1>3, <2>1
    <2> QED BY <1>2, <2>2, ImageIs
  <1>5. Outcomes(target) = AllPoints \cup P
    BY <1>1, <1>3, OutcomesAre
  <1>6. IsFiniteSet(AllPoints \cup P)
    BY <1>4, AllPointsFinite, FS_Union
  <1>7. ASSUME NEW o \in AllPoints \cup P PROVE o[2].rate \in Nat
    <2>1. CASE o \in AllPoints
      BY <2>1, PointIs
    <2>2. CASE o \in P
      <3>1. PICK t \in W : o = WaitPoint(t)
        BY <1>3, <2>2
      <3>2. o[2].rate = Feerate[t] /\ Feerate[t] \in Nat
        BY <1>1, <3>1, WaitersAre
      <3> QED BY <3>2
    <2> QED BY <1>7, <2>1, <2>2
  <1> QED BY <1>5, <1>6, <1>7

(***************************************************************************)
(* What passes at a rate is the promise over the three sets of events.     *)
(***************************************************************************)
Supported(e, target) ==
    100 * Cardinality(Paid(e, target, FALSE))
        >= SUCCESS_PCT * (Cardinality(Paid(e, target, FALSE)) + Cardinality(Paid(e, target, TRUE))
                            + Cardinality(Stuck(e, target)))

Above(points, e) == {o \in points : o[2].rate >= e}
Met(points, e, target) == {o \in Above(points, e) : o[2].lag <= target}

LEMMA PassesIs ==
    ASSUME NEW target, NEW points, NEW e
    PROVE  Passes(target, points, e) <=>
               100 * Cardinality(Met(points, e, target)) >= SUCCESS_PCT * Cardinality(Above(points, e))
  BY DEF Passes, Met, Above

LEMMA PassingIsSupported ==
    ASSUME FeeInv, NEW target \in Nat, NEW e \in Nat, Passes(target, Outcomes(target), e)
    PROVE  Supported(e, target)
  <1>1. PICK A : A = Above(Outcomes(target), e)
    OBVIOUS
  <1>2. PICK M : M = Met(Outcomes(target), e, target)
    OBVIOUS
  <1>3. PICK PF : PF = Paid(e, target, FALSE)
    OBVIOUS
  <1>4. PICK PT : PT = Paid(e, target, TRUE)
    OBVIOUS
  <1>5. PICK S : S = Stuck(e, target)
    OBVIOUS
  <1>6. PICK W : W = {WaitPoint(t) : t \in S}
    OBVIOUS
  <1>7. \A o \in AllPoints : o[1] # 0 /\ o[2].rate \in Nat /\ o[2].lag \in Nat
    BY PointIs
  <1>8. PF = {o \in AllPoints : o[2].rate >= e /\ o[2].lag <= target}
    <2>1. PF = {o \in AllPoints : o[2].rate >= e /\ (o[2].lag > target <=> FALSE)}
      BY <1>3, PaidIs
    <2>2. \A o \in AllPoints : (o[2].lag > target <=> FALSE) <=> o[2].lag <= target
      BY <1>7
    <2> QED BY <2>1, <2>2
  <1>9. PT = {o \in AllPoints : o[2].rate >= e /\ o[2].lag > target}
    <2>1. PT = {o \in AllPoints : o[2].rate >= e /\ (o[2].lag > target <=> TRUE)}
      BY <1>4, PaidIs
    <2> QED BY <2>1
  <1>10. S \subseteq Waited(target) /\ \A t \in Waited(target) : Feerate[t] >= e => t \in S
    <2>1. ASSUME NEW t \in S PROVE t \in Waited(target)
      <3>1. t \in waiting \cap DOMAIN firstSeen /\ firstSeen[t] + target < TipBlue
        BY <1>5, <2>1 DEF Stuck
      <3>2. firstSeen[t] \in Nat
        BY <3>1 DEF FeeInv, FeePoolsOk
      <3>3. TipBlue \in Nat
        BY TipIs DEF FeeInv
      <3>4. TipBlue - firstSeen[t] > target
        BY <3>1, <3>2, <3>3
      <3> QED BY <3>1, <3>4 DEF Waited
    <2>2. ASSUME NEW t \in Waited(target), Feerate[t] >= e PROVE t \in S
      <3>1. t \in waiting \cap DOMAIN firstSeen /\ firstSeen[t] + target < TipBlue
        BY WaitersAre
      <3> QED BY <1>5, <2>2, <3>1 DEF Stuck
    <2> QED BY <2>1, <2>2
  <1>11. \A t \in S : Feerate[t] >= e
    BY <1>5 DEF Stuck
  <1>12. \A o \in W : /\ o[1] = 0 /\ o[2].rate >= e /\ ~(o[2].lag <= target)
                      /\ o \in Outcomes(target)
    <2> SUFFICES ASSUME NEW o \in W
                 PROVE  /\ o[1] = 0 /\ o[2].rate >= e /\ ~(o[2].lag <= target)
                        /\ o \in Outcomes(target)
      OBVIOUS
    <2>1. PICK t \in S : o = WaitPoint(t)
      BY <1>6
    <2>2. t \in Waited(target) /\ Feerate[t] >= e
      BY <1>10, <1>11
    <2>3. o[1] = 0 /\ o[2].rate = Feerate[t] /\ o[2].lag \in Int /\ o[2].lag > target
      BY <2>1, <2>2, WaitersAre
    <2>4. o \in Outcomes(target)
      BY <2>1, <2>2, OutcomesAre
    <2> QED BY <2>2, <2>3, <2>4
  <1>13. A = PF \cup PT \cup W
    <2>1. ASSUME NEW o \in A PROVE o \in PF \cup PT \cup W
      <3>1. o \in Outcomes(target) /\ o[2].rate >= e
        BY <1>1, <2>1 DEF Above
      <3>2. CASE o \in AllPoints
        BY <1>7, <1>8, <1>9, <3>1, <3>2
      <3>3. CASE o \notin AllPoints
        <4>1. PICK t \in Waited(target) : o = WaitPoint(t)
          BY <3>1, <3>3, OutcomesAre
        <4>2. o[2].rate = Feerate[t]
          BY <4>1, WaitersAre
        <4>3. t \in S
          BY <1>10, <3>1, <4>2
        <4> QED BY <1>6, <4>1, <4>3
      <3> QED BY <3>2, <3>3
    <2>2. \A o \in AllPoints : o \in Outcomes(target)
      BY OutcomesAre
    <2>3. ASSUME NEW o \in PF \cup PT \cup W PROVE o \in A
      <3>1. o \in Outcomes(target) /\ o[2].rate >= e
        BY <1>8, <1>9, <1>12, <2>2, <2>3
      <3> QED BY <1>1, <3>1 DEF Above
    <2> QED BY <2>1, <2>3
  <1>14. M = PF
    <2>1. M = {o \in A : o[2].lag <= target}
      BY <1>1, <1>2 DEF Met
    <2> QED BY <1>7, <1>8, <1>9, <1>12, <1>13, <2>1
  <1>15. IsFiniteSet(PF) /\ IsFiniteSet(PT)
    <2>1. PF \in SUBSET AllPoints /\ PT \in SUBSET AllPoints
      BY <1>8, <1>9
    <2> QED BY <2>1, AllPointsFinite, FS_Subset
  <1>16. IsFiniteSet(S)
    <2>1. S \in SUBSET waiting
      BY <1>5 DEF Stuck
    <2> QED BY <2>1, PoolIsFinite, FS_Subset
  <1>17. IsFiniteSet(W) /\ Cardinality(W) = Cardinality(S)
    <2>1. PICK f : f = [t \in S |-> WaitPoint(t)]
      OBVIOUS
    <2>2. DOMAIN f = S /\ W = {f[t] : t \in S}
      BY <1>6, <2>1
    <2>3. ASSUME NEW x \in S, NEW y \in S, f[x] = f[y] PROVE x = y
      <3>1. x \in Waited(target) /\ y \in Waited(target) /\ f[x] = WaitPoint(x) /\ f[y] = WaitPoint(y)
        BY <1>10, <2>1
      <3>2. f[x][2].txs = {x} /\ f[y][2].txs = {y}
        BY <3>1, WaitersAre
      <3>3. {x} = {y}
        BY <2>3, <3>2
      <3> QED BY <3>3
    <2> QED BY <1>16, <2>2, <2>3, ImageIs
  <1>18. PF \cap PT = {} /\ (PF \cup PT) \cap W = {}
    <2>1. PF \cap PT = {}
      BY <1>7, <1>8, <1>9
    <2>2. (PF \cup PT) \cap W = {}
      BY <1>7, <1>8, <1>9, <1>12
    <2> QED BY <2>1, <2>2
  <1>19. IsFiniteSet(PF \cup PT) /\ Cardinality(PF \cup PT) = Cardinality(PF) + Cardinality(PT)
    BY <1>15, <1>18, DisjointSum
  <1>20. Cardinality(A) = Cardinality(PF \cup PT) + Cardinality(W) /\ Cardinality(W) \in Nat
    BY <1>13, <1>17, <1>18, <1>19, DisjointSum
  <1>21. 100 * Cardinality(M) >= SUCCESS_PCT * Cardinality(A)
    BY <1>1, <1>2, PassesIs
  <1>22. Cardinality(A) = Cardinality(PF) + Cardinality(PT) + Cardinality(S)
    BY <1>17, <1>19, <1>20
  <1>23. 100 * Cardinality(PF) >= SUCCESS_PCT * (Cardinality(PF) + Cardinality(PT) + Cardinality(S))
    BY <1>14, <1>21, <1>22
  <1> QED BY <1>3, <1>4, <1>5, <1>23 DEF Supported

LEMMA EstimateIs ==
    ASSUME FeeInv, NEW target \in Nat, NEW e \in EstimateForTarget(target)
    PROVE  e \in Nat /\ Supported(e, target) /\ EstimateForTarget(target) = {e}
  <1>1. PICK points : points = Outcomes(target)
    OBVIOUS
  <1>2. PICK rates : rates = {o[2].rate : o \in points}
    OBVIOUS
  <1>3. PICK passing : passing = {r \in rates : Passes(target, points, r)}
    OBVIOUS
  <1>4. PICK unbroken : unbroken = {r \in passing : \A x \in rates : x \in r..Max(passing) => x \in passing}
    OBVIOUS
  <1>5. EstimateForTarget(target) = IF passing = {} THEN {} ELSE {Min(unbroken)}
    BY <1>1, <1>2, <1>3, <1>4 DEF EstimateForTarget
  <1>6. passing # {} /\ e = Min(unbroken) /\ EstimateForTarget(target) = {e}
    BY <1>5
  <1>7. IsFiniteSet(points) /\ \A o \in points : o[2].rate \in Nat
    BY <1>1, OutcomesFinite
  <1>8. IsFiniteSet(rates) /\ rates \subseteq Nat
    <2>1. PICK f : f = [o \in points |-> o[2].rate]
      OBVIOUS
    <2>2. DOMAIN f = points /\ rates = {f[o] : o \in points}
      BY <1>2, <2>1
    <2>3. IsFiniteSet(rates)
      BY <1>7, <2>2, ImageIs
    <2> QED BY <1>2, <1>7, <2>3
  <1>9. passing \in SUBSET rates
    BY <1>3
  <1>10. IsFiniteSet(passing)
    BY <1>8, <1>9, FS_Subset
  <1>11. PICK top \in passing : top = Max(passing)
    BY <1>6, <1>8, <1>9, <1>10, MaxIs
  <1>12. top \in unbroken
    <2>1. \A x \in top..top : x = top
      BY <1>8, <1>9
    <2> QED BY <1>4, <1>11, <2>1
  <1>13. unbroken \subseteq Nat /\ unbroken # {} /\ unbroken \subseteq passing
    BY <1>4, <1>8, <1>9, <1>12
  <1>14. e \in passing
    BY <1>6, <1>13, LeastIs
  <1>15. e \in Nat /\ Passes(target, points, e)
    BY <1>3, <1>8, <1>9, <1>14
  <1> QED BY <1>1, <1>6, <1>15, PassingIsSupported

(***************************************************************************)
(* The fees the tiers are made of.                                         *)
(***************************************************************************)
LEMMA GreaterOf ==
    ASSUME NEW a \in Nat, NEW b \in Nat, NEW S, S = {a, b}
    PROVE  Max(S) \in Nat /\ a <= Max(S) /\ b <= Max(S)
  <1>1. Max({a, b}) \in {a, b} /\ Max({a, b}) >= a /\ Max({a, b}) >= b
    BY MaxOfTwo
  <1> QED BY <1>1

PoolFees == {Feerate[t] : t \in waiting}

LEMMA RelayFeeIsNat ==
    ASSUME FeeInv
    PROVE  CurrentMinRelayFee \in Nat
  <1>1. PICK n : n = Cardinality(waiting)
    OBVIOUS
  <1>2. n \in Nat
    BY <1>1, PoolIsFinite, FS_CardinalityType
  <1>3. PICK lowest : lowest = Min(PoolFees)
    OBVIOUS
  <1>4. PICK d : d = IF n >= FeePoolSize THEN lowest + 1 ELSE lowest
    OBVIOUS
  <1>5. CurrentMinRelayFee = IF n = 0 \/ n * 4 < FeePoolSize * 3 THEN RelayFloor ELSE Max({RelayFloor, d})
    BY <1>1, <1>3, <1>4 DEF CurrentMinRelayFee, PoolFees
  <1>6. RelayFloor \in Nat
    BY FeeConstants
  <1>7. ASSUME n # 0 PROVE d \in Nat
    <2>1. waiting # {}
      BY <1>1, <1>7, FS_EmptySet
    <2>2. PoolFees \subseteq Nat /\ PoolFees # {}
      BY <2>1, PoolIsFinite DEF PoolFees
    <2>3. lowest \in Nat
      BY <1>3, <2>2, LeastIs
    <2> QED BY <1>4, <2>3
  <1>8. CASE n = 0 \/ n * 4 < FeePoolSize * 3
    BY <1>5, <1>6, <1>8
  <1>9. CASE ~(n = 0 \/ n * 4 < FeePoolSize * 3)
    <2>1. PICK S : S = {RelayFloor, d}
      OBVIOUS
    <2>2. d \in Nat
      BY <1>7, <1>9
    <2>3. Max(S) \in Nat
      BY <1>6, <2>1, <2>2, GreaterOf
    <2> QED BY <1>5, <1>9, <2>1, <2>3
  <1> QED BY <1>8, <1>9

FeesUpTo(t) == {x \in waiting : Feerate[x] <= Feerate[t]}
HighEnough(before) == {t \in waiting : Cardinality(FeesUpTo(t)) > before}

LEMMA PoolPickIs ==
    ASSUME NEW pct
    PROVE  MempoolPick(pct) =
               IF waiting = {} THEN CurrentMinRelayFee
               ELSE Max({CurrentMinRelayFee,
                         Min({Feerate[t] : t \in HighEnough(((Cardinality(waiting) - 1) * pct) \div 100)})})
  BY DEF MempoolPick, HighEnough, FeesUpTo

LEMMA PickAboveFloor ==
    ASSUME FeeInv, NEW pct \in 0..100
    PROVE  MempoolPick(pct) \in Nat /\ CurrentMinRelayFee <= MempoolPick(pct)
  <1>1. PICK c \in Nat : c = CurrentMinRelayFee
    BY RelayFeeIsNat
  <1>2. CASE waiting = {}
    BY <1>1, <1>2, PoolPickIs
  <1>3. CASE waiting # {}
    <2>1. PICK n \in Nat : n = Cardinality(waiting) /\ n # 0
      <3>1. Cardinality(waiting) \in Nat
        BY PoolIsFinite, FS_CardinalityType
      <3>2. Cardinality(waiting) # 0
        BY <1>3, PoolIsFinite, FS_EmptySet
      <3> QED BY <3>1, <3>2
    <2>2. PICK before : before = ((n - 1) * pct) \div 100
      OBVIOUS
    <2>3. before \in Int /\ before < n
      <3>1. PICK m \in Nat : m = n - 1
        BY <2>1
      <3>2. PICK k \in Nat : k = m * pct
        OBVIOUS
      <3>3. k <= m * 100
        BY <3>2
      <3>4. k \div 100 \in Nat /\ k \div 100 <= m
        BY <3>3
      <3> QED BY <2>2, <3>1, <3>2, <3>4
    <2>4. IsFiniteSet(PoolFees) /\ PoolFees # {} /\ \A y \in PoolFees : y \in Nat
      <3>1. PICK f : f = [t \in waiting |-> Feerate[t]]
        OBVIOUS
      <3>2. DOMAIN f = waiting /\ PoolFees = {f[t] : t \in waiting}
        BY <3>1 DEF PoolFees
      <3>3. IsFiniteSet(PoolFees)
        BY <3>2, PoolIsFinite, ImageIs
      <3> QED BY <1>3, <3>3, PoolIsFinite DEF PoolFees
    <2>5. PICK t \in waiting : \A x \in waiting : Feerate[x] <= Feerate[t]
      <3>1. Max(PoolFees) \in PoolFees /\ \A y \in PoolFees : y <= Max(PoolFees)
        BY <2>4, MaxIs
      <3> QED BY <3>1 DEF PoolFees
    <2>6. FeesUpTo(t) = waiting
      BY <2>5 DEF FeesUpTo
    <2>7. t \in HighEnough(before)
      BY <2>1, <2>3, <2>6 DEF HighEnough
    <2>8. PICK T : T = {Feerate[x] : x \in HighEnough(before)}
      OBVIOUS
    <2>9. T \subseteq Nat /\ T # {}
      BY <2>7, <2>8, PoolIsFinite DEF HighEnough
    <2>10. PICK d \in Nat : d = Min(T)
      BY <2>9, LeastIs
    <2>11. PICK S : S = {c, d}
      OBVIOUS
    <2>12. Max(S) \in Nat /\ c <= Max(S)
      BY <2>11, GreaterOf
    <2>13. MempoolPick(pct) = Max(S)
      BY <1>1, <1>3, <2>1, <2>2, <2>8, <2>10, <2>11, PoolPickIs
    <2> QED BY <1>1, <2>12, <2>13
  <1> QED BY <1>2, <1>3

LEMMA TierAboveFloor ==
    ASSUME FeeInv, NEW target \in Nat, NEW pct \in 0..100
    PROVE  Tier(target, pct) \in Nat /\ CurrentMinRelayFee <= Tier(target, pct)
  <1>1. PICK c \in Nat : c = CurrentMinRelayFee
    BY RelayFeeIsNat
  <1>2. PICK E : E = EstimateForTarget(target)
    OBVIOUS
  <1>3. Tier(target, pct) = IF E = {} THEN MempoolPick(pct) ELSE Max(E \cup {c})
    BY <1>1, <1>2 DEF Tier
  <1>4. CASE E = {}
    BY <1>3, <1>4, PickAboveFloor
  <1>5. CASE E # {}
    <2>1. PICK e \in E : TRUE
      BY <1>5
    <2>2. e \in Nat /\ E = {e}
      BY <1>2, <2>1, EstimateIs
    <2>3. PICK S : S = E \cup {c}
      OBVIOUS
    <2>4. S = {e, c}
      BY <2>2, <2>3
    <2>5. Max(S) \in Nat /\ c <= Max(S)
      BY <2>2, <2>4, GreaterOf
    <2> QED BY <1>1, <1>3, <1>5, <2>3, <2>5
  <1> QED BY <1>4, <1>5

LEMMA TargetsAre ==
    DOMAIN FeeTarget = 1..3 /\ \A i \in 1..3 : FeeTarget[i] \in Nat
  <1>1. PICK f \in Seq(Nat) : f = FeeTarget
    BY FeeConstants
  <1>2. Len(f) = 3
    BY <1>1, FeeConstants
  <1>3. PICK n \in Nat : n = 3
    OBVIOUS
  <1>4. DOMAIN f = 1..n
    BY <1>2, <1>3
  <1>5. \A i \in 1..n : f[i] \in Nat
    BY <1>4
  <1> QED BY <1>1, <1>3, <1>4, <1>5

LEMMA TiersRise ==
    ASSUME FeeInv
    PROVE  /\ CurrentMinRelayFee <= EstimateFee.low
           /\ EstimateFee.low <= EstimateFee.medium /\ EstimateFee.medium <= EstimateFee.high
  <1>1. FeeTarget[1] \in Nat /\ FeeTarget[2] \in Nat /\ FeeTarget[3] \in Nat
    BY TargetsAre
  <1>2. 10 \in 0..100 /\ 50 \in 0..100 /\ 90 \in 0..100
    OBVIOUS
  <1>3. PICK low \in Nat : low = Tier(FeeTarget[1], 10) /\ CurrentMinRelayFee <= low
    BY <1>1, <1>2, TierAboveFloor
  <1>4. PICK t2 \in Nat : t2 = Tier(FeeTarget[2], 50)
    BY <1>1, <1>2, TierAboveFloor
  <1>5. PICK t3 \in Nat : t3 = Tier(FeeTarget[3], 90)
    BY <1>1, <1>2, TierAboveFloor
  <1>6. PICK S : S = {low, t2}
    OBVIOUS
  <1>7. PICK medium \in Nat : medium = Max(S) /\ low <= medium
    BY <1>6, GreaterOf
  <1>8. PICK H : H = {medium, t3}
    OBVIOUS
  <1>9. PICK high \in Nat : high = Max(H) /\ medium <= high
    BY <1>8, GreaterOf
  <1>10. EstimateFee = [low |-> low, medium |-> medium, high |-> high]
    BY <1>3, <1>4, <1>5, <1>6, <1>7, <1>8, <1>9 DEF EstimateFee
  <1> QED BY <1>3, <1>7, <1>9, <1>10

LEMMA SupportedIs ==
    ASSUME FeeInv,
           \A i \in DOMAIN samples : \A t \in FeeTx : \A p \in samples[i].points : p.txs = {t} =>
               p.lag = IF <<samples[i].block, t>> \in unseen THEN 0 ELSE samples[i].blue - seenAt[t],
           \A target \in ToSet(FeeTarget) : \A e \in EstimateForTarget(target) : Supported(e, target)
    PROVE  EstimateIsSupported
  BY TiersRise DEF EstimateIsSupported, Supported, Paid, Stuck

LEMMA FeeInvSupports == FeeInv => EstimateIsSupported
  <1> SUFFICES ASSUME FeeInv PROVE EstimateIsSupported
    OBVIOUS
  <1>1. \A i \in DOMAIN samples : \A t \in FeeTx : \A p \in samples[i].points : p.txs = {t} =>
            p.lag = IF <<samples[i].block, t>> \in unseen THEN 0 ELSE samples[i].blue - seenAt[t]
    BY LagsAreTold
  <1>2. \A target \in ToSet(FeeTarget) : target \in Nat
    BY TargetsAre DEF ToSet
  <1>3. \A target \in ToSet(FeeTarget) : \A e \in EstimateForTarget(target) : Supported(e, target)
    BY <1>2, EstimateIs
  <1> QED BY <1>1, <1>3, SupportedIs

(***************************************************************************)
(* For any transactions, fees, targets and limits, and however blocks come *)
(* and transactions go, every estimate is supported by what the history    *)
(* holds, and the tiers rise from the least fee that is relayed.           *)
(***************************************************************************)
THEOREM EstimatesSupported == FeeSpec => []EstimateIsSupported
  <1>1. FeeInit => FeeInv
    BY FeeInitInv
  <1>2. FeeInv /\ [FeeNext]_feeVars => FeeInv'
    BY FeeInvStep
  <1>3. FeeInv => EstimateIsSupported
    BY FeeInvSupports
  <1> QED BY <1>1, <1>2, <1>3, PTL DEF FeeSpec
=============================================================================
