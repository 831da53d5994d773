----------------------------- MODULE HttpServer -----------------------------
(***************************************************************************)
(* The HTTP server of a node: one loop accepts connections, each gets a    *)
(* thread that reads one request, checks it and answers it, or streams     *)
(* events for a while.  The number of threads and the number of streams    *)
(* are limited by two atomic counters.                                     *)
(*                                                                         *)
(* Requests are lengths and classes; what the answers say is left out, and *)
(* the verdict of the rate limiter may be either (see RateLimit).          *)
(*                                                                         *)
(* D_Xxx is D with the mistake Xxx, to see that a property notices it.     *)
(***************************************************************************)
EXTENDS Integers, FiniteSets

CONSTANTS
    HttpConn,             \* sockets
    HttpRequest,          \* what clients may ask: a set of records with
                          \*   kind      "static", "read", "write" or "events"
                          \*   head      length up to the empty line
                          \*   declared  Content-Length
                          \*   origin    "none", "local", "listed" or "foreign"
                          \*   token     it carries the right one
    TokenSet,             \* HASSAN_API_TOKEN is set
    MAX_API_CONNECTIONS,  \* most threads
    MAX_SSE_STREAMS,      \* most streams
    MAX_REQUEST_BYTES,    \* most bytes of a request
    CHUNK                 \* most bytes of one read

ASSUME HttpAssumption ==
    /\ {MAX_API_CONNECTIONS, MAX_SSE_STREAMS, MAX_REQUEST_BYTES} \subseteq Nat
    /\ CHUNK \in Nat \ {0}

VARIABLES
    conn,         \* [HttpConn -> state of its thread]
    activeConns,  \* active
    sseStreams    \* SSE_STREAMS

httpVars == <<conn, activeConns, sseStreams>>

Closed == [pc |-> "closed"]

HttpInit ==
    /\ conn = [c \in HttpConn |-> Closed]
    /\ activeConns = 0
    /\ sseStreams = 0

-----------------------------------------------------------------------------
InState(c, pc) == conn[c].pc = pc
Becomes(c, pc) == conn' = [conn EXCEPT ![c].pc = pc]

(***************************************************************************)
(* The accept loop.  It is the only one to count up, so that its look at   *)
(* the counter is one step with that.                                      *)
(***************************************************************************)
Accept(c, r) ==
    /\ InState(c, "closed")
    /\ activeConns < MAX_API_CONNECTIONS
    /\ activeConns' = activeConns + 1
    /\ conn' = [conn EXCEPT ![c] = [pc |-> "read", req |-> r, buf |-> 0, eof |-> FALSE, seen |-> 0]]
    /\ UNCHANGED sseStreams

(***************************************************************************)
(* `read_request`: reads until the body is there, or gives up.             *)
(***************************************************************************)
Oversized(r, n) ==
    \/ n > MAX_REQUEST_BYTES
    \/ n >= r.head /\ r.declared > MAX_REQUEST_BYTES - r.head

Whole(r, n) == n >= r.head /\ n - r.head >= r.declared

ReadChunk(c, n) ==
    /\ InState(c, "read")
    /\ LET total == conn[c].buf + n
           r == conn[c].req
       IN conn' = [conn EXCEPT ![c].buf = total,
                               ![c].pc = IF Oversized(r, total) THEN "done"
                                         ELSE IF Whole(r, total) THEN "limit" ELSE "read"]
    /\ UNCHANGED <<activeConns, sseStreams>>

(***************************************************************************)
(* The client closes its side: what came so far is the request.            *)
(***************************************************************************)
ReadEof(c) ==
    /\ InState(c, "read")
    /\ conn' = [conn EXCEPT ![c].eof = TRUE, ![c].pc = IF conn[c].buf = 0 THEN "done" ELSE "limit"]
    /\ UNCHANGED <<activeConns, sseStreams>>

ReadTimeout(c) ==
    /\ InState(c, "read")
    /\ Becomes(c, "done")
    /\ UNCHANGED <<activeConns, sseStreams>>

(***************************************************************************)
(* `handle_request`: the pages of the explorer are not rate-limited.       *)
(***************************************************************************)
Limit(c) ==
    /\ InState(c, "limit")
    /\ \E next \in {"guard"} \cup (IF conn[c].req.kind = "static" THEN {} ELSE {"done"}) : Becomes(c, next)
    /\ UNCHANGED <<activeConns, sseStreams>>

(***************************************************************************)
(* A write needs the token, if there is one, and must not come from a page *)
(* of another site.                                                        *)
(***************************************************************************)
OriginAllowed(r) == r.origin # "foreign"
TokenOk(r) == TokenSet => r.token

Guard(c) ==
    /\ InState(c, "guard")
    /\ LET r == conn[c].req
       IN Becomes(c, IF r.kind = "write" /\ ~(OriginAllowed(r) /\ TokenOk(r)) THEN "done"
                     ELSE IF r.kind = "events" THEN "load" ELSE "serve")
    /\ UNCHANGED <<activeConns, sseStreams>>

(***************************************************************************)
(* The pages, and the routes that only read the state.                     *)
(***************************************************************************)
ServePage(c) ==
    /\ InState(c, "serve") /\ conn[c].req.kind = "static"
    /\ Becomes(c, "done")
    /\ UNCHANGED <<activeConns, sseStreams>>

ServeRead(c) ==
    /\ InState(c, "serve") /\ conn[c].req.kind = "read"
    /\ Becomes(c, "done")
    /\ UNCHANGED <<activeConns, sseStreams>>

(***************************************************************************)
(* A submission is parsed and offered to a mempool (see Mempool).          *)
(***************************************************************************)
SubmitWrite(c) ==
    /\ InState(c, "serve") /\ conn[c].req.kind = "write"
    /\ Becomes(c, "done")
    /\ UNCHANGED <<activeConns, sseStreams>>

(***************************************************************************)
(* `acquire_sse_slot`: load, then compare and exchange, which may fail for *)
(* no reason.                                                              *)
(***************************************************************************)
LoadSlots(c) ==
    /\ InState(c, "load")
    /\ IF sseStreams >= MAX_SSE_STREAMS THEN Becomes(c, "done")
       ELSE conn' = [conn EXCEPT ![c].pc = "exchange", ![c].seen = sseStreams]
    /\ UNCHANGED <<activeConns, sseStreams>>

Exchanges_Always(seen) == TRUE
Exchanges(seen) == sseStreams = seen

Exchange(c) ==
    /\ InState(c, "exchange")
    /\ \/ /\ Exchanges(conn[c].seen)
          /\ sseStreams' = conn[c].seen + 1
          /\ conn' = [conn EXCEPT ![c].pc = "stream", ![c].seen = 0]
       \/ /\ conn' = [conn EXCEPT ![c].pc = "load", ![c].seen = 0]
          /\ UNCHANGED sseStreams
    /\ UNCHANGED activeConns

(***************************************************************************)
(* `serve_sse` ends at its deadline or when a write fails; what it writes  *)
(* until then is left out.                                                 *)
(***************************************************************************)
EndStream(c) ==
    /\ InState(c, "stream")
    /\ Becomes(c, "release")
    /\ UNCHANGED <<activeConns, sseStreams>>

ReleaseSlot(c) ==
    /\ InState(c, "release")
    /\ sseStreams' = sseStreams - 1
    /\ Becomes(c, "done")
    /\ UNCHANGED activeConns

EndThread(c) ==
    /\ InState(c, "done")
    /\ activeConns' = activeConns - 1
    /\ conn' = [conn EXCEPT ![c] = Closed]
    /\ UNCHANGED sseStreams

HttpNext ==
    \E c \in HttpConn :
       \/ \E r \in HttpRequest : Accept(c, r)
       \/ \E n \in 1..CHUNK : ReadChunk(c, n)
       \/ ReadEof(c) \/ ReadTimeout(c) \/ Limit(c) \/ Guard(c)
       \/ ServePage(c) \/ ServeRead(c) \/ SubmitWrite(c)
       \/ LoadSlots(c) \/ Exchange(c) \/ EndStream(c) \/ ReleaseSlot(c) \/ EndThread(c)

HttpSpec == HttpInit /\ [][HttpNext]_httpVars

-----------------------------------------------------------------------------
(***************************************************************************)
(* The counters are what they count, within their limits: threads that are *)
(* not over, and streams that hold a slot; none is lost on a way out of a  *)
(* request that the process survives (with `panic = "abort"` a panic is    *)
(* the end of all threads), or given out twice by threads that read and    *)
(* set the counter in turns (`acquire_sse_slot`, `start_api_server`).      *)
(***************************************************************************)
SlotsAccounted ==
    /\ activeConns = Cardinality({c \in HttpConn : ~InState(c, "closed")})
    /\ activeConns <= MAX_API_CONNECTIONS
    /\ sseStreams = Cardinality({c \in HttpConn : conn[c].pc \in {"stream", "release"}})
    /\ sseStreams <= MAX_SSE_STREAMS
=============================================================================
