-------------------------------- MODULE Wire --------------------------------
(***************************************************************************)
(* One encrypted connection between two nodes: the ML-KEM and Noise        *)
(* handshake in plain frames, the exchange of identities, then messages,   *)
(* each as a header frame and its parts.  At either end one thread reads   *)
(* and answers, and the announcers of the node write too.  A writer holds  *)
(* the socket for a whole message and the cipher only to encrypt a frame.  *)
(*                                                                         *)
(* A socket buffers a few frames; a write that finds it full times out at  *)
(* some time, its frame cut or not sent, and the code goes on as if        *)
(* nothing had happened.  Encryption is a counter: a frame is accepted if  *)
(* it carries the number that the reader expects (external: snow).         *)
(*                                                                         *)
(* D_Xxx is D with the mistake Xxx, to see that a property notices it.     *)
(***************************************************************************)
EXTENDS Integers, Sequences, SequencesExt

CONSTANTS
    PartsOf,       \* [message kind -> number of parts]
    SocketFrames,  \* frames that a socket buffers
    MaxAnnounced   \* bound: announcements of an end

ASSUME WireAssumption ==
    /\ {"Identity", "Hello", "Inv", "Get", "Body"} \subseteq DOMAIN PartsOf
    /\ PartsOf \in [DOMAIN PartsOf -> Nat \ {0}]
    /\ SocketFrames \in Nat \ {0}

VARIABLES
    wire,       \* [End -> frames under way to it]
    endpoint,   \* [End -> the state of the connection there]
    job,        \* [End -> [Thread -> what it sends]]
    taken,      \* history: [End -> messages in the order their writers took the socket]
    delivered   \* history: [End -> messages read, each as its parts]

wireVars == <<wire, endpoint, job, taken, delivered>>

End == {"dialer", "listener"}
Thread == {"reader", "announcer"}
Other(e) == IF e = "dialer" THEN "listener" ELSE "dialer"

(***************************************************************************)
(* Who sends the frames of the handshake: the encapsulation key, the       *)
(* ciphertext, and the three messages of Noise XX.                         *)
(***************************************************************************)
Handshake == <<"dialer", "listener", "dialer", "listener", "dialer">>

NoJob == [pc |-> "idle"]
Sending(m) == [pc |-> "lock", msg |-> m, left |-> 0, nonce |-> 0]

WireInit ==
    /\ wire = [e \in End |-> <<>>]
    /\ endpoint = [e \in End |->
          [phase |-> "handshake", step |-> 1, tx |-> 0, rx |-> 0, want |-> 0, parts |-> <<>>,
           socket |-> "free", cut |-> FALSE, torn |-> FALSE, announced |-> 0, why |-> "none"]]
    /\ job = [e \in End |-> [t \in Thread |-> NoJob]]
    /\ taken = [e \in End |-> <<>>]
    /\ delivered = [e \in End |-> <<>>]

-----------------------------------------------------------------------------
SocketHasRoom(e) == Len(wire[Other(e)]) < SocketFrames
Idle(e, t) == job[e][t].pc = "idle"
Phase(e) == endpoint[e].phase

(***************************************************************************)
(* `mlkem_shared_secret` and `noise_handshake`.  Then the own identity is  *)
(* sent.                                                                   *)
(***************************************************************************)
AfterStep(e) ==
    LET last == endpoint[e].step = Len(Handshake)
    IN /\ endpoint' = [endpoint EXCEPT ![e].step = @ + 1, ![e].phase = IF last THEN "auth" ELSE @]
       /\ job' = [job EXCEPT ![e]["reader"] = IF last THEN Sending("Identity") ELSE @]

SendRaw(e) ==
    /\ Phase(e) = "handshake"
    /\ Handshake[endpoint[e].step] = e
    /\ SocketHasRoom(e)
    /\ wire' = [wire EXCEPT ![Other(e)] = Append(@, [kind |-> "raw", nonce |-> endpoint[e].step])]
    /\ AfterStep(e)
    /\ UNCHANGED <<taken, delivered>>

ReadRaw(e) ==
    /\ Phase(e) = "handshake"
    /\ Handshake[endpoint[e].step] # e
    /\ wire[e] # <<>>
    /\ wire' = [wire EXCEPT ![e] = Tail(@)]
    /\ AfterStep(e)
    /\ UNCHANGED <<taken, delivered>>

-----------------------------------------------------------------------------
(***************************************************************************)
(* `noise_write`: the socket is locked, then each frame is encrypted and   *)
(* written.                                                                *)
(***************************************************************************)
SocketFree(e) == endpoint[e].socket = "free"

LockSocket(e, t) ==
    /\ job[e][t].pc = "lock"
    /\ SocketFree(e)
    /\ endpoint' = [endpoint EXCEPT ![e].socket = t]
    /\ job' = [job EXCEPT ![e][t].pc = "encrypt", ![e][t].left = PartsOf[job[e][t].msg] + 1]
    /\ taken' = [taken EXCEPT ![e] = Append(@, job[e][t].msg)]
    /\ UNCHANGED <<wire, delivered>>

Encrypt(e, t) ==
    /\ job[e][t].pc = "encrypt"
    /\ endpoint' = [endpoint EXCEPT ![e].tx = @ + 1]
    /\ job' = [job EXCEPT ![e][t].pc = "write", ![e][t].nonce = endpoint[e].tx]
    /\ UNCHANGED <<wire, taken, delivered>>

(***************************************************************************)
(* A frame after a cut one is read as the rest of that, which fails.       *)
(***************************************************************************)
Frame(e, j) ==
    [kind |-> IF endpoint[e].cut THEN "garbage"
              ELSE IF j.left = PartsOf[j.msg] + 1 THEN "header" ELSE "part",
     nonce |-> j.nonce, msg |-> j.msg]

EndJob(e, t) == job' = [job EXCEPT ![e][t] = NoJob]

WriteFrame(e, t) ==
    /\ job[e][t].pc = "write"
    /\ Phase(Other(e)) # "closed"
    /\ SocketHasRoom(e)
    /\ wire' = [wire EXCEPT ![Other(e)] = Append(@, Frame(e, job[e][t]))]
    /\ IF job[e][t].left = 1
       THEN /\ EndJob(e, t)
            /\ endpoint' = [endpoint EXCEPT ![e].socket = "free"]
       ELSE /\ job' = [job EXCEPT ![e][t].pc = "encrypt", ![e][t].left = @ - 1]
            /\ UNCHANGED endpoint
    /\ UNCHANGED <<taken, delivered>>

(***************************************************************************)
(* PEER_WRITE_TIMEOUT, or a connection that the other side has closed.     *)
(* `send` ignores the error.                                               *)
(***************************************************************************)
WriteFails(e, t) ==
    /\ job[e][t].pc = "write"
    /\ ~SocketHasRoom(e) \/ Phase(Other(e)) = "closed"
    /\ EndJob(e, t)
    /\ \E cut \in BOOLEAN :
          endpoint' = [endpoint EXCEPT ![e].socket = "free", ![e].torn = TRUE, ![e].cut = @ \/ cut]
    /\ UNCHANGED <<wire, taken, delivered>>

-----------------------------------------------------------------------------
(***************************************************************************)
(* The end of `handle_conn`, which no thread of this end writes after.     *)
(***************************************************************************)
CloseEnd(e, why) ==
    /\ endpoint' = [endpoint EXCEPT ![e].phase = "closed", ![e].why = why, ![e].socket = "free",
                                    ![e].want = 0, ![e].parts = <<>>]
    /\ job' = [job EXCEPT ![e] = [t \in Thread |-> NoJob]]
    /\ wire' = [wire EXCEPT ![e] = <<>>]

(***************************************************************************)
(* A whole message: the first must be the identity (`pq_authenticate`),    *)
(* and then the connection is registered and greeted.  Later ones are      *)
(* dispatched, and some are answered by the reader itself.                 *)
(***************************************************************************)
Answer(m) == CASE m = "Inv" -> Sending("Get") [] m = "Get" -> Sending("Body") [] OTHER -> NoJob

Received(e, m) ==
    IF Phase(e) = "auth" /\ m # "Identity" THEN CloseEnd(e, "auth")
    ELSE /\ job' = [job EXCEPT ![e]["reader"] = IF Phase(e) = "auth" THEN Sending("Hello") ELSE Answer(m)]
         /\ endpoint' = [endpoint EXCEPT ![e].phase = "open", ![e].rx = @ + 1, ![e].want = 0, ![e].parts = <<>>]
         /\ wire' = [wire EXCEPT ![e] = Tail(@)]

(***************************************************************************)
(* The reader needs the cipher to decrypt, which no writer holds while it  *)
(* waits for the socket.                                                   *)
(***************************************************************************)
CipherFree_NotWhileWriting(e) == \A t \in Thread : job[e][t].pc # "write"
CipherFree(e) == TRUE

Reading(e) ==
    /\ Phase(e) \in {"auth", "open"}
    /\ Idle(e, "reader")
    /\ wire[e] # <<>>
    /\ CipherFree(e)

(***************************************************************************)
(* `noise_read`, frame by frame, until all that the header said is there.  *)
(***************************************************************************)
Complete_AnyPart(want, parts) == want > 0
Complete(want, parts) == want = Len(parts)

ReadFrame(e) ==
    /\ Reading(e)
    /\ LET f == Head(wire[e])
           s == endpoint[e]
           parts == Append(s.parts, f.msg)
       IN \/ /\ f.kind = "garbage" \/ f.nonce # s.rx \/ (s.want = 0 /\ f.kind # "header")
             /\ CloseEnd(e, "garbled")
             /\ UNCHANGED delivered
          \/ /\ f.kind = "header" /\ f.nonce = s.rx /\ s.want = 0
             /\ endpoint' = [endpoint EXCEPT ![e].want = PartsOf[f.msg], ![e].rx = @ + 1]
             /\ wire' = [wire EXCEPT ![e] = Tail(@)]
             /\ UNCHANGED <<job, delivered>>
          \/ /\ f.kind # "garbage" /\ f.nonce = s.rx /\ s.want > 0 /\ ~Complete(s.want, parts)
             /\ endpoint' = [endpoint EXCEPT ![e].parts = parts, ![e].rx = @ + 1]
             /\ wire' = [wire EXCEPT ![e] = Tail(@)]
             /\ UNCHANGED <<job, delivered>>
          \/ /\ f.kind # "garbage" /\ f.nonce = s.rx /\ s.want > 0 /\ Complete(s.want, parts)
             /\ delivered' = [delivered EXCEPT ![e] = Append(@, parts)]
             /\ Received(e, Head(parts))
    /\ UNCHANGED taken

(***************************************************************************)
(* Nothing to read for PEER_IDLE_TIMEOUT, or the other end is closed.      *)
(***************************************************************************)
ReadFails(e) ==
    /\ Phase(e) \in {"auth", "open"} => Idle(e, "reader")
    /\ Phase(e) = "handshake" => Handshake[endpoint[e].step] # e
    /\ Phase(e) # "closed"
    /\ wire[e] = <<>>
    /\ CloseEnd(e, "idle")
    /\ UNCHANGED <<taken, delivered>>

(***************************************************************************)
(* An announcer of the node writes to the registered connections.          *)
(***************************************************************************)
IsRegistered(e) == Phase(e) = "open"

AnnounceTo(e) ==
    /\ IsRegistered(e)
    /\ Idle(e, "announcer")
    /\ endpoint[e].announced < MaxAnnounced
    /\ endpoint' = [endpoint EXCEPT ![e].announced = @ + 1]
    /\ job' = [job EXCEPT ![e]["announcer"] = Sending("Inv")]
    /\ UNCHANGED <<wire, taken, delivered>>

WireNext ==
    \E e \in End :
       \/ SendRaw(e) \/ ReadRaw(e) \/ ReadFrame(e) \/ ReadFails(e) \/ AnnounceTo(e)
       \/ \E t \in Thread : LockSocket(e, t) \/ Encrypt(e, t) \/ WriteFrame(e, t) \/ WriteFails(e, t)

WireSpec == WireInit /\ [][WireNext]_wireVars

-----------------------------------------------------------------------------
WholeMessage(m) == [i \in 1..PartsOf[m] |-> m]

(***************************************************************************)
(* What an end reads are whole messages of the other one, in the order in  *)
(* which its threads took the socket, without a gap: a write that failed   *)
(* half-way, and that nobody heard of, costs the rest but is never read as *)
(* something else.  The identity always comes first, and a frame fails to  *)
(* decrypt only after such a write (`noise_write`, `noise_read`,           *)
(* `pq_authenticate`, `handle_conn`).                                      *)
(***************************************************************************)
DeliveredInOrder ==
    \A e \in End :
        LET sent == taken[Other(e)]
        IN /\ IsPrefix(delivered[e], [i \in DOMAIN sent |-> WholeMessage(sent[i])])
           /\ endpoint[e].why # "auth"
           /\ endpoint[e].why = "garbled" => endpoint[Other(e)].torn

CanMove(e, t) ==
    \/ job[e][t].pc = "lock" /\ SocketFree(e)
    \/ job[e][t].pc = "encrypt"
    \/ job[e][t].pc = "write" /\ SocketHasRoom(e)

Stuck ==
    /\ \A e \in End : Phase(e) = "open" /\ ~Reading(e) /\ \A t \in Thread : ~CanMove(e, t)
    /\ \E e \in End, t \in Thread : ~Idle(e, t)

(***************************************************************************)
(* Threads of both ends wait for each other, until a write times out, only *)
(* when both readers are sending: announcements never block reading,       *)
(* however slow the other end is (`noise_write`: "so a slow peer can't     *)
(* block the concurrent read path").                                       *)
(***************************************************************************)
StuckOnlyWhenBothAnswer == Stuck => \A e \in End : ~Idle(e, "reader")
=============================================================================
