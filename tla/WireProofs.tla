----------------------------- MODULE WireProofs -----------------------------
(***************************************************************************)
(* Proofs about one encrypted connection, for messages of any kind and     *)
(* length and sockets of any size.                                         *)
(***************************************************************************)
EXTENDS Wire, SequenceTheorems, TLAPS

-----------------------------------------------------------------------------
(***************************************************************************)
(* The state of a connection.                                              *)
(***************************************************************************)
Message == DOMAIN PartsOf
RawFrame == [kind : {"raw"}, nonce : Nat]
CipherFrame == [kind : {"garbage", "header", "part"}, nonce : Nat, msg : Message]

EndpointRecord ==
    [phase : {"handshake", "auth", "open", "closed"}, step : 1..6, tx : Nat, rx : Nat, want : Nat,
     parts : Seq(Message), socket : Thread \cup {"free"}, cut : BOOLEAN, torn : BOOLEAN,
     announced : Nat, why : {"none", "auth", "garbled", "idle"}]

BusyPc == {"lock", "encrypt", "write"}
Busy == [pc : BusyPc, msg : Message, left : Nat, nonce : Nat]
Job == Busy \cup {NoJob}

WireType ==
    /\ wire \in [End -> Seq(RawFrame \cup CipherFrame)]
    /\ endpoint \in [End -> EndpointRecord]
    /\ job \in [End -> [Thread -> Job]]
    /\ taken \in [End -> Seq(Message)]
    /\ delivered \in [End -> Seq(Seq(Message))]

(***************************************************************************)
(* The socket of an end is held by exactly the thread that encrypts or     *)
(* writes.                                                                 *)
(***************************************************************************)
Writing(e, t) == job[e][t].pc \in {"encrypt", "write"}

SocketHeldByWriter ==
    \A e \in End, t \in Thread :
        /\ Writing(e, t) <=> endpoint[e].socket = t
        /\ Writing(e, t) => job[e][t].left > 0

(***************************************************************************)
(* The ends go through the handshake in step, and nobody writes before it  *)
(* is over or after the end.  What an end has not read of the handshake is *)
(* one frame, before all others.                                           *)
(***************************************************************************)
PhaseFollowsStep ==
    \A e \in End :
        /\ Phase(e) = "handshake" => endpoint[e].step < 6
        /\ Phase(e) \in {"auth", "open"} => endpoint[e].step = 6
        /\ Phase(e) \in {"handshake", "closed"} => \A t \in Thread : job[e][t] = NoJob

InStep(e, f) ==
    /\ endpoint[e].step <= endpoint[f].step + 1
    /\ endpoint[e].step = endpoint[f].step + 1 => Handshake[endpoint[f].step] = e

IsRaw(x) == x.kind = "raw"

RawFirst(e, f) ==
    /\ \A i \in 1..Len(wire[e]) : i > 1 \/ endpoint[f].step <= endpoint[e].step => ~IsRaw(wire[e][i])
    /\ endpoint[f].step = endpoint[e].step + 1 => wire[e] # <<>> /\ IsRaw(wire[e][1])
    /\ \A i \in 1..Len(wire[e]) : ~IsRaw(wire[e][i]) => endpoint[f].step = 6

HandshakeInStep ==
    \A e \in End : InStep(e, Other(e)) /\ (Phase(e) # "closed" => RawFirst(e, Other(e)))

WireInv == WireType /\ SocketHeldByWriter /\ PhaseFollowsStep /\ HandshakeInStep

LEMMA OtherEnd == \A e \in End : Other(e) \in End /\ Other(e) # e /\ Other(Other(e)) = e /\ End = {e, Other(e)}
  BY DEF End, Other

LEMMA HandshakeAlternates ==
    /\ Len(Handshake) = 5
    /\ \A i \in 1..5 : Handshake[i] \in End
    /\ \A i \in 1..4 : Handshake[i + 1] = Other(Handshake[i])
  <1>1. Handshake[1] = "dialer" /\ Handshake[2] = "listener" /\ Handshake[3] = "dialer"
        /\ Handshake[4] = "listener" /\ Handshake[5] = "dialer" /\ Len(Handshake) = 5
    BY DEF Handshake
  <1>2. \A i \in 1..5 : i = 1 \/ i = 2 \/ i = 3 \/ i = 4 \/ i = 5
    OBVIOUS
  <1>3. \A i \in 1..4 : i = 1 \/ i = 2 \/ i = 3 \/ i = 4
    OBVIOUS
  <1> QED BY <1>1, <1>2, <1>3 DEF End, Other

LEMMA WireInitInv == WireInit => WireInv
  <1> SUFFICES ASSUME WireInit PROVE WireInv
    OBVIOUS
  <1>1. WireType
    <2>1. [phase |-> "handshake", step |-> 1, tx |-> 0, rx |-> 0, want |-> 0, parts |-> <<>>,
           socket |-> "free", cut |-> FALSE, torn |-> FALSE, announced |-> 0, why |-> "none"] \in EndpointRecord
      BY DEF EndpointRecord
    <2> QED BY <2>1 DEF WireInit, WireType, Job
  <1>2. SocketHeldByWriter /\ PhaseFollowsStep
    BY DEF WireInit, SocketHeldByWriter, Writing, PhaseFollowsStep, NoJob, Phase, Thread
  <1>3. HandshakeInStep
    BY OtherEnd DEF WireInit, HandshakeInStep, InStep, RawFirst, Phase
  <1> QED BY <1>1, <1>2, <1>3 DEF WireInv

-----------------------------------------------------------------------------
(***************************************************************************)
(* A step of end e leaves the other endpoint and its jobs alone.           *)
(***************************************************************************)
StepOf(e) ==
    /\ WireType'
    /\ \A t \in Thread : /\ Writing(e, t)' <=> endpoint'[e].socket = t
                         /\ Writing(e, t)' => job'[e][t].left > 0
    /\ Phase(e)' = "handshake" => endpoint'[e].step < 6
    /\ Phase(e)' \in {"auth", "open"} => endpoint'[e].step = 6
    /\ Phase(e)' \in {"handshake", "closed"} => \A t \in Thread : job'[e][t] = NoJob
    /\ endpoint'[Other(e)] = endpoint[Other(e)] /\ job'[Other(e)] = job[Other(e)]

LEMMA StepKeeps ==
    ASSUME WireInv, NEW e \in End, StepOf(e), HandshakeInStep'
    PROVE  WireInv'
  <1>1. End = {e, Other(e)}
    BY OtherEnd
  <1>2. SocketHeldByWriter'
    BY <1>1 DEF StepOf, WireInv, SocketHeldByWriter, Writing
  <1>3. PhaseFollowsStep'
    BY <1>1 DEF StepOf, WireInv, PhaseFollowsStep, Phase
  <1> QED BY <1>2, <1>3 DEF WireInv, StepOf

(***************************************************************************)
(* After the handshake an end only takes frames from the front, or closes, *)
(* and appends frames that are encrypted.                                  *)
(***************************************************************************)
LEMMA HandshakeKept ==
    ASSUME WireInv, NEW e \in End, WireType', endpoint'[Other(e)] = endpoint[Other(e)],
           endpoint'[e].step = endpoint[e].step, Phase(e)' # "closed" => Phase(e) # "closed",
           \/ wire'[e] = wire[e]
           \/ wire'[e] = Tail(wire[e]) /\ wire[e] # <<>> /\ endpoint[e].step = 6
           \/ Phase(e)' = "closed",
           \/ wire'[Other(e)] = wire[Other(e)]
           \/ \E x \in CipherFrame : wire'[Other(e)] = Append(wire[Other(e)], x) /\ endpoint[e].step = 6
    PROVE  HandshakeInStep'
  <1> DEFINE f == Other(e)
  <1>0. e \in End /\ f \in End /\ Other(e) = f /\ Other(f) = e /\ End = {e, f} /\ e # f
    BY OtherEnd
  <1> HIDE DEF f
  <1>1. /\ InStep(e, f) /\ InStep(f, e)
        /\ Phase(e) # "closed" => RawFirst(e, f)
        /\ Phase(f) # "closed" => RawFirst(f, e)
    BY <1>0 DEF WireInv, HandshakeInStep, f
  <1>2. /\ endpoint'[f] = endpoint[f] /\ endpoint[e].step \in 1..6 /\ endpoint[f].step \in 1..6
        /\ wire[e] \in Seq(RawFrame \cup CipherFrame) /\ wire[f] \in Seq(RawFrame \cup CipherFrame)
    BY <1>0 DEF WireInv, WireType, EndpointRecord, f
  <1>3. InStep(e, f)' /\ InStep(f, e)'
    BY <1>1, <1>2 DEF InStep
  <1>4. ASSUME Phase(e)' # "closed" PROVE RawFirst(e, f)'
    <2>1. RawFirst(e, f)
      BY <1>1, <1>4
    <2>2. CASE wire'[e] = wire[e]
      BY <1>2, <2>1, <2>2 DEF RawFirst
    <2>3. CASE wire'[e] = Tail(wire[e]) /\ wire[e] # <<>> /\ endpoint[e].step = 6
      <3>1. /\ Len(wire'[e]) = Len(wire[e]) - 1
            /\ \A i \in 1..Len(wire'[e]) : i + 1 \in 1..Len(wire[e]) /\ wire'[e][i] = wire[e][i + 1]
        BY <1>2, <2>3, HeadTailProperties
      <3> QED BY <1>2, <2>1, <2>3, <3>1 DEF RawFirst
    <2> QED BY <1>4, <2>2, <2>3
  <1>5. ASSUME Phase(f)' # "closed" PROVE RawFirst(f, e)'
    <2>1. RawFirst(f, e)
      BY <1>1, <1>2, <1>5 DEF Phase
    <2>2. CASE wire'[f] = wire[f]
      BY <1>2, <2>1, <2>2 DEF RawFirst
    <2>3. ASSUME NEW x \in CipherFrame, wire'[f] = Append(wire[f], x), endpoint[e].step = 6
          PROVE  RawFirst(f, e)'
      <3>1. /\ Len(wire'[f]) = Len(wire[f]) + 1 /\ wire'[f] # <<>>
            /\ \A i \in 1..Len(wire[f]) : wire'[f][i] = wire[f][i]
            /\ wire'[f][Len(wire[f]) + 1] = x /\ ~IsRaw(x)
        <4>1. x.kind # "raw"
          BY DEF CipherFrame
        <4>2. PICK w \in Seq(RawFrame \cup CipherFrame) : w = wire[f]
          BY <1>2
        <4>3. /\ Len(Append(w, x)) = Len(w) + 1 /\ Append(w, x) # <<>>
              /\ \A i \in 1..Len(w) : Append(w, x)[i] = w[i]
              /\ Append(w, x)[Len(w) + 1] = x
          BY AppendProperties
        <4> QED BY <2>3, <4>1, <4>2, <4>3 DEF IsRaw
      <3>2. \A i \in 1..Len(wire'[f]) : i \in 1..Len(wire[f]) \/ i = Len(wire[f]) + 1
        BY <1>2, <3>1
      <3>3. endpoint[e].step = endpoint[f].step + 1 => 1 \in 1..Len(wire[f])
        BY <1>2, <2>1 DEF RawFirst
      <3> QED BY <1>2, <2>1, <2>3, <3>1, <3>2, <3>3 DEF RawFirst
    <2> QED BY <2>2, <2>3 DEF f
  <1> QED BY <1>0, <1>3, <1>4, <1>5 DEF HandshakeInStep

-----------------------------------------------------------------------------
(***************************************************************************)
(* What each action does to its end, and that WireInv is kept.             *)
(***************************************************************************)
LEMMA BusyJob ==
    ASSUME WireInv, NEW e \in End, NEW t \in Thread, job[e][t].pc \in BusyPc
    PROVE  job[e][t] \in Busy /\ Phase(e) \in {"auth", "open"} /\ endpoint[e].step = 6
  <1>1. job[e][t] \in Job /\ endpoint[e] \in EndpointRecord
    BY DEF WireInv, WireType
  <1>2. job[e][t] # NoJob
    BY DEF NoJob, BusyPc
  <1> QED BY <1>1, <1>2 DEF WireInv, PhaseFollowsStep, Phase, EndpointRecord, Job

WithLeft(j, pc, n) == [j EXCEPT !.pc = pc, !.left = n]
WithNonce(j, pc, n) == [j EXCEPT !.pc = pc, !.nonce = n]

(***************************************************************************)
(* The job of one thread of one end becomes j.                             *)
(***************************************************************************)
JobNow(f, g, e, t, j) ==
    /\ g[e][t] = j /\ (j \in Job => g \in [End -> [Thread -> Job]])
    /\ \A u \in Thread : u # t => g[e][u] = f[e][u]
    /\ \A x \in End : x # e => g[x] = f[x]

LEMMA JobSet ==
    ASSUME NEW f \in [End -> [Thread -> Job]], NEW e \in End, NEW t \in Thread, NEW j,
           NEW g, g = [f EXCEPT ![e][t] = j]
    PROVE  JobNow(f, g, e, t, j)
  BY DEF JobNow

LEMMA JobLeft ==
    ASSUME NEW f \in [End -> [Thread -> Job]], NEW e \in End, NEW t \in Thread, NEW v, NEW w,
           NEW g, g = [f EXCEPT ![e][t].pc = v, ![e][t].left = w]
    PROVE  JobNow(f, g, e, t, WithLeft(f[e][t], v, w))
  BY DEF JobNow, WithLeft

LEMMA JobNonce ==
    ASSUME NEW f \in [End -> [Thread -> Job]], NEW e \in End, NEW t \in Thread, NEW v, NEW w,
           NEW g, g = [f EXCEPT ![e][t].pc = v, ![e][t].nonce = w]
    PROVE  JobNow(f, g, e, t, WithNonce(f[e][t], v, w))
  BY DEF JobNow, WithNonce

(***************************************************************************)
(* The endpoint of e becomes s.                                            *)
(***************************************************************************)
EndNow(e, s) == endpoint'[e] = s /\ endpoint'[Other(e)] = endpoint[Other(e)]

LEMMA TypeNow ==
    ASSUME WireInv, NEW e \in End, NEW s \in EndpointRecord, endpoint' = [endpoint EXCEPT ![e] = s]
    PROVE  EndNow(e, s) /\ endpoint' \in [End -> EndpointRecord]
  BY OtherEnd DEF WireInv, WireType, EndNow

LEMMA LockSocketDoes ==
    ASSUME WireInv, NEW e \in End, NEW t \in Thread, LockSocket(e, t)
    PROVE  /\ EndNow(e, [endpoint[e] EXCEPT !.socket = t])
           /\ JobNow(job, job', e, t, WithLeft(job[e][t], "encrypt", PartsOf[job[e][t].msg] + 1))
           /\ taken'[e] = Append(taken[e], job[e][t].msg) /\ taken'[Other(e)] = taken[Other(e)]
           /\ UNCHANGED <<wire, delivered>>
           /\ job[e][t] \in Busy /\ endpoint[e].socket = "free"
           /\ WireInv'
  <1>0. /\ job[e][t] \in Busy /\ job[e][t].msg \in Message
        /\ Phase(e) \in {"auth", "open"} /\ endpoint[e].socket = "free" /\ endpoint[e].step = 6
        /\ endpoint[e] \in EndpointRecord
    BY BusyJob DEF LockSocket, Busy, BusyPc, SocketFree, WireInv, WireType
  <1>a. PICK n \in Nat : n = PartsOf[job[e][t].msg] + 1 /\ n > 0
    BY <1>0, WireAssumption DEF Message
  <1>b. PICK s : s = [endpoint[e] EXCEPT !.socket = t]
    OBVIOUS
  <1>c. s \in EndpointRecord /\ s.socket = t /\ s.step = 6 /\ s.phase = endpoint[e].phase
    BY <1>0, <1>b DEF EndpointRecord
  <1>1. EndNow(e, s) /\ endpoint' \in [End -> EndpointRecord]
    BY <1>b, <1>c, TypeNow DEF LockSocket
  <1>2. JobNow(job, job', e, t, WithLeft(job[e][t], "encrypt", n))
    BY <1>a, JobLeft DEF LockSocket, WireInv, WireType
  <1>3. job'[e][t] \in Busy /\ job'[e][t].pc = "encrypt" /\ job'[e][t].left > 0
    <2>1. job'[e][t] = WithLeft(job[e][t], "encrypt", n)
      BY <1>2 DEF JobNow
    <2>2. job'[e][t] \in Busy /\ job'[e][t].pc = "encrypt" /\ job'[e][t].left = n
      BY <1>0, <1>a, <2>1 DEF WithLeft, Busy, BusyPc
    <2> QED BY <1>a, <2>2
  <1>4. /\ taken'[e] = Append(taken[e], job[e][t].msg) /\ taken'[Other(e)] = taken[Other(e)]
        /\ taken' \in [End -> Seq(Message)]
    BY <1>0, OtherEnd, AppendProperties DEF LockSocket, WireInv, WireType
  <1>5. WireType'
    BY <1>1, <1>2, <1>3, <1>4 DEF LockSocket, WireInv, WireType, JobNow, Job
  <1>6. StepOf(e)
    <2>1. \A u \in Thread : u # t => ~Writing(e, u) /\ job'[e][u] = job[e][u]
      BY <1>0, <1>2 DEF WireInv, SocketHeldByWriter, JobNow, Thread
    <2>2. job'[Other(e)] = job[Other(e)]
      BY <1>2, OtherEnd DEF JobNow
    <2> QED BY <1>0, <1>1, <1>c, <1>3, <1>5, <2>1, <2>2 DEF StepOf, Writing, Phase, EndNow
  <1>7. HandshakeInStep'
    BY <1>0, <1>1, <1>c, <1>5, HandshakeKept DEF LockSocket, EndNow, Phase
  <1>8. WireInv'
    BY <1>6, <1>7, StepKeeps
  <1> QED BY <1>0, <1>a, <1>b, <1>1, <1>2, <1>4, <1>8 DEF LockSocket

LEMMA EncryptDoes ==
    ASSUME WireInv, NEW e \in End, NEW t \in Thread, Encrypt(e, t)
    PROVE  /\ EndNow(e, [endpoint[e] EXCEPT !.tx = endpoint[e].tx + 1])
           /\ JobNow(job, job', e, t, WithNonce(job[e][t], "write", endpoint[e].tx))
           /\ UNCHANGED <<wire, taken, delivered>>
           /\ job[e][t] \in Busy /\ endpoint[e].socket = t
           /\ WireInv'
  <1>0. /\ job[e][t] \in Busy /\ Phase(e) \in {"auth", "open"} /\ endpoint[e].socket = t
        /\ endpoint[e].step = 6 /\ endpoint[e] \in EndpointRecord /\ job[e][t].left > 0
    BY BusyJob DEF Encrypt, WireInv, WireType, SocketHeldByWriter, Writing, BusyPc
  <1>a. PICK n \in Nat : n = endpoint[e].tx
    BY <1>0 DEF EndpointRecord
  <1>b. PICK s : s = [endpoint[e] EXCEPT !.tx = n + 1]
    OBVIOUS
  <1>c. s \in EndpointRecord /\ s.socket = t /\ s.step = 6 /\ s.phase = endpoint[e].phase
    <2>1. PICK k \in Nat : s = [endpoint[e] EXCEPT !.tx = k]
      BY <1>b
    <2> QED BY <1>0, <2>1 DEF EndpointRecord
  <1>1. EndNow(e, s) /\ endpoint' \in [End -> EndpointRecord]
    <2>1. endpoint' = [endpoint EXCEPT ![e] = s]
      BY <1>a, <1>b DEF Encrypt
    <2> QED BY <1>c, <2>1, TypeNow
  <1>2. JobNow(job, job', e, t, WithNonce(job[e][t], "write", n))
    BY <1>a, JobNonce DEF Encrypt, WireInv, WireType
  <1>3. job'[e][t] \in Busy /\ job'[e][t].pc = "write" /\ job'[e][t].left > 0
    <2>1. job'[e][t] = WithNonce(job[e][t], "write", n)
      BY <1>2 DEF JobNow
    <2>2. job'[e][t] \in Busy /\ job'[e][t].pc = "write" /\ job'[e][t].left = job[e][t].left
      BY <1>0, <1>a, <2>1 DEF WithNonce, Busy, BusyPc
    <2> QED BY <1>0, <2>2
  <1>5. WireType'
    BY <1>1, <1>2, <1>3 DEF Encrypt, WireInv, WireType, JobNow, Job
  <1>6. StepOf(e)
    <2>1. \A u \in Thread : u # t => ~Writing(e, u) /\ job'[e][u] = job[e][u]
      BY <1>0, <1>2 DEF WireInv, SocketHeldByWriter, JobNow, Thread
    <2>2. job'[Other(e)] = job[Other(e)]
      BY <1>2, OtherEnd DEF JobNow
    <2> QED BY <1>0, <1>1, <1>c, <1>3, <1>5, <2>1, <2>2 DEF StepOf, Writing, Phase, EndNow
  <1>7. HandshakeInStep'
    BY <1>0, <1>1, <1>c, <1>5, HandshakeKept DEF Encrypt, EndNow, Phase
  <1>8. WireInv'
    BY <1>6, <1>7, StepKeeps
  <1> QED BY <1>0, <1>a, <1>b, <1>1, <1>2, <1>8 DEF Encrypt

(***************************************************************************)
(* The frame goes into the socket, which had room, after what is there.    *)
(***************************************************************************)
LEMMA WriteFrameDoes ==
    ASSUME WireInv, NEW e \in End, NEW t \in Thread, WriteFrame(e, t)
    PROVE  /\ Frame(e, job[e][t]) \in CipherFrame
           /\ wire'[Other(e)] = Append(wire[Other(e)], Frame(e, job[e][t])) /\ wire'[e] = wire[e]
           /\ IF job[e][t].left = 1
              THEN EndNow(e, [endpoint[e] EXCEPT !.socket = "free"]) /\ JobNow(job, job', e, t, NoJob)
              ELSE /\ EndNow(e, endpoint[e])
                   /\ JobNow(job, job', e, t, WithLeft(job[e][t], "encrypt", job[e][t].left - 1))
           /\ UNCHANGED <<taken, delivered>>
           /\ job[e][t] \in Busy /\ endpoint[e].socket = t
           /\ WireInv'
  <1>0. /\ job[e][t] \in Busy /\ Phase(e) \in {"auth", "open"} /\ endpoint[e].socket = t
        /\ endpoint[e].step = 6 /\ endpoint[e] \in EndpointRecord
        /\ job[e][t].left \in Nat /\ job[e][t].left > 0 /\ Other(e) \in End /\ Other(e) # e
    BY BusyJob, OtherEnd DEF WriteFrame, WireInv, WireType, SocketHeldByWriter, Writing, BusyPc, Busy
  <1>1. Frame(e, job[e][t]) \in CipherFrame
    BY <1>0 DEF Frame, CipherFrame, Busy
  <1>2. /\ wire'[Other(e)] = Append(wire[Other(e)], Frame(e, job[e][t])) /\ wire'[e] = wire[e]
        /\ wire' \in [End -> Seq(RawFrame \cup CipherFrame)]
    BY <1>0, <1>1, AppendProperties DEF WriteFrame, WireInv, WireType
  <1>3. /\ \A u \in Thread : u # t => ~Writing(e, u)
        /\ "free" \notin Thread
    BY <1>0 DEF WireInv, SocketHeldByWriter, Thread
  <1>4. CASE job[e][t].left = 1
    <2>1. PICK s : s = [endpoint[e] EXCEPT !.socket = "free"]
      OBVIOUS
    <2>2. s \in EndpointRecord /\ s.socket = "free" /\ s.step = 6 /\ s.phase = endpoint[e].phase
      BY <1>0, <2>1 DEF EndpointRecord
    <2>3. EndNow(e, s) /\ endpoint' \in [End -> EndpointRecord]
      BY <1>4, <2>1, <2>2, TypeNow DEF WriteFrame
    <2>4. JobNow(job, job', e, t, NoJob)
      BY <1>4, JobSet DEF WriteFrame, EndJob, WireInv, WireType
    <2>5. WireType'
      BY <1>2, <2>3, <2>4 DEF WriteFrame, WireInv, WireType, JobNow, Job
    <2>6. StepOf(e)
      <3>1. job'[Other(e)] = job[Other(e)] /\ job'[e][t] = NoJob /\ \A u \in Thread : u # t => job'[e][u] = job[e][u]
        BY <1>0, <2>4 DEF JobNow
      <3>2. \A u \in Thread : ~Writing(e, u)'
        BY <1>3, <3>1 DEF Writing, NoJob
      <3> QED BY <1>0, <1>3, <2>2, <2>3, <2>5, <3>1, <3>2 DEF StepOf, Phase, EndNow
    <2>7. HandshakeInStep'
      BY <1>0, <1>1, <1>2, <2>2, <2>3, <2>5, HandshakeKept DEF EndNow, Phase
    <2>8. WireInv'
      BY <2>6, <2>7, StepKeeps
    <2> QED BY <1>0, <1>1, <1>2, <1>4, <2>1, <2>3, <2>4, <2>8 DEF WriteFrame
  <1>5. CASE job[e][t].left # 1
    <2>1. PICK n \in Nat : n = job[e][t].left - 1 /\ n > 0
      BY <1>0, <1>5
    <2>2. JobNow(job, job', e, t, WithLeft(job[e][t], "encrypt", n))
      BY <1>5, <2>1, JobLeft DEF WriteFrame, WireInv, WireType
    <2>3. job'[e][t] \in Busy /\ job'[e][t].pc = "encrypt" /\ job'[e][t].left > 0
      <3>1. job'[e][t] = WithLeft(job[e][t], "encrypt", n)
        BY <2>2 DEF JobNow
      <3>2. job'[e][t] \in Busy /\ job'[e][t].pc = "encrypt" /\ job'[e][t].left = n
        BY <1>0, <2>1, <3>1 DEF WithLeft, Busy, BusyPc
      <3> QED BY <2>1, <3>2
    <2>4. endpoint' = endpoint /\ EndNow(e, endpoint[e])
      BY <1>5 DEF WriteFrame, EndNow
    <2>5. WireType'
      BY <1>2, <2>2, <2>3, <2>4 DEF WriteFrame, WireInv, WireType, JobNow, Job
    <2>6. StepOf(e)
      <3>1. job'[Other(e)] = job[Other(e)] /\ \A u \in Thread : u # t => job'[e][u] = job[e][u]
        BY <1>0, <2>2 DEF JobNow
      <3> QED BY <1>0, <1>3, <2>3, <2>4, <2>5, <3>1 DEF StepOf, Phase, Writing
    <2>7. HandshakeInStep'
      BY <1>0, <1>1, <1>2, <2>4, <2>5, HandshakeKept DEF Phase
    <2>8. WireInv'
      BY <2>6, <2>7, StepKeeps
    <2> QED BY <1>0, <1>1, <1>2, <1>5, <2>1, <2>2, <2>4, <2>8 DEF WriteFrame
  <1> QED BY <1>4, <1>5

LEMMA WriteFailsDoes ==
    ASSUME WireInv, NEW e \in End, NEW t \in Thread, WriteFails(e, t)
    PROVE  /\ \E c \in BOOLEAN : EndNow(e, [endpoint[e] EXCEPT !.socket = "free", !.torn = TRUE, !.cut = c])
           /\ JobNow(job, job', e, t, NoJob)
           /\ UNCHANGED <<wire, taken, delivered>>
           /\ job[e][t] \in Busy /\ endpoint[e].socket = t
           /\ WireInv'
  <1>0. /\ job[e][t] \in Busy /\ Phase(e) \in {"auth", "open"} /\ endpoint[e].socket = t
        /\ endpoint[e].step = 6 /\ endpoint[e] \in EndpointRecord
        /\ Other(e) \in End /\ Other(e) # e
    BY BusyJob, OtherEnd DEF WriteFails, WireInv, WireType, SocketHeldByWriter, Writing, BusyPc
  <1>3. /\ \A u \in Thread : u # t => ~Writing(e, u)
        /\ "free" \notin Thread
    BY <1>0 DEF WireInv, SocketHeldByWriter, Thread
  <1>a. PICK c \in BOOLEAN : endpoint' = [endpoint EXCEPT ![e].socket = "free", ![e].torn = TRUE, ![e].cut = c]
    BY DEF WriteFails
  <1>b. PICK s : s = [endpoint[e] EXCEPT !.socket = "free", !.torn = TRUE, !.cut = c]
    OBVIOUS
  <1>c. s \in EndpointRecord /\ s.socket = "free" /\ s.step = 6 /\ s.phase = endpoint[e].phase
    BY <1>0, <1>b DEF EndpointRecord
  <1>1. EndNow(e, s) /\ endpoint' \in [End -> EndpointRecord]
    <2>1. endpoint' = [endpoint EXCEPT ![e] = s]
      BY <1>a, <1>b DEF WireInv, WireType
    <2> QED BY <1>c, <2>1, TypeNow
  <1>2. JobNow(job, job', e, t, NoJob)
    BY JobSet DEF WriteFails, EndJob, WireInv, WireType
  <1>5. WireType'
    BY <1>1, <1>2 DEF WriteFails, WireInv, WireType, JobNow, Job
  <1>6. StepOf(e)
    <2>1. job'[Other(e)] = job[Other(e)] /\ job'[e][t] = NoJob /\ \A u \in Thread : u # t => job'[e][u] = job[e][u]
      BY <1>0, <1>2 DEF JobNow
    <2>2. \A u \in Thread : ~Writing(e, u)'
      BY <1>3, <2>1 DEF Writing, NoJob
    <2> QED BY <1>0, <1>3, <1>c, <1>1, <1>5, <2>1, <2>2 DEF StepOf, Phase, EndNow
  <1>7. HandshakeInStep'
    BY <1>0, <1>c, <1>1, <1>5, HandshakeKept DEF WriteFails, EndNow, Phase
  <1>8. WireInv'
    BY <1>6, <1>7, StepKeeps
  <1> QED BY <1>0, <1>b, <1>1, <1>2, <1>8 DEF WriteFails

LEMMA CloseEndDoes ==
    ASSUME WireInv, NEW e \in End, NEW why \in {"auth", "garbled", "idle"}, CloseEnd(e, why),
           taken' = taken, delivered' \in [End -> Seq(Seq(Message))]
    PROVE  /\ EndNow(e, [endpoint[e] EXCEPT !.phase = "closed", !.why = why, !.socket = "free",
                                            !.want = 0, !.parts = <<>>])
           /\ job'[e] = [t \in Thread |-> NoJob] /\ job'[Other(e)] = job[Other(e)]
           /\ wire'[e] = <<>> /\ wire'[Other(e)] = wire[Other(e)]
           /\ WireInv'
  <1>0. endpoint[e] \in EndpointRecord /\ Other(e) \in End /\ Other(e) # e /\ "free" \notin Thread
    BY OtherEnd DEF WireInv, WireType, Thread
  <1>a. PICK s : s = [endpoint[e] EXCEPT !.phase = "closed", !.why = why, !.socket = "free",
                                         !.want = 0, !.parts = <<>>]
    OBVIOUS
  <1>b. /\ s \in EndpointRecord /\ s.socket = "free" /\ s.step = endpoint[e].step /\ s.phase = "closed"
    <2>1. <<>> \in Seq(Message) /\ 0 \in Nat
      OBVIOUS
    <2>2. PICK p \in Seq(Message), z \in Nat :
             s = [endpoint[e] EXCEPT !.phase = "closed", !.why = why, !.socket = "free", !.want = z, !.parts = p]
      BY <1>a, <2>1
    <2> QED BY <1>0, <2>2 DEF EndpointRecord
  <1>1. EndNow(e, s) /\ endpoint' \in [End -> EndpointRecord]
    <2>1. endpoint' = [endpoint EXCEPT ![e] = s]
      BY <1>a DEF CloseEnd, WireInv, WireType
    <2> QED BY <1>b, <2>1, TypeNow
  <1>2. /\ job'[e] = [t \in Thread |-> NoJob] /\ job'[Other(e)] = job[Other(e)]
        /\ job' \in [End -> [Thread -> Job]]
    BY <1>0 DEF CloseEnd, WireInv, WireType, Job
  <1>3. /\ wire'[e] = <<>> /\ wire'[Other(e)] = wire[Other(e)]
        /\ wire' \in [End -> Seq(RawFrame \cup CipherFrame)]
    BY <1>0 DEF CloseEnd, WireInv, WireType
  <1>5. WireType'
    BY <1>1, <1>2, <1>3 DEF WireInv, WireType
  <1>6. StepOf(e)
    <2>1. \A u \in Thread : job'[e][u] = NoJob /\ ~Writing(e, u)'
      BY <1>2 DEF Writing, NoJob
    <2> QED BY <1>0, <1>b, <1>1, <1>2, <1>5, <2>1 DEF StepOf, Phase, EndNow
  <1>7. HandshakeInStep'
    BY <1>0, <1>b, <1>1, <1>3, <1>5, HandshakeKept DEF EndNow, Phase
  <1>8. WireInv'
    BY <1>6, <1>7, StepKeeps
  <1> QED BY <1>a, <1>1, <1>2, <1>3, <1>8

(***************************************************************************)
(* The frame that a reader looks at is never one of the handshake.         *)
(***************************************************************************)
LEMMA ReadingCipher ==
    ASSUME WireInv, NEW e \in End, Reading(e)
    PROVE  /\ \A i \in 1..Len(wire[e]) : wire[e][i] \in CipherFrame
           /\ Len(wire[e]) \in Nat /\ Len(wire[e]) > 0 /\ Head(wire[e]) = wire[e][1]
           /\ Phase(e) \in {"auth", "open"} /\ job[e]["reader"].pc = "idle" /\ job[e]["reader"] = NoJob
           /\ endpoint[e] \in EndpointRecord /\ endpoint[e].step = 6
           /\ Other(e) \in End /\ Other(e) # e
           /\ endpoint[e].socket # "reader"
           /\ endpoint[Other(e)].step <= endpoint[e].step
  <1>1. /\ wire[e] \in Seq(RawFrame \cup CipherFrame) /\ wire[e] # <<>>
        /\ endpoint[e] \in EndpointRecord /\ Other(e) \in End /\ Other(e) # e
        /\ Phase(e) \in {"auth", "open"} /\ job[e]["reader"].pc = "idle" /\ job[e]["reader"] \in Job
        /\ "reader" \in Thread
    BY OtherEnd DEF Reading, Idle, WireInv, WireType, Thread
  <1>2. endpoint[e].step = 6 /\ endpoint[Other(e)].step \in 1..6
    BY <1>1 DEF WireInv, PhaseFollowsStep, WireType, EndpointRecord
  <1>3. endpoint[Other(e)].step <= endpoint[e].step
    BY <1>2
  <1>4. \A i \in 1..Len(wire[e]) : ~IsRaw(wire[e][i])
    BY <1>1, <1>2, <1>3 DEF WireInv, HandshakeInStep, RawFirst
  <1>5. \A i \in 1..Len(wire[e]) : wire[e][i] \in CipherFrame
    BY <1>1, <1>4, ElementOfSeq DEF RawFrame, IsRaw
  <1>6. job[e]["reader"] = NoJob /\ endpoint[e].socket # "reader"
    BY <1>1 DEF Job, Busy, BusyPc, WireInv, SocketHeldByWriter, Writing
  <1> QED BY <1>1, <1>2, <1>3, <1>5, <1>6, LenProperties

(***************************************************************************)
(* A frame is read: the endpoint becomes s and the reader may get a job.   *)
(***************************************************************************)
LEMMA TakesFrame ==
    ASSUME WireInv, NEW e \in End, Reading(e), NEW s \in EndpointRecord,
           endpoint' = [endpoint EXCEPT ![e] = s],
           s.phase \in {"auth", "open"}, s.step = endpoint[e].step, s.socket = endpoint[e].socket,
           wire' = [wire EXCEPT ![e] = Tail(wire[e])],
           NEW j \in Job, JobNow(job, job', e, "reader", j), j.pc \notin {"encrypt", "write"},
           taken' = taken, delivered' \in [End -> Seq(Seq(Message))]
    PROVE  /\ WireInv' /\ EndNow(e, s)
           /\ wire'[e] = Tail(wire[e]) /\ wire'[Other(e)] = wire[Other(e)]
  <1>0. /\ "reader" \in Thread /\ Other(e) \in End /\ Other(e) # e /\ wire[e] # <<>>
        /\ wire[e] \in Seq(RawFrame \cup CipherFrame) /\ Phase(e) \in {"auth", "open"}
        /\ endpoint[e].step = 6 /\ endpoint[e].socket # "reader"
    BY ReadingCipher DEF Thread, Reading, WireInv, WireType
  <1>1. EndNow(e, s) /\ endpoint' \in [End -> EndpointRecord]
    BY TypeNow
  <1>2. /\ wire'[e] = Tail(wire[e]) /\ wire'[Other(e)] = wire[Other(e)]
        /\ wire' \in [End -> Seq(RawFrame \cup CipherFrame)]
    BY <1>0, HeadTailProperties DEF WireInv, WireType
  <1>3. WireType'
    BY <1>1, <1>2 DEF WireInv, WireType, JobNow
  <1>4. StepOf(e)
    <2>1. /\ job'[Other(e)] = job[Other(e)] /\ ~Writing(e, "reader")'
          /\ \A u \in Thread : u # "reader" => job'[e][u] = job[e][u]
      BY <1>0 DEF JobNow, Writing
    <2>2. ASSUME NEW u \in Thread
          PROVE  (Writing(e, u)' <=> s.socket = u) /\ (Writing(e, u)' => job'[e][u].left > 0)
      <3>1. CASE u = "reader"
        BY <1>0, <2>1, <3>1
      <3>2. CASE u # "reader"
        <4>1. job'[e][u] = job[e][u] /\ (Writing(e, u)' <=> Writing(e, u))
          BY <2>1, <3>2 DEF Writing
        <4>2. (Writing(e, u) <=> endpoint[e].socket = u) /\ (Writing(e, u) => job[e][u].left > 0)
          BY DEF WireInv, SocketHeldByWriter
        <4> QED BY <4>1, <4>2
      <3> QED BY <3>1, <3>2
    <2> QED BY <1>0, <1>1, <1>3, <2>1, <2>2 DEF StepOf, Phase, EndNow
  <1>5. HandshakeInStep'
    BY <1>0, <1>1, <1>2, <1>3, HandshakeKept DEF EndNow, Phase
  <1> QED BY <1>1, <1>2, <1>4, <1>5, StepKeeps

LEMMA SendingIs ==
    ASSUME NEW m \in Message
    PROVE  Sending(m) \in Busy /\ Sending(m) \in Job /\ Sending(m).pc = "lock" /\ Sending(m).msg = m
  BY DEF Sending, Busy, BusyPc, Job

LEMMA NamedMessages == {"Identity", "Hello", "Inv", "Get", "Body"} \subseteq Message
  BY WireAssumption DEF Message

LEMMA NoJobIs == NoJob \in Job /\ NoJob.pc = "idle"
  BY DEF NoJob, Job

LEMMA AnswerIs == \A m : Answer(m) \in Job /\ Answer(m).pc \notin {"encrypt", "write"}
  <1> TAKE m
  <1>1. CASE m = "Inv"
    BY <1>1, SendingIs, NamedMessages DEF Answer
  <1>2. CASE m = "Get"
    BY <1>2, SendingIs, NamedMessages DEF Answer
  <1>3. CASE m # "Inv" /\ m # "Get"
    BY <1>3, NoJobIs DEF Answer
  <1> QED BY <1>1, <1>2, <1>3

(***************************************************************************)
(* The four outcomes of reading a frame.                                   *)
(***************************************************************************)
HeaderRead(e, x) ==
    /\ x.kind = "header" /\ x.nonce = endpoint[e].rx /\ endpoint[e].want = 0
    /\ EndNow(e, [endpoint[e] EXCEPT !.want = PartsOf[x.msg], !.rx = endpoint[e].rx + 1])
    /\ wire'[e] = Tail(wire[e]) /\ wire'[Other(e)] = wire[Other(e)]
    /\ UNCHANGED <<job, taken, delivered>>

PartRead(e, x, parts) ==
    /\ x.kind # "garbage" /\ x.nonce = endpoint[e].rx /\ endpoint[e].want > 0
    /\ ~Complete(endpoint[e].want, parts)
    /\ EndNow(e, [endpoint[e] EXCEPT !.parts = parts, !.rx = endpoint[e].rx + 1])
    /\ wire'[e] = Tail(wire[e]) /\ wire'[Other(e)] = wire[Other(e)]
    /\ UNCHANGED <<job, taken, delivered>>

LastPart(e, x, parts) ==
    /\ x.kind # "garbage" /\ x.nonce = endpoint[e].rx /\ endpoint[e].want > 0
    /\ Complete(endpoint[e].want, parts)
    /\ delivered' = [delivered EXCEPT ![e] = Append(delivered[e], parts)]
    /\ taken' = taken

MessageRead(e, x, parts) ==
    /\ LastPart(e, x, parts)
    /\ Phase(e) = "auth" => Head(parts) = "Identity"
    /\ EndNow(e, [endpoint[e] EXCEPT !.phase = "open", !.rx = endpoint[e].rx + 1, !.want = 0, !.parts = <<>>])
    /\ wire'[e] = Tail(wire[e]) /\ wire'[Other(e)] = wire[Other(e)]
    /\ JobNow(job, job', e, "reader", IF Phase(e) = "auth" THEN Sending("Hello") ELSE Answer(Head(parts)))

Garbled(e, x) ==
    /\ x.kind = "garbage" \/ x.nonce # endpoint[e].rx \/ (endpoint[e].want = 0 /\ x.kind # "header")
    /\ CloseEnd(e, "garbled") /\ UNCHANGED <<taken, delivered>>

LEMMA ReadFrameDoes ==
    ASSUME WireInv, NEW e \in End, ReadFrame(e)
    PROVE  LET x == Head(wire[e])
               parts == Append(endpoint[e].parts, x.msg)
           IN /\ Reading(e) /\ parts \in Seq(Message) /\ WireInv'
              /\ \/ Garbled(e, x) \/ HeaderRead(e, x) \/ PartRead(e, x, parts) \/ MessageRead(e, x, parts)
                 \/ LastPart(e, x, parts) /\ Phase(e) = "auth" /\ Head(parts) # "Identity" /\ CloseEnd(e, "auth")
  <1> DEFINE x == Head(wire[e])
             parts == Append(endpoint[e].parts, x.msg)
  <1>0. /\ Reading(e) /\ x \in CipherFrame /\ endpoint[e] \in EndpointRecord
        /\ Phase(e) \in {"auth", "open"} /\ job[e]["reader"] = NoJob /\ "reader" \in Thread
        /\ taken' = taken
    <2>1. Reading(e) /\ taken' = taken
      BY DEF ReadFrame
    <2>2. x = wire[e][1] /\ 1 \in 1..Len(wire[e])
      BY <2>1, ReadingCipher
    <2> QED BY <2>1, <2>2, ReadingCipher DEF Thread
  <1>1. /\ x.msg \in Message /\ x.nonce \in Nat /\ endpoint[e].parts \in Seq(Message) /\ endpoint[e].rx \in Nat
        /\ PartsOf[x.msg] \in Nat /\ endpoint[e].want \in Nat
    BY <1>0, WireAssumption DEF CipherFrame, EndpointRecord, Message
  <1>2. parts \in Seq(Message) /\ Head(parts) \in Message
    BY <1>1, AppendProperties, HeadTailProperties
  <1>3. \/ Garbled(e, x)
        \/ /\ x.kind = "header" /\ x.nonce = endpoint[e].rx /\ endpoint[e].want = 0
           /\ endpoint' = [endpoint EXCEPT ![e].want = PartsOf[x.msg], ![e].rx = @ + 1]
           /\ wire' = [wire EXCEPT ![e] = Tail(@)] /\ UNCHANGED <<job, delivered>>
        \/ /\ x.kind # "garbage" /\ x.nonce = endpoint[e].rx /\ endpoint[e].want > 0
           /\ ~Complete(endpoint[e].want, parts)
           /\ endpoint' = [endpoint EXCEPT ![e].parts = parts, ![e].rx = @ + 1]
           /\ wire' = [wire EXCEPT ![e] = Tail(@)] /\ UNCHANGED <<job, delivered>>
        \/ LastPart(e, x, parts) /\ Received(e, Head(parts))
    BY <1>0 DEF ReadFrame, Garbled, LastPart
  <1> HIDE DEF x, parts
  <1>4. JobNow(job, job, e, "reader", NoJob)
    BY <1>0 DEF JobNow, WireInv, WireType
  <1>a. CASE Garbled(e, x)
    <2>1. delivered' \in [End -> Seq(Seq(Message))]
      BY <1>a DEF Garbled, WireInv, WireType
    <2>2. WireInv'
      BY <1>0, <1>a, <2>1, CloseEndDoes DEF Garbled
    <2> QED BY <1>0, <1>2, <1>a, <2>2 DEF x, parts
  <1>b. CASE /\ x.kind = "header" /\ x.nonce = endpoint[e].rx /\ endpoint[e].want = 0
             /\ endpoint' = [endpoint EXCEPT ![e].want = PartsOf[x.msg], ![e].rx = @ + 1]
             /\ wire' = [wire EXCEPT ![e] = Tail(@)] /\ UNCHANGED <<job, delivered>>
    <2>1. PICK n \in Nat, k \in Nat : n = PartsOf[x.msg] /\ k = endpoint[e].rx + 1
      BY <1>1
    <2>2. PICK s : s = [endpoint[e] EXCEPT !.want = n, !.rx = k]
      OBVIOUS
    <2>3. /\ s \in EndpointRecord /\ s.phase = endpoint[e].phase /\ s.step = endpoint[e].step
          /\ s.socket = endpoint[e].socket
      BY <1>0, <2>2 DEF EndpointRecord
    <2>4. endpoint' = [endpoint EXCEPT ![e] = s] /\ wire' = [wire EXCEPT ![e] = Tail(wire[e])]
      BY <1>b, <2>1, <2>2 DEF WireInv, WireType
    <2>5. delivered' \in [End -> Seq(Seq(Message))] /\ JobNow(job, job', e, "reader", NoJob) /\ s.phase \in {"auth", "open"}
      BY <1>0, <1>4, <1>b, <2>3 DEF WireInv, WireType, Phase
    <2>6. WireInv' /\ EndNow(e, s) /\ wire'[e] = Tail(wire[e]) /\ wire'[Other(e)] = wire[Other(e)]
      <3>1. NoJob.pc \notin {"encrypt", "write"}
        BY NoJobIs
      <3> QED BY <1>0, <2>3, <2>4, <2>5, <3>1, NoJobIs, TakesFrame
    <2>7. HeaderRead(e, x)
      BY <1>0, <1>b, <2>1, <2>2, <2>6 DEF HeaderRead
    <2> QED BY <1>0, <1>2, <2>6, <2>7 DEF x, parts
  <1>c. CASE /\ x.kind # "garbage" /\ x.nonce = endpoint[e].rx /\ endpoint[e].want > 0
             /\ ~Complete(endpoint[e].want, parts)
             /\ endpoint' = [endpoint EXCEPT ![e].parts = parts, ![e].rx = @ + 1]
             /\ wire' = [wire EXCEPT ![e] = Tail(@)] /\ UNCHANGED <<job, delivered>>
    <2>1. PICK k \in Nat : k = endpoint[e].rx + 1
      BY <1>1
    <2>2. PICK s : s = [endpoint[e] EXCEPT !.parts = parts, !.rx = k]
      OBVIOUS
    <2>3. /\ s \in EndpointRecord /\ s.phase = endpoint[e].phase /\ s.step = endpoint[e].step
          /\ s.socket = endpoint[e].socket
      BY <1>0, <1>2, <2>2 DEF EndpointRecord
    <2>4. endpoint' = [endpoint EXCEPT ![e] = s] /\ wire' = [wire EXCEPT ![e] = Tail(wire[e])]
      BY <1>c, <2>1, <2>2 DEF WireInv, WireType
    <2>5. delivered' \in [End -> Seq(Seq(Message))] /\ JobNow(job, job', e, "reader", NoJob) /\ s.phase \in {"auth", "open"}
      BY <1>0, <1>4, <1>c, <2>3 DEF WireInv, WireType, Phase
    <2>6. WireInv' /\ EndNow(e, s) /\ wire'[e] = Tail(wire[e]) /\ wire'[Other(e)] = wire[Other(e)]
      <3>1. NoJob.pc \notin {"encrypt", "write"}
        BY NoJobIs
      <3> QED BY <1>0, <2>3, <2>4, <2>5, <3>1, NoJobIs, TakesFrame
    <2>7. PartRead(e, x, parts)
      BY <1>0, <1>c, <2>1, <2>2, <2>6 DEF PartRead
    <2> QED BY <1>0, <1>2, <2>6, <2>7 DEF x, parts
  <1>d. CASE LastPart(e, x, parts) /\ Received(e, Head(parts))
    <2>1. delivered' \in [End -> Seq(Seq(Message))]
      BY <1>2, <1>d, AppendProperties DEF LastPart, WireInv, WireType
    <2>2. CASE Phase(e) = "auth" /\ Head(parts) # "Identity"
      <3>1. CloseEnd(e, "auth")
        BY <1>d, <2>2 DEF Received
      <3>2. WireInv'
        BY <1>0, <2>1, <3>1, CloseEndDoes
      <3> QED BY <1>0, <1>2, <1>d, <2>2, <3>1, <3>2 DEF x, parts
    <2>3. CASE ~(Phase(e) = "auth" /\ Head(parts) # "Identity")
      <3>1. PICK j : j = IF Phase(e) = "auth" THEN Sending("Hello") ELSE Answer(Head(parts))
        OBVIOUS
      <3>2. j \in Job /\ j.pc \notin {"encrypt", "write"}
        BY <3>1, SendingIs, NamedMessages, AnswerIs
      <3>3. JobNow(job, job', e, "reader", j)
        BY <1>0, <1>d, <2>3, <3>1, JobSet DEF Received, WireInv, WireType
      <3>4. PICK k \in Nat, z \in Nat, p \in Seq(Message) : k = endpoint[e].rx + 1 /\ z = 0 /\ p = <<>>
        <4>1. <<>> \in Seq(Message) /\ 0 \in Nat /\ endpoint[e].rx + 1 \in Nat
          BY <1>1
        <4> QED BY <4>1
      <3>5. PICK s : s = [endpoint[e] EXCEPT !.phase = "open", !.rx = k, !.want = z, !.parts = p]
        OBVIOUS
      <3>6. /\ s \in EndpointRecord /\ s.phase = "open" /\ s.step = endpoint[e].step
            /\ s.socket = endpoint[e].socket
        BY <1>0, <3>5 DEF EndpointRecord
      <3>7. endpoint' = [endpoint EXCEPT ![e] = s] /\ wire' = [wire EXCEPT ![e] = Tail(wire[e])]
        BY <1>d, <2>3, <3>4, <3>5 DEF Received, WireInv, WireType
      <3>8. WireInv' /\ EndNow(e, s) /\ wire'[e] = Tail(wire[e]) /\ wire'[Other(e)] = wire[Other(e)]
        BY <1>0, <2>1, <3>2, <3>3, <3>6, <3>7, TakesFrame
      <3>9. MessageRead(e, x, parts)
        BY <1>d, <2>3, <3>1, <3>3, <3>4, <3>5, <3>8 DEF MessageRead
      <3> QED BY <1>0, <1>2, <3>8, <3>9 DEF x, parts
    <2> QED BY <2>2, <2>3
  <1> QED BY <1>3, <1>a, <1>b, <1>c, <1>d

LEMMA ReadFailsDoes ==
    ASSUME WireInv, NEW e \in End, ReadFails(e)
    PROVE  /\ CloseEnd(e, "idle") /\ Phase(e) # "closed"
           /\ UNCHANGED <<taken, delivered>>
           /\ WireInv'
  <1>1. delivered' \in [End -> Seq(Seq(Message))] /\ taken' = taken
    BY DEF ReadFails, WireInv, WireType
  <1> QED BY <1>1, CloseEndDoes DEF ReadFails

LEMMA AnnounceDoes ==
    ASSUME WireInv, NEW e \in End, AnnounceTo(e)
    PROVE  /\ EndNow(e, [endpoint[e] EXCEPT !.announced = endpoint[e].announced + 1])
           /\ JobNow(job, job', e, "announcer", Sending("Inv"))
           /\ UNCHANGED <<wire, taken, delivered>>
           /\ Phase(e) = "open" /\ endpoint[e].socket # "announcer" /\ endpoint[e] \in EndpointRecord
           /\ WireInv'
  <1>0. /\ Phase(e) = "open" /\ endpoint[e].step = 6 /\ endpoint[e] \in EndpointRecord
        /\ "announcer" \in Thread /\ endpoint[e].socket # "announcer" /\ Other(e) \in End /\ Other(e) # e
    BY OtherEnd DEF AnnounceTo, IsRegistered, Idle, WireInv, WireType, PhaseFollowsStep, SocketHeldByWriter,
       Writing, Thread
  <1>a. PICK n \in Nat : n = endpoint[e].announced + 1
    BY <1>0 DEF EndpointRecord
  <1>b. PICK s : s = [endpoint[e] EXCEPT !.announced = n]
    OBVIOUS
  <1>c. s \in EndpointRecord /\ s.socket = endpoint[e].socket /\ s.step = 6 /\ s.phase = "open"
    BY <1>0, <1>b DEF EndpointRecord, Phase
  <1>1. EndNow(e, s) /\ endpoint' \in [End -> EndpointRecord]
    <2>1. endpoint' = [endpoint EXCEPT ![e] = s]
      BY <1>a, <1>b DEF AnnounceTo
    <2> QED BY <1>c, <2>1, TypeNow
  <1>2. JobNow(job, job', e, "announcer", Sending("Inv")) /\ Sending("Inv") \in Job /\ Sending("Inv").pc = "lock"
    BY <1>0, JobSet, SendingIs, NamedMessages DEF AnnounceTo, WireInv, WireType
  <1>5. WireType'
    BY <1>1, <1>2 DEF AnnounceTo, WireInv, WireType, JobNow
  <1>6. StepOf(e)
    <2>1. /\ job'[Other(e)] = job[Other(e)] /\ ~Writing(e, "announcer")'
          /\ \A u \in Thread : u # "announcer" => job'[e][u] = job[e][u]
      BY <1>0, <1>2 DEF JobNow, Writing
    <2>2. ASSUME NEW u \in Thread
          PROVE  (Writing(e, u)' <=> s.socket = u) /\ (Writing(e, u)' => job'[e][u].left > 0)
      <3>1. CASE u = "announcer"
        BY <1>0, <1>c, <2>1, <3>1
      <3>2. CASE u # "announcer"
        BY <1>c, <2>1, <3>2 DEF Writing, WireInv, SocketHeldByWriter
      <3> QED BY <3>1, <3>2
    <2> QED BY <1>0, <1>1, <1>c, <1>5, <2>1, <2>2 DEF StepOf, Phase, EndNow
  <1>7. HandshakeInStep'
    BY <1>0, <1>1, <1>c, <1>5, HandshakeKept DEF AnnounceTo, EndNow, Phase
  <1>8. WireInv'
    BY <1>6, <1>7, StepKeeps
  <1> QED BY <1>0, <1>a, <1>b, <1>1, <1>2, <1>8 DEF AnnounceTo

-----------------------------------------------------------------------------
(***************************************************************************)
(* The handshake.  When it is the turn of an end to send, the other one is *)
(* at the same step; when it reads, the other one is a step ahead.         *)
(***************************************************************************)
LEMMA AfterStepDoes ==
    ASSUME WireInv, NEW e \in End, Phase(e) = "handshake", AfterStep(e),
           wire' \in [End -> Seq(RawFrame \cup CipherFrame)], UNCHANGED <<taken, delivered>>
    PROVE  LET last == endpoint[e].step = 5
           IN /\ EndNow(e, [endpoint[e] EXCEPT !.step = endpoint[e].step + 1, !.phase = IF last THEN "auth" ELSE "handshake"])
              /\ JobNow(job, job', e, "reader", IF last THEN Sending("Identity") ELSE NoJob)
              /\ endpoint[e] \in EndpointRecord /\ endpoint[e].socket = "free"
              /\ job[e]["reader"] = NoJob /\ job[e]["announcer"] = NoJob
              /\ endpoint[e].step \in 1..5 /\ endpoint'[e].step = endpoint[e].step + 1
              /\ Phase(e)' \in {"handshake", "auth"}
              /\ StepOf(e)
  <1> DEFINE last == endpoint[e].step = 5
  <1>0. /\ endpoint[e] \in EndpointRecord /\ endpoint[e].step \in 1..5 /\ endpoint[e].phase = "handshake"
        /\ "reader" \in Thread /\ \A t \in Thread : job[e][t] = NoJob /\ ~Writing(e, t)
        /\ Other(e) \in End /\ Other(e) # e /\ "free" \notin Thread
    <2>1. endpoint[e] \in EndpointRecord /\ endpoint[e].step < 6 /\ \A t \in Thread : job[e][t] = NoJob
      BY DEF WireInv, WireType, PhaseFollowsStep
    <2>2. endpoint[e].step \in 1..5 /\ endpoint[e].phase = "handshake"
      BY <2>1 DEF Phase, EndpointRecord
    <2>3. "reader" \in Thread /\ "free" \notin Thread /\ \A t \in Thread : ~Writing(e, t)
      BY <2>1 DEF Thread, Writing, NoJob
    <2> QED BY <2>1, <2>2, <2>3, OtherEnd
  <1>1. endpoint[e].socket = "free"
    BY <1>0 DEF WireInv, SocketHeldByWriter, EndpointRecord
  <1>a. PICK k \in 1..6 : k = endpoint[e].step + 1
    BY <1>0
  <1>b. PICK s : s = [endpoint[e] EXCEPT !.step = k, !.phase = IF last THEN "auth" ELSE "handshake"]
    OBVIOUS
  <1>c. /\ s \in EndpointRecord /\ s.socket = "free" /\ s.step = k
        /\ s.phase = IF last THEN "auth" ELSE "handshake"
    BY <1>0, <1>1, <1>b DEF EndpointRecord
  <1>2. EndNow(e, s) /\ endpoint' \in [End -> EndpointRecord]
    <2>1. endpoint' = [endpoint EXCEPT ![e] = s]
      BY <1>0, <1>a, <1>b, HandshakeAlternates DEF AfterStep, WireInv, WireType
    <2> QED BY <1>c, <2>1, TypeNow
  <1>d. PICK j : j = IF last THEN Sending("Identity") ELSE NoJob
    OBVIOUS
  <1>3. j \in Job /\ j.pc \notin {"encrypt", "write"}
    BY <1>d, SendingIs, NamedMessages, NoJobIs
  <1>4. JobNow(job, job', e, "reader", j)
    <2>1. job' = [job EXCEPT ![e]["reader"] = j]
      BY <1>0, <1>d, HandshakeAlternates DEF AfterStep, WireInv, WireType
    <2> QED BY <1>0, <2>1, JobSet DEF WireInv, WireType
  <1>5. WireType'
    BY <1>2, <1>3, <1>4 DEF WireInv, WireType, JobNow
  <1>6. StepOf(e)
    <2>1. /\ job'[Other(e)] = job[Other(e)] /\ job'[e]["reader"] = j
          /\ \A u \in Thread : u # "reader" => job'[e][u] = NoJob
      BY <1>0, <1>4 DEF JobNow
    <2>2. \A u \in Thread : ~Writing(e, u)'
      BY <1>3, <2>1 DEF Writing, NoJob
    <2>3. ~last => \A u \in Thread : job'[e][u] = NoJob
      BY <1>d, <2>1
    <2> QED BY <1>0, <1>a, <1>c, <1>2, <1>5, <2>1, <2>2, <2>3 DEF StepOf, Phase, EndNow
  <1>7. Phase(e)' \in {"handshake", "auth"} /\ endpoint'[e].step = endpoint[e].step + 1
    BY <1>a, <1>c, <1>2 DEF EndNow, Phase
  <1> QED BY <1>0, <1>1, <1>a, <1>b, <1>d, <1>2, <1>4, <1>6, <1>7 DEF Thread

LEMMA SendRawDoes ==
    ASSUME WireInv, NEW e \in End, SendRaw(e)
    PROVE  /\ Phase(e) = "handshake" /\ AfterStep(e) /\ UNCHANGED <<taken, delivered>>
           /\ wire'[e] = wire[e]
           /\ Phase(Other(e)) # "closed" => wire[Other(e)] = <<>>
           /\ endpoint[Other(e)].step = endpoint[e].step
           /\ wire'[Other(e)] = Append(wire[Other(e)], [kind |-> "raw", nonce |-> endpoint[e].step])
           /\ wire' \in [End -> Seq(RawFrame \cup CipherFrame)]
           /\ WireInv'
  <1> DEFINE f == Other(e)
             x == [kind |-> "raw", nonce |-> endpoint[e].step]
  <1>0. e \in End /\ f \in End /\ Other(e) = f /\ Other(f) = e /\ End = {e, f} /\ e # f
    BY OtherEnd
  <1>1. /\ Phase(e) = "handshake" /\ Handshake[endpoint[e].step] = e /\ AfterStep(e)
        /\ wire' = [wire EXCEPT ![f] = Append(wire[f], x)] /\ UNCHANGED <<taken, delivered>>
    BY <1>0 DEF SendRaw, WireInv, WireType
  <1> HIDE DEF f
  <1>2. /\ endpoint[e].step \in 1..5 /\ endpoint[f].step \in 1..6
        /\ wire[e] \in Seq(RawFrame \cup CipherFrame) /\ wire[f] \in Seq(RawFrame \cup CipherFrame)
    BY <1>0, <1>1 DEF WireInv, WireType, EndpointRecord, PhaseFollowsStep
  <1>3. x \in RawFrame /\ IsRaw(x)
    BY <1>2 DEF RawFrame, IsRaw
  <1> HIDE DEF x
  <1>4. /\ wire'[e] = wire[e] /\ wire'[f] = Append(wire[f], x)
        /\ wire' \in [End -> Seq(RawFrame \cup CipherFrame)]
    BY <1>0, <1>1, <1>2, <1>3, AppendProperties DEF WireInv, WireType
  <1>5. /\ StepOf(e) /\ endpoint'[e].step = endpoint[e].step + 1 /\ Phase(e)' \in {"handshake", "auth"}
        /\ endpoint'[f] = endpoint[f]
    BY <1>0, <1>1, <1>4, AfterStepDoes DEF StepOf
  <1>6. /\ InStep(e, f) /\ InStep(f, e) /\ RawFirst(e, f)
        /\ Phase(f) # "closed" => RawFirst(f, e)
    BY <1>0, <1>1 DEF WireInv, HandshakeInStep
  <1>7. endpoint[f].step = endpoint[e].step
    <2>1. endpoint[e].step # endpoint[f].step + 1
      <3> SUFFICES ASSUME endpoint[e].step = endpoint[f].step + 1 PROVE FALSE
        OBVIOUS
      <3>1. Handshake[endpoint[f].step] = e /\ endpoint[f].step \in 1..4
        BY <1>2, <1>6 DEF InStep
      <3>2. Handshake[endpoint[f].step + 1] = Other(Handshake[endpoint[f].step])
        BY <3>1, HandshakeAlternates
      <3> QED BY <1>0, <1>1, <3>1, <3>2
    <2>2. endpoint[f].step # endpoint[e].step + 1
      BY <1>0, <1>1, <1>6 DEF InStep
    <2> QED BY <1>2, <1>6, <2>1, <2>2 DEF InStep
  <1>8. Phase(f) # "closed" => wire[f] = <<>>
    <2> SUFFICES ASSUME Phase(f) # "closed", wire[f] # <<>> PROVE FALSE
      OBVIOUS
    <2>1. 1 \in 1..Len(wire[f])
      BY <1>2
    <2> QED BY <1>2, <1>6, <1>7, <2>1 DEF RawFirst
  <1>9. InStep(e, f)' /\ InStep(f, e)'
    BY <1>1, <1>2, <1>5, <1>7 DEF InStep
  <1>10. RawFirst(e, f)'
    <2>1. wire'[e] = wire[e] /\ endpoint'[f].step = endpoint[e].step
      BY <1>4, <1>5, <1>7
    <2>2. /\ endpoint'[f].step <= endpoint'[e].step /\ endpoint'[f].step # endpoint'[e].step + 1
          /\ endpoint[f].step <= endpoint[e].step
      BY <1>2, <1>5, <1>7, <2>1
    <2>3. \A i \in 1..Len(wire[e]) : ~IsRaw(wire[e][i]) /\ (~IsRaw(wire[e][i]) => endpoint[f].step = 6)
      BY <1>6, <2>2 DEF RawFirst
    <2>4. \A i \in 1..Len(wire'[e]) : ~IsRaw(wire'[e][i]) /\ endpoint'[f].step = 6
      BY <1>5, <2>1, <2>3
    <2> QED BY <2>2, <2>4 DEF RawFirst, IsRaw
  <1>11. Phase(f)' # "closed" => RawFirst(f, e)'
    <2> SUFFICES ASSUME Phase(f)' # "closed" PROVE RawFirst(f, e)'
      OBVIOUS
    <2>1. wire[f] = <<>>
      BY <1>5, <1>8 DEF Phase
    <2>3. Len(wire'[f]) = Len(wire[f]) + 1 /\ wire'[f][Len(wire[f]) + 1] = x
      BY <1>2, <1>3, <1>4, AppendProperties
    <2>4. Len(wire[f]) = 0
      BY <2>1
    <2>2. Len(wire'[f]) = 1 /\ wire'[f][1] = x /\ wire'[f] # <<>>
      BY <2>3, <2>4
    <2> QED BY <1>2, <1>3, <1>5, <1>7, <2>2 DEF RawFirst
  <1>12. HandshakeInStep'
    BY <1>0, <1>9, <1>10, <1>11 DEF HandshakeInStep
  <1>13. WireInv'
    BY <1>5, <1>12, StepKeeps
  <1> QED BY <1>0, <1>1, <1>4, <1>7, <1>8, <1>13 DEF x

LEMMA ReadRawDoes ==
    ASSUME WireInv, NEW e \in End, ReadRaw(e)
    PROVE  /\ Phase(e) = "handshake" /\ AfterStep(e) /\ UNCHANGED <<taken, delivered>>
           /\ endpoint[Other(e)].step = endpoint[e].step + 1
           /\ wire'[e] = Tail(wire[e]) /\ wire[e] # <<>> /\ wire'[Other(e)] = wire[Other(e)]
           /\ Phase(Other(e)) # "closed" => wire[Other(e)] = <<>>
           /\ wire' \in [End -> Seq(RawFrame \cup CipherFrame)]
           /\ WireInv'
  <1> DEFINE f == Other(e)
  <1>0. e \in End /\ f \in End /\ Other(e) = f /\ Other(f) = e /\ End = {e, f} /\ e # f
    BY OtherEnd
  <1> HIDE DEF f
  <1>1. /\ Phase(e) = "handshake" /\ Handshake[endpoint[e].step] # e /\ AfterStep(e) /\ wire[e] # <<>>
        /\ wire' = [wire EXCEPT ![e] = Tail(wire[e])] /\ UNCHANGED <<taken, delivered>>
    BY DEF ReadRaw, WireInv, WireType
  <1>2. /\ endpoint[e].step \in 1..5 /\ endpoint[f].step \in 1..6
        /\ wire[e] \in Seq(RawFrame \cup CipherFrame) /\ wire[f] \in Seq(RawFrame \cup CipherFrame)
    BY <1>0, <1>1 DEF WireInv, WireType, EndpointRecord, PhaseFollowsStep
  <1>4. /\ wire'[e] = Tail(wire[e]) /\ wire'[f] = wire[f]
        /\ wire' \in [End -> Seq(RawFrame \cup CipherFrame)]
    BY <1>0, <1>1, <1>2, HeadTailProperties DEF WireInv, WireType
  <1>5. /\ StepOf(e) /\ endpoint'[e].step = endpoint[e].step + 1 /\ Phase(e)' \in {"handshake", "auth"}
        /\ endpoint'[f] = endpoint[f]
    BY <1>0, <1>1, <1>4, AfterStepDoes DEF StepOf
  <1>6. /\ InStep(e, f) /\ InStep(f, e) /\ RawFirst(e, f)
        /\ Phase(f) # "closed" => RawFirst(f, e)
    BY <1>0, <1>1 DEF WireInv, HandshakeInStep
  <1>7. endpoint[f].step = endpoint[e].step + 1
    <2>1. 1 \in 1..Len(wire[e])
      BY <1>1, <1>2
    <2>2. ~(endpoint[f].step <= endpoint[e].step)
      BY <1>2, <1>6, <2>1 DEF RawFirst
    <2> QED BY <1>2, <1>6, <2>2 DEF InStep
  <1>8. Phase(f) # "closed" => wire[f] = <<>>
    <2> SUFFICES ASSUME Phase(f) # "closed", wire[f] # <<>> PROVE FALSE
      OBVIOUS
    <2>1. 1 \in 1..Len(wire[f])
      BY <1>2
    <2> QED BY <1>2, <1>6, <1>7, <2>1 DEF RawFirst
  <1>9. InStep(e, f)' /\ InStep(f, e)'
    BY <1>2, <1>5, <1>7 DEF InStep
  <1>10. RawFirst(e, f)'
    <2>1. /\ Len(wire'[e]) = Len(wire[e]) - 1
          /\ \A i \in 1..Len(wire'[e]) : i + 1 \in 1..Len(wire[e]) /\ wire'[e][i] = wire[e][i + 1] /\ i + 1 > 1
      BY <1>1, <1>2, <1>4, HeadTailProperties
    <2>2. \A i \in 1..Len(wire'[e]) : ~IsRaw(wire'[e][i])
      BY <1>6, <2>1 DEF RawFirst
    <2>3. \A i \in 1..Len(wire'[e]) : endpoint[f].step = 6
      BY <1>6, <2>1, <2>2 DEF RawFirst
    <2>4. endpoint'[f].step # endpoint'[e].step + 1
      BY <1>2, <1>5, <1>7
    <2> QED BY <1>5, <2>2, <2>3, <2>4 DEF RawFirst
  <1>11. Phase(f)' # "closed" => RawFirst(f, e)'
    <2> SUFFICES ASSUME Phase(f)' # "closed" PROVE RawFirst(f, e)'
      OBVIOUS
    <2>1. wire'[f] = <<>> /\ Len(wire'[f]) = 0
      BY <1>4, <1>5, <1>8 DEF Phase
    <2> QED BY <1>2, <1>5, <1>7, <2>1 DEF RawFirst
  <1>12. HandshakeInStep'
    BY <1>0, <1>9, <1>10, <1>11 DEF HandshakeInStep
  <1>13. WireInv'
    BY <1>5, <1>12, StepKeeps
  <1> QED BY <1>0, <1>1, <1>4, <1>7, <1>8, <1>13

LEMMA WireInvKept == WireInv /\ [WireNext]_wireVars => WireInv'
  <1> SUFFICES ASSUME WireInv, [WireNext]_wireVars PROVE WireInv'
    OBVIOUS
  <1>1. CASE UNCHANGED wireVars
    BY <1>1 DEF wireVars, WireInv, WireType, SocketHeldByWriter, Writing, PhaseFollowsStep, HandshakeInStep,
       InStep, RawFirst, Phase
  <1> QED BY <1>1, SendRawDoes, ReadRawDoes, ReadFrameDoes, ReadFailsDoes, AnnounceDoes, LockSocketDoes,
             EncryptDoes, WriteFrameDoes, WriteFailsDoes DEF WireNext

-----------------------------------------------------------------------------
(***************************************************************************)
(* If the reader of an end is idle and still does not read, nothing is on  *)
(* its way to it; the other end then has room to write, so that none of    *)
(* its threads is busy.                                                    *)
(***************************************************************************)
LEMMA OtherEndIdle ==
    ASSUME WireInv, Stuck, NEW e \in End, Idle(e, "reader")
    PROVE  \A t \in Thread : Idle(Other(e), t)
  <1>1. wire[e] = <<>>
    BY DEF Stuck, Reading, CipherFree
  <1>2. SocketHasRoom(Other(e))
    BY <1>1, OtherEnd, WireAssumption DEF SocketHasRoom
  <1>3. \A t \in Thread : job[Other(e)][t].pc \in {"idle", "lock"}
    <2>1. \A t \in Thread : job[Other(e)][t].pc \in {"idle", "lock", "encrypt", "write"}
      BY OtherEnd DEF WireInv, WireType, Job, Busy, BusyPc, NoJob
    <2> QED BY <1>2, <2>1, OtherEnd DEF Stuck, CanMove
  <1>4. SocketFree(Other(e))
    <2>1. endpoint[Other(e)].socket \in Thread \cup {"free"}
      BY OtherEnd DEF WireInv, WireType, EndpointRecord
    <2> QED BY <1>3, <2>1, OtherEnd DEF WireInv, SocketHeldByWriter, Writing, SocketFree
  <1> QED BY <1>3, <1>4, OtherEnd DEF Stuck, CanMove, Idle

(***************************************************************************)
(* Over every behaviour of a connection, threads of both ends wait for     *)
(* each other only when both readers are sending (`noise_write`).          *)
(***************************************************************************)
THEOREM ReadersNeverBlocked == WireSpec => []StuckOnlyWhenBothAnswer
  <1>1. WireInv => StuckOnlyWhenBothAnswer
    <2> SUFFICES ASSUME WireInv, Stuck, NEW e \in End, Idle(e, "reader") PROVE FALSE
      BY DEF StuckOnlyWhenBothAnswer
    <2>1. \A t \in Thread : Idle(Other(e), t)
      BY OtherEndIdle
    <2>2. \A t \in Thread : Idle(e, t)
      BY <2>1, OtherEnd, OtherEndIdle DEF Thread
    <2> QED BY <2>1, <2>2, OtherEnd DEF Stuck
  <1> QED BY WireInitInv, WireInvKept, <1>1, PTL DEF WireSpec
-----------------------------------------------------------------------------
(***************************************************************************)
(* The stream from one end to the other.  Its first H frames are the       *)
(* frames of the messages `sent`, one message after the other: frame n     *)
(* belongs to message m[n] and is its header if p[n] = 0, its p[n]-th part *)
(* otherwise.                                                              *)
(***************************************************************************)
Schedule(sent, H, m, p) ==
    /\ H \in Nat /\ m \in [0..H -> Nat] /\ p \in [0..H -> Nat]
    /\ m[0] = 1 /\ p[0] = 0
    /\ \A n \in 0 .. H - 1 :
          /\ m[n] \in 1..Len(sent)
          /\ p[n] < PartsOf[sent[m[n]]] => m[n + 1] = m[n] /\ p[n + 1] = p[n] + 1
          /\ ~(p[n] < PartsOf[sent[m[n]]]) => m[n + 1] = m[n] + 1 /\ p[n + 1] = 0

(***************************************************************************)
(* A reader with state s that has read the messages d.                     *)
(***************************************************************************)
ReaderAt(s, d, sent, H, m, p) ==
    /\ s.rx <= H
    /\ m[s.rx] = Len(d) + 1
    /\ s.want = 0 => p[s.rx] = 0 /\ s.parts = <<>>
    /\ s.want > 0 => /\ p[s.rx] = Len(s.parts) + 1 /\ m[s.rx] \in 1..Len(sent)
                     /\ s.want = PartsOf[sent[m[s.rx]]] /\ Len(s.parts) < s.want
                     /\ \A i \in 1..Len(s.parts) : s.parts[i] = sent[m[s.rx]]

(***************************************************************************)
(* Frame x at place n of the stream.  After the first H come only frames   *)
(* that cannot be decrypted, and only if a write has failed.               *)
(***************************************************************************)
FrameAt(x, n, torn, sent, H, m, p) ==
    /\ n < H => /\ x.kind = (IF p[n] = 0 THEN "header" ELSE "part")
                /\ x.nonce = n /\ x.msg = sent[m[n]]
    /\ n >= H => torn /\ (x.kind = "garbage" \/ x.nonce > H)

(***************************************************************************)
(* The frames w under way, of which u belong to the handshake, to a reader *)
(* that has read rx.                                                       *)
(***************************************************************************)
FramesAt(w, u, rx, torn, sent, H, m, p) ==
    /\ \A i \in 1..Len(w) : i > u => FrameAt(w[i], rx + i - u - 1, torn, sent, H, m, p)
    /\ Len(w) - u >= H - rx /\ Len(w) >= u

(***************************************************************************)
(* A writer with state z whose threads have the jobs j.                    *)
(***************************************************************************)
InWrite(j) == j.pc \in {"encrypt", "write"}

WriterAt(z, j, sent, H, m, p) ==
    /\ ~z.torn =>
          /\ ~z.cut
          /\ z.socket = "free" => z.tx = H /\ m[H] = Len(sent) + 1 /\ p[H] = 0
          /\ \A t \in Thread : InWrite(j[t]) =>
                /\ Len(sent) > 0 /\ j[t].msg = sent[Len(sent)]
                /\ m[H] = Len(sent) /\ p[H] + j[t].left = PartsOf[j[t].msg] + 1
                /\ j[t].pc = "encrypt" => z.tx = H
                /\ j[t].pc = "write" => z.tx = H + 1 /\ j[t].nonce = H
    /\ z.torn => z.tx > H /\ \A t \in Thread : j[t].pc = "write" => j[t].nonce > H

StreamAt(s, d, w, u, z, j, sent, H, m, p) ==
    /\ Schedule(sent, H, m, p)
    /\ s.phase # "closed" => ReaderAt(s, d, sent, H, m, p) /\ FramesAt(w, u, s.rx, z.torn, sent, H, m, p)
    /\ z.phase # "closed" => WriterAt(z, j, sent, H, m, p)

Stream(s, d, w, u, z, j, sent) == \E H, m, p : StreamAt(s, d, w, u, z, j, sent, H, m, p)

(***************************************************************************)
(* What the reader has handed on.                                          *)
(***************************************************************************)
Got(s, d, torn, sent) ==
    /\ \A k \in 1..Len(d) : k <= Len(sent) /\ d[k] = WholeMessage(sent[k])
    /\ s.why # "auth" /\ (s.why = "garbled" => torn)
    /\ s.phase \in {"handshake", "auth"} => d = <<>>

(***************************************************************************)
(* The first message that a writer takes the socket for is its identity.   *)
(***************************************************************************)
IdentityFirst(z, j, sent) ==
    /\ Len(sent) > 0 => sent[1] = "Identity"
    /\ z.phase = "handshake" => sent = <<>>
    /\ z.phase = "open" => Len(sent) > 0
    /\ z.phase = "auth" => j["announcer"] = NoJob
    /\ z.phase = "auth" /\ Len(sent) = 0 => j["reader"].pc = "lock" /\ j["reader"].msg = "Identity"

Unread(e) == IF endpoint[Other(e)].step = endpoint[e].step + 1 THEN 1 ELSE 0

StreamInv ==
    \A e \in End :
        /\ Stream(endpoint[e], delivered[e], wire[e], Unread(e), endpoint[Other(e)], job[Other(e)], taken[Other(e)])
        /\ Got(endpoint[e], delivered[e], endpoint[Other(e)].torn, taken[Other(e)])
        /\ IdentityFirst(endpoint[e], job[e], taken[e])

(***************************************************************************)
(* Steps that the stream does not notice: of its reader, and of its writer.*)
(***************************************************************************)
LEMMA ReaderQuiet ==
    ASSUME NEW s, NEW s2, NEW d, NEW w, NEW u, NEW z, NEW j, NEW sent, Stream(s, d, w, u, z, j, sent),
           s2.phase # "closed" => /\ s.phase # "closed" /\ s2.rx = s.rx /\ s2.want = s.want /\ s2.parts = s.parts
    PROVE  Stream(s2, d, w, u, z, j, sent)
  <1>1. PICK H, m, p : StreamAt(s, d, w, u, z, j, sent, H, m, p)
    BY DEF Stream
  <1>2. StreamAt(s2, d, w, u, z, j, sent, H, m, p)
    BY <1>1 DEF StreamAt, ReaderAt
  <1> QED BY <1>2 DEF Stream

LEMMA ReaderCloses ==
    ASSUME NEW s, NEW s2, NEW d, NEW d2, NEW w, NEW w2, NEW u, NEW u2, NEW z, NEW j, NEW sent,
           Stream(s, d, w, u, z, j, sent), s2.phase = "closed"
    PROVE  Stream(s2, d2, w2, u2, z, j, sent)
  BY DEF Stream, StreamAt

LEMMA WriterQuiet ==
    ASSUME NEW s, NEW d, NEW w, NEW u, NEW z, NEW z2, NEW j, NEW j2, NEW sent, Stream(s, d, w, u, z, j, sent),
           z2.torn = z.torn,
           z2.phase # "closed" => /\ z.phase # "closed" /\ z2.cut = z.cut /\ z2.tx = z.tx /\ z2.socket = z.socket
                                  /\ \A t \in Thread : InWrite(j2[t]) => j2[t] = j[t]
    PROVE  Stream(s, d, w, u, z2, j2, sent)
  <1>1. PICK H, m, p : StreamAt(s, d, w, u, z, j, sent, H, m, p)
    BY DEF Stream
  <1>2. z2.phase # "closed" => WriterAt(z2, j2, sent, H, m, p)
    BY <1>1 DEF StreamAt, WriterAt, InWrite
  <1>3. StreamAt(s, d, w, u, z2, j2, sent, H, m, p)
    BY <1>1, <1>2 DEF StreamAt
  <1> QED BY <1>3 DEF Stream

(***************************************************************************)
(* Steps of the writer.                                                    *)
(***************************************************************************)
SamePlaces(more, sent, H, m) == \A n \in 0 .. H - 1 : more[m[n]] = sent[m[n]]

LEMMA MorePlaces ==
    ASSUME NEW sent \in Seq(Message), NEW x \in Message, NEW H, NEW m, NEW p, Schedule(sent, H, m, p)
    PROVE  Schedule(Append(sent, x), H, m, p) /\ SamePlaces(Append(sent, x), sent, H, m)
  <1>1. /\ Len(Append(sent, x)) = Len(sent) + 1 /\ Len(sent) \in Nat
        /\ \A i \in 1..Len(sent) : Append(sent, x)[i] = sent[i]
    BY AppendProperties
  <1>2. \A n \in 0 .. H - 1 : m[n] \in 1..Len(sent) /\ m[n] \in 1 .. Len(sent) + 1
    BY <1>1 DEF Schedule
  <1>3. SamePlaces(Append(sent, x), sent, H, m)
    BY <1>1, <1>2 DEF SamePlaces
  <1> QED BY <1>1, <1>2, <1>3, SMTT(30) DEF Schedule, SamePlaces

(***************************************************************************)
(* A thread takes the socket and begins to write message x; of the other   *)
(* threads none writes.                                                    *)
(***************************************************************************)
LockTaken(z, z2, t) ==
    /\ z.socket = "free" /\ z.phase # "closed"
    /\ z2.torn = z.torn /\ z2.cut = z.cut /\ z2.tx = z.tx /\ z2.socket = t

Begins(k, x) == InWrite(k) /\ k.pc = "encrypt" /\ k.msg = x /\ k.left = PartsOf[x] + 1

OthersApart(j, j2, t) == \A v \in Thread : v # t => j2[v] = j[v] /\ ~InWrite(j[v])

LEMMA LockStream ==
    ASSUME NEW s \in EndpointRecord, NEW d, NEW w, NEW u, NEW z \in EndpointRecord, NEW j \in [Thread -> Job],
           NEW sent \in Seq(Message), Stream(s, d, w, u, z, j, sent),
           Len(w) \in Nat, u \in 0..1, Len(d) \in Nat,
           NEW t \in Thread, NEW x \in Message, NEW z2 \in EndpointRecord, LockTaken(z, z2, t),
           NEW j2, Begins(j2[t], x), OthersApart(j, j2, t)
    PROVE  Stream(s, d, w, u, z2, j2, Append(sent, x))
  <1> /\ z.socket = "free" /\ z.phase # "closed"
      /\ z2.torn = z.torn /\ z2.cut = z.cut /\ z2.tx = z.tx /\ z2.socket = t
      /\ InWrite(j2[t]) /\ j2[t].pc = "encrypt" /\ j2[t].msg = x /\ j2[t].left = PartsOf[x] + 1
      /\ \A v \in Thread : v # t => j2[v] = j[v] /\ ~InWrite(j[v])
    BY DEF LockTaken, Begins, OthersApart
  <1> DEFINE more == Append(sent, x)
  <1>1. PICK H, m, p : StreamAt(s, d, w, u, z, j, sent, H, m, p)
    BY DEF Stream
  <1>2. /\ Len(more) = Len(sent) + 1 /\ more[Len(more)] = x /\ Len(sent) \in Nat
        /\ \A i \in 1..Len(sent) : more[i] = sent[i]
    BY AppendProperties
  <1>3. /\ Schedule(more, H, m, p) /\ \A n \in 0 .. H - 1 : more[m[n]] = sent[m[n]]
        /\ H \in Nat
    <2>1. Schedule(sent, H, m, p)
      BY <1>1 DEF StreamAt
    <2>2. H \in Nat
      BY <2>1 DEF Schedule
    <2>3. Schedule(more, H, m, p) /\ SamePlaces(more, sent, H, m)
      BY <2>1, MorePlaces
    <2> QED BY <2>2, <2>3 DEF SamePlaces
  <1> HIDE DEF more
  <1>4. s.phase # "closed" => ReaderAt(s, d, more, H, m, p)
    BY <1>1, <1>2, <1>3 DEF StreamAt, ReaderAt
  <1>5. s.phase # "closed" => FramesAt(w, u, s.rx, z2.torn, more, H, m, p)
    <2> SUFFICES ASSUME s.phase # "closed" PROVE FramesAt(w, u, s.rx, z2.torn, more, H, m, p)
      OBVIOUS
    <2>1. FramesAt(w, u, s.rx, z.torn, sent, H, m, p)
      BY <1>1 DEF StreamAt
    <2>2. ASSUME NEW i \in 1..Len(w), i > u PROVE FrameAt(w[i], s.rx + i - u - 1, z2.torn, more, H, m, p)
      <3>0. s.rx \in Nat
        BY DEF EndpointRecord
      <3>1. s.rx + i - u - 1 \in Nat
        BY <2>2, <3>0
      <3>2. FrameAt(w[i], s.rx + i - u - 1, z.torn, sent, H, m, p)
        BY <2>1, <2>2 DEF FramesAt
      <3> QED BY <1>3, <3>1, <3>2 DEF FrameAt
    <2> QED BY <2>1, <2>2 DEF FramesAt
  <1>6. WriterAt(z2, j2, more, H, m, p)
    <2>1. WriterAt(z, j, sent, H, m, p) /\ m[H] \in Nat /\ p[H] \in Nat /\ PartsOf[x] \in Nat /\ z.socket = "free"
      BY <1>1, <1>3, WireAssumption DEF StreamAt, Schedule, Message
    <2>2. \A v \in Thread : InWrite(j2[v]) => v = t
      OBVIOUS
    <2>3. z2.socket # "free"
      BY DEF Thread
    <2>4. \A v \in Thread : j2[v].pc = "write" => FALSE
      BY <2>2 DEF InWrite
    <2>5. z2.torn => z2.tx > H
      BY <2>1 DEF WriterAt
    <2>6. ~z2.torn => ~z2.cut /\ z2.tx = H /\ m[H] = Len(more) /\ p[H] = 0
      BY <1>2, <2>1 DEF WriterAt
    <2>7. p[H] = 0 => p[H] + j2[t].left = PartsOf[j2[t].msg] + 1
      BY <2>1
    <2>8. Len(more) > 0 /\ j2[t].msg = more[Len(more)]
      BY <1>2
    <2> QED BY <2>2, <2>3, <2>4, <2>5, <2>6, <2>7, <2>8 DEF WriterAt
  <1>7. StreamAt(s, d, w, u, z2, j2, more, H, m, p)
    BY <1>3, <1>4, <1>5, <1>6 DEF StreamAt
  <1> QED BY <1>7 DEF Stream, more

LEMMA EncryptStream ==
    ASSUME NEW s, NEW d, NEW w, NEW u, NEW z \in EndpointRecord, NEW j,
           NEW sent, Stream(s, d, w, u, z, j, sent), z.phase # "closed",
           NEW t \in Thread, j[t].pc = "encrypt", z.socket = t,
           NEW z2 \in EndpointRecord, z2.torn = z.torn, z2.cut = z.cut, z2.tx = z.tx + 1, z2.socket = t,
           NEW j2, j2[t].pc = "write", j2[t].msg = j[t].msg, j2[t].left = j[t].left, j2[t].nonce = z.tx,
           \A v \in Thread : v # t => j2[v] = j[v] /\ ~InWrite(j[v])
    PROVE  Stream(s, d, w, u, z2, j2, sent)
  <1>1. PICK H, m, p : StreamAt(s, d, w, u, z, j, sent, H, m, p)
    BY DEF Stream
  <1>2. WriterAt(z, j, sent, H, m, p) /\ H \in Nat /\ z.tx \in Nat /\ InWrite(j[t]) /\ "free" \notin Thread
    BY <1>1 DEF StreamAt, Schedule, EndpointRecord, InWrite, Thread
  <1>3. \A v \in Thread : InWrite(j2[v]) => v = t
    OBVIOUS
  <1>4. \A v \in Thread : j2[v].pc = "write" => v = t
    BY <1>3 DEF InWrite
  <1>5. z2.torn => z2.tx > H /\ j2[t].nonce > H
    BY <1>2 DEF WriterAt
  <1>6. ~z2.torn => /\ ~z2.cut /\ Len(sent) > 0 /\ j2[t].msg = sent[Len(sent)]
                    /\ m[H] = Len(sent) /\ p[H] + j2[t].left = PartsOf[j2[t].msg] + 1
                    /\ z2.tx = H + 1 /\ j2[t].nonce = H
    BY <1>2 DEF WriterAt
  <1>7. WriterAt(z2, j2, sent, H, m, p)
    BY <1>2, <1>3, <1>4, <1>5, <1>6 DEF WriterAt
  <1>8. StreamAt(s, d, w, u, z2, j2, sent, H, m, p)
    BY <1>1, <1>7 DEF StreamAt
  <1> QED BY <1>8 DEF Stream

LEMMA TearStream ==
    ASSUME NEW s, NEW d, NEW w, NEW u, NEW z \in EndpointRecord, NEW j,
           NEW sent, Stream(s, d, w, u, z, j, sent), z.phase # "closed",
           NEW t \in Thread, j[t].pc = "write",
           NEW z2 \in EndpointRecord, z2.torn, z2.tx = z.tx,
           NEW j2, j2[t] = NoJob, \A v \in Thread : v # t => j2[v] = j[v] /\ ~InWrite(j[v])
    PROVE  Stream(s, d, w, u, z2, j2, sent)
  <1>1. PICK H, m, p : StreamAt(s, d, w, u, z, j, sent, H, m, p)
    BY DEF Stream
  <1>2. WriterAt(z, j, sent, H, m, p) /\ H \in Nat /\ z.tx \in Nat /\ InWrite(j[t])
    BY <1>1 DEF StreamAt, Schedule, EndpointRecord, InWrite
  <1>3. \A v \in Thread : j2[v].pc # "write"
    BY DEF InWrite, NoJob
  <1>4. z2.tx > H
    BY <1>2 DEF WriterAt
  <1>5. WriterAt(z2, j2, sent, H, m, p)
    BY <1>3, <1>4 DEF WriterAt
  <1>6. s.phase # "closed" => FramesAt(w, u, s.rx, z2.torn, sent, H, m, p)
    BY <1>1 DEF StreamAt, FramesAt, FrameAt
  <1>8. StreamAt(s, d, w, u, z2, j2, sent, H, m, p)
    BY <1>1, <1>5, <1>6 DEF StreamAt
  <1> QED BY <1>8 DEF Stream

Longer(sent, H, m, p, m2, p2) ==
    /\ Schedule(sent, H + 1, m2, p2)
    /\ \A n \in 0..H : m2[n] = m[n] /\ p2[n] = p[n]
    /\ p[H] < PartsOf[sent[m[H]]] => m2[H + 1] = m[H] /\ p2[H + 1] = p[H] + 1
    /\ ~(p[H] < PartsOf[sent[m[H]]]) => m2[H + 1] = m[H] + 1 /\ p2[H + 1] = 0

LEMMA LongerSchedule ==
    ASSUME NEW sent \in Seq(Message), NEW H, NEW m, NEW p, Schedule(sent, H, m, p), m[H] \in 1..Len(sent)
    PROVE  \E m2, p2 : Longer(sent, H, m, p, m2, p2)
  <1> DEFINE more == p[H] < PartsOf[sent[m[H]]]
  <1>1. H \in Nat /\ m[H] \in Nat /\ p[H] \in Nat
    BY DEF Schedule
  <1>2. PICK a \in Nat, b \in Nat : /\ more => a = m[H] /\ b = p[H] + 1
                                    /\ ~more => a = m[H] + 1 /\ b = 0
    <2>1. CASE more
      BY <1>1, <2>1
    <2>2. CASE ~more
      BY <1>1, <2>2
    <2> QED BY <2>1, <2>2
  <1> DEFINE m2 == [n \in 0 .. H + 1 |-> IF n <= H THEN m[n] ELSE a]
             p2 == [n \in 0 .. H + 1 |-> IF n <= H THEN p[n] ELSE b]
  <1>3. /\ m2 \in [0 .. H + 1 -> Nat] /\ p2 \in [0 .. H + 1 -> Nat]
        /\ \A n \in 0..H : m2[n] = m[n] /\ p2[n] = p[n]
        /\ m2[H + 1] = a /\ p2[H + 1] = b
    BY <1>1 DEF Schedule
  <1> HIDE DEF m2, p2
  <1>4. ASSUME NEW n \in 0..H
        PROVE  /\ m2[n] \in 1..Len(sent)
               /\ p2[n] < PartsOf[sent[m2[n]]] => m2[n + 1] = m2[n] /\ p2[n + 1] = p2[n] + 1
               /\ ~(p2[n] < PartsOf[sent[m2[n]]]) => m2[n + 1] = m2[n] + 1 /\ p2[n + 1] = 0
    <2>1. CASE n = H
      BY <1>2, <1>3, <2>1
    <2>2. CASE n # H
      <3>1. n \in 0 .. H - 1 /\ n + 1 \in 0..H
        BY <1>1, <2>2
      <3> QED BY <1>3, <3>1 DEF Schedule
    <2> QED BY <2>1, <2>2
  <1>5. Schedule(sent, H + 1, m2, p2)
    <2>1. m2[0] = 1 /\ p2[0] = 0 /\ H + 1 \in Nat /\ 0 .. (H + 1) - 1 = 0..H
      BY <1>1, <1>3 DEF Schedule
    <2> QED BY <1>3, <1>4, <2>1 DEF Schedule
  <1>6. Longer(sent, H, m, p, m2, p2)
    BY <1>2, <1>3, <1>5 DEF Longer
  <1> QED BY <1>6

(***************************************************************************)
(* The writer in thread t appends frame x.  `rest` is what is left of its  *)
(* message afterwards.                                                     *)
(***************************************************************************)
FrameOf(x, z, k) ==
    /\ x.nonce = k.nonce /\ x.msg = k.msg
    /\ z.cut => x.kind = "garbage"
    /\ ~z.cut => x.kind = (IF k.left = PartsOf[k.msg] + 1 THEN "header" ELSE "part")

AfterFrame(z, z2, k, k2, t) ==
    /\ z2.torn = z.torn /\ z2.cut = z.cut /\ z2.tx = z.tx
    /\ k.left = 1 => z2.socket = "free" /\ ~InWrite(k2)
    /\ k.left # 1 => /\ z2.socket = t /\ k2.pc = "encrypt" /\ k2.msg = k.msg /\ k2.left = k.left - 1

LongerBy(w, w2, x) == Len(w2) = Len(w) + 1 /\ w2[Len(w) + 1] = x /\ \A i \in 1..Len(w) : w2[i] = w[i]

LEMMA OneForOne == \A a, b, c \in Nat : a + b = c => (a + 1) + (b - 1) = c
  OBVIOUS

LEMMA WriteStream ==
    ASSUME NEW s \in EndpointRecord, NEW d, NEW w, NEW u \in 0..1, NEW z \in EndpointRecord,
           NEW j, NEW sent \in Seq(Message), Stream(s, d, w, u, z, j, sent),
           Len(w) \in Nat, s.phase # "closed", z.phase # "closed",
           NEW t \in Thread, j[t] \in Busy, j[t].pc = "write", j[t].left > 0,
           NEW x, FrameOf(x, z, j[t]),
           NEW w2, LongerBy(w, w2, x),
           NEW z2 \in EndpointRecord, NEW j2, AfterFrame(z, z2, j[t], j2[t], t), OthersApart(j, j2, t)
    PROVE  Stream(s, d, w2, u, z2, j2, sent)
  <1> \A v \in Thread : v # t => j2[v] = j[v] /\ ~InWrite(j[v])
    BY DEF OthersApart
  <1>0. Len(w2) = Len(w) + 1 /\ w2[Len(w) + 1] = x /\ \A i \in 1..Len(w) : w2[i] = w[i]
    BY DEF LongerBy
  <1>1. PICK H, m, p : StreamAt(s, d, w, u, z, j, sent, H, m, p)
    BY DEF Stream
  <1>2. /\ WriterAt(z, j, sent, H, m, p) /\ ReaderAt(s, d, sent, H, m, p) /\ Schedule(sent, H, m, p)
        /\ FramesAt(w, u, s.rx, z.torn, sent, H, m, p)
        /\ H \in Nat /\ z.tx \in Nat /\ InWrite(j[t]) /\ "free" \notin Thread /\ s.rx \in Nat /\ s.rx <= H
    BY <1>1 DEF StreamAt, Schedule, EndpointRecord, InWrite, Thread, ReaderAt
  (*************************************************************************)
  (* Without a failed write, everything under way is within the H frames,  *)
  (* so that the next frame written has number H.                          *)
  (*************************************************************************)
  <1>3. /\ s.rx + Len(w) - u \in Nat /\ s.rx + Len(w) - u >= H
        /\ ~z.torn => s.rx + Len(w) - u = H
    <2>1. Len(w) - u >= H - s.rx /\ Len(w) >= u
      BY <1>2 DEF FramesAt
    <2>2. ASSUME ~z.torn, Len(w) > u PROVE s.rx + Len(w) - u <= H
      <3>1. Len(w) \in 1..Len(w)
        BY <2>2
      <3>2. FrameAt(w[Len(w)], s.rx + Len(w) - u - 1, z.torn, sent, H, m, p)
        BY <1>2, <2>2, <3>1 DEF FramesAt
      <3>3. ~(s.rx + Len(w) - u - 1 >= H)
        BY <2>2, <3>2 DEF FrameAt
      <3> QED BY <1>2, <2>2, <3>3
    <2> QED BY <1>2, <2>1, <2>2
  <1>4. \A v \in Thread : InWrite(j2[v]) => v = t
    OBVIOUS
  <1>5. \A v \in Thread : j2[v].pc # "write"
    BY <1>4 DEF InWrite, AfterFrame
  <1>k. PICK k : k = j[t]
    OBVIOUS
  <1>l. k \in Busy /\ k.left \in Nat /\ k.left > 0 /\ PartsOf[k.msg] \in Nat /\ k.nonce \in Nat
    BY <1>k, WireAssumption DEF Busy, Message
  <1>6. CASE z.torn
    <2>1. x.kind = "garbage" \/ x.nonce > H
      BY <1>2, <1>6 DEF WriterAt, FrameOf
    <2>2. FramesAt(w2, u, s.rx, z.torn, sent, H, m, p)
      <3>1. ASSUME NEW i \in 1..Len(w2), i > u PROVE FrameAt(w2[i], s.rx + i - u - 1, z.torn, sent, H, m, p)
        <4>1. CASE i \in 1..Len(w)
          BY <1>0, <1>2, <3>1, <4>1 DEF FramesAt
        <4>2. CASE i = Len(w) + 1
          <5>1. s.rx + i - u - 1 = s.rx + Len(w) - u /\ w2[i] = x
            BY <1>0, <1>2, <4>2
          <5>2. FrameAt(x, s.rx + Len(w) - u, z.torn, sent, H, m, p)
            BY <1>2, <1>3, <1>6, <2>1 DEF FrameAt
          <5> QED BY <5>1, <5>2
        <4> QED BY <1>0, <3>1, <4>1, <4>2
      <3>2. Len(w2) - u >= H - s.rx /\ Len(w2) >= u
        BY <1>0, <1>2 DEF FramesAt
      <3> QED BY <3>1, <3>2 DEF FramesAt
    <2>3. WriterAt(z2, j2, sent, H, m, p)
      BY <1>2, <1>5, <1>6 DEF WriterAt, AfterFrame
    <2>4. StreamAt(s, d, w2, u, z2, j2, sent, H, m, p)
      BY <1>2, <2>2, <2>3 DEF StreamAt, AfterFrame
    <2> QED BY <2>4 DEF Stream
  <1>7. CASE ~z.torn
    <2>1. /\ ~z.cut /\ Len(sent) > 0 /\ k.msg = sent[Len(sent)] /\ m[H] = Len(sent)
          /\ p[H] + k.left = PartsOf[k.msg] + 1 /\ z.tx = H + 1 /\ k.nonce = H
      BY <1>2, <1>7, <1>k DEF WriterAt
    <2>2. m[H] \in 1..Len(sent) /\ p[H] \in Nat /\ m[H] \in Nat /\ Len(sent) \in Nat
      <3>1. Len(sent) \in Nat
        OBVIOUS
      <3> QED BY <1>2, <2>1, <3>1 DEF Schedule
    <2>0. PICK m2, p2 : Longer(sent, H, m, p, m2, p2)
      BY <1>2, <2>2, LongerSchedule
    <2>3. /\ Schedule(sent, H + 1, m2, p2)
          /\ \A n \in 0..H : m2[n] = m[n] /\ p2[n] = p[n]
          /\ p[H] < PartsOf[sent[m[H]]] => m2[H + 1] = m[H] /\ p2[H + 1] = p[H] + 1
          /\ ~(p[H] < PartsOf[sent[m[H]]]) => m2[H + 1] = m[H] + 1 /\ p2[H + 1] = 0
      BY <2>0 DEF Longer
    <2>a. PICK q \in Nat, l \in Nat, r \in Nat : q = p[H] /\ l = k.left /\ r = PartsOf[k.msg]
      BY <1>l, <2>2
    <2>b. q + l = r + 1 /\ l > 0 /\ sent[m[H]] = k.msg
      BY <1>l, <2>1, <2>a
    <2>c. (q < r <=> l # 1) /\ (q = 0 <=> l = r + 1)
      BY <2>b
    <2>4. p[H] < PartsOf[sent[m[H]]] <=> k.left # 1
      BY <2>a, <2>b, <2>c
    <2>5. ReaderAt(s, d, sent, H + 1, m2, p2)
      <3>1. s.rx \in 0..H /\ s.rx <= H + 1
        BY <1>2
      <3> QED BY <1>2, <2>3, <3>1 DEF ReaderAt
    <2>6. FramesAt(w2, u, s.rx, z.torn, sent, H + 1, m2, p2)
      <3>1. ASSUME NEW i \in 1..Len(w2), i > u
            PROVE  FrameAt(w2[i], s.rx + i - u - 1, z.torn, sent, H + 1, m2, p2)
        <4>1. CASE i \in 1..Len(w)
          <5>1. FrameAt(w[i], s.rx + i - u - 1, z.torn, sent, H, m, p) /\ w2[i] = w[i]
            BY <1>0, <1>2, <3>1, <4>1 DEF FramesAt
          <5>2. s.rx + i - u - 1 \in Nat
            BY <1>2, <3>1, <4>1
          <5>3. s.rx + i - u - 1 < H
            BY <1>2, <1>7, <5>1, <5>2 DEF FrameAt
          <5>4. s.rx + i - u - 1 \in 0..H /\ ~(s.rx + i - u - 1 >= H + 1)
            BY <1>2, <5>2, <5>3
          <5> QED BY <2>3, <5>1, <5>3, <5>4 DEF FrameAt
        <4>2. CASE i = Len(w) + 1
          <5>1. s.rx + i - u - 1 = H /\ w2[i] = x
            BY <1>0, <1>2, <1>3, <1>7, <4>2
          <5>2. x.kind = (IF p2[H] = 0 THEN "header" ELSE "part") /\ x.nonce = H /\ x.msg = sent[m2[H]]
            <6>1. m2[H] = m[H] /\ p2[H] = p[H]
              BY <1>2, <2>3
            <6>2. p[H] = 0 <=> k.left = PartsOf[k.msg] + 1
              BY <2>a, <2>c
            <6> QED BY <1>k, <2>1, <6>1, <6>2 DEF FrameOf
          <5>3. H < H + 1 /\ ~(H >= H + 1)
            BY <1>2
          <5> QED BY <5>1, <5>2, <5>3 DEF FrameAt
        <4> QED BY <1>0, <3>1, <4>1, <4>2
      <3>2. Len(w2) - u >= (H + 1) - s.rx /\ Len(w2) >= u
        BY <1>0, <1>2 DEF FramesAt
      <3>3. PICK G : G = H + 1
        OBVIOUS
      <3> QED BY <3>1, <3>2, <3>3 DEF FramesAt
    <2>7. WriterAt(z2, j2, sent, H + 1, m2, p2)
      <3>1. CASE k.left = 1
        BY <1>2, <1>4, <1>7, <1>k, <2>1, <2>2, <2>3, <2>4, <3>1 DEF WriterAt, AfterFrame
      <3>2. CASE k.left # 1
        <4>0. m2[H + 1] = m[H] /\ p2[H + 1] = p[H] + 1 /\ j2[t].left = k.left - 1 /\ j2[t].msg = k.msg
          BY <1>k, <2>3, <2>4, <3>2 DEF AfterFrame
        <4>1. /\ m2[H + 1] = Len(sent) /\ p2[H + 1] + j2[t].left = PartsOf[j2[t].msg] + 1
          <5>0. p[H] \in Nat /\ k.left \in Nat /\ PartsOf[k.msg] + 1 \in Nat /\ p[H] + k.left = PartsOf[k.msg] + 1
            BY <1>l, <2>1, <2>2
          <5>1. (p[H] + 1) + (k.left - 1) = PartsOf[k.msg] + 1
            BY <5>0, OneForOne
          <5> QED BY <2>1, <4>0, <5>1
        <4> QED BY <1>2, <1>4, <1>5, <1>7, <1>k, <2>1, <3>2, <4>1 DEF WriterAt, AfterFrame
      <3> QED BY <3>1, <3>2
    <2>8. StreamAt(s, d, w2, u, z2, j2, sent, H + 1, m2, p2)
      BY <2>3, <2>5, <2>6, <2>7 DEF StreamAt, AfterFrame
    <2> QED BY <2>8 DEF Stream
  <1> QED BY <1>6, <1>7

(***************************************************************************)
(* Steps of the reader, when the handshake is over.  A frame that can be   *)
(* decrypted is the next of the first H; one that cannot follows a failed  *)
(* write.                                                                  *)
(***************************************************************************)
FrameRead(s, w, w2) ==
    /\ Len(w) \in Nat /\ Len(w) > 0 /\ w[1] \in CipherFrame
    /\ Len(w2) = Len(w) - 1 /\ \A i \in 1..Len(w2) : w2[i] = w[i + 1]

LEMMA ReadsItsFrame ==
    ASSUME NEW s \in EndpointRecord, NEW d, NEW w, NEW w2, NEW z, NEW j, NEW sent, NEW H, NEW m, NEW p,
           StreamAt(s, d, w, 0, z, j, sent, H, m, p), s.phase # "closed", FrameRead(s, w, w2)
    PROVE  /\ H \in Nat /\ s.rx \in Nat /\ s.rx <= H
           /\ w[1].kind # "garbage" /\ w[1].nonce = s.rx =>
                 /\ s.rx \in 0 .. H - 1 /\ w[1].msg = sent[m[s.rx]]
                 /\ FramesAt(w2, 0, s.rx + 1, z.torn, sent, H, m, p)
           /\ w[1].kind = "garbage" \/ w[1].nonce # s.rx \/ (s.want = 0 /\ w[1].kind # "header") => z.torn
  <1>1. H \in Nat /\ s.rx \in Nat /\ s.rx <= H /\ s.want \in Nat
    BY DEF StreamAt, Schedule, ReaderAt, EndpointRecord
  <1>2. FramesAt(w, 0, s.rx, z.torn, sent, H, m, p) /\ ReaderAt(s, d, sent, H, m, p)
    BY DEF StreamAt
  <1>3. FrameAt(w[1], s.rx, z.torn, sent, H, m, p)
    <2>1. 1 \in 1..Len(w) /\ 1 > 0 /\ s.rx + 1 - 0 - 1 = s.rx
      BY <1>1 DEF FrameRead
    <2>2. FrameAt(w[1], s.rx + 1 - 0 - 1, z.torn, sent, H, m, p)
      BY <1>2, <2>1 DEF FramesAt
    <2> QED BY <2>1, <2>2
  <1>4. ASSUME w[1].kind # "garbage", w[1].nonce = s.rx
        PROVE  /\ s.rx \in 0 .. H - 1 /\ w[1].msg = sent[m[s.rx]]
               /\ FramesAt(w2, 0, s.rx + 1, z.torn, sent, H, m, p)
    <2>1. s.rx < H
      BY <1>1, <1>3, <1>4 DEF FrameAt
    <2>2. ASSUME NEW i \in 1..Len(w2), i > 0
          PROVE  FrameAt(w2[i], (s.rx + 1) + i - 0 - 1, z.torn, sent, H, m, p)
      <3>1. i + 1 \in 1..Len(w) /\ i + 1 > 0 /\ s.rx + (i + 1) - 0 - 1 = (s.rx + 1) + i - 0 - 1 /\ w2[i] = w[i + 1]
        BY <1>1, <2>2 DEF FrameRead
      <3>2. FrameAt(w[i + 1], s.rx + (i + 1) - 0 - 1, z.torn, sent, H, m, p)
        BY <1>2, <3>1 DEF FramesAt
      <3> QED BY <3>1, <3>2
    <2>3. Len(w2) - 0 >= H - (s.rx + 1) /\ Len(w2) >= 0
      BY <1>1, <1>2 DEF FrameRead, FramesAt
    <2>4. FramesAt(w2, 0, s.rx + 1, z.torn, sent, H, m, p)
      BY <2>2, <2>3 DEF FramesAt
    <2> QED BY <1>1, <1>3, <2>1, <2>4 DEF FrameAt
  <1>5. ASSUME w[1].kind = "garbage" \/ w[1].nonce # s.rx \/ (s.want = 0 /\ w[1].kind # "header")
        PROVE  z.torn
    <2>1. s.rx < H => w[1].kind = (IF p[s.rx] = 0 THEN "header" ELSE "part") /\ w[1].nonce = s.rx
      BY <1>3 DEF FrameAt
    <2>2. s.want = 0 => p[s.rx] = 0
      BY <1>2 DEF ReaderAt
    <2>3. ~(s.rx < H)
      BY <1>5, <2>1, <2>2
    <2> QED BY <1>1, <1>3, <2>3 DEF FrameAt
  <1> QED BY <1>1, <1>4, <1>5

PlaceIn(sent, m, p, n) ==
    /\ m[n] \in 1..Len(sent) /\ sent[m[n]] \in Message /\ p[n] \in Nat
    /\ PartsOf[sent[m[n]]] \in Nat /\ PartsOf[sent[m[n]]] > 0
    /\ p[n] < PartsOf[sent[m[n]]] => m[n + 1] = m[n] /\ p[n + 1] = p[n] + 1
    /\ ~(p[n] < PartsOf[sent[m[n]]]) => m[n + 1] = m[n] + 1 /\ p[n + 1] = 0

LEMMA NextFrame ==
    ASSUME NEW sent \in Seq(Message), NEW H, NEW m, NEW p, NEW n \in 0 .. H - 1, Schedule(sent, H, m, p)
    PROVE  PlaceIn(sent, m, p, n)
  <1>1. m[n] \in 1..Len(sent) /\ n \in 0..H
    BY DEF Schedule
  <1>2. sent[m[n]] \in Message
    BY <1>1
  <1>3. PartsOf[sent[m[n]]] \in Nat /\ PartsOf[sent[m[n]]] > 0
    BY <1>2, WireAssumption DEF Message
  <1>4. p[n] \in Nat
    BY <1>1 DEF Schedule
  <1> QED BY <1>1, <1>2, <1>3, <1>4 DEF Schedule, PlaceIn

LEMMA HeaderStream ==
    ASSUME NEW s \in EndpointRecord, NEW d, NEW w, NEW w2, NEW z, NEW j, NEW sent \in Seq(Message),
           Stream(s, d, w, 0, z, j, sent), s.phase # "closed", FrameRead(s, w, w2),
           w[1].kind = "header", w[1].nonce = s.rx, s.want = 0,
           NEW s2, s2.want = PartsOf[w[1].msg], s2.rx = s.rx + 1, s2.parts = s.parts
    PROVE  Stream(s2, d, w2, 0, z, j, sent)
  <1>1. PICK H, m, p : StreamAt(s, d, w, 0, z, j, sent, H, m, p)
    BY DEF Stream
  <1>2. Schedule(sent, H, m, p) /\ ReaderAt(s, d, sent, H, m, p)
    BY <1>1 DEF StreamAt
  <1>3. /\ H \in Nat /\ s.rx \in Nat /\ s.rx \in 0 .. H - 1 /\ w[1].msg = sent[m[s.rx]]
        /\ FramesAt(w2, 0, s.rx + 1, z.torn, sent, H, m, p)
    BY <1>1, ReadsItsFrame
  <1>4. /\ m[s.rx] \in 1..Len(sent) /\ PartsOf[sent[m[s.rx]]] \in Nat /\ PartsOf[sent[m[s.rx]]] > 0
        /\ p[s.rx] < PartsOf[sent[m[s.rx]]] => m[s.rx + 1] = m[s.rx] /\ p[s.rx + 1] = p[s.rx] + 1
    <2>1. PlaceIn(sent, m, p, s.rx)
      BY <1>2, <1>3, NextFrame
    <2> QED BY <2>1 DEF PlaceIn
  <1>5. /\ p[s.rx] = 0 /\ s.parts = <<>> /\ m[s.rx] = Len(d) + 1
    BY <1>2 DEF ReaderAt
  <1>6. m[s.rx + 1] = m[s.rx] /\ p[s.rx + 1] = 1 /\ Len(s2.parts) = 0 /\ s2.want = PartsOf[sent[m[s.rx]]]
    BY <1>3, <1>4, <1>5
  <1>7. ReaderAt(s2, d, sent, H, m, p)
    BY <1>3, <1>4, <1>5, <1>6 DEF ReaderAt
  <1>8. StreamAt(s2, d, w2, 0, z, j, sent, H, m, p)
    BY <1>1, <1>3, <1>7 DEF StreamAt
  <1> QED BY <1>8 DEF Stream

LEMMA PartStream ==
    ASSUME NEW s \in EndpointRecord, NEW d, NEW w, NEW w2, NEW z, NEW j, NEW sent \in Seq(Message),
           Stream(s, d, w, 0, z, j, sent), s.phase # "closed", FrameRead(s, w, w2),
           w[1].kind # "garbage", w[1].nonce = s.rx, s.want > 0,
           NEW parts, parts = Append(s.parts, w[1].msg), s.want # Len(parts),
           NEW s2, s2.want = s.want, s2.rx = s.rx + 1, s2.parts = parts
    PROVE  Stream(s2, d, w2, 0, z, j, sent)
  <1>1. PICK H, m, p : StreamAt(s, d, w, 0, z, j, sent, H, m, p)
    BY DEF Stream
  <1>2. Schedule(sent, H, m, p) /\ ReaderAt(s, d, sent, H, m, p)
    BY <1>1 DEF StreamAt
  <1>3. /\ H \in Nat /\ s.rx \in Nat /\ s.rx \in 0 .. H - 1 /\ w[1].msg = sent[m[s.rx]]
        /\ FramesAt(w2, 0, s.rx + 1, z.torn, sent, H, m, p)
    BY <1>1, ReadsItsFrame
  <1>4. /\ m[s.rx] \in 1..Len(sent) /\ p[s.rx] \in Nat /\ sent[m[s.rx]] \in Message
        /\ p[s.rx] < PartsOf[sent[m[s.rx]]] => m[s.rx + 1] = m[s.rx] /\ p[s.rx + 1] = p[s.rx] + 1
    <2>1. PlaceIn(sent, m, p, s.rx)
      BY <1>2, <1>3, NextFrame
    <2> QED BY <2>1 DEF PlaceIn
  <1>5. /\ p[s.rx] = Len(s.parts) + 1 /\ m[s.rx] = Len(d) + 1
        /\ s.want = PartsOf[sent[m[s.rx]]] /\ Len(s.parts) < s.want
        /\ \A i \in 1..Len(s.parts) : s.parts[i] = sent[m[s.rx]]
    BY <1>2 DEF ReaderAt
  <1>6. /\ s.parts \in Seq(Message) /\ s.want \in Nat
    BY DEF EndpointRecord
  <1>7. /\ Len(parts) = Len(s.parts) + 1 /\ Len(s.parts) \in Nat
        /\ \A i \in 1..Len(parts) : parts[i] = sent[m[s.rx]]
    <2>1. /\ Len(parts) = Len(s.parts) + 1 /\ Len(s.parts) \in Nat /\ parts[Len(s.parts) + 1] = sent[m[s.rx]]
          /\ \A i \in 1..Len(s.parts) : parts[i] = s.parts[i]
      <3>1. PICK q \in Seq(Message), y \in Message : q = s.parts /\ y = sent[m[s.rx]]
        BY <1>4, <1>6
      <3>2. parts = Append(q, y)
        BY <1>3, <3>1
      <3> QED BY <3>1, <3>2, AppendProperties
    <2> QED BY <1>5, <2>1
  <1>8. m[s.rx + 1] = m[s.rx] /\ p[s.rx + 1] = Len(parts) + 1 /\ Len(parts) < s.want
    BY <1>4, <1>5, <1>6, <1>7
  <1>9. ReaderAt(s2, d, sent, H, m, p)
    <2>1. s2.rx <= H /\ m[s2.rx] = Len(d) + 1 /\ m[s2.rx] \in 1..Len(sent)
      BY <1>3, <1>4, <1>5, <1>8
    <2>2. s2.want # 0 /\ s2.want = PartsOf[sent[m[s2.rx]]] /\ Len(s2.parts) < s2.want
      BY <1>5, <1>6, <1>8
    <2>3. p[s2.rx] = Len(s2.parts) + 1 /\ \A i \in 1..Len(s2.parts) : s2.parts[i] = sent[m[s2.rx]]
      BY <1>7, <1>8
    <2> QED BY <2>1, <2>2, <2>3 DEF ReaderAt
  <1>10. StreamAt(s2, d, w2, 0, z, j, sent, H, m, p)
    BY <1>1, <1>3, <1>9 DEF StreamAt
  <1> QED BY <1>10 DEF Stream

Copies(r, n, x) == Len(r) = n /\ r = [i \in 1..n |-> x] /\ (\A i \in 1..n : r[i] = x) /\ Head(r) = x

LEMMA OneMore ==
    ASSUME NEW q \in Seq(Message), NEW x \in Message, \A i \in 1..Len(q) : q[i] = x
    PROVE  Copies(Append(q, x), Len(q) + 1, x)
  <1>1. /\ Append(q, x) \in Seq(Message) /\ Len(Append(q, x)) = Len(q) + 1 /\ Len(q) \in Nat
        /\ Append(q, x)[Len(q) + 1] = x /\ \A i \in 1..Len(q) : Append(q, x)[i] = q[i]
    BY AppendProperties
  <1>2. \A i \in 1 .. Len(q) + 1 : Append(q, x)[i] = x
    BY <1>1
  <1>3. Head(Append(q, x)) = Append(q, x)[1]
    BY <1>1, HeadTailProperties
  <1>4. Append(q, x) = [i \in 1..Len(Append(q, x)) |-> Append(q, x)[i]]
    <2>1. PICK r \in Seq(Message) : r = Append(q, x)
      BY <1>1
    <2>2. r = [i \in 1..Len(r) |-> r[i]]
      OBVIOUS
    <2> QED BY <2>1, <2>2
  <1> QED BY <1>1, <1>2, <1>3, <1>4 DEF Copies

Handed(s2, d, parts, w2, z, j, sent) ==
    /\ Stream(s2, Append(d, parts), w2, 0, z, j, sent)
    /\ Len(d) + 1 <= Len(sent)
    /\ parts = WholeMessage(sent[Len(d) + 1]) /\ Head(parts) = sent[Len(d) + 1]

LEMMA LastPartStream ==
    ASSUME NEW s \in EndpointRecord, NEW d \in Seq(Seq(Message)), NEW w, NEW w2, NEW z, NEW j,
           NEW sent \in Seq(Message),
           Stream(s, d, w, 0, z, j, sent), s.phase # "closed", FrameRead(s, w, w2),
           w[1].kind # "garbage", w[1].nonce = s.rx, s.want > 0,
           NEW parts \in Seq(Message), parts = Append(s.parts, w[1].msg), s.want = Len(parts),
           NEW s2, s2.want = 0, s2.rx = s.rx + 1, s2.parts = <<>>
    PROVE  Handed(s2, d, parts, w2, z, j, sent)
  <1>1. PICK H, m, p : StreamAt(s, d, w, 0, z, j, sent, H, m, p)
    BY DEF Stream
  <1>2. Schedule(sent, H, m, p) /\ ReaderAt(s, d, sent, H, m, p)
    BY <1>1 DEF StreamAt
  <1>3. /\ H \in Nat /\ s.rx \in Nat /\ s.rx \in 0 .. H - 1 /\ w[1].msg = sent[m[s.rx]]
        /\ FramesAt(w2, 0, s.rx + 1, z.torn, sent, H, m, p)
    BY <1>1, ReadsItsFrame
  <1>4. /\ m[s.rx] \in 1..Len(sent) /\ p[s.rx] \in Nat /\ sent[m[s.rx]] \in Message
        /\ ~(p[s.rx] < PartsOf[sent[m[s.rx]]]) => m[s.rx + 1] = m[s.rx] + 1 /\ p[s.rx + 1] = 0
    <2>1. PlaceIn(sent, m, p, s.rx)
      BY <1>2, <1>3, NextFrame
    <2> QED BY <2>1 DEF PlaceIn
  <1>5. /\ p[s.rx] = Len(s.parts) + 1 /\ m[s.rx] = Len(d) + 1
        /\ s.want = PartsOf[sent[m[s.rx]]] /\ Len(s.parts) < s.want
        /\ \A i \in 1..Len(s.parts) : s.parts[i] = sent[m[s.rx]]
    BY <1>2 DEF ReaderAt
  <1>6. /\ s.parts \in Seq(Message) /\ s.want \in Nat /\ Len(d) \in Nat
    BY DEF EndpointRecord
  <1>7. Copies(parts, Len(s.parts) + 1, sent[m[s.rx]])
    BY <1>3, <1>4, <1>5, <1>6, OneMore
  <1>8. m[s.rx + 1] = (Len(d) + 1) + 1 /\ p[s.rx + 1] = 0
    <2>1. p[s.rx] = PartsOf[sent[m[s.rx]]]
      BY <1>5, <1>7 DEF Copies
    <2> QED BY <1>4, <1>5, <2>1
  <1>9. ReaderAt(s2, Append(d, parts), sent, H, m, p)
    <2>1. Len(Append(d, parts)) = Len(d) + 1
      BY AppendProperties
    <2> QED BY <1>3, <1>8, <2>1 DEF ReaderAt
  <1>10. StreamAt(s2, Append(d, parts), w2, 0, z, j, sent, H, m, p)
    BY <1>1, <1>3, <1>9 DEF StreamAt
  <1>11. parts = WholeMessage(sent[m[s.rx]]) /\ Head(parts) = sent[m[s.rx]]
    BY <1>5, <1>7 DEF Copies, WholeMessage
  <1> QED BY <1>4, <1>5, <1>6, <1>10, <1>11 DEF Stream, Handed

(***************************************************************************)
(* A frame of the handshake is sent, and read.                             *)
(***************************************************************************)
LEMMA RawSentStream ==
    ASSUME NEW s \in EndpointRecord, NEW d, NEW w, NEW w2, NEW z, NEW j, NEW sent,
           Stream(s, d, w, 0, z, j, sent), s.phase # "closed" => Len(w) = 0, Len(w2) = Len(w) + 1
    PROVE  Stream(s, d, w2, 1, z, j, sent)
  <1>1. PICK H, m, p : StreamAt(s, d, w, 0, z, j, sent, H, m, p)
    BY DEF Stream
  <1>2. s.phase # "closed" => FramesAt(w2, 1, s.rx, z.torn, sent, H, m, p)
    BY <1>1 DEF StreamAt, FramesAt, Schedule, EndpointRecord
  <1>3. StreamAt(s, d, w2, 1, z, j, sent, H, m, p)
    BY <1>1, <1>2 DEF StreamAt
  <1> QED BY <1>3 DEF Stream

WithoutFirst(w, w2) ==
    /\ Len(w) \in Nat /\ Len(w) > 0 /\ Len(w2) = Len(w) - 1
    /\ \A i \in 1..Len(w2) : w2[i] = w[i + 1]

LEMMA RawReadStream ==
    ASSUME NEW s \in EndpointRecord, NEW d, NEW w, NEW w2, NEW z, NEW j, NEW sent,
           Stream(s, d, w, 1, z, j, sent), WithoutFirst(w, w2)
    PROVE  Stream(s, d, w2, 0, z, j, sent)
  <1> Len(w) \in Nat /\ Len(w) > 0 /\ Len(w2) = Len(w) - 1 /\ \A i \in 1..Len(w2) : w2[i] = w[i + 1]
    BY DEF WithoutFirst
  <1>1. PICK H, m, p : StreamAt(s, d, w, 1, z, j, sent, H, m, p)
    BY DEF Stream
  <1>2. ASSUME s.phase # "closed" PROVE FramesAt(w2, 0, s.rx, z.torn, sent, H, m, p)
    <2>1. s.rx \in Nat /\ H \in Nat /\ FramesAt(w, 1, s.rx, z.torn, sent, H, m, p)
      BY <1>1, <1>2 DEF StreamAt, Schedule, EndpointRecord
    <2>2. ASSUME NEW i \in 1..Len(w2), i > 0
          PROVE  FrameAt(w2[i], s.rx + i - 0 - 1, z.torn, sent, H, m, p)
      <3>1. i + 1 \in 1..Len(w) /\ i + 1 > 1 /\ s.rx + (i + 1) - 1 - 1 = s.rx + i - 0 - 1 /\ w2[i] = w[i + 1]
        BY <2>1, <2>2
      <3>2. FrameAt(w[i + 1], s.rx + (i + 1) - 1 - 1, z.torn, sent, H, m, p)
        BY <2>1, <3>1 DEF FramesAt
      <3> QED BY <3>1, <3>2
    <2>3. Len(w2) - 0 >= H - s.rx /\ Len(w2) >= 0
      BY <2>1 DEF FramesAt
    <2> QED BY <2>2, <2>3 DEF FramesAt
  <1>3. StreamAt(s, d, w2, 0, z, j, sent, H, m, p)
    BY <1>1, <1>2 DEF StreamAt
  <1> QED BY <1>3 DEF Stream

-----------------------------------------------------------------------------
(***************************************************************************)
(* The two streams of a connection in a state, and after a step.           *)
(***************************************************************************)
LEMMA Views ==
    ASSUME WireInv, StreamInv, NEW e \in End, NEW f, f = Other(e)
    PROVE  /\ f \in End /\ f # e /\ Other(f) = e /\ End = {e, f}
           /\ endpoint[e] \in EndpointRecord /\ endpoint[f] \in EndpointRecord
           /\ delivered[e] \in Seq(Seq(Message)) /\ delivered[f] \in Seq(Seq(Message))
           /\ taken[e] \in Seq(Message) /\ taken[f] \in Seq(Message)
           /\ Len(taken[e]) \in Nat /\ Len(delivered[e]) \in Nat /\ Len(delivered[f]) \in Nat
           /\ Len(wire[e]) \in Nat /\ Len(wire[f]) \in Nat /\ Unread(e) \in 0..1 /\ Unread(f) \in 0..1
           /\ job[e] \in [Thread -> Job] /\ job[f] \in [Thread -> Job]
           /\ Stream(endpoint[e], delivered[e], wire[e], Unread(e), endpoint[f], job[f], taken[f])
           /\ Stream(endpoint[f], delivered[f], wire[f], Unread(f), endpoint[e], job[e], taken[e])
           /\ Got(endpoint[e], delivered[e], endpoint[f].torn, taken[f])
           /\ Got(endpoint[f], delivered[f], endpoint[e].torn, taken[e])
           /\ IdentityFirst(endpoint[e], job[e], taken[e]) /\ IdentityFirst(endpoint[f], job[f], taken[f])
  <1>1. f \in End /\ f # e /\ Other(f) = e /\ End = {e, f} /\ Other(e) = f
    BY OtherEnd
  <1>2. /\ endpoint[e] \in EndpointRecord /\ endpoint[f] \in EndpointRecord
        /\ delivered[e] \in Seq(Seq(Message)) /\ delivered[f] \in Seq(Seq(Message))
        /\ taken[e] \in Seq(Message) /\ taken[f] \in Seq(Message)
        /\ job[e] \in [Thread -> Job] /\ job[f] \in [Thread -> Job]
        /\ wire[e] \in Seq(RawFrame \cup CipherFrame) /\ wire[f] \in Seq(RawFrame \cup CipherFrame)
    BY <1>1 DEF WireInv, WireType
  <1>3. /\ Len(taken[e]) \in Nat /\ Len(delivered[e]) \in Nat /\ Len(delivered[f]) \in Nat
        /\ Len(wire[e]) \in Nat /\ Len(wire[f]) \in Nat
    BY <1>2
  <1>4. Unread(e) \in 0..1 /\ Unread(f) \in 0..1
    BY DEF Unread
  <1> QED BY <1>1, <1>2, <1>3, <1>4 DEF StreamInv

LEMMA Assemble ==
    ASSUME NEW e \in End, NEW f, f = Other(e),
           Stream(endpoint'[e], delivered'[e], wire'[e], Unread(e)', endpoint'[f], job'[f], taken'[f]),
           Stream(endpoint'[f], delivered'[f], wire'[f], Unread(f)', endpoint'[e], job'[e], taken'[e]),
           Got(endpoint'[e], delivered'[e], endpoint'[f].torn, taken'[f]),
           Got(endpoint'[f], delivered'[f], endpoint'[e].torn, taken'[e]),
           IdentityFirst(endpoint'[e], job'[e], taken'[e]), IdentityFirst(endpoint'[f], job'[f], taken'[f])
    PROVE  StreamInv'
  <1>1. f \in End /\ Other(f) = e /\ End = {e, f}
    BY OtherEnd
  <1> QED BY <1>1 DEF StreamInv

(***************************************************************************)
(* The writing threads of end e leave alone what it reads.                 *)
(***************************************************************************)
SameReader(s, s2) ==
    /\ s2.phase = s.phase /\ s2.step = s.step /\ s2.rx = s.rx /\ s2.want = s.want /\ s2.parts = s.parts
    /\ s2.why = s.why

LEMMA WriterStep ==
    ASSUME WireInv, StreamInv, NEW e \in End, NEW f, f = Other(e),
           SameReader(endpoint[e], endpoint'[e]), endpoint'[f] = endpoint[f], job'[f] = job[f],
           taken'[f] = taken[f], delivered' = delivered, wire'[e] = wire[e],
           Stream(endpoint[f], delivered[f], wire'[f], Unread(f), endpoint'[e], job'[e], taken'[e]),
           Got(endpoint[f], delivered[f], endpoint'[e].torn, taken'[e]),
           IdentityFirst(endpoint'[e], job'[e], taken'[e])
    PROVE  StreamInv'
  <1>0. /\ Stream(endpoint[e], delivered[e], wire[e], Unread(e), endpoint[f], job[f], taken[f])
        /\ Got(endpoint[e], delivered[e], endpoint[f].torn, taken[f])
        /\ IdentityFirst(endpoint[f], job[f], taken[f]) /\ Other(f) = e
    BY Views
  <1>1. Stream(endpoint'[e], delivered[e], wire[e], Unread(e), endpoint[f], job[f], taken[f])
    BY <1>0, ReaderQuiet DEF SameReader
  <1>2. Unread(e)' = Unread(e) /\ Unread(f)' = Unread(f)
    BY <1>0 DEF SameReader, Unread
  <1>3. Got(endpoint'[e], delivered[e], endpoint[f].torn, taken[f])
    BY <1>0 DEF SameReader, Got
  <1> QED BY <1>0, <1>1, <1>2, <1>3, Assemble

(***************************************************************************)
(* While an end is authenticating, only its reader writes, and first its   *)
(* identity.                                                               *)
(***************************************************************************)
LEMMA FirstTaken ==
    ASSUME NEW e \in End, IdentityFirst(endpoint[e], job[e], taken[e]), Len(taken[e]) \in Nat,
           Phase(e) \in {"auth", "open"}, NEW t \in Thread, job[e][t].pc \in BusyPc
    PROVE  /\ Phase(e) = "auth" => t = "reader"
           /\ Len(taken[e]) = 0 => Phase(e) = "auth" /\ job[e][t].pc = "lock" /\ job[e][t].msg = "Identity"
  <1>1. Phase(e) = "auth" => t = "reader"
    BY DEF IdentityFirst, Phase, NoJob, BusyPc, Thread
  <1>2. Len(taken[e]) = 0 => Phase(e) = "auth"
    BY DEF IdentityFirst, Phase
  <1> QED BY <1>1, <1>2 DEF IdentityFirst, Phase

LEMMA OthersQuiet ==
    ASSUME WireInv, NEW e \in End, NEW t \in Thread, endpoint[e].socket \in {"free", t}, NEW j, JobNow(job, job', e, t, j)
    PROVE  /\ job'[e][t] = j /\ \A v \in Thread : v # t => job'[e][v] = job[e][v] /\ ~InWrite(job[e][v])
           /\ job'[Other(e)] = job[Other(e)]
  BY OtherEnd DEF WireInv, SocketHeldByWriter, Writing, InWrite, JobNow, Thread

LEMMA LockKeeps ==
    ASSUME WireInv, StreamInv, NEW e \in End, NEW t \in Thread, LockSocket(e, t)
    PROVE  StreamInv'
  <1>f. PICK f : f = Other(e)
    OBVIOUS
  <1>1. /\ EndNow(e, [endpoint[e] EXCEPT !.socket = t])
        /\ JobNow(job, job', e, t, WithLeft(job[e][t], "encrypt", PartsOf[job[e][t].msg] + 1))
        /\ taken'[e] = Append(taken[e], job[e][t].msg) /\ taken'[f] = taken[f]
        /\ wire' = wire /\ delivered' = delivered
        /\ job[e][t] \in Busy /\ endpoint[e].socket = "free" /\ job[e][t].pc = "lock"
    BY <1>f, LockSocketDoes DEF LockSocket
  <1>2. PICK z2 : z2 = [endpoint[e] EXCEPT !.socket = t]
    OBVIOUS
  <1>3. PICK x \in Message : x = job[e][t].msg
    BY <1>1 DEF Busy
  <1>v. /\ endpoint[e] \in EndpointRecord /\ endpoint[f] \in EndpointRecord
        /\ taken[e] \in Seq(Message) /\ Len(taken[e]) \in Nat /\ Len(delivered[f]) \in Nat
        /\ Len(wire[f]) \in Nat /\ Unread(f) \in 0..1 /\ job[e] \in [Thread -> Job]
        /\ Stream(endpoint[f], delivered[f], wire[f], Unread(f), endpoint[e], job[e], taken[e])
        /\ Got(endpoint[f], delivered[f], endpoint[e].torn, taken[e])
        /\ IdentityFirst(endpoint[e], job[e], taken[e])
    BY <1>f, Views
  <1>4. /\ z2 \in EndpointRecord /\ z2.torn = endpoint[e].torn /\ z2.cut = endpoint[e].cut
        /\ z2.tx = endpoint[e].tx /\ z2.socket = t /\ SameReader(endpoint[e], z2)
    BY <1>v, <1>2 DEF EndpointRecord, SameReader
  <1>5. endpoint'[e] = z2 /\ endpoint'[f] = endpoint[f]
    BY <1>f, <1>1, <1>2 DEF EndNow
  <1>6. /\ job'[e][t] = WithLeft(job[e][t], "encrypt", PartsOf[x] + 1)
        /\ \A v \in Thread : v # t => job'[e][v] = job[e][v] /\ ~InWrite(job[e][v])
        /\ job'[f] = job[f]
    BY <1>f, <1>1, <1>3, OthersQuiet
  <1>7. /\ job'[e][t].pc = "encrypt" /\ job'[e][t].msg = x /\ job'[e][t].left = PartsOf[x] + 1
        /\ InWrite(job'[e][t])
    BY <1>1, <1>3, <1>6 DEF WithLeft, Busy, InWrite
  <1>8. Phase(e) \in {"auth", "open"} /\ endpoint[e].phase # "closed" /\ job[e][t].pc \in BusyPc
    BY <1>1, BusyJob DEF BusyPc, Phase
  <1>9. Stream(endpoint[f], delivered[f], wire[f], Unread(f), z2, job'[e], Append(taken[e], x))
    <2>1. PICK j, j2, w, u : j = job[e] /\ j2 = job'[e] /\ w = wire[f] /\ u = Unread(f)
      OBVIOUS
    <2>2. PICK s, d, z, sent : s = endpoint[f] /\ d = delivered[f] /\ z = endpoint[e] /\ sent = taken[e]
      OBVIOUS
    <2>3. /\ s \in EndpointRecord /\ z \in EndpointRecord /\ j \in [Thread -> Job] /\ sent \in Seq(Message)
          /\ Stream(s, d, w, u, z, j, sent) /\ Len(w) \in Nat /\ u \in 0..1 /\ Len(d) \in Nat
      BY <1>v, <2>1, <2>2
    <2>4. LockTaken(z, z2, t)
      BY <1>1, <1>4, <1>8, <2>2 DEF LockTaken
    <2>5. Begins(j2[t], x)
      BY <1>7, <2>1 DEF Begins
    <2>6. OthersApart(j, j2, t)
      BY <1>6, <2>1 DEF OthersApart
    <2>7. Stream(s, d, w, u, z2, j2, Append(sent, x))
      BY <1>4, <2>3, <2>4, <2>5, <2>6, LockStream
    <2> QED BY <2>1, <2>2, <2>7
  <1>10. /\ Len(taken'[e]) = Len(taken[e]) + 1 /\ \A k \in 1..Len(taken[e]) : taken'[e][k] = taken[e][k]
         /\ taken'[e][Len(taken[e]) + 1] = x
    BY <1>1, <1>3, <1>v, AppendProperties
  <1>11. Got(endpoint[f], delivered[f], z2.torn, taken'[e])
    BY <1>4, <1>10, <1>v DEF Got
  <1>12. IdentityFirst(z2, job'[e], taken'[e])
    <2>1. /\ z2.phase = Phase(e) /\ Len(taken'[e]) > 0
          /\ Phase(e) = "auth" => t = "reader"
          /\ Len(taken[e]) = 0 => x = "Identity"
      BY <1>3, <1>4, <1>8, <1>10, <1>v, FirstTaken DEF SameReader, Phase
    <2>2. taken'[e][1] = "Identity"
      <3>1. CASE Len(taken[e]) = 0
        BY <1>10, <2>1, <3>1
      <3>2. CASE Len(taken[e]) > 0
        <4>1. 1 \in 1..Len(taken[e])
          BY <1>v, <3>2
        <4> QED BY <1>10, <1>v, <3>2, <4>1 DEF IdentityFirst
      <3> QED BY <1>v, <3>1, <3>2
    <2>3. z2.phase = "auth" => job'[e]["announcer"] = NoJob
      BY <1>6, <1>v, <2>1 DEF IdentityFirst, Phase, Thread
    <2>4. z2.phase # "handshake"
      BY <1>8, <2>1
    <2> QED BY <1>v, <1>10, <2>1, <2>2, <2>3, <2>4 DEF IdentityFirst
  <1> QED BY <1>f, <1>1, <1>3, <1>4, <1>5, <1>6, <1>9, <1>11, <1>12, WriterStep

(***************************************************************************)
(* A thread that encrypts or writes has taken the socket before.           *)
(***************************************************************************)
LEMMA IdentityStays ==
    ASSUME WireInv, StreamInv, NEW e \in End, NEW t \in Thread, job[e][t].pc \in {"encrypt", "write"},
           NEW z2, z2.phase = endpoint[e].phase,
           NEW j2, \A v \in Thread : v # t => j2[v] = job[e][v]
    PROVE  IdentityFirst(z2, j2, taken[e])
  <1>1. PICK f : f = Other(e)
    OBVIOUS
  <1>2. IdentityFirst(endpoint[e], job[e], taken[e]) /\ Len(taken[e]) \in Nat
    BY <1>1, Views
  <1>3. job[e][t].pc \in BusyPc /\ Phase(e) \in {"auth", "open"}
    BY BusyJob DEF BusyPc
  <1>4. (Phase(e) = "auth" => t = "reader") /\ Len(taken[e]) # 0
    BY <1>2, <1>3, FirstTaken
  <1>5. z2.phase = "auth" => j2["announcer"] = NoJob
    BY <1>2, <1>4 DEF IdentityFirst, Phase, Thread
  <1> QED BY <1>2, <1>3, <1>4, <1>5 DEF IdentityFirst, Phase

LEMMA EncryptKeeps ==
    ASSUME WireInv, StreamInv, NEW e \in End, NEW t \in Thread, Encrypt(e, t)
    PROVE  StreamInv'
  <1>f. PICK f : f = Other(e)
    OBVIOUS
  <1>1. /\ EndNow(e, [endpoint[e] EXCEPT !.tx = endpoint[e].tx + 1])
        /\ JobNow(job, job', e, t, WithNonce(job[e][t], "write", endpoint[e].tx))
        /\ wire' = wire /\ delivered' = delivered /\ taken' = taken
        /\ job[e][t] \in Busy /\ endpoint[e].socket = t /\ job[e][t].pc = "encrypt"
    BY EncryptDoes DEF Encrypt
  <1>v. /\ endpoint[e] \in EndpointRecord
        /\ Stream(endpoint[f], delivered[f], wire[f], Unread(f), endpoint[e], job[e], taken[e])
        /\ Got(endpoint[f], delivered[f], endpoint[e].torn, taken[e])
    BY <1>f, Views
  <1>2. PICK n \in Nat, k \in Nat : k = endpoint[e].tx /\ n = endpoint[e].tx + 1
    BY <1>v DEF EndpointRecord
  <1>3. PICK z2 : z2 = [endpoint[e] EXCEPT !.tx = n]
    OBVIOUS
  <1>4. /\ z2 \in EndpointRecord /\ z2.torn = endpoint[e].torn /\ z2.cut = endpoint[e].cut
        /\ z2.tx = endpoint[e].tx + 1 /\ z2.socket = t /\ SameReader(endpoint[e], z2)
    BY <1>v, <1>1, <1>2, <1>3 DEF EndpointRecord, SameReader
  <1>5. endpoint'[e] = z2 /\ endpoint'[f] = endpoint[f]
    BY <1>f, <1>1, <1>2, <1>3 DEF EndNow
  <1>6. /\ job'[e][t] = WithNonce(job[e][t], "write", k)
        /\ \A v \in Thread : v # t => job'[e][v] = job[e][v] /\ ~InWrite(job[e][v])
        /\ job'[f] = job[f]
    BY <1>f, <1>1, <1>2, OthersQuiet
  <1>7. /\ job'[e][t].pc = "write" /\ job'[e][t].msg = job[e][t].msg /\ job'[e][t].left = job[e][t].left
        /\ job'[e][t].nonce = endpoint[e].tx
    BY <1>1, <1>2, <1>6 DEF WithNonce, Busy
  <1>8. endpoint[e].phase # "closed"
    BY <1>1, BusyJob DEF BusyPc, Phase
  <1>9. Stream(endpoint[f], delivered[f], wire[f], Unread(f), z2, job'[e], taken[e])
    BY <1>1, <1>4, <1>6, <1>7, <1>8, <1>v, EncryptStream
  <1>10. IdentityFirst(z2, job'[e], taken[e])
    BY <1>1, <1>4, <1>6, IdentityStays DEF SameReader
  <1> QED BY <1>f, <1>1, <1>4, <1>5, <1>6, <1>9, <1>10, <1>v, WriterStep

LEMMA WriteKeeps ==
    ASSUME WireInv, StreamInv, NEW e \in End, NEW t \in Thread, WriteFrame(e, t)
    PROVE  StreamInv'
  <1>f. PICK f : f = Other(e)
    OBVIOUS
  <1>x. PICK x : x = Frame(e, job[e][t])
    OBVIOUS
  <1>a. /\ x \in CipherFrame /\ wire'[f] = Append(wire[f], x) /\ wire'[e] = wire[e]
    BY <1>f, <1>x, WriteFrameDoes
  <1>b. IF job[e][t].left = 1
        THEN EndNow(e, [endpoint[e] EXCEPT !.socket = "free"]) /\ JobNow(job, job', e, t, NoJob)
        ELSE /\ EndNow(e, endpoint[e])
             /\ JobNow(job, job', e, t, WithLeft(job[e][t], "encrypt", job[e][t].left - 1))
    BY WriteFrameDoes
  <1>1. /\ taken' = taken /\ delivered' = delivered
        /\ job[e][t] \in Busy /\ endpoint[e].socket = t /\ job[e][t].pc = "write"
        /\ endpoint[f].phase # "closed"
    BY <1>f, WriteFrameDoes DEF WriteFrame, Phase
  <1>v. /\ endpoint[e] \in EndpointRecord /\ endpoint[f] \in EndpointRecord /\ f \in End
        /\ taken[e] \in Seq(Message) /\ Len(wire[f]) \in Nat /\ Unread(f) \in 0..1
        /\ Stream(endpoint[f], delivered[f], wire[f], Unread(f), endpoint[e], job[e], taken[e])
        /\ Got(endpoint[f], delivered[f], endpoint[e].torn, taken[e])
    BY <1>f, Views
  <1>2. FrameOf(x, endpoint[e], job[e][t])
    BY <1>x DEF Frame, FrameOf
  <1>3. job[e][t].left \in Nat /\ job[e][t].left > 0
    BY <1>1 DEF Busy, WireInv, SocketHeldByWriter, Writing
  <1>4. PICK z2 : z2 = IF job[e][t].left = 1 THEN [endpoint[e] EXCEPT !.socket = "free"] ELSE endpoint[e]
    OBVIOUS
  <1>5. /\ z2 \in EndpointRecord /\ z2.torn = endpoint[e].torn /\ z2.cut = endpoint[e].cut /\ z2.tx = endpoint[e].tx
        /\ SameReader(endpoint[e], z2)
        /\ job[e][t].left = 1 => z2.socket = "free"
        /\ job[e][t].left # 1 => z2.socket = t
    <2>1. CASE job[e][t].left = 1
      BY <1>v, <1>4, <2>1 DEF EndpointRecord, SameReader
    <2>2. CASE job[e][t].left # 1
      BY <1>v, <1>1, <1>4, <2>2 DEF EndpointRecord, SameReader
    <2> QED BY <2>1, <2>2
  <1>6. endpoint'[e] = z2 /\ endpoint'[f] = endpoint[f]
    BY <1>f, <1>b, <1>4 DEF EndNow
  <1>7. PICK k : k = IF job[e][t].left = 1 THEN NoJob ELSE WithLeft(job[e][t], "encrypt", job[e][t].left - 1)
    OBVIOUS
  <1>8. JobNow(job, job', e, t, k)
    BY <1>b, <1>7
  <1>9. /\ job'[e][t] = k /\ job'[f] = job[f]
        /\ \A v \in Thread : v # t => job'[e][v] = job[e][v] /\ ~InWrite(job[e][v])
    BY <1>f, <1>1, <1>8, OthersQuiet
  <1>10. AfterFrame(endpoint[e], z2, job[e][t], job'[e][t], t)
    <2>1. CASE job[e][t].left = 1
      BY <1>5, <1>7, <1>9, <2>1 DEF AfterFrame, InWrite, NoJob
    <2>2. CASE job[e][t].left # 1
      <3>1. k.pc = "encrypt" /\ k.msg = job[e][t].msg /\ k.left = job[e][t].left - 1
        BY <1>1, <1>7, <2>2 DEF WithLeft, Busy
      <3> QED BY <1>5, <1>9, <2>2, <3>1 DEF AfterFrame
    <2> QED BY <2>1, <2>2
  <1>11. LongerBy(wire[f], wire'[f], x)
    <2>1. wire[f] \in Seq(RawFrame \cup CipherFrame)
      BY <1>v DEF WireInv, WireType
    <2> QED BY <1>a, <2>1, AppendProperties DEF LongerBy
  <1>12. endpoint[e].phase # "closed"
    BY <1>1, BusyJob DEF BusyPc, Phase
  <1>13. Stream(endpoint[f], delivered[f], wire'[f], Unread(f), z2, job'[e], taken[e])
    <2>1. PICK j, j2, w, w2, u : j = job[e] /\ j2 = job'[e] /\ w = wire[f] /\ w2 = wire'[f] /\ u = Unread(f)
      OBVIOUS
    <2>2. PICK s, d, z, sent : s = endpoint[f] /\ d = delivered[f] /\ z = endpoint[e] /\ sent = taken[e]
      OBVIOUS
    <2>3. /\ s \in EndpointRecord /\ u \in 0..1 /\ z \in EndpointRecord /\ sent \in Seq(Message)
          /\ Stream(s, d, w, u, z, j, sent) /\ Len(w) \in Nat /\ s.phase # "closed" /\ z.phase # "closed"
      BY <1>1, <1>12, <1>v, <2>1, <2>2
    <2>4. /\ j[t] \in Busy /\ j[t].pc = "write" /\ j[t].left > 0 /\ FrameOf(x, z, j[t]) /\ LongerBy(w, w2, x)
          /\ z2 \in EndpointRecord /\ AfterFrame(z, z2, j[t], j2[t], t) /\ OthersApart(j, j2, t)
      BY <1>1, <1>2, <1>3, <1>5, <1>9, <1>10, <1>11, <2>1, <2>2 DEF OthersApart
    <2>5. Stream(s, d, w2, u, z2, j2, sent)
      BY <2>3, <2>4, WriteStream
    <2> QED BY <2>1, <2>2, <2>5
  <1>14. IdentityFirst(z2, job'[e], taken[e])
    BY <1>1, <1>5, <1>9, IdentityStays DEF SameReader
  <1> QED BY <1>f, <1>a, <1>1, <1>5, <1>6, <1>9, <1>13, <1>14, <1>v, WriterStep

LEMMA WriteFailsKeeps ==
    ASSUME WireInv, StreamInv, NEW e \in End, NEW t \in Thread, WriteFails(e, t)
    PROVE  StreamInv'
  <1>f. PICK f : f = Other(e)
    OBVIOUS
  <1>1. PICK c \in BOOLEAN : EndNow(e, [endpoint[e] EXCEPT !.socket = "free", !.torn = TRUE, !.cut = c])
    BY WriteFailsDoes
  <1>2. /\ JobNow(job, job', e, t, NoJob)
        /\ wire' = wire /\ delivered' = delivered /\ taken' = taken
        /\ job[e][t] \in Busy /\ endpoint[e].socket = t /\ job[e][t].pc = "write"
    BY WriteFailsDoes DEF WriteFails
  <1>v. /\ endpoint[e] \in EndpointRecord
        /\ Stream(endpoint[f], delivered[f], wire[f], Unread(f), endpoint[e], job[e], taken[e])
        /\ Got(endpoint[f], delivered[f], endpoint[e].torn, taken[e])
    BY <1>f, Views
  <1>3. PICK z2 : z2 = [endpoint[e] EXCEPT !.socket = "free", !.torn = TRUE, !.cut = c]
    OBVIOUS
  <1>4. z2 \in EndpointRecord /\ z2.torn = TRUE /\ z2.tx = endpoint[e].tx /\ SameReader(endpoint[e], z2)
    BY <1>v, <1>3 DEF EndpointRecord, SameReader
  <1>5. endpoint'[e] = z2 /\ endpoint'[f] = endpoint[f]
    BY <1>f, <1>1, <1>3 DEF EndNow
  <1>6. /\ job'[e][t] = NoJob /\ job'[f] = job[f]
        /\ \A v \in Thread : v # t => job'[e][v] = job[e][v] /\ ~InWrite(job[e][v])
    BY <1>f, <1>2, OthersQuiet
  <1>8. endpoint[e].phase # "closed"
    BY <1>2, BusyJob DEF BusyPc, Phase
  <1>9. Stream(endpoint[f], delivered[f], wire[f], Unread(f), z2, job'[e], taken[e])
    BY <1>2, <1>4, <1>6, <1>8, <1>v, TearStream
  <1>10. IdentityFirst(z2, job'[e], taken[e])
    BY <1>2, <1>4, <1>6, IdentityStays DEF SameReader
  <1>11. Got(endpoint[f], delivered[f], z2.torn, taken[e])
    BY <1>4, <1>v DEF Got
  <1> QED BY <1>f, <1>2, <1>4, <1>5, <1>6, <1>9, <1>10, <1>11, WriterStep

LEMMA AnnounceKeeps ==
    ASSUME WireInv, StreamInv, NEW e \in End, AnnounceTo(e)
    PROVE  StreamInv'
  <1>f. PICK f : f = Other(e) /\ f # e /\ f \in End
    BY OtherEnd
  <1>1. /\ EndNow(e, [endpoint[e] EXCEPT !.announced = endpoint[e].announced + 1])
        /\ JobNow(job, job', e, "announcer", Sending("Inv"))
        /\ wire' = wire /\ delivered' = delivered /\ taken' = taken
        /\ Phase(e) = "open" /\ "announcer" \in Thread
    BY AnnounceDoes DEF Thread
  <1>v. /\ endpoint[e] \in EndpointRecord
        /\ Stream(endpoint[f], delivered[f], wire[f], Unread(f), endpoint[e], job[e], taken[e])
        /\ Got(endpoint[f], delivered[f], endpoint[e].torn, taken[e])
        /\ IdentityFirst(endpoint[e], job[e], taken[e])
    BY <1>f, Views
  <1>2. PICK n \in Nat : n = endpoint[e].announced + 1
    BY <1>v DEF EndpointRecord
  <1>3. PICK z2 : z2 = [endpoint[e] EXCEPT !.announced = n]
    OBVIOUS
  <1>4. /\ z2 \in EndpointRecord /\ z2.torn = endpoint[e].torn /\ z2.cut = endpoint[e].cut
        /\ z2.tx = endpoint[e].tx /\ z2.socket = endpoint[e].socket /\ SameReader(endpoint[e], z2)
    BY <1>v, <1>3 DEF EndpointRecord, SameReader
  <1>5. endpoint'[e] = z2 /\ endpoint'[f] = endpoint[f]
    BY <1>f, <1>1, <1>2, <1>3 DEF EndNow
  <1>6. /\ job'[f] = job[f]
        /\ \A v \in Thread : v # "announcer" => job'[e][v] = job[e][v]
        /\ job'[e]["announcer"].pc = "lock"
    BY <1>f, <1>1 DEF JobNow, Sending
  <1>7. \A v \in Thread : InWrite(job'[e][v]) => job'[e][v] = job[e][v]
    BY <1>6 DEF InWrite
  <1>9. Stream(endpoint[f], delivered[f], wire[f], Unread(f), z2, job'[e], taken[e])
    BY <1>4, <1>7, <1>v, WriterQuiet DEF SameReader
  <1>10. IdentityFirst(z2, job'[e], taken[e])
    BY <1>1, <1>4, <1>v DEF SameReader, IdentityFirst, Phase
  <1> QED BY <1>f, <1>1, <1>4, <1>5, <1>6, <1>9, <1>10, <1>v, WriterStep

(***************************************************************************)
(* The end of a connection.                                                *)
(***************************************************************************)
LEMMA CloseKeeps ==
    ASSUME WireInv, StreamInv, NEW e \in End, NEW why \in {"garbled", "idle"}, CloseEnd(e, why),
           taken' = taken, delivered' = delivered, why = "garbled" => endpoint[Other(e)].torn
    PROVE  StreamInv'
  <1>f. PICK f : f = Other(e)
    OBVIOUS
  <1>1. delivered' \in [End -> Seq(Seq(Message))]
    BY DEF WireInv, WireType
  <1>2. /\ EndNow(e, [endpoint[e] EXCEPT !.phase = "closed", !.why = why, !.socket = "free",
                                         !.want = 0, !.parts = <<>>])
        /\ job'[f] = job[f] /\ wire'[f] = wire[f]
    BY <1>f, <1>1, CloseEndDoes
  <1>v. /\ endpoint[e] \in EndpointRecord /\ Other(f) = e
        /\ Stream(endpoint[e], delivered[e], wire[e], Unread(e), endpoint[f], job[f], taken[f])
        /\ Stream(endpoint[f], delivered[f], wire[f], Unread(f), endpoint[e], job[e], taken[e])
        /\ Got(endpoint[e], delivered[e], endpoint[f].torn, taken[f])
        /\ Got(endpoint[f], delivered[f], endpoint[e].torn, taken[e])
        /\ IdentityFirst(endpoint[e], job[e], taken[e]) /\ IdentityFirst(endpoint[f], job[f], taken[f])
    BY <1>f, Views
  <1>3. PICK s2 : s2 = [endpoint[e] EXCEPT !.phase = "closed", !.why = why, !.socket = "free",
                                           !.want = 0, !.parts = <<>>]
    OBVIOUS
  <1>4. s2.phase = "closed" /\ s2.why = why /\ s2.torn = endpoint[e].torn /\ s2.step = endpoint[e].step
    BY <1>v, <1>3 DEF EndpointRecord
  <1>5. endpoint'[e] = s2 /\ endpoint'[f] = endpoint[f]
    BY <1>f, <1>2, <1>3 DEF EndNow
  <1>6. Unread(f)' = Unread(f)
    BY <1>4, <1>5, <1>v DEF Unread
  <1>7. Stream(s2, delivered[e], wire'[e], Unread(e)', endpoint[f], job[f], taken[f])
    BY <1>4, <1>v, ReaderCloses
  <1>8. Stream(endpoint[f], delivered[f], wire[f], Unread(f), s2, job'[e], taken[e])
    BY <1>4, <1>v, WriterQuiet
  <1>9. Got(s2, delivered[e], endpoint[f].torn, taken[f]) /\ Got(endpoint[f], delivered[f], s2.torn, taken[e])
    BY <1>f, <1>4, <1>v DEF Got
  <1>10. IdentityFirst(s2, job'[e], taken[e])
    BY <1>4, <1>v DEF IdentityFirst
  <1> QED BY <1>f, <1>2, <1>5, <1>6, <1>7, <1>8, <1>9, <1>10, <1>v, Assemble

(***************************************************************************)
(* The reader of end e leaves alone what its threads write.                *)
(***************************************************************************)
SameWriter(z, z2) ==
    /\ z2.torn = z.torn /\ z2.cut = z.cut /\ z2.tx = z.tx /\ z2.socket = z.socket
    /\ z.phase # "closed" /\ z2.phase # "closed"

LEMMA ReaderStep ==
    ASSUME WireInv, StreamInv, NEW e \in End, NEW f, f = Other(e),
           SameWriter(endpoint[e], endpoint'[e]), endpoint'[f] = endpoint[f], job'[f] = job[f],
           \A v \in Thread : InWrite(job'[e][v]) => job'[e][v] = job[e][v],
           taken' = taken, delivered'[f] = delivered[f],
           Stream(endpoint[f], delivered[f], wire'[f], Unread(f)', endpoint[e], job[e], taken[e]),
           Stream(endpoint'[e], delivered'[e], wire'[e], Unread(e)', endpoint[f], job[f], taken[f]),
           Got(endpoint'[e], delivered'[e], endpoint[f].torn, taken[f]),
           IdentityFirst(endpoint'[e], job'[e], taken[e])
    PROVE  StreamInv'
  <1>0. /\ Got(endpoint[f], delivered[f], endpoint[e].torn, taken[e])
        /\ IdentityFirst(endpoint[f], job[f], taken[f])
    BY Views
  <1>1. Stream(endpoint[f], delivered[f], wire'[f], Unread(f)', endpoint'[e], job'[e], taken[e])
    BY WriterQuiet DEF SameWriter
  <1>2. Got(endpoint[f], delivered[f], endpoint'[e].torn, taken[e])
    BY <1>0 DEF SameWriter
  <1> QED BY <1>0, <1>1, <1>2, Assemble

LEMMA ReadFrameKeeps ==
    ASSUME WireInv, StreamInv, NEW e \in End, ReadFrame(e)
    PROVE  StreamInv'
  <1>f. PICK f : f = Other(e)
    OBVIOUS
  <1>x. PICK x, parts : x = Head(wire[e]) /\ parts = Append(endpoint[e].parts, x.msg)
    OBVIOUS
  <1>1. /\ Reading(e) /\ parts \in Seq(Message)
        /\ \/ Garbled(e, x) \/ HeaderRead(e, x) \/ PartRead(e, x, parts) \/ MessageRead(e, x, parts)
           \/ LastPart(e, x, parts) /\ Phase(e) = "auth" /\ Head(parts) # "Identity" /\ CloseEnd(e, "auth")
    BY <1>x, ReadFrameDoes
  <1>v. /\ endpoint[e] \in EndpointRecord /\ Other(f) = e /\ f \in End /\ f # e /\ End = {e, f}
        /\ delivered[e] \in Seq(Seq(Message)) /\ taken[f] \in Seq(Message) /\ Len(delivered[e]) \in Nat
        /\ Stream(endpoint[e], delivered[e], wire[e], Unread(e), endpoint[f], job[f], taken[f])
        /\ Stream(endpoint[f], delivered[f], wire[f], Unread(f), endpoint[e], job[e], taken[e])
        /\ Got(endpoint[e], delivered[e], endpoint[f].torn, taken[f])
        /\ IdentityFirst(endpoint[e], job[e], taken[e]) /\ IdentityFirst(endpoint[f], job[f], taken[f])
    BY <1>f, Views
  <1>2. /\ Phase(e) \in {"auth", "open"} /\ endpoint[e].phase # "closed" /\ job[e]["reader"] = NoJob
        /\ Len(wire[e]) \in Nat /\ Len(wire[e]) > 0 /\ x = wire[e][1] /\ x \in CipherFrame
        /\ endpoint[f].step <= endpoint[e].step /\ endpoint[e].step = 6 /\ endpoint[f].step \in 1..6
    <2>1. 1 \in 1..Len(wire[e])
      BY <1>1, ReadingCipher
    <2>2. endpoint[f].step \in 1..6
      BY <1>v DEF WireInv, WireType, EndpointRecord
    <2> QED BY <1>1, <1>f, <1>x, <2>1, <2>2, ReadingCipher DEF Phase
  <1>3. Unread(e) = 0
    BY <1>2, <1>f DEF Unread
  <1>s. Stream(endpoint[e], delivered[e], wire[e], 0, endpoint[f], job[f], taken[f])
    BY <1>3, <1>v
  <1>4. ASSUME NEW w2, w2 = Tail(wire[e]) PROVE FrameRead(endpoint[e], wire[e], w2)
    <2>1. wire[e] \in Seq(RawFrame \cup CipherFrame) /\ wire[e] # <<>>
      BY <1>1 DEF WireInv, WireType, Reading
    <2>2. Len(w2) = Len(wire[e]) - 1 /\ \A i \in 1..Len(w2) : w2[i] = wire[e][i + 1]
      BY <1>4, <2>1, HeadTailProperties
    <2> QED BY <1>2, <2>2 DEF FrameRead
  <1>o. PICK s, d, w, z, j, sent : /\ s = endpoint[e] /\ d = delivered[e] /\ w = wire[e]
                                   /\ z = endpoint[f] /\ j = job[f] /\ sent = taken[f]
    OBVIOUS
  <1>q. /\ s \in EndpointRecord /\ d \in Seq(Seq(Message)) /\ sent \in Seq(Message) /\ x = w[1]
        /\ Stream(s, d, w, 0, z, j, sent) /\ s.phase # "closed" /\ parts = Append(s.parts, w[1].msg)
    BY <1>2, <1>o, <1>s, <1>v, <1>x
  <1>5. ASSUME NEW s2, SameReader(endpoint[e], s2) \/ s2.phase \in {"auth", "open"},
               s2.step = endpoint[e].step, endpoint'[e] = s2, endpoint'[f] = endpoint[f]
        PROVE  Unread(e)' = 0 /\ Unread(f)' = Unread(f)
    BY <1>2, <1>5, <1>f, <1>v DEF Unread
  <1>a. CASE Garbled(e, x)
    <2>1. endpoint[f].torn
      <3>1. PICK H, m, p : StreamAt(s, d, w, 0, z, j, sent, H, m, p)
        BY <1>q DEF Stream
      <3>2. PICK w2 : w2 = Tail(wire[e])
        OBVIOUS
      <3>3. FrameRead(s, w, w2) /\ (w[1].kind = "garbage" \/ w[1].nonce # s.rx \/ (s.want = 0 /\ w[1].kind # "header"))
        BY <1>4, <1>a, <1>o, <1>q, <3>2 DEF Garbled
      <3>4. z.torn
        BY <1>q, <3>1, <3>3, ReadsItsFrame
      <3> QED BY <1>o, <3>4
    <2> QED BY <1>a, <1>f, <2>1, CloseKeeps DEF Garbled
  <1>b. CASE HeaderRead(e, x)
    <2>1. PICK n \in Nat, k \in Nat : n = PartsOf[x.msg] /\ k = endpoint[e].rx + 1
      <3>1. PartsOf[x.msg] \in Nat
        BY <1>2, WireAssumption DEF CipherFrame, Message
      <3>2. endpoint[e].rx + 1 \in Nat
        BY <1>v DEF EndpointRecord
      <3> QED BY <3>1, <3>2
    <2>2. PICK s2 : s2 = [endpoint[e] EXCEPT !.want = n, !.rx = k]
      OBVIOUS
    <2>3. /\ s2.want = PartsOf[x.msg] /\ s2.rx = endpoint[e].rx + 1 /\ s2.parts = endpoint[e].parts
          /\ s2.phase = endpoint[e].phase /\ s2.step = endpoint[e].step /\ s2.why = endpoint[e].why
          /\ SameWriter(endpoint[e], s2)
      BY <1>2, <1>v, <2>1, <2>2 DEF EndpointRecord, SameWriter
    <2>4. endpoint'[e] = s2 /\ endpoint'[f] = endpoint[f]
      BY <1>b, <1>f, <2>1, <2>2 DEF HeaderRead, EndNow
    <2>5. wire'[e] = Tail(wire[e]) /\ wire'[f] = wire[f] /\ job' = job /\ taken' = taken /\ delivered' = delivered
      BY <1>b, <1>f DEF HeaderRead
    <2>6. Stream(s2, delivered[e], wire'[e], 0, endpoint[f], job[f], taken[f])
      <3>1. PICK w2 : w2 = wire'[e]
        OBVIOUS
      <3>2. FrameRead(s, w, w2) /\ w[1].kind = "header" /\ w[1].nonce = s.rx /\ s.want = 0
        BY <1>4, <1>b, <1>o, <1>q, <2>5, <3>1 DEF HeaderRead
      <3>3. s2.want = PartsOf[w[1].msg] /\ s2.rx = s.rx + 1 /\ s2.parts = s.parts
        BY <1>o, <1>q, <2>3
      <3>4. Stream(s2, d, w2, 0, z, j, sent)
        BY <1>q, <3>2, <3>3, HeaderStream
      <3> QED BY <1>o, <3>1, <3>4
    <2>7. Unread(e)' = 0 /\ Unread(f)' = Unread(f)
      BY <1>2, <1>5, <2>3, <2>4 DEF Phase
    <2>8. Got(s2, delivered[e], endpoint[f].torn, taken[f]) /\ IdentityFirst(s2, job[e], taken[e])
      BY <1>v, <2>3 DEF Got, IdentityFirst
    <2> QED BY <1>f, <1>v, <2>3, <2>4, <2>5, <2>6, <2>7, <2>8, ReaderStep
  <1>c. CASE PartRead(e, x, parts)
    <2>1. PICK k \in Nat : k = endpoint[e].rx + 1
      BY <1>v DEF EndpointRecord
    <2>2. PICK s2 : s2 = [endpoint[e] EXCEPT !.parts = parts, !.rx = k]
      OBVIOUS
    <2>3. /\ s2.want = endpoint[e].want /\ s2.rx = endpoint[e].rx + 1 /\ s2.parts = parts
          /\ s2.phase = endpoint[e].phase /\ s2.step = endpoint[e].step /\ s2.why = endpoint[e].why
          /\ SameWriter(endpoint[e], s2)
      BY <1>2, <1>v, <2>1, <2>2 DEF EndpointRecord, SameWriter
    <2>4. endpoint'[e] = s2 /\ endpoint'[f] = endpoint[f]
      BY <1>c, <1>f, <2>1, <2>2 DEF PartRead, EndNow
    <2>5. wire'[e] = Tail(wire[e]) /\ wire'[f] = wire[f] /\ job' = job /\ taken' = taken /\ delivered' = delivered
      BY <1>c, <1>f DEF PartRead
    <2>6. Stream(s2, delivered[e], wire'[e], 0, endpoint[f], job[f], taken[f])
      <3>1. PICK w2 : w2 = Tail(wire[e])
        OBVIOUS
      <3>2. /\ w[1].kind # "garbage" /\ w[1].nonce = s.rx /\ s.want > 0 /\ s.want # Len(parts)
            /\ s2.rx = s.rx + 1 /\ s2.want = s.want /\ s2.parts = parts /\ FrameRead(s, w, w2)
        BY <1>4, <1>c, <1>o, <1>q, <2>3, <3>1 DEF PartRead, Complete
      <3>3. Stream(s2, d, w2, 0, z, j, sent)
        BY <1>q, <3>2, PartStream
      <3> QED BY <1>o, <2>5, <3>1, <3>3
    <2>7. Unread(e)' = 0 /\ Unread(f)' = Unread(f)
      BY <1>2, <1>5, <2>3, <2>4 DEF Phase
    <2>8. Got(s2, delivered[e], endpoint[f].torn, taken[f]) /\ IdentityFirst(s2, job[e], taken[e])
      BY <1>v, <2>3 DEF Got, IdentityFirst
    <2> QED BY <1>f, <1>v, <2>3, <2>4, <2>5, <2>6, <2>7, <2>8, ReaderStep
  <1>d. ASSUME LastPart(e, x, parts), NEW s2, s2.want = 0, s2.rx = endpoint[e].rx + 1, s2.parts = <<>>,
               NEW w2, w2 = Tail(wire[e])
        PROVE  /\ Stream(s2, Append(delivered[e], parts), w2, 0, endpoint[f], job[f], taken[f])
               /\ Len(delivered[e]) + 1 <= Len(taken[f]) /\ parts = WholeMessage(taken[f][Len(delivered[e]) + 1])
               /\ Head(parts) = taken[f][Len(delivered[e]) + 1]
    <2>1. /\ w[1].kind # "garbage" /\ w[1].nonce = s.rx /\ s.want > 0 /\ s.want = Len(parts)
          /\ s2.rx = s.rx + 1 /\ FrameRead(s, w, w2)
      BY <1>4, <1>d, <1>o, <1>q DEF LastPart, Complete
    <2>2. Handed(s2, d, parts, w2, z, j, sent)
      BY <1>1, <1>d, <1>q, <2>1, LastPartStream
    <2> QED BY <1>o, <2>2 DEF Handed
  <1>e. ASSUME LastPart(e, x, parts), Phase(e) = "auth" PROVE Head(parts) = "Identity"
    <2>1. PICK s2 : s2 = [want |-> 0, rx |-> endpoint[e].rx + 1, parts |-> <<>>]
      OBVIOUS
    <2>2. PICK w2 : w2 = Tail(wire[e])
      OBVIOUS
    <2>3. /\ Len(delivered[e]) + 1 <= Len(taken[f]) /\ Head(parts) = taken[f][Len(delivered[e]) + 1]
      BY <1>d, <1>e, <2>1, <2>2
    <2>4. Len(delivered[e]) = 0
      BY <1>e, <1>v DEF Got, Phase
    <2>5. Len(taken[f]) \in Nat
      BY <1>v
    <2>6. Len(taken[f]) > 0 /\ Head(parts) = taken[f][1]
      BY <2>3, <2>4, <2>5
    <2> QED BY <1>v, <2>6 DEF IdentityFirst
  <1>g. CASE MessageRead(e, x, parts)
    <2>1. PICK r \in Nat, n \in Nat, q \in {<<>>} : r = endpoint[e].rx + 1 /\ n = 0 /\ q = <<>>
      BY <1>v DEF EndpointRecord
    <2>2. PICK s2 : s2 = [endpoint[e] EXCEPT !.phase = "open", !.rx = r, !.want = n, !.parts = q]
      OBVIOUS
    <2>3. /\ s2.want = 0 /\ s2.rx = endpoint[e].rx + 1 /\ s2.parts = <<>>
          /\ s2.phase = "open" /\ s2.step = endpoint[e].step /\ s2.why = endpoint[e].why
          /\ SameWriter(endpoint[e], s2)
      BY <1>2, <1>v, <2>1, <2>2 DEF EndpointRecord, SameWriter
    <2>4. endpoint'[e] = s2 /\ endpoint'[f] = endpoint[f]
      BY <1>f, <1>g, <2>1, <2>2 DEF MessageRead, EndNow
    <2>5. wire'[e] = Tail(wire[e]) /\ wire'[f] = wire[f] /\ LastPart(e, x, parts)
      BY <1>f, <1>g DEF MessageRead
    <2>6. taken' = taken /\ delivered'[e] = Append(delivered[e], parts) /\ delivered'[f] = delivered[f]
      BY <1>v, <2>5 DEF LastPart, WireInv, WireType
    <2>7. /\ Stream(s2, delivered'[e], wire'[e], 0, endpoint[f], job[f], taken[f])
          /\ Len(delivered[e]) + 1 <= Len(taken[f]) /\ parts = WholeMessage(taken[f][Len(delivered[e]) + 1])
      BY <1>d, <2>3, <2>5, <2>6
    <2>8. Unread(e)' = 0 /\ Unread(f)' = Unread(f)
      BY <1>5, <2>3, <2>4
    <2>9. Got(s2, delivered'[e], endpoint[f].torn, taken[f])
      <3>1. /\ Len(delivered'[e]) = Len(delivered[e]) + 1 /\ delivered'[e][Len(delivered[e]) + 1] = parts
            /\ \A k \in 1..Len(delivered[e]) : delivered'[e][k] = delivered[e][k]
        BY <1>1, <1>v, <2>6, AppendProperties
      <3>2. ASSUME NEW k \in 1..Len(delivered'[e])
            PROVE  k <= Len(taken[f]) /\ delivered'[e][k] = WholeMessage(taken[f][k])
        <4>1. CASE k \in 1..Len(delivered[e])
          BY <1>v, <3>1, <4>1 DEF Got
        <4>2. CASE k = Len(delivered[e]) + 1
          BY <2>7, <3>1, <4>2
        <4> QED BY <1>v, <3>1, <4>1, <4>2
      <3> QED BY <1>v, <2>3, <3>2 DEF Got
    <2>10. PICK k : k = IF Phase(e) = "auth" THEN Sending("Hello") ELSE Answer(Head(parts))
      OBVIOUS
    <2>11. JobNow(job, job', e, "reader", k) /\ ~InWrite(k)
      BY <1>g, <2>10, AnswerIs DEF MessageRead, InWrite, Sending
    <2>12. job'[f] = job[f] /\ \A v \in Thread : InWrite(job'[e][v]) => job'[e][v] = job[e][v]
      BY <1>v, <2>11 DEF JobNow
    <2>13. IdentityFirst(s2, job'[e], taken[e])
      <3>1. Len(taken[e]) > 0
        <4>1. Len(taken[e]) \in Nat
          BY <1>f, Views
        <4> QED BY <1>2, <1>v, <4>1 DEF IdentityFirst, NoJob, Phase
      <3> QED BY <1>v, <2>3, <3>1 DEF IdentityFirst
    <2> QED BY <1>f, <1>v, <2>3, <2>4, <2>5, <2>6, <2>7, <2>8, <2>9, <2>12, <2>13, ReaderStep
  <1> QED BY <1>1, <1>a, <1>b, <1>c, <1>e, <1>g

(***************************************************************************)
(* The handshake: of the frames under way, one is of the handshake as long *)
(* as the reader is a step behind.                                         *)
(***************************************************************************)
LEMMA HandshakeStep ==
    ASSUME WireInv, StreamInv, NEW e \in End, Phase(e) = "handshake", AfterStep(e),
           wire' \in [End -> Seq(RawFrame \cup CipherFrame)], UNCHANGED <<taken, delivered>>,
           NEW f, f = Other(e),
           Stream(endpoint[f], delivered[f], wire'[f], Unread(f)', endpoint[e], job[e], taken[e]),
           Stream(endpoint[e], delivered[e], wire'[e], Unread(e)', endpoint[f], job[f], taken[f])
    PROVE  StreamInv'
  <1>1. /\ EndNow(e, [endpoint[e] EXCEPT !.step = endpoint[e].step + 1,
                                         !.phase = IF endpoint[e].step = 5 THEN "auth" ELSE "handshake"])
        /\ JobNow(job, job', e, "reader", IF endpoint[e].step = 5 THEN Sending("Identity") ELSE NoJob)
        /\ job[e]["reader"] = NoJob /\ job[e]["announcer"] = NoJob /\ endpoint[e].step \in 1..5
    BY AfterStepDoes
  <1>v. /\ endpoint[e] \in EndpointRecord /\ f \in End /\ f # e
        /\ Got(endpoint[e], delivered[e], endpoint[f].torn, taken[f])
        /\ IdentityFirst(endpoint[e], job[e], taken[e])
    BY Views
  <1>2. PICK k \in 1..6, ph \in {"auth", "handshake"} :
            /\ k = endpoint[e].step + 1 /\ (endpoint[e].step = 5 => ph = "auth")
            /\ endpoint[e].step # 5 => ph = "handshake"
    <2>1. endpoint[e].step + 1 \in 1..6
      BY <1>1
    <2>2. CASE endpoint[e].step = 5
      BY <2>1, <2>2
    <2>3. CASE endpoint[e].step # 5
      BY <2>1, <2>3
    <2> QED BY <2>2, <2>3
  <1>3. PICK s2 : s2 = [endpoint[e] EXCEPT !.step = k, !.phase = ph]
    OBVIOUS
  <1>4. endpoint'[e] = s2 /\ endpoint'[f] = endpoint[f]
    <2>1. ph = IF endpoint[e].step = 5 THEN "auth" ELSE "handshake"
      BY <1>2
    <2> QED BY <1>1, <1>2, <1>3, <2>1 DEF EndNow
  <1>5. /\ s2.phase = ph /\ s2.rx = endpoint[e].rx /\ s2.want = endpoint[e].want /\ s2.parts = endpoint[e].parts
        /\ s2.why = endpoint[e].why /\ SameWriter(endpoint[e], s2)
    BY <1>2, <1>3, <1>v DEF EndpointRecord, SameWriter, Phase
  <1>6. PICK j : j = IF endpoint[e].step = 5 THEN Sending("Identity") ELSE NoJob
    OBVIOUS
  <1>7. JobNow(job, job', e, "reader", j) /\ ~InWrite(j) /\ (ph = "auth" => j.pc = "lock" /\ j.msg = "Identity")
    BY <1>1, <1>2, <1>6 DEF Sending, NoJob, InWrite
  <1>8. /\ job'[f] = job[f] /\ \A v \in Thread : InWrite(job'[e][v]) => job'[e][v] = job[e][v]
        /\ job'[e]["reader"] = j /\ job'[e]["announcer"] = NoJob
    <2>1. "announcer" \in Thread /\ "announcer" # "reader"
      BY DEF Thread
    <2> QED BY <1>1, <1>7, <1>v, <2>1 DEF JobNow
  <1>9. IdentityFirst(s2, job'[e], taken[e])
    BY <1>2, <1>5, <1>7, <1>8, <1>v DEF IdentityFirst, Phase
  <1>10. Stream(s2, delivered[e], wire'[e], Unread(e)', endpoint[f], job[f], taken[f])
    BY <1>5, ReaderQuiet DEF SameWriter
  <1>11. Got(s2, delivered[e], endpoint[f].torn, taken[f])
    BY <1>2, <1>5, <1>v DEF Got, Phase
  <1> QED BY <1>4, <1>5, <1>8, <1>9, <1>10, <1>11, ReaderStep

LEMMA SendRawKeeps ==
    ASSUME WireInv, StreamInv, NEW e \in End, SendRaw(e)
    PROVE  StreamInv'
  <1>f. PICK f : f = Other(e)
    OBVIOUS
  <1>x. PICK x : x = [kind |-> "raw", nonce |-> endpoint[e].step]
    OBVIOUS
  <1>1. /\ Phase(e) = "handshake" /\ AfterStep(e) /\ UNCHANGED <<taken, delivered>> /\ wire'[e] = wire[e]
        /\ Phase(f) # "closed" => wire[f] = <<>>
        /\ endpoint[f].step = endpoint[e].step /\ wire'[f] = Append(wire[f], x)
        /\ wire' \in [End -> Seq(RawFrame \cup CipherFrame)]
    BY <1>f, <1>x, SendRawDoes
  <1>2. endpoint'[e].step = endpoint[e].step + 1 /\ endpoint'[f] = endpoint[f] /\ endpoint[e].step \in 1..5
    BY <1>1, <1>f, AfterStepDoes DEF EndNow
  <1>v. /\ endpoint[f] \in EndpointRecord /\ Other(f) = e /\ f \in End /\ Len(wire[f]) \in Nat
        /\ Stream(endpoint[e], delivered[e], wire[e], Unread(e), endpoint[f], job[f], taken[f])
        /\ Stream(endpoint[f], delivered[f], wire[f], Unread(f), endpoint[e], job[e], taken[e])
    BY <1>f, Views
  <1>3. Unread(e)' = Unread(e) /\ Unread(f) = 0 /\ Unread(f)' = 1
    BY <1>1, <1>2, <1>f, <1>v DEF Unread
  <1>4. Len(wire'[f]) = Len(wire[f]) + 1
    <2>1. wire[f] \in Seq(RawFrame \cup CipherFrame) /\ x \in RawFrame
      BY <1>2, <1>v, <1>x DEF WireInv, WireType, RawFrame
    <2> QED BY <1>1, <2>1, AppendProperties
  <1>5. Stream(endpoint[f], delivered[f], wire'[f], 1, endpoint[e], job[e], taken[e])
    <2>1. endpoint[f].phase # "closed" => Len(wire[f]) = 0
      BY <1>1 DEF Phase
    <2> QED BY <1>3, <1>4, <1>v, <2>1, RawSentStream
  <1> QED BY <1>1, <1>3, <1>5, <1>f, <1>v, HandshakeStep

LEMMA ReadRawKeeps ==
    ASSUME WireInv, StreamInv, NEW e \in End, ReadRaw(e)
    PROVE  StreamInv'
  <1>f. PICK f : f = Other(e)
    OBVIOUS
  <1>1. /\ Phase(e) = "handshake" /\ AfterStep(e) /\ UNCHANGED <<taken, delivered>>
        /\ endpoint[f].step = endpoint[e].step + 1
        /\ wire'[e] = Tail(wire[e]) /\ wire[e] # <<>> /\ wire'[f] = wire[f]
        /\ wire' \in [End -> Seq(RawFrame \cup CipherFrame)]
    BY <1>f, ReadRawDoes
  <1>2. endpoint'[e].step = endpoint[e].step + 1 /\ endpoint'[f] = endpoint[f] /\ endpoint[e].step \in 1..5
    BY <1>1, <1>f, AfterStepDoes DEF EndNow
  <1>v. /\ endpoint[e] \in EndpointRecord /\ Other(f) = e /\ Len(wire[e]) \in Nat
        /\ Stream(endpoint[e], delivered[e], wire[e], Unread(e), endpoint[f], job[f], taken[f])
        /\ Stream(endpoint[f], delivered[f], wire[f], Unread(f), endpoint[e], job[e], taken[e])
    BY <1>f, Views
  <1>3. Unread(f)' = Unread(f) /\ Unread(e) = 1 /\ Unread(e)' = 0
    BY <1>1, <1>2, <1>f, <1>v DEF Unread
  <1>4. Len(wire'[e]) = Len(wire[e]) - 1 /\ Len(wire[e]) > 0 /\ \A i \in 1..Len(wire'[e]) : wire'[e][i] = wire[e][i + 1]
    <2>1. wire[e] \in Seq(RawFrame \cup CipherFrame)
      BY DEF WireInv, WireType
    <2>2. Len(wire[e]) > 0
      BY <1>1, <2>1
    <2> QED BY <1>1, <2>1, <2>2, HeadTailProperties
  <1>5. Stream(endpoint[e], delivered[e], wire'[e], 0, endpoint[f], job[f], taken[f])
    <2>1. WithoutFirst(wire[e], wire'[e])
      BY <1>4, <1>v DEF WithoutFirst
    <2> QED BY <1>3, <1>v, <2>1, RawReadStream
  <1> QED BY <1>1, <1>3, <1>5, <1>f, <1>v, HandshakeStep

LEMMA StreamInit == WireInit => StreamInv
  <1> SUFFICES ASSUME WireInit, NEW e \in End PROVE
        /\ Stream(endpoint[e], delivered[e], wire[e], Unread(e), endpoint[Other(e)], job[Other(e)], taken[Other(e)])
        /\ Got(endpoint[e], delivered[e], endpoint[Other(e)].torn, taken[Other(e)])
        /\ IdentityFirst(endpoint[e], job[e], taken[e])
    BY DEF StreamInv
  <1>f. PICK f : f = Other(e) /\ f \in End
    BY OtherEnd
  <1>1. /\ wire[e] = <<>> /\ delivered[e] = <<>> /\ taken[f] = <<>> /\ taken[e] = <<>>
        /\ endpoint[e].step = 1 /\ endpoint[f].step = 1 /\ endpoint[e].rx = 0 /\ endpoint[e].want = 0
        /\ endpoint[e].parts = <<>> /\ endpoint[e].why = "none" /\ endpoint[e].phase = "handshake"
        /\ endpoint[f].torn = FALSE /\ endpoint[f].cut = FALSE /\ endpoint[f].tx = 0
        /\ \A t \in Thread : job[f][t] = NoJob
    BY <1>f DEF WireInit
  <1>2. Unread(e) = 0
    BY <1>1, <1>f DEF Unread
  <1> DEFINE m == [n \in 0..0 |-> 1]
             p == [n \in 0..0 |-> 0]
  <1>3. Schedule(<<>>, 0, m, p) /\ m[0] = 1 /\ p[0] = 0
    BY DEF Schedule
  <1> HIDE DEF m, p
  <1>4. ReaderAt(endpoint[e], <<>>, <<>>, 0, m, p)
    BY <1>1, <1>3 DEF ReaderAt
  <1>5. FramesAt(<<>>, 0, endpoint[e].rx, endpoint[f].torn, <<>>, 0, m, p)
    BY <1>1 DEF FramesAt
  <1>6. WriterAt(endpoint[f], job[f], <<>>, 0, m, p)
    BY <1>1, <1>3 DEF WriterAt, InWrite, NoJob
  <1>7. StreamAt(endpoint[e], <<>>, <<>>, 0, endpoint[f], job[f], <<>>, 0, m, p)
    BY <1>3, <1>4, <1>5, <1>6 DEF StreamAt
  <1>8. Stream(endpoint[e], <<>>, <<>>, 0, endpoint[f], job[f], <<>>)
    BY <1>7 DEF Stream
  <1>9. Got(endpoint[e], <<>>, endpoint[f].torn, <<>>)
    BY <1>1 DEF Got
  <1>10. IdentityFirst(endpoint[e], job[e], <<>>)
    BY <1>1 DEF IdentityFirst
  <1> QED BY <1>1, <1>2, <1>8, <1>9, <1>10, <1>f

LEMMA StreamInvKept == WireInv /\ StreamInv /\ [WireNext]_wireVars => StreamInv'
  <1> SUFFICES ASSUME WireInv, StreamInv, [WireNext]_wireVars PROVE StreamInv'
    OBVIOUS
  <1>1. CASE UNCHANGED wireVars
    BY <1>1 DEF wireVars, StreamInv, Unread
  <1>2. ASSUME NEW e \in End, ReadFails(e) PROVE StreamInv'
    BY <1>2, ReadFailsDoes, CloseKeeps
  <1> QED BY <1>1, <1>2, SendRawKeeps, ReadRawKeeps, ReadFrameKeeps, AnnounceKeeps, LockKeeps,
             EncryptKeeps, WriteKeeps, WriteFailsKeeps DEF WireNext

(***************************************************************************)
(* Over every behaviour of a connection, an end hands on exactly the       *)
(* messages that the other end took the socket for, whole, in that order   *)
(* and without a gap, the identity first; and it finds a frame that it     *)
(* cannot decrypt only after a write that failed (`noise_write`,           *)
(* `noise_read`, `pq_authenticate`).                                       *)
(***************************************************************************)
THEOREM MessagesInOrder == WireSpec => []DeliveredInOrder
  <1>1. WireInv /\ StreamInv => DeliveredInOrder
    <2> SUFFICES ASSUME WireInv, StreamInv, NEW e \in End
                 PROVE  LET sent == taken[Other(e)]
                        IN /\ IsPrefix(delivered[e], [i \in DOMAIN sent |-> WholeMessage(sent[i])])
                           /\ endpoint[e].why # "auth"
                           /\ endpoint[e].why = "garbled" => endpoint[Other(e)].torn
      BY DEF DeliveredInOrder
    <2>f. PICK f : f = Other(e)
      OBVIOUS
    <2>1. /\ Got(endpoint[e], delivered[e], endpoint[f].torn, taken[f])
          /\ delivered[e] \in Seq(Seq(Message)) /\ taken[f] \in Seq(Message)
      BY <2>f, Views
    <2>2. PICK d, sent, all : d = delivered[e] /\ sent = taken[f] /\ all = [i \in DOMAIN sent |-> WholeMessage(sent[i])]
      OBVIOUS
    <2>3. /\ d \in Seq(Seq(Message)) /\ sent \in Seq(Message)
          /\ \A k \in 1..Len(d) : k <= Len(sent) /\ d[k] = WholeMessage(sent[k])
      BY <2>1, <2>2 DEF Got
    <2>4. Len(d) \in Nat /\ Len(sent) \in Nat /\ DOMAIN sent = 1..Len(sent)
      BY <2>3
    <2>5. Len(d) <= Len(sent)
      <3>1. CASE Len(d) = 0
        BY <2>4, <3>1
      <3>2. CASE Len(d) > 0
        <4>1. Len(d) \in 1..Len(d)
          BY <2>4, <3>2
        <4> QED BY <2>3, <4>1
      <3> QED BY <2>4, <3>1, <3>2
    <2>6. all = [i \in 1..Len(sent) |-> WholeMessage(sent[i])] /\ Len(all) = Len(sent)
      BY <2>2, <2>4
    <2>7. \A k \in 1..Len(d) : d[k] = all[k]
      BY <2>3, <2>4, <2>5, <2>6
    <2>8. IsPrefix(d, all)
      BY <2>3, <2>4, <2>5, <2>6, <2>7 DEF IsPrefix
    <2> QED BY <2>1, <2>2, <2>8, <2>f DEF Got
  <1>2. WireInit => WireInv /\ StreamInv
    BY WireInitInv, StreamInit
  <1>3. WireInv /\ StreamInv /\ [WireNext]_wireVars => (WireInv /\ StreamInv)'
    BY WireInvKept, StreamInvKept
  <1> QED BY <1>1, <1>2, <1>3, PTL DEF WireSpec
=============================================================================
