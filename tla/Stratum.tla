------------------------------ MODULE Stratum ------------------------------
(***************************************************************************)
(* The pool endpoint: workers that authorize and submit shares, jobs with  *)
(* the nonces seen, bans and a share difficulty that follows the worker.   *)
(* Of the accepted shares the entry keeps the number modulo RaiseEvery, of *)
(* the rejected ones the number up to one above LowerAfter, which is what  *)
(* the code asks of them.                                                  *)
(*                                                                         *)
(* D_Xxx is D with the mistake Xxx, to see that a property notices it.     *)
(***************************************************************************)
EXTENDS Integers, Sequences, SequencesExt, FiniteSetsExt

CONSTANTS
    Worker, ShareNonce,
    WorkOf,                   \* [ShareNonce -> Nat], the difficulty its hash meets
    NetDifficulty,            \* difficulty of a job
    DEFAULT_SHARE_DIFFICULTY, MIN_SHARE_DIFFICULTY, MAX_SHARE_DIFFICULTY,
    MAX_STRATUM_WORKERS,      \* entries at which a new name may not authorize
    MAX_SUBMITS_PER_WINDOW, SUBMIT_WINDOW_MS,
    MAX_CONSECUTIVE_REJECTS, WORKER_BAN_MS,
    MAX_JOB_AGE_MS,
    MAX_NONCES_PER_JOB,       \* nonces after which a job is dropped
    MaxJobs,                  \* jobs above which the older half is dropped
    RaiseEvery, LowerAfter,   \* accepted and rejected shares that move the difficulty
    MaxNow, MaxJobId          \* bounds: time, jobs made

\* Ids that are formatted from different numbers differ.
ASSUME JobIdsDiffer ==
    MaxJobId \in Nat /\ \A m, n \in 1..MaxJobId : ToString(m) = ToString(n) => m = n

VARIABLES
    now,
    workers,    \* name -> entry
    jobs,       \* id -> job
    nextJob,
    shares      \* accepted shares, as <<job, nonce>>

stratumVars == <<now, workers, jobs, nextJob, shares>>

StratumInit ==
    /\ now = 0
    /\ workers = [w \in {} |-> {}]
    /\ jobs = [j \in {} |-> {}]
    /\ nextJob = 1
    /\ shares = <<>>

NewWorker(authorized) ==
    [authorized |-> authorized, shareDiff |-> DEFAULT_SHARE_DIFFICULTY, accepted |-> 0,
     rejected |-> 0, consecutive |-> 0, windowStart |-> now, submits |-> 0, bannedUntil |-> 0]

With(f, k, v) == [x \in DOMAIN f \cup {k} |-> IF x = k THEN v ELSE f[x]]

(***************************************************************************)
(* A worker with the right password gets a fresh entry, a banned one too.  *)
(***************************************************************************)
Authorize(w) ==
    /\ w \in DOMAIN workers \/ Cardinality(DOMAIN workers) < MAX_STRATUM_WORKERS
    /\ workers' = With(workers, w, NewWorker(TRUE))
    /\ UNCHANGED <<now, jobs, nextJob, shares>>

(***************************************************************************)
(* `make_notify`: a job with the next id; above the limit the older half,  *)
(* in an order that equal times leave open, goes.                          *)
(***************************************************************************)
JobId_Count == ToString(Cardinality(DOMAIN jobs) + 1)
JobId == ToString(nextJob)

MakeNotify ==
    /\ nextJob <= MaxJobId
    /\ LET all == With(jobs, JobId, [created |-> now, seen |-> {}])
           n == Cardinality(DOMAIN all)
       IN \E drop \in SUBSET DOMAIN all :
            /\ Cardinality(drop) = IF n > MaxJobs THEN n \div 2 ELSE 0
            /\ \A j \in drop, k \in DOMAIN all \ drop : all[j].created <= all[k].created
            /\ jobs' = [j \in DOMAIN all \ drop |-> all[j]]
    /\ nextJob' = nextJob + 1
    /\ UNCHANGED <<now, workers, shares>>

-----------------------------------------------------------------------------
(***************************************************************************)
(* `submit`.  Counted is the entry once the request is within its window.  *)
(***************************************************************************)
Counted(e) ==
    LET fresh == now - e.windowStart >= SUBMIT_WINDOW_MS
    IN [e EXCEPT !.windowStart = IF fresh THEN now ELSE @,
                 !.submits = IF fresh THEN 1 ELSE @ + 1]

Rejected(e) ==
    [e EXCEPT !.rejected = Min({@ + 1, LowerAfter + 1}), !.consecutive = @ + 1]

BanIfOver(e) ==
    [e EXCEPT !.bannedUntil = IF e.consecutive >= MAX_CONSECUTIVE_REJECTS THEN now + WORKER_BAN_MS ELSE @]

Lowered(e) ==
    [e EXCEPT !.shareDiff = IF e.rejected > LowerAfter /\ @ > MIN_SHARE_DIFFICULTY
                            THEN Max({@ \div 2, MIN_SHARE_DIFFICULTY}) ELSE @]

Accepted(e) ==
    [e EXCEPT !.accepted = (@ + 1) % RaiseEvery, !.consecutive = 0,
              !.shareDiff = IF (e.accepted + 1) % RaiseEvery = 0
                            THEN Min({2 * @, MAX_SHARE_DIFFICULTY}) ELSE @]

Target(e) == Min({e.shareDiff, Max({NetDifficulty, MIN_SHARE_DIFFICULTY})})

(***************************************************************************)
(* Refusals before the job is looked at: no authority, a ban, the budget.  *)
(***************************************************************************)
BanOver(e) == now >= e.bannedUntil

RefuseEarly(w) ==
    /\ LET e == IF w \in DOMAIN workers THEN workers[w] ELSE NewWorker(FALSE)
       IN \/ /\ ~e.authorized
             /\ workers' = With(workers, w, [e EXCEPT !.rejected = Min({@ + 1, LowerAfter + 1})])
          \/ /\ e.authorized /\ BanOver(e)
             /\ Counted(e).submits > MAX_SUBMITS_PER_WINDOW
             /\ workers' = With(workers, w, [Counted(e) EXCEPT !.bannedUntil = now + WORKER_BAN_MS])
    /\ UNCHANGED <<now, jobs, nextJob, shares>>

(***************************************************************************)
(* The job is there: too old, the nonce seen, its budget spent, a share    *)
(* that meets the target, or one that does not.  An old job counts as a    *)
(* reject that never leads to a ban.                                       *)
(***************************************************************************)
Submit(w, j, nonce) ==
    /\ w \in DOMAIN workers /\ j \in DOMAIN jobs
    /\ workers[w].authorized /\ BanOver(workers[w])
    /\ LET e == Counted(workers[w])
           seen == jobs[j].seen \cup {nonce}
           Update(x) == workers' = [workers EXCEPT ![w] = x]
       IN /\ e.submits <= MAX_SUBMITS_PER_WINDOW
          /\ \/ /\ now - jobs[j].created > MAX_JOB_AGE_MS
                /\ Update(Rejected(e))
                /\ UNCHANGED <<jobs, shares>>
             \/ /\ now - jobs[j].created <= MAX_JOB_AGE_MS
                /\ nonce \in jobs[j].seen
                /\ Update(BanIfOver(Rejected(e)))
                /\ UNCHANGED <<jobs, shares>>
             \/ /\ now - jobs[j].created <= MAX_JOB_AGE_MS
                /\ nonce \notin jobs[j].seen
                /\ Cardinality(seen) > MAX_NONCES_PER_JOB
                /\ Update(e)
                /\ jobs' = [k \in DOMAIN jobs \ {j} |-> jobs[k]]
                /\ UNCHANGED shares
             \/ /\ now - jobs[j].created <= MAX_JOB_AGE_MS
                /\ nonce \notin jobs[j].seen
                /\ Cardinality(seen) <= MAX_NONCES_PER_JOB
                /\ jobs' = [jobs EXCEPT ![j].seen = seen]
                /\ IF WorkOf[nonce] >= Target(e)
                   THEN /\ Update(Accepted(e))
                        /\ shares' = Append(shares, <<j, nonce>>)
                   ELSE /\ Update(Lowered(BanIfOver(Rejected(e))))
                        /\ UNCHANGED shares
    /\ UNCHANGED <<now, nextJob>>

Wait ==
    /\ now < MaxNow
    /\ now' = now + 1
    /\ UNCHANGED <<workers, jobs, nextJob, shares>>

StratumNext ==
    \/ \E w \in Worker : Authorize(w) \/ RefuseEarly(w)
    \/ \E w \in Worker, j \in DOMAIN jobs, n \in ShareNonce : Submit(w, j, n)
    \/ MakeNotify
    \/ Wait

StratumSpec == StratumInit /\ [][StratumNext]_stratumVars

-----------------------------------------------------------------------------
(***************************************************************************)
(* The same work is credited once: no two accepted shares have the same    *)
(* job and nonce, whoever sends them, also after the job was dropped for   *)
(* its age or its budget (`submit`, `make_notify`).                        *)
(***************************************************************************)
ShareCreditedOnce == IsInjective(shares)
=============================================================================
