----------------------------- MODULE RateLimit -----------------------------
(***************************************************************************)
(* The request limiter of the API: a window with a count per address, a    *)
(* ban for those who keep on, and entries that are dropped when idle.      *)
(*                                                                         *)
(* D_Xxx is D with the mistake Xxx, to see that a property notices it.     *)
(***************************************************************************)
EXTENDS Integers, FiniteSetsExt

CONSTANTS
    Client,                   \* addresses
    MAX_REQUESTS_PER_WINDOW,  \* most requests granted in a window
    WINDOW,                   \* its length
    BAN_THRESHOLD,            \* requests in a window that lead to a ban
    BAN_DURATION,
    IP_ENTRY_TTL,             \* idle time after which an entry goes
    MaxClock                  \* bound: time

ASSUME RateConstants ==
    /\ MAX_REQUESTS_PER_WINDOW \in Nat
    /\ BAN_THRESHOLD \in Nat
    /\ {WINDOW, BAN_DURATION, IP_ENTRY_TTL, MaxClock} \subseteq Nat \ {0}
    /\ WINDOW <= BAN_DURATION
    /\ WINDOW <= IP_ENTRY_TTL

VARIABLES
    clock,
    ipState,    \* client -> entry
    granted,    \* history: requests granted to each client at each time
    bans        \* history: the bans, as <<client, from, until>>

rateVars == <<clock, ipState, granted, bans>>

NoBan == 0

RateInit ==
    /\ clock = 1
    /\ ipState = [c \in {} |-> {}]
    /\ granted = [c \in Client |-> [t \in 1..MaxClock |-> 0]]
    /\ bans = {}

(***************************************************************************)
(* The entries that survive at the start of `check`.                       *)
(***************************************************************************)
Survivors ==
    {c \in DOMAIN ipState : \/ clock - ipState[c].lastSeen < IP_ENTRY_TTL
                            \/ clock < ipState[c].bannedUntil}

Entry_EveryWindow(c) ==
    [windowStart |-> clock, lastSeen |-> clock, count |-> 0, bannedUntil |-> NoBan]
(***************************************************************************)
(* The entry of a client when the request is counted: new, released from   *)
(* its ban, in a new window, or as it was.                                 *)
(***************************************************************************)
Entry(c) ==
    LET fresh == [windowStart |-> clock, lastSeen |-> clock, count |-> 0, bannedUntil |-> NoBan]
        old == [ipState[c] EXCEPT !.lastSeen = clock]
    IN IF c \notin Survivors THEN fresh
       ELSE IF old.bannedUntil # NoBan \/ clock - old.windowStart >= WINDOW THEN fresh
       ELSE old

Banned(c) == c \in Survivors /\ clock < ipState[c].bannedUntil

Keep(c, e) == [x \in Survivors \cup {c} |-> IF x = c THEN e ELSE ipState[x]]

CheckRequest(c) ==
    /\ \/ /\ Banned(c)
          /\ ipState' = Keep(c, [ipState[c] EXCEPT !.lastSeen = clock])
          /\ UNCHANGED <<granted, bans>>
       \/ /\ ~Banned(c)
          /\ LET n == Entry(c).count + 1
             IN /\ ipState' = Keep(c, [Entry(c) EXCEPT !.count = n,
                       !.bannedUntil = IF n > BAN_THRESHOLD THEN clock + BAN_DURATION ELSE @])
                /\ bans' = IF n > BAN_THRESHOLD THEN bans \cup {<<c, clock, clock + BAN_DURATION>>} ELSE bans
                /\ granted' = IF n > MAX_REQUESTS_PER_WINDOW THEN granted
                              ELSE [granted EXCEPT ![c][clock] = @ + 1]
    /\ UNCHANGED clock

Tick ==
    /\ clock < MaxClock
    /\ clock' = clock + 1
    /\ UNCHANGED <<ipState, granted, bans>>

RateNext == Tick \/ \E c \in Client : CheckRequest(c)

RateSpec == RateInit /\ [][RateNext]_rateVars

-----------------------------------------------------------------------------
Burst(c, t) == MapThenSumSet(LAMBDA u : granted[c][u], {u \in 1..MaxClock : t <= u /\ u < t + WINDOW})

(***************************************************************************)
(* In any span as long as a window a client is granted at most two         *)
(* windows' worth of requests, whatever entries expire and bans end (the   *)
(* window starts anew at its end, so one budget is not met); and none from *)
(* a ban until its end, also when the window in which it was earned is     *)
(* long over (`check`).                                                    *)
(***************************************************************************)
GrantsAreBounded ==
    /\ \A c \in Client : \A t \in 1..MaxClock : Burst(c, t) <= 2 * MAX_REQUESTS_PER_WINDOW
    /\ \A x \in bans : \A t \in 1..MaxClock : x[2] < t /\ t < x[3] => granted[x[1]][t] = 0
=============================================================================
