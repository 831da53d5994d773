------------------------------ MODULE AddrMan ------------------------------
(***************************************************************************)
(* The address manager: buckets of new addresses, buckets of tried ones,   *)
(* and the queue of feelers.  The node calls `add` when it learns of an    *)
(* address; the other operations are open to any order of calls.  Times    *)
(* and attempt counts, which no operation reads, are left out.             *)
(*                                                                         *)
(* D_Xxx is D with the mistake Xxx, to see that a property notices it.     *)
(***************************************************************************)
EXTENDS Integers, Sequences, SequencesExt, FiniteSetsExt

CONSTANTS
    Addr,                     \* addresses
    NEW_BUCKETS, TRIED_BUCKETS, \* buckets of each table
    NewBucketOf, TriedBucketOf, \* bucket of each address, the hash of `bucket_for`
    ADDRS_PER_BUCKET,         \* most addresses in one bucket
    MAX_ADDRS_TOTAL,          \* addresses at which no more are added
    MaxFeelers                \* bound: length of the feeler queue

ASSUME AddrConstants ==
    /\ NEW_BUCKETS \in Nat /\ NewBucketOf \in [Addr -> 1..NEW_BUCKETS]
    /\ TRIED_BUCKETS \in Nat /\ TriedBucketOf \in [Addr -> 1..TRIED_BUCKETS]
    /\ ADDRS_PER_BUCKET \in Nat \ {0} /\ MAX_ADDRS_TOTAL \in Nat /\ MaxFeelers \in Nat

VARIABLES
    newTable,    \* the buckets, in each the oldest address first
    triedTable,
    feelers,     \* the last one goes first
    feeler       \* history: the feeler last handed out, or {}

addrVars == <<newTable, triedTable, feelers, feeler>>

Members(table) == UNION {ToSet(table[i]) : i \in DOMAIN table}
Entries(table) == FoldLeft(LAMBDA s, bucket : s \o bucket, <<>>, table)
Count(table) == Len(Entries(table))

AddrInit ==
    /\ newTable = [i \in 1..NEW_BUCKETS |-> <<>>]
    /\ triedTable = [i \in 1..TRIED_BUCKETS |-> <<>>]
    /\ feelers = <<>>
    /\ feeler = {}

(***************************************************************************)
(* Into a bucket, which loses its oldest address when it is full.          *)
(***************************************************************************)
Push(bucket, a) ==
    Append(IF Len(bucket) >= ADDRS_PER_BUCKET THEN Tail(bucket) ELSE bucket, a)

Add(a) ==
    /\ a \notin Members(newTable) \cup Members(triedTable)
    /\ Count(newTable) + Count(triedTable) < MAX_ADDRS_TOTAL
    /\ Len(feelers) < MaxFeelers
    /\ newTable' = [newTable EXCEPT ![NewBucketOf[a]] = Push(@, a)]
    /\ feelers' = IF a \in ToSet(feelers) THEN feelers ELSE Append(feelers, a)
    /\ feeler' = {}
    /\ UNCHANGED triedTable

(***************************************************************************)
(* `good` promotes an address.  An address that the manager does not know  *)
(* is entered, whatever the total is.                                      *)
(***************************************************************************)
WithoutAddr(s, a) == FoldLeft(LAMBDA r, x : IF x = a THEN r ELSE Append(r, x), <<>>, s)

Forget_OwnBucketFull(table, a) ==
    [i \in DOMAIN table |-> IF Len(table[i]) >= ADDRS_PER_BUCKET THEN table[i] ELSE WithoutAddr(table[i], a)]
Forget(table, a) == [i \in DOMAIN table |-> WithoutAddr(table[i], a)]

Good(a) ==
    /\ newTable' = Forget(newTable, a)
    /\ feelers' = WithoutAddr(feelers, a)
    /\ triedTable' =
          IF a \in ToSet(triedTable[TriedBucketOf[a]]) THEN triedTable
          ELSE [triedTable EXCEPT ![TriedBucketOf[a]] = Push(@, a)]
    /\ feeler' = {}

(***************************************************************************)
(* The candidates of `select`: tried ones first, then new ones, in the     *)
(* order of the buckets.  The network groups are collected and not used.   *)
(***************************************************************************)
SelectAddrs(n, exclude) ==
    FoldLeft(LAMBDA out, x : IF Len(out) >= n \/ x \in exclude \/ x \in ToSet(out) THEN out ELSE Append(out, x),
             <<>>, Entries(triedTable) \o Entries(newTable))

(***************************************************************************)
(* `select_feeler`: from the end of the queue, dropping what is not new.   *)
(***************************************************************************)
StillNew(a) == a \in Members(newTable)

SelectFeeler ==
    /\ feelers # <<>>
    /\ LET fit == {i \in DOMAIN feelers : StillNew(feelers[i])}
       IN IF fit = {} THEN feelers' = <<>> /\ feeler' = {}
          ELSE /\ feelers' = SubSeq(feelers, 1, Max(fit) - 1)
               /\ feeler' = {feelers[Max(fit)]}
    /\ UNCHANGED <<newTable, triedTable>>

AddrNext ==
    \/ \E a \in Addr : Add(a) \/ Good(a)
    \/ SelectFeeler

AddrSpec == AddrInit /\ [][AddrNext]_addrVars

-----------------------------------------------------------------------------
(***************************************************************************)
(* However addresses are added, promoted, pushed out of their buckets and  *)
(* added again, each is at one place only: `len`, which limits the total,  *)
(* counts none twice, and `select` finds as many candidates as it is asked *)
(* for whenever there are as many (`select` takes none twice); and a       *)
(* feeler that is handed out was new and not tried, although the queue     *)
(* keeps addresses that their bucket has lost (`select_feeler`, "new addrs *)
(* not yet tried").                                                        *)
(***************************************************************************)
OnePlaceOnly ==
    /\ Count(newTable) + Count(triedTable) = Cardinality(Members(newTable) \cup Members(triedTable))
    /\ \A n \in 0..(Count(newTable) + Count(triedTable)) : Len(SelectAddrs(n, {})) = n
    /\ feeler \subseteq Members(newTable) \ Members(triedTable)
=============================================================================
