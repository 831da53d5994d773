----------------------------- MODULE MCServices -----------------------------
(***************************************************************************)
(* Small instances of the parts of a node that share no state with each    *)
(* other.  Each behaviour runs one of them, the one that `part` names, so  *)
(* that their state spaces add up rather than multiply.                    *)
(***************************************************************************)
EXTENDS FinalityChain, AddrMan, RateLimit, VersionBits, Stratum, Indexer, Reachability, Vault, FeeHistory, HttpServer, Wire, Socks, PeerBudget

CONSTANTS Parts, a1, a2, a3, a4, g0, b1, b2, c1, c2, c3

VARIABLE part

MCNewBucketOf == (a1 :> 1) @@ (a2 :> 1) @@ (a3 :> 1) @@ (a4 :> 2)
MCTriedBucketOf == (a1 :> 1) @@ (a2 :> 1) @@ (a3 :> 2) @@ (a4 :> 2)
MCWorkOf == [n \in 1..3 |-> n]
MCSelectedParent == (b1 :> g0) @@ (b2 :> b1) @@ (c1 :> g0) @@ (c2 :> b1) @@ (c3 :> c2)

MCParty == {"buyer", "seller", "other"}
Coin(v, p, mined) == [value |-> v, pred |-> p, born |-> 0, mined |-> mined]
MCVaultCoins == (<<0, 1>> :> Coin(10, PayTo("buyer"), TRUE))
             @@ (<<0, 2>> :> Coin(4, Both(HashLock("x"), Either(RelativeLock("seller", 1), MultiSig(2, {"other", "buyer"}))), FALSE))
             @@ (<<0, 3>> :> Coin(5, ExactValue(5, Either(HashLock("x"), Both(AnnulAfter("other", 2), PayTo("other")))), FALSE))
MCLeaf == {Signature, Preimage("x"), CosignerAddress("seller"), CosignerSig("seller", FALSE)}
      \cup {CosignerSig(p, TRUE) : p \in {"buyer", "seller"}}
MCOnes == {Stack(<<x>>) : x \in MCLeaf}
MCShort == MCLeaf \cup MCOnes \cup {Stack(<<Preimage("x"), x>>) : x \in MCLeaf} \cup {Stack(<<x, x>>) : x \in MCLeaf}
MCWitnesses == MCShort \cup {Stack(<<x>>) : x \in MCShort}
      \cup {Stack(<<Preimage("x"), x>>) : x \in MCShort \cup {Stack(<<y>>) : y \in MCOnes}}
Pays(c, w, signer, outs, fee, lock) == [Draft(c, w, outs, fee, signer) EXCEPT !.lock = lock]
MCCandidates ==
   {Pays(<<0, 3>>, Preimage("x"), "other", <<Out(1, CreditAccount("other")), Out(2, p)>>, 2, 0) : p \in {PayTo("seller"), Either(HashLock("x"), CreditAccount("other"))}}
   \cup {Pays(<<0, 3>>, Preimage("x"), "other", <<Out(1, CreditAccount("other"))>>, 4, 1)}
   \cup {Pays(<<0, 2>>, Stack(<<Preimage("x"), w>>), s, <<Out(2, CreditAccount("buyer"))>>, 2, 0) : w \in {Signature, Stack(<<Stack(<<CosignerSig("buyer", TRUE)>>)>>)}, s \in {"seller", "other"}}
   \cup {Pays(<<n, 1>>, w, s, <<Out(3, PayTo("other"))>>, 2, 0) : n \in 1..2, s \in {"seller", "buyer"}, w \in {Signature, Stack(<<Stack(<<CosignerAddress("buyer")>>)>>), Stack(<<Stack(<<CosignerSig("seller", TRUE)>>)>>)}}

HttpAsk(kind, declared, origin, token) == [kind |-> kind, head |-> 2, declared |-> declared, origin |-> origin, token |-> token]
MCHttpRequest == {HttpAsk("static", 0, "none", FALSE), HttpAsk("events", 0, "none", FALSE), HttpAsk("read", 4, "none", FALSE)}
      \cup {HttpAsk("write", 2, "local", FALSE), HttpAsk("write", 2, "foreign", TRUE), HttpAsk("write", 2, "listed", TRUE)}

MCPartsOf == ("Identity" :> 1) @@ ("Hello" :> 1) @@ ("Inv" :> 1) @@ ("Get" :> 1) @@ ("Body" :> 2)

MCHost == {[kind |-> "name", len |-> n] : n \in 0..4} \cup {[kind |-> k, len |-> 2] : k \in {"ip4", "ip6"}}

MCFeerate == ("t1" :> 1) @@ ("t2" :> 2)
MCFeeTarget == <<2, 1, 0>>

allVars == <<part, vars, addrVars, rateVars, walk, stratumVars, indexVars, dagIndex, vaultVars, feeVars, httpVars, wireVars, socksVars, budgetVars>>

VaultIdle ==
    /\ ledger = [coins |-> <<>>, accounts |-> [p \in Party |-> 0], fees |-> 0]
    /\ pool = {} /\ blue = 0 /\ applied = 0

MCInit ==
    /\ part \in Parts
    /\ Init /\ AddrInit /\ RateInit /\ VbInit /\ StratumInit /\ IndexInit
    /\ IF part = "vault" THEN VaultInit ELSE VaultIdle
    /\ FeeInit /\ HttpInit /\ WireInit /\ SocksInit /\ BudgetInit
    /\ IndexedInit /\ (part # "reach" => dagIndex.archival)

Only(name, step, others) == part = name /\ step /\ UNCHANGED <<part, others>>

MCNext ==
    \/ Only("finality", Next, <<addrVars, rateVars, walk, stratumVars, indexVars, dagIndex, vaultVars, feeVars, httpVars, wireVars, socksVars, budgetVars>>)
    \/ Only("addresses", AddrNext, <<vars, rateVars, walk, stratumVars, indexVars, dagIndex, vaultVars, feeVars, httpVars, wireVars, socksVars, budgetVars>>)
    \/ Only("limits", RateNext, <<vars, addrVars, walk, stratumVars, indexVars, dagIndex, vaultVars, feeVars, httpVars, wireVars, socksVars, budgetVars>>)
    \/ Only("versions", ExtendChain, <<vars, addrVars, rateVars, stratumVars, indexVars, dagIndex, vaultVars, feeVars, httpVars, wireVars, socksVars, budgetVars>>)
    \/ Only("stratum", StratumNext, <<vars, addrVars, rateVars, walk, indexVars, dagIndex, vaultVars, feeVars, httpVars, wireVars, socksVars, budgetVars>>)
    \/ Only("index", IndexNext, <<vars, addrVars, rateVars, walk, stratumVars, dagIndex, vaultVars, feeVars, httpVars, wireVars, socksVars, budgetVars>>)
    \/ Only("reach", IndexedNext, <<vars, addrVars, rateVars, walk, stratumVars, indexVars, vaultVars, feeVars, httpVars, wireVars, socksVars, budgetVars>>)
    \/ Only("vault", VaultNext, <<vars, addrVars, rateVars, walk, stratumVars, indexVars, dagIndex, feeVars, httpVars, wireVars, socksVars, budgetVars>>)
    \/ Only("fees", FeeNext, <<vars, addrVars, rateVars, walk, stratumVars, indexVars, dagIndex, vaultVars, httpVars, wireVars, socksVars, budgetVars>>)
    \/ Only("http", HttpNext, <<vars, addrVars, rateVars, walk, stratumVars, indexVars, dagIndex, vaultVars, feeVars, wireVars, socksVars, budgetVars>>)
    \/ Only("wire", WireNext, <<vars, addrVars, rateVars, walk, stratumVars, indexVars, dagIndex, vaultVars, feeVars, httpVars, socksVars, budgetVars>>)
    \/ Only("budget", BudgetNext, <<vars, addrVars, rateVars, walk, stratumVars, indexVars, dagIndex, vaultVars, feeVars, httpVars, wireVars, socksVars>>)
    \/ Only("socks", SocksNext, <<vars, addrVars, rateVars, walk, stratumVars, indexVars, dagIndex, vaultVars, feeVars, httpVars, wireVars, budgetVars>>)

MCSpec == MCInit /\ [][MCNext]_allVars
=============================================================================
