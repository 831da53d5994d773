--------------------------- MODULE FinalityProofs ---------------------------
(***************************************************************************)
(* Proofs about FinalityChain, for any set of blocks, any score gains and  *)
(* any finality depth.                                                     *)
(***************************************************************************)
EXTENDS FinalityChain, TLAPS

IInv == TypeOK /\ ChainsAreTree /\ TipIsBest

(***************************************************************************)
(* What one added block changes: the chain and the score of every block    *)
(* known before stay as they were.                                         *)
(***************************************************************************)
LEMMA AddedBlock ==
    ASSUME TypeOK, NEW b \in Block, NEW p \in known, NEW g \in Gain, AddBlock(b, p, g)
    PROVE  /\ known' = known \cup {b}
           /\ b \notin known
           /\ \A x \in known : chain'[x] = chain[x] /\ score'[x] = score[x]
           /\ chain'[b] = chain[p] \cup {b}
           /\ score'[b] = score[p] + g
           /\ score[p] \in Nat /\ g \in Nat /\ g > 0
           /\ chain[p] \subseteq known
  BY FinalityConstants DEF AddBlock, NewScore, TypeOK

LEMMA TypeStep ==
    ASSUME TypeOK, NEW b \in Block, NEW p \in known, NEW g \in Gain, AddBlock(b, p, g)
    PROVE  TypeOK'
  <1>1. known' \subseteq Block
    BY DEF AddBlock, NewScore, TypeOK
  <1>2. chain' \in [known' -> SUBSET known']
    BY DEF AddBlock, NewScore, TypeOK
  <1>3. score' \in [known' -> Nat]
    <2>1. score[p] \in Nat /\ g \in Nat
      BY FinalityConstants DEF TypeOK
    <2>2. score[p] + g \in Nat
      BY <2>1
    <2> QED BY <2>2 DEF AddBlock, NewScore, TypeOK
  <1>4. tip' \in known'
    BY DEF AddBlock, NewScore, TypeOK
  <1> QED BY <1>1, <1>2, <1>3, <1>4 DEF TypeOK

(***************************************************************************)
(* A block is put on top of the chain of its selected parent with a higher *)
(* score, so the chains keep forming a tree.                               *)
(***************************************************************************)
LEMMA TreeStep ==
    ASSUME TypeOK, ChainsAreTree,
           NEW b \in Block, NEW p \in known, NEW g \in Gain, AddBlock(b, p, g)
    PROVE  ChainsAreTree'
  <1>1. /\ known' = known \cup {b} /\ b \notin known
        /\ \A x \in known : chain'[x] = chain[x] /\ score'[x] = score[x]
        /\ chain'[b] = chain[p] \cup {b} /\ score'[b] = score[p] + g
        /\ score[p] \in Nat /\ g \in Nat /\ g > 0
        /\ chain[p] \subseteq known
    BY AddedBlock
  <1>2. \A x \in known : score[x] \in Nat /\ chain[x] \subseteq known
    BY DEF TypeOK
  <1>3. \A x \in chain[p] : score[x] < score'[b]
    BY <1>1, <1>2 DEF ChainsAreTree
  <1>4. ASSUME NEW c \in known'
        PROVE  /\ c \in chain'[c]
               /\ \A x \in chain'[c] : score'[x] <= score'[c] /\ chain'[x] \subseteq chain'[c]
               /\ \A x, y \in chain'[c] : score'[x] <= score'[y] => x \in chain'[y]
    <2>1. CASE c \in known
      BY <2>1, <1>1, <1>2 DEF ChainsAreTree
    <2>2. CASE c = b
      <3>1. c \in chain'[c]
        BY <2>2, <1>1
      <3>2. \A x \in chain'[c] : score'[x] <= score'[c]
        BY <2>2, <1>1, <1>2, <1>3
      <3>3. \A x \in chain'[c] : chain'[x] \subseteq chain'[c]
        BY <2>2, <1>1, <1>2 DEF ChainsAreTree
      <3>4. ASSUME NEW x \in chain'[c], NEW y \in chain'[c], score'[x] <= score'[y]
            PROVE  x \in chain'[y]
        <4>1. CASE y = b
          BY <4>1, <2>2
        <4>2. CASE y # b /\ x = b
          BY <4>2, <3>4, <2>2, <1>1, <1>2, <1>3
        <4>3. CASE y # b /\ x # b
          BY <4>3, <3>4, <2>2, <1>1, <1>2 DEF ChainsAreTree
        <4> QED BY <4>1, <4>2, <4>3
      <3> QED BY <3>1, <3>2, <3>3, <3>4
    <2> QED BY <2>1, <2>2, <1>1
  <1> QED BY <1>4 DEF ChainsAreTree

LEMMA TipStep ==
    ASSUME TypeOK, TipIsBest,
           NEW b \in Block, NEW p \in known, NEW g \in Gain, AddBlock(b, p, g)
    PROVE  TipIsBest'
  <1>1. /\ known' = known \cup {b} /\ b \notin known
        /\ \A x \in known : score'[x] = score[x]
        /\ score'[b] = score[p] + g
        /\ score[p] \in Nat /\ g \in Nat
    BY AddedBlock
  <1>2. \A x \in known : score[x] \in Nat /\ x \in Nat
    BY FinalityConstants DEF TypeOK
  <1>3. tip \in known /\ b \in Nat
    BY FinalityConstants DEF TypeOK
  <1>4. CASE Beats(b, NewScore(p, g))
    BY <1>1, <1>2, <1>3, <1>4 DEF TipIsBest, AddBlock, NewScore, Beats
  <1>5. CASE ~Beats(b, NewScore(p, g))
    BY <1>1, <1>2, <1>3, <1>5 DEF TipIsBest, AddBlock, NewScore, Beats
  <1> QED BY <1>4, <1>5

LEMMA InvariantInit == Init => IInv
  BY FinalityConstants DEF Init, IInv, TypeOK, ChainsAreTree, TipIsBest

LEMMA InvariantStep == IInv /\ [Next]_vars => IInv'
  <1> SUFFICES ASSUME IInv, [Next]_vars PROVE IInv'
    OBVIOUS
  <1>1. CASE Next
    BY <1>1, TypeStep, TreeStep, TipStep DEF Next, IInv
  <1>2. CASE UNCHANGED vars
    BY <1>2 DEF vars, IInv, TypeOK, ChainsAreTree, TipIsBest
  <1> QED BY <1>1, <1>2

(***************************************************************************)
(* In every reachable state the maps are well typed, the selected chains   *)
(* form a tree and the selected tip is the best known block.               *)
(***************************************************************************)
THEOREM ChainInvariant == Spec => [](TypeOK /\ ChainsAreTree /\ TipIsBest)
  BY InvariantInit, InvariantStep, PTL DEF Spec, IInv

-----------------------------------------------------------------------------
(***************************************************************************)
(* Everything final is on the chain of the finality point, and so on every *)
(* chain that contains the finality point.                                 *)
(***************************************************************************)
LEMMA FinalOnChain ==
    ASSUME TypeOK, ChainsAreTree, NEW p \in known, DescendsFromFinalityPoint(p)
    PROVE  Final \subseteq chain[p]
  <1>1. CASE Final = {}
    BY <1>1
  <1>2. CASE Final # {}
    <2>1. PICK fp \in Final : IsFinalityPoint(fp) /\ fp \in chain[p]
      BY <1>2 DEF DescendsFromFinalityPoint
    <2>2. \A x \in Final : x \in chain[tip] /\ score[x] <= score[fp]
      BY <2>1 DEF Final, IsFinalityPoint
    <2>3. Final \subseteq chain[fp]
      BY <2>1, <2>2 DEF ChainsAreTree, TypeOK, Final
    <2>4. chain[fp] \subseteq chain[p]
      BY <2>1 DEF ChainsAreTree
    <2> QED BY <2>3, <2>4
  <1> QED BY <1>1, <1>2

LEMMA FinalStep ==
    ASSUME TypeOK, ChainsAreTree, [Next]_vars
    PROVE  Final \subseteq Final'
  <1>1. CASE UNCHANGED vars
    BY <1>1 DEF vars, Final
  <1>2. CASE Next
    <2>1. PICK b \in Block, p \in known, g \in Gain : AddBlock(b, p, g)
      BY <1>2 DEF Next
    <2>2. /\ b \notin known
          /\ \A x \in known : chain'[x] = chain[x] /\ score'[x] = score[x]
          /\ chain'[b] = chain[p] \cup {b} /\ score'[b] = score[p] + g
          /\ score[p] \in Nat /\ g \in Nat
      BY <2>1, AddedBlock
    <2>3. tip \in known /\ chain[tip] \subseteq known /\ \A x \in known : score[x] \in Nat
      BY DEF TypeOK
    <2>4. CASE tip' = tip
      BY <2>2, <2>3, <2>4 DEF Final
    <2>5. CASE tip' # tip
      <3>1. tip' = b /\ score'[b] >= score[tip]
        BY <2>1, <2>2, <2>3, <2>5 DEF AddBlock, NewScore, Beats
      <3>2. Final \subseteq chain'[tip']
        BY <2>1, <2>2, <3>1, FinalOnChain DEF AddBlock
      <3>3. ASSUME NEW x \in Final
            PROVE  score'[tip'] > Depth /\ score'[x] <= score'[tip'] - Depth
        BY <2>2, <2>3, <3>1, FinalityConstants DEF Final
      <3> QED BY <3>2, <3>3 DEF Final
    <2> QED BY <2>4, <2>5
  <1> QED BY <1>1, <1>2

(***************************************************************************)
(* What is final stays final, for every finality depth: the finality rule  *)
(* of `add_block` alone guarantees it.                                     *)
(***************************************************************************)
THEOREM FinalityHolds == Spec => FinalGrows
  <1>1. Spec => [](TypeOK /\ ChainsAreTree)
    BY ChainInvariant, PTL
  <1>2. TypeOK /\ ChainsAreTree /\ [Next]_vars => [Final \subseteq Final']_vars
    BY FinalStep
  <1> QED BY <1>1, <1>2, PTL DEF Spec, FinalGrows
=============================================================================
