---------------------------- MODULE ChainProofs -----------------------------
(***************************************************************************)
(* Proofs about the block DAG of archival nodes, for any set of blocks,    *)
(* any transactions, any K and any finality depth.                         *)
(***************************************************************************)
EXTENDS ChainState, Inductions, SequenceTheorems, TLAPS

-----------------------------------------------------------------------------
(***************************************************************************)
(* The folds of the model, each with the values that it runs through.      *)
(***************************************************************************)
ColorStep(past, acc, c) ==
    IF ColorCandidateBlue(past, acc.seen, c)
    THEN [acc EXCEPT !.seen = @ \cup {c}, !.blues = Append(@, c)]
    ELSE [acc EXCEPT !.reds = Append(@, c)]

ColorAt(past, base, seq, f, s) ==
    IF s = {} THEN base ELSE ColorStep(past, f[s \ {Max(s)}], seq[Max(s)])

IsColoring(past, base, seq, f) == f = [s \in SUBSET DOMAIN seq |-> ColorAt(past, base, seq, f, s)]

Coloring(past, base, seq) == (CHOOSE f : IsColoring(past, base, seq, f))[DOMAIN seq]

IsColorRun(past, A, base, seq, n, G) ==
    G \in [0..n -> A] /\ G[0] = base /\ \A i \in 1..n : G[i] = ColorStep(past, G[i - 1], seq[i])

LEMMA ColoringRuns ==
    ASSUME NEW past, NEW A, NEW V, NEW base \in A,
           NEW n \in Nat, NEW seq, DOMAIN seq = 1..n, IndexedIn(seq, n, V),
           \A a \in A : \A v \in V : ColorStep(past, a, v) \in A
    PROVE  \E G : IsColorRun(past, A, base, seq, n, G) /\ G[n] = Coloring(past, base, seq)
  <1>1. \A i \in 1..n : seq[i] \in V
    BY DEF IndexedIn
  <1>2. PICK F : F = [p \in A \X V |-> ColorStep(past, p[1], p[2])]
    OBVIOUS
  <1>3. \A a \in A : \A v \in V : F[<<a, v>>] = ColorStep(past, a, v)
    BY <1>2
  <1>4. F \in [A \X V -> A]
    <2>1. \A p \in A \X V : ColorStep(past, p[1], p[2]) \in A
      OBVIOUS
    <2> QED BY <1>2, <2>1
  <1>5. PICK f \in [SUBSET (1..n) -> A] : IsFoldOf(F, base, seq, 1..n, f)
    <2>1. IsFiniteSet(1..n) /\ \A y \in 1..n : y \in Nat
      BY FS_Interval
    <2> QED BY <1>1, <1>4, <2>1, FoldExists
  <1>6. IsColoring(past, base, seq, f)
    <2>1. ASSUME NEW s \in SUBSET (1..n) PROVE f[s] = ColorAt(past, base, seq, f, s)
      <3>1. f[s] = IF s = {} THEN base ELSE F[<<f[s \ {Max(s)}], seq[Max(s)]>>]
        BY <1>5 DEF IsFoldOf
      <3>2. CASE s # {}
        <4>1. Max(s) \in s
          BY <3>2, IndexMax
        <4>2. f[s \ {Max(s)}] \in A /\ seq[Max(s)] \in V
          BY <1>1, <1>5, <4>1
        <4> QED BY <1>3, <3>1, <3>2, <4>2 DEF ColorAt
      <3> QED BY <3>1, <3>2 DEF ColorAt
    <2>2. f = [s \in SUBSET (1..n) |-> ColorAt(past, base, seq, f, s)]
      BY <1>5, <2>1
    <2> QED BY <2>2 DEF IsColoring
  <1>7. PICK h : h = (CHOOSE g : IsColoring(past, base, seq, g)) /\ IsColoring(past, base, seq, h)
    BY <1>6
  <1>8. h[1..n] = Coloring(past, base, seq)
    BY <1>7 DEF Coloring
  <1>9. \A s \in SUBSET (1..n) : h[s] = ColorAt(past, base, seq, h, s)
    BY <1>7 DEF IsColoring
  <1>10. FollowsFold(A, F, base, seq, n, h)
    <2>1. h[{}] = base
      BY <1>9 DEF ColorAt
    <2>2. ASSUME NEW s \in SUBSET (1..n), s # {}, h[s \ {Max(s)}] \in A
          PROVE  h[s] = F[<<h[s \ {Max(s)}], seq[Max(s)]>>]
      <3>1. h[s] = ColorStep(past, h[s \ {Max(s)}], seq[Max(s)])
        BY <1>9, <2>2 DEF ColorAt
      <3>2. seq[Max(s)] \in V
        BY <1>1, <2>2, IndexMax
      <3> QED BY <1>3, <2>2, <3>1, <3>2
    <2> QED BY <2>1, <2>2 DEF FollowsFold
  <1>11. PICK G : IsRun(A, F, base, seq, n, G) /\ G[n] = h[1..n]
    <2>1. IsStepOn(A, V, F)
      BY <1>4 DEF IsStepOn
    <2> QED BY <1>10, <2>1, FoldRuns
  <1>12. G \in [0..n -> A] /\ G[0] = base /\ \A i \in 1..n : G[i] = F[<<G[i - 1], seq[i]>>]
    BY <1>11 DEF IsRun
  <1>13. ASSUME NEW i \in 1..n PROVE G[i] = ColorStep(past, G[i - 1], seq[i])
    <2>1. G[i - 1] \in A /\ seq[i] \in V
      BY <1>1, <1>12
    <2> QED BY <1>3, <1>12, <2>1
  <1> QED BY <1>8, <1>11, <1>12, <1>13 DEF IsColorRun

AddStep(gd, acc, b) == IF Contains(acc, b) \/ b \notin DOMAIN gd THEN acc ELSE Append(acc, b)

AddAt(gd, base, seq, f, s) ==
    IF s = {} THEN base ELSE AddStep(gd, f[s \ {Max(s)}], seq[Max(s)])

IsAddAll(gd, base, seq, f) == f = [s \in SUBSET DOMAIN seq |-> AddAt(gd, base, seq, f, s)]

AddAll(gd, base, seq) == (CHOOSE f : IsAddAll(gd, base, seq, f))[DOMAIN seq]

IsAddRun(gd, A, base, seq, n, G) ==
    G \in [0..n -> A] /\ G[0] = base /\ \A i \in 1..n : G[i] = AddStep(gd, G[i - 1], seq[i])

LEMMA AddRuns ==
    ASSUME NEW gd, NEW A, NEW V, NEW base \in A,
           NEW n \in Nat, NEW seq, DOMAIN seq = 1..n, IndexedIn(seq, n, V),
           \A a \in A : \A v \in V : AddStep(gd, a, v) \in A
    PROVE  \E G : IsAddRun(gd, A, base, seq, n, G) /\ G[n] = AddAll(gd, base, seq)
  <1>1. \A i \in 1..n : seq[i] \in V
    BY DEF IndexedIn
  <1>2. PICK F : F = [p \in A \X V |-> AddStep(gd, p[1], p[2])]
    OBVIOUS
  <1>3. \A a \in A : \A v \in V : F[<<a, v>>] = AddStep(gd, a, v)
    BY <1>2
  <1>4. F \in [A \X V -> A]
    <2>1. \A p \in A \X V : AddStep(gd, p[1], p[2]) \in A
      OBVIOUS
    <2> QED BY <1>2, <2>1
  <1>5. PICK f \in [SUBSET (1..n) -> A] : IsFoldOf(F, base, seq, 1..n, f)
    <2>1. IsFiniteSet(1..n) /\ \A y \in 1..n : y \in Nat
      BY FS_Interval
    <2> QED BY <1>1, <1>4, <2>1, FoldExists
  <1>6. IsAddAll(gd, base, seq, f)
    <2>1. ASSUME NEW s \in SUBSET (1..n) PROVE f[s] = AddAt(gd, base, seq, f, s)
      <3>1. f[s] = IF s = {} THEN base ELSE F[<<f[s \ {Max(s)}], seq[Max(s)]>>]
        BY <1>5 DEF IsFoldOf
      <3>2. CASE s # {}
        <4>1. Max(s) \in s
          BY <3>2, IndexMax
        <4>2. f[s \ {Max(s)}] \in A /\ seq[Max(s)] \in V
          BY <1>1, <1>5, <4>1
        <4> QED BY <1>3, <3>1, <3>2, <4>2 DEF AddAt
      <3> QED BY <3>1, <3>2 DEF AddAt
    <2>2. f = [s \in SUBSET (1..n) |-> AddAt(gd, base, seq, f, s)]
      BY <1>5, <2>1
    <2> QED BY <2>2 DEF IsAddAll
  <1>7. PICK h : h = (CHOOSE g : IsAddAll(gd, base, seq, g)) /\ IsAddAll(gd, base, seq, h)
    BY <1>6
  <1>8. h[1..n] = AddAll(gd, base, seq)
    BY <1>7 DEF AddAll
  <1>9. \A s \in SUBSET (1..n) : h[s] = AddAt(gd, base, seq, h, s)
    BY <1>7 DEF IsAddAll
  <1>10. FollowsFold(A, F, base, seq, n, h)
    <2>1. h[{}] = base
      BY <1>9 DEF AddAt
    <2>2. ASSUME NEW s \in SUBSET (1..n), s # {}, h[s \ {Max(s)}] \in A
          PROVE  h[s] = F[<<h[s \ {Max(s)}], seq[Max(s)]>>]
      <3>1. h[s] = AddStep(gd, h[s \ {Max(s)}], seq[Max(s)])
        BY <1>9, <2>2 DEF AddAt
      <3>2. seq[Max(s)] \in V
        BY <1>1, <2>2, IndexMax
      <3> QED BY <1>3, <2>2, <3>1, <3>2
    <2> QED BY <2>1, <2>2 DEF FollowsFold
  <1>11. PICK G : IsRun(A, F, base, seq, n, G) /\ G[n] = h[1..n]
    <2>1. IsStepOn(A, V, F)
      BY <1>4 DEF IsStepOn
    <2> QED BY <1>10, <2>1, FoldRuns
  <1>12. G \in [0..n -> A] /\ G[0] = base /\ \A i \in 1..n : G[i] = F[<<G[i - 1], seq[i]>>]
    BY <1>11 DEF IsRun
  <1>13. ASSUME NEW i \in 1..n PROVE G[i] = AddStep(gd, G[i - 1], seq[i])
    <2>1. G[i - 1] \in A /\ seq[i] \in V
      BY <1>1, <1>12
    <2> QED BY <1>3, <1>12, <2>1
  <1> QED BY <1>8, <1>11, <1>12, <1>13 DEF IsAddRun

EmitStep(gd, acc, c) == AddStep(gd, AddAll(gd, acc, Merged(gd[c])), c)

EmitAt(gd, base, seq, f, s) ==
    IF s = {} THEN base ELSE EmitStep(gd, f[s \ {Max(s)}], seq[Max(s)])

IsEmitAll(gd, base, seq, f) == f = [s \in SUBSET DOMAIN seq |-> EmitAt(gd, base, seq, f, s)]

EmitAll(gd, base, seq) == (CHOOSE f : IsEmitAll(gd, base, seq, f))[DOMAIN seq]

IsEmitRun(gd, A, base, seq, n, G) ==
    G \in [0..n -> A] /\ G[0] = base /\ \A i \in 1..n : G[i] = EmitStep(gd, G[i - 1], seq[i])

LEMMA EmitRuns ==
    ASSUME NEW gd, NEW A, NEW V, NEW base \in A,
           NEW n \in Nat, NEW seq, DOMAIN seq = 1..n, IndexedIn(seq, n, V),
           \A a \in A : \A v \in V : EmitStep(gd, a, v) \in A
    PROVE  \E G : IsEmitRun(gd, A, base, seq, n, G) /\ G[n] = EmitAll(gd, base, seq)
  <1>1. \A i \in 1..n : seq[i] \in V
    BY DEF IndexedIn
  <1>2. PICK F : F = [p \in A \X V |-> EmitStep(gd, p[1], p[2])]
    OBVIOUS
  <1>3. \A a \in A : \A v \in V : F[<<a, v>>] = EmitStep(gd, a, v)
    BY <1>2
  <1>4. F \in [A \X V -> A]
    <2>1. \A p \in A \X V : EmitStep(gd, p[1], p[2]) \in A
      OBVIOUS
    <2> QED BY <1>2, <2>1
  <1>5. PICK f \in [SUBSET (1..n) -> A] : IsFoldOf(F, base, seq, 1..n, f)
    <2>1. IsFiniteSet(1..n) /\ \A y \in 1..n : y \in Nat
      BY FS_Interval
    <2> QED BY <1>1, <1>4, <2>1, FoldExists
  <1>6. IsEmitAll(gd, base, seq, f)
    <2>1. ASSUME NEW s \in SUBSET (1..n) PROVE f[s] = EmitAt(gd, base, seq, f, s)
      <3>1. f[s] = IF s = {} THEN base ELSE F[<<f[s \ {Max(s)}], seq[Max(s)]>>]
        BY <1>5 DEF IsFoldOf
      <3>2. CASE s # {}
        <4>1. Max(s) \in s
          BY <3>2, IndexMax
        <4>2. f[s \ {Max(s)}] \in A /\ seq[Max(s)] \in V
          BY <1>1, <1>5, <4>1
        <4> QED BY <1>3, <3>1, <3>2, <4>2 DEF EmitAt
      <3> QED BY <3>1, <3>2 DEF EmitAt
    <2>2. f = [s \in SUBSET (1..n) |-> EmitAt(gd, base, seq, f, s)]
      BY <1>5, <2>1
    <2> QED BY <2>2 DEF IsEmitAll
  <1>7. PICK h : h = (CHOOSE g : IsEmitAll(gd, base, seq, g)) /\ IsEmitAll(gd, base, seq, h)
    BY <1>6
  <1>8. h[1..n] = EmitAll(gd, base, seq)
    BY <1>7 DEF EmitAll
  <1>9. \A s \in SUBSET (1..n) : h[s] = EmitAt(gd, base, seq, h, s)
    BY <1>7 DEF IsEmitAll
  <1>10. FollowsFold(A, F, base, seq, n, h)
    <2>1. h[{}] = base
      BY <1>9 DEF EmitAt
    <2>2. ASSUME NEW s \in SUBSET (1..n), s # {}, h[s \ {Max(s)}] \in A
          PROVE  h[s] = F[<<h[s \ {Max(s)}], seq[Max(s)]>>]
      <3>1. h[s] = EmitStep(gd, h[s \ {Max(s)}], seq[Max(s)])
        BY <1>9, <2>2 DEF EmitAt
      <3>2. seq[Max(s)] \in V
        BY <1>1, <2>2, IndexMax
      <3> QED BY <1>3, <2>2, <3>1, <3>2
    <2> QED BY <2>1, <2>2 DEF FollowsFold
  <1>11. PICK G : IsRun(A, F, base, seq, n, G) /\ G[n] = h[1..n]
    <2>1. IsStepOn(A, V, F)
      BY <1>4 DEF IsStepOn
    <2> QED BY <1>10, <2>1, FoldRuns
  <1>12. G \in [0..n -> A] /\ G[0] = base /\ \A i \in 1..n : G[i] = F[<<G[i - 1], seq[i]>>]
    BY <1>11 DEF IsRun
  <1>13. ASSUME NEW i \in 1..n PROVE G[i] = EmitStep(gd, G[i - 1], seq[i])
    <2>1. G[i - 1] \in A /\ seq[i] \in V
      BY <1>1, <1>12
    <2> QED BY <1>3, <1>12, <2>1
  <1> QED BY <1>8, <1>11, <1>12, <1>13 DEF IsEmitRun

SkipAt(base, seq, f, s) ==
    IF s = {} THEN base ELSE ApplyOrSkip(f[s \ {Max(s)}], seq[Max(s)])

IsSkipAll(base, seq, f) == f = [s \in SUBSET DOMAIN seq |-> SkipAt(base, seq, f, s)]

SkipAll(base, seq) == (CHOOSE f : IsSkipAll(base, seq, f))[DOMAIN seq]

IsSkipRun(A, base, seq, n, G) ==
    G \in [0..n -> A] /\ G[0] = base /\ \A i \in 1..n : G[i] = ApplyOrSkip(G[i - 1], seq[i])

LEMMA SkipRuns ==
    ASSUME NEW A, NEW V, NEW base \in A,
           NEW n \in Nat, NEW seq, DOMAIN seq = 1..n, IndexedIn(seq, n, V),
           \A a \in A : \A v \in V : ApplyOrSkip(a, v) \in A
    PROVE  \E G : IsSkipRun(A, base, seq, n, G) /\ G[n] = SkipAll(base, seq)
  <1>1. \A i \in 1..n : seq[i] \in V
    BY DEF IndexedIn
  <1>2. PICK F : F = [p \in A \X V |-> ApplyOrSkip(p[1], p[2])]
    OBVIOUS
  <1>3. \A a \in A : \A v \in V : F[<<a, v>>] = ApplyOrSkip(a, v)
    BY <1>2
  <1>4. F \in [A \X V -> A]
    <2>1. \A p \in A \X V : ApplyOrSkip(p[1], p[2]) \in A
      OBVIOUS
    <2> QED BY <1>2, <2>1
  <1>5. PICK f \in [SUBSET (1..n) -> A] : IsFoldOf(F, base, seq, 1..n, f)
    <2>1. IsFiniteSet(1..n) /\ \A y \in 1..n : y \in Nat
      BY FS_Interval
    <2> QED BY <1>1, <1>4, <2>1, FoldExists
  <1>6. IsSkipAll(base, seq, f)
    <2>1. ASSUME NEW s \in SUBSET (1..n) PROVE f[s] = SkipAt(base, seq, f, s)
      <3>1. f[s] = IF s = {} THEN base ELSE F[<<f[s \ {Max(s)}], seq[Max(s)]>>]
        BY <1>5 DEF IsFoldOf
      <3>2. CASE s # {}
        <4>1. Max(s) \in s
          BY <3>2, IndexMax
        <4>2. f[s \ {Max(s)}] \in A /\ seq[Max(s)] \in V
          BY <1>1, <1>5, <4>1
        <4> QED BY <1>3, <3>1, <3>2, <4>2 DEF SkipAt
      <3> QED BY <3>1, <3>2 DEF SkipAt
    <2>2. f = [s \in SUBSET (1..n) |-> SkipAt(base, seq, f, s)]
      BY <1>5, <2>1
    <2> QED BY <2>2 DEF IsSkipAll
  <1>7. PICK h : h = (CHOOSE g : IsSkipAll(base, seq, g)) /\ IsSkipAll(base, seq, h)
    BY <1>6
  <1>8. h[1..n] = SkipAll(base, seq)
    BY <1>7 DEF SkipAll
  <1>9. \A s \in SUBSET (1..n) : h[s] = SkipAt(base, seq, h, s)
    BY <1>7 DEF IsSkipAll
  <1>10. FollowsFold(A, F, base, seq, n, h)
    <2>1. h[{}] = base
      BY <1>9 DEF SkipAt
    <2>2. ASSUME NEW s \in SUBSET (1..n), s # {}, h[s \ {Max(s)}] \in A
          PROVE  h[s] = F[<<h[s \ {Max(s)}], seq[Max(s)]>>]
      <3>1. h[s] = ApplyOrSkip(h[s \ {Max(s)}], seq[Max(s)])
        BY <1>9, <2>2 DEF SkipAt
      <3>2. seq[Max(s)] \in V
        BY <1>1, <2>2, IndexMax
      <3> QED BY <1>3, <2>2, <3>1, <3>2
    <2> QED BY <2>1, <2>2 DEF FollowsFold
  <1>11. PICK G : IsRun(A, F, base, seq, n, G) /\ G[n] = h[1..n]
    <2>1. IsStepOn(A, V, F)
      BY <1>4 DEF IsStepOn
    <2> QED BY <1>10, <2>1, FoldRuns
  <1>12. G \in [0..n -> A] /\ G[0] = base /\ \A i \in 1..n : G[i] = F[<<G[i - 1], seq[i]>>]
    BY <1>11 DEF IsRun
  <1>13. ASSUME NEW i \in 1..n PROVE G[i] = ApplyOrSkip(G[i - 1], seq[i])
    <2>1. G[i - 1] \in A /\ seq[i] \in V
      BY <1>1, <1>12
    <2> QED BY <1>3, <1>12, <2>1
  <1> QED BY <1>8, <1>11, <1>12, <1>13 DEF IsSkipRun

TxAt(base, seq, f, s) ==
    IF s = {} THEN base ELSE ApplyTx(f[s \ {Max(s)}], seq[Max(s)])

IsApplyAll(base, seq, f) == f = [s \in SUBSET DOMAIN seq |-> TxAt(base, seq, f, s)]

ApplyAll(base, seq) == (CHOOSE f : IsApplyAll(base, seq, f))[DOMAIN seq]

IsTxRun(A, base, seq, n, G) ==
    G \in [0..n -> A] /\ G[0] = base /\ \A i \in 1..n : G[i] = ApplyTx(G[i - 1], seq[i])

LEMMA TxRuns ==
    ASSUME NEW A, NEW V, NEW base \in A,
           NEW n \in Nat, NEW seq, DOMAIN seq = 1..n, IndexedIn(seq, n, V),
           \A a \in A : \A v \in V : ApplyTx(a, v) \in A
    PROVE  \E G : IsTxRun(A, base, seq, n, G) /\ G[n] = ApplyAll(base, seq)
  <1>1. \A i \in 1..n : seq[i] \in V
    BY DEF IndexedIn
  <1>2. PICK F : F = [p \in A \X V |-> ApplyTx(p[1], p[2])]
    OBVIOUS
  <1>3. \A a \in A : \A v \in V : F[<<a, v>>] = ApplyTx(a, v)
    BY <1>2
  <1>4. F \in [A \X V -> A]
    <2>1. \A p \in A \X V : ApplyTx(p[1], p[2]) \in A
      OBVIOUS
    <2> QED BY <1>2, <2>1
  <1>5. PICK f \in [SUBSET (1..n) -> A] : IsFoldOf(F, base, seq, 1..n, f)
    <2>1. IsFiniteSet(1..n) /\ \A y \in 1..n : y \in Nat
      BY FS_Interval
    <2> QED BY <1>1, <1>4, <2>1, FoldExists
  <1>6. IsApplyAll(base, seq, f)
    <2>1. ASSUME NEW s \in SUBSET (1..n) PROVE f[s] = TxAt(base, seq, f, s)
      <3>1. f[s] = IF s = {} THEN base ELSE F[<<f[s \ {Max(s)}], seq[Max(s)]>>]
        BY <1>5 DEF IsFoldOf
      <3>2. CASE s # {}
        <4>1. Max(s) \in s
          BY <3>2, IndexMax
        <4>2. f[s \ {Max(s)}] \in A /\ seq[Max(s)] \in V
          BY <1>1, <1>5, <4>1
        <4> QED BY <1>3, <3>1, <3>2, <4>2 DEF TxAt
      <3> QED BY <3>1, <3>2 DEF TxAt
    <2>2. f = [s \in SUBSET (1..n) |-> TxAt(base, seq, f, s)]
      BY <1>5, <2>1
    <2> QED BY <2>2 DEF IsApplyAll
  <1>7. PICK h : h = (CHOOSE g : IsApplyAll(base, seq, g)) /\ IsApplyAll(base, seq, h)
    BY <1>6
  <1>8. h[1..n] = ApplyAll(base, seq)
    BY <1>7 DEF ApplyAll
  <1>9. \A s \in SUBSET (1..n) : h[s] = TxAt(base, seq, h, s)
    BY <1>7 DEF IsApplyAll
  <1>10. FollowsFold(A, F, base, seq, n, h)
    <2>1. h[{}] = base
      BY <1>9 DEF TxAt
    <2>2. ASSUME NEW s \in SUBSET (1..n), s # {}, h[s \ {Max(s)}] \in A
          PROVE  h[s] = F[<<h[s \ {Max(s)}], seq[Max(s)]>>]
      <3>1. h[s] = ApplyTx(h[s \ {Max(s)}], seq[Max(s)])
        BY <1>9, <2>2 DEF TxAt
      <3>2. seq[Max(s)] \in V
        BY <1>1, <2>2, IndexMax
      <3> QED BY <1>3, <2>2, <3>1, <3>2
    <2> QED BY <2>1, <2>2 DEF FollowsFold
  <1>11. PICK G : IsRun(A, F, base, seq, n, G) /\ G[n] = h[1..n]
    <2>1. IsStepOn(A, V, F)
      BY <1>4 DEF IsStepOn
    <2> QED BY <1>10, <2>1, FoldRuns
  <1>12. G \in [0..n -> A] /\ G[0] = base /\ \A i \in 1..n : G[i] = F[<<G[i - 1], seq[i]>>]
    BY <1>11 DEF IsRun
  <1>13. ASSUME NEW i \in 1..n PROVE G[i] = ApplyTx(G[i - 1], seq[i])
    <2>1. G[i - 1] \in A /\ seq[i] \in V
      BY <1>1, <1>12
    <2> QED BY <1>3, <1>12, <2>1
  <1> QED BY <1>8, <1>11, <1>12, <1>13 DEF IsTxRun

EffectStep(dag, acc, b) ==
    IF b \in DOMAIN dag
    THEN IF dag[b].parents = {} THEN acc ELSE ApplyBlockReward(SkipAll(acc, dag[b].body), b)
    ELSE acc

EffectAt(dag, base, seq, f, s) ==
    IF s = {} THEN base ELSE EffectStep(dag, f[s \ {Max(s)}], seq[Max(s)])

IsEffectAll(dag, base, seq, f) == f = [s \in SUBSET DOMAIN seq |-> EffectAt(dag, base, seq, f, s)]

EffectAll(dag, base, seq) == (CHOOSE f : IsEffectAll(dag, base, seq, f))[DOMAIN seq]

IsEffectRun(dag, A, base, seq, n, G) ==
    G \in [0..n -> A] /\ G[0] = base /\ \A i \in 1..n : G[i] = EffectStep(dag, G[i - 1], seq[i])

LEMMA EffectRuns ==
    ASSUME NEW dag, NEW A, NEW V, NEW base \in A,
           NEW n \in Nat, NEW seq, DOMAIN seq = 1..n, IndexedIn(seq, n, V),
           \A a \in A : \A v \in V : EffectStep(dag, a, v) \in A
    PROVE  \E G : IsEffectRun(dag, A, base, seq, n, G) /\ G[n] = EffectAll(dag, base, seq)
  <1>1. \A i \in 1..n : seq[i] \in V
    BY DEF IndexedIn
  <1>2. PICK F : F = [p \in A \X V |-> EffectStep(dag, p[1], p[2])]
    OBVIOUS
  <1>3. \A a \in A : \A v \in V : F[<<a, v>>] = EffectStep(dag, a, v)
    BY <1>2
  <1>4. F \in [A \X V -> A]
    <2>1. \A p \in A \X V : EffectStep(dag, p[1], p[2]) \in A
      OBVIOUS
    <2> QED BY <1>2, <2>1
  <1>5. PICK f \in [SUBSET (1..n) -> A] : IsFoldOf(F, base, seq, 1..n, f)
    <2>1. IsFiniteSet(1..n) /\ \A y \in 1..n : y \in Nat
      BY FS_Interval
    <2> QED BY <1>1, <1>4, <2>1, FoldExists
  <1>6. IsEffectAll(dag, base, seq, f)
    <2>1. ASSUME NEW s \in SUBSET (1..n) PROVE f[s] = EffectAt(dag, base, seq, f, s)
      <3>1. f[s] = IF s = {} THEN base ELSE F[<<f[s \ {Max(s)}], seq[Max(s)]>>]
        BY <1>5 DEF IsFoldOf
      <3>2. CASE s # {}
        <4>1. Max(s) \in s
          BY <3>2, IndexMax
        <4>2. f[s \ {Max(s)}] \in A /\ seq[Max(s)] \in V
          BY <1>1, <1>5, <4>1
        <4> QED BY <1>3, <3>1, <3>2, <4>2 DEF EffectAt
      <3> QED BY <3>1, <3>2 DEF EffectAt
    <2>2. f = [s \in SUBSET (1..n) |-> EffectAt(dag, base, seq, f, s)]
      BY <1>5, <2>1
    <2> QED BY <2>2 DEF IsEffectAll
  <1>7. PICK h : h = (CHOOSE g : IsEffectAll(dag, base, seq, g)) /\ IsEffectAll(dag, base, seq, h)
    BY <1>6
  <1>8. h[1..n] = EffectAll(dag, base, seq)
    BY <1>7 DEF EffectAll
  <1>9. \A s \in SUBSET (1..n) : h[s] = EffectAt(dag, base, seq, h, s)
    BY <1>7 DEF IsEffectAll
  <1>10. FollowsFold(A, F, base, seq, n, h)
    <2>1. h[{}] = base
      BY <1>9 DEF EffectAt
    <2>2. ASSUME NEW s \in SUBSET (1..n), s # {}, h[s \ {Max(s)}] \in A
          PROVE  h[s] = F[<<h[s \ {Max(s)}], seq[Max(s)]>>]
      <3>1. h[s] = EffectStep(dag, h[s \ {Max(s)}], seq[Max(s)])
        BY <1>9, <2>2 DEF EffectAt
      <3>2. seq[Max(s)] \in V
        BY <1>1, <2>2, IndexMax
      <3> QED BY <1>3, <2>2, <3>1, <3>2
    <2> QED BY <2>1, <2>2 DEF FollowsFold
  <1>11. PICK G : IsRun(A, F, base, seq, n, G) /\ G[n] = h[1..n]
    <2>1. IsStepOn(A, V, F)
      BY <1>4 DEF IsStepOn
    <2> QED BY <1>10, <2>1, FoldRuns
  <1>12. G \in [0..n -> A] /\ G[0] = base /\ \A i \in 1..n : G[i] = F[<<G[i - 1], seq[i]>>]
    BY <1>11 DEF IsRun
  <1>13. ASSUME NEW i \in 1..n PROVE G[i] = EffectStep(dag, G[i - 1], seq[i])
    <2>1. G[i - 1] \in A /\ seq[i] \in V
      BY <1>1, <1>12
    <2> QED BY <1>3, <1>12, <2>1
  <1> QED BY <1>8, <1>11, <1>12, <1>13 DEF IsEffectRun

(***************************************************************************)
(* The operators of the model in terms of these folds.                     *)
(***************************************************************************)
DataByPast(dag, gd, parents) == ComputeGhostdagData(dag, gd, PastMap(dag), parents)

LEMMA GhostdagDataIs ==
    ASSUME NEW dag, NEW gd, NEW parents, NEW past, past = PastMap(dag),
           NEW sp, sp = Highest(gd, parents),
           NEW order, order = TopologicalOrder(past, Mergeset(past, parents, sp)),
           NEW done,
           done = Coloring(past, [seen |-> MaterializedBlues(gd, sp), blues |-> <<sp>>, reds |-> <<>>], order)
    PROVE  DataByPast(dag, gd, parents) =
               [blue_score      |-> gd[sp].blue_score + Len(done.blues),
                selected_parent |-> sp,
                mergeset_blues  |-> done.blues,
                mergeset_reds   |-> done.reds]
  BY DEF DataByPast, ComputeGhostdagData, FoldLeft, MapThenFoldSet, Coloring, IsColoring, ColorAt, ColorStep

LEMMA OrderIsFold ==
    ASSUME NEW gd, NEW t PROVE CanonicalOrderAt(gd, t) = EmitAll(gd, <<>>, SelectedChain(gd, t))
  BY DEF CanonicalOrderAt, FoldLeft, MapThenFoldSet, EmitAll, IsEmitAll, EmitAt, EmitStep,
         AddAll, IsAddAll, AddAt, AddStep

LEMMA ReplayIsFold ==
    ASSUME NEW s, NEW l, NEW order PROVE Replay(s, l, order) = EffectAll(s.dag, l, order)
  BY DEF Replay, ApplyBlockEffects, FoldLeft, MapThenFoldSet, EffectAll, IsEffectAll, EffectAt, EffectStep,
         SkipAll, IsSkipAll, SkipAt

LEMMA BodyIsFold ==
    ASSUME NEW l, NEW body PROVE FoldLeft(ApplyTx, l, body) = ApplyAll(l, body)
  BY DEF FoldLeft, MapThenFoldSet, ApplyAll, IsApplyAll, TxAt

ChainStep(gd, f, b) ==
    IF gd[b].selected_parent = None THEN <<b>> ELSE Append(f[gd[b].selected_parent], b)

IsChain(gd, f) == f = [b \in DOMAIN gd |-> ChainStep(gd, f, b)]

ChainFn(gd) == CHOOSE f : IsChain(gd, f)

LEMMA ChainIs ==
    ASSUME NEW gd, NEW t PROVE SelectedChain(gd, t) = ChainFn(gd)[t]
  BY DEF SelectedChain, ChainFn, IsChain, ChainStep

-----------------------------------------------------------------------------
(***************************************************************************)
(* The highest block of a set of known blocks.                             *)
(***************************************************************************)
Scored(gd, S) == S \subseteq DOMAIN gd /\ \A x \in S : x \in Nat /\ gd[x].blue_score \in Nat

IsHighest(gd, S, a) == a \in S /\ \A b \in S : HigherBlock(gd, a, b)

LEMMA OneHighest ==
    ASSUME NEW gd, NEW S, Scored(gd, S), NEW a, IsHighest(gd, S, a), NEW b, IsHighest(gd, S, b)
    PROVE  a = b
  <1>1. PICK x \in Nat, y \in Nat : x = gd[a].blue_score /\ y = gd[b].blue_score
    BY DEF Scored, IsHighest
  <1>2. a \in Nat /\ b \in Nat
    BY DEF Scored, IsHighest
  <1>3. HigherBlock(gd, a, b) /\ HigherBlock(gd, b, a)
    BY DEF IsHighest
  <1>4. (x > y \/ (x = y /\ a >= b)) /\ (y > x \/ (y = x /\ b >= a))
    BY <1>1, <1>3 DEF HigherBlock
  <1> QED BY <1>2, <1>4

LEMMA HigherTotal ==
    ASSUME NEW gd, NEW S, Scored(gd, S), NEW a \in S, NEW b \in S
    PROVE  HigherBlock(gd, a, b) \/ HigherBlock(gd, b, a)
  <1>1. PICK x \in Nat, y \in Nat : x = gd[a].blue_score /\ y = gd[b].blue_score
    BY DEF Scored
  <1>2. a \in Nat /\ b \in Nat
    BY DEF Scored
  <1>3. (x > y \/ (x = y /\ a >= b)) \/ (y > x \/ (y = x /\ b >= a))
    BY <1>2
  <1> QED BY <1>1, <1>3 DEF HigherBlock

LEMMA HigherTransitive ==
    ASSUME NEW gd, NEW S, Scored(gd, S), NEW a \in S, NEW b \in S, NEW c \in S,
           HigherBlock(gd, a, b), HigherBlock(gd, b, c)
    PROVE  HigherBlock(gd, a, c)
  <1>1. PICK x \in Nat, y \in Nat, z \in Nat :
          x = gd[a].blue_score /\ y = gd[b].blue_score /\ z = gd[c].blue_score
    BY DEF Scored
  <1>2. a \in Nat /\ b \in Nat /\ c \in Nat
    BY DEF Scored
  <1>3. (x > y \/ (x = y /\ a >= b)) /\ (y > z \/ (y = z /\ b >= c))
    BY <1>1 DEF HigherBlock
  <1>4. x > z \/ (x = z /\ a >= c)
    BY <1>2, <1>3
  <1> QED BY <1>1, <1>4 DEF HigherBlock

LEMMA HighestIs ==
    ASSUME NEW gd, NEW S, IsFiniteSet(S), S # {}, Scored(gd, S)
    PROVE  IsHighest(gd, S, Highest(gd, S))
  <1> DEFINE Bad == {T \in SUBSET S : T # {} /\ ~ \E a : IsHighest(gd, T, a)}
  <1>1. Bad = {}
    <2> SUFFICES ASSUME Bad # {} PROVE FALSE
      OBVIOUS
    <2>1. Bad \subseteq SUBSET S /\ Bad # {}
      OBVIOUS
    <2>2. PICK T \in Bad : \A y \in Bad : y \subseteq T => y = T
      <3> HIDE DEF Bad
      <3> QED BY <2>1, SmallestSet
    <2>3. T \in SUBSET S /\ T # {} /\ ~ \E a : IsHighest(gd, T, a)
      OBVIOUS
    <2>4. PICK a \in T : TRUE
      BY <2>3
    <2>5. PICK U : U = T \ {a}
      OBVIOUS
    <2>6. U \in SUBSET S /\ U \subseteq T /\ U # T /\ a \in S
      BY <2>3, <2>4, <2>5
    <2>7. HigherBlock(gd, a, a)
      BY <2>6, HigherTotal
    <2>8. CASE U = {}
      <3>1. T = {a}
        BY <2>4, <2>5, <2>8
      <3>2. IsHighest(gd, T, a)
        BY <2>7, <3>1 DEF IsHighest
      <3> QED BY <2>3, <3>2
    <2>9. CASE U # {}
      <3>1. PICK u : IsHighest(gd, U, u)
        BY <2>2, <2>6, <2>9
      <3>2. u \in U /\ u \in S /\ \A b \in U : HigherBlock(gd, u, b)
        BY <2>6, <3>1 DEF IsHighest
      <3>3. \A b \in T : b = a \/ b \in U
        BY <2>5
      <3>4. CASE HigherBlock(gd, u, a)
        <4>1. IsHighest(gd, T, u)
          BY <2>6, <3>2, <3>3, <3>4 DEF IsHighest
        <4> QED BY <2>3, <4>1
      <3>5. CASE HigherBlock(gd, a, u)
        <4>1. ASSUME NEW b \in U PROVE HigherBlock(gd, a, b)
          <5>1. b \in S /\ HigherBlock(gd, u, b)
            BY <2>6, <3>2
          <5> QED BY <2>6, <3>2, <3>5, <5>1, HigherTransitive
        <4>2. IsHighest(gd, T, a)
          BY <2>4, <2>7, <3>3, <4>1 DEF IsHighest
        <4> QED BY <2>3, <4>2
      <3> QED BY <2>6, <3>2, <3>4, <3>5, HigherTotal
    <2> QED BY <2>8, <2>9
  <1>2. PICK a : IsHighest(gd, S, a)
    BY <1>1
  <1>3. S \cap DOMAIN gd = S
    BY DEF Scored
  <1>4. Highest(gd, S) = CHOOSE x \in S : \A b \in S : HigherBlock(gd, x, b)
    BY <1>3 DEF Highest
  <1>5. \E x \in S : \A b \in S : HigherBlock(gd, x, b)
    BY <1>2 DEF IsHighest
  <1> QED BY <1>4, <1>5 DEF IsHighest

LEMMA HighestUnique ==
    ASSUME NEW gd, NEW S, IsFiniteSet(S), Scored(gd, S), NEW a, IsHighest(gd, S, a)
    PROVE  Highest(gd, S) = a
  <1>1. S # {}
    BY DEF IsHighest
  <1>2. IsHighest(gd, S, Highest(gd, S))
    BY <1>1, HighestIs
  <1> QED BY <1>2, OneHighest

-----------------------------------------------------------------------------
(***************************************************************************)
(* The shape of the DAG of an archival node: genesis at the bottom, and    *)
(* every other block above its parents, the highest of which is its        *)
(* selected parent.                                                        *)
(***************************************************************************)
AllBlocks == BlockId \cup {GENESIS}

Shape(dag, gd) ==
    /\ DOMAIN gd = DOMAIN dag /\ IsFiniteSet(DOMAIN dag)
    /\ DOMAIN dag \subseteq AllBlocks /\ GENESIS \in DOMAIN dag
    /\ dag[GENESIS].parents = {} /\ gd[GENESIS] = GhostdagGenesis
    /\ \A b \in DOMAIN dag : gd[b].blue_score \in Nat
    /\ \A b \in DOMAIN dag \ {GENESIS} :
          /\ dag[b].parents # {} /\ dag[b].parents \subseteq DOMAIN dag
          /\ \A p \in dag[b].parents : gd[p].blue_score < gd[b].blue_score
          /\ gd[b].selected_parent = Highest(gd, dag[b].parents)

LEMMA BlocksAreNat == AllBlocks \subseteq Nat /\ None \notin AllBlocks
  BY ChainConstants DEF AllBlocks, GENESIS

LEMMA ShapeScored ==
    ASSUME NEW dag, NEW gd, Shape(dag, gd), NEW S, S \subseteq DOMAIN dag
    PROVE  Scored(gd, S) /\ IsFiniteSet(S)
  <1>1. IsFiniteSet(S)
    BY FS_Subset DEF Shape
  <1>2. \A x \in S : x \in Nat /\ gd[x].blue_score \in Nat
    BY BlocksAreNat DEF Shape
  <1> QED BY <1>1, <1>2 DEF Scored, Shape

LEMMA SelectedParentIs ==
    ASSUME NEW dag, NEW gd, Shape(dag, gd), NEW b \in DOMAIN dag, b # GENESIS
    PROVE  /\ gd[b].selected_parent \in dag[b].parents
           /\ gd[b].selected_parent \in DOMAIN dag
           /\ gd[b].selected_parent # None
           /\ gd[gd[b].selected_parent].blue_score < gd[b].blue_score
  <1>1. PICK S : S = dag[b].parents
    OBVIOUS
  <1>2. S # {} /\ S \subseteq DOMAIN dag /\ gd[b].selected_parent = Highest(gd, S)
        /\ \A p \in S : gd[p].blue_score < gd[b].blue_score
    BY <1>1 DEF Shape
  <1>3. IsHighest(gd, S, Highest(gd, S))
    BY <1>2, ShapeScored, HighestIs
  <1>4. Highest(gd, S) \in S
    BY <1>3 DEF IsHighest
  <1>5. DOMAIN dag \subseteq AllBlocks
    BY DEF Shape
  <1> QED BY <1>1, <1>2, <1>4, <1>5, BlocksAreNat

-----------------------------------------------------------------------------
(***************************************************************************)
(* The past of a block: its parents and their pasts, all of it held, lower *)
(* and closed under going further back.                                    *)
(***************************************************************************)
Met(dag, P, b) == UNION {{p} \cup P[p] : p \in dag[b].parents}

IsPast(dag, f) ==
    f = [b \in DOMAIN dag \cup UNION {dag[x].parents : x \in DOMAIN dag} |->
            IF b \notin DOMAIN dag THEN {} ELSE Met(dag, f, b)]

LEMMA PastMapIs == ASSUME NEW dag PROVE PastMap(dag) = CHOOSE f : IsPast(dag, f)
  BY DEF PastMap, IsPast, Met

LEMMA ShapeParents ==
    ASSUME NEW dag, NEW gd, Shape(dag, gd), NEW b \in DOMAIN dag, NEW p \in dag[b].parents
    PROVE  p \in DOMAIN dag /\ gd[p].blue_score \in Nat /\ gd[b].blue_score \in Nat
           /\ gd[p].blue_score < gd[b].blue_score
  BY DEF Shape

LEMMA PastExists ==
    ASSUME NEW dag, NEW gd, Shape(dag, gd)
    PROVE  \E f : IsPast(dag, f)
  <1>1. PICK K : K = DOMAIN dag
    OBVIOUS
  <1>2. PICK rank : rank = [b \in K |-> gd[b].blue_score]
    OBVIOUS
  <1>3. PICK D : D = [b \in K |-> dag[b].parents]
    OBVIOUS
  <1>4. PICK A : A = SUBSET K
    OBVIOUS
  <1>5. PICK H : H = [q \in K \X [K -> A] |-> Met(dag, q[2], q[1])]
    OBVIOUS
  <1>6. IsFiniteSet(K) /\ A # {}
    BY <1>1, <1>4 DEF Shape
  <1>7. \A b \in K : rank[b] \in Nat
    BY <1>1, <1>2 DEF Shape
  <1>8. \A b \in K : \A x \in D[b] : x \in K /\ rank[x] < rank[b]
    BY <1>1, <1>2, <1>3, ShapeParents
  <1>9. ASSUME NEW b \in K, NEW f \in [K -> A] PROVE H[<<b, f>>] = Met(dag, f, b) /\ H[<<b, f>>] \in A
    <2>1. H[<<b, f>>] = Met(dag, f, b)
      BY <1>5
    <2>2. \A p \in dag[b].parents : p \in K /\ f[p] \in SUBSET K
      BY <1>1, <1>4, ShapeParents
    <2>3. Met(dag, f, b) \subseteq K
      BY <2>2 DEF Met
    <2> QED BY <1>4, <2>1, <2>3
  <1>10. ASSUME NEW b \in K, NEW f \in [K -> A], NEW g \in [K -> A], \A x \in D[b] : f[x] = g[x]
         PROVE  H[<<b, f>>] = H[<<b, g>>]
    <2>1. \A p \in dag[b].parents : f[p] = g[p]
      BY <1>3, <1>10
    <2>2. Met(dag, f, b) = Met(dag, g, b)
      BY <2>1 DEF Met
    <2> QED BY <1>9, <2>2
  <1>11. PICK f \in [K -> A] : \A b \in K : f[b] = H[<<b, f>>]
    <2>1. Ranked(K, rank, D)
      BY <1>7, <1>8 DEF Ranked
    <2>2. DependsOn(K, A, D, H)
      BY <1>9, <1>10 DEF DependsOn
    <2>3. \E f : Solves(H, A, K, K, f)
      BY <1>6, <2>1, <2>2, RecursionExists
    <2> QED BY <2>3 DEF Solves
  <1>12. \A b \in K : f[b] = Met(dag, f, b)
    BY <1>9, <1>11
  <1>13. DOMAIN dag \cup UNION {dag[x].parents : x \in DOMAIN dag} = K
    BY <1>1, ShapeParents
  <1>14. f = [b \in K |-> IF b \notin DOMAIN dag THEN {} ELSE Met(dag, f, b)]
    BY <1>1, <1>11, <1>12
  <1> QED BY <1>13, <1>14 DEF IsPast

PastFacts(dag, gd, P) ==
    \A b \in DOMAIN dag :
       /\ P[b] = Met(dag, P, b)
       /\ \A x \in P[b] : x \in DOMAIN dag /\ gd[x].blue_score < gd[b].blue_score /\ P[x] \subseteq P[b]
       /\ \A p \in dag[b].parents : p \in P[b]

LEMMA PastIs ==
    ASSUME NEW dag, NEW gd, Shape(dag, gd)
    PROVE  PastFacts(dag, gd, PastMap(dag))
  <1>1. PICK P : P = PastMap(dag) /\ IsPast(dag, P)
    BY PastExists, PastMapIs
  <1>2. PICK K : K = DOMAIN dag
    OBVIOUS
  <1>3. \A b \in K : P[b] = Met(dag, P, b)
    <2>1. DOMAIN dag \cup UNION {dag[x].parents : x \in DOMAIN dag} = K
      BY <1>2, ShapeParents
    <2>2. P = [b \in K |-> IF b \notin DOMAIN dag THEN {} ELSE Met(dag, P, b)]
      BY <1>1, <2>1 DEF IsPast
    <2> QED BY <1>2, <2>2
  <1> DEFINE Good == {b \in K : \A x \in P[b] : x \in K /\ gd[x].blue_score < gd[b].blue_score /\ P[x] \subseteq P[b]}
  <1>4. PICK rank : rank = [b \in K |-> gd[b].blue_score]
    OBVIOUS
  <1>5. PICK D : D = [b \in K |-> dag[b].parents]
    OBVIOUS
  <1>6. \A b \in K : rank[b] \in Nat
    BY <1>2, <1>4 DEF Shape
  <1>7. \A b \in K : \A x \in D[b] : x \in K /\ rank[x] < rank[b]
    BY <1>2, <1>4, <1>5, ShapeParents
  <1>8. ASSUME NEW b \in K, D[b] \subseteq Good PROVE b \in Good
    <2>1. ASSUME NEW x \in P[b]
          PROVE  x \in K /\ gd[x].blue_score < gd[b].blue_score /\ P[x] \subseteq P[b]
      <3>1. PICK p \in dag[b].parents : x \in {p} \cup P[p]
        BY <1>3 DEF Met
      <3>2. p \in K /\ p \in Good /\ gd[p].blue_score \in Nat /\ gd[b].blue_score \in Nat
            /\ gd[p].blue_score < gd[b].blue_score
        BY <1>2, <1>5, <1>8, ShapeParents
      <3>3. P[p] \subseteq P[b]
        BY <1>3 DEF Met
      <3>4. CASE x = p
        BY <3>2, <3>3, <3>4
      <3>5. CASE x \in P[p]
        <4>1. x \in K /\ gd[x].blue_score < gd[p].blue_score /\ P[x] \subseteq P[p]
          BY <3>2, <3>5
        <4>2. gd[x].blue_score \in Nat
          BY <1>2, <4>1 DEF Shape
        <4> QED BY <3>2, <3>3, <4>1, <4>2
      <3> QED BY <3>1, <3>4, <3>5
    <2> QED BY <2>1
  <1>9. \A b \in K : b \in Good
    <2>1. \A b \in K : D[b] \subseteq Good => b \in Good
      BY <1>8
    <2> HIDE DEF Good
    <2> QED BY <1>6, <1>7, <2>1, RankInduction
  <1>10. ASSUME NEW b \in K, NEW p \in dag[b].parents PROVE p \in P[b]
    BY <1>3 DEF Met
  <1>11. ASSUME NEW b \in DOMAIN dag
         PROVE  /\ P[b] = Met(dag, P, b)
                /\ \A x \in P[b] : x \in DOMAIN dag /\ gd[x].blue_score < gd[b].blue_score /\ P[x] \subseteq P[b]
                /\ \A p \in dag[b].parents : p \in P[b]
    BY <1>2, <1>3, <1>9, <1>10
  <1>12. PastFacts(dag, gd, P)
    BY <1>11 DEF PastFacts
  <1> QED BY <1>1, <1>12

-----------------------------------------------------------------------------
(***************************************************************************)
(* The selected chains form a tree that grows with the scores.             *)
(***************************************************************************)
LEMMA ToSetAppend ==
    ASSUME NEW V, NEW s \in Seq(V), NEW x
    PROVE  ToSet(Append(s, x)) = ToSet(s) \cup {x}
  <1>1. PICK n \in Nat : n = Len(s) /\ DOMAIN s = 1..n
    OBVIOUS
  <1>2. PICK t : t = Append(s, x)
    OBVIOUS
  <1>3. DOMAIN t = 1..(n + 1) /\ t[n + 1] = x /\ \A i \in 1..n : t[i] = s[i]
    BY <1>1, <1>2
  <1>4. ToSet(t) = {t[i] : i \in 1..(n + 1)} /\ ToSet(s) = {s[i] : i \in 1..n}
    BY <1>1, <1>3 DEF ToSet
  <1>5. \A i \in 1..(n + 1) : i = n + 1 \/ i \in 1..n
    OBVIOUS
  <1>6. n + 1 \in 1..(n + 1) /\ \A i \in 1..n : i \in 1..(n + 1)
    OBVIOUS
  <1>7. ToSet(t) \subseteq ToSet(s) \cup {x}
    BY <1>3, <1>4, <1>5
  <1>8. ToSet(s) \cup {x} \subseteq ToSet(t)
    BY <1>3, <1>4, <1>6
  <1> QED BY <1>2, <1>7, <1>8

LEMMA ChainExists ==
    ASSUME NEW dag, NEW gd, Shape(dag, gd)
    PROVE  \E f : IsChain(gd, f) /\ f \in [DOMAIN dag -> Seq(DOMAIN dag)]
  <1>1. PICK K : K = DOMAIN dag
    OBVIOUS
  <1>2. PICK rank : rank = [b \in K |-> gd[b].blue_score]
    OBVIOUS
  <1>3. PICK D : D = [b \in K |-> IF b = GENESIS THEN {} ELSE {gd[b].selected_parent}]
    OBVIOUS
  <1>4. PICK A : A = Seq(K)
    OBVIOUS
  <1>5. PICK H : H = [q \in K \X [K -> A] |-> ChainStep(gd, q[2], q[1])]
    OBVIOUS
  <1>6. IsFiniteSet(K) /\ A # {}
    <2>1. <<>> \in A
      BY <1>4
    <2> QED BY <1>1, <2>1 DEF Shape
  <1>7. Ranked(K, rank, D)
    <2>1. \A b \in K : rank[b] \in Nat
      BY <1>1, <1>2 DEF Shape
    <2>2. ASSUME NEW b \in K, NEW x \in D[b] PROVE x \in K /\ rank[x] < rank[b]
      <3>1. b # GENESIS /\ x = gd[b].selected_parent
        BY <1>3
      <3> QED BY <1>1, <1>2, <3>1, SelectedParentIs
    <2> QED BY <2>1, <2>2 DEF Ranked
  <1>8. gd[GENESIS].selected_parent = None
    BY DEF Shape, GhostdagGenesis
  <1>9. ASSUME NEW b \in K, NEW f \in [K -> A] PROVE H[<<b, f>>] = ChainStep(gd, f, b) /\ H[<<b, f>>] \in A
    <2>1. H[<<b, f>>] = ChainStep(gd, f, b)
      BY <1>5
    <2>2. CASE b = GENESIS
      <3>1. ChainStep(gd, f, b) = <<b>>
        BY <1>8, <2>2 DEF ChainStep
      <3> QED BY <1>4, <2>1, <3>1
    <2>3. CASE b # GENESIS
      <3>1. PICK p \in K : p = gd[b].selected_parent /\ p # None
        BY <1>1, <2>3, SelectedParentIs
      <3>2. ChainStep(gd, f, b) = Append(f[p], b)
        BY <3>1 DEF ChainStep
      <3>3. f[p] \in Seq(K)
        BY <1>4
      <3>4. Append(f[p], b) \in Seq(K)
        BY <3>3
      <3> QED BY <1>4, <2>1, <3>2, <3>4
    <2> QED BY <2>2, <2>3
  <1>10. ASSUME NEW b \in K, NEW f \in [K -> A], NEW g \in [K -> A], \A x \in D[b] : f[x] = g[x]
         PROVE  H[<<b, f>>] = H[<<b, g>>]
    <2>1. ChainStep(gd, f, b) = ChainStep(gd, g, b)
      <3>1. CASE b = GENESIS
        BY <1>8, <3>1 DEF ChainStep
      <3>2. CASE b # GENESIS
        BY <1>3, <1>10, <3>2 DEF ChainStep
      <3> QED BY <3>1, <3>2
    <2> QED BY <1>9, <2>1
  <1>11. DependsOn(K, A, D, H)
    BY <1>9, <1>10 DEF DependsOn
  <1>12. PICK f : Solves(H, A, K, K, f)
    BY <1>6, <1>7, <1>11, RecursionExists
  <1>13. f \in [K -> A] /\ \A b \in K : f[b] = ChainStep(gd, f, b)
    BY <1>9, <1>12 DEF Solves
  <1>14. DOMAIN gd = K
    BY <1>1 DEF Shape
  <1>15. f = [b \in K |-> ChainStep(gd, f, b)]
    BY <1>13
  <1> QED BY <1>1, <1>4, <1>13, <1>14, <1>15 DEF IsChain

ChainFacts(gd) ==
    /\ SelectedChain(gd, GENESIS) = <<GENESIS>>
    /\ \A b \in DOMAIN gd :
          /\ SelectedChain(gd, b) \in Seq(DOMAIN gd)
          /\ b # GENESIS => SelectedChain(gd, b) = Append(SelectedChain(gd, gd[b].selected_parent), b)

LEMMA SelectedChainIs ==
    ASSUME NEW dag, NEW gd, Shape(dag, gd)
    PROVE  ChainFacts(gd)
  <1>1. PICK f : f = ChainFn(gd) /\ IsChain(gd, f)
    BY ChainExists DEF ChainFn
  <1>2. PICK K : K = DOMAIN gd /\ K = DOMAIN dag
    BY DEF Shape
  <1>3. \A b \in K : f[b] = ChainStep(gd, f, b)
    BY <1>1, <1>2 DEF IsChain
  <1>4. \A b \in K : SelectedChain(gd, b) = f[b]
    BY <1>1, ChainIs
  <1>5. GENESIS \in K /\ gd[GENESIS].selected_parent = None
    BY <1>2 DEF Shape, GhostdagGenesis
  <1>6. f[GENESIS] = <<GENESIS>>
    BY <1>3, <1>5 DEF ChainStep
  <1>7. ASSUME NEW b \in K, b # GENESIS
        PROVE  gd[b].selected_parent \in K /\ f[b] = Append(f[gd[b].selected_parent], b)
    BY <1>2, <1>3, <1>7, SelectedParentIs DEF ChainStep
  <1> DEFINE Good == {b \in K : f[b] \in Seq(K)}
  <1>8. PICK rank : rank = [b \in K |-> gd[b].blue_score]
    OBVIOUS
  <1>9. PICK D : D = [b \in K |-> IF b = GENESIS THEN {} ELSE {gd[b].selected_parent}]
    OBVIOUS
  <1>10. \A b \in K : rank[b] \in Nat
    BY <1>2, <1>8 DEF Shape
  <1>11. ASSUME NEW b \in K, NEW x \in D[b] PROVE x \in K /\ rank[x] < rank[b]
    <2>1. b # GENESIS /\ x = gd[b].selected_parent
      BY <1>9
    <2> QED BY <1>2, <1>8, <2>1, SelectedParentIs
  <1>12. ASSUME NEW b \in K, D[b] \subseteq Good PROVE b \in Good
    <2>1. CASE b = GENESIS
      <3>1. <<b>> \in Seq(K)
        OBVIOUS
      <3> QED BY <1>6, <2>1, <3>1
    <2>2. CASE b # GENESIS
      <3>1. PICK p \in K : p = gd[b].selected_parent
        BY <1>7, <2>2
      <3>2. f[p] \in Seq(K)
        BY <1>9, <1>12, <2>2, <3>1
      <3>3. Append(f[p], b) \in Seq(K)
        BY <3>2
      <3> QED BY <1>7, <2>2, <3>1, <3>3
    <2> QED BY <2>1, <2>2
  <1>13. \A b \in K : b \in Good
    <2>1. \A b \in K : D[b] \subseteq Good => b \in Good
      BY <1>12
    <2>2. \A b \in K : \A x \in D[b] : x \in K /\ rank[x] < rank[b]
      BY <1>11
    <2> HIDE DEF Good
    <2> QED BY <1>10, <2>1, <2>2, RankInduction
  <1>14. \A b \in K : SelectedChain(gd, b) \in Seq(K)
    BY <1>4, <1>13
  <1>15. SelectedChain(gd, GENESIS) = <<GENESIS>>
    BY <1>4, <1>5, <1>6
  <1>16. \A b \in K : b # GENESIS => SelectedChain(gd, b) = Append(SelectedChain(gd, gd[b].selected_parent), b)
    BY <1>4, <1>7
  <1> QED BY <1>2, <1>14, <1>15, <1>16 DEF ChainFacts

On(gd, b) == ToSet(SelectedChain(gd, b))

LEMMA OnIs ==
    ASSUME NEW dag, NEW gd, Shape(dag, gd)
    PROVE  /\ On(gd, GENESIS) = {GENESIS}
           /\ \A b \in DOMAIN gd \ {GENESIS} : On(gd, b) = On(gd, gd[b].selected_parent) \cup {b}
  <1>1. ChainFacts(gd)
    BY SelectedChainIs
  <1>2. ToSet(<<GENESIS>>) = {GENESIS}
    BY DEF ToSet
  <1>3. ASSUME NEW b \in DOMAIN gd \ {GENESIS} PROVE On(gd, b) = On(gd, gd[b].selected_parent) \cup {b}
    <2>1. PICK p \in DOMAIN gd : p = gd[b].selected_parent
      BY SelectedParentIs DEF Shape
    <2>2. SelectedChain(gd, b) = Append(SelectedChain(gd, p), b) /\ SelectedChain(gd, p) \in Seq(DOMAIN gd)
      BY <1>1, <2>1 DEF ChainFacts
    <2>3. PICK s \in Seq(DOMAIN gd) : s = SelectedChain(gd, p)
      BY <2>2
    <2>4. ToSet(Append(s, b)) = ToSet(s) \cup {b}
      BY ToSetAppend
    <2> QED BY <2>1, <2>2, <2>3, <2>4 DEF On
  <1> QED BY <1>1, <1>2, <1>3 DEF ChainFacts, On

BelowOnChain(dag, gd, b, x) ==
    /\ x \in DOMAIN dag
    /\ x = b \/ (gd[x].blue_score < gd[b].blue_score /\ x \in PastMap(dag)[b])
    /\ On(gd, x) \subseteq On(gd, b)

ChainTree(dag, gd, b) ==
    /\ b \in On(gd, b) /\ GENESIS \in On(gd, b)
    /\ \A x \in On(gd, b) : BelowOnChain(dag, gd, b, x)
    /\ \A x, y \in On(gd, b) : gd[x].blue_score <= gd[y].blue_score => x \in On(gd, y)

LEMMA ChainsFormTree ==
    ASSUME NEW dag, NEW gd, Shape(dag, gd)
    PROVE  \A b \in DOMAIN dag : ChainTree(dag, gd, b)
  <1>0. PICK K : K = DOMAIN dag /\ K = DOMAIN gd
    BY DEF Shape
  <1>1. On(gd, GENESIS) = {GENESIS} /\ GENESIS \in K
    BY <1>0, OnIs DEF Shape
  <1>2. PICK rank : rank = [b \in K |-> gd[b].blue_score]
    OBVIOUS
  <1>3. PICK D : D = [b \in K |-> IF b = GENESIS THEN {} ELSE {gd[b].selected_parent}]
    OBVIOUS
  <1>4. \A b \in K : rank[b] \in Nat /\ gd[b].blue_score \in Nat
    BY <1>0, <1>2 DEF Shape
  <1>5. ASSUME NEW b \in K, b # GENESIS
        PROVE  /\ gd[b].selected_parent \in K /\ gd[gd[b].selected_parent].blue_score < gd[b].blue_score
               /\ gd[b].selected_parent \in dag[b].parents
               /\ On(gd, b) = On(gd, gd[b].selected_parent) \cup {b}
    BY <1>0, <1>5, SelectedParentIs, OnIs
  <1>6. ASSUME NEW b \in K, NEW x \in D[b] PROVE x \in K /\ rank[x] < rank[b]
    <2>1. b # GENESIS /\ x = gd[b].selected_parent
      BY <1>3
    <2> QED BY <1>2, <1>5, <2>1
  <1> DEFINE Good == {b \in K : ChainTree(dag, gd, b)}
  <1>7. ASSUME NEW b \in K, D[b] \subseteq Good PROVE ChainTree(dag, gd, b)
    <2>1. CASE b = GENESIS
      BY <1>0, <1>1, <2>1 DEF ChainTree, BelowOnChain
    <2>2. CASE b # GENESIS
      <3>1. PICK p \in K : p = gd[b].selected_parent
        BY <1>5, <2>2
      <3>2. ChainTree(dag, gd, p) /\ gd[p].blue_score < gd[b].blue_score /\ p \in dag[b].parents
        BY <1>3, <1>5, <1>7, <2>2, <3>1
      <3>3. On(gd, b) = On(gd, p) \cup {b}
        BY <1>5, <2>2, <3>1
      <3>4. PICK P : P = PastMap(dag)
        OBVIOUS
      <3>5. p \in P[b] /\ P[p] \subseteq P[b]
        BY <1>0, <3>2, <3>4, PastIs DEF PastFacts
      <3>6. ASSUME NEW x \in On(gd, p)
            PROVE x \in K /\ gd[x].blue_score < gd[b].blue_score /\ x \in P[b] /\ On(gd, x) \subseteq On(gd, p)
        <4>1. x \in K /\ (x = p \/ (gd[x].blue_score < gd[p].blue_score /\ x \in P[p])) /\ On(gd, x) \subseteq On(gd, p)
          BY <1>0, <3>2, <3>4 DEF ChainTree, BelowOnChain
        <4>2. gd[x].blue_score \in Nat /\ gd[p].blue_score \in Nat /\ gd[b].blue_score \in Nat
          BY <1>4, <4>1
        <4> QED BY <3>2, <3>5, <4>1, <4>2
      <3>7. \A x \in On(gd, b) : BelowOnChain(dag, gd, b, x)
        BY <1>0, <3>3, <3>4, <3>6 DEF BelowOnChain
      <3>8. ASSUME NEW x \in On(gd, b), NEW y \in On(gd, b), gd[x].blue_score <= gd[y].blue_score
            PROVE  x \in On(gd, y)
        <4>1. CASE y = b
          BY <4>1
        <4>2. CASE y # b /\ x = b
          <5>1. gd[y].blue_score < gd[b].blue_score /\ y \in K
            BY <3>3, <3>6, <4>2
          <5> QED BY <1>4, <3>8, <4>2, <5>1
        <4>3. CASE y # b /\ x # b
          BY <3>2, <3>3, <3>8, <4>3 DEF ChainTree
        <4> QED BY <4>1, <4>2, <4>3
      <3>9. b \in On(gd, b) /\ GENESIS \in On(gd, b)
        BY <3>2, <3>3 DEF ChainTree
      <3> QED BY <3>7, <3>8, <3>9 DEF ChainTree
    <2> QED BY <2>1, <2>2
  <1>8. \A b \in K : b \in Good
    <2>1. \A b \in K : D[b] \subseteq Good => b \in Good
      BY <1>7
    <2>2. \A b \in K : \A x \in D[b] : x \in K /\ rank[x] < rank[b]
      BY <1>6
    <2> HIDE DEF Good
    <2> QED BY <1>4, <2>1, <2>2, RankInduction
  <1> QED BY <1>0, <1>8

-----------------------------------------------------------------------------
(***************************************************************************)
(* The topological order of a mergeset holds each of its blocks once, and  *)
(* each after those of the mergeset that are in its past.                  *)
(***************************************************************************)
RankIn(past, ms, h) == Cardinality(past[h] \cap ms)

Earlier(past, ms, a, b) ==
    RankIn(past, ms, a) < RankIn(past, ms, b) \/ (RankIn(past, ms, a) = RankIn(past, ms, b) /\ a < b)

EarlierThan(past, ms, h) == {x \in ms : Earlier(past, ms, x, h)}

Place(past, ms, h) == Cardinality(EarlierThan(past, ms, h)) + 1

LEMMA TopologicalOrderIs ==
    ASSUME NEW past, NEW ms
    PROVE  TopologicalOrder(past, ms) = [i \in 1..Cardinality(ms) |-> CHOOSE h \in ms : Place(past, ms, h) = i]
  BY DEF TopologicalOrder, Place, EarlierThan, Earlier, RankIn

Placed(past, ms, T, n) ==
    /\ n \in Nat /\ DOMAIN T = 1..n
    /\ \A i \in 1..n : T[i] \in ms /\ Place(past, ms, T[i]) = i
    /\ \A h \in ms : Place(past, ms, h) \in 1..n /\ T[Place(past, ms, h)] = h
    /\ \A a, b \in ms : Earlier(past, ms, a, b) => Place(past, ms, a) < Place(past, ms, b)

LEMMA PlacesApart ==
    ASSUME NEW past, NEW ms, IsFiniteSet(ms), (\A h \in ms : h \in Nat), NEW a \in ms, NEW b \in ms,
           Earlier(past, ms, a, b)
    PROVE  Place(past, ms, a) < Place(past, ms, b)
  <1>1. \A h \in ms : RankIn(past, ms, h) \in Nat
    <2> TAKE h \in ms
    <2>1. past[h] \cap ms \in SUBSET ms
      OBVIOUS
    <2>2. IsFiniteSet(past[h] \cap ms)
      BY <2>1, FS_Subset
    <2> QED BY <2>2, FS_CardinalityType DEF RankIn
  <1>2. PICK A : A = EarlierThan(past, ms, a)
    OBVIOUS
  <1>3. PICK B : B = EarlierThan(past, ms, b)
    OBVIOUS
  <1>4. A \in SUBSET ms /\ B \in SUBSET ms
    BY <1>2, <1>3 DEF EarlierThan
  <1>5. ASSUME NEW x \in A PROVE x \in B /\ x # a
    <2>1. x \in ms /\ Earlier(past, ms, x, a)
      BY <1>2 DEF EarlierThan
    <2>2. PICK i \in Nat, j \in Nat, k \in Nat :
            i = RankIn(past, ms, x) /\ j = RankIn(past, ms, a) /\ k = RankIn(past, ms, b)
      BY <1>1, <2>1
    <2>3. (i < j \/ (i = j /\ x < a)) /\ (j < k \/ (j = k /\ a < b))
      BY <2>1, <2>2 DEF Earlier
    <2>4. x \in Nat /\ a \in Nat /\ b \in Nat
      BY <2>1
    <2>5. (i < k \/ (i = k /\ x < b)) /\ x # a
      <3>1. x = a => i = j
        BY <2>2
      <3> QED BY <2>3, <2>4, <3>1
    <2> QED BY <1>3, <2>1, <2>2, <2>5 DEF EarlierThan, Earlier
  <1>6. a \in B /\ a \notin A
    BY <1>3, <1>5 DEF EarlierThan
  <1>7. IsFiniteSet(A) /\ IsFiniteSet(B)
    BY <1>4, FS_Subset
  <1>8. A \in SUBSET B /\ A # B
    BY <1>5, <1>6
  <1>9. Cardinality(A) <= Cardinality(B) /\ Cardinality(A) # Cardinality(B)
    BY <1>7, <1>8, FS_Subset
  <1>10. Cardinality(A) \in Nat /\ Cardinality(B) \in Nat
    BY <1>7, FS_CardinalityType
  <1> QED BY <1>2, <1>3, <1>9, <1>10 DEF Place

LEMMA TopologicalOrderPlaces ==
    ASSUME NEW past, NEW ms, IsFiniteSet(ms), (\A h \in ms : h \in Nat)
    PROVE  Placed(past, ms, TopologicalOrder(past, ms), Cardinality(ms))
  <1>1. PICK n \in Nat : n = Cardinality(ms)
    BY FS_CardinalityType
  <1>2. ASSUME NEW h \in ms PROVE Place(past, ms, h) \in 1..n
    <2>1. PICK E : E = EarlierThan(past, ms, h)
      OBVIOUS
    <2>2. ~Earlier(past, ms, h, h)
      <3>1. past[h] \cap ms \in SUBSET ms
        OBVIOUS
      <3>2. RankIn(past, ms, h) \in Nat
        BY <3>1, FS_Subset, FS_CardinalityType DEF RankIn
      <3> QED BY <3>2 DEF Earlier
    <2>3. E \in SUBSET ms /\ h \notin E
      BY <2>1, <2>2 DEF EarlierThan
    <2>4. IsFiniteSet(E) /\ Cardinality(E) <= n /\ Cardinality(E) # n
      BY <1>1, <2>3, FS_Subset
    <2>5. Cardinality(E) \in Nat
      BY <2>4, FS_CardinalityType
    <2>6. PICK c \in Nat : c = Cardinality(E)
      BY <2>5
    <2>7. c + 1 \in 1..n
      BY <2>4, <2>6
    <2> QED BY <2>1, <2>6, <2>7 DEF Place
  <1>3. ASSUME NEW a \in ms, NEW b \in ms, a # b PROVE Place(past, ms, a) # Place(past, ms, b)
    <2>1. PICK i \in Nat, j \in Nat : i = RankIn(past, ms, a) /\ j = RankIn(past, ms, b)
      <3>1. past[a] \cap ms \in SUBSET ms /\ past[b] \cap ms \in SUBSET ms
        OBVIOUS
      <3>2. IsFiniteSet(past[a] \cap ms) /\ IsFiniteSet(past[b] \cap ms)
        BY <3>1, FS_Subset
      <3> QED BY <3>2, FS_CardinalityType DEF RankIn
    <2>2. a \in Nat /\ b \in Nat
      OBVIOUS
    <2>3. (i < j \/ (i = j /\ a < b)) \/ (j < i \/ (j = i /\ b < a))
      BY <1>3, <2>2
    <2>4. Earlier(past, ms, a, b) \/ Earlier(past, ms, b, a)
      BY <2>1, <2>3 DEF Earlier
    <2>5. Place(past, ms, a) < Place(past, ms, b) \/ Place(past, ms, b) < Place(past, ms, a)
      BY <2>4, PlacesApart
    <2>6. Place(past, ms, a) \in 1..n /\ Place(past, ms, b) \in 1..n
      BY <1>2
    <2>7. PICK u \in Nat, v \in Nat : u = Place(past, ms, a) /\ v = Place(past, ms, b)
      BY <2>6
    <2> QED BY <2>5, <2>7
  <1>4. PICK f : f = [h \in ms |-> Place(past, ms, h)]
    OBVIOUS
  <1>5. f \in Injection(ms, 1..n)
    <2>1. f \in [ms -> 1..n]
      BY <1>2, <1>4
    <2>2. \A a, b \in ms : f[a] = f[b] => a = b
      BY <1>3, <1>4
    <2> QED BY <2>1, <2>2 DEF Injection, IsInjective
  <1>6. IsFiniteSet(1..n) /\ Cardinality(1..n) = n
    BY FS_Interval
  <1>7. f \in Surjection(ms, 1..n)
    BY <1>1, <1>5, <1>6, FS_Injection
  <1>8. \A i \in 1..n : \E h \in ms : Place(past, ms, h) = i
    BY <1>4, <1>7 DEF Surjection
  <1>9. PICK T : T = TopologicalOrder(past, ms)
    OBVIOUS
  <1>10. T = [i \in 1..n |-> CHOOSE h \in ms : Place(past, ms, h) = i]
    BY <1>1, <1>9, TopologicalOrderIs
  <1>11. \A i \in 1..n : T[i] \in ms /\ Place(past, ms, T[i]) = i
    BY <1>8, <1>10
  <1>12. \A h \in ms : T[Place(past, ms, h)] = h
    BY <1>2, <1>3, <1>11
  <1> QED BY <1>1, <1>2, <1>9, <1>10, <1>11, <1>12, PlacesApart DEF Placed

LEMMA PastComesFirst ==
    ASSUME NEW past, NEW ms, IsFiniteSet(ms), (\A h \in ms : h \in Nat), NEW a \in ms, NEW b \in ms,
           a \in past[b], past[a] \subseteq past[b], a \notin past[a]
    PROVE  Place(past, ms, a) < Place(past, ms, b)
  <1>1. PICK A : A = past[a] \cap ms
    OBVIOUS
  <1>2. PICK B : B = past[b] \cap ms
    OBVIOUS
  <1>3. A \in SUBSET ms /\ B \in SUBSET ms /\ A \in SUBSET B /\ A # B
    BY <1>1, <1>2
  <1>4. IsFiniteSet(A) /\ IsFiniteSet(B)
    BY <1>3, FS_Subset
  <1>5. Cardinality(A) <= Cardinality(B) /\ Cardinality(A) # Cardinality(B)
    BY <1>3, <1>4, FS_Subset
  <1>6. Cardinality(A) \in Nat /\ Cardinality(B) \in Nat
    BY <1>4, FS_CardinalityType
  <1>7. Earlier(past, ms, a, b)
    BY <1>1, <1>2, <1>5, <1>6 DEF Earlier, RankIn
  <1> QED BY <1>7, PlacesApart

-----------------------------------------------------------------------------
(***************************************************************************)
(* The colouring: after i blocks of the topological order, the blues after *)
(* the selected parent and the reds hold exactly these blocks, each once   *)
(* and each colour in the topological order.  pl is the place of a block.  *)
(***************************************************************************)
Colored(pl, ms, sp, i, blues, reds) ==
    /\ blues \in Seq(ms \cup {sp}) /\ reds \in Seq(ms) /\ Len(blues) >= 1 /\ blues[1] = sp
    /\ \A k \in 2..Len(blues) : blues[k] \in ms /\ pl[blues[k]] <= i
    /\ \A k \in 1..Len(reds) : pl[reds[k]] <= i
    /\ \A k, l \in 2..Len(blues) : k < l => pl[blues[k]] < pl[blues[l]]
    /\ \A k, l \in 1..Len(reds) : k < l => pl[reds[k]] < pl[reds[l]]
    /\ \A k \in 2..Len(blues) : \A l \in 1..Len(reds) : blues[k] # reds[l]
    /\ \A h \in ms : pl[h] <= i => \/ \E k \in 2..Len(blues) : blues[k] = h
                                   \/ \E k \in 1..Len(reds) : reds[k] = h

LEMMA AppendIs ==
    ASSUME NEW V, NEW s \in Seq(V), NEW c \in V
    PROVE  /\ Append(s, c) \in Seq(V) /\ Len(Append(s, c)) = Len(s) + 1 /\ Len(s) \in Nat
           /\ Append(s, c)[Len(s) + 1] = c /\ \A k \in 1..Len(s) : Append(s, c)[k] = s[k] /\ s[k] \in V
  OBVIOUS

LEMMA BlueAdded ==
    ASSUME NEW ms, NEW pl, (\A h \in ms : pl[h] \in Nat), (\A g, h \in ms : pl[g] = pl[h] => g = h),
           NEW sp, NEW i \in Nat, NEW blues, NEW reds, Colored(pl, ms, sp, i, blues, reds),
           NEW c \in ms, pl[c] = i + 1
    PROVE  Colored(pl, ms, sp, i + 1, Append(blues, c), reds)
  <1>1. PICK t : t = Append(blues, c)
    OBVIOUS
  <1>2. PICK n \in Nat : n = Len(blues) /\ n >= 1
    BY DEF Colored
  <1>3. PICK m \in Nat : m = Len(reds)
    BY DEF Colored
  <1>4. /\ t \in Seq(ms \cup {sp}) /\ Len(t) = n + 1 /\ t[n + 1] = c
        /\ \A k \in 1..n : t[k] = blues[k]
    <2>1. blues \in Seq(ms \cup {sp}) /\ c \in ms \cup {sp}
      BY DEF Colored
    <2> QED BY <1>1, <1>2, <2>1, AppendIs
  <1>5. \A k \in 2..(n + 1) : k = n + 1 \/ (k \in 2..n /\ k \in 1..n)
    OBVIOUS
  <1>6. \A k \in 2..n : t[k] = blues[k] /\ blues[k] \in ms /\ pl[blues[k]] <= i /\ pl[blues[k]] \in Nat
    BY <1>2, <1>4 DEF Colored
  <1>7. \A k \in 1..m : reds[k] \in ms /\ pl[reds[k]] <= i /\ pl[reds[k]] \in Nat
    BY <1>3 DEF Colored
  <1>8. reds \in Seq(ms) /\ Len(t) >= 1 /\ t[1] = sp
    BY <1>2, <1>4 DEF Colored
  <1>9. \A k \in 2..(n + 1) : t[k] \in ms /\ pl[t[k]] <= i + 1
    BY <1>4, <1>5, <1>6
  <1>10. \A k \in 1..m : pl[reds[k]] <= i + 1
    BY <1>7
  <1>11. ASSUME NEW k \in 2..(n + 1), NEW l \in 2..(n + 1), k < l PROVE pl[t[k]] < pl[t[l]]
    <2>1. k \in 2..n
      BY <1>11
    <2>2. CASE l = n + 1
      BY <1>4, <1>6, <2>1, <2>2
    <2>3. CASE l \in 2..n
      BY <1>2, <1>6, <1>11, <2>1, <2>3 DEF Colored
    <2> QED BY <1>5, <2>2, <2>3
  <1>12. ASSUME NEW k \in 2..(n + 1), NEW l \in 1..m PROVE t[k] # reds[l]
    <2>1. CASE k = n + 1
      BY <1>4, <1>7, <2>1
    <2>2. CASE k \in 2..n
      BY <1>2, <1>3, <1>6, <2>2 DEF Colored
    <2> QED BY <1>5, <2>1, <2>2
  <1>13. ASSUME NEW h \in ms, pl[h] <= i + 1
         PROVE  (\E k \in 2..(n + 1) : t[k] = h) \/ (\E k \in 1..m : reds[k] = h)
    <2>1. CASE h = c
      <3>1. n + 1 \in 2..(n + 1)
        BY <1>2
      <3> QED BY <1>4, <2>1, <3>1
    <2>2. CASE h # c
      <3>1. pl[h] \in Nat /\ pl[h] # i + 1
        BY <2>2
      <3>2. pl[h] <= i
        BY <1>13, <3>1
      <3>3. (\E k \in 2..n : blues[k] = h) \/ (\E k \in 1..m : reds[k] = h)
        BY <1>2, <1>3, <3>2 DEF Colored
      <3>4. \A k \in 2..n : k \in 2..(n + 1)
        OBVIOUS
      <3> QED BY <1>6, <3>3, <3>4
    <2> QED BY <2>1, <2>2
  <1>14. \A k, l \in 1..m : k < l => pl[reds[k]] < pl[reds[l]]
    BY <1>3 DEF Colored
  <1>15. Colored(pl, ms, sp, i + 1, t, reds)
    BY <1>3, <1>4, <1>8, <1>9, <1>10, <1>11, <1>12, <1>13, <1>14 DEF Colored
  <1> QED BY <1>1, <1>15

LEMMA RedAdded ==
    ASSUME NEW ms, NEW pl, (\A h \in ms : pl[h] \in Nat), (\A g, h \in ms : pl[g] = pl[h] => g = h),
           NEW sp, NEW i \in Nat, NEW blues, NEW reds, Colored(pl, ms, sp, i, blues, reds),
           NEW c \in ms, pl[c] = i + 1
    PROVE  Colored(pl, ms, sp, i + 1, blues, Append(reds, c))
  <1>1. PICK t : t = Append(reds, c)
    OBVIOUS
  <1>2. PICK n \in Nat : n = Len(blues) /\ n >= 1
    BY DEF Colored
  <1>3. PICK m \in Nat : m = Len(reds)
    BY DEF Colored
  <1>4. /\ t \in Seq(ms) /\ Len(t) = m + 1 /\ t[m + 1] = c
        /\ \A k \in 1..m : t[k] = reds[k]
    <2>1. reds \in Seq(ms)
      BY DEF Colored
    <2> QED BY <1>1, <1>3, <2>1, AppendIs
  <1>5. \A k \in 1..(m + 1) : k = m + 1 \/ k \in 1..m
    OBVIOUS
  <1>6. \A k \in 2..n : blues[k] \in ms /\ pl[blues[k]] <= i /\ pl[blues[k]] \in Nat
    BY <1>2, <1>4 DEF Colored
  <1>7. \A k \in 1..m : t[k] = reds[k] /\ reds[k] \in ms /\ pl[reds[k]] <= i /\ pl[reds[k]] \in Nat
    BY <1>3, <1>4 DEF Colored
  <1>8. blues \in Seq(ms \cup {sp}) /\ Len(blues) >= 1 /\ blues[1] = sp
    BY DEF Colored
  <1>9. \A k \in 2..n : blues[k] \in ms /\ pl[blues[k]] <= i + 1
    BY <1>6
  <1>10. \A k \in 1..(m + 1) : pl[t[k]] <= i + 1
    BY <1>4, <1>5, <1>7
  <1>11. ASSUME NEW k \in 1..(m + 1), NEW l \in 1..(m + 1), k < l PROVE pl[t[k]] < pl[t[l]]
    <2>1. k \in 1..m
      BY <1>11
    <2>2. CASE l = m + 1
      BY <1>4, <1>7, <2>1, <2>2
    <2>3. CASE l \in 1..m
      BY <1>3, <1>7, <1>11, <2>1, <2>3 DEF Colored
    <2> QED BY <1>5, <2>2, <2>3
  <1>12. ASSUME NEW k \in 2..n, NEW l \in 1..(m + 1) PROVE blues[k] # t[l]
    <2>1. CASE l = m + 1
      BY <1>4, <1>6, <2>1
    <2>2. CASE l \in 1..m
      BY <1>2, <1>3, <1>7, <2>2 DEF Colored
    <2> QED BY <1>5, <2>1, <2>2
  <1>13. ASSUME NEW h \in ms, pl[h] <= i + 1
         PROVE  (\E k \in 2..n : blues[k] = h) \/ (\E k \in 1..(m + 1) : t[k] = h)
    <2>1. CASE h = c
      <3>1. m + 1 \in 1..(m + 1)
        BY <1>3
      <3> QED BY <1>4, <2>1, <3>1
    <2>2. CASE h # c
      <3>1. pl[h] \in Nat /\ pl[h] # i + 1
        BY <2>2
      <3>2. pl[h] <= i
        BY <1>13, <3>1
      <3>3. (\E k \in 2..n : blues[k] = h) \/ (\E k \in 1..m : reds[k] = h)
        BY <1>2, <1>3, <3>2 DEF Colored
      <3>4. \A k \in 1..m : k \in 1..(m + 1)
        OBVIOUS
      <3> QED BY <1>7, <3>3, <3>4
    <2> QED BY <2>1, <2>2
  <1>14. \A k, l \in 2..n : k < l => pl[blues[k]] < pl[blues[l]]
    BY <1>2 DEF Colored
  <1>15. Colored(pl, ms, sp, i + 1, blues, t)
    BY <1>2, <1>4, <1>8, <1>9, <1>10, <1>11, <1>12, <1>13, <1>14 DEF Colored
  <1> QED BY <1>1, <1>15

(***************************************************************************)
(* The blocks seen blue stay a k-cluster: the candidate is checked, and so *)
(* is every blue that it adds to the anticone of.                          *)
(***************************************************************************)
AnticoneIn(past, S, x) == {y \in S : InAnticone(past, x, y)}

KCluster(past, S) == IsFiniteSet(S) /\ \A x \in S : Cardinality(AnticoneIn(past, S, x)) <= GHOSTDAG_K

LEMMA CandidateIs ==
    ASSUME NEW past, NEW S, NEW c, ColorCandidateBlue(past, S, c)
    PROVE  /\ Cardinality(AnticoneIn(past, S, c)) <= GHOSTDAG_K
           /\ \A d \in AnticoneIn(past, S, c) : Cardinality(AnticoneIn(past, S, d)) < GHOSTDAG_K
  <1>1. \A x : {b \in S : InAnticone(past, b, x)} = AnticoneIn(past, S, x)
    BY DEF AnticoneIn, InAnticone
  <1> QED BY <1>1 DEF ColorCandidateBlue

LEMMA KClusterGrows ==
    ASSUME NEW past, NEW S, KCluster(past, S), NEW c, ColorCandidateBlue(past, S, c)
    PROVE  KCluster(past, S \cup {c})
  <1>1. PICK U : U = S \cup {c}
    OBVIOUS
  <1>2. IsFiniteSet(S) /\ IsFiniteSet(U)
    BY <1>1, FS_AddElement DEF KCluster
  <1>3. \A x : IsFiniteSet(AnticoneIn(past, S, x)) /\ Cardinality(AnticoneIn(past, S, x)) \in Nat
    <2> TAKE x
    <2>1. AnticoneIn(past, S, x) \in SUBSET S
      BY DEF AnticoneIn
    <2>2. IsFiniteSet(AnticoneIn(past, S, x))
      BY <1>2, <2>1, FS_Subset
    <2> QED BY <2>2, FS_CardinalityType
  <1>4. ASSUME NEW x \in U PROVE Cardinality(AnticoneIn(past, U, x)) <= GHOSTDAG_K
    <2>1. CASE x = c
      <3>1. AnticoneIn(past, U, x) = AnticoneIn(past, S, c)
        BY <1>1, <2>1 DEF AnticoneIn, InAnticone
      <3> QED BY <3>1, CandidateIs
    <2>2. CASE x # c /\ InAnticone(past, x, c)
      <3>1. x \in S /\ x \in AnticoneIn(past, S, c)
        BY <1>1, <2>2 DEF AnticoneIn, InAnticone
      <3>2. Cardinality(AnticoneIn(past, S, x)) < GHOSTDAG_K
        BY <3>1, CandidateIs
      <3>3. AnticoneIn(past, U, x) = AnticoneIn(past, S, x) \cup {c}
        BY <1>1, <2>2 DEF AnticoneIn
      <3>4. PICK B : B = AnticoneIn(past, S, x)
        OBVIOUS
      <3>5. IsFiniteSet(B) /\ Cardinality(B) \in Nat /\ Cardinality(B) < GHOSTDAG_K
        BY <1>3, <3>2, <3>4
      <3>6. Cardinality(B \cup {c}) = IF c \in B THEN Cardinality(B) ELSE Cardinality(B) + 1
        BY <3>5, FS_AddElement
      <3>7. Cardinality(B \cup {c}) <= GHOSTDAG_K
        BY <3>5, <3>6, GhostdagConstants
      <3> QED BY <3>3, <3>4, <3>7
    <2>3. CASE x # c /\ ~InAnticone(past, x, c)
      <3>1. AnticoneIn(past, U, x) = AnticoneIn(past, S, x) /\ x \in S
        BY <1>1, <2>3 DEF AnticoneIn
      <3> QED BY <3>1 DEF KCluster
    <2> QED BY <2>1, <2>2, <2>3
  <1> QED BY <1>1, <1>2, <1>4 DEF KCluster

ColorBase(seen0, sp) == [seen |-> seen0, blues |-> <<sp>>, reds |-> <<>>]

ColorAcc(seen0, ms, sp) == [seen : SUBSET (seen0 \cup ms), blues : Seq(ms \cup {sp}), reds : Seq(ms)]

Places(past, ms) == [h \in ms |-> Place(past, ms, h)]

ColorDone(past, seen0, ms, sp, i, acc) ==
    /\ Colored(Places(past, ms), ms, sp, i, acc.blues, acc.reds)
    /\ acc.seen = seen0 \cup ToSet(acc.blues)
    /\ KCluster(past, seen0) => KCluster(past, acc.seen)

BlueOrRed(past, acc, c, new) ==
    \/ /\ ColorCandidateBlue(past, acc.seen, c) /\ new.seen = acc.seen \cup {c}
       /\ new.blues = Append(acc.blues, c) /\ new.reds = acc.reds
    \/ /\ new.seen = acc.seen /\ new.blues = acc.blues /\ new.reds = Append(acc.reds, c)

LEMMA ColorStepIs ==
    ASSUME NEW past, NEW seen0, NEW ms, NEW sp, NEW acc \in ColorAcc(seen0, ms, sp), NEW c \in ms
    PROVE  /\ ColorStep(past, acc, c) \in ColorAcc(seen0, ms, sp)
           /\ BlueOrRed(past, acc, c, ColorStep(past, acc, c))
  <1>1. PICK se \in SUBSET (seen0 \cup ms), bl \in Seq(ms \cup {sp}), re \in Seq(ms) :
           acc = [seen |-> se, blues |-> bl, reds |-> re]
    BY DEF ColorAcc
  <1>2. Append(bl, c) \in Seq(ms \cup {sp}) /\ Append(re, c) \in Seq(ms) /\ se \cup {c} \in SUBSET (seen0 \cup ms)
    OBVIOUS
  <1>3. PICK bl2 \in Seq(ms \cup {sp}), re2 \in Seq(ms), se2 \in SUBSET (seen0 \cup ms) :
           bl2 = Append(bl, c) /\ re2 = Append(re, c) /\ se2 = se \cup {c}
    BY <1>2
  <1>4. acc.seen = se /\ acc.blues = bl /\ acc.reds = re
    BY <1>1
  <1>5. CASE ColorCandidateBlue(past, acc.seen, c)
    <2>1. ColorStep(past, acc, c) = [seen |-> se2, blues |-> bl2, reds |-> re]
      BY <1>1, <1>3, <1>5 DEF ColorStep
    <2> QED BY <1>3, <1>4, <1>5, <2>1 DEF ColorAcc, BlueOrRed
  <1>6. CASE ~ColorCandidateBlue(past, acc.seen, c)
    <2>1. ColorStep(past, acc, c) = [seen |-> se, blues |-> bl, reds |-> re2]
      BY <1>1, <1>3, <1>6 DEF ColorStep
    <2> QED BY <1>3, <1>4, <1>6, <2>1 DEF ColorAcc, BlueOrRed
  <1> QED BY <1>5, <1>6

LEMMA ColoringIs ==
    ASSUME NEW past, NEW ms, IsFiniteSet(ms), (\A h \in ms : h \in Nat), NEW seen0, NEW sp \in seen0
    PROVE  LET done == Coloring(past, ColorBase(seen0, sp), TopologicalOrder(past, ms)) IN
           ColorDone(past, seen0, ms, sp, Cardinality(ms), done)
  <1>1. PICK T : T = TopologicalOrder(past, ms)
    OBVIOUS
  <1>2. PICK n : n = Cardinality(ms)
    OBVIOUS
  <1>3. Placed(past, ms, T, n)
    BY <1>1, <1>2, TopologicalOrderPlaces
  <1>4. PICK A : A = ColorAcc(seen0, ms, sp)
    OBVIOUS
  <1>5. PICK base : base = ColorBase(seen0, sp)
    OBVIOUS
  <1>6. PICK pl : pl = Places(past, ms)
    OBVIOUS
  <1>7. n \in Nat /\ DOMAIN T = 1..n /\ IndexedIn(T, n, ms) /\ \A i \in 1..n : T[i] \in ms /\ pl[T[i]] = i
    BY <1>3, <1>6 DEF Placed, IndexedIn, Places
  <1>8. /\ \A h \in ms : pl[h] \in 1..n /\ pl[h] \in Nat
        /\ \A g, h \in ms : pl[g] = pl[h] => g = h
    BY <1>3, <1>6, <1>7 DEF Placed, Places
  <1>9. base \in A
    <2>1. <<sp>> \in Seq(ms \cup {sp}) /\ <<>> \in Seq(ms) /\ seen0 \in SUBSET (seen0 \cup ms)
      OBVIOUS
    <2> QED BY <1>4, <1>5, <2>1 DEF ColorAcc, ColorBase
  <1>10. \A a \in A : \A v \in ms : ColorStep(past, a, v) \in A
    BY <1>4, ColorStepIs
  <1>11. PICK G : IsColorRun(past, A, base, T, n, G) /\ G[n] = Coloring(past, base, T)
    BY <1>7, <1>9, <1>10, ColoringRuns
  <1>12. (\A i \in 0..n : G[i] \in A) /\ G[0] = base /\ \A i \in 1..n : G[i] = ColorStep(past, G[i - 1], T[i])
    BY <1>11 DEF IsColorRun
  <1> DEFINE Good == {i \in 0..n : ColorDone(past, seen0, ms, sp, i, G[i])}
  <1>13. 0 \in Good
    <2>1. base.seen = seen0 /\ base.blues = <<sp>> /\ base.reds = <<>>
      BY <1>5 DEF ColorBase
    <2>2. ToSet(<<sp>>) = {sp}
      BY DEF ToSet
    <2>3. Colored(pl, ms, sp, 0, <<sp>>, <<>>)
      <3>1. \A h \in ms : ~(pl[h] <= 0)
        BY <1>7, <1>8
      <3>2. <<sp>> \in Seq(ms \cup {sp}) /\ <<>> \in Seq(ms) /\ Len(<<sp>>) = 1 /\ Len(<<>>) = 0 /\ <<sp>>[1] = sp
        OBVIOUS
      <3>3. 2..1 = {} /\ 1..0 = {} /\ 1 >= 1
        OBVIOUS
      <3> QED BY <3>1, <3>2, <3>3 DEF Colored
    <2>4. seen0 = seen0 \cup {sp}
      OBVIOUS
    <2>5. ColorDone(past, seen0, ms, sp, 0, base)
      BY <1>6, <2>1, <2>2, <2>3, <2>4 DEF ColorDone
    <2> QED BY <1>7, <1>12, <2>5
  <1>14. ASSUME NEW i \in 1..n, (i - 1) \in Good PROVE i \in Good
    <2>1. PICK acc \in A : acc = G[i - 1]
      BY <1>7, <1>12
    <2>2. PICK c \in ms : c = T[i] /\ pl[c] = i
      BY <1>7
    <2>3. PICK j \in Nat : j = i - 1
      BY <1>7
    <2>4. ColorDone(past, seen0, ms, sp, j, acc)
      BY <1>14, <2>1, <2>3
    <2>5. Colored(pl, ms, sp, j, acc.blues, acc.reds) /\ acc.seen = seen0 \cup ToSet(acc.blues)
          /\ (KCluster(past, seen0) => KCluster(past, acc.seen)) /\ acc.blues \in Seq(ms \cup {sp})
      BY <1>6, <2>4 DEF ColorDone, Colored
    <2>6. pl[c] = j + 1 /\ i = j + 1
      BY <1>7, <2>2, <2>3
    <2>7. PICK new : new = G[i] /\ new = ColorStep(past, acc, c)
      BY <1>12, <2>1, <2>2
    <2>8. \/ /\ ColorCandidateBlue(past, acc.seen, c) /\ new.seen = acc.seen \cup {c}
             /\ new.blues = Append(acc.blues, c) /\ new.reds = acc.reds
          \/ /\ new.seen = acc.seen /\ new.blues = acc.blues /\ new.reds = Append(acc.reds, c)
      <3>1. acc \in ColorAcc(seen0, ms, sp)
        BY <1>4
      <3>2. BlueOrRed(past, acc, c, ColorStep(past, acc, c))
        BY <3>1, ColorStepIs
      <3>3. BlueOrRed(past, acc, c, new)
        BY <2>7, <3>2
      <3> QED BY <3>3 DEF BlueOrRed
    <2>11. ColorDone(past, seen0, ms, sp, i, new) => i \in Good
      <3>1. i \in 0..n
        BY <1>7
      <3>2. ColorDone(past, seen0, ms, sp, i, new) => ColorDone(past, seen0, ms, sp, i, G[i])
        BY <2>7
      <3> QED BY <3>1, <3>2
    <2>9. CASE ColorCandidateBlue(past, acc.seen, c) /\ new.seen = acc.seen \cup {c}
               /\ new.blues = Append(acc.blues, c) /\ new.reds = acc.reds
      <3>1. Colored(pl, ms, sp, j + 1, new.blues, new.reds)
        BY <1>8, <2>5, <2>6, <2>9, BlueAdded
      <3>2. ToSet(new.blues) = ToSet(acc.blues) \cup {c}
        BY <2>5, <2>9, ToSetAppend
      <3>3. new.seen = seen0 \cup ToSet(new.blues)
        BY <2>5, <2>9, <3>2
      <3>4. KCluster(past, seen0) => KCluster(past, new.seen)
        BY <2>5, <2>9, KClusterGrows
      <3>5. ColorDone(past, seen0, ms, sp, i, new)
        BY <1>6, <2>6, <3>1, <3>3, <3>4 DEF ColorDone
      <3> QED BY <2>11, <3>5
    <2>10. CASE new.seen = acc.seen /\ new.blues = acc.blues /\ new.reds = Append(acc.reds, c)
      <3>1. Colored(pl, ms, sp, j + 1, new.blues, new.reds)
        BY <1>8, <2>5, <2>6, <2>10, RedAdded
      <3>2. ColorDone(past, seen0, ms, sp, i, new)
        BY <1>6, <2>5, <2>6, <2>10, <3>1 DEF ColorDone
      <3> QED BY <2>11, <3>2
    <2> QED BY <2>8, <2>9, <2>10
  <1>15. n \in Good
    <2>1. \A i \in 1..n : (i - 1) \in Good => i \in Good
      BY <1>14
    <2>2. n \in 0..n
      BY <1>7
    <2> HIDE DEF Good
    <2> QED BY <1>7, <1>13, <2>1, <2>2, UpTo
  <1>16. ColorDone(past, seen0, ms, sp, n, G[n])
    BY <1>15
  <1> QED BY <1>1, <1>2, <1>5, <1>11, <1>16

-----------------------------------------------------------------------------
(***************************************************************************)
(* What `try_compute_ghostdag_data` returns for parents that are held: the *)
(* highest parent is selected, and the rest of the parents' pasts is       *)
(* coloured.                                                               *)
(***************************************************************************)
Ancestry(P, parents) == UNION {{p} \cup P[p] : p \in parents}

LEMMA MergesetIs ==
    ASSUME NEW P, NEW parents, NEW sp
    PROVE  Mergeset(P, parents, sp) = Ancestry(P, parents) \ ({sp} \cup P[sp])
  BY DEF Mergeset, Ancestry

DataFacts(P, gd, parents, sp, ms, data) ==
    /\ sp = Highest(gd, parents) /\ IsHighest(gd, parents, sp)
    /\ ms = Mergeset(P, parents, sp)
    /\ data.selected_parent = sp
    /\ data.blue_score = gd[sp].blue_score + Len(data.mergeset_blues)
    /\ Colored(Places(P, ms), ms, sp, Cardinality(ms), data.mergeset_blues, data.mergeset_reds)
    /\ KCluster(P, MaterializedBlues(gd, sp))
          => KCluster(P, MaterializedBlues(gd, sp) \cup ToSet(data.mergeset_blues))

LEMMA DataIs ==
    ASSUME NEW dag, NEW gd, Shape(dag, gd), NEW P, P = PastMap(dag),
           NEW parents, parents \subseteq DOMAIN dag, parents # {}
    PROVE  \E sp, ms : /\ DataFacts(P, gd, parents, sp, ms, DataByPast(dag, gd, parents))
                       /\ ms \subseteq DOMAIN dag /\ IsFiniteSet(ms) /\ sp \in DOMAIN dag
  <1>1. PICK sp : sp = Highest(gd, parents)
    OBVIOUS
  <1>2. IsHighest(gd, parents, sp)
    BY <1>1, ShapeScored, HighestIs
  <1>3. PICK ms : ms = Mergeset(P, parents, sp)
    OBVIOUS
  <1>4. ms \subseteq DOMAIN dag
    <2>1. \A p \in parents : P[p] \subseteq DOMAIN dag
      BY PastIs DEF PastFacts
    <2> QED BY <1>3, <2>1 DEF Mergeset
  <1>5. IsFiniteSet(ms) /\ \A h \in ms : h \in Nat
    BY <1>4, ShapeScored DEF Scored
  <1>6. PICK seen0 : seen0 = MaterializedBlues(gd, sp)
    OBVIOUS
  <1>7. sp \in seen0
    BY <1>6 DEF MaterializedBlues
  <1>8. PICK T : T = TopologicalOrder(P, ms)
    OBVIOUS
  <1>9. PICK done : done = Coloring(P, ColorBase(seen0, sp), T)
    OBVIOUS
  <1>10. ColorDone(P, seen0, ms, sp, Cardinality(ms), done)
    BY <1>5, <1>7, <1>8, <1>9, ColoringIs
  <1>11. PICK data : data = DataByPast(dag, gd, parents)
    OBVIOUS
  <1>12. done = Coloring(P, [seen |-> MaterializedBlues(gd, sp), blues |-> <<sp>>, reds |-> <<>>], T)
    BY <1>6, <1>9 DEF ColorBase
  <1>13. data = [blue_score      |-> gd[sp].blue_score + Len(done.blues),
                 selected_parent |-> sp,
                 mergeset_blues  |-> done.blues,
                 mergeset_reds   |-> done.reds]
    BY <1>1, <1>3, <1>8, <1>11, <1>12, GhostdagDataIs
  <1>14. data.selected_parent = sp /\ data.blue_score = gd[sp].blue_score + Len(data.mergeset_blues)
         /\ data.mergeset_blues = done.blues /\ data.mergeset_reds = done.reds
    BY <1>13
  <1>15. DataFacts(P, gd, parents, sp, ms, data)
    BY <1>1, <1>2, <1>3, <1>6, <1>10, <1>14 DEF DataFacts, ColorDone
  <1>16. sp \in DOMAIN dag
    BY <1>2 DEF IsHighest
  <1> QED BY <1>4, <1>5, <1>11, <1>15, <1>16

(***************************************************************************)
(* The merged blocks: the blues after the selected parent, then the reds.  *)
(***************************************************************************)
MergedParts(bl, re, ms, q, n, m) ==
    /\ n \in Nat /\ m \in Nat /\ n = Len(bl) /\ n >= 1 /\ m = Len(re)
    /\ q \in Seq(ms) /\ Len(q) = (n - 1) + m
    /\ \A i \in 1..(n - 1) : q[i] = bl[i + 1]
    /\ \A k \in 1..m : \A i \in 1..Len(q) : i = (n - 1) + k => q[i] = re[k]
    /\ \A i \in 1..((n - 1) + m) : i \in 1..(n - 1) \/ \E k \in 1..m : i = (n - 1) + k

LEMMA MergedSplits ==
    ASSUME NEW pl, NEW ms, NEW sp, NEW c, NEW data,
           Colored(pl, ms, sp, c, data.mergeset_blues, data.mergeset_reds)
    PROVE  \E n, m : MergedParts(data.mergeset_blues, data.mergeset_reds, ms, Merged(data), n, m)
  <1>1. PICK bl : bl = data.mergeset_blues
    OBVIOUS
  <1>2. PICK re : re = data.mergeset_reds
    OBVIOUS
  <1>4. Colored(pl, ms, sp, c, bl, re)
    BY <1>1, <1>2
  <1>5. PICK n \in Nat : n = Len(bl) /\ n >= 1
    BY <1>4 DEF Colored
  <1>6. PICK m \in Nat : m = Len(re)
    BY <1>4 DEF Colored
  <1>7. bl # <<>>
    BY <1>5
  <1>8. PICK t : t = Tail(bl)
    OBVIOUS
  <1>9. Len(t) = n - 1 /\ \A i \in 1..(n - 1) : t[i] = bl[i + 1]
    <2>1. bl \in Seq(ms \cup {sp})
      BY <1>4 DEF Colored
    <2> QED BY <1>5, <1>7, <1>8, <2>1, HeadTailProperties
  <1>10. \A i \in 1..(n - 1) : i + 1 \in 2..n /\ t[i] \in ms
    BY <1>4, <1>5, <1>9 DEF Colored
  <1>11. t \in Seq(ms)
    <2>1. \A i \in 2..n : bl[i] \in ms
      BY <1>4, <1>5 DEF Colored
    <2>2. SubSeq(bl, 2, n) \in Seq(ms)
      BY <1>5, <2>1, SubSeqProperties
    <2>3. bl \in Seq(ms \cup {sp})
      BY <1>4 DEF Colored
    <2> QED BY <1>5, <1>7, <1>8, <2>2, <2>3, TailIsSubSeq
  <1>12. PICK q : q = Merged(data)
    OBVIOUS
  <1>13. q = t \o re
    BY <1>1, <1>2, <1>7, <1>8, <1>12 DEF Merged
  <1>14. re \in Seq(ms)
    BY <1>4 DEF Colored
  <1>15. /\ q \in Seq(ms) /\ Len(q) = (n - 1) + m
         /\ \A i \in 1..(n - 1) : q[i] = bl[i + 1]
         /\ \A k \in 1..m : \A i \in 1..Len(q) : i = (n - 1) + k => q[i] = re[k]
    <2>1. /\ q \in Seq(ms) /\ Len(q) = Len(t) + Len(re)
          /\ \A i \in 1..(Len(t) + Len(re)) : q[i] = IF i <= Len(t) THEN t[i] ELSE re[i - Len(t)]
      BY <1>11, <1>13, <1>14, ConcatProperties
    <2>2. Len(q) = (n - 1) + m
      BY <1>6, <1>9, <2>1
    <2>3. \A i \in 1..((n - 1) + m) : q[i] = IF i <= n - 1 THEN t[i] ELSE re[i - (n - 1)]
      BY <1>6, <1>9, <2>1
    <2>4. ASSUME NEW i \in 1..(n - 1) PROVE q[i] = bl[i + 1]
      BY <1>5, <1>9, <2>3
    <2>5. ASSUME NEW k \in 1..m, NEW i \in 1..Len(q), i = (n - 1) + k PROVE q[i] = re[k]
      <3>1. i \in 1..((n - 1) + m) /\ ~(i <= n - 1) /\ i - (n - 1) = k
        BY <1>5, <2>2, <2>5
      <3> QED BY <2>3, <3>1
    <2> QED BY <2>1, <2>2, <2>4, <2>5
  <1>16. \A i \in 1..((n - 1) + m) : i \in 1..(n - 1) \/ \E k \in 1..m : i = (n - 1) + k
    <2> TAKE i \in 1..((n - 1) + m)
    <2>1. CASE i <= n - 1
      BY <1>5, <2>1
    <2>2. CASE i > n - 1
      <3>1. i - (n - 1) \in 1..m /\ i = (n - 1) + (i - (n - 1))
        BY <1>5, <2>2
      <3> QED BY <3>1
    <2> QED BY <1>5, <2>1, <2>2
  <1>17. MergedParts(bl, re, ms, q, n, m)
    BY <1>5, <1>6, <1>15, <1>16 DEF MergedParts
  <1> QED BY <1>1, <1>2, <1>12, <1>17

LEMMA MergedIs ==
    ASSUME NEW P, NEW ms, IsFiniteSet(ms), (\A h \in ms : h \in Nat), NEW sp, NEW data,
           Colored(Places(P, ms), ms, sp, Cardinality(ms), data.mergeset_blues, data.mergeset_reds)
    PROVE  /\ Merged(data) \in Seq(ms)
           /\ \A i, j \in 1..Len(Merged(data)) : Merged(data)[i] = Merged(data)[j] => i = j
           /\ \A h \in ms : \E i \in 1..Len(Merged(data)) : Merged(data)[i] = h
           /\ Len(data.mergeset_blues) \in 1..(Len(Merged(data)) + 1)
           /\ Len(data.mergeset_blues) \in Nat
  <1>1. PICK bl : bl = data.mergeset_blues
    OBVIOUS
  <1>2. PICK re : re = data.mergeset_reds
    OBVIOUS
  <1>3. PICK pl : pl = Places(P, ms)
    OBVIOUS
  <1>4. Colored(pl, ms, sp, Cardinality(ms), bl, re)
    BY <1>1, <1>2, <1>3
  <1>5. PICK q : q = Merged(data)
    OBVIOUS
  <1>6. PICK n, m : MergedParts(bl, re, ms, q, n, m)
    BY <1>1, <1>2, <1>4, <1>5, MergedSplits
  <1>7. n \in Nat /\ n = Len(bl) /\ n >= 1 /\ m \in Nat /\ m = Len(re)
    BY <1>6 DEF MergedParts
  <1>8. \A i \in 1..(n - 1) : i + 1 \in 2..n
    BY <1>7
  <1>9. re \in Seq(ms)
    BY <1>4 DEF Colored
  <1>10. /\ q \in Seq(ms) /\ Len(q) = (n - 1) + m
         /\ \A i \in 1..(n - 1) : q[i] = bl[i + 1]
         /\ \A k \in 1..m : \A i \in 1..Len(q) : i = (n - 1) + k => q[i] = re[k]
    BY <1>6 DEF MergedParts
  <1>11. \A i \in 1..((n - 1) + m) : i \in 1..(n - 1) \/ \E k \in 1..m : i = (n - 1) + k
    BY <1>6 DEF MergedParts
  <1>12. \A h \in ms : pl[h] \in Nat
    <2>1. Placed(P, ms, TopologicalOrder(P, ms), Cardinality(ms))
      BY TopologicalOrderPlaces
    <2> QED BY <1>3, <2>1 DEF Placed, Places
  <1>13. ASSUME NEW k \in 2..n, NEW l \in 2..n, bl[k] = bl[l] PROVE k = l
    <2>1. bl[k] \in ms /\ pl[bl[k]] \in Nat
      BY <1>4, <1>7, <1>12 DEF Colored
    <2>2. ~(k < l) /\ ~(l < k)
      BY <1>4, <1>7, <1>13, <2>1 DEF Colored
    <2> QED BY <2>2
  <1>14. ASSUME NEW k \in 1..m, NEW l \in 1..m, re[k] = re[l] PROVE k = l
    <2>1. re[k] \in ms /\ pl[re[k]] \in Nat
      BY <1>7, <1>9, <1>12
    <2>2. ~(k < l) /\ ~(l < k)
      BY <1>4, <1>7, <1>14, <2>1 DEF Colored
    <2> QED BY <2>2
  <1>15. ASSUME NEW i \in 1..Len(q), NEW j \in 1..Len(q), q[i] = q[j] PROVE i = j
    <2>1. CASE i \in 1..(n - 1) /\ j \in 1..(n - 1)
      <3>1. i + 1 \in 2..n /\ j + 1 \in 2..n /\ bl[i + 1] = bl[j + 1]
        BY <1>8, <1>10, <1>15, <2>1
      <3>2. i + 1 = j + 1
        BY <1>13, <3>1
      <3> QED BY <1>7, <2>1, <3>2
    <2>2. ASSUME NEW k \in 1..m, NEW l \in 1..m, i = (n - 1) + k, j = (n - 1) + l PROVE i = j
      <3>1. re[k] = re[l]
        BY <1>10, <1>15, <2>2
      <3> QED BY <1>14, <2>2, <3>1
    <2>3. ASSUME NEW x \in 1..Len(q), x \in 1..(n - 1), NEW y \in 1..Len(q), NEW k \in 1..m, y = (n - 1) + k
          PROVE  q[x] # q[y]
      <3>1. q[x] = bl[x + 1] /\ q[y] = re[k] /\ x + 1 \in 2..n
        BY <1>8, <1>10, <2>3
      <3>2. PICK z \in 2..n : z = x + 1
        BY <3>1
      <3>3. bl[z] # re[k]
        BY <1>4, <1>7 DEF Colored
      <3> QED BY <3>1, <3>2, <3>3
    <2>4. i \in 1..(n - 1) \/ \E k \in 1..m : i = (n - 1) + k
      BY <1>10, <1>11
    <2>5. j \in 1..(n - 1) \/ \E k \in 1..m : j = (n - 1) + k
      BY <1>10, <1>11
    <2>6. ~(i \in 1..(n - 1) /\ \E k \in 1..m : j = (n - 1) + k)
      BY <1>15, <2>3
    <2>7. ~(j \in 1..(n - 1) /\ \E k \in 1..m : i = (n - 1) + k)
      BY <1>15, <2>3
    <2> QED BY <2>1, <2>2, <2>4, <2>5, <2>6, <2>7
  <1>16. ASSUME NEW h \in ms PROVE \E i \in 1..Len(q) : q[i] = h
    <2>1. pl[h] <= Cardinality(ms)
      <3>1. Placed(P, ms, TopologicalOrder(P, ms), Cardinality(ms))
        BY TopologicalOrderPlaces
      <3>2. Cardinality(ms) \in Nat /\ Place(P, ms, h) \in 1..Cardinality(ms)
        BY <3>1 DEF Placed
      <3> QED BY <1>3, <3>2 DEF Places
    <2>2. (\E k \in 2..n : bl[k] = h) \/ (\E k \in 1..m : re[k] = h)
      BY <1>4, <1>7, <2>1 DEF Colored
    <2>3. ASSUME NEW k \in 2..n, bl[k] = h PROVE \E i \in 1..Len(q) : q[i] = h
      <3>1. k - 1 \in 1..(n - 1) /\ (k - 1) + 1 = k /\ k - 1 \in 1..((n - 1) + m)
        BY <1>7
      <3>2. q[k - 1] = bl[(k - 1) + 1]
        BY <1>10, <3>1
      <3> QED BY <1>10, <2>3, <3>1, <3>2
    <2>4. ASSUME NEW k \in 1..m, re[k] = h PROVE \E i \in 1..Len(q) : q[i] = h
      <3>1. PICK i \in 1..Len(q) : i = (n - 1) + k
        <4>1. (n - 1) + k \in 1..((n - 1) + m)
          BY <1>7
        <4> QED BY <1>10, <4>1
      <3> QED BY <1>10, <2>4, <3>1
    <2> QED BY <2>2, <2>3, <2>4
  <1>17. n \in 1..(((n - 1) + m) + 1)
    BY <1>7
  <1> QED BY <1>1, <1>7, <1>5, <1>10, <1>15, <1>16, <1>17

(***************************************************************************)
(* A DAG whose GHOSTDAG data is what the code computes for it.             *)
(***************************************************************************)
WellFormed(dag, gd) ==
    /\ Shape(dag, gd)
    /\ \A b \in DOMAIN dag \ {GENESIS} :
          /\ gd[b] = DataByPast(dag, gd, dag[b].parents)
          /\ Len(Merged(gd[b])) <= MAX_MERGESET_SIZE

Once(q, S) ==
    /\ q \in Seq(S)
    /\ \A i, j \in 1..Len(q) : q[i] = q[j] => i = j
    /\ \A h \in S : \E i \in 1..Len(q) : q[i] = h

LEMMA MergedOnce ==
    ASSUME NEW P, NEW ms, IsFiniteSet(ms), (\A h \in ms : h \in Nat), NEW sp, NEW data,
           Colored(Places(P, ms), ms, sp, Cardinality(ms), data.mergeset_blues, data.mergeset_reds)
    PROVE  Once(Merged(data), ms)
  <1>1. /\ Merged(data) \in Seq(ms)
        /\ \A i, j \in 1..Len(Merged(data)) : Merged(data)[i] = Merged(data)[j] => i = j
        /\ \A h \in ms : \E i \in 1..Len(Merged(data)) : Merged(data)[i] = h
        /\ Len(data.mergeset_blues) \in 1..(Len(Merged(data)) + 1)
        /\ Len(data.mergeset_blues) \in Nat
    BY MergedIs
  <1> QED BY <1>1 DEF Once

MergeFacts(dag, gd, P, b, sp, ms) ==
    /\ sp = gd[b].selected_parent /\ sp \in DOMAIN dag /\ sp \in P[b] /\ P[sp] \subseteq P[b]
    /\ sp \in dag[b].parents
    /\ ms = P[b] \ ({sp} \cup P[sp]) /\ ms \subseteq DOMAIN dag /\ IsFiniteSet(ms)
    /\ DataFacts(P, gd, dag[b].parents, sp, ms, gd[b])
    /\ Once(Merged(gd[b]), ms)
    /\ \E g \in 1..(MAX_MERGESET_SIZE + 1) : gd[b].blue_score = gd[sp].blue_score + g

LEMMA MergeIs ==
    ASSUME NEW dag, NEW gd, WellFormed(dag, gd), NEW P, P = PastMap(dag),
           NEW b \in DOMAIN dag, b # GENESIS
    PROVE  \E sp, ms : MergeFacts(dag, gd, P, b, sp, ms)
  <1>0. Shape(dag, gd)
    BY DEF WellFormed
  <1>1. PICK parents : parents = dag[b].parents
    OBVIOUS
  <1>2. parents \subseteq DOMAIN dag /\ parents # {}
    BY <1>0, <1>1 DEF Shape
  <1>3. PICK data : data = gd[b] /\ data = DataByPast(dag, gd, parents)
    BY <1>1 DEF WellFormed
  <1>4. PICK sp, ms : /\ DataFacts(P, gd, parents, sp, ms, data)
                      /\ ms \subseteq DOMAIN dag /\ IsFiniteSet(ms) /\ sp \in DOMAIN dag
    BY <1>0, <1>2, <1>3, DataIs
  <1>5. sp = gd[b].selected_parent /\ sp \in parents
    BY <1>3, <1>4 DEF DataFacts, IsHighest
  <1>6. P[b] = Ancestry(P, parents) /\ sp \in P[b] /\ P[sp] \subseteq P[b]
    BY <1>0, <1>1, <1>5, PastIs DEF PastFacts, Met, Ancestry
  <1>7. ms = P[b] \ ({sp} \cup P[sp])
    BY <1>4, <1>6, MergesetIs DEF DataFacts
  <1>8. \A h \in ms : h \in Nat
    BY <1>0, <1>4, ShapeScored DEF Scored
  <1>9. Colored(Places(P, ms), ms, sp, Cardinality(ms), data.mergeset_blues, data.mergeset_reds)
    BY <1>4 DEF DataFacts
  <1>10. /\ Merged(data) \in Seq(ms)
         /\ \A i, j \in 1..Len(Merged(data)) : Merged(data)[i] = Merged(data)[j] => i = j
         /\ \A h \in ms : \E i \in 1..Len(Merged(data)) : Merged(data)[i] = h
         /\ Len(data.mergeset_blues) \in 1..(Len(Merged(data)) + 1)
         /\ Len(data.mergeset_blues) \in Nat
    BY <1>4, <1>8, <1>9, MergedIs
  <1>11. Once(Merged(data), ms)
    BY <1>10 DEF Once
  <1>12. PICK g : g = Len(data.mergeset_blues)
    OBVIOUS
  <1>13. PICK m : m = Len(Merged(data))
    OBVIOUS
  <1>14. g \in Nat /\ g \in 1..(m + 1) /\ m \in Nat
    BY <1>10, <1>12, <1>13
  <1>15. m <= MAX_MERGESET_SIZE
    BY <1>3, <1>13 DEF WellFormed
  <1>16. g \in 1..(MAX_MERGESET_SIZE + 1)
    BY <1>14, <1>15, ChainConstants
  <1>17. gd[b].blue_score = gd[sp].blue_score + g
    BY <1>3, <1>4, <1>12 DEF DataFacts
  <1>18. MergeFacts(dag, gd, P, b, sp, ms)
    BY <1>1, <1>3, <1>4, <1>5, <1>6, <1>7, <1>11, <1>16, <1>17 DEF MergeFacts
  <1> QED BY <1>18

-----------------------------------------------------------------------------
(***************************************************************************)
(* The folds, step by step.                                                *)
(***************************************************************************)
InStep(G, H, n) == G[0] = H[0] /\ \A i \in 1..n : G[i - 1] = H[i - 1] => G[i] = H[i]

LEMMA RunsAgree ==
    ASSUME NEW n \in Nat, NEW G, NEW H, InStep(G, H, n)
    PROVE  \A i \in 0..n : G[i] = H[i]
  <1> DEFINE Good == {i \in 0..n : G[i] = H[i]}
  <1>1. 0 \in Good
    BY DEF InStep
  <1>2. \A i \in 1..n : (i - 1) \in Good => i \in Good
    BY DEF InStep
  <1>3. \A i \in 0..n : i \in Good
    <2> HIDE DEF Good
    <2> QED BY <1>1, <1>2, UpTo
  <1> QED BY <1>3

LEMMA SeqIndexed == ASSUME NEW V, NEW q \in Seq(V) PROVE DOMAIN q = 1..Len(q) /\ Len(q) \in Nat /\ IndexedIn(q, Len(q), V)
  <1>1. \A i \in 1..Len(q) : q[i] \in V
    OBVIOUS
  <1> QED BY <1>1 DEF IndexedIn

LEMMA AddType ==
    ASSUME NEW gd, NEW a \in Seq(DOMAIN gd), NEW v
    PROVE  AddStep(gd, a, v) \in Seq(DOMAIN gd)
  <1>1. CASE Contains(a, v) \/ v \notin DOMAIN gd
    BY <1>1 DEF AddStep
  <1>2. CASE ~Contains(a, v) /\ v \in DOMAIN gd
    <2>1. Append(a, v) \in Seq(DOMAIN gd)
      BY <1>2
    <2> QED BY <1>2, <2>1 DEF AddStep
  <1> QED BY <1>1, <1>2

LEMMA AddAllType ==
    ASSUME NEW gd, NEW acc \in Seq(DOMAIN gd), NEW V, NEW q \in Seq(V)
    PROVE  AddAll(gd, acc, q) \in Seq(DOMAIN gd)
  <1>1. PICK n : n = Len(q)
    OBVIOUS
  <1>2. n \in Nat /\ DOMAIN q = 1..n /\ IndexedIn(q, n, V)
    BY <1>1, SeqIndexed
  <1>3. PICK A : A = Seq(DOMAIN gd)
    OBVIOUS
  <1>4. acc \in A /\ \A a \in A : \A v \in V : AddStep(gd, a, v) \in A
    BY <1>3, AddType
  <1>5. PICK G : IsAddRun(gd, A, acc, q, n, G) /\ G[n] = AddAll(gd, acc, q)
    BY <1>2, <1>4, AddRuns
  <1>6. n \in 0..n /\ G \in [0..n -> A]
    BY <1>2, <1>5 DEF IsAddRun
  <1> QED BY <1>3, <1>5, <1>6

Apart(q, acc) == \A i \in 1..Len(q) : \A k \in 1..Len(acc) : acc[k] # q[i]

Joined(K, acc, q, i, r) ==
    /\ r \in Seq(K) /\ Len(r) = Len(acc) + i
    /\ \A k \in 1..Len(acc) : r[k] = acc[k]
    /\ \A k \in 1..i : \A j \in 1..(Len(acc) + i) : j = Len(acc) + k => r[j] = q[k]

LEMMA AddJoins ==
    ASSUME NEW gd, NEW acc \in Seq(DOMAIN gd), NEW S, S \subseteq DOMAIN gd, NEW q, Once(q, S), Apart(q, acc)
    PROVE  AddAll(gd, acc, q) = acc \o q
  <1>1. PICK n : n = Len(q)
    OBVIOUS
  <1>2. n \in Nat /\ DOMAIN q = 1..n /\ IndexedIn(q, n, S) /\ q \in Seq(S)
    BY <1>1, SeqIndexed DEF Once
  <1>3. PICK K : K = DOMAIN gd
    OBVIOUS
  <1>4. PICK A : A = Seq(K)
    OBVIOUS
  <1>5. acc \in A /\ \A a \in A : \A v \in S : AddStep(gd, a, v) \in A
    BY <1>3, <1>4, AddType
  <1>6. PICK G : IsAddRun(gd, A, acc, q, n, G) /\ G[n] = AddAll(gd, acc, q)
    BY <1>2, <1>5, AddRuns
  <1>7. (\A i \in 0..n : G[i] \in A) /\ G[0] = acc /\ \A i \in 1..n : G[i] = AddStep(gd, G[i - 1], q[i])
    BY <1>6 DEF IsAddRun
  <1>8. PICK m \in Nat : m = Len(acc)
    OBVIOUS
  <1> DEFINE Good == {i \in 0..n : Joined(K, acc, q, i, G[i])}
  <1>9. 0 \in Good
    <2>1. Joined(K, acc, q, 0, acc)
      BY <1>3, <1>8 DEF Joined
    <2> QED BY <1>2, <1>7, <2>1
  <1>10. ASSUME NEW i \in 1..n, (i - 1) \in Good PROVE i \in Good
    <2>1. PICK j \in Nat : j = i - 1 /\ i = j + 1 /\ j \in 0..n
      BY <1>2
    <2>2. PICK r : r = G[j]
      OBVIOUS
    <2>3. Joined(K, acc, q, j, r)
      BY <1>10, <2>1, <2>2
    <2>4. /\ r \in Seq(K) /\ Len(r) = m + j
          /\ \A k \in 1..m : r[k] = acc[k]
          /\ \A k \in 1..j : \A l \in 1..(m + j) : l = m + k => r[l] = q[k]
      BY <1>8, <2>3 DEF Joined
    <2>5. PICK c \in K : c = q[i]
      BY <1>2, <1>3
    <2>6. ASSUME NEW l \in 1..(m + j) PROVE r[l] # c
      <3>1. CASE l \in 1..m
        BY <1>1, <1>8, <2>4, <2>5, <3>1 DEF Apart
      <3>2. CASE l \notin 1..m
        <4>1. PICK k \in 1..j : l = m + k
          <5>1. l - m \in 1..j /\ l = m + (l - m)
            BY <1>8, <2>1, <3>2
          <5> QED BY <5>1
        <4>2. r[l] = q[k] /\ k \in 1..n /\ k # i
          BY <1>2, <2>1, <2>4, <4>1
        <4> QED BY <1>1, <2>5, <4>2 DEF Once
      <3> QED BY <3>1, <3>2
    <2>7. ~Contains(r, c)
      BY <2>4, <2>6 DEF Contains
    <2>8. PICK t : t = Append(r, c)
      OBVIOUS
    <2>9. G[i] = t
      BY <1>3, <1>7, <2>1, <2>2, <2>5, <2>7, <2>8 DEF AddStep
    <2>10. /\ t \in Seq(K) /\ Len(t) = (m + j) + 1 /\ t[(m + j) + 1] = c
           /\ \A l \in 1..(m + j) : t[l] = r[l]
      BY <2>4, <2>8, AppendIs
    <2>11. \A k \in 1..m : t[k] = acc[k]
      <3> TAKE k \in 1..m
      <3>1. k \in 1..(m + j)
        BY <1>8, <2>1
      <3> QED BY <2>4, <2>10, <3>1
    <2>12. ASSUME NEW k \in 1..i, NEW l \in 1..(m + i), l = m + k PROVE t[l] = q[k]
      <3>1. CASE k = i
        <4>1. l = (m + j) + 1
          BY <1>8, <2>1, <2>12, <3>1
        <4> QED BY <2>5, <2>10, <3>1, <4>1
      <3>2. CASE k # i
        <4>1. k \in 1..j /\ l \in 1..(m + j)
          BY <1>8, <2>1, <2>12, <3>2
        <4> QED BY <2>4, <2>10, <2>12, <4>1
      <3> QED BY <3>1, <3>2
    <2>13. Len(t) = m + i
      BY <1>8, <2>1, <2>10
    <2>14. Joined(K, acc, q, i, t)
      BY <1>8, <2>10, <2>11, <2>12, <2>13 DEF Joined
    <2>15. Joined(K, acc, q, i, G[i]) /\ i \in 0..n
      BY <1>2, <2>9, <2>14
    <2> QED BY <2>15
  <1>11. n \in Good
    <2>1. \A i \in 1..n : (i - 1) \in Good => i \in Good
      BY <1>10
    <2>2. n \in 0..n
      BY <1>2
    <2> HIDE DEF Good
    <2> QED BY <1>2, <1>9, <2>1, <2>2, UpTo
  <1>12. PICK r : r = G[n] /\ Joined(K, acc, q, n, r)
    BY <1>11
  <1>13. PICK u : u = acc \o q
    OBVIOUS
  <1>14. q \in Seq(K)
    BY <1>2, <1>3, SeqMonotonic
  <1>15. u \in Seq(K) /\ Len(u) = m + n /\ \A l \in 1..(m + n) : u[l] = IF l <= m THEN acc[l] ELSE q[l - m]
    BY <1>1, <1>3, <1>8, <1>13, <1>14, ConcatProperties
  <1>16. r \in Seq(K) /\ Len(r) = m + n
    BY <1>8, <1>12 DEF Joined
  <1>17. ASSUME NEW l \in 1..(m + n) PROVE r[l] = u[l]
    <2>1. CASE l <= m
      <3>1. l \in 1..m
        BY <1>8, <2>1
      <3> QED BY <1>8, <1>12, <1>15, <2>1, <3>1 DEF Joined
    <2>2. CASE ~(l <= m)
      <3>1. PICK k \in 1..n : k = l - m /\ l = m + k
        <4>1. l - m \in 1..n /\ l = m + (l - m)
          BY <1>2, <1>8, <2>2
        <4> QED BY <4>1
      <3>2. r[l] = q[k]
        BY <1>8, <1>12, <3>1 DEF Joined
      <3> QED BY <1>15, <2>2, <3>1, <3>2
    <2> QED BY <2>1, <2>2
  <1>18. r = u
    BY <1>15, <1>16, <1>17, SeqEqual
  <1> QED BY <1>6, <1>12, <1>13, <1>18

-----------------------------------------------------------------------------
(***************************************************************************)
(* The canonical order of a block: that of its selected parent, then the   *)
(* blocks it merges, then itself; each block of its past once.             *)
(***************************************************************************)
HoldsMerged(gd) == \A c \in DOMAIN gd : Merged(gd[c]) \in Seq(DOMAIN gd)

LEMMA EmitType ==
    ASSUME NEW gd, HoldsMerged(gd), NEW a \in Seq(DOMAIN gd), NEW c \in DOMAIN gd
    PROVE  EmitStep(gd, a, c) \in Seq(DOMAIN gd)
  <1>1. AddAll(gd, a, Merged(gd[c])) \in Seq(DOMAIN gd)
    BY AddAllType DEF HoldsMerged
  <1> QED BY <1>1, AddType DEF EmitStep

LEMMA EmitAppend ==
    ASSUME NEW gd, HoldsMerged(gd), NEW ch \in Seq(DOMAIN gd), NEW c \in DOMAIN gd
    PROVE  /\ EmitAll(gd, <<>>, ch) \in Seq(DOMAIN gd)
           /\ EmitAll(gd, <<>>, Append(ch, c)) = EmitStep(gd, EmitAll(gd, <<>>, ch), c)
  <1>1. PICK n : n = Len(ch)
    OBVIOUS
  <1>2. n \in Nat /\ DOMAIN ch = 1..n /\ IndexedIn(ch, n, DOMAIN gd)
    BY <1>1, SeqIndexed
  <1>3. PICK q : q = Append(ch, c)
    OBVIOUS
  <1>4. q \in Seq(DOMAIN gd) /\ Len(q) = n + 1 /\ q[n + 1] = c /\ \A k \in 1..n : q[k] = ch[k]
    BY <1>1, <1>3, AppendIs
  <1>5. n + 1 \in Nat /\ DOMAIN q = 1..(n + 1) /\ IndexedIn(q, n + 1, DOMAIN gd)
    BY <1>2, <1>4, SeqIndexed
  <1>6. PICK A : A = Seq(DOMAIN gd)
    OBVIOUS
  <1>7. PICK e \in A : e = <<>>
    <2>1. <<>> \in A
      BY <1>6
    <2> QED BY <2>1
  <1>8. \A a \in A : \A v \in DOMAIN gd : EmitStep(gd, a, v) \in A
    BY <1>6, EmitType
  <1>9. PICK G : IsEmitRun(gd, A, e, ch, n, G) /\ G[n] = EmitAll(gd, e, ch)
    BY <1>2, <1>8, EmitRuns
  <1>10. PICK H : IsEmitRun(gd, A, e, q, n + 1, H) /\ H[n + 1] = EmitAll(gd, e, q)
    BY <1>5, <1>8, EmitRuns
  <1>11. (\A i \in 0..n : G[i] \in A) /\ G[0] = e /\ \A i \in 1..n : G[i] = EmitStep(gd, G[i - 1], ch[i])
    BY <1>9 DEF IsEmitRun
  <1>12. H[0] = e /\ \A i \in 1..(n + 1) : H[i] = EmitStep(gd, H[i - 1], q[i])
    BY <1>10 DEF IsEmitRun
  <1>13. \A i \in 0..n : G[i] = H[i]
    <2>1. \A i \in 1..n : G[i - 1] = H[i - 1] => G[i] = H[i]
      <3> TAKE i \in 1..n
      <3>1. i \in 1..(n + 1) /\ q[i] = ch[i]
        BY <1>2, <1>4
      <3> QED BY <1>11, <1>12, <3>1
    <2>2. G[0] = H[0]
      BY <1>11, <1>12
    <2>3. InStep(G, H, n)
      BY <2>1, <2>2 DEF InStep
    <2> QED BY <1>2, <2>3, RunsAgree
  <1>14. n \in 0..n /\ n + 1 \in 1..(n + 1) /\ (n + 1) - 1 = n
    BY <1>2
  <1>15. H[n + 1] = EmitStep(gd, H[n], c)
    BY <1>4, <1>12, <1>14
  <1> QED BY <1>3, <1>6, <1>7, <1>9, <1>10, <1>11, <1>13, <1>14, <1>15

LEMMA EmitEmpty ==
    ASSUME NEW gd, HoldsMerged(gd) PROVE EmitAll(gd, <<>>, <<>>) = <<>>
  <1>1. PICK ch : ch = <<>>
    OBVIOUS
  <1>2. ch \in Seq(DOMAIN gd) /\ Len(ch) = 0
    BY <1>1
  <1>3. 0 \in Nat /\ DOMAIN ch = 1..0 /\ IndexedIn(ch, 0, DOMAIN gd)
    BY <1>2, SeqIndexed
  <1>4. PICK A : A = Seq(DOMAIN gd)
    OBVIOUS
  <1>5. ch \in A /\ \A a \in A : \A v \in DOMAIN gd : EmitStep(gd, a, v) \in A
    BY <1>2, <1>4, EmitType
  <1>6. PICK G : IsEmitRun(gd, A, ch, ch, 0, G) /\ G[0] = EmitAll(gd, ch, ch)
    BY <1>3, <1>5, EmitRuns
  <1> QED BY <1>1, <1>6 DEF IsEmitRun

LEMMA ToSetIs ==
    ASSUME NEW V, NEW q \in Seq(V)
    PROVE  /\ \A i \in 1..Len(q) : q[i] \in ToSet(q)
           /\ \A x \in ToSet(q) : \E i \in 1..Len(q) : q[i] = x
  <1>1. DOMAIN q = 1..Len(q)
    OBVIOUS
  <1> QED BY <1>1 DEF ToSet

LEMMA OnceToSet ==
    ASSUME NEW S, NEW q, Once(q, S)
    PROVE  ToSet(q) = S
  <1>1. q \in Seq(S)
    BY DEF Once
  <1>2. \A i \in 1..Len(q) : q[i] \in S
    BY <1>1
  <1>3. /\ \A i \in 1..Len(q) : q[i] \in ToSet(q)
        /\ \A x \in ToSet(q) : \E i \in 1..Len(q) : q[i] = x
    BY <1>1, ToSetIs
  <1>4. \A h \in S : \E i \in 1..Len(q) : q[i] = h
    BY DEF Once
  <1>5. ASSUME NEW x \in ToSet(q) PROVE x \in S
    BY <1>2, <1>3
  <1>6. ASSUME NEW x \in S PROVE x \in ToSet(q)
    BY <1>3, <1>4
  <1> QED BY <1>5, <1>6

LEMMA ToSetConcat ==
    ASSUME NEW V, NEW s \in Seq(V), NEW t \in Seq(V)
    PROVE  ToSet(s \o t) = ToSet(s) \cup ToSet(t)
  <1>1. PICK u : u = s \o t
    OBVIOUS
  <1>2. PICK m \in Nat, n \in Nat : m = Len(s) /\ n = Len(t)
    OBVIOUS
  <1>3. u \in Seq(V) /\ Len(u) = m + n /\ \A l \in 1..(m + n) : u[l] = IF l <= m THEN s[l] ELSE t[l - m]
    BY <1>1, <1>2, ConcatProperties
  <1>4. ASSUME NEW x \in ToSet(u) PROVE x \in ToSet(s) \cup ToSet(t)
    <2>1. PICK l \in 1..(m + n) : u[l] = x
      BY <1>3, ToSetIs
    <2>2. CASE l <= m
      <3>1. l \in 1..m /\ x = s[l]
        BY <1>3, <2>1, <2>2
      <3> QED BY <1>2, <3>1, ToSetIs
    <2>3. CASE ~(l <= m)
      <3>1. l - m \in 1..n /\ x = t[l - m]
        BY <1>2, <1>3, <2>1, <2>3
      <3> QED BY <1>2, <3>1, ToSetIs
    <2> QED BY <2>2, <2>3
  <1>5. ASSUME NEW x \in ToSet(s) PROVE x \in ToSet(u)
    <2>1. PICK l \in 1..m : s[l] = x
      BY <1>2, ToSetIs
    <2>2. l \in 1..(m + n) /\ l <= m
      BY <1>2
    <2>3. u[l] = x
      BY <1>3, <2>1, <2>2
    <2> QED BY <1>3, <2>2, <2>3, ToSetIs
  <1>6. ASSUME NEW x \in ToSet(t) PROVE x \in ToSet(u)
    <2>1. PICK k \in 1..n : t[k] = x
      BY <1>2, ToSetIs
    <2>2. PICK l \in 1..(m + n) : l = m + k
      <3>1. m + k \in 1..(m + n)
        BY <1>2
      <3> QED BY <3>1
    <2>3. ~(l <= m) /\ l - m = k
      BY <1>2, <2>2
    <2>4. u[l] = x
      BY <1>3, <2>1, <2>3
    <2> QED BY <1>3, <2>4, ToSetIs
  <1> QED BY <1>1, <1>4, <1>5, <1>6

LEMMA OnceConcat ==
    ASSUME NEW S, NEW T, S \cap T = {}, NEW s, Once(s, S), NEW t, Once(t, T)
    PROVE  Once(s \o t, S \cup T)
  <1>0. s \in Seq(S) /\ t \in Seq(T)
    BY DEF Once
  <1>1. s \in Seq(S \cup T) /\ t \in Seq(S \cup T)
    BY <1>0, SeqMonotonic
  <1>2. PICK u : u = s \o t
    OBVIOUS
  <1>3. PICK m \in Nat, n \in Nat : m = Len(s) /\ n = Len(t)
    BY <1>0
  <1>4. u \in Seq(S \cup T) /\ Len(u) = m + n /\ \A l \in 1..(m + n) : u[l] = IF l <= m THEN s[l] ELSE t[l - m]
    BY <1>1, <1>2, <1>3, ConcatProperties
  <1>5. \A i \in 1..m : s[i] \in S
    BY <1>0, <1>3
  <1>6. \A i \in 1..n : t[i] \in T
    BY <1>0, <1>3
  <1>7. ASSUME NEW l \in 1..(m + n)
        PROVE  \/ l \in 1..m /\ u[l] = s[l] /\ u[l] \in S
               \/ l - m \in 1..n /\ u[l] = t[l - m] /\ u[l] \in T
    <2>1. CASE l <= m
      <3>1. l \in 1..m
        BY <1>3, <2>1
      <3> QED BY <1>4, <1>5, <2>1, <3>1
    <2>2. CASE ~(l <= m)
      <3>1. l - m \in 1..n
        BY <1>3, <2>2
      <3> QED BY <1>4, <1>6, <2>2, <3>1
    <2> QED BY <2>1, <2>2
  <1>8. \A i, j \in 1..m : s[i] = s[j] => i = j
    BY <1>3 DEF Once
  <1>9. \A i, j \in 1..n : t[i] = t[j] => i = j
    BY <1>3 DEF Once
  <1>10. ASSUME NEW i \in 1..(m + n), NEW j \in 1..(m + n), u[i] = u[j] PROVE i = j
    <2>1. CASE i \in 1..m /\ u[i] = s[i] /\ u[i] \in S
      <3>1. j \in 1..m /\ u[j] = s[j]
        BY <1>7, <1>10, <2>1
      <3> QED BY <1>8, <1>10, <2>1, <3>1
    <2>2. CASE i - m \in 1..n /\ u[i] = t[i - m] /\ u[i] \in T
      <3>1. j - m \in 1..n /\ u[j] = t[j - m]
        BY <1>7, <1>10, <2>2
      <3>2. i - m = j - m
        BY <1>9, <1>10, <2>2, <3>1
      <3> QED BY <1>3, <3>2
    <2> QED BY <1>7, <2>1, <2>2
  <1>11. ASSUME NEW h \in S \cup T PROVE \E l \in 1..(m + n) : u[l] = h
    <2>1. CASE h \in S
      <3>1. PICK i \in 1..m : s[i] = h
        BY <1>3, <2>1 DEF Once
      <3>2. i \in 1..(m + n) /\ i <= m
        BY <1>3
      <3> QED BY <1>4, <3>1, <3>2
    <2>2. CASE h \in T
      <3>1. PICK i \in 1..n : t[i] = h
        BY <1>3, <2>2 DEF Once
      <3>2. PICK l \in 1..(m + n) : l = m + i
        <4>1. m + i \in 1..(m + n)
          BY <1>3
        <4> QED BY <4>1
      <3>3. ~(l <= m) /\ l - m = i
        BY <1>3, <3>2
      <3> QED BY <1>4, <3>1, <3>3
    <2> QED BY <2>1, <2>2
  <1>12. Once(u, S \cup T)
    BY <1>4, <1>10, <1>11 DEF Once
  <1> QED BY <1>2, <1>12

LEMMA OnceSingle == ASSUME NEW b PROVE Once(<<b>>, {b})
  <1>1. PICK q : q = <<b>>
    OBVIOUS
  <1>2. q \in Seq({b}) /\ Len(q) = 1 /\ q[1] = b
    BY <1>1
  <1>3. \A i \in 1..Len(q) : i = 1
    BY <1>2
  <1>4. \A h \in {b} : \E i \in 1..Len(q) : q[i] = h
    BY <1>2
  <1> QED BY <1>1, <1>2, <1>3, <1>4 DEF Once

LEMMA MergedHeld ==
    ASSUME NEW dag, NEW gd, WellFormed(dag, gd)
    PROVE  HoldsMerged(gd)
  <1>1. DOMAIN gd = DOMAIN dag
    BY DEF WellFormed, Shape
  <1>2. ASSUME NEW c \in DOMAIN gd PROVE Merged(gd[c]) \in Seq(DOMAIN gd)
    <2>1. CASE c = GENESIS
      <3>1. gd[c].mergeset_blues = <<>> /\ gd[c].mergeset_reds = <<>>
        BY <2>1 DEF WellFormed, Shape, GhostdagGenesis
      <3>2. Merged(gd[c]) = <<>> \o <<>>
        BY <3>1 DEF Merged
      <3>3. <<>> \in Seq(DOMAIN gd)
        OBVIOUS
      <3>4. <<>> \o <<>> \in Seq(DOMAIN gd)
        BY <3>3, ConcatProperties
      <3> QED BY <3>2, <3>4
    <2>2. CASE c # GENESIS
      <3>1. PICK sp, ms : MergeFacts(dag, gd, PastMap(dag), c, sp, ms)
        BY <1>1, <2>2, MergeIs
      <3>2. Merged(gd[c]) \in Seq(ms) /\ ms \subseteq DOMAIN gd
        BY <1>1, <3>1 DEF MergeFacts, Once
      <3> QED BY <3>2, SeqMonotonic
    <2> QED BY <2>1, <2>2
  <1> QED BY <1>2 DEF HoldsMerged

EndsWith(q, b) == Len(q) >= 1 /\ q[Len(q)] = b

OrderFacts(dag, gd, b) ==
    /\ Once(CanonicalOrderAt(gd, b), PastMap(dag)[b] \cup {b})
    /\ EndsWith(CanonicalOrderAt(gd, b), b)
    /\ CanonicalOrderAt(gd, b) \in Seq(DOMAIN gd)
    /\ b # GENESIS => CanonicalOrderAt(gd, b) =
                         Append(CanonicalOrderAt(gd, gd[b].selected_parent) \o Merged(gd[b]), b)

LEMMA OrderOfGenesis ==
    ASSUME NEW dag, NEW gd, WellFormed(dag, gd)
    PROVE  CanonicalOrderAt(gd, GENESIS) = <<GENESIS>> /\ OrderFacts(dag, gd, GENESIS)
  <1>0. Shape(dag, gd)
    BY DEF WellFormed
  <1>1. HoldsMerged(gd)
    BY MergedHeld
  <1>2. PICK e \in Seq(DOMAIN gd) : e = <<>>
    <2>1. <<>> \in Seq(DOMAIN gd)
      OBVIOUS
    <2> QED BY <2>1
  <1>3. SelectedChain(gd, GENESIS) = <<GENESIS>> /\ GENESIS \in DOMAIN gd /\ GENESIS \in DOMAIN dag
    BY <1>0, SelectedChainIs DEF ChainFacts, Shape
  <1>4. Append(e, GENESIS) = <<GENESIS>>
    BY <1>2
  <1>5. EmitAll(gd, e, Append(e, GENESIS)) = EmitStep(gd, EmitAll(gd, e, e), GENESIS)
    BY <1>1, <1>2, <1>3, EmitAppend
  <1>6. EmitAll(gd, e, e) = e
    BY <1>1, <1>2, EmitEmpty
  <1>7. Merged(gd[GENESIS]) = e
    <2>1. gd[GENESIS].mergeset_blues = <<>> /\ gd[GENESIS].mergeset_reds = <<>>
      BY <1>0 DEF Shape, GhostdagGenesis
    <2>2. Merged(gd[GENESIS]) = e \o e
      BY <1>2, <2>1 DEF Merged
    <2> QED BY <1>2, <2>2, ConcatEmptySeq
  <1>8. AddAll(gd, e, e) = e
    <2>1. Once(e, {}) /\ Apart(e, e)
      <3>1. e \in Seq({}) /\ Len(e) = 0 /\ 1..0 = {}
        BY <1>2
      <3> QED BY <3>1 DEF Once, Apart
    <2>2. AddAll(gd, e, e) = e \o e
      BY <2>1, AddJoins
    <2> QED BY <1>2, <2>2, ConcatEmptySeq
  <1>9. EmitStep(gd, e, GENESIS) = Append(e, GENESIS)
    <2>1. ~Contains(e, GENESIS)
      BY <1>2 DEF Contains
    <2> QED BY <1>3, <1>7, <1>8, <2>1 DEF EmitStep, AddStep
  <1>10. CanonicalOrderAt(gd, GENESIS) = <<GENESIS>>
    BY <1>2, <1>3, <1>4, <1>5, <1>6, <1>9, OrderIsFold
  <1>11. PastMap(dag)[GENESIS] = {}
    <2>1. PastMap(dag)[GENESIS] = Met(dag, PastMap(dag), GENESIS)
      BY <1>0, <1>3, PastIs DEF PastFacts
    <2>2. dag[GENESIS].parents = {}
      BY <1>0 DEF Shape
    <2> QED BY <2>1, <2>2 DEF Met
  <1>12. Once(<<GENESIS>>, PastMap(dag)[GENESIS] \cup {GENESIS})
    BY <1>11, OnceSingle
  <1>13. EndsWith(<<GENESIS>>, GENESIS)
    BY DEF EndsWith
  <1>14. <<GENESIS>> \in Seq(DOMAIN gd)
    BY <1>3
  <1> QED BY <1>10, <1>12, <1>13, <1>14 DEF OrderFacts

LEMMA OrderStep ==
    ASSUME NEW dag, NEW gd, WellFormed(dag, gd), NEW b \in DOMAIN dag, b # GENESIS,
           OrderFacts(dag, gd, gd[b].selected_parent)
    PROVE  OrderFacts(dag, gd, b)
  <1>0. Shape(dag, gd) /\ DOMAIN gd = DOMAIN dag
    BY DEF WellFormed, Shape
  <1>1. PICK P : P = PastMap(dag)
    OBVIOUS
  <1>2. PICK sp, ms : MergeFacts(dag, gd, P, b, sp, ms)
    BY <1>1, MergeIs
  <1>3. /\ sp = gd[b].selected_parent /\ sp \in DOMAIN dag /\ sp \in P[b] /\ P[sp] \subseteq P[b]
        /\ ms = P[b] \ ({sp} \cup P[sp]) /\ ms \subseteq DOMAIN gd
        /\ Once(Merged(gd[b]), ms)
    BY <1>0, <1>2 DEF MergeFacts
  <1>4. PICK S : S = P[sp] \cup {sp}
    OBVIOUS
  <1>5. S \cap ms = {} /\ S \cup ms = P[b]
    BY <1>3, <1>4
  <1>6. PICK u : u = CanonicalOrderAt(gd, sp)
    OBVIOUS
  <1>7. Once(u, S) /\ u \in Seq(DOMAIN gd)
    BY <1>1, <1>3, <1>4, <1>6 DEF OrderFacts
  <1>8. PICK q : q = Merged(gd[b])
    OBVIOUS
  <1>9. Once(q, ms)
    BY <1>3, <1>8
  <1>10. b \notin P[b]
    <2>1. b \in P[b] => gd[b].blue_score < gd[b].blue_score
      BY <1>0, <1>1, PastIs DEF PastFacts
    <2>2. gd[b].blue_score \in Nat
      BY <1>0 DEF Shape
    <2> QED BY <2>1, <2>2
  <1>11. Apart(q, u)
    <2>1. ASSUME NEW i \in 1..Len(q), NEW k \in 1..Len(u) PROVE u[k] # q[i]
      <3>1. q[i] \in ms
        BY <1>9 DEF Once
      <3>2. u[k] \in S
        BY <1>7 DEF Once
      <3> QED BY <1>5, <3>1, <3>2
    <2> QED BY <2>1 DEF Apart
  <1>12. AddAll(gd, u, q) = u \o q
    BY <1>3, <1>7, <1>9, <1>11, AddJoins
  <1>13. PICK v : v = u \o q
    OBVIOUS
  <1>14. Once(v, P[b])
    BY <1>5, <1>7, <1>9, <1>13, OnceConcat
  <1>15. ~Contains(v, b)
    <2>1. \A i \in 1..Len(v) : v[i] \in P[b]
      BY <1>14 DEF Once
    <2> QED BY <1>10, <2>1 DEF Contains
  <1>16. EmitStep(gd, u, b) = Append(v, b)
    BY <1>0, <1>8, <1>12, <1>13, <1>15 DEF EmitStep, AddStep
  <1>17. PICK ch : ch = SelectedChain(gd, sp)
    OBVIOUS
  <1>18. ch \in Seq(DOMAIN gd) /\ SelectedChain(gd, b) = Append(ch, b)
    BY <1>0, <1>3, <1>17, SelectedChainIs DEF ChainFacts
  <1>19. HoldsMerged(gd)
    BY MergedHeld
  <1>20. EmitAll(gd, <<>>, Append(ch, b)) = EmitStep(gd, EmitAll(gd, <<>>, ch), b)
    BY <1>0, <1>18, <1>19, EmitAppend
  <1>21. u = EmitAll(gd, <<>>, ch)
    BY <1>6, <1>17, OrderIsFold
  <1>22. CanonicalOrderAt(gd, b) = Append(v, b)
    BY <1>16, <1>18, <1>20, <1>21, OrderIsFold
  <1>23. v \in Seq(P[b]) /\ v \in Seq(DOMAIN gd)
    <2>1. P[b] \subseteq DOMAIN gd
      BY <1>0, <1>1, PastIs DEF PastFacts
    <2>2. v \in Seq(P[b])
      BY <1>14 DEF Once
    <2> QED BY <2>1, <2>2, SeqMonotonic
  <1>24. Append(v, b) = v \o <<b>>
    <2>1. v \in Seq(DOMAIN gd) /\ b \in DOMAIN gd
      BY <1>0, <1>23
    <2> QED BY <2>1
  <1>25. Once(v \o <<b>>, P[b] \cup {b})
    BY <1>10, <1>14, OnceSingle, OnceConcat
  <1>26. Append(v, b) \in Seq(DOMAIN gd) /\ EndsWith(Append(v, b), b)
    <2>1. v \in Seq(DOMAIN gd) /\ b \in DOMAIN gd
      BY <1>0, <1>23
    <2>2. /\ Append(v, b) \in Seq(DOMAIN gd) /\ Len(Append(v, b)) = Len(v) + 1 /\ Len(v) \in Nat
          /\ Append(v, b)[Len(v) + 1] = b
      BY <2>1, AppendIs
    <2> QED BY <2>2 DEF EndsWith
  <1>27. Append(v, b) = Append(CanonicalOrderAt(gd, gd[b].selected_parent) \o Merged(gd[b]), b)
    BY <1>3, <1>6, <1>8, <1>13
  <1> QED BY <1>1, <1>22, <1>24, <1>25, <1>26, <1>27 DEF OrderFacts

LEMMA OrderIs ==
    ASSUME NEW dag, NEW gd, WellFormed(dag, gd)
    PROVE  \A b \in DOMAIN dag : OrderFacts(dag, gd, b)
  <1>0. Shape(dag, gd)
    BY DEF WellFormed
  <1>1. PICK K : K = DOMAIN dag
    OBVIOUS
  <1>2. PICK rank : rank = [b \in K |-> gd[b].blue_score]
    OBVIOUS
  <1>3. PICK D : D = [b \in K |-> IF b = GENESIS THEN {} ELSE {gd[b].selected_parent}]
    OBVIOUS
  <1> DEFINE Good == {b \in K : OrderFacts(dag, gd, b)}
  <1>4. \A b \in K : rank[b] \in Nat
    BY <1>0, <1>1, <1>2 DEF Shape
  <1>5. \A b \in K : \A x \in D[b] : x \in K /\ rank[x] < rank[b]
    <2> SUFFICES ASSUME NEW b \in K, NEW x \in D[b] PROVE x \in K /\ rank[x] < rank[b]
      OBVIOUS
    <2>1. b # GENESIS /\ x = gd[b].selected_parent
      BY <1>3
    <2> QED BY <1>0, <1>1, <1>2, <2>1, SelectedParentIs
  <1>6. ASSUME NEW b \in K, D[b] \subseteq Good PROVE OrderFacts(dag, gd, b)
    <2>1. CASE b = GENESIS
      BY <2>1, OrderOfGenesis
    <2>2. CASE b # GENESIS
      <3>1. OrderFacts(dag, gd, gd[b].selected_parent)
        BY <1>3, <1>6, <2>2
      <3> QED BY <1>1, <2>2, <3>1, OrderStep
    <2> QED BY <2>1, <2>2
  <1>7. \A b \in K : b \in Good
    <2>1. \A b \in K : D[b] \subseteq Good => b \in Good
      BY <1>6
    <2> HIDE DEF Good
    <2> QED BY <1>4, <1>5, <2>1, RankInduction
  <1> QED BY <1>1, <1>7

Grown(o, p, q, b) == o = Append(p \o q, b)

Extends(K, o, u) == \E t \in Seq(K) : o = u \o t

LEMMA GrownExtends ==
    ASSUME NEW K, NEW u \in Seq(K), NEW p \in Seq(K), Extends(K, p, u), NEW q \in Seq(K), NEW b \in K,
           NEW o, Grown(o, p, q, b)
    PROVE  Extends(K, o, u)
  <1>1. PICK t \in Seq(K) : p = u \o t
    BY DEF Extends
  <1>2. PICK w \in Seq(K) : w = <<b>>
    <2>1. <<b>> \in Seq(K)
      OBVIOUS
    <2> QED BY <2>1
  <1>3. PICK v \in Seq(K) : v = t \o q
    <2>1. t \o q \in Seq(K)
      BY ConcatProperties
    <2> QED BY <2>1
  <1>4. PICK x \in Seq(K) : x = u \o v
    <2>1. u \o v \in Seq(K)
      BY ConcatProperties
    <2> QED BY <2>1
  <1>5. (u \o t) \o q = x
    <2>1. (u \o t) \o q = u \o (t \o q)
      BY ConcatAssociative, SMTT(60)
    <2> QED BY <1>3, <1>4, <2>1
  <1>6. Append(x, b) = x \o w
    BY <1>2
  <1>7. (u \o v) \o w = u \o (v \o w)
    BY ConcatAssociative, SMTT(30)
  <1>8. PICK z \in Seq(K) : z = v \o w
    <2>1. v \o w \in Seq(K)
      BY ConcatProperties
    <2> QED BY <2>1
  <1>9. o = Append(x, b)
    BY <1>1, <1>5 DEF Grown
  <1>10. o = u \o z
    BY <1>4, <1>6, <1>7, <1>8, <1>9
  <1> QED BY <1>10 DEF Extends

LEMMA OrderPrefix ==
    ASSUME NEW dag, NEW gd, WellFormed(dag, gd)
    PROVE  \A b \in DOMAIN dag : \A x \in On(gd, b) :
              Extends(DOMAIN gd, CanonicalOrderAt(gd, b), CanonicalOrderAt(gd, x))
  <1>0. Shape(dag, gd) /\ DOMAIN gd = DOMAIN dag
    BY DEF WellFormed, Shape
  <1>1. PICK K : K = DOMAIN dag /\ K = DOMAIN gd
    BY <1>0
  <1>2. PICK rank : rank = [b \in K |-> gd[b].blue_score]
    OBVIOUS
  <1>3. PICK D : D = [b \in K |-> IF b = GENESIS THEN {} ELSE {gd[b].selected_parent}]
    OBVIOUS
  <1> DEFINE Good == {b \in K : \A x \in On(gd, b) :
                                 Extends(K, CanonicalOrderAt(gd, b), CanonicalOrderAt(gd, x))}
  <1>4. \A b \in K : rank[b] \in Nat
    BY <1>0, <1>1, <1>2 DEF Shape
  <1>5. \A b \in K : \A x \in D[b] : x \in K /\ rank[x] < rank[b]
    <2> SUFFICES ASSUME NEW b \in K, NEW x \in D[b] PROVE x \in K /\ rank[x] < rank[b]
      OBVIOUS
    <2>1. b # GENESIS /\ x = gd[b].selected_parent
      BY <1>3
    <2> QED BY <1>0, <1>1, <1>2, <2>1, SelectedParentIs
  <1>6. \A b \in K : OrderFacts(dag, gd, b)
    BY <1>1, OrderIs
  <1>7. ASSUME NEW b \in K, D[b] \subseteq Good, NEW x \in On(gd, b)
        PROVE  Extends(K, CanonicalOrderAt(gd, b), CanonicalOrderAt(gd, x))
    <2>1. PICK o \in Seq(K) : o = CanonicalOrderAt(gd, b)
      BY <1>1, <1>6 DEF OrderFacts
    <2>2. CASE x = b
      <3>1. <<>> \in Seq(K) /\ o \o <<>> = o
        BY ConcatEmptySeq
      <3> QED BY <2>1, <2>2, <3>1 DEF Extends
    <2>3. CASE x # b
      <3>1. b # GENESIS
        BY <1>0, <1>7, <2>3, OnIs
      <3>2. PICK sp \in K : sp = gd[b].selected_parent
        BY <1>0, <1>1, <3>1, SelectedParentIs
      <3>3. x \in On(gd, sp)
        BY <1>0, <1>1, <1>7, <2>3, <3>1, <3>2, OnIs
      <3>4. sp \in Good
        BY <1>3, <1>7, <3>1, <3>2
      <3>5. Extends(K, CanonicalOrderAt(gd, sp), CanonicalOrderAt(gd, x))
        BY <3>3, <3>4
      <3>6. x \in K
        BY <1>0, <1>1, <1>7, ChainsFormTree DEF ChainTree, BelowOnChain
      <3>7. PICK u \in Seq(K) : u = CanonicalOrderAt(gd, x)
        BY <1>1, <1>6, <3>6 DEF OrderFacts
      <3>8. PICK p \in Seq(K) : p = CanonicalOrderAt(gd, sp)
        BY <1>1, <1>6 DEF OrderFacts
      <3>9. PICK q \in Seq(K) : q = Merged(gd[b])
        BY <1>1, MergedHeld DEF HoldsMerged
      <3>10. Grown(o, p, q, b)
        BY <1>6, <2>1, <3>1, <3>2, <3>8, <3>9 DEF OrderFacts, Grown
      <3>11. Extends(K, o, u)
        BY <3>5, <3>7, <3>8, <3>10, GrownExtends
      <3> QED BY <2>1, <3>7, <3>11
    <2> QED BY <2>2, <2>3
  <1>8. \A b \in K : b \in Good
    <2>1. \A b \in K : D[b] \subseteq Good => b \in Good
      BY <1>7
    <2> HIDE DEF Good
    <2> QED BY <1>4, <1>5, <2>1, RankInduction
  <1> QED BY <1>1, <1>8

-----------------------------------------------------------------------------
(***************************************************************************)
(* Ledgers and the effects of sequences of blocks.                         *)
(***************************************************************************)
Ledgers == [utxo : SUBSET Coin, coinbases : SUBSET AllBlocks, minted : Nat]

Bodied(dag) == \A b \in DOMAIN dag : b \in AllBlocks /\ dag[b].body \in Seq(Tx)

LEMMA SeedTyped == SeedLedger \in Ledgers
  BY ChainConstants DEF SeedLedger, Ledgers

LEMMA TxTyped ==
    ASSUME NEW l \in Ledgers, NEW t \in Tx
    PROVE  ApplyTx(l, t) \in Ledgers /\ ApplyOrSkip(l, t) \in Ledgers
  <1>1. PICK u \in SUBSET Coin, c \in SUBSET AllBlocks, m \in Nat : l = [utxo |-> u, coinbases |-> c, minted |-> m]
    BY DEF Ledgers
  <1>2. (u \ Spends[t]) \cup Makes[t] \in SUBSET Coin
    BY ChainConstants
  <1>3. ApplyTx(l, t) = [utxo |-> (u \ Spends[t]) \cup Makes[t], coinbases |-> c, minted |-> m]
    BY <1>1 DEF ApplyTx
  <1>4. ApplyTx(l, t) \in Ledgers
    BY <1>2, <1>3 DEF Ledgers
  <1> QED BY <1>4 DEF ApplyOrSkip

LEMMA RewardTyped ==
    ASSUME NEW l \in Ledgers, NEW b \in AllBlocks
    PROVE  ApplyBlockReward(l, b) \in Ledgers
  <1>1. PICK u \in SUBSET Coin, c \in SUBSET AllBlocks, m \in Nat : l = [utxo |-> u, coinbases |-> c, minted |-> m]
    BY DEF Ledgers
  <1>2. PICK m2 : m2 = l.minted + 1
    OBVIOUS
  <1>3. PICK c2 : c2 = l.coinbases \cup {b}
    OBVIOUS
  <1>4. PICK k : k = [l EXCEPT !.minted = m2]
    OBVIOUS
  <1>5. ApplyBlockReward(l, b) = [k EXCEPT !.coinbases = c2]
    BY <1>2, <1>3, <1>4, Zenon DEF ApplyBlockReward
  <1>6. k = [utxo |-> u, coinbases |-> c, minted |-> m2]
    BY <1>1, <1>4
  <1>7. [k EXCEPT !.coinbases = c2] = [utxo |-> u, coinbases |-> c2, minted |-> m2]
    BY <1>6
  <1>8. m2 \in Nat
    BY <1>1, <1>2
  <1>9. c2 \in SUBSET AllBlocks
    BY <1>1, <1>3
  <1> QED BY <1>5, <1>7, <1>8, <1>9 DEF Ledgers

LEMMA SkipAllTyped ==
    ASSUME NEW l \in Ledgers, NEW body \in Seq(Tx)
    PROVE  SkipAll(l, body) \in Ledgers
  <1>1. PICK n : n = Len(body)
    OBVIOUS
  <1>2. n \in Nat /\ DOMAIN body = 1..n /\ IndexedIn(body, n, Tx)
    BY <1>1, SeqIndexed
  <1>3. \A a \in Ledgers : \A v \in Tx : ApplyOrSkip(a, v) \in Ledgers
    BY TxTyped
  <1>4. PICK G : IsSkipRun(Ledgers, l, body, n, G) /\ G[n] = SkipAll(l, body)
    BY <1>2, <1>3, SkipRuns
  <1>5. n \in 0..n /\ G \in [0..n -> Ledgers]
    BY <1>2, <1>4 DEF IsSkipRun
  <1> QED BY <1>4, <1>5

LEMMA EffectTyped ==
    ASSUME NEW dag, Bodied(dag), NEW l \in Ledgers, NEW b
    PROVE  EffectStep(dag, l, b) \in Ledgers
  <1>1. CASE b \in DOMAIN dag
    <2>1. SkipAll(l, dag[b].body) \in Ledgers /\ b \in AllBlocks
      BY <1>1, SkipAllTyped DEF Bodied
    <2>2. ApplyBlockReward(SkipAll(l, dag[b].body), b) \in Ledgers
      BY <2>1, RewardTyped
    <2> QED BY <2>2 DEF EffectStep
  <1>2. CASE b \notin DOMAIN dag
    BY <1>2 DEF EffectStep
  <1> QED BY <1>1, <1>2

IsEffectsOf(dag, l, q, G) ==
    /\ \A i \in 0..Len(q) : G[i] \in Ledgers
    /\ G[0] = l /\ G[Len(q)] = EffectAll(dag, l, q)
    /\ \A i \in 1..Len(q) : G[i] = EffectStep(dag, G[i - 1], q[i])

EffectsStay(dag, A, V) == \A a \in A : \A v \in V : EffectStep(dag, a, v) \in A
HasEffectRun(dag, A, base, seq, n) ==
    \E G : IsEffectRun(dag, A, base, seq, n, G) /\ G[n] = EffectAll(dag, base, seq)

LEMMA EffectRunsIn ==
    ASSUME NEW dag, NEW A, NEW V, NEW base, base \in A,
           NEW n, n \in Nat, NEW seq, DOMAIN seq = 1..n, IndexedIn(seq, n, V),
           EffectsStay(dag, A, V)
    PROVE  HasEffectRun(dag, A, base, seq, n)
  <1>1. \A a \in A : \A v \in V : EffectStep(dag, a, v) \in A
    BY DEF EffectsStay
  <1>2. \E G : IsEffectRun(dag, A, base, seq, n, G) /\ G[n] = EffectAll(dag, base, seq)
    BY <1>1, EffectRuns
  <1> QED BY <1>2 DEF HasEffectRun

LEMMA EffectsRun ==
    ASSUME NEW dag, Bodied(dag), NEW l \in Ledgers, NEW V, NEW q \in Seq(V)
    PROVE  \E G : IsEffectsOf(dag, l, q, G)
  <1>1. PICK n : n = Len(q)
    OBVIOUS
  <1>2. n \in Nat /\ DOMAIN q = 1..n /\ IndexedIn(q, n, V)
    BY <1>1, SeqIndexed
  <1>3. \A a \in Ledgers : \A v \in V : EffectStep(dag, a, v) \in Ledgers
    BY EffectTyped
  <1>4. PICK A : A = Ledgers
    OBVIOUS
  <1>5. PICK G : IsEffectRun(dag, A, l, q, n, G) /\ G[n] = EffectAll(dag, l, q)
    <2>1. l \in A
      BY <1>4
    <2>2. EffectsStay(dag, A, V)
      BY <1>3, <1>4 DEF EffectsStay
    <2>3. n \in Nat
      BY <1>2
    <2>4. DOMAIN q = 1..n
      BY <1>2
    <2>5. IndexedIn(q, n, V)
      BY <1>2
    <2>6. HasEffectRun(dag, A, l, q, n)
      BY <2>1, <2>2, <2>3, <2>4, <2>5, EffectRunsIn
    <2> QED BY <2>6 DEF HasEffectRun
  <1>6. /\ \A i \in 0..n : G[i] \in Ledgers
        /\ G[0] = l
        /\ \A i \in 1..n : G[i] = EffectStep(dag, G[i - 1], q[i])
    BY <1>4, <1>5 DEF IsEffectRun
  <1>7. G[n] = EffectAll(dag, l, q)
    BY <1>5
  <1>8. IsEffectsOf(dag, l, q, G)
    BY <1>1, <1>6, <1>7, Zenon DEF IsEffectsOf
  <1> QED BY <1>8

LEMMA EffectsTyped ==
    ASSUME NEW dag, Bodied(dag), NEW l \in Ledgers, NEW V, NEW q \in Seq(V)
    PROVE  EffectAll(dag, l, q) \in Ledgers
  <1>1. PICK G : IsEffectsOf(dag, l, q, G)
    BY EffectsRun
  <1>2. Len(q) \in 0..Len(q)
    OBVIOUS
  <1> QED BY <1>1, <1>2 DEF IsEffectsOf

LEMMA EffectsConcat ==
    ASSUME NEW dag, Bodied(dag), NEW l \in Ledgers, NEW V, NEW s \in Seq(V), NEW t \in Seq(V)
    PROVE  EffectAll(dag, l, s \o t) = EffectAll(dag, EffectAll(dag, l, s), t)
  <1>1. PICK u : u = s \o t
    OBVIOUS
  <1>2. PICK m \in Nat, n \in Nat : m = Len(s) /\ n = Len(t)
    OBVIOUS
  <1>3. u \in Seq(V) /\ Len(u) = m + n /\ \A i \in 1..(m + n) : u[i] = IF i <= m THEN s[i] ELSE t[i - m]
    BY <1>1, <1>2, ConcatProperties
  <1>4. PICK G : IsEffectsOf(dag, l, s, G)
    BY EffectsRun
  <1>5. PICK k \in Ledgers : k = EffectAll(dag, l, s)
    BY EffectsTyped
  <1>6. PICK H : IsEffectsOf(dag, k, t, H)
    BY EffectsRun
  <1>7. PICK U : IsEffectsOf(dag, l, u, U)
    BY <1>3, EffectsRun
  <1>8. G[0] = l /\ G[m] = k /\ \A i \in 1..m : G[i] = EffectStep(dag, G[i - 1], s[i])
    BY <1>2, <1>4, <1>5 DEF IsEffectsOf
  <1>9. H[0] = k /\ H[n] = EffectAll(dag, k, t) /\ \A i \in 1..n : H[i] = EffectStep(dag, H[i - 1], t[i])
    BY <1>2, <1>6 DEF IsEffectsOf
  <1>10. U[0] = l /\ U[m + n] = EffectAll(dag, l, u) /\ \A i \in 1..(m + n) : U[i] = EffectStep(dag, U[i - 1], u[i])
    BY <1>3, <1>7 DEF IsEffectsOf
  <1>11. InStep(G, U, m)
    <2>1. ASSUME NEW i \in 1..m, G[i - 1] = U[i - 1] PROVE G[i] = U[i]
      <3>1. i \in 1..(m + n) /\ i <= m
        BY <1>2
      <3>2. u[i] = s[i]
        BY <1>3, <3>1
      <3> QED BY <1>8, <1>10, <2>1, <3>1, <3>2
    <2> QED BY <1>8, <1>10, <2>1 DEF InStep
  <1>12. U[m] = k
    <2>1. m \in 0..m
      BY <1>2
    <2> QED BY <1>8, <1>11, <2>1, RunsAgree
  <1>13. PICK W : W = [i \in 0..n |-> U[m + i]]
    OBVIOUS
  <1>14. InStep(H, W, n)
    <2>1. W[0] = k
      BY <1>12, <1>13
    <2>2. ASSUME NEW i \in 1..n, H[i - 1] = W[i - 1] PROVE H[i] = W[i]
      <3>1. PICK j \in 1..(m + n) : j = m + i /\ ~(j <= m) /\ j - m = i /\ j - 1 = m + (i - 1)
        <4>1. m + i \in 1..(m + n) /\ ~(m + i <= m) /\ (m + i) - m = i /\ (m + i) - 1 = m + (i - 1)
          BY <1>2
        <4> QED BY <4>1
      <3>2. W[i] = U[j] /\ W[i - 1] = U[j - 1]
        <4>1. i \in 0..n /\ i - 1 \in 0..n
          BY <1>2
        <4> QED BY <1>13, <3>1, <4>1
      <3>3. U[j] = EffectStep(dag, U[j - 1], t[i])
        BY <1>3, <1>10, <3>1
      <3> QED BY <1>9, <2>2, <3>2, <3>3
    <2> QED BY <1>9, <2>1, <2>2 DEF InStep
  <1>15. H[n] = W[n] /\ W[n] = U[m + n]
    <2>1. n \in 0..n
      BY <1>2
    <2> QED BY <1>13, <1>14, <2>1, RunsAgree
  <1> QED BY <1>1, <1>5, <1>9, <1>10, <1>15

LEMMA EffectsOfOne ==
    ASSUME NEW dag, Bodied(dag), NEW l \in Ledgers, NEW b
    PROVE  EffectAll(dag, l, <<b>>) = EffectStep(dag, l, b)
  <1>1. PICK q : q = <<b>>
    OBVIOUS
  <1>2. q \in Seq({b}) /\ Len(q) = 1 /\ q[1] = b
    BY <1>1
  <1>3. PICK G : IsEffectsOf(dag, l, q, G)
    BY <1>2, EffectsRun
  <1>4. G[0] = l /\ G[1] = EffectAll(dag, l, q) /\ G[1] = EffectStep(dag, G[1 - 1], q[1])
    BY <1>2, <1>3 DEF IsEffectsOf
  <1> QED BY <1>1, <1>2, <1>4

LEMMA EffectsLocal ==
    ASSUME NEW dag1, Bodied(dag1), NEW dag2, Bodied(dag2), NEW X, X \subseteq DOMAIN dag1, X \subseteq DOMAIN dag2,
           (\A x \in X : dag1[x].parents = dag2[x].parents /\ dag1[x].body = dag2[x].body),
           NEW l \in Ledgers, NEW q \in Seq(X)
    PROVE  EffectAll(dag1, l, q) = EffectAll(dag2, l, q)
  <1>1. PICK n \in Nat : n = Len(q)
    OBVIOUS
  <1>2. PICK G : IsEffectsOf(dag1, l, q, G)
    BY EffectsRun
  <1>3. PICK H : IsEffectsOf(dag2, l, q, H)
    BY EffectsRun
  <1>4. G[0] = l /\ G[n] = EffectAll(dag1, l, q) /\ \A i \in 1..n : G[i] = EffectStep(dag1, G[i - 1], q[i])
    BY <1>1, <1>2 DEF IsEffectsOf
  <1>5. H[0] = l /\ H[n] = EffectAll(dag2, l, q) /\ \A i \in 1..n : H[i] = EffectStep(dag2, H[i - 1], q[i])
    BY <1>1, <1>3 DEF IsEffectsOf
  <1>6. \A x \in X : \A a : EffectStep(dag1, a, x) = EffectStep(dag2, a, x)
    BY DEF EffectStep
  <1>7. InStep(G, H, n)
    <2>1. ASSUME NEW i \in 1..n, G[i - 1] = H[i - 1] PROVE G[i] = H[i]
      <3>1. q[i] \in X
        BY <1>1
      <3> QED BY <1>4, <1>5, <1>6, <2>1, <3>1
    <2> QED BY <1>4, <1>5, <2>1 DEF InStep
  <1>8. n \in 0..n
    BY <1>1
  <1> QED BY <1>4, <1>5, <1>7, <1>8, RunsAgree

(***************************************************************************)
(* The part of an order behind a block, and the replay from the base.      *)
(***************************************************************************)
IndexOf(q, f) == SelectInSeq(q, LAMBDA b : b = f)

LEMMA IndexIs ==
    ASSUME NEW S, NEW q, Once(q, S), NEW i \in 1..Len(q), NEW f, q[i] = f
    PROVE  IndexOf(q, f) = i
  <1>1. PICK I : I = {k \in 1..Len(q) : q[k] = f}
    OBVIOUS
  <1>2. I = {i}
    BY <1>1, SMTT(60) DEF Once
  <1>3. IndexOf(q, f) = IF I # {} THEN Min(I) ELSE 0
    BY <1>1 DEF IndexOf, SelectInSeq
  <1>4. i \in Nat
    BY DEF Once
  <1>5. Min({i}) = i
    BY <1>4 DEF Min
  <1> QED BY <1>2, <1>3, <1>5

LEMMA IndexAbsent ==
    ASSUME NEW V, NEW q \in Seq(V), NEW f, f \notin V
    PROVE  IndexOf(q, f) = 0
  <1>1. PICK I : I = {k \in 1..Len(q) : q[k] = f}
    OBVIOUS
  <1>2. \A k \in 1..Len(q) : q[k] \in V
    OBVIOUS
  <1>3. I = {}
    BY <1>1, <1>2
  <1>4. IndexOf(q, f) = IF I # {} THEN Min(I) ELSE 0
    BY <1>1 DEF IndexOf, SelectInSeq
  <1> QED BY <1>3, <1>4

IsConcat(o, u, t) == o = u \o t

LEMMA IndexOfLast ==
    ASSUME NEW K, NEW S, NEW o, Once(o, S), NEW u \in Seq(K), NEW t \in Seq(K), IsConcat(o, u, t),
           NEW f, EndsWith(u, f)
    PROVE  IndexOf(o, f) = Len(u) /\ Len(u) \in 1..Len(o) /\ Len(o) = Len(u) + Len(t)
  <1>1. PICK m \in Nat : m = Len(u)
    OBVIOUS
  <1>2. PICK n \in Nat : n = Len(t)
    OBVIOUS
  <1>3. Len(o) = m + n /\ \A i \in 1..(m + n) : o[i] = IF i <= m THEN u[i] ELSE t[i - m]
    BY <1>1, <1>2, ConcatProperties DEF IsConcat
  <1>4. m >= 1 /\ u[m] = f
    BY <1>1 DEF EndsWith
  <1>5. m \in 1..(m + n) /\ m <= m
    BY <1>4
  <1>6. o[m] = f
    BY <1>3, <1>4, <1>5
  <1>7. m \in 1..Len(o)
    BY <1>3, <1>5
  <1>8. IndexOf(o, f) = m
    BY <1>6, <1>7, IndexIs
  <1> QED BY <1>1, <1>2, <1>3, <1>7, <1>8

LEMMA PartIs ==
    ASSUME NEW K, NEW o \in Seq(K), NEW x \in Nat, NEW n \in Nat, x + n <= Len(o)
    PROVE  /\ SubSeq(o, x + 1, x + n) \in Seq(K) /\ Len(SubSeq(o, x + 1, x + n)) = n
           /\ \A i \in 1..n : SubSeq(o, x + 1, x + n)[i] = o[x + i]
  OBVIOUS

LEMMA MiddlePart ==
    ASSUME NEW K, NEW u \in Seq(K), NEW t \in Seq(K), NEW p, IsConcat(p, u, t),
           NEW r \in Seq(K), NEW o, IsConcat(o, p, r)
    PROVE  SubSeq(o, Len(u) + 1, Len(p)) = t
  <1>1. PICK m \in Nat : m = Len(u)
    OBVIOUS
  <1>2. PICK n \in Nat : n = Len(t)
    OBVIOUS
  <1>3. p \in Seq(K) /\ Len(p) = m + n /\ \A i \in 1..(m + n) : p[i] = IF i <= m THEN u[i] ELSE t[i - m]
    BY <1>1, <1>2, ConcatProperties DEF IsConcat
  <1>4. PICK l \in Nat : l = Len(r)
    OBVIOUS
  <1>5. /\ o \in Seq(K) /\ Len(o) = (m + n) + l
        /\ \A i \in 1..((m + n) + l) : o[i] = IF i <= m + n THEN p[i] ELSE r[i - (m + n)]
    <2>1. PICK k \in Nat : k = m + n
      OBVIOUS
    <2>2. p \in Seq(K) /\ Len(p) = k /\ o = p \o r
      BY <1>3, <2>1 DEF IsConcat
    <2>3. /\ o \in Seq(K) /\ Len(o) = k + l
          /\ \A i \in 1..(k + l) : o[i] = IF i <= k THEN p[i] ELSE r[i - k]
      BY <1>4, <2>2, ConcatProperties
    <2> QED BY <2>1, <2>3
  <1>6. ASSUME NEW j \in 1..n PROVE o[m + j] = t[j]
    <2>1. PICK i \in 1..(m + n) : i = m + j
      <3>1. m + j \in 1..(m + n)
        BY <1>1, <1>2
      <3> QED BY <3>1
    <2>2. i \in 1..((m + n) + l) /\ i <= m + n /\ ~(i <= m) /\ i - m = j
      BY <1>1, <1>2, <1>4, <2>1
    <2>3. o[i] = t[j]
      BY <1>3, <1>5, <2>2
    <2> QED BY <2>1, <2>3
  <1>7. m + n <= Len(o)
    BY <1>5
  <1>8. PICK w : w = SubSeq(o, m + 1, m + n)
    OBVIOUS
  <1>9. w \in Seq(K) /\ Len(w) = n /\ \A i \in 1..n : w[i] = o[m + i]
    <2>1. o \in Seq(K)
      BY <1>5
    <2>2. /\ SubSeq(o, m + 1, m + n) \in Seq(K) /\ Len(SubSeq(o, m + 1, m + n)) = n
          /\ \A i \in 1..n : SubSeq(o, m + 1, m + n)[i] = o[m + i]
      BY <1>7, <2>1, PartIs
    <2> QED BY <1>8, <2>2
  <1>10. \A i \in 1..n : w[i] = t[i]
    BY <1>6, <1>9
  <1>11. w = t
    BY <1>2, <1>9, <1>10, SeqEqual
  <1> QED BY <1>1, <1>3, <1>8, <1>11

LEMMA LastPart ==
    ASSUME NEW K, NEW u \in Seq(K), NEW t \in Seq(K), NEW o, IsConcat(o, u, t)
    PROVE  SubSeq(o, Len(u) + 1, Len(o)) = t
  <1>1. PICK e \in Seq(K) : e = <<>>
    <2>1. <<>> \in Seq(K)
      OBVIOUS
    <2> QED BY <2>1
  <1>2. o \in Seq(K)
    BY ConcatProperties DEF IsConcat
  <1>3. IsConcat(o, o, e)
    BY <1>1, <1>2, ConcatEmptySeq DEF IsConcat
  <1> QED BY <1>3, MiddlePart

Based(s, b) ==
    \/ s.base_frontier = None /\ s.base = SeedLedger
    \/ s.base_frontier \in On(s.gd, b) /\ s.base = FullReplay(s, s.base_frontier)

LEMMA FullReplayIs ==
    ASSUME NEW s, NEW b PROVE FullReplay(s, b) = EffectAll(s.dag, SeedLedger, CanonicalOrderAt(s.gd, b))
  BY ReplayIsFold DEF FullReplay

LEMMA VirtualIs ==
    ASSUME NEW s, NEW b, NEW o, o = CanonicalOrderAt(s.gd, b)
    PROVE  VirtualStateAt(s, b) =
              EffectAll(s.dag, s.base, SubSeq(o, IndexOf(o, s.base_frontier) + 1, Len(o)))
  BY ReplayIsFold DEF VirtualStateAt, AfterFrontier, IndexOf

LEMMA VirtualIsFull ==
    ASSUME NEW s, WellFormed(s.dag, s.gd), Bodied(s.dag), NEW b \in DOMAIN s.dag, Based(s, b)
    PROVE  VirtualStateAt(s, b) = FullReplay(s, b)
  <1>1. PICK dag : dag = s.dag
    OBVIOUS
  <1>2. PICK gd : gd = s.gd
    OBVIOUS
  <1>3. PICK K : K = DOMAIN gd /\ K = DOMAIN dag
    BY <1>1, <1>2 DEF WellFormed, Shape
  <1>4. WellFormed(dag, gd) /\ Bodied(dag) /\ b \in DOMAIN dag
    BY <1>1, <1>2
  <1>5. PICK o \in Seq(K) : o = CanonicalOrderAt(gd, b)
    BY <1>3, <1>4, OrderIs DEF OrderFacts
  <1>6. PICK S : Once(o, S)
    BY <1>4, <1>5, OrderIs DEF OrderFacts
  <1>7. PICK f : f = s.base_frontier
    OBVIOUS
  <1>8. VirtualStateAt(s, b) = EffectAll(dag, s.base, SubSeq(o, IndexOf(o, f) + 1, Len(o)))
    BY <1>1, <1>2, <1>5, <1>7, VirtualIs
  <1>9. FullReplay(s, b) = EffectAll(dag, SeedLedger, o)
    BY <1>1, <1>2, <1>5, FullReplayIs
  <1>10. CASE f = None /\ s.base = SeedLedger
    <2>1. None \notin K
      BY <1>3, <1>4, BlocksAreNat DEF WellFormed, Shape
    <2>2. IndexOf(o, f) = 0
      BY <1>10, <2>1, IndexAbsent
    <2>3. SubSeq(o, 0 + 1, Len(o)) = o
      BY SubSeqFull
    <2> QED BY <1>8, <1>9, <1>10, <2>2, <2>3
  <1>11. CASE f \in On(gd, b) /\ s.base = FullReplay(s, f)
    <2>1. f \in K
      BY <1>3, <1>4, <1>11, ChainsFormTree DEF ChainTree, BelowOnChain, WellFormed
    <2>2. PICK u \in Seq(K) : u = CanonicalOrderAt(gd, f) /\ EndsWith(u, f)
      BY <1>3, <1>4, <2>1, OrderIs DEF OrderFacts
    <2>3. PICK t \in Seq(K) : o = u \o t
      <3>1. Extends(K, o, u)
        BY <1>3, <1>4, <1>5, <1>11, <2>2, OrderPrefix
      <3> QED BY <3>1 DEF Extends
    <2>10. IsConcat(o, u, t)
      BY <2>3 DEF IsConcat
    <2>4. IndexOf(o, f) = Len(u)
      BY <1>6, <2>2, <2>10, IndexOfLast
    <2>5. SubSeq(o, Len(u) + 1, Len(o)) = t
      BY <2>10, LastPart
    <2>6. s.base = EffectAll(dag, SeedLedger, u)
      BY <1>1, <1>2, <1>11, <2>2, FullReplayIs
    <2>7. EffectAll(dag, SeedLedger, u \o t) = EffectAll(dag, EffectAll(dag, SeedLedger, u), t)
      BY <1>4, SeedTyped, EffectsConcat
    <2> QED BY <1>8, <1>9, <2>3, <2>4, <2>5, <2>6, <2>7
  <1> QED BY <1>2, <1>7, <1>10, <1>11 DEF Based

-----------------------------------------------------------------------------
(***************************************************************************)
(* Locality: what the code computes for a block depends on the past of the *)
(* block only.  Two nodes, or a node before and after a block is added,    *)
(* that agree on a set of blocks which is closed under parents, compute    *)
(* the same for these blocks.                                              *)
(***************************************************************************)
Agree(d1, g1, d2, g2, X) ==
    /\ X \subseteq DOMAIN d1 /\ X \subseteq DOMAIN d2
    /\ \A b \in X : /\ d1[b].parents = d2[b].parents /\ d1[b].parents \subseteq X
                    /\ d1[b].body = d2[b].body /\ g1[b] = g2[b]

SameParents(d1, d2, X) ==
    /\ X \subseteq DOMAIN d1 /\ X \subseteq DOMAIN d2
    /\ \A b \in X : d1[b].parents = d2[b].parents /\ d1[b].parents \subseteq X

LEMMA PastLocal ==
    ASSUME NEW d1, NEW g1, Shape(d1, g1), NEW d2, NEW g2, Shape(d2, g2), NEW X, SameParents(d1, d2, X)
    PROVE  \A b \in X : PastMap(d1)[b] = PastMap(d2)[b] /\ PastMap(d1)[b] \subseteq X
  <1>1. PICK P1 : P1 = PastMap(d1)
    OBVIOUS
  <1>2. PICK P2 : P2 = PastMap(d2)
    OBVIOUS
  <1>3. PICK rank : rank = [b \in X |-> g1[b].blue_score]
    OBVIOUS
  <1>4. PICK D : D = [b \in X |-> d1[b].parents]
    OBVIOUS
  <1> DEFINE Good == {b \in X : P1[b] = P2[b] /\ P1[b] \subseteq X}
  <1>5. \A b \in X : rank[b] \in Nat
    BY <1>3 DEF Shape, SameParents
  <1>6. \A b \in X : \A x \in D[b] : x \in X /\ rank[x] < rank[b]
    <2> SUFFICES ASSUME NEW b \in X, NEW x \in D[b] PROVE x \in X /\ rank[x] < rank[b]
      OBVIOUS
    <2>1. x \in d1[b].parents /\ x \in X /\ b \in DOMAIN d1
      BY <1>4 DEF SameParents
    <2>2. g1[x].blue_score < g1[b].blue_score
      BY <2>1, ShapeParents
    <2> QED BY <1>3, <2>1, <2>2
  <1>7. \A b \in X : P1[b] = Met(d1, P1, b) /\ P2[b] = Met(d2, P2, b)
    <2>1. PastFacts(d1, g1, P1) /\ PastFacts(d2, g2, P2)
      BY <1>1, <1>2, PastIs
    <2> QED BY <2>1 DEF PastFacts, SameParents
  <1>8. ASSUME NEW b \in X, D[b] \subseteq Good PROVE b \in Good
    <2>1. PICK Q : Q = d1[b].parents /\ Q = d2[b].parents
      BY DEF SameParents
    <2>2. \A p \in Q : P1[p] = P2[p] /\ P1[p] \subseteq X /\ p \in X
      BY <1>4, <1>8, <2>1 DEF SameParents
    <2>3. P1[b] = UNION {{p} \cup P1[p] : p \in Q} /\ P2[b] = UNION {{p} \cup P2[p] : p \in Q}
      BY <1>7, <2>1 DEF Met
    <2>4. P1[b] = P2[b]
      BY <2>2, <2>3
    <2>5. P1[b] \subseteq X
      BY <2>2, <2>3
    <2> QED BY <2>4, <2>5
  <1>9. \A b \in X : b \in Good
    <2>1. \A b \in X : D[b] \subseteq Good => b \in Good
      BY <1>8
    <2> HIDE DEF Good
    <2> QED BY <1>5, <1>6, <2>1, RankInduction
  <1> QED BY <1>1, <1>2, <1>9

LEMMA ChainLocal ==
    ASSUME NEW d1, NEW g1, Shape(d1, g1), NEW d2, NEW g2, Shape(d2, g2), NEW X, Agree(d1, g1, d2, g2, X)
    PROVE  \A b \in X : SelectedChain(g1, b) = SelectedChain(g2, b) /\ On(g1, b) \subseteq X
  <1>1. PICK rank : rank = [b \in X |-> g1[b].blue_score]
    OBVIOUS
  <1>2. PICK D : D = [b \in X |-> IF b = GENESIS THEN {} ELSE {g1[b].selected_parent}]
    OBVIOUS
  <1> DEFINE Good == {b \in X : SelectedChain(g1, b) = SelectedChain(g2, b) /\ On(g1, b) \subseteq X}
  <1>3. \A b \in X : rank[b] \in Nat
    BY <1>1 DEF Shape, Agree
  <1>4. ASSUME NEW b \in X, b # GENESIS
        PROVE  /\ g1[b].selected_parent \in X /\ g2[b].selected_parent = g1[b].selected_parent
               /\ g1[g1[b].selected_parent].blue_score < g1[b].blue_score
               /\ b \in DOMAIN g1 /\ b \in DOMAIN g2
    <2>1. b \in DOMAIN d1 /\ d1[b].parents \subseteq X /\ g1[b] = g2[b] /\ b \in DOMAIN d2
      BY DEF Agree
    <2>2. g1[b].selected_parent \in d1[b].parents /\ g1[g1[b].selected_parent].blue_score < g1[b].blue_score
      BY <1>4, <2>1, SelectedParentIs
    <2> QED BY <2>1, <2>2 DEF Shape
  <1>5. \A b \in X : \A x \in D[b] : x \in X /\ rank[x] < rank[b]
    <2> SUFFICES ASSUME NEW b \in X, NEW x \in D[b] PROVE x \in X /\ rank[x] < rank[b]
      OBVIOUS
    <2>1. b # GENESIS /\ x = g1[b].selected_parent
      BY <1>2
    <2> QED BY <1>1, <1>4, <2>1
  <1>6. ChainFacts(g1) /\ ChainFacts(g2)
    BY SelectedChainIs
  <1>7. ASSUME NEW b \in X, D[b] \subseteq Good PROVE b \in Good
    <2>1. CASE b = GENESIS
      <3>1. SelectedChain(g1, b) = SelectedChain(g2, b)
        BY <1>6, <2>1 DEF ChainFacts
      <3>2. On(g1, b) = {b}
        BY <2>1, OnIs
      <3> QED BY <3>1, <3>2
    <2>2. CASE b # GENESIS
      <3>1. PICK p \in X : p = g1[b].selected_parent /\ p = g2[b].selected_parent
        BY <1>4, <2>2
      <3>2. p \in Good
        BY <1>2, <1>7, <2>2, <3>1
      <3>3. b \in DOMAIN g1 /\ b \in DOMAIN g2
        BY <1>4, <2>2
      <3>4. SelectedChain(g1, b) = Append(SelectedChain(g1, p), b) /\ SelectedChain(g2, b) = Append(SelectedChain(g2, p), b)
        BY <1>6, <2>2, <3>1, <3>3 DEF ChainFacts
      <3>5. On(g1, b) = On(g1, p) \cup {b}
        <4>1. \A x \in DOMAIN g1 \ {GENESIS} : On(g1, x) = On(g1, g1[x].selected_parent) \cup {x}
          BY OnIs
        <4> QED BY <2>2, <3>1, <3>3, <4>1
      <3> QED BY <3>2, <3>4, <3>5
    <2> QED BY <2>1, <2>2
  <1>8. \A b \in X : b \in Good
    <2>1. \A b \in X : D[b] \subseteq Good => b \in Good
      BY <1>7
    <2> HIDE DEF Good
    <2> QED BY <1>3, <1>5, <2>1, RankInduction
  <1> QED BY <1>8

LEMMA BluesAreMerged ==
    ASSUME NEW dag, NEW gd, WellFormed(dag, gd), NEW P, P = PastMap(dag), NEW b \in DOMAIN dag
    PROVE  /\ ToSet(gd[b].mergeset_blues) \subseteq P[b]
           /\ b # GENESIS => gd[b].selected_parent \in ToSet(gd[b].mergeset_blues)
  <1>1. CASE b = GENESIS
    <2>1. gd[b].mergeset_blues = <<>>
      BY <1>1 DEF WellFormed, Shape, GhostdagGenesis
    <2>2. ToSet(<<>>) = {}
      BY DEF ToSet
    <2> QED BY <1>1, <2>1, <2>2
  <1>2. CASE b # GENESIS
    <2>1. PICK sp, ms : MergeFacts(dag, gd, P, b, sp, ms)
      BY <1>2, MergeIs
    <2>2. PICK q : q = gd[b].mergeset_blues
      OBVIOUS
    <2>3. sp \in P[b] /\ ms \subseteq P[b] /\ sp = gd[b].selected_parent
      BY <2>1 DEF MergeFacts
    <2>4. q \in Seq(ms \cup {sp}) /\ Len(q) >= 1 /\ q[1] = sp
      BY <2>1, <2>2 DEF MergeFacts, DataFacts, Colored
    <2>5. /\ \A i \in 1..Len(q) : q[i] \in ToSet(q)
          /\ \A x \in ToSet(q) : \E i \in 1..Len(q) : q[i] = x
      BY <2>4, ToSetIs
    <2>6. \A i \in 1..Len(q) : q[i] \in ms \cup {sp}
      BY <2>4
    <2>7. ToSet(q) \subseteq ms \cup {sp}
      BY <2>5, <2>6
    <2>8. 1 \in 1..Len(q)
      BY <2>4
    <2>9. sp \in ToSet(q)
      BY <2>4, <2>5, <2>8
    <2> QED BY <2>2, <2>3, <2>7, <2>9
  <1> QED BY <1>1, <1>2

LEMMA BluesIs ==
    ASSUME NEW gd, NEW b
    PROVE  MaterializedBlues(gd, b) = {b} \cup UNION {ToSet(gd[c].mergeset_blues) : c \in On(gd, b)}
  BY DEF MaterializedBlues, On

LEMMA BluesInPast ==
    ASSUME NEW dag, NEW gd, WellFormed(dag, gd), NEW P, P = PastMap(dag), NEW b \in DOMAIN dag
    PROVE  MaterializedBlues(gd, b) \subseteq P[b] \cup {b}
  <1>0. Shape(dag, gd)
    BY DEF WellFormed
  <1>1. ASSUME NEW c \in On(gd, b) PROVE ToSet(gd[c].mergeset_blues) \subseteq P[b]
    <2>1. c \in DOMAIN dag /\ (c = b \/ c \in P[b])
      BY <1>0, ChainsFormTree DEF ChainTree, BelowOnChain
    <2>2. P[c] \subseteq P[b]
      BY <1>0, <2>1, PastIs DEF PastFacts
    <2>3. ToSet(gd[c].mergeset_blues) \subseteq P[c]
      BY <2>1, BluesAreMerged
    <2> QED BY <2>2, <2>3
  <1> QED BY <1>1, BluesIs

SameOn(P1, P2, X) == \A h \in X : P1[h] = P2[h]

LEMMA TopologicalOrderLocal ==
    ASSUME NEW P1, NEW P2, NEW ms, IsFiniteSet(ms), (\A h \in ms : h \in Nat), SameOn(P1, P2, ms)
    PROVE  TopologicalOrder(P1, ms) = TopologicalOrder(P2, ms)
  <1>1. \A h \in ms : RankIn(P1, ms, h) = RankIn(P2, ms, h)
    BY DEF RankIn, SameOn
  <1>2. \A a, b \in ms : Earlier(P1, ms, a, b) <=> Earlier(P2, ms, a, b)
    BY <1>1 DEF Earlier
  <1>3. \A h \in ms : EarlierThan(P1, ms, h) = EarlierThan(P2, ms, h)
    BY <1>2 DEF EarlierThan
  <1>4. \A h \in ms : Place(P1, ms, h) = Place(P2, ms, h)
    BY <1>3 DEF Place
  <1>5. PICK T : T = TopologicalOrder(P1, ms)
    OBVIOUS
  <1>6. PICK U : U = TopologicalOrder(P2, ms)
    OBVIOUS
  <1>7. PICK n : n = Cardinality(ms)
    OBVIOUS
  <1>8. Placed(P1, ms, T, n) /\ Placed(P2, ms, U, n)
    BY <1>5, <1>6, <1>7, TopologicalOrderPlaces
  <1>9. ASSUME NEW i \in 1..n PROVE T[i] = U[i]
    <2>1. PICK h \in ms : h = T[i] /\ Place(P1, ms, h) = i
      BY <1>8 DEF Placed
    <2>2. U[Place(P2, ms, h)] = h
      BY <1>8 DEF Placed
    <2> QED BY <1>4, <2>1, <2>2
  <1>10. T = [i \in 1..n |-> CHOOSE h \in ms : Place(P1, ms, h) = i]
    BY <1>5, <1>7, TopologicalOrderIs
  <1>11. U = [i \in 1..n |-> CHOOSE h \in ms : Place(P2, ms, h) = i]
    BY <1>6, <1>7, TopologicalOrderIs
  <1>12. T = [i \in 1..n |-> T[i]]
    BY <1>10
  <1>13. U = [i \in 1..n |-> U[i]]
    BY <1>11
  <1>14. T = U
    BY <1>9, <1>12, <1>13
  <1> QED BY <1>5, <1>6, <1>14

LEMMA CandidateLocal ==
    ASSUME NEW P1, NEW P2, NEW X, SameOn(P1, P2, X), NEW S \in SUBSET X, NEW c \in X
    PROVE  ColorCandidateBlue(P1, S, c) <=> ColorCandidateBlue(P2, S, c)
  <1>1. \A x, y \in X : InAnticone(P1, x, y) <=> InAnticone(P2, x, y)
    BY DEF InAnticone, SameOn
  <1>2. \A x \in X : {b \in S : InAnticone(P1, b, x)} = {b \in S : InAnticone(P2, b, x)}
    BY <1>1
  <1>3. PICK Y : Y = {b \in S : InAnticone(P1, b, c)} /\ Y = {b \in S : InAnticone(P2, b, c)}
    BY <1>2
  <1>4. ColorCandidateBlue(P1, S, c) <=>
          /\ Cardinality(Y) <= GHOSTDAG_K
          /\ \A d \in Y : Cardinality({b \in S : InAnticone(P1, b, d)}) < GHOSTDAG_K
    BY <1>3 DEF ColorCandidateBlue
  <1>5. ColorCandidateBlue(P2, S, c) <=>
          /\ Cardinality(Y) <= GHOSTDAG_K
          /\ \A d \in Y : Cardinality({b \in S : InAnticone(P2, b, d)}) < GHOSTDAG_K
    BY <1>3 DEF ColorCandidateBlue
  <1>6. \A d \in Y : {b \in S : InAnticone(P1, b, d)} = {b \in S : InAnticone(P2, b, d)}
    BY <1>2, <1>3
  <1> QED BY <1>4, <1>5, <1>6

LEMMA ColoringLocal ==
    ASSUME NEW P1, NEW P2, NEW X, SameOn(P1, P2, X), NEW seen0 \in SUBSET X, NEW ms \in SUBSET X,
           IsFiniteSet(ms), (\A h \in ms : h \in Nat), NEW sp \in seen0,
           NEW T, T = TopologicalOrder(P1, ms)
    PROVE  Coloring(P1, ColorBase(seen0, sp), T) = Coloring(P2, ColorBase(seen0, sp), T)
  <1>1. PICK n : n = Cardinality(ms)
    OBVIOUS
  <1>2. Placed(P1, ms, T, n)
    BY <1>1, TopologicalOrderPlaces
  <1>3. n \in Nat /\ DOMAIN T = 1..n /\ IndexedIn(T, n, ms) /\ \A i \in 1..n : T[i] \in ms
    BY <1>2 DEF Placed, IndexedIn
  <1>4. PICK A : A = ColorAcc(seen0, ms, sp)
    OBVIOUS
  <1>5. PICK base : base = ColorBase(seen0, sp)
    OBVIOUS
  <1>6. base \in A
    <2>1. <<sp>> \in Seq(ms \cup {sp}) /\ <<>> \in Seq(ms) /\ seen0 \in SUBSET (seen0 \cup ms)
      OBVIOUS
    <2> QED BY <1>4, <1>5, <2>1 DEF ColorAcc, ColorBase
  <1>7. \A a \in A : \A v \in ms : ColorStep(P1, a, v) \in A
    BY <1>4, ColorStepIs
  <1>8. \A a \in A : \A v \in ms : ColorStep(P2, a, v) \in A
    BY <1>4, ColorStepIs
  <1>9. PICK G : IsColorRun(P1, A, base, T, n, G) /\ G[n] = Coloring(P1, base, T)
    BY <1>3, <1>6, <1>7, ColoringRuns
  <1>10. PICK H : IsColorRun(P2, A, base, T, n, H) /\ H[n] = Coloring(P2, base, T)
    BY <1>3, <1>6, <1>8, ColoringRuns
  <1>11. (\A i \in 0..n : G[i] \in A) /\ G[0] = base /\ \A i \in 1..n : G[i] = ColorStep(P1, G[i - 1], T[i])
    BY <1>9 DEF IsColorRun
  <1>12. H[0] = base /\ \A i \in 1..n : H[i] = ColorStep(P2, H[i - 1], T[i])
    BY <1>10 DEF IsColorRun
  <1>13. ASSUME NEW a \in A, NEW c \in ms PROVE ColorStep(P1, a, c) = ColorStep(P2, a, c)
    <2>1. PICK S : S = a.seen
      OBVIOUS
    <2>2. S \in SUBSET X
      BY <1>4, <2>1 DEF ColorAcc
    <2>3. ColorCandidateBlue(P1, S, c) <=> ColorCandidateBlue(P2, S, c)
      BY <2>2, CandidateLocal
    <2> QED BY <2>1, <2>3 DEF ColorStep
  <1>14. InStep(G, H, n)
    <2>1. ASSUME NEW i \in 1..n, G[i - 1] = H[i - 1] PROVE G[i] = H[i]
      <3>1. G[i - 1] \in A /\ T[i] \in ms
        BY <1>3, <1>11
      <3> QED BY <1>11, <1>12, <1>13, <2>1, <3>1
    <2> QED BY <1>11, <1>12, <2>1 DEF InStep
  <1>15. n \in 0..n
    BY <1>3
  <1> QED BY <1>3, <1>5, <1>9, <1>10, <1>14, <1>15, RunsAgree

LEMMA HighestLocal ==
    ASSUME NEW d1, NEW g1, Shape(d1, g1), NEW d2, NEW g2, Shape(d2, g2), NEW S, S # {},
           S \subseteq DOMAIN d1, S \subseteq DOMAIN d2, (\A x \in S : g1[x] = g2[x])
    PROVE  Highest(g1, S) = Highest(g2, S)
  <1>1. Scored(g1, S) /\ Scored(g2, S) /\ IsFiniteSet(S)
    BY ShapeScored
  <1>2. PICK a : a = Highest(g1, S) /\ IsHighest(g1, S, a)
    BY <1>1, HighestIs
  <1>3. IsHighest(g2, S, a)
    BY <1>2 DEF IsHighest, HigherBlock
  <1> QED BY <1>1, <1>2, <1>3, HighestUnique

LEMMA DataLocal ==
    ASSUME NEW d1, NEW g1, WellFormed(d1, g1), NEW d2, NEW g2, Shape(d2, g2), NEW X,
           Agree(d1, g1, d2, g2, X), NEW parents, parents \subseteq X, parents # {}
    PROVE  DataByPast(d1, g1, parents) = DataByPast(d2, g2, parents)
  <1>0. Shape(d1, g1)
    BY DEF WellFormed
  <1>1. PICK P1 : P1 = PastMap(d1)
    OBVIOUS
  <1>2. PICK P2 : P2 = PastMap(d2)
    OBVIOUS
  <1>3. SameParents(d1, d2, X)
    BY DEF SameParents, Agree
  <1>4. (\A b \in X : P1[b] = P2[b] /\ P1[b] \subseteq X) /\ SameOn(P1, P2, X)
    <2>1. \A b \in X : P1[b] = P2[b] /\ P1[b] \subseteq X
      BY <1>0, <1>1, <1>2, <1>3, PastLocal
    <2> QED BY <2>1 DEF SameOn
  <1>5. X \subseteq DOMAIN d1 /\ X \subseteq DOMAIN d2 /\ \A x \in X : g1[x] = g2[x]
    BY DEF Agree
  <1>6. PICK sp : sp = Highest(g1, parents)
    OBVIOUS
  <1>7. sp = Highest(g2, parents)
    <2>1. parents \subseteq DOMAIN d1 /\ parents \subseteq DOMAIN d2 /\ \A x \in parents : g1[x] = g2[x]
      BY <1>5
    <2> QED BY <1>0, <1>6, <2>1, HighestLocal
  <1>8. sp \in X
    <2>1. Scored(g1, parents) /\ IsFiniteSet(parents)
      BY <1>0, <1>5, ShapeScored
    <2>2. IsHighest(g1, parents, sp)
      BY <1>6, <2>1, HighestIs
    <2> QED BY <2>2 DEF IsHighest
  <1>9. PICK ms : ms = Mergeset(P1, parents, sp)
    OBVIOUS
  <1>10. ms = Mergeset(P2, parents, sp) /\ ms \in SUBSET X
    <2>1. \A p \in parents : P1[p] = P2[p] /\ P1[p] \subseteq X
      BY <1>4
    <2>2. P1[sp] = P2[sp]
      BY <1>4, <1>8
    <2>3. UNION {P1[p] : p \in parents} = UNION {P2[p] : p \in parents}
      BY <2>1
    <2>4. UNION {P1[p] : p \in parents} \subseteq X
      BY <2>1
    <2> QED BY <1>9, <2>2, <2>3, <2>4 DEF Mergeset
  <1>11. IsFiniteSet(ms) /\ \A h \in ms : h \in Nat
    <2>1. ms \subseteq DOMAIN d1
      BY <1>5, <1>10
    <2> QED BY <1>0, <2>1, ShapeScored DEF Scored
  <1>12. PICK seen0 : seen0 = MaterializedBlues(g1, sp)
    OBVIOUS
  <1>13. seen0 = MaterializedBlues(g2, sp)
    <2>1. On(g1, sp) = On(g2, sp) /\ On(g1, sp) \subseteq X
      BY <1>0, <1>8, ChainLocal DEF On
    <2>2. \A c \in On(g1, sp) : g1[c] = g2[c]
      BY <1>5, <2>1
    <2>3. {ToSet(g1[c].mergeset_blues) : c \in On(g1, sp)} = {ToSet(g2[c].mergeset_blues) : c \in On(g2, sp)}
      BY <2>1, <2>2
    <2> QED BY <1>12, <2>3, BluesIs
  <1>14. seen0 \in SUBSET X /\ sp \in seen0
    <2>1. seen0 \subseteq P1[sp] \cup {sp}
      BY <1>1, <1>5, <1>8, <1>12, BluesInPast
    <2>2. P1[sp] \subseteq X
      BY <1>4, <1>8
    <2>3. sp \in seen0
      BY <1>12 DEF MaterializedBlues
    <2> QED BY <1>8, <2>1, <2>2, <2>3
  <1>15. PICK T : T = TopologicalOrder(P1, ms)
    OBVIOUS
  <1>16. T = TopologicalOrder(P2, ms)
    <2>1. SameOn(P1, P2, ms)
      BY <1>4, <1>10 DEF SameOn
    <2> QED BY <1>11, <1>15, <2>1, TopologicalOrderLocal
  <1>17. PICK done : done = Coloring(P1, ColorBase(seen0, sp), T)
    OBVIOUS
  <1>18. done = Coloring(P2, ColorBase(seen0, sp), T)
    BY <1>4, <1>10, <1>11, <1>14, <1>15, <1>17, ColoringLocal
  <1>19. PICK data : data = [blue_score      |-> g1[sp].blue_score + Len(done.blues),
                             selected_parent |-> sp,
                             mergeset_blues  |-> done.blues,
                             mergeset_reds   |-> done.reds]
    OBVIOUS
  <1>20. DataByPast(d1, g1, parents) = data
    <2>1. done = Coloring(P1, [seen |-> MaterializedBlues(g1, sp), blues |-> <<sp>>, reds |-> <<>>], T)
      BY <1>12, <1>17 DEF ColorBase
    <2> QED BY <1>1, <1>6, <1>9, <1>15, <1>19, <2>1, GhostdagDataIs
  <1>21. DataByPast(d2, g2, parents) = data
    <2>1. done = Coloring(P2, [seen |-> MaterializedBlues(g2, sp), blues |-> <<sp>>, reds |-> <<>>], T)
      BY <1>13, <1>18 DEF ColorBase
    <2>2. g1[sp] = g2[sp]
      BY <1>5, <1>8
    <2>3. data = [blue_score      |-> g2[sp].blue_score + Len(done.blues),
                  selected_parent |-> sp,
                  mergeset_blues  |-> done.blues,
                  mergeset_reds   |-> done.reds]
      BY <1>19, <2>2
    <2>4. T = TopologicalOrder(P2, Mergeset(P2, parents, sp))
      BY <1>10, <1>16
    <2> QED BY <1>2, <1>7, <2>1, <2>3, <2>4, GhostdagDataIs
  <1> QED BY <1>20, <1>21

LEMMA OrderLocal ==
    ASSUME NEW d1, NEW g1, WellFormed(d1, g1), NEW d2, NEW g2, WellFormed(d2, g2), NEW X, Agree(d1, g1, d2, g2, X)
    PROVE  \A b \in X : CanonicalOrderAt(g1, b) = CanonicalOrderAt(g2, b)
  <1>0. Shape(d1, g1) /\ Shape(d2, g2)
    BY DEF WellFormed
  <1>1. PICK rank : rank = [b \in X |-> g1[b].blue_score]
    OBVIOUS
  <1>2. PICK D : D = [b \in X |-> IF b = GENESIS THEN {} ELSE {g1[b].selected_parent}]
    OBVIOUS
  <1> DEFINE Good == {b \in X : CanonicalOrderAt(g1, b) = CanonicalOrderAt(g2, b)}
  <1>3. \A b \in X : rank[b] \in Nat
    BY <1>0, <1>1 DEF Shape, Agree
  <1>4. ASSUME NEW b \in X, b # GENESIS
        PROVE  /\ g1[b].selected_parent \in X /\ g2[b] = g1[b]
               /\ g1[g1[b].selected_parent].blue_score < g1[b].blue_score
               /\ b \in DOMAIN d1 /\ b \in DOMAIN d2
    <2>0. b \in DOMAIN d1 /\ b \in DOMAIN d2
      BY DEF Agree
    <2>1. b \in DOMAIN d1 /\ d1[b].parents \subseteq X /\ g1[b] = g2[b] /\ b \in DOMAIN d2
      BY <2>0 DEF Agree
    <2>2. g1[b].selected_parent \in d1[b].parents /\ g1[g1[b].selected_parent].blue_score < g1[b].blue_score
      BY <1>0, <1>4, <2>1, SelectedParentIs
    <2> QED BY <2>1, <2>2
  <1>5. \A b \in X : \A x \in D[b] : x \in X /\ rank[x] < rank[b]
    <2> SUFFICES ASSUME NEW b \in X, NEW x \in D[b] PROVE x \in X /\ rank[x] < rank[b]
      OBVIOUS
    <2>1. b # GENESIS /\ x = g1[b].selected_parent
      BY <1>2
    <2> QED BY <1>1, <1>4, <2>1
  <1>7. ASSUME NEW b \in X, D[b] \subseteq Good PROVE b \in Good
    <2>1. CASE b = GENESIS
      BY <2>1, OrderOfGenesis
    <2>2. CASE b # GENESIS
      <3>1. CanonicalOrderAt(g1, g1[b].selected_parent) = CanonicalOrderAt(g2, g1[b].selected_parent)
        BY <1>2, <1>7, <2>2
      <3>2. OrderFacts(d1, g1, b) /\ OrderFacts(d2, g2, b)
        BY <1>4, <2>2, OrderIs
      <3>3. CanonicalOrderAt(g1, b) = Append(CanonicalOrderAt(g1, g1[b].selected_parent) \o Merged(g1[b]), b)
        BY <2>2, <3>2 DEF OrderFacts
      <3>4. CanonicalOrderAt(g2, b) = Append(CanonicalOrderAt(g2, g2[b].selected_parent) \o Merged(g2[b]), b)
        BY <2>2, <3>2 DEF OrderFacts
      <3>5. g2[b] = g1[b]
        BY <1>4, <2>2
      <3> QED BY <3>1, <3>3, <3>4, <3>5
    <2> QED BY <2>1, <2>2
  <1>8. \A b \in X : b \in Good
    <2>1. \A b \in X : D[b] \subseteq Good => b \in Good
      BY <1>7
    <2> HIDE DEF Good
    <2> QED BY <1>3, <1>5, <2>1, RankInduction
  <1> QED BY <1>8

LEMMA ReplayLocal ==
    ASSUME NEW s1, NEW s2, WellFormed(s1.dag, s1.gd), WellFormed(s2.dag, s2.gd), Bodied(s1.dag), Bodied(s2.dag),
           NEW X, Agree(s1.dag, s1.gd, s2.dag, s2.gd, X), NEW b \in X
    PROVE  FullReplay(s1, b) = FullReplay(s2, b)
  <1>1. PICK d1 : d1 = s1.dag
    OBVIOUS
  <1>2. PICK d2 : d2 = s2.dag
    OBVIOUS
  <1>3. PICK g1 : g1 = s1.gd
    OBVIOUS
  <1>4. PICK g2 : g2 = s2.gd
    OBVIOUS
  <1>5. WellFormed(d1, g1) /\ WellFormed(d2, g2) /\ Bodied(d1) /\ Bodied(d2) /\ Agree(d1, g1, d2, g2, X)
    BY <1>1, <1>2, <1>3, <1>4
  <1>6. PICK o : o = CanonicalOrderAt(g1, b)
    OBVIOUS
  <1>7. o = CanonicalOrderAt(g2, b)
    BY <1>5, <1>6, OrderLocal
  <1>8. o \in Seq(X)
    <2>1. b \in DOMAIN d1
      BY <1>5 DEF Agree
    <2>2. Once(o, PastMap(d1)[b] \cup {b})
      BY <1>5, <1>6, <2>1, OrderIs DEF OrderFacts
    <2>3. SameParents(d1, d2, X) /\ Shape(d1, g1) /\ Shape(d2, g2)
      BY <1>5 DEF SameParents, Agree, WellFormed
    <2>4. PastMap(d1)[b] \subseteq X
      BY <2>3, PastLocal
    <2>5. PICK S : S = PastMap(d1)[b] \cup {b}
      OBVIOUS
    <2>6. o \in Seq(S) /\ S \subseteq X
      BY <2>2, <2>4, <2>5 DEF Once
    <2> QED BY <2>6
  <1>9. EffectAll(d1, SeedLedger, o) = EffectAll(d2, SeedLedger, o)
    <2>1. X \subseteq DOMAIN d1 /\ X \subseteq DOMAIN d2
      BY <1>5 DEF Agree
    <2>2. \A x \in X : d1[x].parents = d2[x].parents /\ d1[x].body = d2[x].body
      BY <1>5 DEF Agree
    <2> QED BY <1>5, <1>8, <2>1, <2>2, SeedTyped, EffectsLocal
  <1> QED BY <1>1, <1>2, <1>3, <1>4, <1>6, <1>7, <1>9, FullReplayIs

(***************************************************************************)
(* The two maps of a node after a block is inserted.                       *)
(***************************************************************************)
Plus(f, b, v) == [x \in DOMAIN f \cup {b} |-> IF x = b THEN v ELSE f[x]]

Fits(dag, gd, b, held, data) ==
    /\ b \in BlockId /\ b \notin DOMAIN dag
    /\ held.parents \subseteq DOMAIN dag /\ held.parents # {}
    /\ data = DataByPast(dag, gd, held.parents)
    /\ Len(Merged(data)) <= MAX_MERGESET_SIZE

LEMMA ScoreAbove ==
    ASSUME NEW dag, NEW gd, Shape(dag, gd), NEW Q, Q \subseteq DOMAIN dag, Q # {},
           NEW data, data = DataByPast(dag, gd, Q)
    PROVE  /\ data.blue_score \in Nat /\ \A p \in Q : gd[p].blue_score < data.blue_score
           /\ data.selected_parent = Highest(gd, Q)
  <1>1. PICK P : P = PastMap(dag)
    OBVIOUS
  <1>2. PICK sp, ms : /\ DataFacts(P, gd, Q, sp, ms, data)
                      /\ ms \subseteq DOMAIN dag /\ IsFiniteSet(ms) /\ sp \in DOMAIN dag
    BY <1>1, DataIs
  <1>3. PICK m : m = Len(data.mergeset_blues)
    OBVIOUS
  <1>4. m \in Nat /\ m >= 1
    <2>1. data.mergeset_blues \in Seq(ms \cup {sp}) /\ Len(data.mergeset_blues) >= 1
      BY <1>2 DEF DataFacts, Colored
    <2>2. Len(data.mergeset_blues) \in Nat
      BY <2>1, LenProperties
    <2> QED BY <1>3, <2>1, <2>2
  <1>5. data.blue_score = gd[sp].blue_score + m /\ IsHighest(gd, Q, sp) /\ data.selected_parent = sp
        /\ sp = Highest(gd, Q)
    BY <1>2, <1>3 DEF DataFacts
  <1>6. gd[sp].blue_score \in Nat /\ \A p \in Q : gd[p].blue_score \in Nat
    BY <1>2 DEF Shape
  <1>7. \A p \in Q : gd[p].blue_score <= gd[sp].blue_score
    BY <1>5, <1>6 DEF IsHighest, HigherBlock
  <1> QED BY <1>4, <1>5, <1>6, <1>7

LEMMA AddedWellFormed ==
    ASSUME NEW dag, NEW gd, WellFormed(dag, gd), NEW b, NEW held, NEW data, Fits(dag, gd, b, held, data),
           NEW d2, d2 = Plus(dag, b, held), NEW g2, g2 = Plus(gd, b, data)
    PROVE  WellFormed(d2, g2) /\ Agree(dag, gd, d2, g2, DOMAIN dag)
  <1>1. Shape(dag, gd)
    BY DEF WellFormed
  <1>2. PICK K : K = DOMAIN dag
    OBVIOUS
  <1>3. DOMAIN gd = K /\ IsFiniteSet(K) /\ K \subseteq AllBlocks /\ GENESIS \in K
    BY <1>1, <1>2 DEF Shape
  <1>4. b \in BlockId /\ b \in AllBlocks /\ b # GENESIS /\ b \notin K
    BY <1>2, ChainConstants DEF Fits, AllBlocks
  <1>5. DOMAIN d2 = K \cup {b} /\ DOMAIN g2 = K \cup {b} /\ d2[b] = held /\ g2[b] = data
    BY <1>2, <1>3 DEF Plus
  <1>6. \A x \in K : d2[x] = dag[x] /\ g2[x] = gd[x]
    BY <1>2, <1>3, <1>4 DEF Plus
  <1>7. PICK Q : Q = held.parents
    OBVIOUS
  <1>8. Q \subseteq K /\ Q # {} /\ data = DataByPast(dag, gd, Q) /\ Len(Merged(data)) <= MAX_MERGESET_SIZE
    BY <1>2, <1>7 DEF Fits
  <1>9. /\ data.blue_score \in Nat /\ \A p \in Q : gd[p].blue_score < data.blue_score
        /\ data.selected_parent = Highest(gd, Q)
    BY <1>1, <1>2, <1>8, ScoreAbove
  <1>10. ASSUME NEW S, S \subseteq K, S # {} PROVE Highest(g2, S) = Highest(gd, S)
    <2>1. Scored(gd, S) /\ IsFiniteSet(S)
      BY <1>1, <1>2, <1>10, ShapeScored
    <2>2. IsHighest(gd, S, Highest(gd, S))
      BY <1>10, <2>1, HighestIs
    <2>3. \A x \in S : g2[x] = gd[x]
      BY <1>6, <1>10
    <2>4. IsHighest(g2, S, Highest(gd, S))
      BY <2>2, <2>3 DEF IsHighest, HigherBlock
    <2>5. Scored(g2, S)
      BY <1>5, <1>10, <2>1, <2>3 DEF Scored
    <2> QED BY <2>1, <2>4, <2>5, HighestUnique
  <1>11. Shape(d2, g2)
    <2>1. IsFiniteSet(K \cup {b})
      BY <1>3, FS_AddElement
    <2>2. DOMAIN g2 = DOMAIN d2 /\ IsFiniteSet(DOMAIN d2) /\ DOMAIN d2 \subseteq AllBlocks /\ GENESIS \in DOMAIN d2
      BY <1>3, <1>4, <1>5, <2>1
    <2>3. d2[GENESIS].parents = {} /\ g2[GENESIS] = GhostdagGenesis
      BY <1>1, <1>3, <1>6 DEF Shape
    <2>4. \A x \in DOMAIN d2 : g2[x].blue_score \in Nat
      BY <1>1, <1>2, <1>5, <1>6, <1>9 DEF Shape
    <2>5. ASSUME NEW x \in DOMAIN d2, x # GENESIS
          PROVE  /\ d2[x].parents # {} /\ d2[x].parents \subseteq DOMAIN d2
                 /\ \A p \in d2[x].parents : g2[p].blue_score < g2[x].blue_score
                 /\ g2[x].selected_parent = Highest(g2, d2[x].parents)
      <3>1. CASE x = b
        <4>1. Highest(g2, Q) = Highest(gd, Q)
          BY <1>8, <1>10
        <4>2. \A p \in Q : g2[p].blue_score < data.blue_score
          BY <1>6, <1>8, <1>9
        <4> QED BY <1>5, <1>7, <1>8, <1>9, <3>1, <4>1, <4>2
      <3>2. CASE x # b
        <4>1. PICK R : R = dag[x].parents
          OBVIOUS
        <4>2. x \in K
          BY <1>5, <3>2
        <4>3. R # {} /\ R \subseteq K /\ \A p \in R : gd[p].blue_score < gd[x].blue_score
          BY <1>1, <1>2, <2>5, <4>1, <4>2 DEF Shape
        <4>4. gd[x].selected_parent = Highest(gd, R)
          BY <1>1, <1>2, <2>5, <4>1, <4>2 DEF Shape
        <4>5. Highest(g2, R) = Highest(gd, R)
          BY <1>10, <4>3
        <4>6. d2[x].parents = R /\ g2[x] = gd[x]
          BY <1>6, <4>1, <4>2
        <4>7. \A p \in R : g2[p] = gd[p]
          BY <1>6, <4>3
        <4> QED BY <1>5, <4>3, <4>4, <4>5, <4>6, <4>7
      <3> QED BY <3>1, <3>2
    <2> QED BY <2>2, <2>3, <2>4, <2>5 DEF Shape
  <1>12. Agree(dag, gd, d2, g2, K)
    <2>1. ASSUME NEW x \in K PROVE dag[x].parents \subseteq K
      BY <1>1, <1>2 DEF Shape
    <2> QED BY <1>2, <1>5, <1>6, <2>1 DEF Agree
  <1>13. ASSUME NEW x \in DOMAIN d2, x # GENESIS
         PROVE  /\ g2[x] = DataByPast(d2, g2, d2[x].parents)
                /\ Len(Merged(g2[x])) <= MAX_MERGESET_SIZE
    <2>1. CASE x = b
      <3>1. DataByPast(dag, gd, Q) = DataByPast(d2, g2, Q)
        BY <1>8, <1>11, <1>12, DataLocal
      <3> QED BY <1>5, <1>7, <1>8, <2>1, <3>1
    <2>2. CASE x # b
      <3>1. PICK R : R = dag[x].parents
        OBVIOUS
      <3>2. x \in K
        BY <1>5, <2>2
      <3>3. R # {} /\ R \subseteq K
        BY <1>1, <1>2, <1>13, <3>1, <3>2 DEF Shape
      <3>4. DataByPast(dag, gd, R) = DataByPast(d2, g2, R)
        BY <1>11, <1>12, <3>3, DataLocal
      <3>5. gd[x] = DataByPast(dag, gd, R) /\ Len(Merged(gd[x])) <= MAX_MERGESET_SIZE
        BY <1>2, <1>13, <3>1, <3>2 DEF WellFormed
      <3> QED BY <1>6, <3>1, <3>2, <3>4, <3>5
    <2> QED BY <2>1, <2>2
  <1> QED BY <1>2, <1>11, <1>12, <1>13 DEF WellFormed

Childless(dag) == {b \in DOMAIN dag : \A x \in DOMAIN dag : b \notin dag[x].parents}

LEMMA BestTip ==
    ASSUME NEW dag, NEW gd, Shape(dag, gd), NEW tp, tp = Childless(dag)
    PROVE  IsHighest(gd, DOMAIN dag, Highest(gd, tp)) /\ Highest(gd, tp) \in DOMAIN dag
  <1>1. PICK K : K = DOMAIN dag
    OBVIOUS
  <1>2. K # {} /\ Scored(gd, K) /\ IsFiniteSet(K)
    BY <1>1, ShapeScored DEF Shape
  <1>3. PICK h : h = Highest(gd, K)
    OBVIOUS
  <1>4. IsHighest(gd, K, h)
    BY <1>2, <1>3, HighestIs
  <1>5. h \in K /\ \A x \in K : HigherBlock(gd, h, x)
    BY <1>4 DEF IsHighest
  <1>6. ASSUME NEW x \in K, h \in dag[x].parents PROVE FALSE
    <2>1. /\ gd[h].blue_score \in Nat /\ gd[x].blue_score \in Nat
          /\ gd[h].blue_score < gd[x].blue_score
      BY <1>1, <1>6, ShapeParents
    <2>2. HigherBlock(gd, h, x)
      BY <1>5
    <2> QED BY <2>1, <2>2 DEF HigherBlock
  <1>7. h \in tp /\ tp \subseteq K
    BY <1>1, <1>5, <1>6 DEF Childless
  <1>8. IsHighest(gd, tp, h)
    BY <1>5, <1>7 DEF IsHighest
  <1>9. Scored(gd, tp) /\ IsFiniteSet(tp)
    BY <1>1, <1>7, ShapeScored
  <1>10. Highest(gd, tp) = h
    BY <1>8, <1>9, HighestUnique
  <1> QED BY <1>1, <1>4, <1>5, <1>10

LEMMA TipsAdded ==
    ASSUME NEW dag, NEW gd, Shape(dag, gd), NEW b, b \notin DOMAIN dag, NEW held, held.parents \subseteq DOMAIN dag
    PROVE  Childless(Plus(dag, b, held)) = (Childless(dag) \ held.parents) \cup {b}
  <1>1. PICK d2 : d2 = Plus(dag, b, held)
    OBVIOUS
  <1>2. DOMAIN d2 = DOMAIN dag \cup {b} /\ d2[b] = held /\ \A x \in DOMAIN dag : d2[x] = dag[x]
    BY <1>1 DEF Plus
  <1>3. \A x \in DOMAIN dag : dag[x].parents \subseteq DOMAIN dag
    BY DEF Shape
  <1>4. \A y : y \in Childless(d2) <=>
                y \in DOMAIN dag \cup {b} /\ y \notin held.parents /\ \A x \in DOMAIN dag : y \notin dag[x].parents
    BY <1>2 DEF Childless
  <1>5. \A y : y \in Childless(dag) <=> y \in DOMAIN dag /\ \A x \in DOMAIN dag : y \notin dag[x].parents
    BY DEF Childless
  <1>6. \A y : y \in Childless(d2) <=> y \in (Childless(dag) \ held.parents) \cup {b}
    BY <1>3, <1>4, <1>5
  <1> QED BY <1>1, <1>6

(***************************************************************************)
(* The better of the old tip and the new block.                            *)
(***************************************************************************)
BeatsTip(g2, gd, b, h) ==
    g2[b].blue_score > gd[h].blue_score \/ (g2[b].blue_score = gd[h].blue_score /\ b > h)

LEMMA TipAfter ==
    ASSUME NEW dag, NEW gd, Shape(dag, gd), NEW b, b \notin DOMAIN dag, NEW d2, NEW g2, Shape(d2, g2),
           DOMAIN d2 = DOMAIN dag \cup {b}, (\A x \in DOMAIN dag : g2[x] = gd[x]),
           NEW h, IsHighest(gd, DOMAIN dag, h), NEW h2, IsHighest(g2, DOMAIN d2, h2)
    PROVE  h2 = IF BeatsTip(g2, gd, b, h) THEN b ELSE h
  <1>1. PICK K : K = DOMAIN dag
    OBVIOUS
  <1>2. h \in K /\ \A x \in K : HigherBlock(gd, h, x)
    BY <1>1 DEF IsHighest
  <1>3. Scored(g2, DOMAIN d2) /\ Scored(gd, K)
    BY <1>1, ShapeScored
  <1>4. g2[b].blue_score \in Nat /\ g2[h].blue_score \in Nat /\ b \in Nat /\ h \in Nat /\ g2[h] = gd[h] /\ b # h
    BY <1>1, <1>2, <1>3 DEF Scored
  <1>5. CASE BeatsTip(g2, gd, b, h)
    <2>1. HigherBlock(g2, b, h) /\ HigherBlock(g2, b, b)
      BY <1>4, <1>5 DEF HigherBlock, BeatsTip
    <2>2. ASSUME NEW x \in K PROVE HigherBlock(g2, b, x)
      <3>1. HigherBlock(g2, h, x)
        BY <1>1, <1>2, <1>4 DEF HigherBlock
      <3> QED BY <1>1, <1>2, <1>3, <2>1, <3>1, HigherTransitive
    <2>3. IsHighest(g2, DOMAIN d2, b)
      BY <1>1, <2>1, <2>2 DEF IsHighest
    <2> QED BY <1>3, <1>5, <2>3, OneHighest
  <1>6. CASE ~BeatsTip(g2, gd, b, h)
    <2>1. HigherBlock(g2, h, b)
      BY <1>4, <1>6 DEF HigherBlock, BeatsTip
    <2>2. ASSUME NEW x \in K PROVE HigherBlock(g2, h, x)
      BY <1>1, <1>2, <1>4 DEF HigherBlock
    <2>3. IsHighest(g2, DOMAIN d2, h)
      BY <1>1, <1>2, <2>1, <2>2 DEF IsHighest
    <2> QED BY <1>3, <1>6, <2>3, OneHighest
  <1> QED BY <1>5, <1>6

-----------------------------------------------------------------------------
(***************************************************************************)
(* The reachability index of a node that prunes nothing.                   *)
(***************************************************************************)
UpStep(tr, f, x) == {x} \cup (IF tr[x] = None THEN {} ELSE f[tr[x]])

IsUp(tr, f) == f = [x \in DOMAIN tr |-> UpStep(tr, f, x)]

LEMMA TreeAncestorsIs ==
    ASSUME NEW reach, NEW b PROVE TreeAncestors(reach, b) = (CHOOSE f : IsUp(reach.tree, f))[b]
  BY DEF TreeAncestors, IsUp, UpStep

TreeOf(gd) == [b \in DOMAIN gd |-> gd[b].selected_parent]

LEMMA TreeIsChain ==
    ASSUME NEW dag, NEW gd, Shape(dag, gd), NEW reach, reach.tree = TreeOf(gd), NEW b \in DOMAIN dag
    PROVE  TreeAncestors(reach, b) = On(gd, b)
  <1>1. PICK K : K = DOMAIN dag
    OBVIOUS
  <1>2. DOMAIN gd = K
    BY <1>1 DEF Shape
  <1>3. PICK tr : tr = reach.tree
    OBVIOUS
  <1>4. DOMAIN tr = K /\ \A x \in K : tr[x] = gd[x].selected_parent
    BY <1>2, <1>3 DEF TreeOf
  <1>5. tr[GENESIS] = None /\ GENESIS \in K
    BY <1>1, <1>4 DEF Shape, GhostdagGenesis
  <1>6. \A x \in K \ {GENESIS} : tr[x] # None /\ tr[x] \in K /\ gd[tr[x]].blue_score < gd[x].blue_score
    BY <1>1, <1>4, SelectedParentIs
  <1>7. On(gd, GENESIS) = {GENESIS} /\ \A x \in K \ {GENESIS} : On(gd, x) = On(gd, tr[x]) \cup {x}
    BY <1>1, <1>2, <1>4, OnIs
  <1>8. PICK u : u = [x \in K |-> On(gd, x)]
    OBVIOUS
  <1>9. \A x \in K : u[x] = UpStep(tr, u, x)
    <2> SUFFICES ASSUME NEW x \in K PROVE u[x] = UpStep(tr, u, x)
      OBVIOUS
    <2>1. CASE x = GENESIS
      BY <1>5, <1>7, <1>8, <2>1 DEF UpStep
    <2>2. CASE x # GENESIS
      BY <1>6, <1>7, <1>8, <2>2 DEF UpStep
    <2> QED BY <2>1, <2>2
  <1>10. IsUp(tr, u)
    BY <1>4, <1>8, <1>9 DEF IsUp
  <1>11. PICK f : f = CHOOSE g : IsUp(tr, g)
    OBVIOUS
  <1>12. IsUp(tr, f)
    BY <1>10, <1>11
  <1>13. \A x \in K : f[x] = UpStep(tr, f, x)
    BY <1>4, <1>12 DEF IsUp
  <1>14. PICK rank : rank = [x \in K |-> gd[x].blue_score]
    OBVIOUS
  <1>15. PICK D : D = [x \in K |-> IF x = GENESIS THEN {} ELSE {tr[x]}]
    OBVIOUS
  <1>0. PICK Good : Good = {x \in K : f[x] = u[x]}
    OBVIOUS
  <1>16. \A x \in K : rank[x] \in Nat
    BY <1>1, <1>14 DEF Shape
  <1>17. \A x \in K : \A y \in D[x] : y \in K /\ rank[y] < rank[x]
    BY <1>6, <1>14, <1>15
  <1>18. \A x \in K : D[x] \subseteq Good => x \in Good
    <2> SUFFICES ASSUME NEW x \in K, D[x] \subseteq Good PROVE x \in Good
      OBVIOUS
    <2>1. CASE x = GENESIS
      BY <1>0, <1>5, <1>9, <1>13, <2>1 DEF UpStep
    <2>2. CASE x # GENESIS
      <3>1. f[tr[x]] = u[tr[x]]
        BY <1>0, <1>15, <2>2
      <3>2. f[x] = {x} \cup f[tr[x]] /\ u[x] = {x} \cup u[tr[x]]
        BY <1>6, <1>9, <1>13, <2>2 DEF UpStep
      <3> QED BY <1>0, <3>1, <3>2
    <2> QED BY <2>1, <2>2
  <1>19. \A x \in K : x \in Good
    BY <1>16, <1>17, <1>18, RankInduction, SMTT(60)
  <1>20. f[b] = On(gd, b)
    BY <1>0, <1>1, <1>8, <1>19
  <1> QED BY <1>3, <1>11, <1>20, TreeAncestorsIs

CoverOf(gd) == [a \in DOMAIN gd |-> {c \in DOMAIN gd : a \in ToSet(Merged(gd[c]))}]

ReachOf(gd) == [tree |-> TreeOf(gd), fcs |-> CoverOf(gd)]

LEMMA ReachIs ==
    ASSUME NEW gd, NEW r, r = ReachOf(gd)
    PROVE  /\ r.tree = TreeOf(gd) /\ r.fcs = CoverOf(gd) /\ DOMAIN r.tree = DOMAIN gd
           /\ \A x \in DOMAIN gd : r.tree[x] = gd[x].selected_parent
           /\ \A x \in DOMAIN gd : r.fcs[x] = {c \in DOMAIN gd : x \in ToSet(Merged(gd[c]))}
  <1>1. r.tree = TreeOf(gd) /\ r.fcs = CoverOf(gd)
    BY DEF ReachOf
  <1> QED BY <1>1 DEF TreeOf, CoverOf

MergedSet(gd, c) == ToSet(Merged(gd[c]))

LEMMA MergedOfGenesis ==
    ASSUME NEW gd, gd[GENESIS] = GhostdagGenesis
    PROVE  MergedSet(gd, GENESIS) = {}
  <1>1. gd[GENESIS].mergeset_blues = <<>> /\ gd[GENESIS].mergeset_reds = <<>>
    BY DEF GhostdagGenesis
  <1>2. Merged(gd[GENESIS]) = <<>> \o <<>>
    BY <1>1 DEF Merged
  <1>3. Merged(gd[GENESIS]) = <<>>
    BY <1>2
  <1> QED BY <1>3 DEF MergedSet, ToSet

(***************************************************************************)
(* `Reachability::add_block` keeps this form.                              *)
(***************************************************************************)
Indexable(gd, b, data) ==
    /\ b \notin DOMAIN gd /\ None \notin DOMAIN gd
    /\ data.selected_parent \in DOMAIN gd \cup {None}
    /\ ToSet(Merged(data)) \subseteq DOMAIN gd
    /\ \A c \in DOMAIN gd : MergedSet(gd, c) \subseteq DOMAIN gd

LEMMA IndexGrows ==
    ASSUME NEW gd, NEW b, NEW data, Indexable(gd, b, data)
    PROVE  IndexBlock(ReachOf(gd), b, data) = ReachOf(Plus(gd, b, data))
  <1>1. PICK K : K = DOMAIN gd
    OBVIOUS
  <1>2. PICK r : r = ReachOf(gd)
    OBVIOUS
  <1>3. /\ DOMAIN r.tree = K /\ \A x \in K : r.tree[x] = gd[x].selected_parent
        /\ \A x \in K : r.fcs[x] = {c \in K : x \in MergedSet(gd, c)}
    BY <1>1, <1>2, ReachIs DEF MergedSet
  <1>4. PICK g2 : g2 = Plus(gd, b, data)
    OBVIOUS
  <1>5. DOMAIN g2 = K \cup {b} /\ g2[b] = data /\ \A x \in K : x # b => g2[x] = gd[x]
    BY <1>1, <1>4 DEF Plus
  <1>6. PICK M : M = ToSet(Merged(data))
    OBVIOUS
  <1>7. b \notin K /\ None \notin K /\ data.selected_parent \in K \cup {None} /\ M \subseteq K
        /\ \A c \in K : MergedSet(gd, c) \subseteq K
    BY <1>1, <1>6 DEF Indexable
  <1>8. MergedSet(g2, b) = M /\ \A c \in K : MergedSet(g2, c) = MergedSet(gd, c)
    BY <1>5, <1>6, <1>7 DEF MergedSet
  <1>9. PICK sp : sp = data.selected_parent
    OBVIOUS
  <1>10. PICK tr : tr = [x \in K \cup {b} |-> IF x # b THEN r.tree[x] ELSE IF sp \in K THEN sp ELSE None]
    OBVIOUS
  <1>11. PICK fc : fc = [x \in K \cup {b} |-> IF x = b THEN {} ELSE IF x \in M THEN r.fcs[x] \cup {b} ELSE r.fcs[x]]
    OBVIOUS
  <1>12. IndexBlock(r, b, data) = [tree |-> tr, fcs |-> fc]
    BY <1>3, <1>6, <1>9, <1>10, <1>11 DEF IndexBlock
  <1>13. tr = TreeOf(g2)
    <2>1. \A x \in K \cup {b} : tr[x] = g2[x].selected_parent
      BY <1>3, <1>5, <1>7, <1>9, <1>10
    <2> QED BY <1>5, <1>10, <2>1 DEF TreeOf
  <1>14. fc = CoverOf(g2)
    <2>1. ASSUME NEW x \in K \cup {b} PROVE fc[x] = {c \in K \cup {b} : x \in MergedSet(g2, c)}
      <3>1. CASE x = b
        <4>1. \A c \in K \cup {b} : x \notin MergedSet(g2, c)
          BY <1>7, <1>8, <3>1
        <4> QED BY <1>11, <3>1, <4>1
      <3>2. CASE x # b /\ x \in M
        <4>1. fc[x] = r.fcs[x] \cup {b} /\ x \in K
          BY <1>11, <3>2
        <4> QED BY <1>3, <1>8, <3>2, <4>1
      <3>3. CASE x # b /\ x \notin M
        <4>1. fc[x] = r.fcs[x] /\ x \in K
          BY <1>11, <3>3
        <4> QED BY <1>3, <1>8, <3>3, <4>1
      <3> QED BY <3>1, <3>2, <3>3
    <2> QED BY <1>5, <1>11, <2>1 DEF CoverOf, MergedSet
  <1> QED BY <1>2, <1>4, <1>12, <1>13, <1>14 DEF ReachOf

(***************************************************************************)
(* `is_ancestor` by such an index: a block's past is its tree ancestors    *)
(* and what the blocks of its selected chain merge, and nothing else.      *)
(***************************************************************************)
CoveredPast(gd, b) == (On(gd, b) \ {b}) \cup {a \in DOMAIN gd : \E c \in On(gd, b) : a \in MergedSet(gd, c)}

LEMMA PastIsCovered ==
    ASSUME NEW dag, NEW gd, WellFormed(dag, gd), NEW P, P = PastMap(dag)
    PROVE  \A b \in DOMAIN dag : P[b] = CoveredPast(gd, b)
  <1>1. PICK K : K = DOMAIN dag
    OBVIOUS
  <1>2. Shape(dag, gd) /\ DOMAIN gd = K
    BY <1>1 DEF WellFormed, Shape
  <1>3. PICK rank : rank = [b \in K |-> gd[b].blue_score]
    OBVIOUS
  <1>4. PICK D : D = [b \in K |-> IF b = GENESIS THEN {} ELSE {gd[b].selected_parent}]
    OBVIOUS
  <1>5. PICK Good : Good = {b \in K : P[b] = CoveredPast(gd, b)}
    OBVIOUS
  <1>6. \A b \in K : rank[b] \in Nat
    BY <1>1, <1>2, <1>3 DEF Shape
  <1>7. \A b \in K : \A x \in D[b] : x \in K /\ rank[x] < rank[b]
    BY <1>1, <1>2, <1>3, <1>4, SelectedParentIs
  <1>8. ASSUME NEW b \in K, D[b] \subseteq Good PROVE b \in Good
    <2>1. CASE b = GENESIS
      <3>1. P[b] = {}
        <4>1. dag[b].parents = {} /\ P[b] = Met(dag, P, b)
          BY <1>1, <1>2, <2>1, PastIs DEF PastFacts, Shape
        <4> QED BY <4>1 DEF Met
      <3>2. On(gd, b) = {b} /\ MergedSet(gd, b) = {}
        BY <1>2, <2>1, OnIs, MergedOfGenesis DEF Shape
      <3> QED BY <1>5, <3>1, <3>2 DEF CoveredPast
    <2>2. CASE b # GENESIS
      <3>1. PICK sp, ms : MergeFacts(dag, gd, P, b, sp, ms)
        BY <1>1, <2>2, MergeIs
      <3>2. /\ sp = gd[b].selected_parent /\ sp \in K /\ sp \in P[b] /\ P[sp] \subseteq P[b]
            /\ ms = P[b] \ ({sp} \cup P[sp]) /\ ms \subseteq K /\ Once(Merged(gd[b]), ms)
        BY <1>1, <3>1 DEF MergeFacts
      <3>3. MergedSet(gd, b) = ms
        BY <3>2, OnceToSet DEF MergedSet
      <3>4. P[b] = {sp} \cup P[sp] \cup ms
        BY <3>2
      <3>5. P[sp] = CoveredPast(gd, sp)
        BY <1>4, <1>5, <1>8, <2>2, <3>2
      <3>6. On(gd, b) = On(gd, sp) \cup {b}
        BY <1>1, <1>2, <2>2, <3>2, OnIs
      <3>7. sp \in On(gd, sp) /\ b \notin On(gd, sp)
        <4>1. ChainTree(dag, gd, sp)
          BY <1>1, <1>2, <3>2, ChainsFormTree
        <4>2. sp \in On(gd, sp) /\ \A x \in On(gd, sp) : x = sp \/ gd[x].blue_score < gd[sp].blue_score
          BY <4>1 DEF ChainTree, BelowOnChain
        <4>3. gd[sp].blue_score < gd[b].blue_score /\ gd[sp].blue_score \in Nat /\ gd[b].blue_score \in Nat
          BY <1>1, <1>2, <2>2, <3>2, SelectedParentIs DEF Shape
        <4> QED BY <4>2, <4>3
      <3>8. CoveredPast(gd, b) = {sp} \cup CoveredPast(gd, sp) \cup ms
        <4>1. On(gd, b) \ {b} = {sp} \cup (On(gd, sp) \ {sp})
          BY <3>6, <3>7
        <4>2. \A a : (\E c \in On(gd, b) : a \in MergedSet(gd, c))
                       <=> ((\E c \in On(gd, sp) : a \in MergedSet(gd, c)) \/ a \in ms)
          BY <3>3, <3>6
        <4> QED BY <1>2, <3>2, <4>1, <4>2 DEF CoveredPast
      <3> QED BY <1>5, <3>4, <3>5, <3>8
    <2> QED BY <2>1, <2>2
  <1>9. \A b \in K : D[b] \subseteq Good => b \in Good
    BY <1>8
  <1>10. \A b \in K : b \in Good
    BY <1>6, <1>7, <1>9, RankInduction
  <1> QED BY <1>1, <1>5, <1>10

LEMMA IndexedPastIs ==
    ASSUME NEW s, WellFormed(s.dag, s.gd), s.reach = ReachOf(s.gd)
    PROVE  IndexedPast(s) = PastMap(s.dag)
  <1>1. PICK dag, gd, r, P : dag = s.dag /\ gd = s.gd /\ r = s.reach /\ P = PastMap(dag)
    OBVIOUS
  <1>2. WellFormed(dag, gd) /\ Shape(dag, gd) /\ r = ReachOf(gd)
    BY <1>1 DEF WellFormed
  <1>3. PICK K : K = DOMAIN dag
    OBVIOUS
  <1>4. PICK F : F = [b \in DOMAIN P |->
                        IF b \in DOMAIN r.tree THEN CoveredBy(r, b) \cup (P[b] \ DOMAIN r.tree) ELSE P[b]]
    OBVIOUS
  <1>5. IndexedPast(s) = F
    BY <1>1, <1>4 DEF IndexedPast
  <1>6. DOMAIN gd = K /\ DOMAIN r.tree = K
    BY <1>2, <1>3, ReachIs DEF Shape
  <1>7. P = [b \in DOMAIN P |-> P[b]] /\ DOMAIN P = K
    <2>1. PICK f : IsPast(dag, f)
      BY <1>2, PastExists
    <2>2. IsPast(dag, P)
      BY <1>1, <2>1, PastMapIs
    <2>3. DOMAIN dag \cup UNION {dag[x].parents : x \in DOMAIN dag} = K
      BY <1>2, <1>3, ShapeParents
    <2>4. P = [b \in K |-> IF b \notin DOMAIN dag THEN {} ELSE Met(dag, P, b)]
      BY <2>2, <2>3 DEF IsPast
    <2>5. DOMAIN P = K
      BY <2>4
    <2> QED BY <2>4, <2>5
  <1>8. ASSUME NEW b \in K PROVE CoveredBy(r, b) = P[b] /\ P[b] \subseteq K
    <2>1. TreeAncestors(r, b) = On(gd, b)
      <3>1. r.tree = TreeOf(gd)
        BY <1>2, ReachIs
      <3> QED BY <1>2, <1>3, <3>1, TreeIsChain
    <2>2. On(gd, b) \subseteq K
      <3>1. ChainTree(dag, gd, b)
        BY <1>2, <1>3, ChainsFormTree
      <3> QED BY <1>3, <3>1 DEF ChainTree, BelowOnChain
    <2>3. \A a \in K : r.fcs[a] \cap On(gd, b) # {} <=> \E c \in On(gd, b) : a \in MergedSet(gd, c)
      <3>1. \A a \in K : r.fcs[a] = {c \in K : a \in MergedSet(gd, c)}
        BY <1>2, <1>6, ReachIs DEF MergedSet
      <3> QED BY <2>2, <3>1
    <2>4. {a \in K : r.fcs[a] \cap On(gd, b) # {}} = {a \in K : \E c \in On(gd, b) : a \in MergedSet(gd, c)}
      BY <2>3
    <2>5. CoveredBy(r, b) = CoveredPast(gd, b)
      BY <1>6, <2>1, <2>4 DEF CoveredBy, CoveredPast
    <2>6. P[b] = CoveredPast(gd, b)
      BY <1>1, <1>2, <1>3, PastIsCovered
    <2>7. CoveredPast(gd, b) \subseteq K
      BY <1>6, <2>2 DEF CoveredPast
    <2> QED BY <2>5, <2>6, <2>7
  <1>9. \A b \in DOMAIN P : F[b] = P[b]
    BY <1>4, <1>6, <1>7, <1>8
  <1>10. F = P
    BY <1>4, <1>7, <1>9
  <1> QED BY <1>1, <1>5, <1>10

LEMMA MergedSetHeld ==
    ASSUME NEW dag, NEW gd, WellFormed(dag, gd)
    PROVE  \A c \in DOMAIN gd : MergedSet(gd, c) \subseteq PastMap(dag)[c] /\ MergedSet(gd, c) \subseteq DOMAIN gd
  <1> SUFFICES ASSUME NEW c \in DOMAIN gd
               PROVE  MergedSet(gd, c) \subseteq PastMap(dag)[c] /\ MergedSet(gd, c) \subseteq DOMAIN gd
    OBVIOUS
  <1>1. Shape(dag, gd) /\ DOMAIN gd = DOMAIN dag
    BY DEF WellFormed, Shape
  <1>2. CASE c = GENESIS
    BY <1>1, <1>2, MergedOfGenesis DEF Shape
  <1>3. CASE c # GENESIS
    <2>1. PICK P : P = PastMap(dag)
      OBVIOUS
    <2>2. PICK sp, ms : MergeFacts(dag, gd, P, c, sp, ms)
      BY <1>1, <1>3, <2>1, MergeIs
    <2>3. ms = P[c] \ ({sp} \cup P[sp]) /\ ms \subseteq DOMAIN dag /\ Once(Merged(gd[c]), ms)
      BY <2>2 DEF MergeFacts
    <2> QED BY <1>1, <2>1, <2>3, OnceToSet DEF MergedSet
  <1> QED BY <1>2, <1>3

LEMMA DataHeld ==
    ASSUME NEW dag, NEW gd, Shape(dag, gd), NEW Q, Q \subseteq DOMAIN dag, Q # {},
           NEW data, data = DataByPast(dag, gd, Q)
    PROVE  data.selected_parent \in DOMAIN dag /\ ToSet(Merged(data)) \subseteq DOMAIN dag
  <1>1. PICK P : P = PastMap(dag)
    OBVIOUS
  <1>2. PICK sp, ms : /\ DataFacts(P, gd, Q, sp, ms, data)
                      /\ ms \subseteq DOMAIN dag /\ IsFiniteSet(ms) /\ sp \in DOMAIN dag
    BY <1>1, DataIs
  <1>3. data.selected_parent = sp
        /\ Colored(Places(P, ms), ms, sp, Cardinality(ms), data.mergeset_blues, data.mergeset_reds)
    BY <1>2 DEF DataFacts
  <1>4. \A h \in ms : h \in Nat
    BY <1>2, ShapeScored DEF Scored
  <1>5. Once(Merged(data), ms)
    BY <1>2, <1>3, <1>4, MergedOnce
  <1>7. ToSet(Merged(data)) = ms
    BY <1>5, OnceToSet
  <1> QED BY <1>2, <1>3, <1>7

LEMMA GhostdagOfIs ==
    ASSUME NEW s, WellFormed(s.dag, s.gd), s.reach = ReachOf(s.gd), NEW parents
    PROVE  GhostdagOf(s, parents) = DataByPast(s.dag, s.gd, parents)
  BY IndexedPastIs DEF GhostdagOf, DataByPast

(***************************************************************************)
(* The finality point of a selected chain.                                 *)
(***************************************************************************)
Buried(gd, t) == {x \in On(gd, t) : gd[x].blue_score <= gd[t].blue_score - FINALITY_DEPTH}

Deep(gd, t) == gd[t].blue_score > FINALITY_DEPTH

PointOf(gd, t) == IF Deep(gd, t) THEN Highest(gd, Buried(gd, t)) ELSE None

LEMMA PointIs ==
    ASSUME NEW dag, NEW gd, Shape(dag, gd), NEW s, s.gd = gd, NEW t \in DOMAIN dag, t = SelectedTip(s)
    PROVE  FinalityPoint(s) = PointOf(gd, t)
  <1>1. gd[t].blue_score \in Nat /\ FINALITY_DEPTH \in Nat
    BY ChainConstants DEF Shape
  <1>2. (gd[t].blue_score <= FINALITY_DEPTH) <=> ~Deep(gd, t)
    BY <1>1 DEF Deep
  <1> QED BY <1>2 DEF FinalityPoint, ChainPointBelow, TipScore, PointOf, Buried, On

LEMMA PointFacts ==
    ASSUME NEW dag, NEW gd, Shape(dag, gd), NEW t \in DOMAIN dag, Deep(gd, t), NEW f, f = PointOf(gd, t)
    PROVE  /\ IsHighest(gd, Buried(gd, t), f) /\ f \in On(gd, t) /\ f \in DOMAIN dag /\ f # None
           /\ \A x \in Buried(gd, t) : gd[x].blue_score <= gd[f].blue_score
  <1>1. PICK B : B = Buried(gd, t)
    OBVIOUS
  <1>2. ChainTree(dag, gd, t)
    BY ChainsFormTree
  <1>3. On(gd, t) \subseteq DOMAIN dag /\ GENESIS \in On(gd, t)
    BY <1>2 DEF ChainTree, BelowOnChain
  <1>4. gd[GENESIS].blue_score = 0 /\ gd[t].blue_score \in Nat /\ FINALITY_DEPTH \in Nat
    BY ChainConstants DEF Shape, GhostdagGenesis
  <1>5. GENESIS \in B /\ B \subseteq On(gd, t)
    BY <1>1, <1>3, <1>4 DEF Buried, Deep
  <1>6. Scored(gd, B) /\ IsFiniteSet(B) /\ B # {}
    BY <1>3, <1>5, ShapeScored
  <1>7. f = Highest(gd, B)
    BY <1>1 DEF PointOf
  <1>8. IsHighest(gd, B, f)
    BY <1>6, <1>7, HighestIs
  <1>9. f \in B /\ \A x \in B : HigherBlock(gd, f, x)
    BY <1>8 DEF IsHighest
  <1>10. \A x \in B : gd[x].blue_score <= gd[f].blue_score
    BY <1>6, <1>9 DEF HigherBlock, Scored
  <1>11. f \in DOMAIN dag /\ f # None
    <2>1. f \in DOMAIN dag
      BY <1>3, <1>5, <1>9
    <2> QED BY <2>1, BlocksAreNat DEF Shape
  <1> QED BY <1>1, <1>5, <1>8, <1>9, <1>10, <1>11

(***************************************************************************)
(* The seven fields of a node, and the steps of `add_block` on them.       *)
(***************************************************************************)
Fields(dag, gd, tp, base, front, ledger, rc) ==
    [dag |-> dag, gd |-> gd, tips |-> tp, base |-> base, base_frontier |-> front, ledger |-> ledger, reach |-> rc]

IsChainState(s) == s = Fields(s.dag, s.gd, s.tips, s.base, s.base_frontier, s.ledger, s.reach)

LEMMA FourChanged ==
    ASSUME NEW s, IsChainState(s), NEW d, NEW g, NEW t, NEW p
    PROVE  [s EXCEPT !.dag = d, !.gd = g, !.tips = p, !.reach = t]
              = Fields(d, g, p, s.base, s.base_frontier, s.ledger, t)
  <1>1. PICK k1 : k1 = [s EXCEPT !.dag = d]
    OBVIOUS
  <1>2. PICK k2 : k2 = [k1 EXCEPT !.gd = g]
    OBVIOUS
  <1>3. PICK k3 : k3 = [k2 EXCEPT !.tips = p]
    OBVIOUS
  <1>4. [s EXCEPT !.dag = d, !.gd = g, !.tips = p, !.reach = t] = [k3 EXCEPT !.reach = t]
    BY <1>1, <1>2, <1>3, Zenon
  <1>5. PICK a1, a2, a3, a4, a5, a6, a7 : s = Fields(a1, a2, a3, a4, a5, a6, a7)
    BY DEF IsChainState
  <1>6. s.base = a4 /\ s.base_frontier = a5 /\ s.ledger = a6
    BY <1>5 DEF Fields
  <1>7. k1 = Fields(d, a2, a3, a4, a5, a6, a7)
    BY <1>1, <1>5 DEF Fields
  <1>8. k2 = Fields(d, g, a3, a4, a5, a6, a7)
    BY <1>2, <1>7 DEF Fields
  <1>9. k3 = Fields(d, g, p, a4, a5, a6, a7)
    BY <1>3, <1>8 DEF Fields
  <1>10. [k3 EXCEPT !.reach = t] = Fields(d, g, p, a4, a5, a6, t)
    BY <1>9 DEF Fields
  <1> QED BY <1>4, <1>6, <1>10

LEMMA InsertIs ==
    ASSUME NEW s, IsChainState(s), NEW b, NEW blk,
           NEW data, data = GhostdagOf(s, blk.parents),
           NEW held, held = [parents |-> blk.parents, body |-> blk.body, full |-> TRUE]
    PROVE  InsertBlock(s, b, blk) =
              Fields(Plus(s.dag, b, held), Plus(s.gd, b, data), NewTips(s.tips, b, blk),
                     s.base, s.base_frontier, s.ledger, IndexBlock(s.reach, b, data))
  <1>1. PICK d : d = Plus(s.dag, b, held)
    OBVIOUS
  <1>2. PICK g : g = Plus(s.gd, b, data)
    OBVIOUS
  <1>3. PICK t : t = IndexBlock(s.reach, b, data)
    OBVIOUS
  <1>4. PICK p : p = NewTips(s.tips, b, blk)
    OBVIOUS
  <1>5. PICK r : r = [s EXCEPT !.dag = d, !.gd = g, !.tips = p, !.reach = t]
    OBVIOUS
  <1>6. InsertBlock(s, b, blk) = r
    BY <1>1, <1>2, <1>3, <1>4, <1>5, Zenon DEF InsertBlock, Plus
  <1>7. r = Fields(d, g, p, s.base, s.base_frontier, s.ledger, t)
    <2>1. \A d_, g_, t_, p_ : [s EXCEPT !.dag = d_, !.gd = g_, !.tips = p_, !.reach = t_]
              = Fields(d_, g_, p_, s.base, s.base_frontier, s.ledger, t_)
      BY FourChanged, Zenon
    <2> QED BY <1>5, <2>1, ZenonT(60)
  <1> QED BY <1>1, <1>2, <1>3, <1>4, <1>6, <1>7

LEMMA TwoChanged ==
    ASSUME NEW s, IsChainState(s), NEW l, NEW f
    PROVE  [s EXCEPT !.base = l, !.base_frontier = f] =
              Fields(s.dag, s.gd, s.tips, l, f, s.ledger, s.reach)
  <1>1. PICK k1 : k1 = [s EXCEPT !.base = l]
    OBVIOUS
  <1>4. [s EXCEPT !.base = l, !.base_frontier = f] = [k1 EXCEPT !.base_frontier = f]
    BY <1>1, Zenon
  <1>5. PICK a1, a2, a3, a4, a5, a6, a7 : s = Fields(a1, a2, a3, a4, a5, a6, a7)
    BY DEF IsChainState
  <1>6. s.dag = a1 /\ s.gd = a2 /\ s.tips = a3 /\ s.ledger = a6 /\ s.reach = a7
    BY <1>5 DEF Fields
  <1>7. k1 = Fields(a1, a2, a3, l, a5, a6, a7)
    BY <1>1, <1>5 DEF Fields
  <1>8. [k1 EXCEPT !.base_frontier = f] = Fields(a1, a2, a3, l, f, a6, a7)
    BY <1>7 DEF Fields
  <1> QED BY <1>4, <1>6, <1>8

LEMMA OneChanged ==
    ASSUME NEW s, IsChainState(s), NEW l
    PROVE  /\ [s EXCEPT !.ledger = l] = Fields(s.dag, s.gd, s.tips, s.base, s.base_frontier, l, s.reach)
           /\ [s EXCEPT !.reach = l] = Fields(s.dag, s.gd, s.tips, s.base, s.base_frontier, s.ledger, l)
  <1>5. PICK a1, a2, a3, a4, a5, a6, a7 : s = Fields(a1, a2, a3, a4, a5, a6, a7)
    BY DEF IsChainState
  <1>6. s.dag = a1 /\ s.gd = a2 /\ s.tips = a3 /\ s.base = a4 /\ s.base_frontier = a5 /\ s.ledger = a6 /\ s.reach = a7
    BY <1>5 DEF Fields
  <1>7. [s EXCEPT !.ledger = l] = Fields(a1, a2, a3, a4, a5, l, a7)
    BY <1>5 DEF Fields
  <1>8. [s EXCEPT !.reach = l] = Fields(a1, a2, a3, a4, a5, a6, l)
    BY <1>5 DEF Fields
  <1> QED BY <1>6, <1>7, <1>8

LEMMA FieldsAre ==
    ASSUME NEW a1, NEW a2, NEW a3, NEW a4, NEW a5, NEW a6, NEW a7, NEW s, s = Fields(a1, a2, a3, a4, a5, a6, a7)
    PROVE  /\ s.dag = a1 /\ s.gd = a2 /\ s.tips = a3 /\ s.base = a4 /\ s.base_frontier = a5
           /\ s.ledger = a6 /\ s.reach = a7 /\ IsChainState(s)
  <1>1. /\ s.dag = a1 /\ s.gd = a2 /\ s.tips = a3 /\ s.base = a4 /\ s.base_frontier = a5
        /\ s.ledger = a6 /\ s.reach = a7
    BY DEF Fields
  <1> QED BY <1>1 DEF IsChainState

LEMMA AdvanceIs ==
    ASSUME NEW s, IsChainState(s), NEW f, f = FinalityPoint(s), NEW o, o = CanonicalOrderAt(s.gd, SelectedTip(s)),
           NEW i, i = IndexOf(o, f), NEW k, k = IndexOf(o, s.base_frontier)
    PROVE  AdvanceFinalizedBase(s) =
              IF f = None \/ f = s.base_frontier \/ i = 0 \/ k + 1 > i + 1 THEN s
              ELSE Fields(s.dag, s.gd, s.tips, EffectAll(s.dag, s.base, SubSeq(o, k + 1, i)), f, s.ledger, s.reach)
  <1>1. PICK l : l = Replay(s, s.base, SubSeq(CanonicalOrderAt(s.gd, SelectedTip(s)),
                                              IndexOf(CanonicalOrderAt(s.gd, SelectedTip(s)), s.base_frontier) + 1,
                                              IndexOf(CanonicalOrderAt(s.gd, SelectedTip(s)), FinalityPoint(s))))
    OBVIOUS
  <1>2. l = EffectAll(s.dag, s.base, SubSeq(o, k + 1, i))
    BY <1>1, ReplayIsFold
  <1>3. PICK r : r = [s EXCEPT !.base = l, !.base_frontier = FinalityPoint(s)]
    OBVIOUS
  <1>4. AdvanceFinalizedBase(s) =
          IF \/ FinalityPoint(s) = None
             \/ FinalityPoint(s) = s.base_frontier
             \/ IndexOf(CanonicalOrderAt(s.gd, SelectedTip(s)), FinalityPoint(s)) = 0
             \/ IndexOf(CanonicalOrderAt(s.gd, SelectedTip(s)), s.base_frontier) + 1
                  > IndexOf(CanonicalOrderAt(s.gd, SelectedTip(s)), FinalityPoint(s)) + 1
          THEN s ELSE r
    BY <1>1, <1>3, Zenon DEF AdvanceFinalizedBase, IndexOf
  <1>5. r = Fields(s.dag, s.gd, s.tips, l, f, s.ledger, s.reach)
    BY <1>3, TwoChanged
  <1> QED BY <1>2, <1>4, <1>5

LEMMA RecomputeIs ==
    ASSUME NEW s, IsChainState(s)
    PROVE  RecomputeVirtualState(s) =
              Fields(s.dag, s.gd, s.tips, s.base, s.base_frontier, VirtualStateAt(s, SelectedTip(s)), s.reach)
  BY OneChanged DEF RecomputeVirtualState

IsTxsOf(l, q, G) ==
    /\ G[0] = l /\ G[Len(q)] = ApplyAll(l, q)
    /\ \A i \in 1..Len(q) : G[i] = ApplyTx(G[i - 1], q[i])

LEMMA TxsRun ==
    ASSUME NEW l \in Ledgers, NEW q \in Seq(Tx)
    PROVE  \E G : IsTxsOf(l, q, G)
  <1>1. PICK n : n = Len(q)
    OBVIOUS
  <1>2. n \in Nat /\ DOMAIN q = 1..n /\ IndexedIn(q, n, Tx)
    BY <1>1, SeqIndexed
  <1>3. PICK A : A = Ledgers
    OBVIOUS
  <1>4. \A a \in A : \A v \in Tx : ApplyTx(a, v) \in A
    BY <1>3, TxTyped
  <1>5. PICK G : IsTxRun(A, l, q, n, G) /\ G[n] = ApplyAll(l, q)
    <2>1. l \in A
      BY <1>3
    <2>2. n \in Nat /\ DOMAIN q = 1..n
      BY <1>2
    <2>3. IndexedIn(q, n, Tx)
      BY <1>2
    <2> QED BY <1>4, <2>1, <2>2, <2>3, TxRuns
  <1> QED BY <1>1, <1>5 DEF IsTxsOf, IsTxRun

LEMMA PrefixRun ==
    ASSUME NEW l \in Ledgers, NEW q \in Seq(Tx), NEW G, IsTxsOf(l, q, G), NEW m \in Nat, m <= Len(q)
    PROVE  G[m] = ApplyAll(l, SubSeq(q, 1, m))
  <1>1. PICK r : r = SubSeq(q, 1, m)
    OBVIOUS
  <1>2. r \in Seq(Tx) /\ Len(r) = m /\ \A i \in 1..m : r[i] = q[i]
    <2>1. PICK x : x = 0
      OBVIOUS
    <2>2. x \in Nat /\ x + m <= Len(q) /\ x + 1 = 1 /\ x + m = m /\ \A i \in 1..m : x + i = i
      BY <2>1
    <2>3. /\ SubSeq(q, x + 1, x + m) \in Seq(Tx) /\ Len(SubSeq(q, x + 1, x + m)) = m
          /\ \A i \in 1..m : SubSeq(q, x + 1, x + m)[i] = q[x + i]
      BY <2>2, PartIs
    <2> QED BY <1>1, <2>2, <2>3
  <1>3. PICK H : IsTxsOf(l, r, H)
    BY <1>2, TxsRun
  <1>4. InStep(G, H, m)
    <2>1. Len(q) \in Nat
      BY LenProperties
    <2>2. \A i \in 1..m : i \in 1..Len(q)
      BY <2>1
    <2>3. \A i \in 1..m : G[i] = ApplyTx(G[i - 1], q[i]) /\ H[i] = ApplyTx(H[i - 1], q[i])
      BY <1>2, <1>3, <2>2 DEF IsTxsOf
    <2> QED BY <1>3, <2>3 DEF InStep, IsTxsOf
  <1>5. G[m] = H[m]
    <2>1. m \in 0..m
      OBVIOUS
    <2> QED BY <1>4, <2>1, RunsAgree
  <1> QED BY <1>1, <1>2, <1>3, <1>5 DEF IsTxsOf

(***************************************************************************)
(* A body that applies strictly is replayed without skipping anything.     *)
(***************************************************************************)
LEMMA StrictIsSkip ==
    ASSUME NEW l \in Ledgers, NEW q \in Seq(Tx), BodyApplies(l, q)
    PROVE  SkipAll(l, q) = ApplyAll(l, q)
  <1>1. PICK n : n = Len(q)
    OBVIOUS
  <1>2. n \in Nat /\ DOMAIN q = 1..n /\ IndexedIn(q, n, Tx)
    BY <1>1, SeqIndexed
  <1>3. PICK A : A = Ledgers
    OBVIOUS
  <1>4. \A a \in A : \A v \in Tx : ApplyOrSkip(a, v) \in A
    BY <1>3, TxTyped
  <1>5. PICK S : IsSkipRun(A, l, q, n, S) /\ S[n] = SkipAll(l, q)
    <2>1. l \in A
      BY <1>3
    <2>2. n \in Nat /\ DOMAIN q = 1..n
      BY <1>2
    <2>3. IndexedIn(q, n, Tx)
      BY <1>2
    <2> QED BY <1>4, <2>1, <2>2, <2>3, SkipRuns
  <1>6. PICK G : IsTxsOf(l, q, G)
    BY TxsRun
  <1>7. ASSUME NEW i \in 1..n PROVE G[i] = ApplyOrSkip(G[i - 1], q[i])
    <2>1. PICK m : m = i - 1
      OBVIOUS
    <2>2. m \in Nat /\ m <= Len(q)
      BY <1>1, <1>2, <2>1
    <2>3. G[m] = ApplyAll(l, SubSeq(q, 1, m))
      BY <1>6, <2>2, PrefixRun
    <2>4. Applies(FoldLeft(ApplyTx, l, SubSeq(q, 1, i - 1)), q[i])
      BY <1>1 DEF BodyApplies
    <2>5. FoldLeft(ApplyTx, l, SubSeq(q, 1, i - 1)) = ApplyAll(l, SubSeq(q, 1, i - 1))
      BY BodyIsFold
    <2>6. Applies(G[i - 1], q[i])
      BY <2>1, <2>3, <2>4, <2>5
    <2>7. G[i] = ApplyTx(G[i - 1], q[i])
      BY <1>1, <1>6 DEF IsTxsOf
    <2> QED BY <2>6, <2>7 DEF ApplyOrSkip
  <1>8. InStep(S, G, n)
    BY <1>5, <1>6, <1>7 DEF InStep, IsTxsOf, IsSkipRun
  <1>9. S[n] = G[n]
    <2>1. n \in 0..n
      BY <1>2
    <2> QED BY <1>2, <1>8, <2>1, RunsAgree
  <1> QED BY <1>1, <1>5, <1>6, <1>9 DEF IsTxsOf

LEMMA FullReplaySame ==
    ASSUME NEW s, NEW u, s.dag = u.dag, s.gd = u.gd, NEW b
    PROVE  FullReplay(s, b) = FullReplay(u, b)
  BY FullReplayIs

LEMMA PointSame ==
    ASSUME NEW s, NEW u, s.tips = u.tips, s.gd = u.gd
    PROVE  SelectedTip(s) = SelectedTip(u) /\ FinalityPoint(s) = FinalityPoint(u)
  <1>1. SelectedTip(s) = SelectedTip(u)
    BY DEF SelectedTip
  <1>2. TipScore(s) = TipScore(u)
    BY <1>1 DEF TipScore
  <1> QED BY <1>1, <1>2 DEF FinalityPoint, ChainPointBelow

(***************************************************************************)
(* What holds of a node that prunes nothing, between two handlers.         *)
(***************************************************************************)
Settled(s) ==
    /\ IsChainState(s)
    /\ WellFormed(s.dag, s.gd)
    /\ Bodied(s.dag)
    /\ s.reach = ReachOf(s.gd)
    /\ s.tips = Childless(s.dag)
    /\ s.base_frontier = FinalityPoint(s)
    /\ s.base = IF s.base_frontier = None THEN SeedLedger ELSE FullReplay(s, s.base_frontier)
    /\ s.ledger = FullReplay(s, SelectedTip(s))

HeldAs(blk) == [parents |-> blk.parents, body |-> blk.body, full |-> TRUE]

DataAs(s, blk) == DataByPast(s.dag, s.gd, blk.parents)

LEMMA DataAsIs == ASSUME NEW s, Settled(s), NEW blk PROVE GhostdagOf(s, blk.parents) = DataAs(s, blk)
  BY GhostdagOfIs DEF Settled, DataAs

LEMMA InsertFits ==
    ASSUME NEW s, Settled(s), NEW b \in BlockId, NEW blk, Admissible(s, b, blk)
    PROVE  Fits(s.dag, s.gd, b, HeldAs(blk), DataAs(s, blk))
  BY DataAsIs DEF Admissible, Fits, HeldAs, DataAs

Inserted(s, b, blk, s1) ==
    /\ IsChainState(s1)
    /\ s1.dag = Plus(s.dag, b, HeldAs(blk)) /\ s1.gd = Plus(s.gd, b, DataAs(s, blk))
    /\ WellFormed(s1.dag, s1.gd) /\ Bodied(s1.dag)
    /\ Agree(s.dag, s.gd, s1.dag, s1.gd, DOMAIN s.dag)
    /\ s1.reach = ReachOf(s1.gd)
    /\ s1.tips = Childless(s1.dag)
    /\ s1.base_frontier = s.base_frontier /\ s1.base = s.base /\ s1.ledger = s.ledger

LEMMA InsertFacts ==
    ASSUME NEW s, Settled(s), NEW b \in BlockId, NEW blk, blk.body \in Seq(Tx), Admissible(s, b, blk)
    PROVE  Inserted(s, b, blk, InsertBlock(s, b, blk))
  <1>1. PICK s1 : s1 = InsertBlock(s, b, blk)
    OBVIOUS
  <1>2. PICK data : data = DataAs(s, blk)
    OBVIOUS
  <1>3. PICK held : held = HeldAs(blk)
    OBVIOUS
  <1>4. PICK dag : dag = s.dag
    OBVIOUS
  <1>5. PICK gd : gd = s.gd
    OBVIOUS
  <1>6. s1 = Fields(Plus(dag, b, held), Plus(gd, b, data), NewTips(s.tips, b, blk),
                    s.base, s.base_frontier, s.ledger, IndexBlock(s.reach, b, data))
    <2>1. IsChainState(s)
      BY DEF Settled
    <2>2. data = GhostdagOf(s, blk.parents)
      BY <1>2, DataAsIs
    <2> QED BY <1>1, <1>3, <1>4, <1>5, <2>1, <2>2, InsertIs DEF HeldAs
  <1>7. /\ s1.dag = Plus(dag, b, held) /\ s1.gd = Plus(gd, b, data) /\ s1.tips = NewTips(s.tips, b, blk)
        /\ s1.base = s.base /\ s1.base_frontier = s.base_frontier /\ s1.ledger = s.ledger
        /\ s1.reach = IndexBlock(s.reach, b, data) /\ IsChainState(s1)
    BY <1>6, FieldsAre
  <1>8. WellFormed(dag, gd) /\ Shape(dag, gd) /\ Fits(dag, gd, b, held, data)
    BY <1>2, <1>3, <1>4, <1>5, InsertFits DEF Settled, WellFormed
  <1>9. WellFormed(s1.dag, s1.gd) /\ Agree(dag, gd, s1.dag, s1.gd, DOMAIN dag)
    BY <1>7, <1>8, AddedWellFormed
  <1>10. Bodied(s1.dag)
    <2>1. \A x \in DOMAIN dag : x \in AllBlocks /\ dag[x].body \in Seq(Tx)
      BY <1>4 DEF Settled, Bodied
    <2>2. held.body \in Seq(Tx) /\ b \in AllBlocks
      BY <1>3 DEF HeldAs, AllBlocks
    <2> QED BY <1>7, <2>1, <2>2 DEF Bodied, Plus
  <1>11. b \notin DOMAIN dag /\ DOMAIN gd = DOMAIN dag /\ held.parents \subseteq DOMAIN dag /\ held.parents # {}
         /\ held.parents = blk.parents
    BY <1>3, <1>8 DEF Shape, Fits, HeldAs
  <1>12. s1.tips = Childless(s1.dag)
    <2>1. Childless(Plus(dag, b, held)) = (Childless(dag) \ held.parents) \cup {b}
      BY <1>8, <1>11, TipsAdded
    <2>2. s.tips = Childless(dag)
      BY <1>4 DEF Settled
    <2> QED BY <1>7, <1>11, <2>1, <2>2 DEF NewTips
  <1>13. s1.reach = ReachOf(s1.gd)
    <2>1. PICK Q : Q = held.parents
      OBVIOUS
    <2>2. Q \subseteq DOMAIN dag /\ Q # {} /\ data = DataByPast(dag, gd, Q)
      BY <1>8, <1>11, <2>1 DEF Fits
    <2>3. data.selected_parent \in DOMAIN gd /\ ToSet(Merged(data)) \subseteq DOMAIN gd
      BY <1>8, <1>11, <2>2, DataHeld
    <2>4. \A c \in DOMAIN gd : MergedSet(gd, c) \subseteq DOMAIN gd
      BY <1>8, <1>11, MergedSetHeld
    <2>5. None \notin DOMAIN gd
      BY <1>8, <1>11, BlocksAreNat DEF Shape
    <2>6. Indexable(gd, b, data)
      BY <1>11, <2>3, <2>4, <2>5 DEF Indexable
    <2>7. s.reach = ReachOf(gd)
      BY <1>5 DEF Settled
    <2> QED BY <1>7, <2>6, <2>7, IndexGrows
  <1> QED BY <1>1, <1>2, <1>3, <1>4, <1>5, <1>7, <1>9, <1>10, <1>12, <1>13 DEF Inserted

(***************************************************************************)
(* Where the new block and the old finality point stand.                   *)
(***************************************************************************)
ChainGrown(s, b, blk, s1) ==
    LET sp == DataAs(s, blk).selected_parent
    IN /\ sp \in DOMAIN s.dag /\ sp \in blk.parents
       /\ On(s1.gd, b) = On(s.gd, sp) \cup {b}
       /\ \A x \in DOMAIN s.dag : On(s1.gd, x) = On(s.gd, x) /\ s1.gd[x] = s.gd[x]
       /\ FinalityPoint(s) # None => FinalityPoint(s) \in On(s.gd, sp)
       /\ SelectedTip(s) \in DOMAIN s.dag /\ IsHighest(s.gd, DOMAIN s.dag, SelectedTip(s))
       /\ SelectedTip(s1) \in DOMAIN s1.dag /\ IsHighest(s1.gd, DOMAIN s1.dag, SelectedTip(s1))
       /\ SelectedTip(s1) \in {b, SelectedTip(s)}
       /\ s1.gd[SelectedTip(s)].blue_score <= s1.gd[SelectedTip(s1)].blue_score

LEMMA ChainGrows ==
    ASSUME NEW s, Settled(s), NEW b \in BlockId, NEW blk, Admissible(s, b, blk),
           NEW s1, Inserted(s, b, blk, s1)
    PROVE  ChainGrown(s, b, blk, s1)
  <1>1. PICK dag : dag = s.dag
    OBVIOUS
  <1>2. PICK gd : gd = s.gd
    OBVIOUS
  <1>3. PICK d2 : d2 = s1.dag
    OBVIOUS
  <1>4. PICK g2 : g2 = s1.gd
    OBVIOUS
  <1>5. Shape(dag, gd) /\ Shape(d2, g2) /\ Agree(dag, gd, d2, g2, DOMAIN dag)
    BY <1>1, <1>2, <1>3, <1>4 DEF Settled, Inserted, WellFormed
  <1>6. PICK data : data = DataAs(s, blk)
    OBVIOUS
  <1>7. PICK sp : sp = data.selected_parent
    OBVIOUS
  <1>8. Fits(dag, gd, b, HeldAs(blk), data)
    BY <1>1, <1>2, <1>6, InsertFits
  <1>9. b \notin DOMAIN dag /\ DOMAIN gd = DOMAIN dag /\ blk.parents \subseteq DOMAIN dag /\ blk.parents # {}
    BY <1>5, <1>8 DEF Shape, Fits, HeldAs
  <1>10. sp = Highest(gd, blk.parents)
    BY <1>2, <1>1, <1>5, <1>6, <1>7, <1>9, ScoreAbove DEF DataAs
  <1>11. sp \in blk.parents /\ sp \in DOMAIN dag
    <2>1. Scored(gd, blk.parents) /\ IsFiniteSet(blk.parents)
      BY <1>5, <1>9, ShapeScored
    <2>2. IsHighest(gd, blk.parents, sp)
      BY <1>9, <1>10, <2>1, HighestIs
    <2> QED BY <1>9, <2>2 DEF IsHighest
  <1>12. \A x \in DOMAIN dag : On(g2, x) = On(gd, x)
    BY <1>5, ChainLocal DEF On
  <1>13. \A x \in DOMAIN dag : g2[x] = gd[x]
    BY <1>5 DEF Agree
  <1>14. d2 = Plus(dag, b, HeldAs(blk)) /\ g2 = Plus(gd, b, data)
    BY <1>1, <1>2, <1>3, <1>4, <1>6 DEF Inserted
  <1>15. DOMAIN d2 = DOMAIN dag \cup {b} /\ DOMAIN g2 = DOMAIN dag \cup {b} /\ g2[b] = data
    BY <1>9, <1>14 DEF Plus
  <1>16. On(g2, b) = On(gd, sp) \cup {b}
    <2>1. b # GENESIS
      BY ChainConstants
    <2>2. On(g2, b) = On(g2, g2[b].selected_parent) \cup {b}
      BY <1>5, <1>15, <2>1, OnIs
    <2> QED BY <1>7, <1>11, <1>12, <1>15, <2>2
  <1>17. PICK h : h = SelectedTip(s)
    OBVIOUS
  <1>18. h \in DOMAIN dag /\ IsHighest(gd, DOMAIN dag, h)
    <2>1. s.tips = Childless(dag)
      BY <1>1 DEF Settled
    <2> QED BY <1>2, <1>5, <1>17, <2>1, BestTip DEF SelectedTip
  <1>19. PICK h2 : h2 = SelectedTip(s1)
    OBVIOUS
  <1>20. h2 \in DOMAIN d2 /\ IsHighest(g2, DOMAIN d2, h2)
    <2>1. s1.tips = Childless(d2)
      BY <1>3 DEF Inserted
    <2> QED BY <1>4, <1>5, <1>19, <2>1, BestTip DEF SelectedTip
  <1>21. h2 \in {b, h}
    BY <1>5, <1>9, <1>13, <1>15, <1>18, <1>20, TipAfter
  <1>22. g2[h].blue_score <= g2[h2].blue_score
    <2>1. h \in DOMAIN d2
      BY <1>15, <1>18
    <2>2. HigherBlock(g2, h2, h)
      BY <1>20, <2>1 DEF IsHighest
    <2>3. g2[h].blue_score \in Nat /\ g2[h2].blue_score \in Nat
      BY <1>5, <1>20, <2>1 DEF Shape
    <2> QED BY <2>2, <2>3 DEF HigherBlock
  <1>23. ASSUME FinalityPoint(s) # None PROVE FinalityPoint(s) \in On(gd, sp)
    <2>1. PICK f : f = FinalityPoint(s)
      OBVIOUS
    <2>2. f = PointOf(gd, h)
      BY <1>2, <1>5, <1>17, <1>18, <2>1, PointIs
    <2>3. Deep(gd, h)
      BY <1>23, <2>1, <2>2 DEF PointOf
    <2>4. f \in DOMAIN dag
      BY <1>5, <1>18, <2>2, <2>3, PointFacts
    <2>5. s.reach = ReachOf(gd)
      BY <1>2 DEF Settled
    <2>6. DOMAIN s.reach.tree = DOMAIN dag /\ s.reach.tree = TreeOf(gd)
      BY <1>9, <2>5, ReachIs
    <2>7. NotOffFinalizedChain(s, sp)
      BY <1>2, <1>10 DEF Admissible
    <2>8. f \in TreeAncestors(s.reach, sp)
      BY <1>11, <2>1, <2>4, <2>6, <2>7 DEF NotOffFinalizedChain
    <2>9. TreeAncestors(s.reach, sp) = On(gd, sp)
      BY <1>5, <1>11, <2>6, TreeIsChain
    <2> QED BY <2>1, <2>8, <2>9
  <1> QED BY <1>1, <1>2, <1>3, <1>4, <1>6, <1>7, <1>11, <1>12, <1>13, <1>16, <1>17, <1>18, <1>19, <1>20, <1>21,
             <1>22, <1>23 DEF ChainGrown

(***************************************************************************)
(* The finality point only moves up its own chain.                         *)
(***************************************************************************)
PointMoved(s, s1) ==
    /\ FinalityPoint(s) # None => /\ FinalityPoint(s1) # None
                                  /\ FinalityPoint(s) \in On(s1.gd, FinalityPoint(s1))
                                  /\ FinalityPoint(s) \in On(s1.gd, SelectedTip(s1))
    /\ FinalityPoint(s1) # None => FinalityPoint(s1) \in On(s1.gd, SelectedTip(s1))

LEMMA PointMoves ==
    ASSUME NEW s, Settled(s), NEW b \in BlockId, NEW blk, Admissible(s, b, blk),
           NEW s1, Inserted(s, b, blk, s1), ChainGrown(s, b, blk, s1)
    PROVE  PointMoved(s, s1)
  <1>1. PICK dag : dag = s.dag
    OBVIOUS
  <1>2. PICK gd : gd = s.gd
    OBVIOUS
  <1>3. PICK d2 : d2 = s1.dag
    OBVIOUS
  <1>4. PICK g2 : g2 = s1.gd
    OBVIOUS
  <1>5. Shape(dag, gd) /\ Shape(d2, g2)
    BY <1>1, <1>2, <1>3, <1>4 DEF Settled, Inserted, WellFormed
  <1>6. PICK h : h = SelectedTip(s)
    OBVIOUS
  <1>7. PICK t : t = SelectedTip(s1)
    OBVIOUS
  <1>8. PICK sp : sp = DataAs(s, blk).selected_parent
    OBVIOUS
  <1>9. /\ sp \in DOMAIN dag /\ h \in DOMAIN dag /\ t \in DOMAIN d2
        /\ On(g2, b) = On(gd, sp) \cup {b}
        /\ \A x \in DOMAIN dag : On(g2, x) = On(gd, x) /\ g2[x] = gd[x]
        /\ t \in {b, h} /\ g2[h].blue_score <= g2[t].blue_score
    BY <1>1, <1>2, <1>3, <1>4, <1>6, <1>7, <1>8 DEF ChainGrown
  <1>10. PICK f : f = FinalityPoint(s)
    OBVIOUS
  <1>11. PICK f2 : f2 = FinalityPoint(s1)
    OBVIOUS
  <1>12. f = PointOf(gd, h) /\ f2 = PointOf(g2, t)
    BY <1>2, <1>4, <1>5, <1>6, <1>7, <1>9, <1>10, <1>11, PointIs
  <1>13. f2 # None => f2 \in On(g2, t)
    <2> SUFFICES ASSUME f2 # None PROVE f2 \in On(g2, t)
      OBVIOUS
    <2>1. Deep(g2, t)
      BY <1>12 DEF PointOf
    <2> QED BY <1>5, <1>9, <1>12, <2>1, PointFacts
  <1>14. ASSUME f # None PROVE f2 # None /\ f \in On(g2, f2) /\ f \in On(g2, t)
    <2>1. Deep(gd, h)
      BY <1>12, <1>14 DEF PointOf
    <2>2. /\ IsHighest(gd, Buried(gd, h), f) /\ f \in On(gd, h) /\ f \in DOMAIN dag
      BY <1>5, <1>9, <1>12, <2>1, PointFacts
    <2>3. f \in On(gd, sp)
      BY <1>2, <1>8, <1>10, <1>14 DEF ChainGrown
    <2>4. f \in On(g2, t)
      BY <1>9, <2>2, <2>3
    <2>5. gd[h].blue_score \in Nat /\ g2[t].blue_score \in Nat /\ gd[f].blue_score \in Nat /\ FINALITY_DEPTH \in Nat
      BY <1>5, <1>9, <2>2, ChainConstants DEF Shape
    <2>6. gd[h].blue_score <= g2[t].blue_score
      BY <1>9
    <2>7. Deep(g2, t)
      BY <2>1, <2>5, <2>6 DEF Deep
    <2>8. gd[f].blue_score <= gd[h].blue_score - FINALITY_DEPTH
      BY <2>2 DEF IsHighest, Buried
    <2>9. g2[f].blue_score <= g2[t].blue_score - FINALITY_DEPTH
      <3>1. g2[f] = gd[f]
        BY <1>9, <2>2
      <3> QED BY <2>5, <2>6, <2>8, <3>1
    <2>10. f \in Buried(g2, t)
      BY <2>4, <2>9 DEF Buried
    <2>11. f2 \in On(g2, t) /\ f2 # None /\ g2[f].blue_score <= g2[f2].blue_score
      BY <1>5, <1>9, <1>12, <2>7, <2>10, PointFacts
    <2>12. ChainTree(d2, g2, t)
      BY <1>5, <1>9, ChainsFormTree
    <2>13. f \in On(g2, f2)
      BY <2>4, <2>11, <2>12 DEF ChainTree
    <2> QED BY <2>4, <2>11, <2>13
  <1> QED BY <1>4, <1>7, <1>10, <1>11, <1>13, <1>14 DEF PointMoved

LEMMA EffectsOfNone ==
    ASSUME NEW dag, Bodied(dag), NEW l \in Ledgers
    PROVE  EffectAll(dag, l, <<>>) = l
  <1>1. PICK e : e = <<>>
    OBVIOUS
  <1>2. e \in Seq({}) /\ Len(e) = 0
    BY <1>1
  <1>3. PICK G : IsEffectsOf(dag, l, e, G)
    BY <1>2, EffectsRun
  <1>4. G[0] = l /\ G[Len(e)] = EffectAll(dag, l, e)
    BY <1>3 DEF IsEffectsOf
  <1> QED BY <1>1, <1>2, <1>4

LEMMA FoldMiddle ==
    ASSUME NEW dag, Bodied(dag), NEW K, NEW u \in Seq(K), NEW t \in Seq(K), NEW p, IsConcat(p, u, t),
           NEW r \in Seq(K), NEW o, IsConcat(o, p, r), NEW base, base = EffectAll(dag, SeedLedger, u)
    PROVE  EffectAll(dag, base, SubSeq(o, Len(u) + 1, Len(p))) = EffectAll(dag, SeedLedger, p)
  <1>1. SubSeq(o, Len(u) + 1, Len(p)) = t
    BY MiddlePart
  <1>2. EffectAll(dag, SeedLedger, u \o t) = EffectAll(dag, base, t)
    BY SeedTyped, EffectsConcat
  <1> QED BY <1>1, <1>2 DEF IsConcat

(***************************************************************************)
(* The order at the frontier: the blocks that the base holds.              *)
(***************************************************************************)
BaseOrder(gd, f) == IF f = None THEN <<>> ELSE CanonicalOrderAt(gd, f)

LEMMA BaseOrderIs ==
    ASSUME NEW dag, NEW gd, WellFormed(dag, gd), NEW t \in DOMAIN dag, NEW f, f = None \/ f \in On(gd, t)
    PROVE  /\ BaseOrder(gd, f) \in Seq(DOMAIN gd)
           /\ Extends(DOMAIN gd, CanonicalOrderAt(gd, t), BaseOrder(gd, f))
           /\ IndexOf(CanonicalOrderAt(gd, t), f) = Len(BaseOrder(gd, f))
           /\ f # None => Len(BaseOrder(gd, f)) >= 1
  <1>1. PICK K : K = DOMAIN gd
    OBVIOUS
  <1>2. Shape(dag, gd) /\ DOMAIN dag = K /\ K \subseteq AllBlocks
    BY <1>1 DEF WellFormed, Shape
  <1>3. PICK o : o = CanonicalOrderAt(gd, t)
    OBVIOUS
  <1>4. OrderFacts(dag, gd, t)
    BY OrderIs
  <1>5. o \in Seq(K)
    BY <1>1, <1>3, <1>4 DEF OrderFacts
  <1>6. CASE f = None
    <2>1. PICK u : u = BaseOrder(gd, f)
      OBVIOUS
    <2>2. u = <<>>
      BY <1>6, <2>1 DEF BaseOrder
    <2>3. u \in Seq(K) /\ Len(u) = 0 /\ o = u \o o
      BY <1>5, <2>2
    <2>4. f \notin K
      BY <1>2, <1>6, BlocksAreNat
    <2>5. IndexOf(o, f) = 0
      BY <1>5, <2>4, IndexAbsent
    <2> QED BY <1>1, <1>3, <1>5, <1>6, <2>1, <2>3, <2>5 DEF Extends
  <1>7. CASE f # None
    <2>1. f \in On(gd, t)
      BY <1>7
    <2>2. ChainTree(dag, gd, t)
      BY <1>2, ChainsFormTree
    <2>3. f \in DOMAIN dag
      BY <2>1, <2>2 DEF ChainTree, BelowOnChain
    <2>4. PICK u : u = CanonicalOrderAt(gd, f)
      OBVIOUS
    <2>5. OrderFacts(dag, gd, f)
      BY <2>3, OrderIs
    <2>6. u \in Seq(K) /\ EndsWith(u, f)
      BY <1>1, <2>4, <2>5 DEF OrderFacts
    <2>7. Extends(K, o, u)
      BY <1>1, <1>3, <2>1, <2>4, OrderPrefix
    <2>8. PICK r \in Seq(K) : IsConcat(o, u, r)
      BY <2>7 DEF Extends, IsConcat
    <2>9. PICK S : Once(o, S)
      BY <1>3, <1>4 DEF OrderFacts
    <2>10. IndexOf(o, f) = Len(u) /\ Len(u) \in 1..Len(o)
      BY <2>6, <2>8, <2>9, IndexOfLast
    <2>11. u = BaseOrder(gd, f)
      BY <1>7, <2>4 DEF BaseOrder
    <2>12. Len(u) >= 1
      BY <2>6 DEF EndsWith
    <2> QED BY <1>1, <1>3, <2>6, <2>7, <2>10, <2>11, <2>12
  <1> QED BY <1>6, <1>7

Advanced(s1, s2) ==
    /\ IsChainState(s2)
    /\ s2.dag = s1.dag /\ s2.gd = s1.gd /\ s2.tips = s1.tips /\ s2.reach = s1.reach
    /\ s2.base_frontier = FinalityPoint(s1)
    /\ s2.base = EffectAll(s1.dag, SeedLedger, BaseOrder(s1.gd, FinalityPoint(s1)))

LEMMA AdvanceFacts ==
    ASSUME NEW s1, IsChainState(s1), WellFormed(s1.dag, s1.gd), Bodied(s1.dag),
           NEW t \in DOMAIN s1.dag, t = SelectedTip(s1),
           NEW f2, f2 = FinalityPoint(s1), f2 = None \/ f2 \in On(s1.gd, t),
           NEW f, f = s1.base_frontier,
           f = None \/ (f2 # None /\ f \in On(s1.gd, t) /\ f \in On(s1.gd, f2)),
           s1.base = EffectAll(s1.dag, SeedLedger, BaseOrder(s1.gd, f))
    PROVE  Advanced(s1, AdvanceFinalizedBase(s1))
  <1>1. PICK dag : dag = s1.dag
    OBVIOUS
  <1>2. PICK gd : gd = s1.gd
    OBVIOUS
  <1>3. WellFormed(dag, gd) /\ Bodied(dag) /\ DOMAIN dag = DOMAIN gd
    BY <1>1, <1>2 DEF WellFormed, Shape
  <1>4. PICK o : o = CanonicalOrderAt(gd, t)
    OBVIOUS
  <1>5. PICK u : u = BaseOrder(gd, f)
    OBVIOUS
  <1>6. PICK p : p = BaseOrder(gd, f2)
    OBVIOUS
  <1>7. PICK K : K = DOMAIN gd
    OBVIOUS
  <1>8. u \in Seq(K) /\ IndexOf(o, f) = Len(u)
    <2>1. f = None \/ f \in On(gd, t)
      BY <1>2
    <2> QED BY <1>1, <1>3, <1>4, <1>5, <1>7, <2>1, BaseOrderIs
  <1>9. p \in Seq(K) /\ Extends(K, o, p) /\ IndexOf(o, f2) = Len(p) /\ (f2 # None => Len(p) >= 1)
    <2>1. f2 = None \/ f2 \in On(gd, t)
      BY <1>2
    <2> QED BY <1>1, <1>3, <1>4, <1>6, <1>7, <2>1, BaseOrderIs
  <1>10. PICK s2 : s2 = AdvanceFinalizedBase(s1)
    OBVIOUS
  <1>11. s2 = IF f2 = None \/ f2 = f \/ Len(p) = 0 \/ Len(u) + 1 > Len(p) + 1 THEN s1
              ELSE Fields(dag, gd, s1.tips, EffectAll(dag, s1.base, SubSeq(o, Len(u) + 1, Len(p))), f2,
                          s1.ledger, s1.reach)
    BY <1>1, <1>2, <1>4, <1>8, <1>9, <1>10, AdvanceIs
  <1>12. CASE f2 = None \/ f2 = f
    <2>1. s2 = s1
      BY <1>11, <1>12
    <2>2. f2 = f
      BY <1>12
    <2> QED BY <1>10, <2>1, <2>2 DEF Advanced
  <1>13. CASE f2 # None /\ f2 # f
    <2>1. Extends(K, p, u)
      <3>1. f2 \in DOMAIN dag
        <4>1. Shape(dag, gd)
          BY <1>3 DEF WellFormed
        <4>2. ChainTree(dag, gd, t) /\ f2 \in On(gd, t)
          BY <1>1, <1>2, <1>13, <4>1, ChainsFormTree
        <4> QED BY <4>2 DEF ChainTree, BelowOnChain
      <3>2. f = None \/ f \in On(gd, f2)
        BY <1>2
      <3>3. p = CanonicalOrderAt(gd, f2)
        BY <1>6, <1>13 DEF BaseOrder
      <3> QED BY <1>3, <1>5, <1>7, <3>1, <3>2, <3>3, BaseOrderIs
    <2>2. PICK q \in Seq(K) : IsConcat(p, u, q)
      BY <2>1 DEF Extends, IsConcat
    <2>3. PICK r \in Seq(K) : IsConcat(o, p, r)
      BY <1>9 DEF Extends, IsConcat
    <2>4. Len(p) = Len(u) + Len(q) /\ Len(u) \in Nat /\ Len(q) \in Nat
      BY <1>8, <2>2, ConcatProperties, LenProperties DEF IsConcat
    <2>5. PICK l : l = EffectAll(dag, s1.base, SubSeq(o, Len(u) + 1, Len(p)))
      OBVIOUS
    <2>6. l = EffectAll(dag, SeedLedger, p)
      <3>1. PICK base : base = s1.base
        OBVIOUS
      <3>2. base = EffectAll(dag, SeedLedger, u)
        BY <1>1, <1>2, <1>5, <3>1
      <3>3. u \in Seq(K) /\ Bodied(dag)
        BY <1>3, <1>8
      <3>4. EffectAll(dag, base, SubSeq(o, Len(u) + 1, Len(p))) = EffectAll(dag, SeedLedger, p)
        BY <2>2, <2>3, <3>2, <3>3, FoldMiddle
      <3> QED BY <2>5, <3>1, <3>4
    <2>7. ~(f2 = None \/ f2 = f \/ Len(p) = 0 \/ Len(u) + 1 > Len(p) + 1)
      <3>1. Len(p) >= 1
        BY <1>9, <1>13
      <3>2. Len(p) # 0 /\ ~(Len(u) + 1 > Len(p) + 1)
        BY <2>4, <3>1
      <3> QED BY <1>13, <3>2
    <2>8. s2 = Fields(dag, gd, s1.tips, l, f2, s1.ledger, s1.reach)
      BY <1>11, <2>5, <2>7
    <2>9. /\ IsChainState(s2) /\ s2.dag = dag /\ s2.gd = gd /\ s2.tips = s1.tips /\ s2.reach = s1.reach
          /\ s2.base_frontier = f2 /\ s2.base = l
      BY <2>8, FieldsAre
    <2> QED BY <1>1, <1>2, <1>6, <1>10, <2>6, <2>9 DEF Advanced
  <1> QED BY <1>12, <1>13

(***************************************************************************)
(* `add_block` leaves a settled node settled, and its maps hold one block  *)
(* more.                                                                   *)
(***************************************************************************)
LEMMA RecomputeFacts ==
    ASSUME NEW s, IsChainState(s), WellFormed(s.dag, s.gd), Bodied(s.dag),
           s.reach = ReachOf(s.gd), s.tips = Childless(s.dag), s.base_frontier = FinalityPoint(s),
           s.base = IF s.base_frontier = None THEN SeedLedger ELSE FullReplay(s, s.base_frontier),
           NEW r, r = RecomputeVirtualState(s)
    PROVE  Settled(r) /\ r.dag = s.dag /\ r.gd = s.gd /\ r.tips = s.tips /\ r.base_frontier = s.base_frontier
           /\ r.base = s.base /\ r.reach = s.reach
  <1>1. r = Fields(s.dag, s.gd, s.tips, s.base, s.base_frontier, VirtualStateAt(s, SelectedTip(s)), s.reach)
    BY RecomputeIs
  <1>2. /\ IsChainState(r) /\ r.dag = s.dag /\ r.gd = s.gd /\ r.tips = s.tips /\ r.base = s.base
        /\ r.base_frontier = s.base_frontier /\ r.reach = s.reach /\ r.ledger = VirtualStateAt(s, SelectedTip(s))
    BY <1>1, FieldsAre
  <1>3. PICK t : t = SelectedTip(s)
    OBVIOUS
  <1>4. t \in DOMAIN s.dag
    BY <1>3, BestTip DEF SelectedTip, WellFormed
  <1>5. Based(s, t)
    <2>1. CASE s.base_frontier = None
      BY <2>1 DEF Based
    <2>2. CASE s.base_frontier # None
      <3>1. PICK f : f = s.base_frontier
        OBVIOUS
      <3>2. PICK gd : gd = s.gd
        OBVIOUS
      <3>3. Shape(s.dag, gd)
        BY <3>2 DEF WellFormed
      <3>4. f = PointOf(gd, t)
        BY <1>3, <1>4, <3>1, <3>2, <3>3, PointIs
      <3>5. Deep(gd, t)
        BY <2>2, <3>1, <3>4 DEF PointOf
      <3>6. f \in On(gd, t)
        BY <1>4, <3>3, <3>4, <3>5, PointFacts
      <3> QED BY <2>2, <3>1, <3>2, <3>6 DEF Based
    <2> QED BY <2>1, <2>2
  <1>6. VirtualStateAt(s, t) = FullReplay(s, t)
    BY <1>4, <1>5, VirtualIsFull
  <1>7. SelectedTip(r) = t /\ FinalityPoint(r) = FinalityPoint(s)
    BY <1>2, <1>3, PointSame
  <1>8. \A x : FullReplay(r, x) = FullReplay(s, x)
    BY <1>2, FullReplaySame
  <1>9. r.ledger = FullReplay(r, SelectedTip(r))
    BY <1>2, <1>3, <1>6, <1>7, <1>8
  <1>10. r.base_frontier = FinalityPoint(r)
    BY <1>2, <1>7
  <1>11. r.base = IF r.base_frontier = None THEN SeedLedger ELSE FullReplay(r, r.base_frontier)
    BY <1>2, <1>8
  <1>12. WellFormed(r.dag, r.gd) /\ Bodied(r.dag) /\ r.reach = ReachOf(r.gd) /\ r.tips = Childless(r.dag)
    BY <1>2
  <1> QED BY <1>2, <1>9, <1>10, <1>11, <1>12 DEF Settled

LEMMA BaseIs ==
    ASSUME NEW s, Bodied(s.dag), NEW f
    PROVE  EffectAll(s.dag, SeedLedger, BaseOrder(s.gd, f)) = IF f = None THEN SeedLedger ELSE FullReplay(s, f)
  BY FullReplayIs, EffectsOfNone, SeedTyped DEF BaseOrder

AddFacts(s, b, blk, s1, r) ==
    /\ Inserted(s, b, blk, s1) /\ ChainGrown(s, b, blk, s1) /\ PointMoved(s, s1)
    /\ Settled(r) /\ r.dag = s1.dag /\ r.gd = s1.gd /\ r.tips = s1.tips
    /\ SelectedTip(r) = SelectedTip(s1) /\ FinalityPoint(r) = FinalityPoint(s1)

LEMMA AddIs ==
    ASSUME NEW s, Settled(s), NEW b \in BlockId, NEW blk, blk.body \in Seq(Tx), Admissible(s, b, blk)
    PROVE  AddFacts(s, b, blk, InsertBlock(s, b, blk), AfterAdd(s, b, blk))
  <1>1. PICK s1 : s1 = InsertBlock(s, b, blk)
    OBVIOUS
  <1>2. Inserted(s, b, blk, s1)
    BY <1>1, InsertFacts
  <1>3. ChainGrown(s, b, blk, s1)
    BY <1>2, ChainGrows
  <1>4. PointMoved(s, s1)
    BY <1>2, <1>3, PointMoves
  <1>5. PICK t : t = SelectedTip(s1)
    OBVIOUS
  <1>6. PICK f : f = s1.base_frontier
    OBVIOUS
  <1>7. PICK f2 : f2 = FinalityPoint(s1)
    OBVIOUS
  <1>8. f = FinalityPoint(s)
    BY <1>2, <1>6 DEF Settled, Inserted
  <1>9. IsChainState(s1) /\ WellFormed(s1.dag, s1.gd) /\ Bodied(s1.dag) /\ t \in DOMAIN s1.dag
    BY <1>2, <1>3, <1>5 DEF Inserted, ChainGrown
  <1>10. f2 = None \/ f2 \in On(s1.gd, t)
    BY <1>4, <1>5, <1>7 DEF PointMoved
  <1>11. f = None \/ (f2 # None /\ f \in On(s1.gd, t) /\ f \in On(s1.gd, f2))
    BY <1>4, <1>5, <1>7, <1>8 DEF PointMoved
  <1>12. s1.base = EffectAll(s1.dag, SeedLedger, BaseOrder(s1.gd, f))
    <2>1. s1.base = IF f = None THEN SeedLedger ELSE FullReplay(s, f)
      BY <1>2, <1>6 DEF Settled, Inserted
    <2>2. f # None => FullReplay(s, f) = FullReplay(s1, f)
      <3> SUFFICES ASSUME f # None PROVE FullReplay(s, f) = FullReplay(s1, f)
        OBVIOUS
      <3>1. WellFormed(s.dag, s.gd) /\ Bodied(s.dag) /\ Agree(s.dag, s.gd, s1.dag, s1.gd, DOMAIN s.dag)
        BY <1>2 DEF Settled, Inserted
      <3>2. f \in DOMAIN s.dag
        <4>1. PICK h : h = SelectedTip(s) /\ h \in DOMAIN s.dag
          BY <1>3 DEF ChainGrown
        <4>2. PICK dag, gd : dag = s.dag /\ gd = s.gd /\ Shape(dag, gd)
          BY <3>1 DEF WellFormed
        <4>3. f = PointOf(gd, h)
          BY <1>8, <4>1, <4>2, PointIs
        <4>4. Deep(gd, h)
          BY <4>3 DEF PointOf
        <4> QED BY <4>1, <4>2, <4>3, <4>4, PointFacts
      <3> QED BY <1>9, <3>1, <3>2, ReplayLocal
    <2> QED BY <1>9, <2>1, <2>2, BaseIs
  <1>13. PICK s2 : s2 = AdvanceFinalizedBase(s1)
    OBVIOUS
  <1>14. Advanced(s1, s2)
    BY <1>5, <1>6, <1>7, <1>9, <1>10, <1>11, <1>12, <1>13, AdvanceFacts
  <1>15. /\ IsChainState(s2) /\ s2.dag = s1.dag /\ s2.gd = s1.gd /\ s2.tips = s1.tips /\ s2.reach = s1.reach
         /\ s2.base_frontier = f2 /\ s2.base = EffectAll(s1.dag, SeedLedger, BaseOrder(s1.gd, f2))
    BY <1>7, <1>14 DEF Advanced
  <1>16. SelectedTip(s2) = t /\ FinalityPoint(s2) = f2
    BY <1>5, <1>7, <1>15, PointSame
  <1>17. WellFormed(s2.dag, s2.gd) /\ Bodied(s2.dag) /\ s2.reach = ReachOf(s2.gd) /\ s2.tips = Childless(s2.dag)
    BY <1>2, <1>15 DEF Inserted
  <1>18. s2.base = IF s2.base_frontier = None THEN SeedLedger ELSE FullReplay(s2, s2.base_frontier)
    BY <1>15, <1>17, BaseIs
  <1>19. PICK r : r = RecomputeVirtualState(s2)
    OBVIOUS
  <1>20. r = AfterAdd(s, b, blk)
    BY <1>1, <1>13, <1>19 DEF AfterAdd
  <1>21. Settled(r) /\ r.dag = s1.dag /\ r.gd = s1.gd /\ r.tips = s1.tips
    BY <1>15, <1>16, <1>17, <1>18, <1>19, RecomputeFacts
  <1>22. SelectedTip(r) = SelectedTip(s1) /\ FinalityPoint(r) = FinalityPoint(s1)
    BY <1>21, PointSame
  <1> QED BY <1>1, <1>2, <1>3, <1>4, <1>20, <1>21, <1>22 DEF AddFacts

(***************************************************************************)
(* The header commits to the replay of the block's past.                   *)
(***************************************************************************)
LEMMA RootIs ==
    ASSUME NEW s, Settled(s), NEW b \in BlockId, NEW blk, blk.body \in Seq(Tx), Admissible(s, b, blk),
           NEW s1, NEW r, AddFacts(s, b, blk, s1, r)
    PROVE  /\ FullReplay(r, b) = blk.state_root
           /\ \A x \in DOMAIN s.dag : FullReplay(r, x) = FullReplay(s, x)
  <1>1. PICK dag : dag = s.dag
    OBVIOUS
  <1>2. PICK d2 : d2 = r.dag
    OBVIOUS
  <1>3. PICK gd : gd = s.gd
    OBVIOUS
  <1>4. PICK g2 : g2 = r.gd
    OBVIOUS
  <1>5. PICK data : data = DataAs(s, blk)
    OBVIOUS
  <1>6. PICK sp : sp = data.selected_parent
    OBVIOUS
  <1>7. /\ WellFormed(dag, gd) /\ Bodied(dag) /\ WellFormed(d2, g2) /\ Bodied(d2)
        /\ d2 = Plus(dag, b, HeldAs(blk)) /\ g2 = Plus(gd, b, data)
        /\ Agree(dag, gd, d2, g2, DOMAIN dag)
    BY <1>1, <1>2, <1>3, <1>4, <1>5 DEF AddFacts, Inserted, Settled
  <1>8. \A x \in DOMAIN dag : FullReplay(r, x) = FullReplay(s, x)
    <2>1. WellFormed(s.dag, s.gd) /\ Bodied(s.dag) /\ WellFormed(r.dag, r.gd) /\ Bodied(r.dag)
          /\ Agree(s.dag, s.gd, r.dag, r.gd, DOMAIN dag)
      BY <1>1, <1>2, <1>3, <1>4, <1>7
    <2> QED BY <2>1, ReplayLocal
  <1>9. sp \in DOMAIN dag /\ (FinalityPoint(s) # None => FinalityPoint(s) \in On(gd, sp))
    BY <1>1, <1>3, <1>5, <1>6 DEF AddFacts, ChainGrown
  <1>10. Based(s, sp)
    BY <1>3, <1>9 DEF Based, Settled
  <1>11. PICK base : base = FullReplay(s, sp)
    OBVIOUS
  <1>12. VirtualStateAt(s, sp) = base
    BY <1>1, <1>3, <1>7, <1>9, <1>10, <1>11, VirtualIsFull
  <1>13. PICK q : q = Merged(data)
    OBVIOUS
  <1>14. PICK l : l = EffectAll(dag, base, q)
    OBVIOUS
  <1>15. MergedState(s, data) = l
    BY <1>1, <1>6, <1>12, <1>13, <1>14, ReplayIsFold DEF MergedState
  <1>16. BodyApplies(l, blk.body) /\ blk.state_root = ApplyBlockReward(ApplyAll(l, blk.body), b)
    <2>1. BodyApplies(MergedState(s, data), blk.body) /\ blk.state_root = PostMergesetStateRoot(s, data, b, blk.body)
      BY <1>5, DataAsIs DEF Admissible
    <2> QED BY <1>15, <2>1, BodyIsFold DEF PostMergesetStateRoot
  <1>17. base \in Ledgers
    <2>1. OrderFacts(dag, gd, sp)
      BY <1>7, <1>9, OrderIs
    <2>2. CanonicalOrderAt(gd, sp) \in Seq(DOMAIN gd)
      BY <2>1 DEF OrderFacts
    <2> QED BY <1>1, <1>3, <1>7, <1>11, <2>2, SeedTyped, EffectsTyped, FullReplayIs
  <1>18. b \in DOMAIN d2 /\ b # GENESIS /\ b \notin DOMAIN dag /\ g2[b] = data /\ d2[b] = HeldAs(blk)
         /\ DOMAIN gd = DOMAIN dag /\ DOMAIN g2 = DOMAIN d2
    <2>1. Fits(dag, gd, b, HeldAs(blk), data)
      BY <1>1, <1>3, <1>5, InsertFits
    <2>2. DOMAIN gd = DOMAIN dag /\ DOMAIN g2 = DOMAIN d2
      BY <1>7 DEF WellFormed, Shape
    <2> QED BY <1>7, <2>1, <2>2, ChainConstants DEF Plus, Fits
  <1>19. q \in Seq(DOMAIN dag)
    <2>1. PICK P : P = PastMap(d2)
      OBVIOUS
    <2>2. PICK ms : MergeFacts(d2, g2, P, b, sp, ms)
      <3>1. PICK sp2, ms : MergeFacts(d2, g2, P, b, sp2, ms)
        BY <1>7, <1>18, <2>1, MergeIs
      <3>2. sp2 = sp
        BY <1>6, <1>18, <3>1 DEF MergeFacts
      <3> QED BY <3>1, <3>2
    <2>3. ms \subseteq DOMAIN d2 /\ ms \subseteq P[b] /\ Once(Merged(g2[b]), ms)
      BY <2>2 DEF MergeFacts
    <2>4. b \notin P[b]
      <3>1. PastFacts(d2, g2, P) /\ Shape(d2, g2)
        BY <1>7, <2>1, PastIs DEF WellFormed
      <3>2. \A x \in P[b] : g2[x].blue_score < g2[b].blue_score
        BY <1>18, <3>1 DEF PastFacts
      <3>3. g2[b].blue_score \in Nat
        BY <1>18, <3>1 DEF Shape
      <3> QED BY <3>2, <3>3
    <2>5. ms \subseteq DOMAIN dag
      BY <1>7, <2>3, <2>4 DEF Plus
    <2>6. q \in Seq(ms)
      BY <1>13, <1>18, <2>3 DEF Once
    <2> QED BY <2>5, <2>6
  <1>20. l \in Ledgers
    BY <1>7, <1>14, <1>17, <1>19, EffectsTyped
  <1>21. l = EffectAll(d2, base, q)
    <2>1. DOMAIN dag \subseteq DOMAIN d2
      BY <1>7 DEF Agree
    <2>2. \A x \in DOMAIN dag : dag[x].parents = d2[x].parents /\ dag[x].body = d2[x].body
      BY <1>7 DEF Agree
    <2> QED BY <1>7, <1>14, <1>17, <1>19, <2>1, <2>2, EffectsLocal
  <1>22. PICK p : p = CanonicalOrderAt(g2, sp)
    OBVIOUS
  <1>23. EffectAll(d2, SeedLedger, p) = base
    <2>1. FullReplay(r, sp) = base
      BY <1>8, <1>9, <1>11
    <2> QED BY <1>2, <1>4, <1>22, <2>1, FullReplayIs
  <1>24. FullReplay(r, b) = EffectStep(d2, l, b)
    <2>1. OrderFacts(d2, g2, b)
      BY <1>7, <1>18, OrderIs
    <2>2. CanonicalOrderAt(g2, b) = Append(p \o q, b)
      BY <1>6, <1>13, <1>18, <1>22, <2>1 DEF OrderFacts
    <2>3. PICK K : K = DOMAIN d2
      OBVIOUS
    <2>4. p \in Seq(K) /\ q \in Seq(K)
      <3>1. sp \in DOMAIN d2 /\ DOMAIN dag \subseteq K
        BY <1>7, <1>9, <2>3 DEF Agree
      <3>2. OrderFacts(d2, g2, sp)
        BY <1>7, <3>1, OrderIs
      <3>3. p \in Seq(K)
        BY <1>18, <1>22, <2>3, <3>2 DEF OrderFacts
      <3> QED BY <1>19, <3>1, <3>3
    <2>5. PICK w : w = p \o q
      OBVIOUS
    <2>6. PICK v : v = <<b>>
      OBVIOUS
    <2>7. w \in Seq(K) /\ v \in Seq(K) /\ Append(w, b) = w \o v
      BY <1>18, <2>3, <2>4, <2>5, <2>6
    <2>8. EffectAll(d2, SeedLedger, w) = l
      BY <1>7, <1>21, <1>23, <2>4, <2>5, SeedTyped, EffectsConcat
    <2>9. EffectAll(d2, SeedLedger, w \o v) = EffectAll(d2, l, v)
      BY <1>7, <2>7, <2>8, SeedTyped, EffectsConcat
    <2>10. EffectAll(d2, l, v) = EffectStep(d2, l, b)
      BY <1>7, <1>20, <2>6, EffectsOfOne
    <2> QED BY <1>2, <1>4, <2>2, <2>5, <2>7, <2>9, <2>10, FullReplayIs
  <1>25. EffectStep(d2, l, b) = ApplyBlockReward(SkipAll(l, blk.body), b)
    <2>1. d2[b].parents # {} /\ d2[b].body = blk.body
      BY <1>18 DEF HeldAs, Admissible
    <2> QED BY <1>18, <2>1 DEF EffectStep
  <1>26. SkipAll(l, blk.body) = ApplyAll(l, blk.body)
    BY <1>16, <1>20, StrictIsSkip
  <1>27. FullReplay(r, b) = blk.state_root
    BY <1>16, <1>24, <1>25, <1>26
  <1> QED BY <1>1, <1>8, <1>27

-----------------------------------------------------------------------------
(***************************************************************************)
(* The indexes that a restart may build, by the number of blocks that have *)
(* entered: each knows a set of blocks that holds the parents of its       *)
(* members, and about these says what the node's own index says.           *)
(***************************************************************************)
Part(gd, D) == [x \in D |-> gd[x]]

Closed(dag, D) == D \subseteq DOMAIN dag /\ \A x \in D : dag[x].parents \subseteq D

PartIndexes(dag, gd) == {ReachOf(Part(gd, D)) : D \in {D \in SUBSET DOMAIN dag : Closed(dag, D)}}

LEMMA PartGrows ==
    ASSUME NEW dag, NEW gd, WellFormed(dag, gd), NEW D, Closed(dag, D),
           NEW r, r = ReachOf(Part(gd, D)), NEW b \in Ready(dag, DOMAIN r.tree)
    PROVE  /\ IndexBlock(r, b, gd[b]) = ReachOf(Part(gd, D \cup {b}))
           /\ Closed(dag, D \cup {b}) /\ b \notin D /\ b \in DOMAIN dag
  <1>1. PICK g : g = Part(gd, D)
    OBVIOUS
  <1>2. DOMAIN g = D /\ \A x \in D : g[x] = gd[x]
    BY <1>1 DEF Part
  <1>3. DOMAIN r.tree = D
    BY <1>1, <1>2, ReachIs
  <1>4. Shape(dag, gd) /\ DOMAIN gd = DOMAIN dag
    BY DEF WellFormed, Shape
  <1>5. b \in DOMAIN dag /\ b \notin D /\ dag[b].parents \cap DOMAIN dag \subseteq D
    BY <1>3 DEF Ready
  <1>6. dag[b].parents \subseteq D
    BY <1>4, <1>5, ShapeParents
  <1>7. D \subseteq DOMAIN dag /\ \A x \in D : dag[x].parents \subseteq D
    BY DEF Closed
  <1>8. PICK P : P = PastMap(dag)
    OBVIOUS
  <1>9. \A x \in D \cup {b} : P[x] \subseteq D
    <2>1. PICK rank : rank = [x \in D |-> gd[x].blue_score]
      OBVIOUS
    <2>2. PICK H : H = [x \in D |-> dag[x].parents]
      OBVIOUS
    <2>3. PICK Good : Good = {x \in D : P[x] \subseteq D}
      OBVIOUS
    <2>4. \A x \in D : rank[x] \in Nat
      BY <1>4, <1>7, <2>1 DEF Shape
    <2>5. \A x \in D : \A y \in H[x] : y \in D /\ rank[y] < rank[x]
      BY <1>4, <1>7, <2>1, <2>2, ShapeParents
    <2>6. ASSUME NEW x \in DOMAIN dag, dag[x].parents \subseteq Good PROVE P[x] \subseteq D
      <3>1. P[x] = Met(dag, P, x)
        BY <1>4, <1>8, PastIs DEF PastFacts
      <3>2. \A p \in dag[x].parents : p \in D /\ P[p] \subseteq D
        BY <2>3, <2>6
      <3> QED BY <3>1, <3>2 DEF Met
    <2>7. \A x \in D : H[x] \subseteq Good => x \in Good
      BY <1>7, <2>2, <2>3, <2>6
    <2>8. \A x \in D : x \in Good
      BY <2>4, <2>5, <2>7, RankInduction
    <2>9. P[b] \subseteq D
      BY <1>5, <1>6, <2>6, <2>8
    <2> QED BY <2>3, <2>8, <2>9
  <1>10. PICK data : data = gd[b]
    OBVIOUS
  <1>11. Indexable(g, b, data)
    <2>1. None \notin D
      BY <1>4, <1>7, BlocksAreNat DEF Shape
    <2>2. data.selected_parent \in D \cup {None}
      <3>1. CASE b = GENESIS
        BY <1>4, <1>10, <3>1 DEF Shape, GhostdagGenesis
      <3>2. CASE b # GENESIS
        BY <1>4, <1>5, <1>6, <1>10, <3>2, SelectedParentIs
      <3> QED BY <3>1, <3>2
    <2>3. \A c \in D \cup {b} : MergedSet(gd, c) \subseteq D
      BY <1>4, <1>5, <1>7, <1>8, <1>9, MergedSetHeld
    <2>4. ToSet(Merged(data)) \subseteq D
      BY <1>10, <2>3 DEF MergedSet
    <2>5. \A c \in D : MergedSet(g, c) \subseteq D
      BY <1>2, <2>3 DEF MergedSet
    <2> QED BY <1>2, <1>5, <2>1, <2>2, <2>4, <2>5 DEF Indexable
  <1>12. Plus(g, b, data) = Part(gd, D \cup {b})
    <2>1. Plus(g, b, data) = [x \in D \cup {b} |-> IF x = b THEN data ELSE g[x]]
      BY <1>2 DEF Plus
    <2>2. \A x \in D \cup {b} : (IF x = b THEN data ELSE g[x]) = gd[x]
      BY <1>2, <1>10
    <2> QED BY <2>1, <2>2 DEF Part
  <1>13. Closed(dag, D \cup {b})
    BY <1>5, <1>6, <1>7 DEF Closed
  <1> QED BY <1>1, <1>5, <1>10, <1>11, <1>12, <1>13, IndexGrows

LEMMA PartIsReady ==
    ASSUME NEW dag, NEW gd, Shape(dag, gd), NEW D, Closed(dag, D), D # DOMAIN dag
    PROVE  Ready(dag, D) # {}
  <1>1. PICK L : L = DOMAIN dag \ D
    OBVIOUS
  <1>2. L # {} /\ L \subseteq DOMAIN dag
    BY <1>1 DEF Closed
  <1>3. PICK S : S = {gd[x].blue_score : x \in L}
    OBVIOUS
  <1>4. S # {} /\ S \subseteq Nat
    BY <1>2, <1>3 DEF Shape
  <1>5. PICK n \in S : \A m \in S : n <= m
    BY <1>4, SmallestNat
  <1>6. PICK b \in L : n = gd[b].blue_score
    BY <1>3, <1>5
  <1>7. ASSUME NEW p \in dag[b].parents PROVE p \in D
    <2>1. p \in DOMAIN dag /\ gd[p].blue_score \in Nat /\ gd[b].blue_score \in Nat
          /\ gd[p].blue_score < gd[b].blue_score
      BY <1>2, <1>6, ShapeParents
    <2>2. p \in L => n <= gd[p].blue_score
      BY <1>3, <1>5
    <2> QED BY <1>1, <1>6, <2>1, <2>2
  <1>8. b \in Ready(dag, D)
    BY <1>1, <1>2, <1>7 DEF Ready
  <1> QED BY <1>8

(***************************************************************************)
(* The insertions, one by one.                                             *)
(***************************************************************************)
EnterAll(s, R) == UNION {{IndexBlock(r, b, s.gd[b]) : b \in Ready(s.dag, DOMAIN r.tree)} : r \in R}

RebuildStep(s, f, n) == IF n = 0 THEN {EmptyIndex} ELSE EnterAll(s, f[n - 1])

IsRebuild(s, f) == f = [n \in 0..Cardinality(DOMAIN s.dag) |-> RebuildStep(s, f, n)]

LEMMA RebuiltIs ==
    ASSUME NEW s
    PROVE  RebuiltIndexes(s) = (CHOOSE f : IsRebuild(s, f))[Cardinality(DOMAIN s.dag)]
  BY DEF RebuiltIndexes, IsRebuild, RebuildStep, EnterAll

LEMMA EmptyIsPart == ASSUME NEW gd PROVE EmptyIndex = ReachOf(Part(gd, {}))
  <1>1. PICK g : g = Part(gd, {})
    OBVIOUS
  <1>2. DOMAIN g = {}
    BY <1>1 DEF Part
  <1>3. TreeOf(g) = [b \in {} |-> None]
    BY <1>2 DEF TreeOf
  <1>4. CoverOf(g) = [b \in {} |-> {}]
    BY <1>2 DEF CoverOf
  <1> QED BY <1>1, <1>3, <1>4 DEF ReachOf, EmptyIndex

LEMMA EnteredIsPart ==
    ASSUME NEW s, WellFormed(s.dag, s.gd), NEW R, R \subseteq PartIndexes(s.dag, s.gd)
    PROVE  EnterAll(s, R) \subseteq PartIndexes(s.dag, s.gd)
  <1> SUFFICES ASSUME NEW r \in R, NEW b \in Ready(s.dag, DOMAIN r.tree)
               PROVE  IndexBlock(r, b, s.gd[b]) \in PartIndexes(s.dag, s.gd)
    BY DEF EnterAll
  <1>1. PICK D : D \in SUBSET DOMAIN s.dag /\ Closed(s.dag, D) /\ r = ReachOf(Part(s.gd, D))
    BY DEF PartIndexes
  <1>2. /\ IndexBlock(r, b, s.gd[b]) = ReachOf(Part(s.gd, D \cup {b}))
        /\ Closed(s.dag, D \cup {b}) /\ b \in DOMAIN s.dag
    BY <1>1, PartGrows
  <1> QED BY <1>1, <1>2 DEF PartIndexes

LEMMA RebuildExists ==
    ASSUME NEW s, WellFormed(s.dag, s.gd)
    PROVE  \E f : IsRebuild(s, f)
  <1>1. PICK N \in Nat : N = Cardinality(DOMAIN s.dag)
    BY FS_CardinalityType DEF WellFormed, Shape
  <1>2. PICK K : K = 0..N
    OBVIOUS
  <1>3. PICK rank : rank = [n \in K |-> n]
    OBVIOUS
  <1>4. PICK D : D = [n \in K |-> IF n = 0 THEN {} ELSE {n - 1}]
    OBVIOUS
  <1>5. PICK A : A = SUBSET PartIndexes(s.dag, s.gd)
    OBVIOUS
  <1>6. PICK H : H = [q \in K \X [K -> A] |-> RebuildStep(s, q[2], q[1])]
    OBVIOUS
  <1>7. IsFiniteSet(K) /\ A # {}
    <2>1. IsFiniteSet(0..N)
      BY FS_Interval
    <2>2. {} \in A
      BY <1>5
    <2> QED BY <1>2, <2>1, <2>2
  <1>8. Ranked(K, rank, D)
    BY <1>2, <1>3, <1>4 DEF Ranked
  <1>9. ASSUME NEW n \in K, NEW f \in [K -> A] PROVE H[<<n, f>>] = RebuildStep(s, f, n) /\ H[<<n, f>>] \in A
    <2>1. H[<<n, f>>] = RebuildStep(s, f, n)
      BY <1>6
    <2>2. CASE n = 0
      <3>1. EmptyIndex = ReachOf(Part(s.gd, {})) /\ Closed(s.dag, {})
        BY EmptyIsPart DEF Closed
      <3>2. EmptyIndex \in PartIndexes(s.dag, s.gd)
        BY <3>1 DEF PartIndexes
      <3> QED BY <1>5, <2>1, <2>2, <3>2 DEF RebuildStep
    <2>3. CASE n # 0
      <3>1. n - 1 \in K
        BY <1>2, <2>3
      <3>2. f[n - 1] \subseteq PartIndexes(s.dag, s.gd)
        BY <1>5, <3>1
      <3>3. EnterAll(s, f[n - 1]) \subseteq PartIndexes(s.dag, s.gd)
        BY <3>2, EnteredIsPart
      <3> QED BY <1>5, <2>1, <2>3, <3>3 DEF RebuildStep
    <2> QED BY <2>2, <2>3
  <1>10. ASSUME NEW n \in K, NEW f \in [K -> A], NEW g \in [K -> A], \A x \in D[n] : f[x] = g[x]
         PROVE  H[<<n, f>>] = H[<<n, g>>]
    <2>1. RebuildStep(s, f, n) = RebuildStep(s, g, n)
      BY <1>4, <1>10 DEF RebuildStep
    <2> QED BY <1>9, <2>1
  <1>11. DependsOn(K, A, D, H)
    BY <1>9, <1>10 DEF DependsOn
  <1>12. PICK f : Solves(H, A, K, K, f)
    BY <1>7, <1>8, <1>11, RecursionExists
  <1>13. f \in [K -> A] /\ \A n \in K : f[n] = RebuildStep(s, f, n)
    BY <1>9, <1>12 DEF Solves
  <1>14. f = [n \in 0..Cardinality(DOMAIN s.dag) |-> RebuildStep(s, f, n)]
    BY <1>1, <1>2, <1>13
  <1> QED BY <1>14 DEF IsRebuild

OfSize(s, n, r) ==
    \E D \in SUBSET DOMAIN s.dag : Closed(s.dag, D) /\ Cardinality(D) = n /\ r = ReachOf(Part(s.gd, D))

AllOfSize(s, n, R) == R # {} /\ \A r \in R : OfSize(s, n, r)

LEMMA EnteredIsLarger ==
    ASSUME NEW s, WellFormed(s.dag, s.gd), NEW n \in Nat, n + 1 <= Cardinality(DOMAIN s.dag),
           NEW R, AllOfSize(s, n, R)
    PROVE  AllOfSize(s, n + 1, EnterAll(s, R))
  <1>1. Shape(s.dag, s.gd) /\ IsFiniteSet(DOMAIN s.dag)
    BY DEF WellFormed, Shape
  <1>2. ASSUME NEW r \in R, NEW b \in Ready(s.dag, DOMAIN r.tree)
        PROVE  OfSize(s, n + 1, IndexBlock(r, b, s.gd[b]))
    <2>1. PICK D \in SUBSET DOMAIN s.dag : Closed(s.dag, D) /\ Cardinality(D) = n /\ r = ReachOf(Part(s.gd, D))
      BY <1>2 DEF AllOfSize, OfSize
    <2>2. /\ IndexBlock(r, b, s.gd[b]) = ReachOf(Part(s.gd, D \cup {b}))
          /\ Closed(s.dag, D \cup {b}) /\ b \notin D /\ b \in DOMAIN s.dag
      BY <1>2, <2>1, PartGrows
    <2>3. Cardinality(D \cup {b}) = n + 1
      BY <1>1, <2>1, <2>2, FS_Subset, FS_AddElement
    <2> QED BY <2>1, <2>2, <2>3 DEF OfSize
  <1>3. EnterAll(s, R) # {}
    <2>1. PICK r \in R : OfSize(s, n, r)
      BY DEF AllOfSize
    <2>2. PICK D \in SUBSET DOMAIN s.dag : Closed(s.dag, D) /\ Cardinality(D) = n /\ r = ReachOf(Part(s.gd, D))
      BY <2>1 DEF OfSize
    <2>3. D # DOMAIN s.dag
      BY <2>2
    <2>4. PICK b : b \in Ready(s.dag, D)
      BY <1>1, <2>2, <2>3, PartIsReady
    <2>5. DOMAIN r.tree = D
      <3>1. DOMAIN Part(s.gd, D) = D
        BY DEF Part
      <3> QED BY <2>2, <3>1, ReachIs
    <2>6. IndexBlock(r, b, s.gd[b]) \in EnterAll(s, R)
      BY <2>1, <2>4, <2>5 DEF EnterAll
    <2> QED BY <2>6
  <1> QED BY <1>2, <1>3 DEF AllOfSize, EnterAll

LEMMA RebuiltIsOwn ==
    ASSUME NEW s, WellFormed(s.dag, s.gd), s.reach = ReachOf(s.gd)
    PROVE  RebuiltIndexes(s) = {s.reach}
  <1>1. PICK N \in Nat : N = Cardinality(DOMAIN s.dag)
    BY FS_CardinalityType DEF WellFormed, Shape
  <1>2. PICK f : f = (CHOOSE g : IsRebuild(s, g)) /\ IsRebuild(s, f)
    BY RebuildExists
  <1>3. RebuiltIndexes(s) = f[N]
    BY <1>1, <1>2, RebuiltIs
  <1>4. \A n \in 0..N : f[n] = RebuildStep(s, f, n)
    BY <1>1, <1>2 DEF IsRebuild
  <1>5. PICK K : K = 0..N
    OBVIOUS
  <1>6. PICK rank : rank = [n \in K |-> n]
    OBVIOUS
  <1>7. PICK D : D = [n \in K |-> IF n = 0 THEN {} ELSE {n - 1}]
    OBVIOUS
  <1>8. PICK Good : Good = {n \in K : AllOfSize(s, n, f[n])}
    OBVIOUS
  <1>9. /\ \A n \in K : rank[n] \in Nat
        /\ \A n \in K : \A x \in D[n] : x \in K /\ rank[x] < rank[n]
    BY <1>5, <1>6, <1>7
  <1>10. ASSUME NEW n \in K, D[n] \subseteq Good PROVE n \in Good
    <2>1. CASE n = 0
      <3>1. f[n] = {EmptyIndex}
        BY <1>4, <1>5, <2>1 DEF RebuildStep
      <3>2. OfSize(s, 0, EmptyIndex)
        <4>1. Closed(s.dag, {}) /\ Cardinality({}) = 0 /\ {} \in SUBSET DOMAIN s.dag
          BY FS_EmptySet DEF Closed
        <4> QED BY <4>1, EmptyIsPart DEF OfSize
      <3> QED BY <1>8, <2>1, <3>1, <3>2 DEF AllOfSize
    <2>2. CASE n # 0
      <3>1. PICK m \in Nat : m = n - 1 /\ n = m + 1 /\ m \in K
        BY <1>5, <2>2
      <3>2. AllOfSize(s, m, f[m])
        BY <1>7, <1>8, <1>10, <2>2, <3>1
      <3>3. f[n] = EnterAll(s, f[m])
        BY <1>4, <1>5, <2>2, <3>1 DEF RebuildStep
      <3>4. m + 1 <= Cardinality(DOMAIN s.dag)
        BY <1>1, <1>5, <3>1
      <3>5. AllOfSize(s, n, f[n])
        BY <3>1, <3>2, <3>3, <3>4, EnteredIsLarger
      <3> QED BY <1>8, <3>5
    <2> QED BY <2>1, <2>2
  <1>11. \A n \in K : D[n] \subseteq Good => n \in Good
    BY <1>10
  <1>12. \A n \in K : n \in Good
    BY <1>9, <1>11, RankInduction
  <1>13. AllOfSize(s, N, f[N])
    BY <1>5, <1>8, <1>12
  <1>14. ASSUME NEW r, OfSize(s, N, r) PROVE r = s.reach
    <2>1. PICK E \in SUBSET DOMAIN s.dag : Cardinality(E) = N /\ r = ReachOf(Part(s.gd, E))
      BY <1>14 DEF OfSize
    <2>2. IsFiniteSet(DOMAIN s.dag) /\ DOMAIN s.gd = DOMAIN s.dag
      BY DEF WellFormed, Shape
    <2>3. E = DOMAIN s.gd
      BY <1>1, <2>1, <2>2, FS_Subset
    <2>4. PICK g : g = Part(s.gd, E)
      OBVIOUS
    <2>5. DOMAIN g = DOMAIN s.gd /\ \A x \in DOMAIN s.gd : g[x] = s.gd[x]
      BY <2>3, <2>4 DEF Part
    <2>6. TreeOf(g) = TreeOf(s.gd)
      BY <2>5 DEF TreeOf
    <2>7. CoverOf(g) = CoverOf(s.gd)
      BY <2>5 DEF CoverOf
    <2> QED BY <2>1, <2>4, <2>6, <2>7 DEF ReachOf
  <1> QED BY <1>3, <1>13, <1>14 DEF AllOfSize

(***************************************************************************)
(* A restart gives a settled node back.                                    *)
(***************************************************************************)
LEMMA ReloadSame ==
    ASSUME NEW s, Settled(s), NEW reach \in RebuiltIndexes(s)
    PROVE  RebuildDerived(s, reach) = s
  <1>1. IsChainState(s) /\ WellFormed(s.dag, s.gd)
    BY DEF Settled
  <1>3. reach = s.reach
    BY <1>1, RebuiltIsOwn DEF Settled
  <1>4. [s EXCEPT !.reach = reach] = s
    BY <1>1, <1>3, OneChanged DEF IsChainState
  <1>5. RebuildDerived(s, reach) = RecomputeVirtualState(s)
    BY <1>4 DEF RebuildDerived
  <1>6. PICK r : r = RecomputeVirtualState(s)
    OBVIOUS
  <1>7. /\ Settled(r) /\ r.dag = s.dag /\ r.gd = s.gd /\ r.tips = s.tips /\ r.base_frontier = s.base_frontier
        /\ r.base = s.base /\ r.reach = s.reach
    <2>1. /\ Bodied(s.dag) /\ s.reach = ReachOf(s.gd) /\ s.tips = Childless(s.dag)
          /\ s.base_frontier = FinalityPoint(s)
          /\ s.base = IF s.base_frontier = None THEN SeedLedger ELSE FullReplay(s, s.base_frontier)
      BY DEF Settled
    <2> QED BY <1>1, <1>6, <2>1, RecomputeFacts
  <1>8. r.ledger = s.ledger
    <2>1. r.ledger = FullReplay(r, SelectedTip(r)) /\ s.ledger = FullReplay(s, SelectedTip(s))
      BY <1>7 DEF Settled
    <2>2. SelectedTip(r) = SelectedTip(s)
      BY <1>7, PointSame
    <2> QED BY <1>7, <2>1, <2>2, FullReplaySame
  <1>9. IsChainState(r)
    BY <1>7 DEF Settled
  <1> QED BY <1>1, <1>5, <1>6, <1>7, <1>8, <1>9 DEF IsChainState

(***************************************************************************)
(* The first state.                                                        *)
(***************************************************************************)
LEMMA NewIsSettled ==
    Settled(NewChainState) /\ DOMAIN NewChainState.dag = {GENESIS}
    /\ FullReplay(NewChainState, GENESIS) = SeedLedger
  <1>1. PICK s : s = NewChainState
    OBVIOUS
  <1>2. PICK dag : dag = [b \in {GENESIS} |-> [parents |-> {}, body |-> <<>>, full |-> FALSE]]
    OBVIOUS
  <1>3. PICK gd : gd = [b \in {GENESIS} |-> GhostdagGenesis]
    OBVIOUS
  <1>4. PICK tr : tr = IndexBlock(EmptyIndex, GENESIS, GhostdagGenesis)
    OBVIOUS
  <1>5. s = Fields(dag, gd, {GENESIS}, SeedLedger, None, SeedLedger, tr)
    BY <1>1, <1>2, <1>3, <1>4 DEF NewChainState, Fields
  <1>6. /\ s.dag = dag /\ s.gd = gd /\ s.tips = {GENESIS} /\ s.base = SeedLedger /\ s.base_frontier = None
        /\ s.ledger = SeedLedger /\ s.reach = tr /\ IsChainState(s)
    BY <1>5, FieldsAre
  <1>7. /\ DOMAIN dag = {GENESIS} /\ DOMAIN gd = {GENESIS} /\ gd[GENESIS] = GhostdagGenesis
        /\ dag[GENESIS].parents = {} /\ dag[GENESIS].body = <<>>
    BY <1>2, <1>3
  <1>8. Shape(dag, gd)
    <2>1. IsFiniteSet({GENESIS})
      BY FS_Singleton
    <2>2. gd[GENESIS].blue_score = 0
      BY <1>7 DEF GhostdagGenesis
    <2> QED BY <1>7, <2>1, <2>2 DEF Shape, AllBlocks
  <1>9. WellFormed(dag, gd)
    BY <1>7, <1>8 DEF WellFormed
  <1>10. Bodied(dag)
    <2>1. <<>> \in Seq(Tx)
      OBVIOUS
    <2>2. dag[GENESIS].body \in Seq(Tx)
      BY <1>7, <2>1
    <2>3. \A b \in {GENESIS} : b \in AllBlocks /\ dag[b].body \in Seq(Tx)
      BY <2>2 DEF AllBlocks
    <2> QED BY <1>7, <2>3 DEF Bodied
  <1>11. tr = ReachOf(gd)
    <2>1. PICK g : g = Part(gd, {})
      OBVIOUS
    <2>2. DOMAIN g = {}
      BY <2>1 DEF Part
    <2>3. gd[GENESIS].selected_parent = None /\ MergedSet(gd, GENESIS) = {}
      BY <1>7, MergedOfGenesis DEF GhostdagGenesis
    <2>4. Indexable(g, GENESIS, gd[GENESIS])
      BY <2>2, <2>3 DEF Indexable, MergedSet
    <2>5. Plus(g, GENESIS, gd[GENESIS]) = gd
      BY <1>3, <2>2 DEF Plus
    <2>6. ReachOf(g) = EmptyIndex
      BY <2>1, EmptyIsPart
    <2> QED BY <1>4, <1>7, <2>4, <2>5, <2>6, IndexGrows
  <1>12. {GENESIS} = Childless(dag)
    BY <1>7 DEF Childless
  <1>13. PICK t : t = SelectedTip(s)
    OBVIOUS
  <1>14. t = GENESIS
    <2>1. t \in DOMAIN dag
      BY <1>6, <1>8, <1>12, <1>13, BestTip DEF SelectedTip
    <2> QED BY <1>7, <2>1
  <1>15. FinalityPoint(s) = None
    <2>1. FinalityPoint(s) = PointOf(gd, t)
      <3>1. t \in DOMAIN dag
        BY <1>7, <1>14
      <3> QED BY <1>6, <1>8, <1>13, <3>1, PointIs
    <2>2. gd[t].blue_score = 0 /\ FINALITY_DEPTH \in Nat
      BY <1>7, <1>14, ChainConstants DEF GhostdagGenesis
    <2>3. ~Deep(gd, t)
      BY <2>2 DEF Deep
    <2> QED BY <2>1, <2>3 DEF PointOf
  <1>16. FullReplay(s, GENESIS) = SeedLedger
    <2>1. CanonicalOrderAt(gd, GENESIS) = <<GENESIS>>
      BY <1>9, OrderOfGenesis
    <2>2. EffectAll(dag, SeedLedger, <<GENESIS>>) = EffectStep(dag, SeedLedger, GENESIS)
      BY <1>10, SeedTyped, EffectsOfOne
    <2>3. EffectStep(dag, SeedLedger, GENESIS) = SeedLedger
      BY <1>7 DEF EffectStep
    <2> QED BY <1>6, <2>1, <2>2, <2>3, FullReplayIs
  <1>17. Settled(s)
    <2>1. s.ledger = FullReplay(s, SelectedTip(s))
      BY <1>6, <1>13, <1>14, <1>16
    <2>2. s.base = IF s.base_frontier = None THEN SeedLedger ELSE FullReplay(s, s.base_frontier)
      BY <1>6
    <2> QED BY <1>6, <1>9, <1>10, <1>11, <1>12, <1>15, <2>1, <2>2 DEF Settled
  <1> QED BY <1>1, <1>6, <1>7, <1>16, <1>17

(***************************************************************************)
(* What a node holds is what was mined, and each header tells the replay   *)
(* of its block.                                                           *)
(***************************************************************************)
Recorded(nt, s) ==
    \A b \in DOMAIN s.dag :
       /\ b \in DOMAIN nt
       /\ s.dag[b] = [parents |-> nt[b].parents, body |-> nt[b].body, full |-> b # GENESIS]
       /\ nt[b].state_root = FullReplay(s, b)

NetBodied(nt) == \A b \in DOMAIN nt : nt[b].body \in Seq(Tx)

ArchivalInv ==
    /\ NetBodied(net)
    /\ DOMAIN node = Node
    /\ \A n \in Archival : Settled(node[n]) /\ Recorded(net, node[n])

NetGrows(nt, nt2) == DOMAIN nt \subseteq DOMAIN nt2 /\ \A b \in DOMAIN nt : nt2[b] = nt[b]

(***************************************************************************)
(* A step as an archival node sees it: nothing, or one block added.        *)
(***************************************************************************)
Adds(s, s2, nt2, b, blk) ==
    /\ b \in BlockId /\ b \in DOMAIN nt2 /\ nt2[b] = blk /\ blk.body \in Seq(Tx)
    /\ Admissible(s, b, blk) /\ s2 = AfterAdd(s, b, blk)

LEMMA SelectableIsSeq ==
    ASSUME NEW s, NEW body \in SelectableBodies(s)
    PROVE  body \in Seq(Tx)
  <1>1. body \in BoundedSeq(Tx, MaxBody)
    BY DEF SelectableBodies
  <1>2. PICK m \in 0..MaxBody : body \in [1..m -> Tx]
    BY <1>1 DEF BoundedSeq, SeqOf
  <1> QED BY <1>2, ChainConstants

LEMMA AddBlockSeen ==
    ASSUME NEW m \in Node, NEW b \in BlockId, NEW blk, AddBlock(m, b, blk), DOMAIN node = Node, NEW n \in Archival
    PROVE  /\ DOMAIN node' = Node
           /\ node'[n] = node[n] \/ (n = m /\ node'[n] = AfterAdd(node[n], b, blk))
  <1>1. n \in Node
    BY ChainConstants
  <1>2. CASE m \in Archival
    BY <1>1, <1>2 DEF AddBlock
  <1>3. CASE m \notin Archival
    <2>1. PICK v : node' = [node EXCEPT ![m] = v]
      BY <1>3 DEF AddBlock
    <2> QED BY <1>1, <1>3, <2>1
  <1> QED BY <1>2, <1>3

LEMMA StepSeen ==
    ASSUME ArchivalInv, [Next]_vars
    PROVE  /\ NetGrows(net, net') /\ NetBodied(net') /\ DOMAIN node' = Node
           /\ \A n \in Archival : \/ node'[n] = node[n]
                                  \/ \E b, blk : Adds(node[n], node'[n], net', b, blk)
  <1>1. NetBodied(net) /\ DOMAIN node = Node /\ \A n \in Archival : Settled(node[n])
    BY DEF ArchivalInv
  <1>2. CASE UNCHANGED vars
    BY <1>1, <1>2 DEF vars, NetGrows
  <1>3. ASSUME NEW m \in Node, Reload(m)
        PROVE  NetGrows(net, net') /\ NetBodied(net') /\ DOMAIN node' = Node
               /\ \A n \in Archival : node'[n] = node[n]
    <2>1. PICK reach \in RebuiltIndexes(node[m]) :
             net' = net /\ node' = [node EXCEPT ![m] = RebuildDerived(node[m], reach)]
      BY <1>3, Zenon DEF Reload
    <2>2. m \in Archival => RebuildDerived(node[m], reach) = node[m]
      BY <1>1, ReloadSame
    <2>3. \A n \in Archival : node'[n] = node[n]
      BY <1>1, <2>1, <2>2, ChainConstants
    <2> QED BY <1>1, <2>1, <2>3 DEF NetGrows
  <1>4. ASSUME NEW m \in Node, NEW b \in BlockId, Receive(m, b)
        PROVE  /\ NetGrows(net, net') /\ NetBodied(net') /\ DOMAIN node' = Node
               /\ \A n \in Archival : \/ node'[n] = node[n]
                                      \/ \E c, blk : Adds(node[n], node'[n], net', c, blk)
    <2>1. net' = net /\ b \in DOMAIN net /\ Admissible(node[m], b, net[b]) /\ AddBlock(m, b, net[b])
      BY <1>4 DEF Receive
    <2>2. PICK blk : blk = net[b]
      OBVIOUS
    <2>3. blk.body \in Seq(Tx) /\ net'[b] = blk /\ b \in DOMAIN net'
      BY <1>1, <2>1, <2>2 DEF NetBodied
    <2>4. NetGrows(net, net') /\ NetBodied(net')
      BY <1>1, <2>1 DEF NetGrows
    <2>5. ASSUME NEW n \in Archival
          PROVE  DOMAIN node' = Node /\ (node'[n] = node[n] \/ \E c, k : Adds(node[n], node'[n], net', c, k))
      <3>1. /\ DOMAIN node' = Node
            /\ node'[n] = node[n] \/ (n = m /\ node'[n] = AfterAdd(node[n], b, blk))
        BY <1>1, <2>1, <2>2, AddBlockSeen
      <3>2. n = m /\ node'[n] = AfterAdd(node[n], b, blk) => Adds(node[n], node'[n], net', b, blk)
        BY <2>1, <2>2, <2>3 DEF Adds
      <3> QED BY <3>1, <3>2
    <2>6. DOMAIN node' = Node
      <3>1. PICK v : node' = [node EXCEPT ![m] = v]
        BY <2>1 DEF AddBlock
      <3> QED BY <1>1, <3>1
    <2> QED BY <2>4, <2>5, <2>6
  <1>5. ASSUME NEW m \in Node, NEW b \in BlockId, Mine(m, b)
        PROVE  /\ NetGrows(net, net') /\ NetBodied(net') /\ DOMAIN node' = Node
               /\ \A n \in Archival : \/ node'[n] = node[n]
                                      \/ \E c, blk : Adds(node[n], node'[n], net', c, blk)
    <2>1. b \notin DOMAIN net
      BY <1>5 DEF Mine
    <2>2. PICK blk :
             /\ blk.body \in SelectableBodies(node[m]) /\ Admissible(node[m], b, blk) /\ AddBlock(m, b, blk)
             /\ net' = [x \in DOMAIN net \cup {b} |-> IF x = b THEN blk ELSE net[x]]
      <3>1. PICK body \in SelectableBodies(node[m]) :
              LET s       == node[m]
                  parents == TemplateParents(s)
                  data    == GhostdagOf(s, parents)
                  blk     == [parents |-> parents, body |-> body,
                              state_root |-> PostMergesetStateRoot(s, data, b, body)]
              IN /\ Admissible(s, b, blk)
                 /\ net' = [x \in DOMAIN net \cup {b} |-> IF x = b THEN blk ELSE net[x]]
                 /\ AddBlock(m, b, blk)
        BY <1>5, Zenon DEF Mine
      <3>2. PICK blk : blk = [parents |-> TemplateParents(node[m]), body |-> body,
                              state_root |-> PostMergesetStateRoot(node[m],
                                 GhostdagOf(node[m], TemplateParents(node[m])), b, body)]
        OBVIOUS
      <3>3. blk.body = body
        BY <3>2
      <3>4. /\ Admissible(node[m], b, blk) /\ AddBlock(m, b, blk)
            /\ net' = [x \in DOMAIN net \cup {b} |-> IF x = b THEN blk ELSE net[x]]
        BY <3>1, <3>2
      <3> QED BY <3>3, <3>4
    <2>3. blk.body \in Seq(Tx)
      BY <2>2, SelectableIsSeq
    <2>4. net'[b] = blk /\ b \in DOMAIN net' /\ DOMAIN net' = DOMAIN net \cup {b} /\ \A x \in DOMAIN net : net'[x] = net[x]
      BY <2>1, <2>2
    <2>5. NetGrows(net, net') /\ NetBodied(net')
      BY <1>1, <2>3, <2>4 DEF NetGrows, NetBodied
    <2>6. ASSUME NEW n \in Archival
          PROVE  node'[n] = node[n] \/ \E c, k : Adds(node[n], node'[n], net', c, k)
      <3>1. node'[n] = node[n] \/ (n = m /\ node'[n] = AfterAdd(node[n], b, blk))
        BY <1>1, <2>2, AddBlockSeen
      <3>2. n = m /\ node'[n] = AfterAdd(node[n], b, blk) => Adds(node[n], node'[n], net', b, blk)
        BY <2>2, <2>3, <2>4 DEF Adds
      <3> QED BY <3>1, <3>2
    <2>7. DOMAIN node' = Node
      <3>1. PICK v : node' = [node EXCEPT ![m] = v]
        BY <2>2 DEF AddBlock
      <3> QED BY <1>1, <3>1
    <2> QED BY <2>5, <2>6, <2>7
  <1> QED BY <1>2, <1>3, <1>4, <1>5 DEF Next

LEMMA AddsIs ==
    ASSUME NEW s, Settled(s), NEW s2, NEW nt2, NEW b, NEW blk, Adds(s, s2, nt2, b, blk)
    PROVE  \E s1 : AddFacts(s, b, blk, s1, s2)
  BY AddIs DEF Adds

LEMMA AddsDomain ==
    ASSUME NEW s, NEW s2, NEW nt2, NEW b, NEW blk, Adds(s, s2, nt2, b, blk), NEW s1, AddFacts(s, b, blk, s1, s2)
    PROVE  DOMAIN s2.dag = DOMAIN s.dag \cup {b} /\ b \notin DOMAIN s.dag
           /\ s2.dag[b] = HeldAs(blk) /\ \A x \in DOMAIN s.dag : s2.dag[x] = s.dag[x]
  <1>1. b \notin DOMAIN s.dag
    BY DEF Adds, Admissible
  <1>2. s2.dag = Plus(s.dag, b, HeldAs(blk))
    BY DEF AddFacts, Inserted
  <1> QED BY <1>1, <1>2 DEF Plus

LEMMA InvInit == Init => ArchivalInv
  <1> SUFFICES ASSUME Init PROVE ArchivalInv
    OBVIOUS
  <1>1. net = [b \in {GENESIS} |-> [parents |-> {}, body |-> <<>>, state_root |-> SeedLedger]]
        /\ node = [n \in Node |-> NewChainState]
    BY DEF Init
  <1>2. DOMAIN net = {GENESIS} /\ net[GENESIS].parents = {} /\ net[GENESIS].body = <<>>
        /\ net[GENESIS].state_root = SeedLedger
    BY <1>1
  <1>3. NetBodied(net)
    <2>1. <<>> \in Seq(Tx)
      OBVIOUS
    <2> QED BY <1>2, <2>1 DEF NetBodied
  <1>4. PICK s : s = NewChainState
    OBVIOUS
  <1>5. Settled(s) /\ DOMAIN s.dag = {GENESIS} /\ FullReplay(s, GENESIS) = SeedLedger
    BY <1>4, NewIsSettled
  <1>6. s.dag[GENESIS] = [parents |-> {}, body |-> <<>>, full |-> FALSE]
    BY <1>4 DEF NewChainState
  <1>7. Recorded(net, s)
    <2>1. s.dag[GENESIS] = [parents |-> net[GENESIS].parents, body |-> net[GENESIS].body, full |-> GENESIS # GENESIS]
      BY <1>2, <1>6
    <2> QED BY <1>2, <1>5, <2>1 DEF Recorded
  <1>8. \A n \in Archival : node[n] = s
    BY <1>1, <1>4, ChainConstants
  <1>9. DOMAIN node = Node
    BY <1>1
  <1> QED BY <1>3, <1>5, <1>7, <1>8, <1>9 DEF ArchivalInv

LEMMA InvNext == ArchivalInv /\ [Next]_vars => ArchivalInv'
  <1> SUFFICES ASSUME ArchivalInv, [Next]_vars PROVE ArchivalInv'
    OBVIOUS
  <1>1. /\ NetGrows(net, net') /\ NetBodied(net') /\ DOMAIN node' = Node
        /\ \A n \in Archival : \/ node'[n] = node[n]
                               \/ \E b, blk : Adds(node[n], node'[n], net', b, blk)
    BY StepSeen
  <1>2. ASSUME NEW n \in Archival PROVE Settled(node'[n]) /\ Recorded(net', node'[n])
    <2>1. PICK s : s = node[n]
      OBVIOUS
    <2>2. PICK s2 : s2 = node'[n]
      OBVIOUS
    <2>3. Settled(s) /\ Recorded(net, s)
      BY <1>2, <2>1 DEF ArchivalInv
    <2>4. CASE s2 = s
      BY <1>1, <2>2, <2>3, <2>4 DEF Recorded, NetGrows
    <2>5. CASE \E b, blk : Adds(s, s2, net', b, blk)
      <3>1. PICK b, blk : Adds(s, s2, net', b, blk)
        BY <2>5
      <3>2. PICK s1 : AddFacts(s, b, blk, s1, s2)
        BY <2>3, <3>1, AddsIs
      <3>3. Settled(s2)
        BY <3>2 DEF AddFacts
      <3>4. DOMAIN s2.dag = DOMAIN s.dag \cup {b} /\ b \notin DOMAIN s.dag
            /\ s2.dag[b] = HeldAs(blk) /\ \A x \in DOMAIN s.dag : s2.dag[x] = s.dag[x]
        BY <3>1, <3>2, AddsDomain
      <3>5. b \in BlockId /\ b # GENESIS /\ blk.body \in Seq(Tx) /\ Admissible(s, b, blk)
            /\ b \in DOMAIN net' /\ net'[b] = blk
        BY <3>1, ChainConstants DEF Adds
      <3>6. FullReplay(s2, b) = blk.state_root /\ \A x \in DOMAIN s.dag : FullReplay(s2, x) = FullReplay(s, x)
        BY <2>3, <3>2, <3>5, RootIs
      <3>7. ASSUME NEW x \in DOMAIN s2.dag
            PROVE  /\ x \in DOMAIN net'
                   /\ s2.dag[x] = [parents |-> net'[x].parents, body |-> net'[x].body, full |-> x # GENESIS]
                   /\ net'[x].state_root = FullReplay(s2, x)
        <4>1. CASE x = b
          BY <3>4, <3>5, <3>6, <4>1 DEF HeldAs
        <4>2. CASE x # b
          <5>1. x \in DOMAIN s.dag
            BY <3>4, <4>2
          <5>2. x \in DOMAIN net /\ s.dag[x] = [parents |-> net[x].parents, body |-> net[x].body, full |-> x # GENESIS]
                /\ net[x].state_root = FullReplay(s, x)
            BY <2>3, <5>1 DEF Recorded
          <5>3. x \in DOMAIN net' /\ net'[x] = net[x]
            BY <1>1, <5>2 DEF NetGrows
          <5> QED BY <3>4, <3>6, <5>1, <5>2, <5>3
        <4> QED BY <4>1, <4>2
      <3>8. Recorded(net', s2)
        BY <3>7 DEF Recorded
      <3> QED BY <2>2, <3>3, <3>8
    <2> QED BY <1>1, <2>1, <2>2, <2>4, <2>5
  <1> QED BY <1>1, <1>2 DEF ArchivalInv

(***************************************************************************)
(* The inductive invariant: a node that prunes nothing is settled between  *)
(* any two handlers, and holds of each block the body, the parents and the *)
(* state root it was mined with (`add_block`, `rebuild_derived`).          *)
(***************************************************************************)
THEOREM ArchivalSettled == Spec => []ArchivalInv
  BY InvInit, InvNext, PTL DEF Spec

(***************************************************************************)
(* The ledger that `advance_finalized_base` and `recompute_virtual_state`  *)
(* leave behind is the replay of the whole canonical order from genesis,   *)
(* whatever the order the blocks arrived in.                               *)
(***************************************************************************)
THEOREM LedgerReplays == Spec => []LedgerIsFullReplay
  <1>1. ArchivalInv => LedgerIsFullReplay
    BY DEF ArchivalInv, Settled, LedgerIsFullReplay
  <1> QED BY <1>1, ArchivalSettled, PTL

(***************************************************************************)
(* The state root in a block's header, checked once when the block is      *)
(* added, stays the replay of the block's own past for good                *)
(* (`post_mergeset_state_root`).                                           *)
(***************************************************************************)
THEOREM RootsReplay == Spec => []StateRootIsPastOnly
  <1>1. ArchivalInv => StateRootIsPastOnly
    BY DEF ArchivalInv, Recorded, StateRootIsPastOnly
  <1> QED BY <1>1, ArchivalSettled, PTL

(***************************************************************************)
(* A restart of a node that prunes nothing may put its blocks into the     *)
(* reachability index in any order that puts parents first, and builds the *)
(* index that `add_block` had grown in the order of arrival                *)
(* (`rebuild_derived`).                                                    *)
(***************************************************************************)
THEOREM ReplayRebuilds == Spec => []ReplayRebuildsIndex
  <1>1. ArchivalInv => ReplayRebuildsIndex
    BY RebuiltIsOwn DEF ArchivalInv, Settled, ReplayRebuildsIndex
  <1> QED BY <1>1, ArchivalSettled, PTL

(***************************************************************************)
(* On a node that prunes nothing `is_ancestor` answers of every pair of    *)
(* blocks what following the parents would.                                *)
(***************************************************************************)
THEOREM AnswersAreExact == Spec => []IndexIsExact
  <1>1. ArchivalInv => IndexIsExact
    BY IndexedPastIs DEF ArchivalInv, Settled, IndexIsExact
  <1> QED BY <1>1, ArchivalSettled, PTL

(***************************************************************************)
(* The finality point of a node that prunes nothing is on its next chain.  *)
(***************************************************************************)
TipHolds ==
    \A n \in Archival :
        LET fp == FinalityPoint(node[n]) IN
        fp # None => Contains(SelectedChain(node'[n].gd, Highest(node'[n].gd, node'[n].tips)), fp)

LEMMA ContainsIs ==
    ASSUME NEW V, NEW q \in Seq(V), NEW x \in ToSet(q)
    PROVE  Contains(q, x)
  BY ToSetIs DEF Contains

LEMMA FinalityKept == ArchivalInv /\ [Next]_vars => TipHolds
  <1> SUFFICES ASSUME ArchivalInv, [Next]_vars, NEW n \in Archival, FinalityPoint(node[n]) # None
               PROVE  Contains(SelectedChain(node'[n].gd, Highest(node'[n].gd, node'[n].tips)), FinalityPoint(node[n]))
    BY DEF TipHolds
  <1>1. PICK s : s = node[n]
    OBVIOUS
  <1>2. PICK s2 : s2 = node'[n]
    OBVIOUS
  <1>3. Settled(s)
    BY <1>1 DEF ArchivalInv
  <1>4. PICK f : f = FinalityPoint(s)
    OBVIOUS
  <1>5. PICK t2 : t2 = SelectedTip(s2)
    OBVIOUS
  <1>6. /\ f \in On(s2.gd, t2) /\ Settled(s2)
    <2>1. CASE s2 = s
      <3>1. PICK dag, gd : dag = s.dag /\ gd = s.gd /\ Shape(dag, gd)
        BY <1>3 DEF Settled, WellFormed
      <3>2. t2 \in DOMAIN dag
        <4>1. s.tips = Childless(dag)
          BY <1>3, <3>1 DEF Settled
        <4> QED BY <1>5, <2>1, <3>1, <4>1, BestTip DEF SelectedTip
      <3>3. f = PointOf(gd, t2)
        BY <1>4, <1>5, <2>1, <3>1, <3>2, PointIs
      <3>4. Deep(gd, t2)
        BY <1>1, <1>4, <3>3 DEF PointOf
      <3> QED BY <1>3, <2>1, <3>1, <3>2, <3>3, <3>4, PointFacts
    <2>2. CASE \E b, blk : Adds(s, s2, net', b, blk)
      <3>1. PICK b, blk : Adds(s, s2, net', b, blk)
        BY <2>2
      <3>2. PICK s1 : AddFacts(s, b, blk, s1, s2)
        BY <1>3, <3>1, AddsIs
      <3>3. f # None
        BY <1>1, <1>4
      <3> QED BY <1>4, <1>5, <3>2, <3>3 DEF AddFacts, PointMoved
    <2> QED BY <1>1, <1>2, <2>1, <2>2, StepSeen
  <1>7. SelectedChain(s2.gd, t2) \in Seq(DOMAIN s2.gd)
    <2>1. PICK dag, gd : dag = s2.dag /\ gd = s2.gd /\ Shape(dag, gd)
      BY <1>6 DEF Settled, WellFormed
    <2>2. t2 \in DOMAIN dag
      <3>1. s2.tips = Childless(dag)
        BY <1>6, <2>1 DEF Settled
      <3> QED BY <1>5, <2>1, <3>1, BestTip DEF SelectedTip
    <2>3. DOMAIN gd = DOMAIN dag /\ ChainFacts(gd)
      BY <2>1, SelectedChainIs DEF Shape
    <2> QED BY <2>1, <2>2, <2>3 DEF ChainFacts
  <1>8. Contains(SelectedChain(s2.gd, t2), f)
    BY <1>6, <1>7, ContainsIs DEF On
  <1> QED BY <1>1, <1>2, <1>4, <1>5, <1>8 DEF SelectedTip

(***************************************************************************)
(* In a network that mixes archival and pruned nodes, the finality point   *)
(* of an archival one never leaves its selected chain (the finality check  *)
(* of `add_block`).                                                        *)
(***************************************************************************)
THEOREM FinalityHolds == Spec => [][TipHolds]_vars
  <1>1. ArchivalInv /\ [Next]_vars => [TipHolds]_vars
    BY FinalityKept
  <1> QED BY <1>1, ArchivalSettled, PTL DEF Spec

(***************************************************************************)
(* Where every node keeps all its blocks, no finality point ever leaves    *)
(* the selected chain: a pruned node's own chain is left to the model      *)
(* checker.                                                                *)
(***************************************************************************)
THEOREM FinalityIsForGood == ASSUME Archival = Node PROVE Spec => FinalityNeverReverts
  <1>1. ArchivalInv /\ [Next]_vars => [FinalityStep]_vars
    BY FinalityKept DEF FinalityStep, TipHolds
  <1> QED BY <1>1, ArchivalSettled, PTL DEF Spec, FinalityNeverReverts

(***************************************************************************)
(* The selected-chain view of a settled node.                              *)
(***************************************************************************)
ViewChain(s) == [b \in DOMAIN s.gd |-> ToSet(SelectedChain(s.gd, b))]

ViewScore(s) == [b \in DOMAIN s.gd |-> s.gd[b].blue_score]

ViewFinal(s) ==
    {x \in ViewChain(s)[SelectedTip(s)] :
        /\ ViewScore(s)[SelectedTip(s)] > FINALITY_DEPTH
        /\ ViewScore(s)[x] <= ViewScore(s)[SelectedTip(s)] - FINALITY_DEPTH}

ViewRule(s, p) ==
    ViewFinal(s) = {} \/ \E fp \in ViewFinal(s) :
                            (fp \in ViewFinal(s) /\ \A x \in ViewFinal(s) : ViewScore(s)[x] <= ViewScore(s)[fp])
                            /\ fp \in ViewChain(s)[p]

ViewAdds(s, s2, b, p, g) ==
    /\ b \notin DOMAIN s.gd
    /\ ViewRule(s, p)
    /\ DOMAIN s2.gd = DOMAIN s.gd \cup {b}
    /\ ViewChain(s2) = [x \in DOMAIN s.gd \cup {b} |-> IF x = b THEN ViewChain(s)[p] \cup {b} ELSE ViewChain(s)[x]]
    /\ ViewScore(s2) = [x \in DOMAIN s.gd \cup {b} |-> IF x = b THEN ViewScore(s)[p] + g ELSE ViewScore(s)[x]]
    /\ SelectedTip(s2) = IF \/ ViewScore(s)[p] + g > ViewScore(s)[SelectedTip(s)]
                            \/ (ViewScore(s)[p] + g = ViewScore(s)[SelectedTip(s)] /\ b > SelectedTip(s))
                         THEN b ELSE SelectedTip(s)

LEMMA FinalIs ==
    ASSUME NEW s, NEW dag, NEW gd, dag = s.dag, gd = s.gd, Shape(dag, gd), NEW h \in DOMAIN dag, h = SelectedTip(s)
    PROVE  ViewFinal(s) = IF Deep(gd, h) THEN Buried(gd, h) ELSE {}
  <1>1. DOMAIN gd = DOMAIN dag /\ h \in DOMAIN gd
    BY DEF Shape
  <1>2. On(gd, h) \subseteq DOMAIN gd
    BY <1>1, ChainsFormTree DEF ChainTree, BelowOnChain
  <1>3. ViewChain(s)[h] = On(gd, h) /\ ViewScore(s)[h] = gd[h].blue_score
    BY <1>1 DEF ViewChain, ViewScore, On
  <1>4. \A x \in On(gd, h) : ViewScore(s)[x] = gd[x].blue_score
    BY <1>2 DEF ViewScore
  <1>5. \A x : x \in ViewFinal(s) <=> x \in On(gd, h) /\ Deep(gd, h) /\ gd[x].blue_score <= gd[h].blue_score - FINALITY_DEPTH
    BY <1>3, <1>4 DEF ViewFinal, Deep
  <1>6. \A x : x \in Buried(gd, h) <=> x \in On(gd, h) /\ gd[x].blue_score <= gd[h].blue_score - FINALITY_DEPTH
    BY DEF Buried
  <1> QED BY <1>5, <1>6

LEMMA AddIsView ==
    ASSUME NEW s, Settled(s), NEW s2, NEW nt2, NEW b, NEW blk, Adds(s, s2, nt2, b, blk)
    PROVE  \E p \in DOMAIN s.gd, g \in 1..(MAX_MERGESET_SIZE + 1) : ViewAdds(s, s2, b, p, g)
  <1>1. PICK s1 : AddFacts(s, b, blk, s1, s2)
    BY AddsIs
  <1>2. PICK dag : dag = s.dag
    OBVIOUS
  <1>3. PICK gd : gd = s.gd
    OBVIOUS
  <1>4. PICK d2 : d2 = s2.dag
    OBVIOUS
  <1>5. PICK g2 : g2 = s2.gd
    OBVIOUS
  <1>6. WellFormed(dag, gd) /\ WellFormed(d2, g2) /\ Shape(dag, gd) /\ Shape(d2, g2)
    BY <1>1, <1>2, <1>3, <1>4, <1>5 DEF AddFacts, Settled, WellFormed
  <1>7. PICK p : p = DataAs(s, blk).selected_parent
    OBVIOUS
  <1>8. PICK h : h = SelectedTip(s)
    OBVIOUS
  <1>9. PICK h2 : h2 = SelectedTip(s2)
    OBVIOUS
  <1>10. /\ p \in DOMAIN dag
         /\ On(g2, b) = On(gd, p) \cup {b}
         /\ \A x \in DOMAIN dag : On(g2, x) = On(gd, x) /\ g2[x] = gd[x]
         /\ FinalityPoint(s) # None => FinalityPoint(s) \in On(gd, p)
         /\ h \in DOMAIN dag /\ IsHighest(gd, DOMAIN dag, h)
         /\ h2 \in DOMAIN d2 /\ IsHighest(g2, DOMAIN d2, h2)
    BY <1>1, <1>2, <1>3, <1>4, <1>5, <1>7, <1>8, <1>9 DEF AddFacts, ChainGrown
  <1>11. DOMAIN d2 = DOMAIN dag \cup {b} /\ b \notin DOMAIN dag
    BY <1>1, <1>2, <1>4, AddsDomain
  <1>12. DOMAIN gd = DOMAIN dag /\ DOMAIN g2 = DOMAIN dag \cup {b}
    BY <1>6, <1>11 DEF Shape
  <1>13. g2[b] = DataAs(s, blk)
    <2>1. g2 = Plus(gd, b, DataAs(s, blk))
      BY <1>1, <1>3, <1>5 DEF AddFacts, Inserted
    <2> QED BY <2>1 DEF Plus
  <1>14. b # GENESIS
    BY ChainConstants DEF Adds
  <1>15. PICK g \in 1..(MAX_MERGESET_SIZE + 1) : g2[b].blue_score = gd[p].blue_score + g
    <2>1. b \in DOMAIN d2
      BY <1>11
    <2>2. PICK P : P = PastMap(d2)
      OBVIOUS
    <2>3. PICK sp, ms : MergeFacts(d2, g2, P, b, sp, ms)
      BY <1>6, <1>14, <2>1, <2>2, MergeIs
    <2>4. sp = p /\ g2[p] = gd[p]
      BY <1>7, <1>10, <1>13, <2>3 DEF MergeFacts
    <2>5. \E g \in 1..(MAX_MERGESET_SIZE + 1) : g2[b].blue_score = g2[sp].blue_score + g
      BY <2>3 DEF MergeFacts
    <2> QED BY <2>4, <2>5
  <1>16. \A x \in DOMAIN dag : ViewChain(s)[x] = On(gd, x) /\ ViewScore(s)[x] = gd[x].blue_score
    BY <1>3, <1>12 DEF ViewChain, ViewScore, On
  <1>17. ViewChain(s2) = [x \in DOMAIN dag \cup {b} |-> On(g2, x)]
         /\ ViewScore(s2) = [x \in DOMAIN dag \cup {b} |-> g2[x].blue_score]
    BY <1>5, <1>12 DEF ViewChain, ViewScore, On
  <1>18. ViewChain(s2) = [x \in DOMAIN dag \cup {b} |-> IF x = b THEN ViewChain(s)[p] \cup {b} ELSE ViewChain(s)[x]]
    <2>1. \A x \in DOMAIN dag \cup {b} : On(g2, x) = IF x = b THEN ViewChain(s)[p] \cup {b} ELSE ViewChain(s)[x]
      BY <1>10, <1>11, <1>16
    <2> QED BY <1>17, <2>1
  <1>19. ViewScore(s2) = [x \in DOMAIN dag \cup {b} |-> IF x = b THEN ViewScore(s)[p] + g ELSE ViewScore(s)[x]]
    <2>1. \A x \in DOMAIN dag \cup {b} : g2[x].blue_score = IF x = b THEN ViewScore(s)[p] + g ELSE ViewScore(s)[x]
      BY <1>10, <1>11, <1>15, <1>16
    <2> QED BY <1>17, <2>1
  <1>20. h2 = IF BeatsTip(g2, gd, b, h) THEN b ELSE h
    <2>1. \A x \in DOMAIN dag : g2[x] = gd[x]
      BY <1>10
    <2>2. Shape(dag, gd) /\ Shape(d2, g2)
      BY <1>6
    <2>3. IsHighest(gd, DOMAIN dag, h) /\ IsHighest(g2, DOMAIN d2, h2)
      BY <1>10
    <2> QED BY <1>11, <2>1, <2>2, <2>3, TipAfter, SMTT(60)
  <1>21. h2 = IF \/ ViewScore(s)[p] + g > ViewScore(s)[h]
                 \/ (ViewScore(s)[p] + g = ViewScore(s)[h] /\ b > h)
              THEN b ELSE h
    BY <1>10, <1>15, <1>16, <1>20 DEF BeatsTip
  <1>22. ViewRule(s, p)
    <2>1. ViewFinal(s) = IF Deep(gd, h) THEN Buried(gd, h) ELSE {}
      BY <1>2, <1>3, <1>6, <1>8, <1>10, FinalIs
    <2>2. CASE ~Deep(gd, h)
      BY <2>1, <2>2 DEF ViewRule
    <2>3. CASE Deep(gd, h)
      <3>1. PICK f : f = FinalityPoint(s)
        OBVIOUS
      <3>2. f = PointOf(gd, h)
        BY <1>3, <1>6, <1>8, <1>10, <3>1, PointIs
      <3>3. /\ IsHighest(gd, Buried(gd, h), f) /\ f \in On(gd, h) /\ f \in DOMAIN dag /\ f # None
            /\ \A x \in Buried(gd, h) : gd[x].blue_score <= gd[f].blue_score
        BY <1>6, <1>10, <2>3, <3>2, PointFacts
      <3>4. f \in Buried(gd, h)
        BY <3>3 DEF IsHighest
      <3>5. f \in ViewChain(s)[p]
        BY <1>10, <1>16, <3>1, <3>3
      <3>6. Buried(gd, h) \subseteq DOMAIN dag
        BY <1>6, <1>10, ChainsFormTree DEF Buried, ChainTree, BelowOnChain
      <3>7. \A x \in Buried(gd, h) : ViewScore(s)[x] <= ViewScore(s)[f]
        BY <1>16, <3>3, <3>6
      <3> QED BY <2>1, <2>3, <3>4, <3>5, <3>7 DEF ViewRule
    <2> QED BY <2>2, <2>3
  <1> QED BY <1>3, <1>5, <1>8, <1>9, <1>10, <1>11, <1>12, <1>18, <1>19, <1>21, <1>22 DEF ViewAdds

LEMMA ViewInit ==
    ASSUME Init, NEW n \in Archival
    PROVE  ChainView(n)!Init
  <1>1. PICK s : s = node[n]
    OBVIOUS
  <1>2. s = NewChainState
    BY <1>1, ChainConstants DEF Init
  <1>3. Settled(s) /\ DOMAIN s.dag = {GENESIS}
    BY <1>2, NewIsSettled
  <1>4. PICK dag, gd : dag = s.dag /\ gd = s.gd /\ Shape(dag, gd)
    BY <1>3 DEF Settled, WellFormed
  <1>5. DOMAIN gd = {GENESIS} /\ gd[GENESIS].blue_score = 0 /\ On(gd, GENESIS) = {GENESIS}
    BY <1>3, <1>4, OnIs DEF Shape, GhostdagGenesis
  <1>6. SelectedTip(s) = GENESIS
    <2>1. s.tips = Childless(dag)
      BY <1>3, <1>4 DEF Settled
    <2>2. SelectedTip(s) \in DOMAIN dag
      BY <1>4, <2>1, BestTip DEF SelectedTip
    <2> QED BY <1>3, <1>4, <2>2
  <1>7. [b \in DOMAIN gd |-> ToSet(SelectedChain(gd, b))] = [b \in {GENESIS} |-> {GENESIS}]
    BY <1>5 DEF On
  <1>8. [b \in DOMAIN gd |-> gd[b].blue_score] = [b \in {GENESIS} |-> 0]
    BY <1>5
  <1> QED BY <1>1, <1>4, <1>5, <1>6, <1>7, <1>8 DEF ChainView!Init

LEMMA ViewStep ==
    ASSUME ArchivalInv, [Next]_vars, NEW n \in Archival
    PROVE  [ChainView(n)!Next]_(ChainView(n)!vars)
  <1>1. PICK s : s = node[n]
    OBVIOUS
  <1>2. PICK s2 : s2 = node'[n]
    OBVIOUS
  <1>3. CASE s2 = s
    BY <1>1, <1>2, <1>3 DEF ChainView!vars
  <1>4. CASE \E b, blk : Adds(s, s2, net', b, blk)
    <2>1. Settled(s)
      BY <1>1 DEF ArchivalInv
    <2>2. PICK b, blk : Adds(s, s2, net', b, blk)
      BY <1>4
    <2>3. PICK p \in DOMAIN s.gd, g \in 1..(MAX_MERGESET_SIZE + 1) : ViewAdds(s, s2, b, p, g)
      BY <2>1, <2>2, AddIsView
    <2>4. b \in BlockId \cup {GENESIS}
      BY <2>2 DEF Adds
    <2>5. ChainView(n)!AddBlock(b, p, g)
      <3>1. ChainView(n)!Final = ViewFinal(s)
        BY <1>1 DEF ViewFinal, ViewChain, ViewScore, ChainView!Final
      <3>2. ChainView(n)!DescendsFromFinalityPoint(p)
        <4>1. \A fp : ChainView(n)!IsFinalityPoint(fp) <=>
                        fp \in ViewFinal(s) /\ \A x \in ViewFinal(s) : ViewScore(s)[x] <= ViewScore(s)[fp]
          BY <1>1, <3>1, Zenon DEF ViewScore, ChainView!IsFinalityPoint
        <4>2. ViewRule(s, p)
          BY <2>3 DEF ViewAdds
        <4> QED BY <1>1, <3>1, <4>1, <4>2 DEF ViewRule, ViewChain, ChainView!DescendsFromFinalityPoint
      <3>3. b \notin DOMAIN node[n].gd /\ DOMAIN node'[n].gd = DOMAIN node[n].gd \cup {b}
        BY <1>1, <1>2, <2>3 DEF ViewAdds
      <3>4. [x \in DOMAIN node'[n].gd |-> ToSet(SelectedChain(node'[n].gd, x))] =
               [x \in DOMAIN node[n].gd \cup {b} |->
                   IF x = b THEN ViewChain(node[n])[p] \cup {b} ELSE ViewChain(node[n])[x]]
        BY <1>1, <1>2, <2>3, <3>3 DEF ViewAdds, ViewChain
      <3>5. [x \in DOMAIN node'[n].gd |-> node'[n].gd[x].blue_score] =
               [x \in DOMAIN node[n].gd \cup {b} |->
                   IF x = b THEN ViewScore(node[n])[p] + g ELSE ViewScore(node[n])[x]]
        BY <1>1, <1>2, <2>3, <3>3 DEF ViewAdds, ViewScore
      <3>6. SelectedTip(node'[n]) =
               IF \/ ViewScore(node[n])[p] + g > ViewScore(node[n])[SelectedTip(node[n])]
                  \/ (ViewScore(node[n])[p] + g = ViewScore(node[n])[SelectedTip(node[n])] /\ b > SelectedTip(node[n]))
               THEN b ELSE SelectedTip(node[n])
        BY <1>1, <1>2, <2>3 DEF ViewAdds
      <3>7. SelectedTip(node[n])' = SelectedTip(node'[n])
        BY DEF SelectedTip
      <3> QED BY <3>2, <3>3, <3>4, <3>5, <3>6, <3>7 DEF ViewChain, ViewScore,
                 ChainView!AddBlock, ChainView!NewScore, ChainView!Beats
    <2>6. p \in DOMAIN node[n].gd
      BY <1>1
    <2>7. ChainView(n)!Next
      BY <2>4, <2>5, <2>6 DEF ChainView!Next
    <2> QED BY <2>7
  <1> QED BY <1>1, <1>2, <1>3, <1>4, StepSeen

(***************************************************************************)
(* The chain state of a node that prunes nothing implements the abstract   *)
(* finality chain: each step is one of its steps, or changes nothing of    *)
(* it.                                                                     *)
(***************************************************************************)
THEOREM ChainImplements == Spec => ImplementsFinalityChain
  <1>1. Init => \A n \in Archival : ChainView(n)!Init
    BY ViewInit
  <1>2. ArchivalInv /\ [Next]_vars => [\A n \in Archival : [ChainView(n)!Next]_(ChainView(n)!vars)]_vars
    BY ViewStep
  <1> QED BY <1>1, <1>2, ArchivalSettled, PTL DEF Spec, ImplementsFinalityChain

(***************************************************************************)
(* The blue sets are k-clusters.                                           *)
(***************************************************************************)
LEMMA BluesOfGenesis ==
    ASSUME NEW dag, NEW gd, Shape(dag, gd)
    PROVE  MaterializedBlues(gd, GENESIS) = {GENESIS}
  <1>1. On(gd, GENESIS) = {GENESIS} /\ gd[GENESIS].mergeset_blues = <<>>
    <2>1. gd[GENESIS] = GhostdagGenesis
      BY DEF Shape
    <2> QED BY <2>1, OnIs DEF GhostdagGenesis
  <1>2. ToSet(<<>>) = {}
    BY DEF ToSet
  <1>3. UNION {ToSet(gd[c].mergeset_blues) : c \in On(gd, GENESIS)} = {}
    BY <1>1, <1>2
  <1> QED BY <1>3, BluesIs

LEMMA BluesOfBlock ==
    ASSUME NEW dag, NEW gd, WellFormed(dag, gd), NEW b \in DOMAIN dag, b # GENESIS,
           NEW sp, sp = gd[b].selected_parent
    PROVE  MaterializedBlues(gd, b) = {b} \cup (MaterializedBlues(gd, sp) \cup ToSet(gd[b].mergeset_blues))
  <1>1. On(gd, b) = On(gd, sp) \cup {b}
    <2>1. Shape(dag, gd) /\ b \in DOMAIN gd
      BY DEF WellFormed, Shape
    <2> QED BY <2>1, OnIs
  <1>2. sp \in ToSet(gd[b].mergeset_blues)
    BY BluesAreMerged
  <1>3. PICK M : M = On(gd, sp)
    OBVIOUS
  <1>4. PICK B : B = [c \in M \cup {b} |-> ToSet(gd[c].mergeset_blues)]
    OBVIOUS
  <1>5. {ToSet(gd[c].mergeset_blues) : c \in On(gd, b)} = {B[c] : c \in M \cup {b}}
    BY <1>1, <1>3, <1>4
  <1>6. {ToSet(gd[c].mergeset_blues) : c \in M} = {B[c] : c \in M}
    BY <1>4
  <1>7. PICK U : U = UNION {B[c] : c \in M}
    OBVIOUS
  <1>8. UNION {B[c] : c \in M \cup {b}} = U \cup B[b]
    <2>1. \A x : x \in UNION {B[c] : c \in M \cup {b}} <=> \E c \in M \cup {b} : x \in B[c]
      OBVIOUS
    <2>2. \A x : x \in U <=> \E c \in M : x \in B[c]
      BY <1>7
    <2>3. \A x : x \in UNION {B[c] : c \in M \cup {b}} <=> x \in U \cup B[b]
      BY <2>1, <2>2
    <2> QED BY <2>3
  <1>9. MaterializedBlues(gd, b) = {b} \cup (U \cup B[b])
    BY <1>5, <1>8, BluesIs
  <1>10. MaterializedBlues(gd, sp) = {sp} \cup U
    BY <1>3, <1>6, <1>7, BluesIs
  <1>11. B[b] = ToSet(gd[b].mergeset_blues)
    BY <1>4
  <1> QED BY <1>2, <1>9, <1>10, <1>11

LEMMA KClusterTop ==
    ASSUME NEW P, NEW S, KCluster(P, S), NEW b, (\A x \in S : x \in P[b])
    PROVE  KCluster(P, S \cup {b})
  <1>1. CASE b \in S
    <2>1. S \cup {b} = S
      BY <1>1
    <2> QED BY <2>1
  <1>2. CASE b \notin S
    <2>1. IsFiniteSet(S \cup {b})
      BY FS_AddElement DEF KCluster
    <2>2. ASSUME NEW x \in S PROVE AnticoneIn(P, S \cup {b}, x) = AnticoneIn(P, S, x)
      BY DEF AnticoneIn, InAnticone
    <2>3. AnticoneIn(P, S \cup {b}, b) = {}
      BY DEF AnticoneIn, InAnticone
    <2>4. Cardinality({}) = 0 /\ GHOSTDAG_K \in Nat
      BY FS_EmptySet, GhostdagConstants
    <2>5. \A x \in S \cup {b} : Cardinality(AnticoneIn(P, S \cup {b}, x)) <= GHOSTDAG_K
      BY <2>2, <2>3, <2>4 DEF KCluster
    <2> QED BY <2>1, <2>5 DEF KCluster
  <1> QED BY <1>1, <1>2

LEMMA BluesCluster ==
    ASSUME NEW dag, NEW gd, WellFormed(dag, gd), NEW P, P = PastMap(dag)
    PROVE  \A b \in DOMAIN dag : KCluster(P, MaterializedBlues(gd, b))
  <1>1. PICK K : K = DOMAIN dag
    OBVIOUS
  <1>2. Shape(dag, gd)
    BY DEF WellFormed
  <1>3. PICK rank : rank = [b \in K |-> gd[b].blue_score]
    OBVIOUS
  <1>4. PICK D : D = [b \in K |-> IF b = GENESIS THEN {} ELSE {gd[b].selected_parent}]
    OBVIOUS
  <1>5. PICK Good : Good = {b \in K : KCluster(P, MaterializedBlues(gd, b))}
    OBVIOUS
  <1>6. \A b \in K : rank[b] \in Nat
    BY <1>1, <1>2, <1>3 DEF Shape
  <1>7. \A b \in K : \A x \in D[b] : x \in K /\ rank[x] < rank[b]
    <2> SUFFICES ASSUME NEW b \in K, NEW x \in D[b] PROVE x \in K /\ rank[x] < rank[b]
      OBVIOUS
    <2>1. b # GENESIS /\ x = gd[b].selected_parent
      BY <1>4
    <2> QED BY <1>1, <1>2, <1>3, <2>1, SelectedParentIs
  <1>8. \A b \in K : D[b] \subseteq Good => b \in Good
    <2> SUFFICES ASSUME NEW b \in K, D[b] \subseteq Good PROVE b \in Good
      OBVIOUS
    <2>1. CASE b = GENESIS
      <3>1. KCluster(P, {GENESIS})
        <4>1. IsFiniteSet({GENESIS})
          BY FS_Singleton
        <4>2. AnticoneIn(P, {GENESIS}, GENESIS) = {}
          BY DEF AnticoneIn, InAnticone
        <4>3. Cardinality({}) = 0 /\ GHOSTDAG_K \in Nat
          BY FS_EmptySet, GhostdagConstants
        <4>4. \A x \in {GENESIS} : Cardinality(AnticoneIn(P, {GENESIS}, x)) <= GHOSTDAG_K
          BY <4>2, <4>3
        <4> QED BY <4>1, <4>4 DEF KCluster
      <3> QED BY <1>2, <1>5, <2>1, <3>1, BluesOfGenesis
    <2>2. CASE b # GENESIS
      <3>1. PICK sp, ms : MergeFacts(dag, gd, P, b, sp, ms)
        BY <1>1, <2>2, MergeIs
      <3>2. sp = gd[b].selected_parent /\ sp \in K /\ sp \in P[b] /\ P[sp] \subseteq P[b]
        BY <1>1, <3>1 DEF MergeFacts
      <3>3. KCluster(P, MaterializedBlues(gd, sp))
        BY <1>4, <1>5, <2>2, <3>2
      <3>4. PICK S : S = MaterializedBlues(gd, sp) \cup ToSet(gd[b].mergeset_blues)
        OBVIOUS
      <3>5. KCluster(P, S)
        BY <3>1, <3>3, <3>4 DEF MergeFacts, DataFacts
      <3>6. \A x \in S : x \in P[b]
        <4>1. MaterializedBlues(gd, sp) \subseteq P[sp] \cup {sp}
          BY <1>1, <3>2, BluesInPast
        <4>2. ToSet(gd[b].mergeset_blues) \subseteq P[b]
          BY <1>1, BluesAreMerged
        <4> QED BY <3>2, <3>4, <4>1, <4>2
      <3>7. KCluster(P, S \cup {b})
        BY <3>5, <3>6, KClusterTop
      <3>8. MaterializedBlues(gd, b) = S \cup {b}
        <4>1. MaterializedBlues(gd, b) = {b} \cup (MaterializedBlues(gd, sp) \cup ToSet(gd[b].mergeset_blues))
          BY <1>1, <2>2, <3>2, BluesOfBlock
        <4> QED BY <3>4, <4>1
      <3> QED BY <1>5, <3>7, <3>8
    <2> QED BY <2>1, <2>2
  <1>9. \A b \in K : b \in Good
    BY <1>6, <1>7, <1>8, RankInduction
  <1> QED BY <1>1, <1>5, <1>9

(***************************************************************************)
(* Two nodes that hold the same headers gave them the same data.           *)
(***************************************************************************)
SameBlocks(d1, d2, X) == SameParents(d1, d2, X) /\ \A b \in X : d1[b].body = d2[b].body

LowerIn(gd, x, b) == gd[x].blue_score < gd[b].blue_score

LEMMA DataAgree ==
    ASSUME NEW d1, NEW g1, WellFormed(d1, g1), NEW d2, NEW g2, WellFormed(d2, g2), NEW X, SameBlocks(d1, d2, X)
    PROVE  (\A b \in X : g1[b] = g2[b]) /\ Agree(d1, g1, d2, g2, X)
  <1>1. Shape(d1, g1) /\ Shape(d2, g2)
    BY DEF WellFormed
  <1>2. PICK P : P = PastMap(d1)
    OBVIOUS
  <1>3. X \subseteq DOMAIN d1 /\ X \subseteq DOMAIN d2
        /\ \A b \in X : d1[b].parents = d2[b].parents /\ d1[b].parents \subseteq X
    BY DEF SameParents, SameBlocks
  <1>4. \A b \in X : P[b] \subseteq X
    <2>1. SameParents(d1, d2, X)
      BY DEF SameBlocks
    <2> QED BY <1>1, <1>2, <2>1, PastLocal
  <1>5. /\ \A b \in X : \A x \in P[b] : LowerIn(g1, x, b) /\ P[x] \subseteq P[b]
        /\ \A b \in X : \A p \in d1[b].parents : p \in P[b]
    BY <1>1, <1>2, <1>3, PastIs DEF PastFacts, LowerIn
  <1>6. PICK rank : rank = [b \in X |-> g1[b].blue_score]
    OBVIOUS
  <1>7. PICK Good : Good = {b \in X : g1[b] = g2[b]}
    OBVIOUS
  <1>8. PICK D : D = [b \in X |-> P[b]]
    OBVIOUS
  <1>9. \A b \in X : rank[b] \in Nat
    BY <1>1, <1>3, <1>6 DEF Shape
  <1>10. \A b \in X : \A x \in D[b] : x \in X /\ rank[x] < rank[b]
    BY <1>4, <1>5, <1>6, <1>8 DEF LowerIn
  <1>11. \A b \in X : D[b] \subseteq Good => b \in Good
    <2> SUFFICES ASSUME NEW b \in X, D[b] \subseteq Good PROVE b \in Good
      OBVIOUS
    <2>1. CASE b = GENESIS
      BY <1>1, <1>7, <2>1 DEF Shape
    <2>2. CASE b # GENESIS
      <3>1. PICK Y : Y = P[b]
        OBVIOUS
      <3>2. Y \subseteq X /\ \A x \in Y : g1[x] = g2[x]
        BY <1>7, <1>8, <3>1
      <3>3. ASSUME NEW x \in Y PROVE d1[x].parents \subseteq Y
        <4>1. x \in X
          BY <3>2
        <4>2. P[x] \subseteq Y
          BY <1>5, <3>1
        <4> QED BY <1>5, <4>1, <4>2
      <3>4. Agree(d1, g1, d2, g2, Y)
        BY <1>3, <3>2, <3>3 DEF Agree, SameBlocks
      <3>5. PICK Q : Q = d1[b].parents
        OBVIOUS
      <3>6. Q \subseteq Y /\ Q # {} /\ Q = d2[b].parents
        BY <1>1, <1>3, <1>5, <2>2, <3>1, <3>5 DEF Shape
      <3>7. DataByPast(d1, g1, Q) = DataByPast(d2, g2, Q)
        BY <1>1, <3>4, <3>6, DataLocal
      <3>8. g1[b] = DataByPast(d1, g1, Q) /\ g2[b] = DataByPast(d2, g2, Q)
        BY <1>3, <2>2, <3>5, <3>6 DEF WellFormed
      <3> QED BY <1>7, <3>7, <3>8
    <2> QED BY <2>1, <2>2
  <1>12. \A b \in X : b \in Good
    BY <1>9, <1>10, <1>11, RankInduction
  <1>13. \A b \in X : g1[b] = g2[b]
    BY <1>7, <1>12
  <1>14. Agree(d1, g1, d2, g2, X)
    BY <1>3, <1>13 DEF Agree, SameBlocks
  <1> QED BY <1>13, <1>14

(***************************************************************************)
(* `BluesFormKCluster`, of the nodes that prune nothing.                   *)
(***************************************************************************)
BluesClusterOn ==
    \A n \in Archival : \A b \in DOMAIN node[n].gd :
        LET past  == PastMap(node[n].dag)
            blues == MaterializedBlues(node[n].gd, b)
        IN \A x \in blues : Cardinality({y \in blues : InAnticone(past, x, y)}) <= GHOSTDAG_K

(***************************************************************************)
(* The blue blocks of every block of a node that prunes nothing form a     *)
(* k-cluster: none has more than GHOSTDAG_K of the others in its anticone  *)
(* (`color_candidate_blue`, which tests only the candidate and the blues   *)
(* it meets).                                                              *)
(***************************************************************************)
THEOREM BluesAreCluster == Spec => []BluesClusterOn
  <1>1. ArchivalInv => BluesClusterOn
    <2> SUFFICES ASSUME ArchivalInv, NEW n \in Archival, NEW b \in DOMAIN node[n].gd,
                        NEW x \in MaterializedBlues(node[n].gd, b)
                 PROVE  Cardinality({y \in MaterializedBlues(node[n].gd, b) : InAnticone(PastMap(node[n].dag), x, y)})
                           <= GHOSTDAG_K
      BY DEF BluesClusterOn
    <2>1. PICK dag, gd : dag = node[n].dag /\ gd = node[n].gd /\ WellFormed(dag, gd)
      BY DEF ArchivalInv, Settled
    <2>2. b \in DOMAIN dag
      BY <2>1 DEF WellFormed, Shape
    <2>3. KCluster(PastMap(dag), MaterializedBlues(gd, b))
      BY <2>1, <2>2, BluesCluster
    <2> QED BY <2>1, <2>3 DEF KCluster, AnticoneIn
  <1> QED BY <1>1, ArchivalSettled, PTL

(***************************************************************************)
(* The same for every node of a network that prunes nothing.               *)
(***************************************************************************)
THEOREM BluesFormCluster == ASSUME Archival = Node PROVE Spec => []BluesFormKCluster
  <1>1. BluesClusterOn => BluesFormKCluster
    BY DEF BluesClusterOn, BluesFormKCluster
  <1> QED BY <1>1, BluesAreCluster, PTL

(***************************************************************************)
(* Two nodes that prune nothing.                                           *)
(***************************************************************************)
LEMMA RecordsAgree ==
    ASSUME NEW nt, NEW s1, NEW s2, Settled(s1), Settled(s2), Recorded(nt, s1), Recorded(nt, s2),
           NEW X, X = DOMAIN s1.dag \cap DOMAIN s2.dag
    PROVE  Agree(s1.dag, s1.gd, s2.dag, s2.gd, X)
  <1>1. PICK d1, g1 : d1 = s1.dag /\ g1 = s1.gd /\ WellFormed(d1, g1)
    BY DEF Settled
  <1>2. PICK d2, g2 : d2 = s2.dag /\ g2 = s2.gd /\ WellFormed(d2, g2)
    BY DEF Settled
  <1>3. ASSUME NEW b \in X
        PROVE  d1[b].parents = d2[b].parents /\ d1[b].body = d2[b].body
    <2>1. d1[b] = [parents |-> nt[b].parents, body |-> nt[b].body, full |-> b # GENESIS]
      BY <1>1, <1>3 DEF Recorded
    <2>2. d2[b] = [parents |-> nt[b].parents, body |-> nt[b].body, full |-> b # GENESIS]
      BY <1>2, <1>3 DEF Recorded
    <2> QED BY <2>1, <2>2
  <1>4. ASSUME NEW b \in X PROVE d1[b].parents \subseteq X
    <2>1. d1[b].parents \subseteq DOMAIN d1
      BY <1>1, <1>4 DEF WellFormed, Shape
    <2>2. d2[b].parents \subseteq DOMAIN d2
      BY <1>2, <1>4 DEF WellFormed, Shape
    <2> QED BY <1>1, <1>2, <1>3, <2>1, <2>2
  <1>5. X \subseteq DOMAIN d1 /\ X \subseteq DOMAIN d2
    BY <1>1, <1>2
  <1>6. SameBlocks(d1, d2, X)
    BY <1>3, <1>4, <1>5 DEF SameBlocks, SameParents
  <1> QED BY <1>1, <1>2, <1>6, DataAgree

(***************************************************************************)
(* Blocks that two nodes hold have the same GHOSTDAG data on both.         *)
(***************************************************************************)
ScoredAlike ==
    \A m, n \in Archival : \A b \in DOMAIN node[m].gd \cap DOMAIN node[n].gd : node[m].gd[b] = node[n].gd[b]

(***************************************************************************)
(* Two nodes that prune nothing give each block they share the same score, *)
(* selected parent and colours, whatever else each of them holds.          *)
(***************************************************************************)
THEOREM BlocksScoreAlike == Spec => []ScoredAlike
  <1>1. ArchivalInv => ScoredAlike
    <2> SUFFICES ASSUME ArchivalInv, NEW m \in Archival, NEW n \in Archival,
                        NEW b \in DOMAIN node[m].gd \cap DOMAIN node[n].gd
                 PROVE  node[m].gd[b] = node[n].gd[b]
      BY DEF ScoredAlike
    <2>1. PICK s1 : s1 = node[m]
      OBVIOUS
    <2>2. PICK s2 : s2 = node[n]
      OBVIOUS
    <2>3. Settled(s1) /\ Recorded(net, s1) /\ Settled(s2) /\ Recorded(net, s2)
      BY <2>1, <2>2 DEF ArchivalInv
    <2>4. PICK X : X = DOMAIN s1.dag \cap DOMAIN s2.dag
      OBVIOUS
    <2>5. b \in X
      BY <2>1, <2>2, <2>3, <2>4 DEF Settled, WellFormed, Shape
    <2>6. Agree(s1.dag, s1.gd, s2.dag, s2.gd, X)
      BY <2>3, <2>4, RecordsAgree
    <2> QED BY <2>1, <2>2, <2>5, <2>6 DEF Agree
  <1> QED BY <1>1, ArchivalSettled, PTL

(***************************************************************************)
(* Two nodes with the same tip, frontier, base and ledger.                 *)
(***************************************************************************)
SameState(s1, s2) ==
    /\ SelectedTip(s1) = SelectedTip(s2)
    /\ s1.base_frontier = s2.base_frontier
    /\ s1.base = s2.base
    /\ s1.ledger = s2.ledger

LEMMA SameBlocksSameState ==
    ASSUME NEW nt, NEW s1, NEW s2, Settled(s1), Settled(s2), Recorded(nt, s1), Recorded(nt, s2),
           DOMAIN s1.dag = DOMAIN s2.dag
    PROVE  SameState(s1, s2)
  <1>1. PICK d1, g1 : d1 = s1.dag /\ g1 = s1.gd /\ WellFormed(d1, g1) /\ Shape(d1, g1)
    BY DEF Settled, WellFormed
  <1>2. PICK d2, g2 : d2 = s2.dag /\ g2 = s2.gd /\ WellFormed(d2, g2) /\ Shape(d2, g2)
    BY DEF Settled, WellFormed
  <1>3. PICK X : X = DOMAIN d1
    OBVIOUS
  <1>4. X = DOMAIN d2 /\ X = DOMAIN s1.dag \cap DOMAIN s2.dag
    BY <1>1, <1>2, <1>3
  <1>5. Agree(s1.dag, s1.gd, s2.dag, s2.gd, X)
    BY <1>4, RecordsAgree
  <1>6. Agree(d1, g1, d2, g2, X)
    BY <1>1, <1>2, <1>5
  <1>7. \A b \in X : d1[b].parents = d2[b].parents /\ g1[b] = g2[b]
    BY <1>6 DEF Agree
  <1>8. s1.tips = s2.tips /\ s1.tips = Childless(d1)
    <2>1. Childless(d1) = Childless(d2)
      BY <1>3, <1>4, <1>7 DEF Childless
    <2> QED BY <1>1, <1>2, <2>1 DEF Settled
  <1>9. PICK t : t = SelectedTip(s1)
    OBVIOUS
  <1>10. t \in X /\ IsHighest(g1, X, t)
    BY <1>1, <1>3, <1>8, <1>9, BestTip DEF SelectedTip
  <1>11. t = SelectedTip(s2)
    <2>1. PICK t2 : t2 = SelectedTip(s2)
      OBVIOUS
    <2>2. IsHighest(g2, X, t2)
      <3>1. s2.tips = Childless(d2)
        BY <1>2 DEF Settled
      <3> QED BY <1>2, <1>4, <2>1, <3>1, BestTip DEF SelectedTip
    <2>3. IsHighest(g2, X, t)
      BY <1>7, <1>10 DEF IsHighest, HigherBlock
    <2>4. Scored(g2, X)
      BY <1>2, <1>4, ShapeScored
    <2> QED BY <2>1, <2>2, <2>3, <2>4, OneHighest
  <1>12. PointOf(g1, t) = PointOf(g2, t)
    <2>1. On(g1, t) = On(g2, t) /\ On(g1, t) \subseteq X
      BY <1>1, <1>2, <1>6, <1>10, ChainLocal DEF On
    <2>2. g1[t] = g2[t] /\ \A x \in On(g1, t) : g1[x] = g2[x]
      BY <1>7, <1>10, <2>1
    <2>3. Buried(g1, t) = Buried(g2, t)
      BY <2>1, <2>2 DEF Buried
    <2>4. Deep(g1, t) <=> Deep(g2, t)
      BY <2>2 DEF Deep
    <2>5. CASE Deep(g1, t)
      <3>1. PICK S : S = Buried(g1, t)
        OBVIOUS
      <3>2. S # {}
        BY <1>1, <1>3, <1>10, <2>5, <3>1, PointFacts DEF IsHighest
      <3>3. S \subseteq X
        BY <2>1, <3>1 DEF Buried
      <3>4. Highest(g1, S) = Highest(g2, S)
        <4>1. S \subseteq DOMAIN d1 /\ S \subseteq DOMAIN d2 /\ \A x \in S : g1[x] = g2[x]
          BY <1>3, <1>4, <1>7, <3>3
        <4> QED BY <1>1, <1>2, <3>2, <4>1, HighestLocal
      <3> QED BY <2>3, <2>4, <2>5, <3>1, <3>4 DEF PointOf
    <2>6. CASE ~Deep(g1, t)
      BY <2>4, <2>6 DEF PointOf
    <2> QED BY <2>5, <2>6
  <1>13. PICK f : f = s1.base_frontier
    OBVIOUS
  <1>14. f = PointOf(g1, t) /\ f = s2.base_frontier
    <2>1. FinalityPoint(s1) = PointOf(g1, t)
      BY <1>1, <1>3, <1>9, <1>10, PointIs
    <2>2. FinalityPoint(s2) = PointOf(g2, t)
      BY <1>2, <1>4, <1>10, <1>11, PointIs
    <2> QED BY <1>12, <1>13, <2>1, <2>2 DEF Settled
  <1>15. \A b \in X : FullReplay(s1, b) = FullReplay(s2, b)
    <2>1. WellFormed(s1.dag, s1.gd) /\ WellFormed(s2.dag, s2.gd) /\ Bodied(s1.dag) /\ Bodied(s2.dag)
      BY DEF Settled
    <2> QED BY <1>5, <2>1, ReplayLocal
  <1>16. f # None => f \in X
    <2> SUFFICES ASSUME f # None PROVE f \in X
      OBVIOUS
    <2>1. Deep(g1, t)
      BY <1>14 DEF PointOf
    <2> QED BY <1>1, <1>3, <1>10, <1>14, <2>1, PointFacts
  <1>17. s1.base = s2.base
    <2>1. s1.base = IF f = None THEN SeedLedger ELSE FullReplay(s1, f)
      BY <1>13 DEF Settled
    <2>2. s2.base = IF f = None THEN SeedLedger ELSE FullReplay(s2, f)
      BY <1>14 DEF Settled
    <2> QED BY <1>15, <1>16, <2>1, <2>2
  <1>18. s1.ledger = s2.ledger
    <2>1. s1.ledger = FullReplay(s1, t) /\ s2.ledger = FullReplay(s2, t)
      BY <1>9, <1>11 DEF Settled
    <2> QED BY <1>10, <1>15, <2>1
  <1> QED BY <1>9, <1>11, <1>13, <1>14, <1>17, <1>18 DEF SameState

(***************************************************************************)
(* `SameDagSameState`, of the nodes that prune nothing.                    *)
(***************************************************************************)
ArchivesAgree ==
    \A m, n \in Archival : DOMAIN node[m].dag = DOMAIN node[n].dag => SameState(node[m], node[n])

(***************************************************************************)
(* Two nodes that prune nothing and hold the same blocks have the same     *)
(* tip, finality frontier, base and ledger, whatever the orders the blocks *)
(* came in and the restarts between.                                       *)
(***************************************************************************)
THEOREM ArchivesHoldSame == Spec => []ArchivesAgree
  <1>1. ArchivalInv => ArchivesAgree
    BY SameBlocksSameState DEF ArchivalInv, ArchivesAgree
  <1> QED BY <1>1, ArchivalSettled, PTL

(***************************************************************************)
(* The same for every two nodes of a network that prunes nothing.          *)
(***************************************************************************)
THEOREM SameDagHoldsSame == ASSUME Archival = Node PROVE Spec => []SameDagSameState
  <1>1. ArchivesAgree => SameDagSameState
    BY DEF ArchivesAgree, SameState, SameDagSameState
  <1> QED BY <1>1, ArchivesHoldSame, PTL

(***************************************************************************)
(* Where the canonical order departs from the topological one: a block     *)
(* stands before one of its own past only where the block that merges both *)
(* coloured it blue and the ancestor red.                                  *)
(***************************************************************************)
RedLater(gd, on, x, y) ==
    \E c \in on : x \in ToSet(gd[c].mergeset_blues) /\ y \in ToSet(gd[c].mergeset_reds)

LateOnly(P, gd, on, o) ==
    \A i, j \in 1..Len(o) : i < j /\ o[j] \in P[o[i]] => RedLater(gd, on, o[i], o[j])

LEMMA MergedLate ==
    ASSUME NEW dag, NEW gd, WellFormed(dag, gd), NEW P, P = PastMap(dag), NEW b, NEW sp, NEW ms,
           MergeFacts(dag, gd, P, b, sp, ms), NEW q, q = Merged(gd[b]),
           NEW i \in 1..Len(q), NEW j \in 1..Len(q), i < j, q[j] \in P[q[i]]
    PROVE  q[i] \in ToSet(gd[b].mergeset_blues) /\ q[j] \in ToSet(gd[b].mergeset_reds)
  <1>0. Shape(dag, gd)
    BY DEF WellFormed
  <1>1. PICK data : data = gd[b]
    OBVIOUS
  <1>2. PICK bl : bl = data.mergeset_blues
    OBVIOUS
  <1>3. PICK re : re = data.mergeset_reds
    OBVIOUS
  <1>4. PICK pl : pl = Places(P, ms)
    OBVIOUS
  <1>5. Colored(pl, ms, sp, Cardinality(ms), data.mergeset_blues, data.mergeset_reds)
    BY <1>1, <1>4 DEF MergeFacts, DataFacts
  <1>6. Colored(pl, ms, sp, Cardinality(ms), bl, re)
    BY <1>2, <1>3, <1>5
  <1>7. PICK n, m : MergedParts(bl, re, ms, q, n, m)
    BY <1>1, <1>2, <1>3, <1>5, MergedSplits
  <1>8. n \in Nat /\ n = Len(bl) /\ n >= 1 /\ m \in Nat /\ m = Len(re)
    BY <1>7 DEF MergedParts
  <1>9. /\ q \in Seq(ms) /\ Len(q) = (n - 1) + m
        /\ \A k \in 1..(n - 1) : q[k] = bl[k + 1]
        /\ \A k \in 1..m : \A l \in 1..Len(q) : l = (n - 1) + k => q[l] = re[k]
    BY <1>7 DEF MergedParts
  <1>10. \A l \in 1..((n - 1) + m) : l \in 1..(n - 1) \/ \E k \in 1..m : l = (n - 1) + k
    BY <1>7 DEF MergedParts
  <1>11. bl \in Seq(ms \cup {sp}) /\ re \in Seq(ms)
    BY <1>6 DEF Colored
  <1>12. IsFiniteSet(ms) /\ ms \subseteq DOMAIN dag /\ \A h \in ms : h \in Nat
    <2>1. IsFiniteSet(ms) /\ ms \subseteq DOMAIN dag
      BY DEF MergeFacts
    <2> QED BY <1>0, <2>1, ShapeScored DEF Scored
  <1>13. \A h \in ms : pl[h] \in Nat
    <2>1. Placed(P, ms, TopologicalOrder(P, ms), Cardinality(ms))
      BY <1>12, TopologicalOrderPlaces
    <2> QED BY <1>4, <2>1 DEF Placed, Places
  <1>14. PICK x \in ms : x = q[i]
    BY <1>9
  <1>15. PICK y \in ms : y = q[j]
    BY <1>9
  <1>16. pl[y] < pl[x]
    <2>1. y \in P[x] /\ P[y] \subseteq P[x]
      BY <1>0, <1>12, <1>14, <1>15, PastIs DEF PastFacts
    <2>2. y \notin P[y]
      <3>1. y \in P[y] => gd[y].blue_score < gd[y].blue_score
        BY <1>0, <1>12, <1>15, PastIs DEF PastFacts
      <3>2. gd[y].blue_score \in Nat
        BY <1>0, <1>12, <1>15 DEF Shape
      <3> QED BY <3>1, <3>2
    <2>3. Place(P, ms, y) < Place(P, ms, x)
      BY <1>12, <1>14, <1>15, <2>1, <2>2, PastComesFirst
    <2> QED BY <1>4, <1>14, <1>15, <2>3 DEF Places
  <1>17. ~(pl[x] < pl[y])
    BY <1>13, <1>14, <1>15, <1>16
  <1>18. ~(i \in 1..(n - 1) /\ j \in 1..(n - 1))
    <2> SUFFICES ASSUME i \in 1..(n - 1), j \in 1..(n - 1) PROVE FALSE
      OBVIOUS
    <2>1. i + 1 \in 2..n /\ j + 1 \in 2..n /\ i + 1 < j + 1
      BY <1>8
    <2>2. x = bl[i + 1] /\ y = bl[j + 1]
      BY <1>9, <1>14, <1>15
    <2>3. PICK k \in 2..n, l \in 2..n : k = i + 1 /\ l = j + 1 /\ k < l
      BY <2>1
    <2>4. pl[bl[k]] < pl[bl[l]]
      BY <1>6, <1>8, <2>3 DEF Colored
    <2> QED BY <1>17, <2>2, <2>3, <2>4
  <1>19. ~(\E k \in 1..m : i = (n - 1) + k)
    <2> SUFFICES ASSUME NEW k \in 1..m, i = (n - 1) + k PROVE FALSE
      OBVIOUS
    <2>1. j \notin 1..(n - 1)
      BY <1>8
    <2>2. PICK l \in 1..m : j = (n - 1) + l
      BY <1>9, <1>10, <2>1
    <2>3. k < l
      BY <1>8, <2>2
    <2>4. x = re[k] /\ y = re[l]
      BY <1>9, <1>14, <1>15, <2>2
    <2>5. pl[re[k]] < pl[re[l]]
      BY <1>6, <1>8, <2>3 DEF Colored
    <2> QED BY <1>17, <2>4, <2>5
  <1>20. i \in 1..(n - 1)
    BY <1>9, <1>10, <1>19
  <1>21. PICK k \in 1..m : j = (n - 1) + k
    BY <1>9, <1>10, <1>18, <1>20
  <1>22. x = bl[i + 1] /\ i + 1 \in 1..n
    BY <1>8, <1>9, <1>14, <1>20
  <1>23. y = re[k]
    BY <1>9, <1>15, <1>21
  <1>24. x \in ToSet(bl)
    <2>1. PICK l \in 1..n : l = i + 1
      BY <1>22
    <2> QED BY <1>8, <1>11, <1>22, <2>1, ToSetIs
  <1>25. y \in ToSet(re)
    BY <1>8, <1>11, <1>23, ToSetIs
  <1> QED BY <1>1, <1>2, <1>3, <1>14, <1>15, <1>24, <1>25

LEMMA LateStep ==
    ASSUME NEW dag, NEW gd, WellFormed(dag, gd), NEW P, P = PastMap(dag),
           NEW b \in DOMAIN dag, b # GENESIS, NEW sp, sp = gd[b].selected_parent,
           LateOnly(P, gd, On(gd, sp), CanonicalOrderAt(gd, sp))
    PROVE  LateOnly(P, gd, On(gd, b), CanonicalOrderAt(gd, b))
  <1>0. Shape(dag, gd) /\ DOMAIN gd = DOMAIN dag
    BY DEF WellFormed, Shape
  <1>1. PICK ms : MergeFacts(dag, gd, P, b, sp, ms)
    BY MergeIs DEF MergeFacts
  <1>2. sp \in DOMAIN dag /\ P[sp] \subseteq P[b] /\ ms = P[b] \ ({sp} \cup P[sp]) /\ sp \in P[b]
    BY <1>1 DEF MergeFacts
  <1>3. PICK q : q = Merged(gd[b])
    OBVIOUS
  <1>4. PICK u : u = CanonicalOrderAt(gd, sp)
    OBVIOUS
  <1>5. PICK o : o = CanonicalOrderAt(gd, b)
    OBVIOUS
  <1>6. Once(u, P[sp] \cup {sp})
    BY <1>0, <1>2, <1>4, OrderIs DEF OrderFacts
  <1>7. Once(q, ms)
    BY <1>1, <1>3 DEF MergeFacts
  <1>8. PICK K : K = P[b]
    OBVIOUS
  <1>9. u \in Seq(K) /\ q \in Seq(K) /\ \A k \in 1..Len(u) : u[k] \in P[sp] \cup {sp}
    <2>1. P[sp] \cup {sp} \subseteq K /\ ms \subseteq K
      BY <1>2, <1>8
    <2>2. u \in Seq(P[sp] \cup {sp}) /\ q \in Seq(ms)
      BY <1>6, <1>7 DEF Once
    <2>3. u \in Seq(K) /\ q \in Seq(K)
      BY <2>1, <2>2, SeqMonotonic
    <2> QED BY <2>2, <2>3
  <1>10. PICK v : v = u \o q
    OBVIOUS
  <1>11. PICK d \in Nat, e \in Nat : d = Len(u) /\ e = Len(q)
    BY <1>9
  <1>12. v \in Seq(K) /\ Len(v) = d + e /\ \A k \in 1..(d + e) : v[k] = IF k <= d THEN u[k] ELSE q[k - d]
    BY <1>9, <1>10, <1>11, ConcatProperties
  <1>13. o = Append(v, b)
    <2>1. OrderFacts(dag, gd, b)
      BY OrderIs
    <2> QED BY <1>3, <1>4, <1>5, <1>10, <2>1 DEF OrderFacts
  <1>14. Len(o) = d + e + 1 /\ o[d + e + 1] = b /\ \A k \in 1..(d + e) : o[k] = v[k]
    <2>1. v \in Seq(K \cup {b})
      BY <1>12, SeqMonotonic
    <2> QED BY <1>12, <1>13, <2>1, AppendIs
  <1>15. On(gd, sp) \subseteq On(gd, b) /\ b \in On(gd, b)
    BY <1>0, OnIs
  <1>16. ASSUME NEW i \in 1..(d + e + 1), NEW j \in 1..(d + e + 1), i < j, o[j] \in P[o[i]]
         PROVE  RedLater(gd, On(gd, b), o[i], o[j])
    <2>1. i \in 1..(d + e) /\ i <= d + e
      BY <1>16
    <2>2. o[i] = v[i] /\ v[i] \in K
      BY <1>12, <1>14, <2>1
    <2>3. j # d + e + 1
      <3>1. b \notin P[v[i]]
        <4>1. v[i] \in DOMAIN dag /\ gd[v[i]].blue_score < gd[b].blue_score
          BY <1>0, <1>8, <2>2, PastIs DEF PastFacts
        <4>2. b \in P[v[i]] => gd[b].blue_score < gd[v[i]].blue_score
          BY <1>0, <4>1, PastIs DEF PastFacts
        <4>3. gd[b].blue_score \in Nat /\ gd[v[i]].blue_score \in Nat
          BY <1>0, <4>1 DEF Shape
        <4> QED BY <4>1, <4>2, <4>3
      <3> QED BY <1>14, <1>16, <2>2, <3>1
    <2>4. j \in 1..(d + e) /\ o[j] = v[j]
      BY <1>14, <1>16, <2>3
    <2>5. CASE j <= d
      <3>1. i <= d /\ i \in 1..d /\ j \in 1..d
        BY <1>16, <2>1, <2>4, <2>5
      <3>2. o[i] = u[i] /\ o[j] = u[j]
        BY <1>12, <2>1, <2>2, <2>4, <2>5, <3>1
      <3>3. RedLater(gd, On(gd, sp), u[i], u[j])
        BY <1>4, <1>11, <1>16, <3>1, <3>2 DEF LateOnly
      <3> QED BY <1>15, <3>2, <3>3 DEF RedLater
    <2>6. CASE ~(j <= d) /\ i <= d
      <3>1. i \in 1..d /\ j - d \in 1..e
        BY <2>1, <2>4, <2>6
      <3>2. o[i] = u[i] /\ o[j] = q[j - d]
        BY <1>12, <2>1, <2>2, <2>4, <2>6
      <3>3. q[j - d] \in ms
        BY <1>7, <1>11, <3>1 DEF Once
      <3>4. u[i] \in P[sp] \cup {sp}
        BY <1>9, <1>11, <3>1
      <3>5. P[u[i]] \subseteq P[sp]
        BY <1>0, <1>2, <3>4, PastIs DEF PastFacts
      <3> QED BY <1>2, <1>16, <3>2, <3>3, <3>5
    <2>7. CASE ~(i <= d)
      <3>1. i - d \in 1..e /\ j - d \in 1..e /\ i - d < j - d
        BY <1>16, <2>1, <2>4, <2>7
      <3>2. o[i] = q[i - d] /\ o[j] = q[j - d]
        <4>1. ~(j <= d)
          BY <1>16, <2>7
        <4> QED BY <1>12, <2>1, <2>2, <2>4, <2>7, <4>1
      <3>3. PICK k \in 1..e, l \in 1..e : k = i - d /\ l = j - d /\ k < l
        BY <3>1
      <3>4. q[l] \in P[q[k]]
        BY <1>16, <3>2, <3>3
      <3>5. q[k] \in ToSet(gd[b].mergeset_blues) /\ q[l] \in ToSet(gd[b].mergeset_reds)
        BY <1>1, <1>3, <1>11, <3>3, <3>4, MergedLate
      <3> QED BY <1>15, <3>2, <3>3, <3>5 DEF RedLater
    <2> QED BY <2>5, <2>6, <2>7
  <1>17. LateOnly(P, gd, On(gd, b), o)
    BY <1>14, <1>16 DEF LateOnly
  <1> QED BY <1>5, <1>17

LEMMA OrderIsLate ==
    ASSUME NEW dag, NEW gd, WellFormed(dag, gd), NEW P, P = PastMap(dag)
    PROVE  \A b \in DOMAIN dag : LateOnly(P, gd, On(gd, b), CanonicalOrderAt(gd, b))
  <1>0. Shape(dag, gd)
    BY DEF WellFormed
  <1>1. PICK K : K = DOMAIN dag
    OBVIOUS
  <1>2. PICK rank : rank = [b \in K |-> gd[b].blue_score]
    OBVIOUS
  <1>3. PICK D : D = [b \in K |-> IF b = GENESIS THEN {} ELSE {gd[b].selected_parent}]
    OBVIOUS
  <1>4. PICK Good : Good = {b \in K : LateOnly(P, gd, On(gd, b), CanonicalOrderAt(gd, b))}
    OBVIOUS
  <1>5. \A b \in K : rank[b] \in Nat
    BY <1>0, <1>1, <1>2 DEF Shape
  <1>6. \A b \in K : \A x \in D[b] : x \in K /\ rank[x] < rank[b]
    <2> SUFFICES ASSUME NEW b \in K, NEW x \in D[b] PROVE x \in K /\ rank[x] < rank[b]
      OBVIOUS
    <2>1. b # GENESIS /\ x = gd[b].selected_parent
      BY <1>3
    <2> QED BY <1>0, <1>1, <1>2, <2>1, SelectedParentIs
  <1>7. ASSUME NEW b \in K, D[b] \subseteq Good PROVE LateOnly(P, gd, On(gd, b), CanonicalOrderAt(gd, b))
    <2>1. CASE b = GENESIS
      <3>1. CanonicalOrderAt(gd, b) = <<GENESIS>>
        BY <2>1, OrderOfGenesis
      <3>2. \A i, j \in 1..Len(<<GENESIS>>) : ~(i < j)
        OBVIOUS
      <3> QED BY <3>1, <3>2 DEF LateOnly
    <2>2. CASE b # GENESIS
      <3>1. PICK sp : sp = gd[b].selected_parent
        OBVIOUS
      <3>2. sp \in Good
        BY <1>3, <1>7, <2>2, <3>1
      <3> QED BY <1>1, <1>4, <2>2, <3>1, <3>2, LateStep
    <2> QED BY <2>1, <2>2
  <1>8. \A b \in K : D[b] \subseteq Good => b \in Good
    BY <1>4, <1>7
  <1>9. \A b \in K : b \in Good
    BY <1>5, <1>6, <1>8, RankInduction
  <1> QED BY <1>1, <1>4, <1>9

(***************************************************************************)
(* On a node that prunes nothing the canonical order holds the tip's past  *)
(* once, and departs from the topological order only between a blue and a  *)
(* red of one mergeset (`canonical_order_at`).                             *)
(***************************************************************************)
THEOREM OrderKeepsPast == Spec => []OnlyRedsComeLate
  <1>1. ArchivalInv => OnlyRedsComeLate
    <2> SUFFICES ASSUME ArchivalInv, NEW n \in Archival, NEW s, s = node[n],
                        NEW P, P = PastMap(s.dag), NEW t, t = SelectedTip(s),
                        NEW o, o = CanonicalOrderAt(s.gd, t)
                 PROVE  /\ ToSet(o) = P[t] \cup {t}
                        /\ IsInjective(o)
                        /\ \A i, j \in 1..Len(o) : i < j /\ o[j] \in P[o[i]] =>
                              \E c \in ToSet(SelectedChain(s.gd, t)) :
                                 o[i] \in ToSet(s.gd[c].mergeset_blues) /\ o[j] \in ToSet(s.gd[c].mergeset_reds)
      BY SMTT(60) DEF OnlyRedsComeLate
    <2>1. PICK dag, gd : dag = s.dag /\ gd = s.gd /\ WellFormed(dag, gd) /\ Shape(dag, gd)
      BY DEF ArchivalInv, Settled, WellFormed
    <2>2. t \in DOMAIN dag
      <3>1. s.tips = Childless(dag)
        BY <2>1 DEF ArchivalInv, Settled
      <3> QED BY <2>1, <3>1, BestTip DEF SelectedTip, IsHighest
    <2>3. OrderFacts(dag, gd, t)
      BY <2>1, <2>2, OrderIs
    <2>4. Once(o, P[t] \cup {t})
      BY <2>1, <2>3 DEF OrderFacts
    <2>5. ToSet(o) = P[t] \cup {t}
      BY <2>4, OnceToSet
    <2>6. IsInjective(o)
      <3>1. o \in Seq(P[t] \cup {t}) /\ \A i, j \in 1..Len(o) : o[i] = o[j] => i = j
        BY <2>4 DEF Once
      <3>2. DOMAIN o = 1..Len(o)
        BY <3>1
      <3> QED BY <3>1, <3>2 DEF IsInjective
    <2>7. LateOnly(P, gd, On(gd, t), o)
      BY <2>1, <2>2, OrderIsLate
    <2> QED BY <2>1, <2>5, <2>6, <2>7 DEF LateOnly, RedLater, On
  <1> QED BY <1>1, ArchivalSettled, PTL
====
