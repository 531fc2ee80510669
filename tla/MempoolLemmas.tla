---------------------------- MODULE MempoolLemmas ----------------------------
(***************************************************************************)
(* Lemmas about the operators of Mempool: what links reach, what removal,  *)
(* addition and the repair after a reorganization do to a pool, the queue  *)
(* of disconnected transactions, the tree of blocks and the coins of a     *)
(* chain, and lock points.                                                 *)
(***************************************************************************)
EXTENDS MempoolInvariant, FiniteSetTheorems, TLAPS

\* leaves are tried with Zenon unless they ask for SMT
USE Zenon

-----------------------------------------------------------------------------
(* Numbers.                                                                *)

\* a set of numbers has a least element; this stands in for induction
LEMMA LeastNumber ==
  ASSUME NEW S \in SUBSET Nat, S # {}
  PROVE  \E n \in S : \A m \in S : n <= m
  <1>1. PICK n \in S : \A m \in S : ~ (<<m, n>> \in OpToRel(<, Nat))
    BY NatLessThanWellFounded, WFMin
  <1>2. \A m \in S : <<m, n>> \in Nat \X Nat /\ ~ (m < n)
    BY <1>1 DEF OpToRel
  <1>3. \A m \in S : n <= m
    <2>1. SUFFICES ASSUME NEW m \in S PROVE n <= m
      OBVIOUS
    <2>2. m \in Nat /\ n \in Nat /\ ~ (m < n)
      BY <1>2
    <2>3. QED
      BY <2>2, SMT
  <1>4. QED
    BY <1>3

LEMMA GreatestNumber ==
  ASSUME NEW S \in SUBSET Nat, S # {}, NEW bound \in Nat, \A n \in S : n <= bound
  PROVE  \E n \in S : \A m \in S : m <= n
  <1> DEFINE below == {k \in Nat : \E n \in S : k = bound - n}
  <1>1. \A n \in S : bound - n \in Nat
    BY SMT
  <1>2. below \in SUBSET Nat /\ below # {}
    BY <1>1
  <1>3. PICK k \in below : \A m \in below : k <= m
    BY <1>2, LeastNumber
  <1>4. PICK n \in S : k = bound - n
    OBVIOUS
  <1>5. \A m \in S : k <= bound - m
    BY <1>1, <1>3
  <1>6. QED
    BY <1>4, <1>5, SMT

\* induction up to n
LEMMA UpTo ==
  ASSUME NEW n \in Nat, NEW A, 0 \in A, \A i \in 1 .. n : i - 1 \in A => i \in A
  PROVE  \A i \in 0 .. n : i \in A
  <1> DEFINE bad == {i \in 0 .. n : i \notin A}
  <1>1. SUFFICES ASSUME bad # {} PROVE FALSE
    OBVIOUS
  <1>2. bad \in SUBSET Nat
    BY SMT
  <1>3. PICK i \in bad : \A j \in bad : i <= j
    BY <1>1, <1>2, LeastNumber
  <1>4. i \in 0 .. n /\ i \notin A /\ i # 0
    BY <1>3
  <1>5. i \in 1 .. n /\ i - 1 \in 0 .. n /\ ~ (i <= i - 1)
    BY <1>4, SMT
  <1>6. QED
    BY <1>3, <1>4, <1>5

\* a function of a number that is defined by its predecessor exists
LEMMA FoldExists ==
  ASSUME NEW n \in Nat, NEW base, NEW step
  PROVE  \E f : FoldEquation(n, base, step, f)
  <1> DEFINE A == {k \in 0 .. n : \E f : FoldEquation(k, base, step, f)}
  <1>1. 0 \in A
    <2> DEFINE f == [i \in 0 .. 0 |-> base]
    <2>1. 0 \in 0 .. n /\ \A i \in 0 .. 0 : i = 0
      BY SMT
    <2>2. FoldEquation(0, base, step, f)
      BY <2>1 DEF FoldEquation
    <2>3. QED
      BY <2>1, <2>2
  <1>2. ASSUME NEW k \in 1 .. n, k - 1 \in A PROVE k \in A
    <2>1. PICK f : FoldEquation(k - 1, base, step, f)
      BY <1>2
    <2> DEFINE g == [i \in 0 .. k |-> IF i = k THEN step[<<k, f[k - 1]>>] ELSE f[i]]
    <2>2. \A i \in 0 .. k - 1 : f[i] = IF i = 0 THEN base ELSE step[<<i, f[i - 1]>>]
      BY <2>1 DEF FoldEquation
    <2>3. /\ k \in 0 .. n /\ k # 0 /\ \A i \in 0 .. k : i # k => i \in 0 .. k - 1 /\ i - 1 # k
          /\ \A i \in 0 .. k : i # 0 => i - 1 \in 0 .. k
          /\ k - 1 \in 0 .. k /\ k - 1 # k
      BY SMT
    <2>4. \A i \in 0 .. k : g[i] = IF i = 0 THEN base ELSE step[<<i, g[i - 1]>>]
      <3>1. SUFFICES ASSUME NEW i \in 0 .. k
                     PROVE  g[i] = IF i = 0 THEN base ELSE step[<<i, g[i - 1]>>]
        OBVIOUS
      <3>2. CASE i = k
        BY <2>3, <3>2
      <3>3. CASE i # k
        BY <2>2, <2>3, <3>3
      <3>4. QED
        BY <3>2, <3>3
    <2>5. FoldEquation(k, base, step, g)
      BY <2>4 DEF FoldEquation
    <2> HIDE DEF g
    <2>6. QED
      BY <2>3, <2>5
  <1> HIDE DEF A
  <1>3. n \in A
    <2>1. n \in 0 .. n
      BY SMT
    <2>2. QED
      BY <1>1, <1>2, <2>1, UpTo
  <1>4. QED
    BY <1>3 DEF A

-----------------------------------------------------------------------------
(* What can be reached along links.                                        *)

\* it has a solution
LEMMA ReachExists ==
  ASSUME NEW links
  PROVE  \E f : ReachEquation(links, f)
  <1> DEFINE least(S) == {t \in Tx : \A R \in SUBSET Tx :
                           S \subseteq R /\ Wider(links, R) = R => t \in R}
             f == [R \in SUBSET Tx |-> least(R)]
  <1>1. ASSUME NEW R \in SUBSET Tx
        PROVE  least(R) = IF Wider(links, R) = R THEN R ELSE least(Wider(links, R))
    <2>1. ASSUME NEW Q \in SUBSET Tx, R \subseteq Q, Wider(links, Q) = Q
          PROVE  Wider(links, R) \subseteq Q
      BY <2>1 DEF Wider
    <2>2. R \subseteq Wider(links, R) /\ Wider(links, R) \subseteq Tx
      BY DEF Wider
    <2>3. QED
      BY <2>1, <2>2
  <1>2. \A R \in SUBSET Tx : Wider(links, R) \in SUBSET Tx
    BY DEF Wider
  <1>3. ReachEquation(links, f)
    BY <1>1, <1>2 DEF ReachEquation
  <1>4. QED
    BY <1>3

\* the reach of Reach satisfies the equation that defines it
LEMMA ReachSolves ==
  ASSUME NEW links
  PROVE  \E f : ReachEquation(links, f) /\ \A S : Reach(links, S) = f[S]
  <1> DEFINE f == CHOOSE f : ReachEquation(links, f)
  <1>1. ReachEquation(links, f)
    BY ReachExists
  <1>2. \A S : Reach(links, S) = f[S]
    BY DEF Reach, ReachEquation, Wider
  <1>3. QED
    BY <1>1, <1>2

LEMMA TxFinite == IsFiniteSet(Tx)
  BY MempoolAssumption DEF MempoolAssumption

\* and every solution gives the least closed set
LEMMA ReachLeast ==
  ASSUME NEW links \in [Tx -> SUBSET Tx], NEW S \in SUBSET Tx
  PROVE  /\ S \subseteq Reach(links, S) /\ Reach(links, S) \subseteq Tx
         /\ Closed(links, Reach(links, S))
         /\ \A R \in SUBSET Tx : S \subseteq R /\ Closed(links, R) => Reach(links, S) \subseteq R
  <1>1. PICK f : ReachEquation(links, f) /\ \A R : Reach(links, R) = f[R]
    BY ReachSolves
  <1> DEFINE good(R) == /\ R \subseteq f[R] /\ f[R] \subseteq Tx /\ Closed(links, f[R])
                        /\ \A Q \in SUBSET Tx : R \subseteq Q /\ Closed(links, Q) => f[R] \subseteq Q
             rest == {Q \in SUBSET Tx : ~ good(Tx \ Q)}
  <1>2. ASSUME NEW R \in SUBSET Tx
        PROVE  f[R] = IF Wider(links, R) = R THEN R ELSE f[Wider(links, R)]
    BY <1>1 DEF ReachEquation
  <1>3. ASSUME NEW R \in SUBSET Tx
        PROVE  /\ R \subseteq Wider(links, R) /\ Wider(links, R) \in SUBSET Tx
               /\ Wider(links, R) = R => Closed(links, R)
               /\ \A Q \in SUBSET Tx : R \subseteq Q /\ Closed(links, Q) => Wider(links, R) \subseteq Q
    BY DEF Wider, Closed
  <1>4. ASSUME NEW R \in SUBSET Tx, Wider(links, R) # R => good(Wider(links, R))
        PROVE  good(R)
    BY <1>2, <1>3, <1>4
  <1>5. IsWellFoundedOn(StrictSubsetOrdering(Tx), SUBSET Tx)
    BY TxFinite, FS_StrictSubsetOrderingWellFounded, FS_FiniteSubsetsOfFinite
  <1>6. rest = {}
    <2>0. rest \subseteq SUBSET Tx
      OBVIOUS
    <2>1. SUFFICES ASSUME rest # {} PROVE FALSE
      OBVIOUS
    <2> HIDE DEF rest
    <2>2. PICK Q \in rest : \A P \in rest : ~ (<<P, Q>> \in StrictSubsetOrdering(Tx))
      BY <1>5, <2>1, <2>0, WFMin
    <2> USE DEF rest
    <2> DEFINE R == Tx \ Q
               W == Wider(links, R)
    <2>3. R \in SUBSET Tx /\ ~ good(R)
      BY <2>2
    <2>4. W # R /\ ~ good(W) /\ W \in SUBSET Tx /\ R \subseteq W
      BY <1>3, <1>4, <2>3
    <2>5. Tx \ (Tx \ W) = W /\ Tx \ W \in SUBSET Tx /\ Tx \ W \subseteq Q /\ Tx \ W # Q
      BY <2>2, <2>4
    <2>6. Tx \ W \in rest
      BY <2>4, <2>5
    <2>7. <<Tx \ W, Q>> \in StrictSubsetOrdering(Tx)
      <3> DEFINE P == Tx \ W
      <3>1. P \in SUBSET Tx /\ Q \in SUBSET Tx /\ P \subseteq Q /\ P # Q
        BY <2>2, <2>5, <2>0
      <3> HIDE DEF P, rest, R, W
      <3>2. <<P, Q>> \in StrictSubsetOrdering(Tx)
        BY <3>1, SMT DEF StrictSubsetOrdering
      <3>3. QED
        BY <3>2 DEF P
    <2>8. QED
      BY <2>2, <2>6, <2>7
  <1>7. S = Tx \ (Tx \ S) /\ Tx \ S \in SUBSET Tx
    OBVIOUS
  <1>8. good(S)
    BY <1>6, <1>7
  <1>9. QED
    BY <1>1, <1>8

LEMMA ReachWithin ==
  ASSUME NEW links \in Links, NEW S \in SUBSET Tx, NEW R \in SUBSET Tx,
         S \subseteq R, Closed(links, R)
  PROVE  Reach(links, S) \subseteq R
  BY ReachLeast DEF Links

\* what is reached from one transaction holds it and is closed
LEMMA ReachMember ==
  ASSUME NEW links \in Links, NEW t \in Tx
  PROVE  /\ t \in Reach(links, {t}) /\ Reach(links, {t}) \subseteq Tx
         /\ \A u \in Reach(links, {t}) : Reach(links, {u}) \subseteq Reach(links, {t})
         /\ \A u \in Reach(links, {t}) : links[u] \subseteq Reach(links, {t})
         /\ \A R \in SUBSET Tx : t \in R /\ Closed(links, R) => Reach(links, {t}) \subseteq R
         /\ IsFiniteSet(Reach(links, {t}))
  <1>1. {t} \in SUBSET Tx
    OBVIOUS
  <1>2. /\ {t} \subseteq Reach(links, {t}) /\ Reach(links, {t}) \subseteq Tx
        /\ Closed(links, Reach(links, {t}))
        /\ \A R \in SUBSET Tx : {t} \subseteq R /\ Closed(links, R) => Reach(links, {t}) \subseteq R
    BY <1>1, ReachLeast DEF Links
  <1>3. ASSUME NEW u \in Reach(links, {t})
        PROVE  Reach(links, {u}) \subseteq Reach(links, {t})
    <2>1. u \in Tx /\ {u} \in SUBSET Tx /\ {u} \subseteq Reach(links, {t})
      BY <1>2
    <2>2. QED
      BY <1>2, <2>1, ReachLeast DEF Links
  <1>4. IsFiniteSet(Reach(links, {t}))
    BY <1>2, TxFinite, FS_Subset
  <1>5. QED
    BY <1>2, <1>3, <1>4 DEF Closed

LEMMA ReachInto ==
  ASSUME NEW links \in Links, NEW t \in Tx, NEW R \in SUBSET Tx, t \in R, Closed(links, R)
  PROVE  Reach(links, {t}) \subseteq R
  BY ReachMember

\* what is reached from a set is reached from one of its members
LEMMA ReachFrom ==
  ASSUME NEW links \in Links, NEW S \in SUBSET Tx, NEW u \in Reach(links, S)
  PROVE  \E s \in S : u \in Reach(links, {s})
  <1> DEFINE R == {w \in Tx : \E s \in S : w \in Reach(links, {s})}
  <1>1. S \subseteq R
    BY ReachMember
  <1>2. Closed(links, R)
    <2>1. SUFFICES ASSUME NEW w \in R PROVE links[w] \subseteq R
      BY DEF Closed
    <2>2. PICK s \in S : w \in Reach(links, {s})
      OBVIOUS
    <2>3. links[w] \subseteq Reach(links, {s}) /\ Reach(links, {s}) \subseteq Tx
      BY <2>2, ReachMember
    <2>4. QED
      BY <2>3
  <1>3. R \in SUBSET Tx
    OBVIOUS
  <1> HIDE DEF R
  <1>4. u \in R
    BY <1>1, <1>2, <1>3, ReachLeast DEF Links
  <1>5. QED
    BY <1>4 DEF R

\* what is reached is the start and what is reached from its links
LEMMA ReachFirst ==
  ASSUME NEW links \in Links, NEW t \in Tx
  PROVE  Reach(links, {t}) = {t} \cup Reach(links, links[t])
  <1> DEFINE R == {t} \cup Reach(links, links[t])
  <1>1. links[t] \in SUBSET Tx
    BY DEF Links
  <1>2. /\ links[t] \subseteq Reach(links, links[t]) /\ Reach(links, links[t]) \subseteq Tx
        /\ Closed(links, Reach(links, links[t]))
    BY <1>1, ReachLeast DEF Links
  <1>3. Reach(links, {t}) \subseteq R
    <2>1. Closed(links, R) /\ R \in SUBSET Tx /\ t \in R
      BY <1>2 DEF Closed
    <2> HIDE DEF R
    <2>2. QED
      BY <2>1, ReachMember
  <1>4. Reach(links, links[t]) \subseteq Reach(links, {t})
    <2>1. /\ links[t] \subseteq Reach(links, {t}) /\ Reach(links, {t}) \in SUBSET Tx
          /\ Closed(links, Reach(links, {t}))
      BY ReachMember DEF Closed
    <2>2. QED
      BY <1>1, <2>1, ReachLeast DEF Links
  <1>5. QED
    BY <1>3, <1>4, ReachMember

LEMMA ReachBack ==
  ASSUME NEW l \in Links, NEW k \in Links, Dual(l, k),
         NEW t \in Tx, NEW u \in Reach(l, {t})
  PROVE  t \in Reach(k, {u})
  <1> DEFINE R == {w \in Tx : t \in Reach(k, {w})}
  <1>1. t \in R /\ R \in SUBSET Tx
    BY ReachMember
  <1>2. Closed(l, R)
    <2>1. SUFFICES ASSUME NEW w \in R, NEW x \in l[w] PROVE x \in R
      BY DEF Closed
    <2>2. x \in Tx /\ w \in k[x]
      BY DEF Dual, Links
    <2>3. w \in Reach(k, {x})
      BY <2>2, ReachMember
    <2>4. QED
      BY <2>2, <2>3, ReachMember
  <1> HIDE DEF R
  <1>3. u \in R
    BY <1>1, <1>2, ReachMember
  <1>4. QED
    BY <1>3 DEF R

\* one transaction reaches another along parents if that one reaches it along
\* children
LEMMA ReachDual ==
  ASSUME NEW l \in Links, NEW k \in Links, Dual(l, k), NEW t \in Tx, NEW u \in Tx
  PROVE  u \in Reach(l, {t}) <=> t \in Reach(k, {u})
  <1>1. Dual(k, l)
    BY DEF Dual
  <1>2. QED
    BY <1>1, ReachBack

\* a closed set is cut off: the others reach the same, less the set
LEMMA CutOff ==
  ASSUME NEW l, NEW k, NEW D, NEW m, NEW n, Cut(l, k, D, m, n), NEW t \in Tx \ D
  PROVE  CutReach(l, k, D, m, n, t)
  <1> USE DEF Cut
  <1>1. Reach(m, {t}) \subseteq Reach(l, {t}) \ D
    <2> DEFINE R == Reach(l, {t}) \ D
    <2>1. t \in R /\ R \in SUBSET Tx
      BY ReachMember
    <2>2. Closed(m, R)
      <3>1. SUFFICES ASSUME NEW u \in R PROVE m[u] \subseteq R
        BY DEF Closed
      <3>2. u \in Tx /\ l[u] \subseteq Reach(l, {t}) /\ m[u] = l[u] \ D
        BY <2>1, ReachMember
      <3>3. QED
        BY <3>2
    <2> HIDE DEF R
    <2>3. Reach(m, {t}) \subseteq R
      BY <2>1, <2>2, ReachMember
    <2>4. QED
      BY <2>3 DEF R
  <1>2. Reach(l, {t}) \subseteq Reach(m, {t}) \cup D
    <2> DEFINE R == Reach(m, {t}) \cup D
    <2>1. t \in R /\ R \in SUBSET Tx
      BY ReachMember
    <2>2. Closed(l, R)
      <3>1. SUFFICES ASSUME NEW u \in R PROVE l[u] \subseteq R
        BY DEF Closed
      <3>2. CASE u \in D
        BY <3>2 DEF Closed
      <3>3. CASE u \in Reach(m, {t}) \ D
        <4>1. u \in Tx /\ m[u] \subseteq Reach(m, {t}) /\ m[u] = l[u] \ D
          BY <3>3, ReachMember
        <4>2. QED
          BY <4>1
      <3>4. QED
        BY <3>2, <3>3
    <2> HIDE DEF R
    <2>3. Reach(l, {t}) \subseteq R
      BY <2>1, <2>2, ReachMember
    <2>4. QED
      BY <2>3 DEF R
  <1>3. Closed(k, Tx \ D) /\ Closed(n, Tx \ D)
    BY DEF Closed, Dual, Links
  <1>4. Reach(k, {t}) \subseteq Tx \ D /\ Reach(n, {t}) \subseteq Tx \ D
    <2>1. Tx \ D \in SUBSET Tx
      OBVIOUS
    <2>2. QED
      BY <1>3, <2>1, ReachMember
  <1>5. Closed(n, Reach(k, {t})) /\ Closed(k, Reach(n, {t}))
    BY <1>4, ReachMember DEF Closed
  <1>6. Reach(n, {t}) = Reach(k, {t})
    <2>1. Reach(n, {t}) \subseteq Reach(k, {t})
      BY <1>5, ReachMember
    <2>2. Reach(k, {t}) \subseteq Reach(n, {t})
      BY <1>5, ReachMember
    <2>3. QED
      BY <2>1, <2>2
  <1>7. ASSUME NEW r \in D
        PROVE  t \in Reach(k, k[r]) <=> r \in Reach(l, {t})
    <2>1. r \in Tx /\ r # t
      OBVIOUS
    <2>2. t \in Reach(k, {r}) <=> r \in Reach(l, {t})
      BY <2>1, ReachDual
    <2>3. Reach(k, {r}) = {r} \cup Reach(k, k[r])
      BY <2>1, ReachFirst
    <2>4. QED
      BY <2>1, <2>2, <2>3
  <1>8. Reach(m, {t}) = Reach(l, {t}) \ D
    BY <1>1, <1>2
  <1>9. QED
    BY <1>6, <1>7, <1>8 DEF CutReach

\* and so the number of what they reach goes down by what they reached in it
LEMMA CutOffCount ==
  ASSUME NEW R, IsFiniteSet(R), NEW D, NEW hit, hit = R \cap D
  PROVE  Cardinality(R \ D) = Cardinality(R) - Cardinality(hit)
  BY FS_Difference

-----------------------------------------------------------------------------
(* Pools.                                                                  *)

LEMMA PoolTypes ==
  ASSUME NEW mp \in Pool
  PROVE  /\ mp.tx \in SUBSET Tx
         /\ mp.parents \in Links /\ mp.children \in Links
         /\ mp.ancestors \in [Tx -> Int] /\ mp.descendants \in [Tx -> Int]
         /\ mp.locks \in [Tx -> [height : Int, block : Blocks]]
  BY SMT DEF Pool

\* a pool with new links and counts: its fields
LEMMA WithFields ==
  ASSUME NEW mp \in Pool, NEW c \in Links, NEW p \in Links,
         NEW a \in [Tx -> Int], NEW d \in [Tx -> Int]
  PROVE  HasFields(mp, c, p, a, d, With(mp, c, p, a, d))
  <1> DEFINE r1 == [mp EXCEPT !.children = c]
             r2 == [r1 EXCEPT !.parents = p]
             r3 == [r2 EXCEPT !.ancestors = a]
             r4 == [r3 EXCEPT !.descendants = d]
  <1>1. mp = [tx |-> mp.tx, parents |-> mp.parents, children |-> mp.children,
              ancestors |-> mp.ancestors, descendants |-> mp.descendants, locks |-> mp.locks]
    BY SMT DEF Pool
  <1>2. r1 = [tx |-> mp.tx, parents |-> mp.parents, children |-> c,
              ancestors |-> mp.ancestors, descendants |-> mp.descendants, locks |-> mp.locks]
    BY <1>1, SMT
  <1> HIDE DEF r1
  <1>3. r2 = [tx |-> mp.tx, parents |-> p, children |-> c,
              ancestors |-> mp.ancestors, descendants |-> mp.descendants, locks |-> mp.locks]
    BY <1>2, SMT
  <1> HIDE DEF r2
  <1>4. r3 = [tx |-> mp.tx, parents |-> p, children |-> c,
              ancestors |-> a, descendants |-> mp.descendants, locks |-> mp.locks]
    BY <1>3, SMT
  <1> HIDE DEF r3
  <1>5. r4 = [tx |-> mp.tx, parents |-> p, children |-> c,
              ancestors |-> a, descendants |-> d, locks |-> mp.locks]
    BY <1>4, SMT
  <1> HIDE DEF r4
  <1>6. With(mp, c, p, a, d) = r4
    BY DEF With, r1, r2, r3, r4
  <1>7. HasFields(mp, c, p, a, d, r4)
    BY <1>5, SMT DEF Pool, HasFields
  <1>8. QED
    BY <1>6, <1>7

LEMMA LinkedDual ==
  ASSUME NEW mp \in Pool, NEW late, NEW known, Linked(mp, late, known)
  PROVE  /\ Dual(mp.parents, mp.children) /\ Dual(mp.children, mp.parents)
         /\ \A t \in Tx : mp.parents[t] \subseteq mp.tx /\ mp.children[t] \subseteq mp.tx
         /\ \A t \in Tx \ mp.tx : mp.parents[t] = {} /\ mp.children[t] = {}
  BY PoolTypes DEF Linked, LinkedBy, Dual

\* what an entry reaches is in the pool
LEMMA ReachInPool ==
  ASSUME NEW mp \in Pool, NEW late, NEW known, Linked(mp, late, known),
         NEW S \in SUBSET mp.tx
  PROVE  /\ Reach(mp.children, S) \in SUBSET mp.tx /\ S \subseteq Reach(mp.children, S)
         /\ Closed(mp.children, Reach(mp.children, S))
         /\ Reach(mp.parents, S) \in SUBSET mp.tx /\ S \subseteq Reach(mp.parents, S)
         /\ Closed(mp.parents, Reach(mp.parents, S))
  <1>1. mp.tx \in SUBSET Tx /\ S \in SUBSET Tx
    BY PoolTypes
  <1>2. Closed(mp.children, mp.tx) /\ Closed(mp.parents, mp.tx)
    BY <1>1, LinkedDual DEF Closed
  <1>3. ASSUME NEW links \in Links, Closed(links, mp.tx)
        PROVE  /\ Reach(links, S) \in SUBSET mp.tx /\ S \subseteq Reach(links, S)
               /\ Closed(links, Reach(links, S))
    BY <1>1, <1>3, ReachLeast DEF Links
  <1>4. QED
    BY <1>2, <1>3, PoolTypes

-----------------------------------------------------------------------------
(* Removal.                                                                *)

\* removeUnchecked with UpdateForRemoveFromMempool: what becomes of each field
LEMMA StagedFields ==
  ASSUME NEW mp \in Pool, NEW D \in SUBSET mp.tx, NEW upd \in BOOLEAN
  PROVE  Staged(mp, D, upd, RemoveStaged(mp, D, upd))
  <1> DEFINE above == [r \in D |-> LinkedAncestors(mp, r)]
             below == [r \in D |->
                        IF upd THEN CalculateDescendants(mp, {r}) \ {r} ELSE {}]
             hits(reach, t) == {r \in D : t \in reach[r]}
             m == RemoveStaged(mp, D, upd)
             tx == mp.tx \ D
             parents == [t \in Tx |-> IF t \in D THEN {} ELSE
                           mp.parents[t] \ {r \in D : t \in mp.children[r]}]
             children == [t \in Tx |-> IF t \in D THEN {} ELSE
                            mp.children[t] \ {r \in D : t \in mp.parents[r]}]
             ancestors == [t \in Tx |-> IF t \in D THEN 0
                             ELSE mp.ancestors[t] - Cardinality(hits(below, t))]
             descendants == [t \in Tx |-> IF t \in D THEN 0
                               ELSE mp.descendants[t] - Cardinality(hits(above, t))]
             locks == [t \in Tx |-> IF t \in D THEN NoLocks ELSE mp.locks[t]]
  <1>1. m = [tx |-> tx, parents |-> parents, children |-> children,
             ancestors |-> ancestors, descendants |-> descendants, locks |-> locks]
    BY DEF RemoveStaged
  <1>2. ASSUME NEW t \in Tx
        PROVE  /\ hits(above, t) = {r \in D : t \in Reach(mp.parents, mp.parents[r])}
               /\ hits(below, t) = {r \in D : t \in IF upd THEN Reach(mp.children, {r}) \ {r}
                                                     ELSE {}}
    BY DEF LinkedAncestors, CalculateDescendants
  <1>3. IsFiniteSet(D)
    BY PoolTypes, TxFinite, FS_Subset
  <1>4. ASSUME NEW reach, NEW t \in Tx
        PROVE  Cardinality(hits(reach, t)) \in Int
    <2>1. hits(reach, t) \subseteq D
      OBVIOUS
    <2> HIDE DEF hits
    <2>2. Cardinality(hits(reach, t)) \in Nat
      BY <1>3, <2>1, FS_Subset, FS_CardinalityType
    <2>3. QED
      BY <2>2, SMT
  <1> HIDE DEF above, below, hits, m
  <1>5. \A t \in Tx : NoLocks \in [height : Int, block : Blocks]
    BY MempoolAssumption, SMT DEF MempoolAssumption, NoLocks
  <1>6. /\ tx \in SUBSET Tx /\ parents \in Links /\ children \in Links
        /\ ancestors \in [Tx -> Int] /\ descendants \in [Tx -> Int]
        /\ locks \in [Tx -> [height : Int, block : Blocks]]
    <2>1. \A t \in Tx : /\ mp.ancestors[t] - Cardinality(hits(below, t)) \in Int
                        /\ mp.descendants[t] - Cardinality(hits(above, t)) \in Int
      BY <1>4, PoolTypes, SMT
    <2>2. 0 \in Int
      BY SMT
    <2>3. QED
      BY <1>5, <2>1, <2>2, PoolTypes DEF Links
  <1>7. /\ tx = mp.tx \ D
        /\ \A t \in Tx :
             /\ parents[t] = IF t \in D THEN {}
                             ELSE mp.parents[t] \ {r \in D : t \in mp.children[r]}
             /\ children[t] = IF t \in D THEN {}
                              ELSE mp.children[t] \ {r \in D : t \in mp.parents[r]}
        /\ \A t \in Tx \ D :
             /\ descendants[t] = mp.descendants[t] - Cardinality(hits(above, t))
             /\ ancestors[t] = mp.ancestors[t] - Cardinality(hits(below, t))
             /\ locks[t] = mp.locks[t]
    OBVIOUS
  <1> HIDE DEF tx, parents, children, ancestors, descendants, locks
  <1>8. /\ m \in Pool /\ m.tx = tx /\ m.parents = parents /\ m.children = children
        /\ m.ancestors = ancestors /\ m.descendants = descendants /\ m.locks = locks
    BY <1>1, <1>6, SMT DEF Pool
  <1>9. QED
    BY <1>2, <1>7, <1>8 DEF m, Staged

LEMMA CutLinks ==
  ASSUME NEW l, NEW k, NEW D, NEW m, NEW n, Leaving(l, k, D, m, n)
  PROVE  Cut(l, k, D, m, n)
  <1> USE DEF Leaving
  <1>1. ASSUME NEW t \in Tx \ D
        PROVE  /\ l[t] \ {r \in D : t \in k[r]} = l[t] \ D
               /\ k[t] \ {r \in D : t \in l[r]} = k[t]
    <2>1. \A r \in D : r \in Tx /\ (t \in k[r] <=> r \in l[t]) /\ t \notin l[r] /\ r \notin k[t]
      BY DEF Closed, Dual
    <2>2. QED
      BY <2>1
  <1>2. QED
    BY <1>1 DEF Cut

\* removing a closed set leaves the others linked as they should be
LEMMA CutLinked ==
  ASSUME NEW tx \in SUBSET Tx, NEW p, NEW c, NEW late, NEW known,
         LinkedBy(tx, p, c, late, known), NEW D \in SUBSET tx, NEW q, NEW d,
         Cut(c, p, D, d, q) \/ Cut(p, c, D, q, d)
  PROVE  LinkedBy(tx \ D, q, d, late, known)
  <1>1. \A t \in Tx : /\ q[t] = IF t \in D THEN {} ELSE p[t] \ D
                      /\ d[t] = IF t \in D THEN {} ELSE c[t] \ D
    <2>1. SUFFICES ASSUME NEW t \in Tx
                   PROVE  /\ q[t] = IF t \in D THEN {} ELSE p[t] \ D
                          /\ d[t] = IF t \in D THEN {} ELSE c[t] \ D
      OBVIOUS
    <2>2. CASE Cut(c, p, D, d, q)
      <3>1. t \notin D => p[t] \cap D = {}
        BY <2>2 DEF Cut, Closed, Dual
      <3>2. QED
        BY <2>2, <3>1 DEF Cut
    <2>3. CASE Cut(p, c, D, q, d)
      <3>1. t \notin D => c[t] \cap D = {}
        BY <2>3 DEF Cut, Closed, Dual
      <3>2. QED
        BY <2>3, <3>1 DEF Cut
    <2>4. QED
      BY <2>2, <2>3
  <1>2. QED
    BY <1>1 DEF LinkedBy

\* removing a closed set leaves the counts those of the links
LEMMA CutCounted ==
  ASSUME NEW l, NEW k, NEW D, NEW m, NEW n, Cut(l, k, D, m, n),
         NEW tx \in SUBSET Tx, NEW x, NEW y, CountedBy(tx, l, x), CountedBy(tx, k, y),
         NEW z, NEW w, Recount(tx, D, k, x, y, z, w)
  PROVE  CountedBy(tx \ D, m, z) /\ CountedBy(tx \ D, n, w)
  <1>1. SUFFICES ASSUME NEW t \in tx \ D
                 PROVE  /\ z[t] = Cardinality(Reach(m, {t}))
                        /\ w[t] = Cardinality(Reach(n, {t}))
    BY DEF CountedBy
  <1> DEFINE hit == {r \in D : t \in Reach(k, k[r])}
  <1>2. t \in Tx \ D
    OBVIOUS
  <1>3. /\ Reach(m, {t}) = Reach(l, {t}) \ D
        /\ Reach(n, {t}) = Reach(k, {t})
        /\ \A r \in D : t \in Reach(k, k[r]) <=> r \in Reach(l, {t})
    <2>1. CutReach(l, k, D, m, n, t)
      BY <1>2, CutOff
    <2>2. QED
      BY <2>1 DEF CutReach
  <1>4. x[t] = Cardinality(Reach(l, {t})) /\ y[t] = Cardinality(Reach(k, {t}))
    BY DEF CountedBy
  <1>5. hit = Reach(l, {t}) \cap D
    BY <1>3
  <1>6. z[t] = x[t] - Cardinality(hit) /\ w[t] = y[t]
    BY DEF Recount
  <1> HIDE DEF hit
  <1>7. IsFiniteSet(Reach(l, {t}))
    BY <1>2, ReachMember DEF Cut
  <1>8. Cardinality(Reach(l, {t}) \ D) = Cardinality(Reach(l, {t})) - Cardinality(hit)
    BY <1>5, <1>7, CutOffCount
  <1>9. QED
    BY <1>3, <1>4, <1>6, <1>8

\* entries leave with everything that is linked below them
LEMMA RemoveBelow ==
  ASSUME NEW mp \in Pool, NEW late, NEW known, Linked(mp, late, known), Counted(mp),
         NEW D \in SUBSET mp.tx, Closed(mp.children, D)
  PROVE  Rest(mp, D, late, known, RemoveStaged(mp, D, FALSE))
  <1> DEFINE m == RemoveStaged(mp, D, FALSE)
  <1>1. Staged(mp, D, FALSE, m)
    BY StagedFields
  <1> HIDE DEF m
  <1>2. /\ mp.parents \in Links /\ mp.children \in Links /\ Dual(mp.children, mp.parents)
        /\ mp.tx \in SUBSET Tx /\ D \in SUBSET Tx
        /\ m \in Pool /\ m.parents \in Links /\ m.children \in Links
    BY <1>1, PoolTypes, LinkedDual DEF Staged
  <1>3. Cut(mp.children, mp.parents, D, m.children, m.parents)
    <2>1. Leaving(mp.children, mp.parents, D, m.children, m.parents)
      BY <1>1, <1>2 DEF Staged, Leaving
    <2>2. QED
      BY <2>1, CutLinks
  <1>4. \A t \in mp.tx \ D : m.ancestors[t] = mp.ancestors[t]
    <2>1. SUFFICES ASSUME NEW t \in mp.tx \ D PROVE m.ancestors[t] = mp.ancestors[t]
      OBVIOUS
    <2> DEFINE hit == {r \in D : t \in IF FALSE THEN Reach(mp.children, {r}) \ {r} ELSE {}}
    <2>2. m.ancestors[t] = mp.ancestors[t] - Cardinality(hit) /\ mp.ancestors[t] \in Int
      BY <1>1, <1>2, PoolTypes DEF Staged
    <2>3. hit = {}
      OBVIOUS
    <2> HIDE DEF hit
    <2>4. Cardinality(hit) = 0
      BY <2>3, FS_EmptySet
    <2>5. QED
      BY <2>2, <2>4, SMT
  <1>5. Recount(mp.tx, D, mp.parents, mp.descendants, mp.ancestors, m.descendants, m.ancestors)
    BY <1>1, <1>2, <1>4 DEF Staged, Recount
  <1>6. LinkedBy(mp.tx \ D, m.parents, m.children, late, known)
    BY <1>2, <1>3, CutLinked DEF Linked
  <1>7. CountedBy(mp.tx, mp.children, mp.descendants) /\ CountedBy(mp.tx, mp.parents, mp.ancestors)
    BY DEF Counted
  <1>8. /\ CountedBy(mp.tx \ D, m.children, m.descendants)
        /\ CountedBy(mp.tx \ D, m.parents, m.ancestors)
    BY <1>2, <1>3, <1>5, <1>7, CutCounted
  <1>9. QED
    BY <1>1, <1>2, <1>6, <1>8 DEF Counted, Linked, Sound, Staged, Rest, m

LEMMA ShrunkTwice ==
  ASSUME NEW a, NEW b, NEW c, NEW g, NEW h, NEW late, NEW known,
         Shrunk(a, g, late, known, b), Shrunk(b, h, late, known, c)
  PROVE  Shrunk(a, g \cup h, late, known, c)
  BY DEF Shrunk

\* CalculateDescendants gives a closed set, and RemoveStaged takes just that
LEMMA RemoveRest ==
  ASSUME NEW mp, NEW late, NEW known, Sound(mp, late, known), NEW S \in SUBSET mp.tx
  PROVE  LET D == CalculateDescendants(mp, S)
         IN  /\ Rest(mp, D, late, known, RemoveWithDescendants(mp, S))
             /\ S \subseteq D /\ D \in SUBSET mp.tx /\ Closed(mp.children, D)
  <1> DEFINE D == Reach(mp.children, S)
  <1>1. mp \in Pool /\ Linked(mp, late, known) /\ Counted(mp)
    BY DEF Sound
  <1>2. S \subseteq D /\ D \in SUBSET mp.tx /\ Closed(mp.children, D)
    BY <1>1, ReachInPool
  <1> HIDE DEF D
  <1>3. Rest(mp, D, late, known, RemoveStaged(mp, D, FALSE))
    BY <1>1, <1>2, RemoveBelow
  <1>4. QED
    BY <1>2, <1>3 DEF D, RemoveWithDescendants, CalculateDescendants

\* RemoveWithDescendants leaves a sound pool without the set
LEMMA RemoveShrinks ==
  ASSUME NEW mp, NEW late, NEW known, Sound(mp, late, known), NEW S \in SUBSET mp.tx
  PROVE  /\ Shrunk(mp, {}, late, known, RemoveWithDescendants(mp, S))
         /\ S \cap RemoveWithDescendants(mp, S).tx = {}
  <1> DEFINE m == RemoveWithDescendants(mp, S)
             D == CalculateDescendants(mp, S)
  <1>1. Rest(mp, D, late, known, m) /\ S \subseteq D /\ D \in SUBSET mp.tx /\ Closed(mp.children, D)
    BY RemoveRest
  <1> HIDE DEF m, D
  <1>2. /\ Sound(m, late, known) /\ m.tx = mp.tx \ D
        /\ \A t \in m.tx : m.locks[t] = mp.locks[t]
    BY <1>1 DEF Rest
  <1>3. ASSUME NEW t \in m.tx, NEW u \in mp.tx, Depends(t, u), u \in late => t \in known
        PROVE  u \in m.tx
    <2>1. u \in Tx /\ t \in mp.tx
      BY <1>2, PoolTypes DEF Sound
    <2>2. t \in mp.children[u]
      BY <1>3, <2>1 DEF Sound, Linked, LinkedBy
    <2>3. QED
      BY <1>1, <1>2, <2>2 DEF Closed
  <1>4. QED
    BY <1>1, <1>2, <1>3 DEF Shrunk, m

\* what is outside a set that is closed under the links stays
LEMMA RemoveKeeps ==
  ASSUME NEW mp, NEW late, NEW known, Sound(mp, late, known), NEW S \in SUBSET mp.tx,
         NEW R \in SUBSET Tx, S \subseteq R, Closed(mp.children, R)
  PROVE  mp.tx \ R \subseteq RemoveWithDescendants(mp, S).tx
  <1> DEFINE m == RemoveWithDescendants(mp, S)
             D == CalculateDescendants(mp, S)
  <1>1. m.tx = mp.tx \ D
    BY RemoveRest DEF Rest
  <1>2. S \in SUBSET Tx /\ mp.children \in [Tx -> SUBSET Tx]
    BY PoolTypes DEF Sound, Links
  <1>3. D \subseteq R
    BY <1>2, ReachLeast DEF CalculateDescendants
  <1>4. QED
    BY <1>1, <1>3

\* removeRecursive, also for a transaction that is not in the pool
LEMMA RecursiveShrinks ==
  ASSUME NEW mp, NEW late, NEW known, Sound(mp, late, known), NEW t
  PROVE  /\ Shrunk(mp, {}, late, known, removeRecursive(mp, t))
         /\ t \notin mp.tx => \A u \in removeRecursive(mp, t).tx : Spends[u] \cap Outputs[t] = {}
  <1> DEFINE S == IF t \in mp.tx THEN {t} ELSE Spending(mp, t)
             m == RemoveWithDescendants(mp, S)
  <1>1. S \in SUBSET mp.tx
    BY DEF Spending
  <1>2. t \notin mp.tx => S = {u \in mp.tx : Spends[u] \cap Outputs[t] # {}}
    BY DEF Spending
  <1> HIDE DEF S
  <1>3. Shrunk(mp, {}, late, known, m) /\ S \cap m.tx = {}
    BY <1>1, RemoveShrinks
  <1>4. removeRecursive(mp, t) = m
    BY DEF removeRecursive, S
  <1> HIDE DEF m
  <1>5. \A u \in m.tx : u \in mp.tx
    BY <1>3 DEF Shrunk
  <1>6. QED
    BY <1>2, <1>3, <1>4, <1>5

LEMMA SoundPool ==
  ASSUME NEW mp, NEW late, NEW known, Sound(mp, late, known)
  PROVE  mp \in Pool /\ Shrunk(mp, {}, late, known, mp)
  BY DEF Sound, Shrunk

\* RemoveEach has a value for every queue
LEMMA EachExists ==
  ASSUME NEW mp, NEW late, NEW known, Sound(mp, late, known), NEW txs \in Seq(Tx)
  PROVE  \E f : EachEquation(mp, txs, f)
  <1> DEFINE n == Len(txs)
             step == [x \in (1 .. n) \X Pool |-> removeRecursive(x[2], txs[x[1]])]
  <1>1. n \in Nat /\ \A i \in 0 .. n : i # 0 => i \in 1 .. n
    BY SMT
  <1> HIDE DEF n
  <1>2. PICK f : FoldEquation(n, mp, step, f)
    BY <1>1, FoldExists
  <1>3. \A i \in 0 .. n : f[i] = IF i = 0 THEN mp ELSE step[<<i, f[i - 1]>>]
    BY <1>2 DEF FoldEquation
  <1>4. \A i \in 1 .. n : \A m \in Pool : step[<<i, m>>] = removeRecursive(m, txs[i])
    BY SMT
  <1> HIDE DEF step
  <1> DEFINE A == {i \in 0 .. n : Sound(f[i], late, known)}
  <1>5. 0 \in A
    <2>1. 0 \in 0 .. n
      BY <1>1, SMT
    <2>2. QED
      BY <1>3, <2>1
  <1>6. ASSUME NEW i \in 1 .. n, i - 1 \in A
        PROVE  i \in A /\ f[i] = removeRecursive(f[i - 1], txs[i])
    <2>1. i \in 0 .. n /\ i # 0 /\ i - 1 \in 0 .. n
      BY <1>1, SMT
    <2>2. Sound(f[i - 1], late, known)
      BY <1>6
    <2>3. f[i] = removeRecursive(f[i - 1], txs[i])
      BY <1>3, <1>4, <2>1, <2>2, SoundPool
    <2>4. Shrunk(f[i - 1], {}, late, known, f[i])
      BY <2>2, <2>3, RecursiveShrinks
    <2>5. Sound(f[i], late, known)
      BY <2>4 DEF Shrunk
    <2>6. QED
      BY <2>1, <2>3, <2>5
  <1>7. \A i \in 0 .. n : i \in A
    <2> HIDE DEF A
    <2>1. QED
      BY <1>1, <1>5, <1>6, UpTo
  <1>8. \A i \in 0 .. n : f[i] = IF i = 0 THEN mp ELSE removeRecursive(f[i - 1], txs[i])
    <2>1. ASSUME NEW i \in 1 .. n PROVE i - 1 \in 0 .. n
      BY <1>1, SMT
    <2> HIDE DEF A
    <2>2. QED
      BY <1>1, <1>3, <1>6, <1>7, <2>1
  <1>9. EachEquation(mp, txs, f)
    BY <1>2, <1>8 DEF EachEquation, FoldEquation, n
  <1>10. QED
    BY <1>9

\* transactions outside the pool take what depends on them along
LEMMA EachShrinks ==
  ASSUME NEW mp, NEW late, NEW known, Sound(mp, late, known), NEW txs \in Seq(Tx),
         \A i \in 1 .. Len(txs) : txs[i] \notin mp.tx
  PROVE  /\ Shrunk(mp, {}, late, known, RemoveEach(mp, txs))
         /\ \A i \in 1 .. Len(txs) : \A u \in RemoveEach(mp, txs).tx :
              Spends[u] \cap Outputs[txs[i]] = {}
  <1> DEFINE n == Len(txs)
             f == CHOOSE f : EachEquation(mp, txs, f)
             clear(i, m) == \A j \in 1 .. n : \A u \in m.tx :
                              j <= i => Spends[u] \cap Outputs[txs[j]] = {}
             A == {i \in 0 .. n : Shrunk(mp, {}, late, known, f[i]) /\ clear(i, f[i])}
  <1>1. n \in Nat /\ \A i \in 0 .. n : i # 0 => i \in 1 .. n
    BY SMT
  <1>2. EachEquation(mp, txs, f)
    BY EachExists
  <1>3. RemoveEach(mp, txs) = f[n]
    BY DEF RemoveEach, EachEquation
  <1>4. \A i \in 0 .. n : f[i] = IF i = 0 THEN mp ELSE removeRecursive(f[i - 1], txs[i])
    BY <1>2 DEF EachEquation
  <1> HIDE DEF n, f
  <1>5. 0 \in A
    <2>1. 0 \in 0 .. n /\ \A j \in 1 .. n : ~ (j <= 0)
      BY <1>1, SMT
    <2>2. f[0] = mp
      BY <1>4, <2>1
    <2>3. QED
      BY <2>1, <2>2, SoundPool
  <1>6. ASSUME NEW i \in 1 .. n, i - 1 \in A PROVE i \in A
    <2>1. /\ i \in 0 .. n /\ i # 0 /\ i - 1 \in 0 .. n
          /\ \A j \in 1 .. n : j <= i => j <= i - 1 \/ j = i
      BY <1>1, SMT
    <2>2. Shrunk(mp, {}, late, known, f[i - 1]) /\ clear(i - 1, f[i - 1])
      BY <1>6
    <2>3. f[i] = removeRecursive(f[i - 1], txs[i])
      BY <1>4, <2>1
    <2>4. Sound(f[i - 1], late, known) /\ txs[i] \notin f[i - 1].tx
      BY <2>2 DEF Shrunk, n
    <2>5. /\ Shrunk(f[i - 1], {}, late, known, f[i])
          /\ \A u \in f[i].tx : Spends[u] \cap Outputs[txs[i]] = {}
      BY <2>3, <2>4, RecursiveShrinks
    <2>6. Shrunk(mp, {} \cup {}, late, known, f[i])
      BY <2>2, <2>5, ShrunkTwice
    <2>7. f[i].tx \subseteq f[i - 1].tx
      BY <2>5 DEF Shrunk
    <2>8. clear(i, f[i])
      BY <2>1, <2>2, <2>5, <2>7
    <2>9. {} \cup {} = {}
      OBVIOUS
    <2> HIDE DEF clear
    <2>10. QED
      BY <2>1, <2>6, <2>8, <2>9
  <1>7. n \in A
    <2> HIDE DEF A
    <2>1. n \in 0 .. n
      BY <1>1, SMT
    <2>2. QED
      BY <1>1, <1>5, <1>6, <2>1, UpTo
  <1>8. \A j \in 1 .. n : j <= n
    BY <1>1, SMT
  <1>9. QED
    BY <1>3, <1>7, <1>8 DEF n

\* removeForBlock: a block leaves the pool sound, without its transactions and
\* without what conflicts with them
LEMMA BlockShrinks ==
  \A mp : \A late : \A known : \A vtx \in Seq(Tx) :
    Sound(mp, late, known) /\ SpendsBack(mp, vtx)
    => Confirming(mp, vtx, late, known, Len(vtx), removeForBlock(mp, vtx))
  \* an entry that depends on no other leaves alone
  <1>RemoveRoot.
    ASSUME NEW mp \in Pool, NEW late, NEW known, Linked(mp, late, known), Counted(mp),
           NEW r \in mp.tx, mp.parents[r] = {}
    PROVE  Rest(mp, {r}, late, known, RemoveStaged(mp, {r}, TRUE))
    <2> USE <1>RemoveRoot
    <2> DEFINE D == {r}
               m == RemoveStaged(mp, D, TRUE)
    <2>1. TRUE \in BOOLEAN /\ D \in SUBSET mp.tx /\ Closed(mp.parents, D) /\ \A s \in D : s = r
      BY DEF Closed
    <2> HIDE DEF D
    <2>2. Staged(mp, D, TRUE, m)
      BY <2>1, StagedFields
    <2> HIDE DEF m
    <2>3. /\ mp.parents \in Links /\ mp.children \in Links /\ Dual(mp.parents, mp.children)
          /\ mp.tx \in SUBSET Tx /\ D \in SUBSET Tx
          /\ m \in Pool /\ m.parents \in Links /\ m.children \in Links
      BY <2>1, <2>2, PoolTypes, LinkedDual DEF Staged
    <2>4. Cut(mp.parents, mp.children, D, m.parents, m.children)
      <3>1. Leaving(mp.parents, mp.children, D, m.parents, m.children)
        BY <2>1, <2>2, <2>3 DEF Staged, Leaving
      <3>2. QED
        BY <3>1, CutLinks
    <2>5. \A t \in mp.tx \ D : m.descendants[t] = mp.descendants[t]
      <3>1. SUFFICES ASSUME NEW t \in mp.tx \ D PROVE m.descendants[t] = mp.descendants[t]
        OBVIOUS
      <3> DEFINE hit == {s \in D : t \in Reach(mp.parents, mp.parents[s])}
      <3>2. m.descendants[t] = mp.descendants[t] - Cardinality(hit) /\ mp.descendants[t] \in Int
        BY <2>2, <2>3, PoolTypes DEF Staged
      <3>3. Reach(mp.parents, {}) = {}
        BY <2>3, ReachFrom
      <3>4. hit = {}
        BY <2>1, <3>3
      <3> HIDE DEF hit
      <3>5. Cardinality(hit) = 0
        BY <3>4, FS_EmptySet
      <3>6. QED
        BY <3>2, <3>5, SMT
    <2>6. Recount(mp.tx, D, mp.children, mp.ancestors, mp.descendants, m.ancestors, m.descendants)
      <3>1. SUFFICES ASSUME NEW t \in mp.tx \ D
                     PROVE  m.ancestors[t] = mp.ancestors[t]
                              - Cardinality({s \in D : t \in Reach(mp.children, mp.children[s])})
        BY <2>5 DEF Recount
      <3> DEFINE hit == {s \in D : t \in IF TRUE THEN Reach(mp.children, {s}) \ {s} ELSE {}}
                 new == {s \in D : t \in Reach(mp.children, mp.children[s])}
      <3>2. m.ancestors[t] = mp.ancestors[t] - Cardinality(hit)
        BY <2>2, <2>3 DEF Staged
      <3>3. \A s \in D : s # t /\ Reach(mp.children, {s}) = {s} \cup Reach(mp.children, mp.children[s])
        BY <2>3, ReachFirst
      <3>4. hit = new
        BY <3>3
      <3> HIDE DEF hit
      <3>5. QED
        BY <3>2, <3>4
    <2>7. LinkedBy(mp.tx \ D, m.parents, m.children, late, known)
      BY <2>1, <2>3, <2>4, CutLinked DEF Linked
    <2>8. CountedBy(mp.tx, mp.children, mp.descendants) /\ CountedBy(mp.tx, mp.parents, mp.ancestors)
      BY DEF Counted
    <2>9. /\ CountedBy(mp.tx \ D, m.parents, m.ancestors)
          /\ CountedBy(mp.tx \ D, m.children, m.descendants)
      BY <2>3, <2>4, <2>6, <2>8, CutCounted
    <2>10. QED
      BY <2>2, <2>3, <2>7, <2>9 DEF Counted, Linked, Sound, Staged, Rest, m, D
  \* a transaction of a connected block leaves with what conflicts with it
  <1>ConfirmedShrinks.
    ASSUME NEW mp, NEW late, NEW known, Sound(mp, late, known), NEW t,
           \A u \in mp.tx : ~ Depends(t, u)
    PROVE  /\ Shrunk(mp, {t}, late, known, RemoveConfirmed(mp, t))
           /\ t \notin RemoveConfirmed(mp, t).tx
           /\ \A u \in RemoveConfirmed(mp, t).tx : Spends[u] \cap Spends[t] = {}
    <2> USE <1>ConfirmedShrinks
    <2> DEFINE left == IF t \in mp.tx THEN RemoveStaged(mp, {t}, TRUE) ELSE mp
               m == RemoveWithDescendants(left, Conflicts(left, t))
    <2>1. Shrunk(mp, {t}, late, known, left) /\ t \notin left.tx
      <3>1. CASE t \in mp.tx
        <4>1. mp \in Pool /\ Linked(mp, late, known) /\ Counted(mp) /\ t \in Tx
          BY <3>1, PoolTypes DEF Sound
        <4>2. mp.parents[t] = {}
          BY <4>1 DEF Linked, LinkedBy
        <4>3. Rest(mp, {t}, late, known, RemoveStaged(mp, {t}, TRUE))
          BY <3>1, <4>1, <4>2, <1>RemoveRoot
        <4>4. left = RemoveStaged(mp, {t}, TRUE)
          BY <3>1
        <4> HIDE DEF left
        <4>5. QED
          BY <4>3, <4>4 DEF Rest, Shrunk
      <3>2. CASE t \notin mp.tx
        BY <3>2 DEF Shrunk
      <3>3. QED
        BY <3>1, <3>2
    <2>2. RemoveConfirmed(mp, t) = m
      BY DEF RemoveConfirmed
    <2> HIDE DEF left
    <2>3. Conflicts(left, t) = {u \in left.tx : u # t /\ Spends[u] \cap Spends[t] # {}}
      BY DEF Conflicts
    <2>4. Sound(left, late, known) /\ Conflicts(left, t) \in SUBSET left.tx
      BY <2>1, <2>3 DEF Shrunk
    <2>5. Shrunk(left, {}, late, known, m) /\ Conflicts(left, t) \cap m.tx = {}
      BY <2>4, RemoveShrinks
    <2> HIDE DEF m
    <2>6. m.tx \subseteq left.tx
      BY <2>5 DEF Shrunk
    <2>7. Shrunk(mp, {t} \cup {}, late, known, m)
      BY <2>1, <2>5, ShrunkTwice
    <2>8. {t} \cup {} = {t}
      OBVIOUS
    <2>9. t \notin m.tx /\ \A u \in m.tx : Spends[u] \cap Spends[t] = {}
      BY <2>1, <2>3, <2>5, <2>6
    <2>10. QED
      BY <2>2, <2>7, <2>8, <2>9
  <1>BlockStep.
    ASSUME NEW mp, NEW late, NEW known, NEW vtx \in Seq(Tx), SpendsBack(mp, vtx),
           NEW i \in 1 .. Len(vtx), NEW m, Confirming(mp, vtx, late, known, i - 1, m)
    PROVE  Confirming(mp, vtx, late, known, i, RemoveConfirmed(m, vtx[i]))
    <2> USE <1>BlockStep
    <2> DEFINE t == vtx[i]
               r == RemoveConfirmed(m, t)
    <2>1. Shrunk(mp, Range(vtx), late, known, m)
      BY DEF Confirming
    <2>2. Sound(m, late, known) /\ m.tx \subseteq mp.tx
      BY <2>1 DEF Shrunk
    <2>3. \A u \in m.tx : ~ Depends(t, u)
      <3>1. SUFFICES ASSUME NEW u \in m.tx, Depends(vtx[i], u) PROVE FALSE
        OBVIOUS
      <3>2. u \in mp.tx
        BY <2>2
      <3>3. PICK j \in 1 .. Len(vtx) : j <= i - 1 /\ u = vtx[j]
        BY <3>1, <3>2 DEF SpendsBack
      <3>4. QED
        BY <3>3 DEF Confirming
    <2>4. t \in Range(vtx)
      BY SMT DEF Range
    <2> HIDE DEF t
    <2>5. /\ Shrunk(m, {t}, late, known, r) /\ t \notin r.tx
          /\ \A u \in r.tx : Spends[u] \cap Spends[t] = {}
      BY <2>2, <2>3, <1>ConfirmedShrinks
    <2> HIDE DEF r
    <2>6. r.tx \subseteq m.tx
      BY <2>5 DEF Shrunk
    <2>7. Shrunk(mp, Range(vtx) \cup {t}, late, known, r)
      BY <2>1, <2>5, ShrunkTwice
    <2>8. Range(vtx) \cup {t} = Range(vtx)
      BY <2>4
    <2>9. \A j \in 1 .. Len(vtx) : j <= i => j <= i - 1 \/ j = i
      BY SMT
    <2>10. \A j \in 1 .. Len(vtx) : j <= i =>
             vtx[j] \notin r.tx /\ \A u \in r.tx : Spends[u] \cap Spends[vtx[j]] = {}
      BY <2>5, <2>6, <2>9 DEF Confirming, t
    <2>11. QED
      BY <2>7, <2>8, <2>10 DEF Confirming, r, t
  <1>BlockExists.
    ASSUME NEW mp, NEW late, NEW known, Sound(mp, late, known), NEW vtx \in Seq(Tx),
           SpendsBack(mp, vtx)
    PROVE  \E f : BlockEquation(mp, vtx, f) /\ Confirming(mp, vtx, late, known, 0, mp)
    <2> USE <1>BlockExists
    <2> DEFINE n == Len(vtx)
               step == [x \in (1 .. n) \X Pool |-> RemoveConfirmed(x[2], vtx[x[1]])]
               ok(i, m) == Confirming(mp, vtx, late, known, i, m)
    <2>1. n \in Nat /\ 0 \in 0 .. n /\ \A i \in 0 .. n : i # 0 => i \in 1 .. n
      BY SMT
    <2>2. ok(0, mp)
      <3>1. \A j \in 1 .. n : ~ (j <= 0)
        BY SMT
      <3>2. QED
        BY <3>1 DEF Confirming, Shrunk
    <2>3. \A i \in 1 .. n : \A m : ok(i - 1, m) => ok(i, RemoveConfirmed(m, vtx[i]))
      BY <1>BlockStep
    <2>4. \A i, m : ok(i, m) => m \in Pool
      BY DEF Confirming, Shrunk, Sound
    <2> HIDE DEF n
    <2>5. PICK f : FoldEquation(n, mp, step, f)
      BY <2>1, FoldExists
    <2>6. \A i \in 0 .. n : f[i] = IF i = 0 THEN mp ELSE step[<<i, f[i - 1]>>]
      BY <2>5 DEF FoldEquation
    <2>7. \A i \in 1 .. n : \A m \in Pool : step[<<i, m>>] = RemoveConfirmed(m, vtx[i])
      BY SMT
    <2> HIDE DEF step, ok
    <2> DEFINE A == {i \in 0 .. n : ok(i, f[i])}
    <2>8. 0 \in A
      BY <2>1, <2>2, <2>6
    <2>9. ASSUME NEW i \in 1 .. n, i - 1 \in A
          PROVE  i \in A /\ f[i] = RemoveConfirmed(f[i - 1], vtx[i])
      <3>1. i \in 0 .. n /\ i # 0 /\ i - 1 \in 0 .. n
        BY <2>1, SMT
      <3>2. ok(i - 1, f[i - 1])
        BY <2>9
      <3>3. f[i] = RemoveConfirmed(f[i - 1], vtx[i])
        BY <2>4, <2>6, <2>7, <3>1, <3>2
      <3>4. QED
        BY <2>3, <3>1, <3>2, <3>3
    <2>10. \A i \in 0 .. n : i \in A
      <3> HIDE DEF A
      <3>1. QED
        BY <2>1, <2>8, <2>9, UpTo
    <2>11. \A i \in 0 .. n : f[i] = IF i = 0 THEN mp ELSE RemoveConfirmed(f[i - 1], vtx[i])
      <3>1. ASSUME NEW i \in 1 .. n PROVE i - 1 \in 0 .. n
        BY <2>1, SMT
      <3> HIDE DEF A
      <3>2. QED
        BY <2>1, <2>6, <2>9, <2>10, <3>1
    <2>12. BlockEquation(mp, vtx, f)
      BY <2>5, <2>11 DEF BlockEquation, FoldEquation, n
    <2>13. QED
      BY <2>2, <2>12 DEF ok
  <1> SUFFICES
    ASSUME NEW mp, NEW late, NEW known, Sound(mp, late, known), NEW vtx \in Seq(Tx),
           SpendsBack(mp, vtx)
    PROVE  Confirming(mp, vtx, late, known, Len(vtx), removeForBlock(mp, vtx))
    OBVIOUS
  <1> DEFINE n == Len(vtx)
             f == CHOOSE f : BlockEquation(mp, vtx, f)
             ok(i, m) == Confirming(mp, vtx, late, known, i, m)
             A == {i \in 0 .. n : ok(i, f[i])}
  <1>1. n \in Nat /\ 0 \in 0 .. n /\ n \in 0 .. n
    BY SMT
  <1>2. BlockEquation(mp, vtx, f) /\ ok(0, mp)
    BY <1>BlockExists
  <1>3. removeForBlock(mp, vtx) = f[n]
    BY DEF removeForBlock, BlockEquation
  <1>4. \A i \in 0 .. n : f[i] = IF i = 0 THEN mp ELSE RemoveConfirmed(f[i - 1], vtx[i])
    BY <1>2 DEF BlockEquation
  <1>5. \A i \in 1 .. n : \A m : ok(i - 1, m) => ok(i, RemoveConfirmed(m, vtx[i]))
    BY <1>BlockStep
  <1> HIDE DEF n, f, ok
  <1>6. 0 \in A
    BY <1>1, <1>2, <1>4
  <1>7. ASSUME NEW i \in 1 .. n, i - 1 \in A PROVE i \in A
    <2>1. i \in 0 .. n /\ i # 0
      BY <1>1, SMT
    <2>2. QED
      BY <1>4, <1>5, <1>7, <2>1
  <1>8. n \in A
    <2> HIDE DEF A
    <2>1. QED
      BY <1>1, <1>6, <1>7, UpTo
  <1>9. QED
    BY <1>3, <1>8 DEF n, ok

-----------------------------------------------------------------------------
(* Addition.                                                               *)

\* AcceptToMemoryPoolWorker: what it adds is linked with its parents, and with the
\* children it is told of, and counted by all its relatives
LEMMA AcceptedSound ==
  \A mp : \A L : \A X : \A t :
    /\ Sound(mp, L, L) /\ Fresh(mp, t, L, X) /\ MayReplace(mp, t)
    /\ LockPoints(mp, t) \in [height : Int, block : Blocks]
    => /\ Sound(Accepted(mp, t), L \cup X, L \cup X)
       /\ Entered(mp, t, LockPoints(mp, t), L,
                  RemoveWithDescendants(mp, Conflicts(mp, t)), Accepted(mp, t))
  <1>JoinDual.
    ASSUME NEW tx, NEW p, NEW c, NEW t, NEW S, NEW q, NEW d, Joins(tx, p, c, t, S, q, d)
    PROVE  Dual(q, d)
    <2> USE <1>JoinDual
    <2>1. SUFFICES ASSUME NEW w \in Tx, NEW u \in Tx
                   PROVE  u \in q[w] <=> w \in d[u]
      BY DEF Dual
    <2>2. CASE w = t
      BY <2>2 DEF Joins
    <2>3. CASE w # t
      <3>1. q[w] = p[w] /\ (u \in p[w] <=> w \in c[u])
        BY <2>3 DEF Joins, Dual
      <3>2. d[u] = c[u] \/ d[u] = c[u] \cup {t}
        BY DEF Joins
      <3>3. QED
        BY <2>3, <3>1, <3>2
    <2>4. QED
      BY <2>2, <2>3
  \* entries that do not include t reach the same as before
  <1>JoinAbove.
    ASSUME NEW tx, NEW p, NEW c, NEW t, NEW S, NEW q, NEW d, Joins(tx, p, c, t, S, q, d)
    PROVE  \A Q \in SUBSET tx : Reach(q, Q) = Reach(p, Q) /\ Reach(p, Q) \subseteq tx
    <2> USE <1>JoinAbove
    <2> SUFFICES ASSUME NEW Q \in SUBSET tx
                 PROVE  Reach(q, Q) = Reach(p, Q) /\ Reach(p, Q) \subseteq tx
      OBVIOUS
    <2>1. /\ tx \in SUBSET Tx /\ Q \in SUBSET Tx
          /\ p \in [Tx -> SUBSET Tx] /\ q \in [Tx -> SUBSET Tx]
      BY DEF Joins, Links
    <2>2. \A u \in tx : u \in Tx /\ q[u] = p[u] /\ p[u] \subseteq tx
      BY DEF Joins
    <2>3. Closed(p, tx) /\ Closed(q, tx)
      BY <2>2 DEF Closed
    <2>4. Reach(p, Q) \subseteq tx /\ Reach(q, Q) \subseteq tx
      BY <2>1, <2>3, ReachLeast
    <2>5. Closed(p, Reach(p, Q)) /\ Closed(q, Reach(q, Q))
      BY <2>1, ReachLeast
    <2>6. Closed(q, Reach(p, Q)) /\ Closed(p, Reach(q, Q))
      BY <2>2, <2>4, <2>5 DEF Closed
    <2>7. Q \subseteq Reach(p, Q) /\ Q \subseteq Reach(q, Q)
      BY <2>1, ReachLeast
    <2>8. Reach(q, Q) \subseteq Reach(p, Q)
      <3>1. Reach(p, Q) \in SUBSET Tx
        BY <2>1, <2>4
      <3>2. QED
        BY <2>1, <2>6, <2>7, <3>1, ReachWithin DEF Links
    <2>9. Reach(p, Q) \subseteq Reach(q, Q)
      <3>1. Reach(q, Q) \in SUBSET Tx
        BY <2>1, <2>4
      <3>2. QED
        BY <2>1, <2>6, <2>7, <3>1, ReachWithin DEF Links
    <2>10. QED
      BY <2>4, <2>8, <2>9
  <1>JoinReach.
    ASSUME NEW tx, NEW p, NEW c, NEW t, NEW S, NEW q, NEW d, Joins(tx, p, c, t, S, q, d)
    PROVE  Joined(tx, p, c, t, S, q, d)
    <2> USE <1>JoinReach
    <2>0. \A Q \in SUBSET tx : Reach(q, Q) = Reach(p, Q) /\ Reach(p, Q) \subseteq tx
      BY <1>JoinAbove
    <2>1. /\ tx \in SUBSET Tx /\ t \in Tx /\ t \notin tx /\ S \in SUBSET tx
          /\ p \in Links /\ c \in Links /\ q \in Links /\ d \in Links /\ q[t] = S
      BY DEF Joins
    <2>2. Reach(q, {t}) = {t} \cup Reach(p, S) /\ Reach(p, S) \subseteq tx
      <3>1. Reach(q, S) = Reach(p, S) /\ Reach(p, S) \subseteq tx
        BY <2>0, <2>1
      <3>2. Reach(q, {t}) = {t} \cup Reach(q, q[t])
        BY <2>1, ReachFirst
      <3>3. QED
        BY <2>1, <3>1, <3>2
    <2>3. ASSUME NEW u \in tx PROVE Reach(q, {u}) = Reach(p, {u})
      <3>1. {u} \in SUBSET tx
        OBVIOUS
      <3>2. QED
        BY <2>0, <3>1
    <2>4. Reach(d, {t}) = {t}
      <3>1. Closed(d, {t}) /\ {t} \in SUBSET Tx
        BY <2>1 DEF Joins, Closed
      <3>2. Reach(d, {t}) \subseteq {t} /\ t \in Reach(d, {t})
        BY <2>1, <3>1, ReachMember
      <3>3. QED
        BY <3>2
    <2>5. ASSUME NEW u \in tx
          PROVE  Reach(d, {u}) = IF u \in Reach(p, S) THEN Reach(c, {u}) \cup {t}
                                 ELSE Reach(c, {u})
      <3>1. u \in Tx /\ u # t
        BY <2>1
      <3>2. t \in Reach(d, {u}) <=> u \in Reach(p, S)
        <4>1. u \in Reach(q, {t}) <=> t \in Reach(d, {u})
          BY <2>1, <3>1, <1>JoinDual, ReachDual
        <4>2. QED
          BY <2>2, <3>1, <4>1
      <3>3. Reach(d, {u}) \subseteq Reach(c, {u}) \cup {t}
        <4> DEFINE R == Reach(c, {u}) \cup {t}
        <4>1. u \in R /\ R \in SUBSET Tx
          BY <2>1, <3>1, ReachMember
        <4>2. Closed(d, R)
          <5>1. SUFFICES ASSUME NEW w \in R PROVE d[w] \subseteq R
            BY DEF Closed
          <5>2. CASE w = t
            BY <5>2 DEF Joins
          <5>3. CASE w # t
            <6>1. w \in Tx /\ c[w] \subseteq Reach(c, {u})
              BY <2>1, <3>1, <5>3, ReachMember
            <6>2. d[w] \subseteq c[w] \cup {t}
              BY <6>1 DEF Joins
            <6>3. QED
              BY <6>1, <6>2
          <5>4. QED
            BY <5>2, <5>3
        <4> HIDE DEF R
        <4>3. Reach(d, {u}) \subseteq R
          BY <2>1, <3>1, <4>1, <4>2, ReachMember
        <4>4. QED
          BY <4>3 DEF R
      <3>4. Reach(c, {u}) \subseteq Reach(d, {u})
        <4> DEFINE R == Reach(d, {u})
        <4>1. u \in R /\ R \in SUBSET Tx
          BY <2>1, <3>1, ReachMember
        <4>2. Closed(c, R)
          <5>1. SUFFICES ASSUME NEW w \in R PROVE c[w] \subseteq R
            BY DEF Closed
          <5>2. w \in Tx /\ d[w] \subseteq R
            BY <2>1, <3>1, ReachMember
          <5>3. c[w] \subseteq d[w]
            BY <5>2 DEF Joins
          <5>4. QED
            BY <5>2, <5>3
        <4> HIDE DEF R
        <4>3. Reach(c, {u}) \subseteq R
          BY <2>1, <3>1, <4>1, <4>2, ReachMember
        <4>4. QED
          BY <4>3 DEF R
      <3>5. t \notin Reach(c, {u})
        <4>1. Closed(c, tx) /\ u \in tx
          BY <2>1 DEF Joins, Closed
        <4>2. Reach(c, {u}) \subseteq tx
          BY <2>1, <3>1, <4>1, ReachMember
        <4>3. QED
          BY <2>1, <4>2
      <3>6. CASE u \in Reach(p, S)
        <4>1. Reach(d, {u}) = Reach(c, {u}) \cup {t}
          BY <3>2, <3>3, <3>4, <3>6
        <4>2. QED
          BY <3>6, <4>1
      <3>7. CASE u \notin Reach(p, S)
        <4>1. Reach(d, {u}) = Reach(c, {u})
          BY <3>2, <3>3, <3>4, <3>7
        <4>2. QED
          BY <3>7, <4>1
      <3>8. QED
        BY <3>6, <3>7
    <2>6. QED
      BY <2>2, <2>3, <2>4, <2>5 DEF Joined
  <1>AddFields.
    ASSUME NEW mp \in Pool, NEW t \in Tx, NEW A \in SUBSET Tx,
           NEW lp \in [height : Int, block : Blocks]
    PROVE  Added(mp, t, A, lp, addUnchecked(mp, t, A, lp))
    <2> USE <1>AddFields
    <2> DEFINE m == addUnchecked(mp, t, A, lp)
               S == SpentBy(mp, t)
               tx == mp.tx \cup {t}
               parents == [mp.parents EXCEPT ![t] = S]
               children == [u \in Tx |-> IF u \in S THEN mp.children[u] \cup {t}
                                         ELSE mp.children[u]]
               ancestors == [mp.ancestors EXCEPT ![t] = 1 + Cardinality(A)]
               descendants == [u \in Tx |-> IF u = t THEN 1
                                            ELSE IF u \in A THEN mp.descendants[u] + 1
                                            ELSE mp.descendants[u]]
               locks == [mp.locks EXCEPT ![t] = lp]
    <2>1. m = [tx |-> tx, parents |-> parents, children |-> children,
               ancestors |-> ancestors, descendants |-> descendants, locks |-> locks]
      BY DEF addUnchecked
    <2>2. S \in SUBSET Tx
      BY PoolTypes DEF SpentBy
    <2>3. Cardinality(A) \in Int
      <3>1. Cardinality(A) \in Nat
        BY TxFinite, FS_Subset, FS_CardinalityType
      <3>2. QED
        BY <3>1, SMT
    <2>4. 1 \in Int /\ 1 + Cardinality(A) \in Int /\ \A u \in Tx : mp.descendants[u] + 1 \in Int
      BY <2>3, PoolTypes, SMT
    <2> HIDE DEF m, S
    <2>5. /\ tx \in SUBSET Tx /\ parents \in Links /\ children \in Links
          /\ ancestors \in [Tx -> Int] /\ descendants \in [Tx -> Int]
          /\ locks \in [Tx -> [height : Int, block : Blocks]]
      <3>1. tx \in SUBSET Tx /\ parents \in Links /\ children \in Links
        BY <2>2, PoolTypes DEF Links
      <3>2. ancestors \in [Tx -> Int] /\ locks \in [Tx -> [height : Int, block : Blocks]]
        BY <2>4, PoolTypes
      <3>3. descendants \in [Tx -> Int]
        BY <2>4, PoolTypes
      <3>4. QED
        BY <3>1, <3>2, <3>3
    <2>6. /\ parents[t] = S /\ \A u \in Tx : u # t => parents[u] = mp.parents[u]
          /\ \A u \in Tx : children[u] = IF u \in S THEN mp.children[u] \cup {t}
                                         ELSE mp.children[u]
          /\ ancestors[t] = 1 + Cardinality(A)
          /\ \A u \in Tx : u # t => ancestors[u] = mp.ancestors[u]
          /\ descendants[t] = 1
          /\ \A u \in Tx : u # t => descendants[u] = IF u \in A THEN mp.descendants[u] + 1
                                                     ELSE mp.descendants[u]
          /\ locks[t] = lp /\ \A u \in Tx : u # t => locks[u] = mp.locks[u]
      BY PoolTypes DEF Links
    <2> HIDE DEF parents, children, ancestors, descendants, locks
    <2>7. /\ m \in Pool /\ m.tx = tx /\ m.parents = parents /\ m.children = children
          /\ m.ancestors = ancestors /\ m.descendants = descendants /\ m.locks = locks
      BY <2>1, <2>5, SMT DEF Pool
    <2>8. QED
      BY <2>6, <2>7 DEF m, S, Added
  <1>AddLinked.
    ASSUME NEW mp, NEW L, NEW X, NEW t, NEW A, NEW lp, NEW m, mp \in Pool,
           Linked(mp, L, L), Fresh(mp, t, L, X), Added(mp, t, A, lp, m)
    PROVE  Linked(m, L \cup X, L \cup X)
    <2> USE <1>AddLinked
    <2> DEFINE V == L \cup X
    <2>1. /\ m.tx = mp.tx \cup {t} /\ mp.tx \in SUBSET Tx /\ t \in Tx /\ t \notin mp.tx
          /\ X \in SUBSET {t}
      BY PoolTypes DEF Added, Fresh
    <2>2. \A u \in mp.tx : u \in V <=> u \in L
      BY <2>1
    <2>3. SpentBy(mp, t) = {u \in mp.tx : Depends(t, u)}
      BY DEF SpentBy, Depends
    <2>4. ASSUME NEW w \in Tx
          PROVE  m.parents[w] = {u \in m.tx : w \in m.tx /\ Depends(w, u) /\ (u \in V => w \in V)}
      <3>1. CASE w = t
        <4>1. m.parents[w] = {u \in mp.tx : Depends(t, u)}
          BY <2>3, <3>1 DEF Added
        <4>2. ~ Depends(t, t) /\ \A u \in mp.tx : Depends(t, u) /\ u \in V => t \in V
          BY <2>2 DEF Fresh
        <4> HIDE DEF V
        <4>3. QED
          BY <2>1, <3>1, <4>1, <4>2
      <3>2. CASE w # t
        <4>1. m.parents[w] = {u \in mp.tx : w \in mp.tx /\ Depends(w, u) /\ (u \in L => w \in L)}
          BY <3>2 DEF Added, Linked, LinkedBy
        <4>2. w \in mp.tx => ~ (Depends(w, t) /\ (t \in V => w \in V))
          BY <2>1, <2>2, <3>2 DEF Fresh
        <4> HIDE DEF V
        <4>3. QED
          BY <2>1, <2>2, <3>2, <4>1, <4>2
      <3>3. QED
        BY <3>1, <3>2
    <2>5. ASSUME NEW w \in Tx
          PROVE  m.children[w] = {u \in m.tx : w \in m.tx /\ Depends(u, w) /\ (w \in V => u \in V)}
      <3>0. m.children[w] = IF w \in mp.tx /\ Depends(t, w) THEN mp.children[w] \cup {t}
                            ELSE mp.children[w]
        BY <2>3 DEF Added
      <3>1. mp.children[w] = {u \in mp.tx : w \in mp.tx /\ Depends(u, w) /\ (w \in L => u \in L)}
        BY DEF Linked, LinkedBy
      <3>2. CASE w = t
        <4>1. m.children[w] = {}
          BY <2>1, <3>0, <3>1, <3>2
        <4>2. \A u \in m.tx : ~ (Depends(u, t) /\ (t \in V => u \in V))
          BY <2>1, <2>2 DEF Fresh
        <4> HIDE DEF V
        <4>3. QED
          BY <3>2, <4>1, <4>2
      <3>3. CASE w # t
        <4>1. w \in mp.tx /\ Depends(t, w) => (w \in V => t \in V)
          BY <2>2 DEF Fresh
        <4> HIDE DEF V
        <4>2. QED
          BY <2>1, <2>2, <3>0, <3>1, <3>3, <4>1
      <3>4. QED
        BY <3>2, <3>3
    <2>6. QED
      BY <2>4, <2>5 DEF Linked, LinkedBy
  <1>AddCounted.
    ASSUME NEW mp, NEW L, NEW X, NEW t, NEW A, NEW lp, NEW m, Sound(mp, L, L),
           Fresh(mp, t, L, X), A = Reach(mp.parents, SpentBy(mp, t)), Added(mp, t, A, lp, m)
    PROVE  Counted(m)
    <2> USE <1>AddCounted
    <2> DEFINE p == mp.parents
               c == mp.children
               q == m.parents
               d == m.children
               S == SpentBy(mp, t)
    <2>1. mp \in Pool /\ m \in Pool /\ Linked(mp, L, L) /\ m.tx = mp.tx \cup {t}
      BY DEF Sound, Added
    <2>2. Joins(mp.tx, p, c, t, S, q, d)
      <3>1. /\ mp.tx \in SUBSET Tx /\ p \in Links /\ c \in Links /\ Dual(p, c)
            /\ q \in Links /\ d \in Links /\ t \in Tx \ mp.tx
        BY <2>1, PoolTypes, LinkedDual DEF Fresh
      <3>2. S \in SUBSET mp.tx
        BY DEF SpentBy
      <3>3. \A u \in Tx : p[u] \subseteq mp.tx /\ c[u] \subseteq mp.tx
        BY <2>1, LinkedDual
      <3>4. c[t] = {}
        BY <2>1, <3>1, LinkedDual
      <3>5. /\ q[t] = S
            /\ \A u \in Tx : u # t => q[u] = p[u]
            /\ \A u \in Tx : d[u] = IF u \in S THEN c[u] \cup {t} ELSE c[u]
        BY DEF Added
      <3> HIDE DEF p, c, q, d, S
      <3>6. QED
        BY <3>1, <3>2, <3>3, <3>4, <3>5 DEF Joins
    <2>3. /\ Reach(q, {t}) = {t} \cup A /\ A \subseteq mp.tx
          /\ \A u \in mp.tx : Reach(q, {u}) = Reach(p, {u})
          /\ Reach(d, {t}) = {t}
          /\ \A u \in mp.tx : Reach(d, {u}) = IF u \in A THEN Reach(c, {u}) \cup {t}
                                              ELSE Reach(c, {u})
      <3>1. A = Reach(p, S)
        OBVIOUS
      <3> HIDE DEF p, c, q, d, S
      <3>2. Joined(mp.tx, p, c, t, S, q, d)
        BY <2>2, <1>JoinReach
      <3>3. QED
        BY <3>1, <3>2 DEF Joined
    <2>4. /\ mp.tx \in SUBSET Tx /\ t \in Tx /\ t \notin mp.tx /\ c \in Links
          /\ \A u \in mp.tx : c[u] \subseteq mp.tx
      BY <2>1, PoolTypes, LinkedDual DEF Fresh
    <2>5. \A u \in mp.tx : /\ mp.ancestors[u] = Cardinality(Reach(p, {u}))
                           /\ mp.descendants[u] = Cardinality(Reach(c, {u}))
      BY DEF Sound, Counted, CountedBy
    <2>6. /\ m.ancestors[t] = 1 + Cardinality(A) /\ m.descendants[t] = 1
          /\ \A u \in mp.tx : m.ancestors[u] = mp.ancestors[u]
          /\ \A u \in mp.tx : m.descendants[u] = IF u \in A THEN mp.descendants[u] + 1
                                                 ELSE mp.descendants[u]
      <3>1. \A u \in mp.tx : u \in Tx /\ u # t
        BY <2>4
      <3> HIDE DEF p, c, q, d, S
      <3>2. m.ancestors[t] = 1 + Cardinality(A) /\ m.descendants[t] = 1
        BY DEF Added
      <3>3. ASSUME NEW u \in Tx, u # t
            PROVE  /\ m.ancestors[u] = mp.ancestors[u]
                   /\ m.descendants[u] = IF u \in A THEN mp.descendants[u] + 1
                                         ELSE mp.descendants[u]
        BY <3>3 DEF Added
      <3>4. QED
        BY <3>1, <3>2, <3>3
    <2> HIDE DEF p, c, q, d, S
    <2>7. IsFiniteSet(A) /\ t \notin A
      <3>1. A \subseteq Tx /\ t \notin A
        BY <2>3, <2>4
      <3>2. QED
        BY <3>1, TxFinite, FS_Subset
    <2>8. m.ancestors[t] = Cardinality(Reach(q, {t}))
      <3>1. Cardinality(A \cup {t}) = Cardinality(A) + 1 /\ Cardinality(A) \in Nat
        BY <2>7, FS_AddElement, FS_CardinalityType
      <3>2. A \cup {t} = {t} \cup A
        OBVIOUS
      <3>3. Cardinality(A) + 1 = 1 + Cardinality(A)
        BY <3>1, SMT
      <3>4. QED
        BY <2>3, <2>6, <3>1, <3>2, <3>3
    <2>9. m.descendants[t] = Cardinality(Reach(d, {t}))
      BY <2>3, <2>6, FS_Singleton
    <2>10. ASSUME NEW u \in mp.tx
           PROVE  /\ m.ancestors[u] = Cardinality(Reach(q, {u}))
                  /\ m.descendants[u] = Cardinality(Reach(d, {u}))
      <3>1. u \in Tx /\ Closed(c, mp.tx)
        BY <2>4 DEF Closed
      <3>2. Reach(c, {u}) \subseteq mp.tx /\ IsFiniteSet(Reach(c, {u}))
        BY <2>4, <3>1, ReachMember
      <3>3. t \notin Reach(c, {u})
        BY <2>4, <3>2
      <3>4. Cardinality(Reach(c, {u}) \cup {t}) = Cardinality(Reach(c, {u})) + 1
        BY <3>2, <3>3, FS_AddElement
      <3>5. QED
        BY <2>3, <2>5, <2>6, <3>4
    <2>11. QED
      BY <2>1, <2>8, <2>9, <2>10 DEF Counted, CountedBy, q, d
  <1>AddSound.
    ASSUME NEW mp, NEW L, NEW X, NEW t, NEW lp \in [height : Int, block : Blocks],
           Sound(mp, L, L), Fresh(mp, t, L, X)
    PROVE  LET A == Reach(mp.parents, SpentBy(mp, t))
               m == addUnchecked(mp, t, A, lp)
           IN  Sound(m, L \cup X, L \cup X) /\ Added(mp, t, A, lp, m)
    <2> USE <1>AddSound
    <2> DEFINE A == Reach(mp.parents, SpentBy(mp, t))
               m == addUnchecked(mp, t, A, lp)
    <2>1. mp \in Pool /\ Linked(mp, L, L) /\ t \in Tx /\ SpentBy(mp, t) \in SUBSET mp.tx
      BY DEF Sound, Fresh, SpentBy
    <2>2. A \in SUBSET Tx
      BY <2>1, ReachInPool, PoolTypes
    <2>3. A = Reach(mp.parents, SpentBy(mp, t))
      OBVIOUS
    <2> HIDE DEF A
    <2>4. Added(mp, t, A, lp, m)
      BY <2>1, <2>2, <1>AddFields
    <2> HIDE DEF m
    <2>5. Linked(m, L \cup X, L \cup X)
      BY <2>1, <2>4, <1>AddLinked
    <2>6. Counted(m)
      BY <2>3, <2>4, <1>AddCounted
    <2>7. m \in Pool
      BY <2>4 DEF Added
    <2>8. QED
      BY <2>4, <2>5, <2>6, <2>7 DEF Sound, A, m
  \* what a transaction replaces is not among its ancestors, nor below them
  <1>AncestorsStay.
    ASSUME NEW mp, NEW L, NEW t, NEW m, Sound(mp, L, L), MayReplace(mp, t),
           m = RemoveWithDescendants(mp, Conflicts(mp, t))
    PROVE  /\ SpentBy(mp, t) \subseteq m.tx /\ SpentBy(m, t) = SpentBy(mp, t)
           /\ Reach(m.parents, SpentBy(mp, t)) = Reach(mp.parents, SpentBy(mp, t))
    <2> USE <1>AncestorsStay
    <2> DEFINE C == Conflicts(mp, t)
               S == SpentBy(mp, t)
               p == mp.parents
               c == mp.children
               q == m.parents
               A == Reach(p, S)
               D == Reach(c, C)
    <2>1. mp \in Pool /\ Linked(mp, L, L) /\ C \in SUBSET mp.tx /\ S \in SUBSET mp.tx
      BY DEF Sound, Conflicts, SpentBy
    <2>2. A \cap C = {}
      BY DEF MayReplace, CalculateMemPoolAncestors
    <2>3. /\ A \in SUBSET mp.tx /\ S \subseteq A /\ Closed(p, A)
          /\ D \in SUBSET mp.tx /\ Closed(c, D)
      BY <2>1, ReachInPool
    <2>4. /\ p \in Links /\ c \in Links /\ Dual(p, c) /\ Dual(c, p) /\ mp.tx \in SUBSET Tx
      BY <2>1, PoolTypes, LinkedDual
    <2>5. Rest(mp, D, L, L, m)
      BY <2>1, RemoveRest DEF CalculateDescendants
    <2>6. m.tx = mp.tx \ D /\ m \in Pool /\ Linked(m, L, L)
      BY <2>5 DEF Rest, Sound
    <2>7. \A u \in S : \E o \in Spends[t] : o[1] = u
      BY DEF SpentBy
    <2>8. SpentBy(m, t) = {u \in m.tx : \E o \in Spends[t] : o[1] = u}
      BY DEF SpentBy
    <2>9. S = {u \in mp.tx : \E o \in Spends[t] : o[1] = u}
      BY DEF SpentBy
    <2>10. \A w \in Tx :
             /\ q[w] = {u \in m.tx : w \in m.tx /\ Depends(w, u) /\ (u \in L => w \in L)}
             /\ p[w] = {u \in mp.tx : w \in mp.tx /\ Depends(w, u) /\ (u \in L => w \in L)}
      BY <2>1, <2>6 DEF Linked, LinkedBy
    <2>11. q \in Links
      BY <2>6, PoolTypes
    <2> HIDE DEF C, S, p, c, q
    <2>12. A \cap D = {}
      <3>1. SUFFICES ASSUME NEW u \in A, u \in D PROVE FALSE
        OBVIOUS
      <3>2. C \in SUBSET Tx /\ u \in Tx
        BY <2>1, <2>3, <2>4
      <3>3. PICK x \in C : u \in Reach(c, {x})
        BY <2>4, <3>1, <3>2, ReachFrom
      <3>4. x \in Reach(p, {u})
        BY <2>4, <3>2, <3>3, ReachDual
      <3>5. A \in SUBSET Tx
        BY <2>3, <2>4
      <3> HIDE DEF A, D
      <3>6. Reach(p, {u}) \subseteq A
        BY <2>3, <2>4, <3>2, <3>5, ReachMember
      <3>7. QED
        BY <2>2, <3>4, <3>6
    <2> HIDE DEF A, D
    <2>13. A \subseteq m.tx
      BY <2>3, <2>6, <2>12
    <2>14. S \subseteq m.tx /\ SpentBy(m, t) = S
      BY <2>3, <2>6, <2>8, <2>9, <2>13
    <2>15. ASSUME NEW w \in A PROVE q[w] = p[w]
      <3>1. w \in Tx /\ p[w] \subseteq A /\ w \in m.tx /\ w \in mp.tx
        BY <2>3, <2>4, <2>13 DEF Closed
      <3>2. \A u \in mp.tx : u \in p[w] => u \in m.tx
        BY <2>13, <3>1
      <3>3. \A u : u \in q[w] <=> u \in p[w]
        BY <2>6, <2>10, <3>1, <3>2
      <3>4. QED
        BY <3>1, <3>3, <2>4, <2>11 DEF Links
    <2>16. Reach(q, S) = A
      <3>1. A \in SUBSET Tx /\ S \in SUBSET Tx
        BY <2>3, <2>4
      <3>2. Closed(q, A)
        BY <2>3, <2>15 DEF Closed
      <3>3. Reach(q, S) \subseteq A
        BY <2>3, <2>11, <3>1, <3>2, ReachWithin
      <3>4. S \subseteq Reach(q, S) /\ Closed(q, Reach(q, S)) /\ Reach(q, S) \in SUBSET Tx
        BY <2>11, <3>1, ReachLeast DEF Links
      <3>5. Closed(p, Reach(q, S))
        BY <2>15, <3>3, <3>4 DEF Closed
      <3>6. Reach(p, S) \subseteq Reach(q, S)
        BY <2>4, <3>1, <3>4, <3>5, ReachWithin
      <3>7. QED
        BY <3>3, <3>6 DEF A
    <2>17. QED
      BY <2>14, <2>16 DEF A, S, p, q
  <1> SUFFICES
    ASSUME NEW mp, NEW L, NEW X, NEW t, Sound(mp, L, L), Fresh(mp, t, L, X),
           MayReplace(mp, t), LockPoints(mp, t) \in [height : Int, block : Blocks]
    PROVE  /\ Sound(Accepted(mp, t), L \cup X, L \cup X)
           /\ Entered(mp, t, LockPoints(mp, t), L,
                      RemoveWithDescendants(mp, Conflicts(mp, t)), Accepted(mp, t))
    OBVIOUS
  <1> DEFINE left == RemoveWithDescendants(mp, Conflicts(mp, t))
             lp == LockPoints(mp, t)
             A == Reach(left.parents, SpentBy(left, t))
             m == addUnchecked(left, t, A, lp)
  <1>1. Conflicts(mp, t) \in SUBSET mp.tx
    BY DEF Conflicts
  <1>2. Shrunk(mp, {}, L, L, left) /\ Conflicts(mp, t) \cap left.tx = {}
    BY <1>1, RemoveShrinks
  <1>3. /\ SpentBy(mp, t) \subseteq left.tx /\ SpentBy(left, t) = SpentBy(mp, t)
        /\ Reach(left.parents, SpentBy(mp, t)) = Reach(mp.parents, SpentBy(mp, t))
    BY <1>AncestorsStay
  <1>4. Accepted(mp, t) = m
    BY <1>3 DEF Accepted, CalculateMemPoolAncestors
  <1> HIDE DEF left, lp
  <1>5. /\ Sound(left, L, L) /\ left.tx \subseteq mp.tx
        /\ \A u \in left.tx : left.locks[u] = mp.locks[u]
    BY <1>2 DEF Shrunk
  <1>6. Fresh(left, t, L, X)
    BY <1>5 DEF Fresh
  <1>7. lp \in [height : Int, block : Blocks]
    BY DEF lp
  <1>8. Sound(m, L \cup X, L \cup X) /\ Added(left, t, A, lp, m)
    BY <1>5, <1>6, <1>7, <1>AddSound
  <1> HIDE DEF m, A
  <1>9. t \notin left.tx /\ left.tx \in SUBSET Tx
    BY <1>5, <1>6, PoolTypes DEF Fresh, Sound
  <1>10. /\ m.tx = left.tx \cup {t} /\ m.locks[t] = lp
         /\ \A u \in Tx : u # t => m.locks[u] = left.locks[u]
    BY <1>8 DEF Added
  <1>11. Entered(mp, t, lp, L, left, m)
    <2>1. ASSUME NEW u \in left.tx PROVE m.locks[u] = mp.locks[u]
      BY <1>5, <1>9, <1>10
    <2>2. QED
      BY <1>2, <1>3, <1>10, <2>1 DEF Entered
  <1>12. QED
    BY <1>4, <1>8, <1>11 DEF left, lp

-----------------------------------------------------------------------------
(* UpdateTransactionsFromBlock.  V are the re-added transactions, X those  *)
(* of them that do not know their children outside V yet.                  *)

\* what spends an output of a transaction is what depends on it
LEMMA RealSpending ==
  ASSUME NEW mp, Real(mp.tx), NEW t \in Tx
  PROVE  Spending(mp, t) = {u \in mp.tx : Depends(u, t)}
  <1>1. \A o \in Outputs[t] : o[1] = t
    BY MempoolAssumption, SMT DEF MempoolAssumption
  <1>2. ASSUME NEW u \in mp.tx PROVE Spends[u] \cap Outputs[t] # {} <=> Depends(u, t)
    BY <1>1 DEF Depends, Real
  <1>3. QED
    BY <1>2 DEF Spending

\* UpdateTransactionsFromBlock: after the re-added transactions have been told of
\* their children, links and counts are complete
LEMMA UpdateSound ==
  \A mp : \A v :
    Returned(mp, v)
    => LET m == UpdateTransactionsFromBlock(mp, v)
       IN  Sound(m, {}, {}) /\ m.tx = mp.tx /\ m.locks = mp.locks
  <1>MeetTypes.
    ASSUME NEW T, NEW p, NEW c, NEW X, NEW V, NEW t, NEW new, NEW q, NEW d,
           Meets(T, p, c, X, V, t, new, q, d)
    PROVE  Met(T, p, c, X, V, t, new, q, d)
    <2> USE <1>MeetTypes
    <2>1. /\ T \in SUBSET Tx /\ V \in SUBSET Tx /\ X \in SUBSET V /\ V \subseteq T
          /\ p \in Links /\ c \in Links /\ Dual(p, c) /\ q \in Links /\ d \in Links
          /\ t \in X /\ t \in V /\ t \in Tx /\ new \in SUBSET (T \ V)
          /\ Closed(p, V) /\ Closed(p, X) /\ \A u \in Tx : c[u] \subseteq T
      BY DEF Meets, Halfway
    <2>2. Closed(c, T \ V)
      <3>1. SUFFICES ASSUME NEW w \in T \ V, NEW x \in c[w] PROVE x \in T \ V
        BY DEF Closed
      <3>2. w \in Tx /\ x \in T /\ x \in Tx
        BY <2>1
      <3>3. w \in p[x]
        BY <2>1, <3>2 DEF Dual
      <3>4. QED
        BY <2>1, <3>2, <3>3 DEF Closed
    <2>3. Closed(c, Tx \ X)
      <3>1. SUFFICES ASSUME NEW w \in Tx \ X, NEW x \in c[w] PROVE x \in Tx \ X
        BY DEF Closed
      <3>2. w \in Tx /\ x \in Tx
        BY <2>1
      <3>3. w \in p[x]
        BY <2>1, <3>2 DEF Dual
      <3>4. QED
        BY <2>1, <3>2, <3>3 DEF Closed
    <2>4. QED
      BY <2>1, <2>2, <2>3 DEF Meets, Met
  <1>MeetDual.
    ASSUME NEW T, NEW p, NEW c, NEW X, NEW V, NEW t, NEW new, NEW q, NEW d,
           Meets(T, p, c, X, V, t, new, q, d)
    PROVE  Dual(q, d)
    <2> USE <1>MeetDual
    <2>0. Met(T, p, c, X, V, t, new, q, d)
      BY <1>MeetTypes
    <2>1. SUFFICES ASSUME NEW w \in Tx, NEW u \in Tx PROVE u \in q[w] <=> w \in d[u]
      BY DEF Dual
    <2>2. /\ u \in p[w] <=> w \in c[u]
          /\ q[w] = IF w \in new THEN p[w] \cup {t} ELSE p[w]
          /\ d[u] = IF u = t THEN c[u] \cup new ELSE c[u]
      BY <2>0 DEF Met, Dual
    <2>3. QED
      BY <2>2
  <1>MeetBelow.
    ASSUME NEW T, NEW p, NEW c, NEW X, NEW V, NEW t, NEW new, NEW q, NEW d,
           Meets(T, p, c, X, V, t, new, q, d), NEW s \in T
    PROVE  MetBelow(c, X, V, d, s)
    <2> USE <1>MeetBelow
    <2>0. Met(T, p, c, X, V, t, new, q, d)
      BY <1>MeetTypes
    <2>1. /\ T \in SUBSET Tx /\ V \in SUBSET Tx /\ X \in SUBSET V /\ c \in Links /\ d \in Links
          /\ s \in Tx /\ t \in X /\ t \in V /\ t \in Tx /\ new \in SUBSET (T \ V)
          /\ Closed(c, T \ V) /\ Closed(c, Tx \ X)
          /\ \A u \in Tx : d[u] = IF u = t THEN c[u] \cup new ELSE c[u]
      BY <2>0 DEF Met
    <2>2. \A u \in Tx : c[u] \subseteq d[u] /\ (u # t => d[u] = c[u])
      BY <2>1
    <2>3. Reach(c, {s}) \subseteq Reach(d, {s})
      <3>1. s \in Reach(d, {s}) /\ Reach(d, {s}) \in SUBSET Tx
        BY <2>1, ReachMember
      <3>2. \A u \in Reach(d, {s}) : d[u] \subseteq Reach(d, {s})
        BY <2>1, ReachMember
      <3>3. Closed(c, Reach(d, {s}))
        BY <2>2, <3>1, <3>2 DEF Closed
      <3>4. QED
        BY <2>1, <3>1, <3>3, ReachMember
    <2>4. Reach(d, {s}) \subseteq Reach(c, {s}) \cup (T \ V)
      <3> DEFINE R == Reach(c, {s}) \cup (T \ V)
      <3>1. s \in R /\ R \in SUBSET Tx
        BY <2>1, ReachMember
      <3>2. Closed(d, R)
        <4>1. SUFFICES ASSUME NEW w \in R PROVE d[w] \subseteq R
          BY DEF Closed
        <4>2. CASE w \in T \ V
          <5>1. w \in Tx /\ w # t /\ c[w] \subseteq T \ V
            BY <2>1, <4>2 DEF Closed
          <5>2. QED
            BY <2>2, <5>1
        <4>3. CASE w \in Reach(c, {s})
          <5>1. w \in Tx /\ c[w] \subseteq Reach(c, {s})
            BY <2>1, <4>3, ReachMember
          <5>2. d[w] \subseteq c[w] \cup new
            BY <2>1, <5>1
          <5>3. QED
            BY <2>1, <5>1, <5>2
        <4>4. QED
          BY <4>2, <4>3
      <3> HIDE DEF R
      <3>3. Reach(d, {s}) \subseteq R
        BY <2>1, <3>1, <3>2, ReachMember
      <3>4. QED
        BY <3>3 DEF R
    <2>5. ASSUME s \notin X PROVE Reach(d, {s}) \subseteq Reach(c, {s})
      <3>1. s \in Tx \ X /\ Tx \ X \in SUBSET Tx
        BY <2>1, <2>5
      <3>2. Reach(c, {s}) \subseteq Tx \ X
        BY <2>1, <3>1, ReachMember
      <3>3. \A u \in Reach(c, {s}) : c[u] \subseteq Reach(c, {s}) /\ d[u] = c[u]
        BY <2>1, <2>2, <3>2, ReachMember
      <3>4. Closed(d, Reach(c, {s})) /\ Reach(c, {s}) \in SUBSET Tx /\ s \in Reach(c, {s})
        BY <2>1, <3>3, ReachMember DEF Closed
      <3>5. d \in Links /\ s \in Tx
        BY <2>1
      <3>6. QED
        BY <3>4, <3>5, ReachInto
    <2>6. QED
      BY <2>3, <2>4, <2>5 DEF MetBelow
  <1>MeetAbove.
    ASSUME NEW T, NEW p, NEW c, NEW X, NEW V, NEW t, NEW new, NEW q, NEW d,
           Meets(T, p, c, X, V, t, new, q, d), NEW u \in T
    PROVE  MetAbove(p, X, V, t, q, d, u)
    <2> USE <1>MeetAbove
    <2>0. Met(T, p, c, X, V, t, new, q, d)
      BY <1>MeetTypes
    <2>1. /\ T \in SUBSET Tx /\ V \in SUBSET Tx /\ X \in SUBSET V /\ p \in Links /\ q \in Links
          /\ d \in Links /\ u \in Tx /\ t \in X /\ t \in V /\ t \in Tx /\ new \in SUBSET (T \ V)
          /\ Closed(p, V) /\ Closed(p, X)
      BY <2>0 DEF Met
    <2>2. \A w \in Tx : /\ p[w] \subseteq q[w] /\ q[w] \subseteq p[w] \cup {t}
                        /\ (w \notin new => q[w] = p[w])
                        /\ (w \in new => t \in q[w])
      <3>1. \A w \in Tx : q[w] = IF w \in new THEN p[w] \cup {t} ELSE p[w]
        BY <2>0 DEF Met
      <3>2. QED
        BY <3>1
    <2>3. t \in Reach(q, {u}) <=> u \in Reach(d, {t})
      BY <2>1, <1>MeetDual, ReachDual
    <2>4. \A w \in Tx : Reach(p, {w}) \subseteq Reach(q, {w})
      <3>1. SUFFICES ASSUME NEW w \in Tx PROVE Reach(p, {w}) \subseteq Reach(q, {w})
        OBVIOUS
      <3>2. w \in Reach(q, {w}) /\ Reach(q, {w}) \in SUBSET Tx
        BY <2>1, ReachMember
      <3>3. \A x \in Reach(q, {w}) : q[x] \subseteq Reach(q, {w})
        BY <2>1, ReachMember
      <3>4. Closed(p, Reach(q, {w}))
        BY <2>2, <3>2, <3>3 DEF Closed
      <3>5. p \in Links
        BY <2>1
      <3>6. QED
        BY <3>2, <3>4, <3>5, ReachInto
    <2>5. /\ u \in Reach(p, {u}) /\ Reach(p, {u}) \in SUBSET Tx
          /\ t \in Reach(p, {t}) /\ Reach(p, {t}) \in SUBSET Tx
      BY <2>1, ReachMember
    <2>6. /\ \A w \in Reach(p, {u}) : p[w] \subseteq Reach(p, {u})
          /\ \A w \in Reach(p, {t}) : p[w] \subseteq Reach(p, {t})
      BY <2>1, ReachMember
    <2>7. ASSUME Closed(q, Reach(p, {u})) PROVE Reach(q, {u}) = Reach(p, {u})
      <3>1. Reach(q, {u}) \subseteq Reach(p, {u})
        BY <2>1, <2>5, <2>7, ReachInto
      <3>2. QED
        BY <2>1, <2>4, <3>1
    <2>8. ASSUME u \in V PROVE Reach(q, {u}) = Reach(p, {u})
      <3>1. Reach(p, {u}) \subseteq V
        BY <2>1, <2>8, ReachMember
      <3>2. Closed(q, Reach(p, {u}))
        BY <2>1, <2>2, <2>6, <3>1 DEF Closed
      <3>3. QED
        BY <2>7, <3>2
    <2>9. ASSUME u \notin Reach(d, {t})
          PROVE  Reach(q, {u}) = Reach(p, {u}) /\ t \notin Reach(q, {u})
      <3>1. \A w \in Reach(p, {u}) : w \in Tx /\ w \in Reach(q, {u}) /\ q[w] \subseteq Reach(q, {u})
        BY <2>1, <2>4, <2>5, ReachMember
      <3>2. \A w \in Reach(p, {u}) : q[w] = p[w]
        BY <2>2, <2>3, <2>9, <3>1
      <3>3. Closed(q, Reach(p, {u}))
        BY <2>6, <3>2 DEF Closed
      <3>4. QED
        BY <2>3, <2>7, <2>9, <3>3
    <2>10. ASSUME u \in Reach(d, {t}), u \notin V
           PROVE  Reach(q, {u}) \ (X \ {t}) = (Reach(p, {u}) \ X) \cup {t}
      <3>1. t \in Reach(q, {u})
        BY <2>3, <2>10
      <3>2. Reach(p, {t}) \subseteq X
        <4>1. X \in SUBSET Tx
          BY <2>1
        <4>2. QED
          BY <2>1, <4>1, ReachMember
      <3>3. Reach(q, {u}) \subseteq Reach(p, {u}) \cup Reach(p, {t})
        <4> DEFINE R == Reach(p, {u}) \cup Reach(p, {t})
        <4>1. u \in R /\ R \in SUBSET Tx
          BY <2>5
        <4>2. ASSUME NEW w \in R PROVE q[w] \subseteq R
          <5>1. w \in Tx /\ p[w] \subseteq R
            BY <2>6, <4>1
          <5>2. t \in R
            BY <2>5
          <5> HIDE DEF R
          <5>3. QED
            BY <2>2, <5>1, <5>2
        <4> HIDE DEF R
        <4>3. Closed(q, R)
          BY <4>2 DEF Closed
        <4>4. Reach(q, {u}) \subseteq R
          BY <2>1, <4>1, <4>3, ReachMember
        <4>5. QED
          BY <4>4 DEF R
      <3>4. Reach(p, {u}) \subseteq Reach(q, {u})
        BY <2>1, <2>4
      <3>5. QED
        BY <2>1, <3>1, <3>2, <3>3, <3>4
    <2>11. QED
      BY <2>8, <2>9, <2>10 DEF MetAbove
  <1>UpdateFields.
    ASSUME NEW mp \in Pool, NEW V, NEW t \in mp.tx
    PROVE  \E all \in SUBSET Tx :
             Updated(mp, t, V, NewChildren(mp, t, V), all, UpdateForDescendants(mp, t, V))
    <2> USE <1>UpdateFields
    <2> DEFINE m == UpdateForDescendants(mp, t, V)
               new == NewChildren(mp, t, V)
               links == [mp.children EXCEPT ![t] = @ \cup new]
               all == Reach(links, links[t]) \ V
               parents == [u \in Tx |-> IF u \in new THEN mp.parents[u] \cup {t} ELSE mp.parents[u]]
               ancestors == [u \in Tx |-> IF u \in all THEN mp.ancestors[u] + 1
                                          ELSE mp.ancestors[u]]
               descendants == [mp.descendants EXCEPT ![t] = @ + Cardinality(all)]
    <2>1. /\ mp.tx \in SUBSET Tx /\ t \in Tx /\ mp.parents \in Links /\ mp.children \in Links
          /\ mp.ancestors \in [Tx -> Int] /\ mp.descendants \in [Tx -> Int]
          /\ mp.locks \in [Tx -> [height : Int, block : Blocks]]
      BY PoolTypes
    <2>2. m = With(mp, links, parents, ancestors, descendants)
      BY DEF UpdateForDescendants, With
    <2>3. new \in SUBSET Tx
      BY <2>1 DEF NewChildren, Spending
    <2> HIDE DEF m, new
    <2>4. links \in Links
      BY <2>1, <2>3 DEF Links
    <2>5. \A u \in Tx : links[u] = IF u = t THEN mp.children[u] \cup new ELSE mp.children[u]
      BY <2>1 DEF Links
    <2> HIDE DEF links
    <2>6. all \in SUBSET Tx
      <3>1. links[t] \in SUBSET Tx
        BY <2>1, <2>4 DEF Links
      <3>2. Reach(links, links[t]) \subseteq Tx
        BY <2>4, <3>1, ReachLeast DEF Links
      <3>3. QED
        BY <3>2
    <2>7. all = Reach(links, links[t]) \ V
      OBVIOUS
    <2> HIDE DEF all
    <2>8. Cardinality(all) \in Nat
      BY <2>6, TxFinite, FS_Subset, FS_CardinalityType
    <2>9. /\ \A u \in Tx : mp.ancestors[u] \in Int /\ mp.ancestors[u] + 1 \in Int
          /\ mp.descendants[t] + Cardinality(all) \in Int
      BY <2>1, <2>8, SMT
    <2>10. /\ parents \in Links /\ ancestors \in [Tx -> Int] /\ descendants \in [Tx -> Int]
      BY <2>1, <2>9 DEF Links
    <2>11. /\ \A u \in Tx : parents[u] = IF u \in new THEN mp.parents[u] \cup {t} ELSE mp.parents[u]
           /\ \A u \in Tx : ancestors[u] = IF u \in all THEN mp.ancestors[u] + 1
                                           ELSE mp.ancestors[u]
           /\ descendants[t] = mp.descendants[t] + Cardinality(all)
           /\ \A u \in Tx : u # t => descendants[u] = mp.descendants[u]
      BY <2>1
    <2> HIDE DEF parents, ancestors, descendants
    <2>12. /\ m \in Pool /\ m.tx = mp.tx /\ m.locks = mp.locks /\ m.parents = parents
           /\ m.children = links /\ m.ancestors = ancestors /\ m.descendants = descendants
      <3>1. HasFields(mp, links, parents, ancestors, descendants, m)
        BY <2>2, <2>4, <2>10, WithFields
      <3>2. QED
        BY <3>1 DEF HasFields
    <2>13. Updated(mp, t, V, new, all, m)
      BY <2>5, <2>7, <2>11, <2>12 DEF Updated
    <2>14. QED
      BY <2>6, <2>13 DEF new, m
  <1>PartialHalfway.
    ASSUME NEW m \in Pool, NEW V, NEW X, Linked(m, X, V), Upmost(m.tx, V, X)
    PROVE  Halfway(m.tx, m.parents, m.children, X, V)
    <2> USE <1>PartialHalfway
    <2>1. /\ m.tx \in SUBSET Tx /\ m.parents \in Links /\ m.children \in Links
          /\ Dual(m.parents, m.children)
          /\ \A u \in Tx : m.parents[u] \subseteq m.tx /\ m.children[u] \subseteq m.tx
      BY PoolTypes, LinkedDual
    <2>2. \A u \in Tx : m.parents[u] = {w \in m.tx : u \in m.tx /\ Depends(u, w)
                                                       /\ (w \in X => u \in V)}
      BY DEF Linked, LinkedBy
    <2>3. Closed(m.parents, V) /\ Closed(m.parents, X)
      <3>1. ASSUME NEW v \in V, NEW w \in m.parents[v] PROVE w \in V
        <4>1. v \in Tx
          BY <2>1 DEF Upmost
        <4>2. w \in m.tx /\ Depends(v, w)
          BY <2>2, <4>1
        <4>3. QED
          BY <4>2 DEF Upmost
      <3>2. ASSUME NEW v \in X, NEW w \in m.parents[v] PROVE w \in X
        <4>1. v \in Tx /\ v \in V
          BY <2>1 DEF Upmost
        <4>2. w \in m.tx /\ Depends(v, w) /\ w \in V
          BY <2>2, <3>1, <4>1
        <4>3. QED
          BY <4>2 DEF Upmost
      <3>3. QED
        BY <3>1, <3>2 DEF Closed
    <2>4. QED
      BY <2>1, <2>3 DEF Halfway, Upmost
  <1>UpdateLinked.
    ASSUME NEW mp \in Pool, NEW V, NEW X, NEW t, Linked(mp, X, V), Upmost(mp.tx, V, X), t \in X,
           NEW new, new = {u \in mp.tx : Depends(u, t)} \ V, NEW all, NEW m,
           Updated(mp, t, V, new, all, m)
    PROVE  Linked(m, X \ {t}, V)
    <2> USE <1>UpdateLinked
    <2>1. mp.tx \in SUBSET Tx /\ t \in Tx /\ t \in mp.tx /\ m.tx = mp.tx
      BY PoolTypes DEF Upmost, Updated
    <2>2. ASSUME NEW u \in Tx
          PROVE  /\ m.parents[u] = {w \in mp.tx : /\ u \in mp.tx /\ Depends(u, w)
                                                  /\ w \in X \ {t} => u \in V}
                 /\ m.children[u] = {w \in mp.tx : /\ u \in mp.tx /\ Depends(w, u)
                                                   /\ u \in X \ {t} => w \in V}
      <3>1. /\ mp.parents[u] = {w \in mp.tx : u \in mp.tx /\ Depends(u, w) /\ (w \in X => u \in V)}
            /\ mp.children[u] = {w \in mp.tx : u \in mp.tx /\ Depends(w, u) /\ (u \in X => w \in V)}
        BY DEF Linked, LinkedBy
      <3>2. /\ m.parents[u] = IF u \in new THEN mp.parents[u] \cup {t} ELSE mp.parents[u]
            /\ m.children[u] = IF u = t THEN mp.children[u] \cup new ELSE mp.children[u]
        BY DEF Updated
      <3>3. m.parents[u] = {w \in mp.tx : /\ u \in mp.tx /\ Depends(u, w)
                                          /\ w \in X \ {t} => u \in V}
        <4>1. CASE u \in new
          BY <2>1, <3>1, <3>2, <4>1
        <4>2. CASE u \notin new
          BY <2>1, <3>1, <3>2, <4>2
        <4>3. QED
          BY <4>1, <4>2
      <3>4. m.children[u] = {w \in mp.tx : /\ u \in mp.tx /\ Depends(w, u)
                                           /\ u \in X \ {t} => w \in V}
        <4>1. CASE u = t
          BY <2>1, <3>1, <3>2, <4>1
        <4>2. CASE u # t
          BY <2>1, <3>1, <3>2, <4>2
        <4>3. QED
          BY <4>1, <4>2
      <3>5. QED
        BY <3>3, <3>4
    <2>3. QED
      BY <2>1, <2>2 DEF Linked, LinkedBy
  \* the two halves of a finite set
  <1>Halves.
    ASSUME NEW R, IsFiniteSet(R), NEW V
    PROVE  Cardinality(R) = Cardinality(R \cap V) + Cardinality(R \ V)
    <2> USE <1>Halves
    <2>1. IsFiniteSet(R \cap V) /\ IsFiniteSet(R \ V)
      BY FS_Subset
    <2>2. Cardinality(R \ V) = Cardinality(R) - Cardinality(R \cap V)
      BY FS_Difference
    <2>3. Cardinality(R) \in Nat /\ Cardinality(R \cap V) \in Nat
      BY <2>1, FS_CardinalityType
    <2>4. QED
      BY <2>2, <2>3, SMT
  <1>UpdateStep.
    ASSUME NEW mp, NEW V, NEW X, NEW t, Partial(mp, X, V), Upmost(mp.tx, V, X), t \in X,
           Real(mp.tx)
    PROVE  LET m == UpdateForDescendants(mp, t, V)
           IN  Partial(m, X \ {t}, V) /\ m.tx = mp.tx /\ m.locks = mp.locks
    <2> USE <1>UpdateStep
    <2> DEFINE m == UpdateForDescendants(mp, t, V)
               new == NewChildren(mp, t, V)
               p == mp.parents
               c == mp.children
               q == m.parents
               d == m.children
    <2>1. /\ mp \in Pool /\ Linked(mp, X, V) /\ mp.tx \in SUBSET Tx /\ t \in mp.tx /\ t \in Tx
          /\ t \in V /\ X \in SUBSET V /\ V \in SUBSET mp.tx
      BY PoolTypes DEF Partial, Upmost
    <2>2. new = {u \in mp.tx : Depends(u, t)} \ V
      BY <2>1, RealSpending DEF NewChildren
    <2>3. PICK all \in SUBSET Tx : Updated(mp, t, V, new, all, m)
      BY <2>1, <1>UpdateFields
    <2> HIDE DEF m, new
    <2>4. m \in Pool /\ m.tx = mp.tx /\ m.locks = mp.locks
      BY <2>3 DEF Updated
    <2>5. Linked(m, X \ {t}, V)
      BY <2>1, <2>2, <2>3, <1>UpdateLinked
    <2>6. Meets(mp.tx, p, c, X, V, t, new, q, d)
      <3>1. Halfway(mp.tx, p, c, X, V)
        BY <2>1, <1>PartialHalfway
      <3>2. new \in SUBSET (mp.tx \ V)
        BY <2>2
      <3>3. q \in Links /\ d \in Links
        BY <2>4, PoolTypes
      <3>4. /\ \A u \in Tx : q[u] = IF u \in new THEN p[u] \cup {t} ELSE p[u]
            /\ \A u \in Tx : d[u] = IF u = t THEN c[u] \cup new ELSE c[u]
        BY <2>3 DEF Updated
      <3> HIDE DEF p, c, q, d
      <3>5. QED
        BY <3>1, <3>2, <3>3, <3>4 DEF Meets
    <2>7. /\ all = Reach(d, d[t]) \ V
          /\ \A u \in Tx : m.ancestors[u] = IF u \in all THEN mp.ancestors[u] + 1
                                            ELSE mp.ancestors[u]
          /\ m.descendants[t] = mp.descendants[t] + Cardinality(all)
          /\ \A u \in Tx : u # t => m.descendants[u] = mp.descendants[u]
      BY <2>3 DEF Updated
    <2>8. /\ \A s \in mp.tx : mp.descendants[s] = IF s \in X THEN Cardinality(Reach(c, {s}) \cap V)
                                                  ELSE Cardinality(Reach(c, {s}))
          /\ \A u \in mp.tx : mp.ancestors[u] = IF u \in V THEN Cardinality(Reach(p, {u}))
                                                ELSE Cardinality(Reach(p, {u}) \ X)
      BY DEF Partial
    <2>9. p \in Links /\ d \in Links
      BY <2>1, <2>4, PoolTypes
    <2> HIDE DEF p, c, q, d
    <2>10. all = Reach(d, {t}) \ V
      <3>1. Reach(d, {t}) = {t} \cup Reach(d, d[t])
        BY <2>1, <2>9, ReachFirst
      <3>2. QED
        BY <2>1, <2>7, <3>1
    <2>11. ASSUME NEW s \in mp.tx
           PROVE  m.descendants[s] = IF s \in X \ {t} THEN Cardinality(Reach(d, {s}) \cap V)
                                     ELSE Cardinality(Reach(d, {s}))
      <3>1. s \in Tx
        BY <2>1
      <3>2. /\ Reach(d, {s}) \cap V = Reach(c, {s}) \cap V
            /\ s \notin X => Reach(d, {s}) = Reach(c, {s})
        <4>1. MetBelow(c, X, V, d, s)
          BY <2>6, <1>MeetBelow
        <4>2. QED
          BY <4>1 DEF MetBelow
      <3>3. CASE s = t
        <4>1. IsFiniteSet(Reach(d, {t}))
          BY <2>1, <2>9, ReachMember
        <4>2. Cardinality(Reach(d, {t}))
              = Cardinality(Reach(d, {t}) \cap V) + Cardinality(Reach(d, {t}) \ V)
          BY <4>1, <1>Halves
        <4>3. mp.descendants[t] = Cardinality(Reach(c, {t}) \cap V)
          BY <2>1, <2>8
        <4>4. m.descendants[t] = Cardinality(Reach(d, {t}))
          BY <2>7, <2>10, <3>2, <3>3, <4>2, <4>3
        <4>5. QED
          BY <3>3, <4>4
      <3>4. CASE s # t
        <4>1. m.descendants[s] = mp.descendants[s]
          BY <2>7, <3>1, <3>4
        <4>2. CASE s \in X
          BY <2>8, <3>2, <3>4, <4>1, <4>2
        <4>3. CASE s \notin X
          BY <2>8, <3>2, <4>1, <4>3
        <4>4. QED
          BY <4>2, <4>3
      <3>5. QED
        BY <3>3, <3>4
    <2>12. ASSUME NEW u \in mp.tx
           PROVE  m.ancestors[u] = IF u \in V THEN Cardinality(Reach(q, {u}))
                                   ELSE Cardinality(Reach(q, {u}) \ (X \ {t}))
      <3>1. u \in Tx
        BY <2>1
      <3>2. /\ u \in V => Reach(q, {u}) = Reach(p, {u})
            /\ u \notin Reach(d, {t}) => Reach(q, {u}) = Reach(p, {u}) /\ t \notin Reach(q, {u})
            /\ u \in Reach(d, {t}) /\ u \notin V =>
                 Reach(q, {u}) \ (X \ {t}) = (Reach(p, {u}) \ X) \cup {t}
        <4>1. MetAbove(p, X, V, t, q, d, u)
          BY <2>6, <1>MeetAbove
        <4>2. QED
          BY <4>1 DEF MetAbove
      <3>3. CASE u \in V
        <4>1. u \notin all
          BY <2>10, <3>3
        <4>2. QED
          BY <2>7, <2>8, <3>1, <3>2, <3>3, <4>1
      <3>4. CASE u \notin V /\ u \notin all
        <4>1. u \notin Reach(d, {t})
          BY <2>10, <3>4
        <4>2. Reach(q, {u}) \ (X \ {t}) = Reach(p, {u}) \ X
          BY <3>2, <4>1
        <4>3. m.ancestors[u] = Cardinality(Reach(p, {u}) \ X)
          BY <2>7, <2>8, <3>1, <3>4
        <4>4. QED
          BY <3>4, <4>2, <4>3
      <3>5. CASE u \notin V /\ u \in all
        <4>1. u \in Reach(d, {t})
          BY <2>10, <3>5
        <4>2. Reach(q, {u}) \ (X \ {t}) = (Reach(p, {u}) \ X) \cup {t}
          BY <3>2, <3>5, <4>1
        <4>3. m.ancestors[u] = Cardinality(Reach(p, {u}) \ X) + 1
          BY <2>7, <2>8, <3>1, <3>5
        <4>4. IsFiniteSet(Reach(p, {u}))
          BY <2>9, <3>1, ReachMember
        <4>5. IsFiniteSet(Reach(p, {u}) \ X)
          BY <4>4, FS_Subset
        <4>6. Cardinality((Reach(p, {u}) \ X) \cup {t}) = Cardinality(Reach(p, {u}) \ X) + 1
          BY <4>5, FS_AddElement
        <4>7. QED
          BY <3>5, <4>2, <4>3, <4>6
      <3>6. QED
        BY <3>3, <3>4, <3>5
    <2>13. Partial(m, X \ {t}, V)
      BY <2>4, <2>5, <2>11, <2>12 DEF Partial, q, d
    <2>14. QED
      BY <2>4, <2>13 DEF m
  <1>PartialStart.
    ASSUME NEW mp, NEW V, Sound(mp, V, V), Upmost(mp.tx, V, V)
    PROVE  Partial(mp, V, V)
    <2> USE <1>PartialStart
    <2> DEFINE p == mp.parents
               c == mp.children
    <2>1. mp \in Pool /\ Linked(mp, V, V) /\ V \in SUBSET mp.tx /\ mp.tx \in SUBSET Tx
      BY PoolTypes DEF Sound, Upmost
    <2>2. p \in Links /\ c \in Links
      BY <2>1, PoolTypes
    <2>3. \A t \in Tx :
            /\ p[t] = {u \in mp.tx : t \in mp.tx /\ Depends(t, u) /\ (u \in V => t \in V)}
            /\ c[t] = {u \in mp.tx : t \in mp.tx /\ Depends(u, t) /\ (t \in V => u \in V)}
      BY <2>1 DEF Linked, LinkedBy
    <2>4. /\ \A s \in mp.tx : mp.descendants[s] = Cardinality(Reach(c, {s}))
          /\ \A s \in mp.tx : mp.ancestors[s] = Cardinality(Reach(p, {s}))
      BY DEF Sound, Counted, CountedBy
    <2> HIDE DEF p, c
    <2>5. ASSUME NEW s \in V PROVE Reach(c, {s}) \cap V = Reach(c, {s})
      <3>1. Closed(c, V) /\ V \in SUBSET Tx
        BY <2>1, <2>3 DEF Closed
      <3>2. Reach(c, {s}) \subseteq V
        BY <2>2, <3>1, ReachInto
      <3>3. QED
        BY <3>2
    <2>6. ASSUME NEW u \in mp.tx \ V PROVE Reach(p, {u}) \ V = Reach(p, {u})
      <3>1. Closed(p, mp.tx \ V) /\ mp.tx \ V \in SUBSET Tx /\ u \in Tx
        BY <2>1, <2>3 DEF Closed
      <3>2. Reach(p, {u}) \subseteq mp.tx \ V
        BY <2>2, <3>1, ReachInto
      <3>3. QED
        BY <3>2
    <2>7. /\ \A s \in mp.tx : mp.descendants[s] = IF s \in V THEN Cardinality(Reach(c, {s}) \cap V)
                                                  ELSE Cardinality(Reach(c, {s}))
          /\ \A u \in mp.tx : mp.ancestors[u] = IF u \in V THEN Cardinality(Reach(p, {u}))
                                                ELSE Cardinality(Reach(p, {u}) \ V)
      BY <2>4, <2>5, <2>6
    <2>8. QED
      BY <2>1, <2>7 DEF Partial, p, c
  <1>PartialEnd.
    ASSUME NEW m, NEW V, Partial(m, {}, V)
    PROVE  Sound(m, {}, {})
    <2> USE <1>PartialEnd
    <2>1. Linked(m, {}, {})
      BY DEF Partial, Linked, LinkedBy
    <2>2. \A u \in m.tx : Reach(m.parents, {u}) \ {} = Reach(m.parents, {u})
      OBVIOUS
    <2>3. Counted(m)
      BY <2>2 DEF Partial, Counted, CountedBy
    <2>4. QED
      BY <2>1, <2>3 DEF Partial, Sound
  <1>FirstUpmost.
    ASSUME NEW T, NEW v \in Seq(Tx), Forward(v), NEW V, V = First(v, Len(v)), V \in SUBSET T,
           \A t \in V : \A u \in T \ V : ~ Depends(t, u), NEW k \in 0 .. Len(v)
    PROVE  Upmost(T, V, First(v, k))
    <2> USE <1>FirstUpmost
    <2>1. \A j \in 1 .. k : j \in 1 .. Len(v)
      BY SMT
    <2>2. First(v, k) \in SUBSET V
      BY <2>1 DEF First
    <2>3. ASSUME NEW x \in First(v, k), NEW w \in V \ First(v, k) PROVE ~ Depends(x, w)
      <3>1. PICK i \in 1 .. k : x = v[i]
        BY DEF First
      <3>2. PICK j \in 1 .. Len(v) : w = v[j]
        BY DEF First
      <3>3. j \notin 1 .. k
        BY <3>2 DEF First
      <3>4. i \in 1 .. Len(v) /\ i < j
        BY <2>1, <3>1, <3>2, <3>3, SMT
      <3>5. QED
        BY <3>1, <3>2, <3>4 DEF Forward
    <2>4. QED
      BY <2>2, <2>3 DEF Upmost
  <1>FirstLess.
    ASSUME NEW v \in Seq(Tx), Forward(v), NEW k \in 1 .. Len(v)
    PROVE  First(v, k) \ {v[k]} = First(v, k - 1) /\ v[k] \in First(v, k)
    <2> USE <1>FirstLess
    <2>1. k \in 1 .. k /\ \A j \in 1 .. k : j = k \/ j \in 1 .. k - 1
      BY SMT
    <2>2. \A j \in 1 .. k - 1 : j \in 1 .. k /\ j \in 1 .. Len(v) /\ j < k
      BY SMT
    <2>3. \A j \in 1 .. k - 1 : v[j] # v[k]
      BY <2>2 DEF Forward
    <2>4. QED
      BY <2>1, <2>2, <2>3 DEF First
  <1>ReturnedFacts.
    ASSUME NEW mp, NEW v, Returned(mp, v)
    PROVE  /\ Range(v) = First(v, Len(v))
           /\ \A k \in 0 .. Len(v) : Upmost(mp.tx, Range(v), First(v, k))
           /\ Updating(mp, v, 0, mp)
    <2> USE <1>ReturnedFacts
    <2>1. v \in Seq(Tx)
      BY DEF Returned
    <2>2. Range(v) = First(v, Len(v))
      BY <2>1, SMT DEF Range, First
    <2>3. ASSUME NEW k \in 0 .. Len(v) PROVE Upmost(mp.tx, Range(v), First(v, k))
      BY <2>2, <1>FirstUpmost DEF Returned
    <2>4. Len(v) \in 0 .. Len(v) /\ Len(v) - 0 = Len(v)
      BY <2>1, SMT
    <2>5. Upmost(mp.tx, Range(v), Range(v))
      BY <2>2, <2>3, <2>4
    <2>6. Partial(mp, Range(v), Range(v))
      BY <2>5, <1>PartialStart DEF Returned
    <2>7. QED
      BY <2>2, <2>3, <2>4, <2>6 DEF Updating
  <1>UpdatingStep.
    ASSUME NEW mp, NEW v, Returned(mp, v), NEW i \in 1 .. Len(v), NEW m,
           Updating(mp, v, i - 1, m)
    PROVE  Updating(mp, v, i, UpdateForDescendants(m, v[Len(v) + 1 - i], Range(v)))
    <2> USE <1>UpdatingStep
    <2> DEFINE k == Len(v) + 1 - i
               t == v[k]
               V == Range(v)
               r == UpdateForDescendants(m, t, V)
    <2>1. v \in Seq(Tx) /\ Forward(v) /\ Real(mp.tx)
      BY DEF Returned
    <2>2. /\ k \in 1 .. Len(v) /\ k \in 0 .. Len(v) /\ k - 1 = Len(v) - i
          /\ Len(v) - (i - 1) = k
      BY <2>1, SMT
    <2> HIDE DEF k
    <2>3. /\ Partial(m, First(v, k), V) /\ m.tx = mp.tx /\ m.locks = mp.locks
      BY <2>2 DEF Updating
    <2>4. First(v, k) \ {t} = First(v, k - 1) /\ t \in First(v, k)
      BY <2>1, <2>2, <1>FirstLess
    <2>5. Upmost(m.tx, V, First(v, k)) /\ Real(m.tx)
      BY <2>1, <2>2, <2>3, <1>ReturnedFacts
    <2> HIDE DEF V, t
    <2>6. Partial(r, First(v, k) \ {t}, V) /\ r.tx = m.tx /\ r.locks = m.locks
      BY <2>3, <2>4, <2>5, <1>UpdateStep
    <2> HIDE DEF r
    <2>7. Partial(r, First(v, Len(v) - i), V) /\ r.tx = mp.tx /\ r.locks = mp.locks
      BY <2>2, <2>3, <2>4, <2>6
    <2>8. QED
      BY <2>7 DEF Updating, r, V, t, k
  <1>UpdateExists.
    ASSUME NEW mp, NEW v, Returned(mp, v)
    PROVE  \E f : UpdateEquation(mp, v, f)
    <2> USE <1>UpdateExists
    <2> DEFINE n == Len(v)
               next(m, i) == UpdateForDescendants(m, v[Len(v) + 1 - i], Range(v))
               step == [x \in (1 .. n) \X Pool |-> next(x[2], x[1])]
               ok(i, m) == Updating(mp, v, i, m)
    <2>1. v \in Seq(Tx) /\ ok(0, mp)
      BY <1>ReturnedFacts DEF Returned
    <2>2. n \in Nat /\ 0 \in 0 .. n /\ \A i \in 0 .. n : i # 0 => i \in 1 .. n
      BY <2>1, SMT
    <2>3. \A i \in 1 .. n : \A m : ok(i - 1, m) => ok(i, next(m, i))
      BY <1>UpdatingStep
    <2>4. \A i, m : ok(i, m) => m \in Pool
      BY DEF Updating, Partial
    <2> HIDE DEF n, next
    <2>5. PICK f : FoldEquation(n, mp, step, f)
      BY <2>2, FoldExists
    <2>6. \A i \in 0 .. n : f[i] = IF i = 0 THEN mp ELSE step[<<i, f[i - 1]>>]
      BY <2>5 DEF FoldEquation
    <2>7. \A i \in 1 .. n : \A m \in Pool : step[<<i, m>>] = next(m, i)
      BY SMT
    <2> HIDE DEF step, ok
    <2> DEFINE A == {i \in 0 .. n : ok(i, f[i])}
    <2>8. 0 \in A
      BY <2>1, <2>2, <2>6
    <2>9. ASSUME NEW i \in 1 .. n, i - 1 \in A PROVE i \in A /\ f[i] = next(f[i - 1], i)
      <3>1. i \in 0 .. n /\ i # 0 /\ i - 1 \in 0 .. n
        BY <2>2, SMT
      <3>2. ok(i - 1, f[i - 1])
        BY <2>9
      <3>3. f[i] = next(f[i - 1], i)
        BY <2>4, <2>6, <2>7, <3>1, <3>2
      <3>4. QED
        BY <2>3, <3>1, <3>2, <3>3
    <2>10. \A i \in 0 .. n : i \in A
      <3> HIDE DEF A
      <3>1. QED
        BY <2>2, <2>8, <2>9, UpTo
    <2>11. \A i \in 0 .. n : f[i] = IF i = 0 THEN mp ELSE next(f[i - 1], i)
      <3>1. ASSUME NEW i \in 1 .. n PROVE i - 1 \in 0 .. n
        BY <2>2, SMT
      <3> HIDE DEF A
      <3>2. QED
        BY <2>2, <2>6, <2>9, <2>10, <3>1
    <2>12. UpdateEquation(mp, v, f)
      BY <2>5, <2>11 DEF UpdateEquation, FoldEquation, n, next
    <2>13. QED
      BY <2>12
  <1> SUFFICES
    ASSUME NEW mp, NEW v, Returned(mp, v)
    PROVE  LET m == UpdateTransactionsFromBlock(mp, v)
           IN  Sound(m, {}, {}) /\ m.tx = mp.tx /\ m.locks = mp.locks
    OBVIOUS
  <1> DEFINE n == Len(v)
             next(m, i) == UpdateForDescendants(m, v[Len(v) + 1 - i], Range(v))
             f == CHOOSE f : UpdateEquation(mp, v, f)
             ok(i, m) == Updating(mp, v, i, m)
             A == {i \in 0 .. n : ok(i, f[i])}
  <1>1. v \in Seq(Tx) /\ ok(0, mp)
    BY <1>ReturnedFacts DEF Returned
  <1>2. n \in Nat /\ 0 \in 0 .. n /\ n \in 0 .. n /\ n - n = 0
    BY <1>1, SMT
  <1>3. UpdateEquation(mp, v, f)
    BY <1>UpdateExists
  <1>4. UpdateTransactionsFromBlock(mp, v) = f[n]
    BY DEF UpdateTransactionsFromBlock, UpdateEquation
  <1>5. \A i \in 0 .. n : f[i] = IF i = 0 THEN mp ELSE next(f[i - 1], i)
    BY <1>3 DEF UpdateEquation
  <1>6. \A i \in 1 .. n : \A m : ok(i - 1, m) => ok(i, next(m, i))
    BY <1>UpdatingStep
  <1> HIDE DEF n, f, ok, next
  <1>7. 0 \in A
    BY <1>1, <1>2, <1>5
  <1>8. ASSUME NEW i \in 1 .. n, i - 1 \in A PROVE i \in A
    <2>1. i \in 0 .. n /\ i # 0
      BY <1>2, SMT
    <2>2. QED
      BY <1>5, <1>6, <1>8, <2>1
  <1>9. n \in A
    <2> HIDE DEF A
    <2>1. QED
      BY <1>2, <1>7, <1>8, UpTo
  <1>10. Partial(f[n], First(v, 0), Range(v)) /\ f[n].tx = mp.tx /\ f[n].locks = mp.locks
    BY <1>2, <1>9 DEF ok, n, Updating
  <1>11. First(v, 0) = {}
    <2>1. 1 .. 0 = {}
      BY SMT
    <2>2. QED
      BY <2>1 DEF First
  <1>12. QED
    BY <1>4, <1>10, <1>11, <1>PartialEnd

-----------------------------------------------------------------------------
(* The disconnected transactions.                                          *)

LEMMA AppendRange ==
  ASSUME NEW s \in Seq(Tx), NEW t \in Tx
  PROVE  /\ Append(s, t) \in Seq(Tx) /\ Range(Append(s, t)) = Range(s) \cup {t}
         /\ Len(Append(s, t)) = Len(s) + 1 /\ Append(s, t)[Len(s) + 1] = t
         /\ \A i \in 1 .. Len(s) : Append(s, t)[i] = s[i] /\ s[i] \in Range(s)
  <1>1. /\ Append(s, t) \in Seq(Tx) /\ Len(Append(s, t)) = Len(s) + 1
        /\ Append(s, t)[Len(s) + 1] = t /\ \A i \in 1 .. Len(s) : Append(s, t)[i] = s[i]
    BY SMT
  <1>2. \A q \in Seq(Tx) : Range(q) = {q[i] : i \in 1 .. Len(q)}
    BY SMT DEF Range
  <1>3. /\ \A i \in 1 .. Len(s) + 1 : i \in 1 .. Len(s) \/ i = Len(s) + 1
        /\ \A i \in 1 .. Len(s) : i \in 1 .. Len(s) + 1
        /\ Len(s) + 1 \in 1 .. Len(s) + 1
    BY SMT
  <1>4. /\ Range(s) = {s[i] : i \in 1 .. Len(s)}
        /\ Range(Append(s, t)) = {Append(s, t)[i] : i \in 1 .. Len(s) + 1}
    BY <1>1, <1>2
  <1>5. Range(Append(s, t)) = Range(s) \cup {t}
    BY <1>1, <1>3, <1>4
  <1>6. QED
    BY <1>1, <1>4, <1>5

LEMMA RangeFirst ==
  ASSUME NEW s \in Seq(Tx)
  PROVE  /\ Range(s) = First(s, Len(s)) /\ Range(s) \in SUBSET Tx /\ Len(s) \in Nat
         /\ \A i \in 1 .. Len(s) : s[i] \in Tx /\ s[i] \in Range(s)
         /\ \A x \in Range(s) : \E i \in 1 .. Len(s) : x = s[i]
  <1>1. Len(s) \in Nat /\ \A i \in 1 .. Len(s) : s[i] \in Tx
    BY SMT
  <1>2. Range(s) = First(s, Len(s))
    BY SMT DEF Range, First
  <1>3. QED
    BY <1>1, <1>2 DEF First

\* removeForBlock of the disconnected transactions keeps their order
LEMMA WithoutKeeps ==
  \A txs \in Seq(Tx) : \A vtx :
    Backward(txs)
    => LET k == Without(txs, vtx)
       IN  k \in Seq(Tx) /\ Range(k) = Range(txs) \ Range(vtx) /\ Backward(k)
  <1>KeptStep.
    ASSUME NEW txs \in Seq(Tx), NEW vtx, Backward(txs), NEW i \in 1 .. Len(txs), NEW k,
           Kept(txs, vtx, i - 1, k)
    PROVE  Kept(txs, vtx, i, IF txs[i] \in Range(vtx) THEN k ELSE Append(k, txs[i]))
    <2> USE <1>KeptStep
    <2>1. txs[i] \in Tx /\ k \in Seq(Tx)
      BY RangeFirst DEF Kept
    <2>2. First(txs, i) = First(txs, i - 1) \cup {txs[i]}
      <3>1. i \in 1 .. i /\ \A j \in 1 .. i : j = i \/ j \in 1 .. i - 1
        BY SMT
      <3>2. \A j \in 1 .. i - 1 : j \in 1 .. i
        BY SMT
      <3>3. QED
        BY <3>1, <3>2 DEF First
    <2>3. CASE txs[i] \in Range(vtx)
      BY <2>2, <2>3 DEF Kept
    <2>4. CASE txs[i] \notin Range(vtx)
      <3> DEFINE r == Append(k, txs[i])
      <3>1. /\ r \in Seq(Tx) /\ Range(r) = Range(k) \cup {txs[i]} /\ Len(r) = Len(k) + 1
            /\ r[Len(k) + 1] = txs[i]
            /\ \A a \in 1 .. Len(k) : r[a] = k[a] /\ k[a] \in Range(k)
        BY <2>1, AppendRange
      <3> HIDE DEF r
      <3>2. Range(r) = First(txs, i) \ Range(vtx)
        BY <2>2, <2>4, <3>1 DEF Kept
      <3>3. ASSUME NEW a \in 1 .. Len(r), NEW b \in 1 .. Len(r), a < b
            PROVE  r[a] # r[b] /\ ~ Depends(r[b], r[a])
        <4>1. CASE b \in 1 .. Len(k)
          <5>1. a \in 1 .. Len(k)
            BY <2>1, <3>3, <4>1, SMT
          <5>2. QED
            BY <3>1, <3>3, <4>1, <5>1 DEF Kept, Backward
        <4>2. CASE b \notin 1 .. Len(k)
          <5>1. a \in 1 .. Len(k) /\ b = Len(k) + 1
            <6>1. \A m \in Nat : \A x, y \in 1 .. m + 1 :
                    x < y /\ y \notin 1 .. m => x \in 1 .. m /\ y = m + 1
              BY SMT
            <6>2. Len(k) \in Nat
              BY <2>1, SMT
            <6>3. a \in 1 .. Len(k) + 1 /\ b \in 1 .. Len(k) + 1 /\ a < b
              BY <3>1, <3>3
            <6>4. QED
              BY <4>2, <6>1, <6>2, <6>3
          <5>2. k[a] \in First(txs, i - 1) /\ r[a] = k[a] /\ r[b] = txs[i]
            BY <3>1, <5>1 DEF Kept
          <5>3. PICK j \in 1 .. i - 1 : k[a] = txs[j]
            BY <5>2 DEF First
          <5>4. j \in 1 .. Len(txs) /\ j < i
            BY SMT
          <5>5. QED
            BY <5>2, <5>3, <5>4 DEF Backward
        <4>3. QED
          BY <4>1, <4>2
      <3>4. Kept(txs, vtx, i, r)
        BY <3>1, <3>2, <3>3 DEF Kept, Backward
      <3>5. QED
        BY <2>4, <3>4 DEF r
    <2>5. QED
      BY <2>3, <2>4
  <1>KeptNone.
    ASSUME NEW txs, NEW vtx
    PROVE  Kept(txs, vtx, 0, <<>>)
    <2> USE <1>KeptNone
    <2>1. <<>> \in Seq(Tx) /\ Range(<<>>) = {} /\ 1 .. Len(<<>>) = {} /\ 1 .. 0 = {}
      BY SMT DEF Range
    <2>2. QED
      BY <2>1 DEF Kept, Backward, First
  <1>KeptExists.
    ASSUME NEW txs \in Seq(Tx), NEW vtx, Backward(txs)
    PROVE  \E f : KeptEquation(txs, vtx, f)
    <2> USE <1>KeptExists
    <2> DEFINE n == Len(txs)
               next(k, i) == IF txs[i] \in Range(vtx) THEN k ELSE Append(k, txs[i])
               step == [x \in (1 .. n) \X Seq(Tx) |-> next(x[2], x[1])]
               ok(i, k) == Kept(txs, vtx, i, k)
    <2>1. ok(0, <<>>)
      BY <1>KeptNone
    <2>2. n \in Nat /\ 0 \in 0 .. n /\ \A i \in 0 .. n : i # 0 => i \in 1 .. n
      BY SMT
    <2>3. \A i \in 1 .. n : \A k : ok(i - 1, k) => ok(i, next(k, i))
      BY <1>KeptStep
    <2>4. \A i, k : ok(i, k) => k \in Seq(Tx)
      BY DEF Kept
    <2> HIDE DEF n, next
    <2>5. PICK f : FoldEquation(n, <<>>, step, f)
      BY <2>2, FoldExists
    <2>6. \A i \in 0 .. n : f[i] = IF i = 0 THEN <<>> ELSE step[<<i, f[i - 1]>>]
      BY <2>5 DEF FoldEquation
    <2>7. \A i \in 1 .. n : \A k \in Seq(Tx) : step[<<i, k>>] = next(k, i)
      BY SMT
    <2> HIDE DEF step, ok
    <2> DEFINE A == {i \in 0 .. n : ok(i, f[i])}
    <2>8. 0 \in A
      BY <2>1, <2>2, <2>6
    <2>9. ASSUME NEW i \in 1 .. n, i - 1 \in A PROVE i \in A /\ f[i] = next(f[i - 1], i)
      <3>1. i \in 0 .. n /\ i # 0 /\ i - 1 \in 0 .. n
        BY <2>2, SMT
      <3>2. ok(i - 1, f[i - 1])
        BY <2>9
      <3>3. f[i] = next(f[i - 1], i)
        BY <2>4, <2>6, <2>7, <3>1, <3>2
      <3>4. QED
        BY <2>3, <3>1, <3>2, <3>3
    <2>10. \A i \in 0 .. n : i \in A
      <3> HIDE DEF A
      <3>1. QED
        BY <2>2, <2>8, <2>9, UpTo
    <2>11. \A i \in 0 .. n : f[i] = IF i = 0 THEN <<>> ELSE next(f[i - 1], i)
      <3>1. ASSUME NEW i \in 1 .. n PROVE i - 1 \in 0 .. n
        BY <2>2, SMT
      <3> HIDE DEF A
      <3>2. QED
        BY <2>2, <2>6, <2>9, <2>10, <3>1
    <2>12. KeptEquation(txs, vtx, f)
      BY <2>5, <2>11 DEF KeptEquation, FoldEquation, n, next
    <2>13. QED
      BY <2>12
  <1> SUFFICES
    ASSUME NEW txs \in Seq(Tx), NEW vtx, Backward(txs)
    PROVE  LET k == Without(txs, vtx)
           IN  k \in Seq(Tx) /\ Range(k) = Range(txs) \ Range(vtx) /\ Backward(k)
    OBVIOUS
  <1> DEFINE n == Len(txs)
             next(k, i) == IF txs[i] \in Range(vtx) THEN k ELSE Append(k, txs[i])
             f == CHOOSE f : KeptEquation(txs, vtx, f)
             ok(i, k) == Kept(txs, vtx, i, k)
             A == {i \in 0 .. n : ok(i, f[i])}
  <1>1. ok(0, <<>>)
    BY <1>KeptNone
  <1>2. n \in Nat /\ 0 \in 0 .. n /\ n \in 0 .. n
    BY SMT
  <1>3. KeptEquation(txs, vtx, f)
    BY <1>KeptExists
  <1>4. Without(txs, vtx) = f[n]
    BY DEF Without, KeptEquation
  <1>5. \A i \in 0 .. n : f[i] = IF i = 0 THEN <<>> ELSE next(f[i - 1], i)
    BY <1>3 DEF KeptEquation
  <1>6. \A i \in 1 .. n : \A k : ok(i - 1, k) => ok(i, next(k, i))
    BY <1>KeptStep
  <1> HIDE DEF n, f, ok, next
  <1>7. 0 \in A
    BY <1>1, <1>2, <1>5
  <1>8. ASSUME NEW i \in 1 .. n, i - 1 \in A PROVE i \in A
    <2>1. i \in 0 .. n /\ i # 0
      BY <1>2, SMT
    <2>2. QED
      BY <1>5, <1>6, <1>8, <2>1
  <1>9. n \in A
    <2> HIDE DEF A
    <2>1. QED
      BY <1>2, <1>7, <1>8, UpTo
  <1>10. Kept(txs, vtx, Len(txs), f[n]) /\ Range(txs) = First(txs, Len(txs))
    BY <1>9, RangeFirst DEF ok, n
  <1>11. QED
    BY <1>4, <1>10 DEF Kept

-----------------------------------------------------------------------------
(* The tree of blocks.                                                     *)

\* what MempoolAssumption says of a block
LEMMA BlockFacts ==
  /\ Genesis \in Blocks /\ NONE \notin Blocks /\ Parent[Genesis] = NONE
  /\ Path[Genesis] = {Genesis} /\ Height[Genesis] = 0
  /\ \A b \in Blocks : Height[b] \in Nat /\ Height[b] \in Int
  /\ \A b \in Blocks \ {Genesis} :
       /\ Parent[b] \in Blocks /\ Path[b] = Path[Parent[b]] \cup {b}
       /\ b \notin Path[Parent[b]] /\ Height[b] = Height[Parent[b]] + 1
  <1>1. \A b \in Blocks : Height[b] \in Nat
    BY MempoolAssumption
  <1>2. \A n \in Nat : n \in Int
    BY SMT
  <1>3. QED
    BY <1>1, <1>2, MempoolAssumption

\* what holds of the genesis and passes from parent to child holds of all blocks
LEMMA FromGenesis ==
  ASSUME NEW S, Genesis \in S, \A b \in Blocks \ {Genesis} : Parent[b] \in S => b \in S
  PROVE  \A b \in Blocks : b \in S
  <1> SUFFICES ASSUME NEW b \in Blocks, b \notin S PROVE FALSE
    OBVIOUS
  <1> DEFINE H == {Height[c] : c \in Blocks \ S}
  <1>1. H \in SUBSET Nat /\ Height[b] \in H
    <2>1. \A c \in Blocks : Height[c] \in Nat
      BY BlockFacts
    <2>2. ASSUME NEW n \in H PROVE n \in Nat
      <3>1. PICK c \in Blocks \ S : n = Height[c]
        BY <2>2
      <3>2. QED
        BY <2>1, <3>1
    <2>3. Height[b] \in H
      OBVIOUS
    <2>4. QED
      BY <2>2, <2>3
  <1>2. PICK m \in H : \A n \in H : m <= n
    <2> HIDE DEF H
    <2>1. QED
      BY <1>1, LeastNumber
  <1>3. PICK c \in Blocks \ S : m = Height[c]
    BY <1>2
  <1>4. c # Genesis /\ Parent[c] \in Blocks /\ Parent[c] \notin S
        /\ Height[c] = Height[Parent[c]] + 1
    BY <1>3, BlockFacts
  <1>5. Height[Parent[c]] \in H /\ Height[Parent[c]] \in Nat
    BY <1>4, BlockFacts
  <1>6. m <= Height[Parent[c]]
    BY <1>2, <1>5
  <1>7. QED
    BY <1>3, <1>4, <1>5, <1>6, SMT

LEMMA PathEnds ==
  ASSUME NEW b \in Blocks
  PROVE  Path[b] \subseteq Blocks /\ b \in Path[b] /\ Genesis \in Path[b]
  <1> DEFINE S == {c \in Blocks : Path[c] \subseteq Blocks /\ c \in Path[c] /\ Genesis \in Path[c]}
  <1>1. Genesis \in S
    BY BlockFacts
  <1>2. ASSUME NEW c \in Blocks \ {Genesis}, Parent[c] \in S PROVE c \in S
    <2>1. Path[c] = Path[Parent[c]] \cup {c}
      BY BlockFacts
    <2>2. Path[Parent[c]] \subseteq Blocks /\ Genesis \in Path[Parent[c]]
      BY <1>2
    <2>3. QED
      BY <2>1, <2>2
  <1>3. b \in S
    <2> HIDE DEF S
    <2>1. QED
      BY <1>1, <1>2, FromGenesis
  <1>4. QED
    BY <1>3

LEMMA PathWithin ==
  ASSUME NEW b \in Blocks, NEW a \in Path[b]
  PROVE  a \in Blocks /\ Path[a] \subseteq Path[b]
  <1> DEFINE S == {c \in Blocks : \A d \in Path[c] : Path[d] \subseteq Path[c]}
  <1>1. Genesis \in S
    BY BlockFacts
  <1>2. ASSUME NEW c \in Blocks \ {Genesis}, Parent[c] \in S PROVE c \in S
    <2>1. Path[c] = Path[Parent[c]] \cup {c}
      BY BlockFacts
    <2>2. \A d \in Path[Parent[c]] : Path[d] \subseteq Path[Parent[c]]
      BY <1>2
    <2>3. \A d \in Path[c] : Path[d] \subseteq Path[c]
      BY <2>1, <2>2
    <2>4. QED
      BY <2>3
  <1>3. b \in S
    <2> HIDE DEF S
    <2>1. QED
      BY <1>1, <1>2, FromGenesis
  <1>4. QED
    BY <1>3, PathEnds

\* heights grow along a path
LEMMA PathHeight ==
  ASSUME NEW b \in Blocks, NEW a \in Path[b]
  PROVE  /\ a = b \/ Height[a] < Height[b]
         /\ Height[a] <= Height[b] /\ Height[a] \in Nat /\ Height[b] \in Nat
         /\ a # b => b # Genesis /\ a \in Path[Parent[b]]
  <1> DEFINE S == {c \in Blocks : \A d \in Path[c] : d = c \/ Height[d] < Height[c]}
  <1>1. Genesis \in S
    BY BlockFacts
  <1>2. ASSUME NEW c \in Blocks \ {Genesis}, Parent[c] \in S PROVE c \in S
    <2>1. Path[c] = Path[Parent[c]] \cup {c} /\ Parent[c] \in Blocks
          /\ Height[c] = Height[Parent[c]] + 1
      BY BlockFacts
    <2>2. ASSUME NEW d \in Path[Parent[c]] PROVE Height[d] < Height[c]
      <3>1. d = Parent[c] \/ Height[d] < Height[Parent[c]]
        BY <1>2
      <3>2. d \in Blocks /\ Height[Parent[c]] \in Nat
        BY <2>1, PathEnds, BlockFacts
      <3>3. Height[d] \in Nat
        BY <3>2, BlockFacts
      <3>4. QED
        BY <2>1, <3>1, <3>2, <3>3, SMT
    <2>3. QED
      BY <2>1, <2>2
  <1>3. b \in S
    <2> HIDE DEF S
    <2>1. QED
      BY <1>1, <1>2, FromGenesis
  <1>4. a = b \/ Height[a] < Height[b]
    BY <1>3
  <1>5. Height[a] \in Nat /\ Height[b] \in Nat
    BY PathEnds, BlockFacts
  <1>6. Height[a] <= Height[b]
    BY <1>4, <1>5, SMT
  <1>7. ASSUME a # b PROVE b # Genesis /\ a \in Path[Parent[b]]
    <2>0. Path[Genesis] = {Genesis}
      BY BlockFacts
    <2>1. b # Genesis
      BY <1>7, <2>0
    <2>2. Path[b] = Path[Parent[b]] \cup {b}
      BY <2>1, BlockFacts
    <2>3. QED
      BY <1>7, <2>1, <2>2
  <1>8. QED
    BY <1>4, <1>5, <1>6, <1>7

\* two blocks of one chain
LEMMA PathLinear ==
  ASSUME NEW b \in Blocks, NEW a \in Path[b], NEW c \in Path[b]
  PROVE  a \in Path[c] \/ c \in Path[a]
  <1> DEFINE S == {d \in Blocks : \A x, y \in Path[d] : x \in Path[y] \/ y \in Path[x]}
  <1>1. Genesis \in S
    BY BlockFacts
  <1>2. ASSUME NEW d \in Blocks \ {Genesis}, Parent[d] \in S PROVE d \in S
    <2>1. Path[d] = Path[Parent[d]] \cup {d}
      BY BlockFacts
    <2>2. QED
      BY <1>2, <2>1
  <1>3. b \in S
    <2> HIDE DEF S
    <2>1. QED
      BY <1>1, <1>2, FromGenesis
  <1>4. QED
    BY <1>3

LEMMA PathBelow ==
  ASSUME NEW b \in Blocks, NEW a \in Path[b], NEW c \in Path[b], Height[a] <= Height[c]
  PROVE  a \in Path[c] /\ (Height[a] = Height[c] => a = c)
  <1>1. a \in Path[c] \/ c \in Path[a]
    BY PathLinear
  <1>2. a \in Blocks /\ c \in Blocks
    BY PathWithin
  <1>3. Height[a] \in Nat /\ Height[c] \in Nat
    BY <1>2, BlockFacts
  <1>4. c \in Path[a] => c = a \/ Height[c] < Height[a]
    BY <1>2, PathHeight
  <1>5. a \in Path[c] => a = c \/ Height[a] < Height[c]
    BY <1>2, PathHeight
  <1>6. ~ (Height[c] < Height[a]) /\ (Height[a] = Height[c] => ~ (Height[a] < Height[c]))
    BY <1>3, SMT
  <1>7. a \in Path[a]
    BY <1>2, PathEnds
  <1>8. QED
    BY <1>1, <1>4, <1>5, <1>6, <1>7

LEMMA PathParent ==
  ASSUME NEW b \in Blocks, NEW a \in Path[b], a # Genesis
  PROVE  Parent[a] \in Path[b] /\ Parent[a] \in Blocks
  <1>1. a \in Blocks /\ Path[a] \subseteq Path[b]
    BY PathWithin
  <1>2. Parent[a] \in Blocks /\ Parent[a] \in Path[Parent[a]] /\ Path[Parent[a]] \subseteq Path[a]
    <2>1. Parent[a] \in Blocks /\ Path[a] = Path[Parent[a]] \cup {a}
      BY <1>1, BlockFacts
    <2>2. QED
      BY <2>1, PathEnds
  <1>3. QED
    BY <1>1, <1>2

LEMMA PathNext ==
  ASSUME NEW b \in Blocks, NEW a \in Path[b], a # b
  PROVE  \E c \in Path[b] : Parent[c] = a
  <1> DEFINE S == {d \in Blocks : \A x \in Path[d] \ {d} : \E c \in Path[d] : Parent[c] = x}
  <1>1. Genesis \in S
    BY BlockFacts
  <1>2. ASSUME NEW d \in Blocks \ {Genesis}, Parent[d] \in S PROVE d \in S
    <2>1. Path[d] = Path[Parent[d]] \cup {d}
      BY BlockFacts
    <2>2. \A x \in Path[Parent[d]] \ {Parent[d]} : \E c \in Path[Parent[d]] : Parent[c] = x
      BY <1>2
    <2>3. \A x \in Path[d] \ {d} : \E c \in Path[d] : Parent[c] = x
      BY <2>1, <2>2
    <2>4. QED
      BY <2>3
  <1>3. b \in S
    <2> HIDE DEF S
    <2>1. QED
      BY <1>1, <1>2, FromGenesis
  <1>4. QED
    BY <1>3

-----------------------------------------------------------------------------
(* What a chain holds.                                                     *)

\* a transaction is confirmed if a block of the chain holds it
LEMMA ConfirmedIn ==
  ASSUME NEW b \in Blocks, NEW t
  PROVE  t \in Confirmed[b] <=> \E a \in Path[b] : t \in Range(Vtx[a])
  BY DEF Confirmed

LEMMA ConfirmedStep ==
  ASSUME NEW b \in Blocks \ {Genesis}
  PROVE  /\ Confirmed[b] = Confirmed[Parent[b]] \cup Range(Vtx[b])
         /\ Confirmed[Parent[b]] \cap Range(Vtx[b]) = {}
  <1>1. b \in Blocks /\ Parent[b] \in Blocks /\ Path[b] = Path[Parent[b]] \cup {b}
    BY BlockFacts
  <1>2. \A t : t \in Confirmed[b] <=> t \in Confirmed[Parent[b]] \cup Range(Vtx[b])
    BY <1>1, ConfirmedIn
  <1>3. Range(Vtx[b]) \cap Confirmed[Parent[b]] = {}
    BY MempoolAssumption
  <1>4. QED
    BY <1>2, <1>3

LEMMA VtxType ==
  ASSUME NEW b \in Blocks
  PROVE  Vtx[b] \in Seq(Tx) /\ Range(Vtx[b]) \subseteq Tx
  <1>1. Vtx[b] \in Seq(Tx)
    BY MempoolAssumption
  <1>2. QED
    BY <1>1, RangeFirst

LEMMA ConfirmedTx ==
  ASSUME NEW b \in Blocks
  PROVE  Confirmed[b] \subseteq Tx
  <1>1. SUFFICES ASSUME NEW t \in Confirmed[b] PROVE t \in Tx
    OBVIOUS
  <1>2. PICK a \in Path[b] : t \in Range(Vtx[a])
    BY ConfirmedIn
  <1>3. a \in Blocks
    BY PathEnds
  <1>4. QED
    BY <1>2, <1>3, VtxType

LEMMA ConfirmedGrows ==
  ASSUME NEW b \in Blocks, NEW a \in Path[b]
  PROVE  Confirmed[a] \subseteq Confirmed[b]
  <1>1. a \in Blocks /\ Path[a] \subseteq Path[b]
    BY PathWithin
  <1>2. QED
    BY <1>1, ConfirmedIn

\* a transaction is in one block of a chain
LEMMA ConfirmedOnce ==
  ASSUME NEW b \in Blocks, NEW a \in Path[b], NEW c \in Path[b], NEW t,
         t \in Range(Vtx[a]), t \in Range(Vtx[c])
  PROVE  a = c
  <1>1. \A x, y \in Path[b] :
          x \in Path[y] /\ t \in Range(Vtx[x]) /\ t \in Range(Vtx[y]) => x = y
    <2>1. SUFFICES ASSUME NEW x \in Path[b], NEW y \in Path[b], x \in Path[y],
                          t \in Range(Vtx[x]), t \in Range(Vtx[y]), x # y
                   PROVE  FALSE
      OBVIOUS
    <2>2. y \in Blocks
      BY PathWithin
    <2>3. y # Genesis /\ x \in Path[Parent[y]]
      BY <2>1, <2>2, PathHeight
    <2>4. y \in Blocks \ {Genesis} /\ Parent[y] \in Blocks
      BY <2>2, <2>3, BlockFacts
    <2>5. t \in Confirmed[Parent[y]]
      BY <2>1, <2>3, <2>4, ConfirmedIn
    <2>6. Confirmed[Parent[y]] \cap Range(Vtx[y]) = {}
      BY <2>4, ConfirmedStep
    <2>7. QED
      BY <2>1, <2>5, <2>6
  <1>2. a \in Path[c] \/ c \in Path[a]
    BY PathLinear
  <1>3. QED
    BY <1>1, <1>2

\* the height of a coin is that of the block that made it
LEMMA CoinHeightIs ==
  ASSUME NEW b \in Blocks, NEW a \in Path[b], NEW t \in Range(Vtx[a])
  PROVE  t \in Confirmed[b] /\ MadeAt(b, t, Height[a])
  <1>1. t \in Confirmed[b]
    BY ConfirmedIn
  <1> DEFINE c == CHOOSE c \in Path[b] : t \in Range(Vtx[c])
  <1>2. c \in Path[b] /\ t \in Range(Vtx[c])
    OBVIOUS
  <1>3. CoinHeight[b][t] = Height[c]
    BY <1>1 DEF CoinHeight
  <1> HIDE DEF c
  <1>4. c = a
    BY <1>2, ConfirmedOnce
  <1>5. QED
    BY <1>1, <1>3, <1>4 DEF MadeAt

LEMMA CoinHeightStays ==
  ASSUME NEW b \in Blocks, NEW a \in Path[b], NEW t \in Confirmed[a]
  PROVE  /\ t \in Confirmed[b] /\ CoinHeight[b][t] = CoinHeight[a][t]
         /\ CoinHeight[a][t] \in Nat /\ CoinHeight[a][t] <= Height[a]
  <1>1. a \in Blocks /\ Path[a] \subseteq Path[b]
    BY PathWithin
  <1>2. PICK c \in Path[a] : t \in Range(Vtx[c])
    BY <1>1, ConfirmedIn
  <1>3. CoinHeight[a][t] = Height[c] /\ CoinHeight[b][t] = Height[c] /\ t \in Confirmed[b]
    BY <1>1, <1>2, CoinHeightIs DEF MadeAt
  <1>4. Height[c] \in Nat /\ Height[c] <= Height[a]
    BY <1>1, <1>2, PathHeight
  <1>5. QED
    BY <1>3, <1>4

LEMMA OutputOf ==
  ASSUME NEW t \in Tx, NEW o \in Outputs[t]
  PROVE  o[1] = t
  <1>1. Outputs[t] \subseteq {t} \X Nat
    BY MempoolAssumption
  <1>2. o \in {t} \X Nat
    BY <1>1
  <1>3. QED
    BY <1>2, SMT

\* an output is unspent if the chain made it and does not spend it
LEMMA UnspentIs ==
  ASSUME NEW b \in Blocks, NEW o
  PROVE  o \in Unspent[b] <=> /\ \E t \in Confirmed[b] : o \in Outputs[t]
                              /\ \A t \in Confirmed[b] : o \notin Spends[t]
  <1>1. Unspent[b] = (UNION {Outputs[t] : t \in Confirmed[b]})
                       \ (UNION {Spends[t] : t \in Confirmed[b]})
    BY DEF Unspent
  <1>2. o \in UNION {Outputs[t] : t \in Confirmed[b]} <=> \E t \in Confirmed[b] : o \in Outputs[t]
    OBVIOUS
  <1>3. o \in UNION {Spends[t] : t \in Confirmed[b]} <=> \E t \in Confirmed[b] : o \in Spends[t]
    OBVIOUS
  <1>4. QED
    BY <1>1, <1>2, <1>3

LEMMA UnspentIn ==
  ASSUME NEW b \in Blocks, NEW o \in Unspent[b]
  PROVE  /\ o[1] \in Confirmed[b] /\ o[1] \in Tx /\ o \in Outputs[o[1]]
         /\ \A t \in Confirmed[b] : o \notin Spends[t]
  <1>1. PICK t \in Confirmed[b] : o \in Outputs[t]
    BY UnspentIs
  <1>2. t \in Tx
    BY ConfirmedTx
  <1>3. o[1] = t
    BY <1>1, <1>2, OutputOf
  <1>4. \A u \in Confirmed[b] : o \notin Spends[u]
    BY UnspentIs
  <1>5. QED
    BY <1>1, <1>2, <1>3, <1>4

LEMMA UnspentBy ==
  ASSUME NEW b \in Blocks, NEW t \in Confirmed[b], NEW o \in Outputs[t],
         \A u \in Confirmed[b] : o \notin Spends[u]
  PROVE  o \in Unspent[b]
  BY UnspentIs

\* a transaction of a block passed what ConnectBlock checks
LEMMA VtxConnects ==
  ASSUME NEW b \in Blocks \ {Genesis}, NEW i \in 1 .. Len(Vtx[b])
  PROVE  /\ Vtx[b][i] \in Tx /\ Vtx[b][i] \in Range(Vtx[b])
         /\ i = 1 => Spends[Vtx[b][i]] = {} /\ Vtx[b][i] \in Coinbase
         /\ i # 1 => Connects(b, i, Vtx[b][i])
  <1>1. b \in Blocks /\ Vtx[b] \in Seq(Tx)
    BY VtxType
  <1>2. Vtx[b][i] \in Tx /\ Vtx[b][i] \in Range(Vtx[b])
    BY <1>1, RangeFirst
  <1>3. Vtx[b][1] \in Coinbase
    BY MempoolAssumption
  <1>4. ASSUME i # 1 PROVE Connects(b, i, Vtx[b][i])
    <2>1. i \in 2 .. Len(Vtx[b])
      BY <1>1, <1>4, SMT
    <2>2. LET t == Vtx[b][i]
              have == Unspent[Parent[b]] \cup UNION {Outputs[Vtx[b][j]] : j \in 1 .. i - 1}
          IN  /\ t \notin Coinbase /\ Spends[t] \subseteq have
              /\ CheckFinalTx(t, Parent[b])
              /\ \A o \in Spends[t] :
                   Height[b] - CoinHeight[b][o[1]]
                     >= IF o[1] \in Coinbase THEN Maturity ELSE Relative[t]
              /\ \A j \in 2 .. i - 1 : Spends[t] \cap Spends[Vtx[b][j]] = {}
      BY <2>1, MempoolAssumption
    <2>3. Spends[Vtx[b][i]] # {}
      BY <1>2, <2>2 DEF Coinbase
    <2>4. QED
      BY <2>2, <2>3 DEF Connects
  <1>5. QED
    BY <1>2, <1>3, <1>4 DEF Coinbase

\* an input of a block is made by the chain before it or earlier in the block
LEMMA SpendsEarlier ==
  ASSUME NEW b \in Blocks \ {Genesis}, NEW i \in 1 .. Len(Vtx[b]), NEW o \in Spends[Vtx[b][i]]
  PROVE  MadeBefore(b, i, o)
  <1>1. i # 1 /\ Connects(b, i, Vtx[b][i]) /\ Parent[b] \in Blocks
    BY VtxConnects, BlockFacts
  <1>2. o \in Unspent[Parent[b]] \/ \E j \in 1 .. i - 1 : o \in Outputs[Vtx[b][j]]
    BY <1>1 DEF Connects
  <1>3. CASE o \in Unspent[Parent[b]]
    BY <1>1, <1>3, UnspentIn DEF MadeBefore
  <1>4. CASE \E j \in 1 .. i - 1 : o \in Outputs[Vtx[b][j]]
    <2>1. PICK j \in 1 .. i - 1 : o \in Outputs[Vtx[b][j]]
      BY <1>4
    <2>2. Len(Vtx[b]) \in Nat
      BY VtxType, RangeFirst
    <2>3. j \in 1 .. Len(Vtx[b]) /\ j < i
      BY <2>2, SMT
    <2>4. Vtx[b][j] \in Tx
      BY <2>3, VtxConnects
    <2>5. o[1] = Vtx[b][j]
      BY <2>1, <2>4, OutputOf
    <2>6. QED
      BY <1>1, <2>1, <2>3, <2>4, <2>5 DEF MadeBefore
  <1>5. QED
    BY <1>2, <1>3, <1>4

\* what a transaction of a chain spends was made by that chain
LEMMA SpendsConfirmed ==
  ASSUME NEW b \in Blocks, NEW t \in Confirmed[b], NEW o \in Spends[t], o[1] \in Tx
  PROVE  o[1] \in Confirmed[b]
  <1>1. PICK a \in Path[b] : t \in Range(Vtx[a])
    BY ConfirmedIn
  <1>2. a \in Blocks /\ Confirmed[a] \subseteq Confirmed[b]
    BY PathWithin, ConfirmedGrows
  <1>3. a # Genesis
    BY <1>1, MempoolAssumption
  <1>4. a \in Blocks \ {Genesis} /\ Vtx[a] \in Seq(Tx)
    BY <1>2, <1>3, VtxType
  <1>5. PICK i \in 1 .. Len(Vtx[a]) : t = Vtx[a][i]
    BY <1>1, <1>4, RangeFirst
  <1>6. MadeBefore(a, i, o)
    <2>1. o \in Spends[Vtx[a][i]]
      BY <1>5
    <2>2. QED
      BY <1>4, <2>1, SpendsEarlier
  <1>7. \A j \in 1 .. Len(Vtx[a]) : Vtx[a][j] \in Range(Vtx[a])
    BY <1>4, VtxConnects
  <1>8. Confirmed[a] = Confirmed[Parent[a]] \cup Range(Vtx[a])
    BY <1>4, ConfirmedStep
  <1>9. QED
    BY <1>2, <1>6, <1>7, <1>8 DEF MadeBefore

\* a block holds a transaction once, after those it depends on
LEMMA BlockOrder ==
  ASSUME NEW b \in Blocks \ {Genesis}
  PROVE  Forward(Vtx[b])
  <1>0. Vtx[b] \in Seq(Tx) /\ Len(Vtx[b]) \in Nat
    BY VtxType, RangeFirst
  <1>1. ASSUME NEW i \in 1 .. Len(Vtx[b]), NEW j \in 1 .. Len(Vtx[b]), i < j
        PROVE  Vtx[b][i] # Vtx[b][j]
    <2>1. j # 1 /\ (i # 1 => i \in 2 .. j - 1)
      BY <1>0, <1>1, SMT
    <2>2. Connects(b, j, Vtx[b][j])
      BY <2>1, VtxConnects
    <2>3. i = 1 => Spends[Vtx[b][i]] = {}
      BY VtxConnects
    <2>4. QED
      BY <2>1, <2>2, <2>3 DEF Connects
  <1>2. ASSUME NEW i \in 1 .. Len(Vtx[b]), NEW j \in 1 .. Len(Vtx[b]), i < j,
               Depends(Vtx[b][i], Vtx[b][j])
        PROVE  FALSE
    <2>1. PICK o \in Spends[Vtx[b][i]] : o[1] = Vtx[b][j]
      BY <1>2 DEF Depends
    <2>2. Vtx[b][j] \in Range(Vtx[b])
      BY VtxConnects
    <2>3. Confirmed[Parent[b]] \cap Range(Vtx[b]) = {}
      BY ConfirmedStep
    <2>4. PICK k \in 1 .. Len(Vtx[b]) : k < i /\ o[1] = Vtx[b][k]
      <3>1. MadeBefore(b, i, o)
        BY SpendsEarlier
      <3>2. QED
        BY <2>1, <2>2, <2>3, <3>1 DEF MadeBefore
    <2>5. k < j
      BY <1>0, <1>2, <2>4, SMT
    <2>6. QED
      BY <1>1, <2>1, <2>4, <2>5
  <1>3. QED
    BY <1>1, <1>2 DEF Forward

\* nothing in a block spends from itself or from later blocks
LEMMA BlockDepends ==
  ASSUME NEW b \in Blocks \ {Genesis}, NEW t \in Range(Vtx[b]), NEW u \in Tx, Depends(t, u)
  PROVE  u \in Confirmed[b]
  <1>1. b \in Blocks /\ t \in Confirmed[b]
    BY ConfirmedStep
  <1>2. PICK o \in Spends[t] : o[1] = u
    BY DEF Depends
  <1>3. QED
    BY <1>1, <1>2, SpendsConfirmed

\* a transaction of a block spends nothing the chain up to the block spends
LEMMA ApartFrom ==
  ASSUME NEW b \in Blocks \ {Genesis}, NEW t \in Range(Vtx[b]), NEW u \in Confirmed[b], t # u
  PROVE  Apart(t, u) /\ Apart(u, t)
  <1>0. Vtx[b] \in Seq(Tx) /\ Len(Vtx[b]) \in Nat /\ Parent[b] \in Blocks
    BY VtxType, RangeFirst, BlockFacts
  <1>1. PICK i \in 1 .. Len(Vtx[b]) : t = Vtx[b][i]
    BY <1>0, RangeFirst
  <1>2. /\ Confirmed[b] = Confirmed[Parent[b]] \cup Range(Vtx[b])
        /\ Confirmed[Parent[b]] \cap Range(Vtx[b]) = {}
    BY ConfirmedStep
  <1>3. ASSUME u \in Confirmed[Parent[b]], NEW o \in Spends[t], o \in Spends[u]
        PROVE  FALSE
    <2>1. MadeBefore(b, i, o) /\ o[1] \in Tx
      <3>1. o \in Spends[Vtx[b][i]]
        BY <1>1
      <3>2. MadeBefore(b, i, o)
        BY <3>1, SpendsEarlier
      <3>3. QED
        BY <3>2 DEF MadeBefore
    <2>2. o \notin Unspent[Parent[b]]
      BY <1>0, <1>3, UnspentIn
    <2>3. o[1] \in Confirmed[Parent[b]]
      BY <1>0, <1>3, <2>1, SpendsConfirmed
    <2>4. \A j \in 1 .. Len(Vtx[b]) : Vtx[b][j] \in Range(Vtx[b])
      BY VtxConnects
    <2>5. QED
      BY <1>2, <2>1, <2>2, <2>3, <2>4 DEF MadeBefore
  <1>4. ASSUME NEW j \in 1 .. Len(Vtx[b]), NEW k \in 1 .. Len(Vtx[b]), j < k
        PROVE  Apart(Vtx[b][j], Vtx[b][k]) /\ Apart(Vtx[b][k], Vtx[b][j])
    <2>1. k # 1 /\ (j # 1 => j \in 2 .. k - 1)
      BY <1>0, <1>4, SMT
    <2>2. Connects(b, k, Vtx[b][k])
      BY <2>1, VtxConnects
    <2>3. j = 1 => Spends[Vtx[b][j]] = {}
      BY VtxConnects
    <2>4. QED
      BY <2>1, <2>2, <2>3 DEF Connects, Apart
  <1>5. CASE u \in Confirmed[Parent[b]]
    BY <1>3, <1>5 DEF Apart
  <1>6. CASE u \in Range(Vtx[b])
    <2>1. PICK j \in 1 .. Len(Vtx[b]) : u = Vtx[b][j]
      BY <1>0, <1>6, RangeFirst
    <2>2. i # j
      BY <1>1, <2>1
    <2>3. i < j \/ j < i
      BY <1>0, <2>2, SMT
    <2>4. QED
      BY <1>1, <1>4, <2>1, <2>3
  <1>7. QED
    BY <1>2, <1>5, <1>6

\* no two transactions of a chain spend the same output
LEMMA NoDoubleSpend ==
  ASSUME NEW b \in Blocks, NEW t \in Confirmed[b], NEW u \in Confirmed[b], t # u,
         t \notin Confirmed[Genesis]
  PROVE  Apart(t, u)
  <1> DEFINE S == {c \in Blocks : \A x, y \in Confirmed[c] :
                     x # y /\ x \notin Confirmed[Genesis] => Apart(x, y)}
  <1>1. Genesis \in S
    BY BlockFacts
  <1>2. ASSUME NEW c \in Blocks \ {Genesis}, Parent[c] \in S PROVE c \in S
    <2>1. Confirmed[c] = Confirmed[Parent[c]] \cup Range(Vtx[c])
      BY ConfirmedStep
    <2>2. \A x \in Range(Vtx[c]) : \A y \in Confirmed[c] : x # y => Apart(x, y) /\ Apart(y, x)
      BY ApartFrom
    <2>3. \A x, y \in Confirmed[Parent[c]] : x # y /\ x \notin Confirmed[Genesis] => Apart(x, y)
      BY <1>2
    <2>4. \A x, y \in Confirmed[c] : x # y /\ x \notin Confirmed[Genesis] => Apart(x, y)
      BY <2>1, <2>2, <2>3
    <2>5. QED
      BY <2>4
  <1>3. b \in S
    <2> HIDE DEF S
    <2>1. QED
      BY <1>1, <1>2, FromGenesis
  <1>4. QED
    BY <1>3

-----------------------------------------------------------------------------
(* The order of the disconnected transactions.                             *)

\* a block taken from its end is in an order in which parents come later
LEMMA ReverseBackward ==
  ASSUME NEW s \in Seq(Tx), Forward(s)
  PROVE  Reverse(s) \in Seq(Tx) /\ Range(Reverse(s)) = Range(s) /\ Backward(Reverse(s))
  <1> DEFINE n == Len(s)
             r == Reverse(s)
  <1>1. n \in Nat /\ \A i \in 1 .. n : s[i] \in Tx
    BY RangeFirst
  <1>2. /\ r \in Seq(Tx) /\ Len(r) = n /\ \A i \in 1 .. n : r[i] = s[n - i + 1]
    BY <1>1, SMT DEF Reverse
  <1>3. \A i \in 1 .. n : n - i + 1 \in 1 .. n /\ n - (n - i + 1) + 1 = i
    BY <1>1, SMT
  <1>4. \A i, j \in 1 .. n : i < j => n - j + 1 < n - i + 1
    BY <1>1, SMT
  <1>5. Range(r) = {r[i] : i \in 1 .. n} /\ Range(s) = {s[i] : i \in 1 .. n}
    <2>1. Range(r) = First(r, n) /\ Range(s) = First(s, n)
      BY <1>2, RangeFirst
    <2>2. QED
      BY <2>1 DEF First
  <1>6. Forward(s) => \A i, j \in 1 .. n : i < j => s[i] # s[j] /\ ~ Depends(s[i], s[j])
    BY DEF Forward
  <1> HIDE DEF n, r
  <1>7. \A i \in 1 .. n : s[i] = r[n - i + 1]
    BY <1>2, <1>3
  <1>8. Range(r) = Range(s)
    <2>1. \A i \in 1 .. n : r[i] \in Range(s) /\ s[i] \in Range(r)
      BY <1>2, <1>3, <1>5, <1>7
    <2>2. \A x \in Range(r) : x \in Range(s)
      BY <1>5, <2>1
    <2>3. \A x \in Range(s) : x \in Range(r)
      BY <1>5, <2>1
    <2>4. QED
      BY <2>2, <2>3
  <1>9. ASSUME NEW i \in 1 .. n, NEW j \in 1 .. n, i < j
        PROVE  r[i] # r[j] /\ ~ Depends(r[j], r[i])
    <2>1. n - j + 1 < n - i + 1 /\ n - j + 1 \in 1 .. n /\ n - i + 1 \in 1 .. n
      BY <1>3, <1>4, <1>9
    <2>2. s[n - j + 1] # s[n - i + 1] /\ ~ Depends(s[n - j + 1], s[n - i + 1])
      BY <1>6, <2>1
    <2>3. QED
      BY <1>2, <2>2
  <1>10. Backward(r)
    BY <1>2, <1>9 DEF Backward
  <1>11. QED
    BY <1>2, <1>8, <1>10 DEF r

\* such an order followed by one whose transactions do not depend on it
LEMMA ConcatBackward ==
  ASSUME NEW p \in Seq(Tx), NEW q \in Seq(Tx), Backward(p), Backward(q),
         \A x \in Range(p), y \in Range(q) : x # y /\ ~ Depends(y, x)
  PROVE  p \o q \in Seq(Tx) /\ Range(p \o q) = Range(p) \cup Range(q) /\ Backward(p \o q)
  <1> DEFINE s == p \o q
             m == Len(p)
             n == Len(q)
  <1>1. m \in Nat /\ n \in Nat
    BY RangeFirst
  <1>2. /\ s \in Seq(Tx) /\ Len(s) = m + n /\ \A i \in 1 .. m : s[i] = p[i]
        /\ \A i \in 1 .. m + n : i \notin 1 .. m => s[i] = q[i - m]
    BY SMT
  <1>3. /\ \A i \in 1 .. n : m + i \in 1 .. m + n /\ m + i \notin 1 .. m /\ (m + i) - m = i
        /\ \A i \in 1 .. m : i \in 1 .. m + n
        /\ \A i \in 1 .. m + n : i \notin 1 .. m => i - m \in 1 .. n
        /\ \A i, j \in 1 .. m + n : i < j /\ j \in 1 .. m => i \in 1 .. m
        /\ \A i, j \in 1 .. m + n : i < j => i - m < j - m
    BY <1>1, SMT
  <1>4. /\ Range(p) = First(p, m) /\ Range(q) = First(q, n) /\ Range(s) = First(s, m + n)
    BY <1>2, RangeFirst
  <1>5. /\ \A i, j \in 1 .. m : i < j => p[i] # p[j] /\ ~ Depends(p[j], p[i])
        /\ \A i, j \in 1 .. n : i < j => q[i] # q[j] /\ ~ Depends(q[j], q[i])
    BY DEF Backward
  <1>6. /\ \A i \in 1 .. m : p[i] \in Range(p)
        /\ \A i \in 1 .. n : q[i] \in Range(q)
    BY RangeFirst
  <1> HIDE DEF s, m, n
  <1>7. \A i \in 1 .. n : s[m + i] = q[i]
    BY <1>2, <1>3
  <1>8. Range(s) = Range(p) \cup Range(q)
    <2>0. \A i \in 1 .. m + n : s[i] \in Range(s)
      BY <1>4 DEF First
    <2>1. \A x \in Range(s) : x \in Range(p) \cup Range(q)
      <3>1. SUFFICES ASSUME NEW i \in 1 .. m + n PROVE s[i] \in Range(p) \cup Range(q)
        BY <1>4 DEF First
      <3>2. i \in 1 .. m \/ i \notin 1 .. m
        OBVIOUS
      <3>3. QED
        BY <1>2, <1>3, <1>6, <3>2
    <2>2. ASSUME NEW x \in Range(p) PROVE x \in Range(s)
      <3>1. PICK i \in 1 .. m : x = p[i]
        BY <1>4 DEF First
      <3>2. i \in 1 .. m + n /\ s[i] = x
        BY <1>2, <1>3, <3>1
      <3>3. QED
        BY <2>0, <3>2
    <2>3. ASSUME NEW x \in Range(q) PROVE x \in Range(s)
      <3>1. PICK i \in 1 .. n : x = q[i]
        BY <1>4 DEF First
      <3>2. m + i \in 1 .. m + n /\ s[m + i] = x
        BY <1>3, <1>7, <3>1
      <3>3. QED
        BY <2>0, <3>2
    <2>4. QED
      BY <2>1, <2>2, <2>3
  <1>9. ASSUME NEW i \in 1 .. m + n, NEW j \in 1 .. m + n, i < j
        PROVE  s[i] # s[j] /\ ~ Depends(s[j], s[i])
    <2>1. CASE j \in 1 .. m
      BY <1>2, <1>3, <1>5, <1>9, <2>1
    <2>2. CASE j \notin 1 .. m /\ i \in 1 .. m
      BY <1>2, <1>3, <1>6, <2>2
    <2>3. CASE j \notin 1 .. m /\ i \notin 1 .. m
      <3>1. i - m \in 1 .. n /\ j - m \in 1 .. n /\ i - m < j - m
        BY <1>3, <1>9, <2>3
      <3>2. s[i] = q[i - m] /\ s[j] = q[j - m]
        BY <1>2, <2>3
      <3>3. QED
        BY <1>5, <3>1, <3>2
    <2>4. QED
      BY <2>1, <2>2, <2>3
  <1>10. Backward(s)
    BY <1>2, <1>9 DEF Backward
  <1>11. QED
    BY <1>2, <1>8, <1>10 DEF s

\* what is left of such an order after a first part was dropped is in order
LEMMA SplitBackward ==
  ASSUME NEW s \in Seq(Tx), NEW k \in 0 .. Len(s), Backward(s)
  PROVE  LET p == SubSeq(s, 1, k)
             q == SubSeq(s, k + 1, Len(s))
         IN  /\ p \in Seq(Tx) /\ q \in Seq(Tx) /\ Range(s) = Range(p) \cup Range(q)
             /\ Backward(q)
  <1> DEFINE n == Len(s)
             p == SubSeq(s, 1, k)
             q == SubSeq(s, k + 1, Len(s))
  <1>1. n \in Nat /\ k \in 0 .. n
    BY RangeFirst
  <1>2. /\ p \in Seq(Tx) /\ Len(p) = k /\ \A i \in 1 .. k : p[i] = s[i]
        /\ q \in Seq(Tx) /\ Len(q) = n - k /\ \A i \in 1 .. n - k : q[i] = s[k + i]
    BY SMT
  <1>3. /\ \A i \in 1 .. k : i \in 1 .. n
        /\ \A i \in 1 .. n - k : k + i \in 1 .. n
        /\ \A i \in 1 .. n : i \notin 1 .. k => i - k \in 1 .. n - k /\ k + (i - k) = i
        /\ \A i, j \in 1 .. n - k : i < j => k + i < k + j
    BY <1>1, SMT
  <1>4. Range(p) = First(p, k) /\ Range(q) = First(q, n - k) /\ Range(s) = First(s, n)
    BY <1>2, RangeFirst
  <1>5. \A i, j \in 1 .. n : i < j => s[i] # s[j] /\ ~ Depends(s[j], s[i])
    BY DEF Backward
  <1> HIDE DEF n, p, q
  <1>6. Range(s) = Range(p) \cup Range(q)
    <2>1. ASSUME NEW i \in 1 .. n PROVE s[i] \in Range(p) \cup Range(q)
      <3>1. CASE i \in 1 .. k
        BY <1>2, <1>4, <3>1 DEF First
      <3>2. CASE i \notin 1 .. k
        <4>1. i - k \in 1 .. n - k /\ s[i] = q[i - k]
          BY <1>2, <1>3, <3>2
        <4>2. QED
          BY <1>4, <4>1 DEF First
      <3>3. QED
        BY <3>1, <3>2
    <2>2. \A i \in 1 .. k : p[i] \in Range(s)
      BY <1>2, <1>3, <1>4 DEF First
    <2>3. \A i \in 1 .. n - k : q[i] \in Range(s)
      BY <1>2, <1>3, <1>4 DEF First
    <2>4. QED
      BY <1>4, <2>1, <2>2, <2>3 DEF First
  <1>7. Backward(q)
    <2>1. ASSUME NEW i \in 1 .. n - k, NEW j \in 1 .. n - k, i < j
          PROVE  q[i] # q[j] /\ ~ Depends(q[j], q[i])
      <3>1. k + i \in 1 .. n /\ k + j \in 1 .. n /\ k + i < k + j
        BY <1>3, <2>1
      <3>2. q[i] = s[k + i] /\ q[j] = s[k + j]
        BY <1>2
      <3>3. QED
        BY <1>5, <3>1, <3>2
    <2>2. QED
      BY <1>2, <2>1 DEF Backward
  <1>8. QED
    BY <1>2, <1>6, <1>7 DEF p, q

\* the last of such an order depends on none of the others
LEMMA LastBackward ==
  ASSUME NEW s \in Seq(Tx), s # <<>>, Backward(s)
  PROVE  /\ Front(s) \in Seq(Tx) /\ Backward(Front(s)) /\ Last(s) \in Tx
         /\ Range(s) = Range(Front(s)) \cup {Last(s)} /\ Last(s) \notin Range(Front(s))
         /\ \A x \in Range(Front(s)) : ~ Depends(Last(s), x)
  <1> DEFINE n == Len(s)
             p == Front(s)
  <1>1. n \in Nat \ {0}
    BY SMT
  <1>2. /\ p \in Seq(Tx) /\ Len(p) = n - 1 /\ \A i \in 1 .. n - 1 : p[i] = s[i]
        /\ Last(s) = s[n] /\ s[n] \in Tx
    <2>1. p = SubSeq(s, 1, n - 1) /\ Last(s) = s[n]
      BY DEF Front, Last
    <2>2. \A k \in 0 .. Len(s) :
            /\ SubSeq(s, 1, k) \in Seq(Tx) /\ Len(SubSeq(s, 1, k)) = k
            /\ \A i \in 1 .. k : SubSeq(s, 1, k)[i] = s[i]
      BY SMT
    <2>3. n - 1 \in 0 .. Len(s)
      BY <1>1, SMT
    <2>4. s[n] \in Tx
      BY <1>1, SMT
    <2> HIDE DEF p, n
    <2>5. QED
      BY <2>1, <2>2, <2>3, <2>4
  <1>3. /\ \A i \in 1 .. n - 1 : i \in 1 .. n /\ i < n
        /\ \A i \in 1 .. n : i \in 1 .. n - 1 \/ i = n
        /\ n \in 1 .. n
    BY <1>1, SMT
  <1>4. Range(p) = First(p, n - 1) /\ Range(s) = First(s, n)
    BY <1>2, RangeFirst
  <1>5. \A i, j \in 1 .. n : i < j => s[i] # s[j] /\ ~ Depends(s[j], s[i])
    BY DEF Backward
  <1> HIDE DEF n, p
  <1>6. Range(s) = Range(p) \cup {s[n]}
    BY <1>2, <1>3, <1>4 DEF First
  <1>7. \A x \in Range(p) : x # s[n] /\ ~ Depends(s[n], x)
    BY <1>2, <1>3, <1>4, <1>5 DEF First
  <1>8. Backward(p)
    BY <1>2, <1>3, <1>5 DEF Backward
  <1>9. QED
    BY <1>2, <1>6, <1>7, <1>8 DEF p

-----------------------------------------------------------------------------
(* Lock points.                                                            *)

LEMMA NoLocksType == NoLocks \in Locks
  <1>1. Genesis \in Blocks
    BY BlockFacts
  <1>2. QED
    BY <1>1, SMT DEF NoLocks, Locks

LEMMA RelativeType ==
  ASSUME NEW t \in Tx
  PROVE  Relative[t] \in Nat /\ LockTime[t] \in Nat /\ Maturity \in Nat
  BY MempoolAssumption

\* CalculateSequenceLocks: the lock points it returns, and what they depend on
LEMMA LockPointsAre ==
  \A mp : \A t \in Tx :
    tip \in Blocks /\ (\A o \in Spends[t] : HaveCoin(mp, o)) /\ Spends[t] # {}
    => /\ LockPoints(mp, t) \in Locks
       /\ Relative[t] # 0 => \E high, h : LockedAt(mp, t, LockPoints(mp, t), high, h)
  <1>LockPointsIs.
    ASSUME NEW mp, NEW t, Relative[t] # 0
    PROVE  LockPoints(mp, t) =
             [height |-> Greatest(Made(mp, t)) + Relative[t] - 1,
              block |-> CHOOSE a \in Path[tip] :
                          Height[a] = Greatest((Made(mp, t) \ {Height[tip] + 1}) \cup {0})]
    BY <1>LockPointsIs DEF LockPoints, Made, Greatest
  <1>GreatestIs.
    ASSUME NEW S \in SUBSET Nat, S # {}, NEW bound \in Nat, \A n \in S : n <= bound
    PROVE  Greatest(S) \in S /\ \A n \in S : n <= Greatest(S)
    BY <1>GreatestIs, GreatestNumber DEF Greatest
  <1>MadeIs.
    ASSUME NEW mp, NEW t, tip \in Blocks, \A o \in Spends[t] : HaveCoin(mp, o)
    PROVE  /\ \A o \in Spends[t] :
                /\ o[1] \in mp.tx => Height[tip] + 1 \in Made(mp, t)
                /\ o[1] \notin mp.tx => /\ CoinHeight[tip][o[1]] \in Made(mp, t)
                                        /\ o \in Unspent[tip] /\ o[1] \in Confirmed[tip]
                                        /\ CoinHeight[tip][o[1]] # Height[tip] + 1
           /\ \A n \in Made(mp, t) :
                /\ n \in Nat /\ n <= Height[tip] + 1
                /\ n # Height[tip] + 1 => \E a \in Path[tip] : Height[a] = n
    <2> USE <1>MadeIs
    <2>1. Height[tip] \in Nat /\ tip \in Path[tip]
      BY BlockFacts, PathEnds
    <2>2. \A o \in Spends[t] :
            (IF o[1] \in mp.tx THEN Height[tip] + 1 ELSE CoinHeight[tip][o[1]]) \in Made(mp, t)
      BY DEF Made
    <2>3. ASSUME NEW o \in Spends[t], o[1] \notin mp.tx
          PROVE  /\ o \in Unspent[tip] /\ o[1] \in Confirmed[tip]
                 /\ CoinHeight[tip][o[1]] \in Nat /\ CoinHeight[tip][o[1]] <= Height[tip]
                 /\ \E a \in Path[tip] : Height[a] = CoinHeight[tip][o[1]]
      <3>1. o \in Unspent[tip]
        BY <2>3 DEF HaveCoin
      <3>2. o[1] \in Confirmed[tip]
        BY <3>1, UnspentIn
      <3>3. CoinHeight[tip][o[1]] \in Nat /\ CoinHeight[tip][o[1]] <= Height[tip]
        <4>1. \A u \in Confirmed[tip] : CoinHeight[tip][u] \in Nat /\ CoinHeight[tip][u] <= Height[tip]
          BY <2>1, CoinHeightStays
        <4>2. QED
          BY <3>2, <4>1
      <3>4. PICK a \in Path[tip] : o[1] \in Range(Vtx[a])
        BY <3>2, ConfirmedIn
      <3>5. CoinHeight[tip][o[1]] = Height[a]
        <4>1. MadeAt(tip, o[1], Height[a])
          BY <3>4, CoinHeightIs
        <4>2. QED
          BY <4>1 DEF MadeAt
      <3>6. QED
        BY <3>1, <3>2, <3>3, <3>5
    <2>4. /\ Height[tip] + 1 \in Nat /\ Height[tip] + 1 <= Height[tip] + 1
          /\ \A n \in Nat : n <= Height[tip] => n <= Height[tip] + 1 /\ n # Height[tip] + 1
      BY <2>1, SMT
    <2>5. ASSUME NEW n \in Made(mp, t)
          PROVE  /\ n \in Nat /\ n <= Height[tip] + 1
                 /\ n # Height[tip] + 1 => \E a \in Path[tip] : Height[a] = n
      <3>1. PICK o \in Spends[t] :
              n = IF o[1] \in mp.tx THEN Height[tip] + 1 ELSE CoinHeight[tip][o[1]]
        BY DEF Made
      <3>2. CASE o[1] \in mp.tx
        BY <2>4, <3>1, <3>2
      <3>3. CASE o[1] \notin mp.tx
        BY <2>3, <2>4, <3>1, <3>3
      <3>4. QED
        BY <3>2, <3>3
    <2>6. QED
      BY <2>2, <2>3, <2>4, <2>5
  <1> SUFFICES
    ASSUME NEW mp, NEW t \in Tx, tip \in Blocks, \A o \in Spends[t] : HaveCoin(mp, o),
           Spends[t] # {}
    PROVE  /\ LockPoints(mp, t) \in Locks
           /\ Relative[t] # 0 => \E high, h : LockedAt(mp, t, LockPoints(mp, t), high, h)
    OBVIOUS
  <1> DEFINE next == Height[tip] + 1
             made == Made(mp, t)
             older == (made \ {next}) \cup {0}
             high == Greatest(made)
             h == Greatest(older)
  <1>1. CASE Relative[t] = 0
    BY <1>1, NoLocksType DEF LockPoints
  <1>2. CASE Relative[t] # 0
    <2>1. next \in Nat
      <3>1. Height[tip] \in Nat
        BY BlockFacts
      <3>2. QED
        BY <3>1, SMT
    <2>2. /\ \A o \in Spends[t] :
              /\ o[1] \in mp.tx => next \in made
              /\ o[1] \notin mp.tx => CoinHeight[tip][o[1]] \in made /\ CoinHeight[tip][o[1]] # next
          /\ \A n \in made : n \in Nat /\ n <= next
          /\ \A n \in made : n # next => \E a \in Path[tip] : Height[a] = n
      BY <1>MadeIs
    <2>3. PICK x \in Spends[t] : TRUE
      OBVIOUS
    <2>4. made # {}
      BY <2>2, <2>3
    <2>5. 0 \in Nat /\ 0 <= next
      BY <2>1, SMT
    <2> HIDE DEF next, made
    <2>6. high \in made /\ \A n \in made : n <= high
      <3>1. made \in SUBSET Nat /\ \A n \in made : n <= next
        BY <2>2
      <3>2. QED
        BY <2>1, <2>4, <3>1, <1>GreatestIs
    <2>7. h \in older /\ \A n \in older : n <= h
      <3>1. older \in SUBSET Nat /\ older # {} /\ \A n \in older : n <= next
        BY <2>2, <2>5
      <3> HIDE DEF older
      <3>2. QED
        BY <2>1, <3>1, <1>GreatestIs
    <2> HIDE DEF high
    <2>8. high \in Nat /\ h \in Nat
      BY <2>2, <2>5, <2>6, <2>7
    <2>9. \E a \in Path[tip] : Height[a] = h
      <3>1. Genesis \in Path[tip] /\ Height[Genesis] = 0
        BY PathEnds, BlockFacts
      <3>2. QED
        BY <2>2, <2>7, <3>1
    <2>10. \A o \in Spends[t] :
             IF o[1] \in mp.tx THEN next <= high
             ELSE CoinHeight[tip][o[1]] <= high /\ CoinHeight[tip][o[1]] <= h
      BY <2>2, <2>6, <2>7
    <2> DEFINE a == CHOOSE a \in Path[tip] : Height[a] = h
               lp == LockPoints(mp, t)
    <2>11. lp = [height |-> high + Relative[t] - 1, block |-> a]
      BY <1>2, <1>LockPointsIs DEF high, made, next
    <2> HIDE DEF h
    <2>12. a \in Path[tip] /\ Height[a] = h
      BY <2>9
    <2>13. a \in Blocks
      BY <2>12, PathEnds
    <2> HIDE DEF a, lp
    <2>14. high + Relative[t] - 1 \in Int
      BY <2>8, RelativeType, SMT
    <2>15. lp \in Locks /\ lp.height = high + Relative[t] - 1 /\ lp.block = a
      BY <2>11, <2>13, <2>14, SMT DEF Locks
    <2>16. LockedAt(mp, t, lp, high, h)
      BY <2>8, <2>10, <2>12, <2>15 DEF LockedAt, next
    <2>17. QED
      BY <2>15, <2>16 DEF lp
  <1>3. QED
    BY <1>1, <1>2

\* lock points that were computed are right on every chain that holds their block
LEMMA LocksSound ==
  ASSUME NEW mp, NEW t \in Tx, tip \in Blocks, \A o \in Spends[t] : HaveCoin(mp, o),
         Spends[t] # {}, EvaluateSequenceLocks(LockPoints(mp, t)), Relative[t] # 0
  PROVE  /\ LockSound(t, LockPoints(mp, t)) /\ LockPoints(mp, t).block \in Path[tip]
         /\ \A o \in Spends[t] : o[1] \notin mp.tx
  <1> DEFINE lp == LockPoints(mp, t)
             a == lp.block
  <1>1. PICK high, h : LockedAt(mp, t, lp, high, h)
    BY LockPointsAre
  <1>2. Relative[t] \in Nat /\ Height[tip] \in Nat /\ lp.height < Height[tip] + 1
    BY RelativeType, BlockFacts DEF EvaluateSequenceLocks
  <1> HIDE DEF lp
  <1>3. /\ high \in Nat /\ h \in Nat /\ lp.height = high + Relative[t] - 1
        /\ a \in Path[tip] /\ Height[a] = h
    BY <1>1 DEF LockedAt
  <1>4. ~ (Height[tip] + 1 <= high)
    BY <1>2, <1>3, SMT
  <1>5. \A o \in Spends[t] :
          o[1] \notin mp.tx /\ CoinHeight[tip][o[1]] <= high /\ CoinHeight[tip][o[1]] <= h
    BY <1>1, <1>4 DEF LockedAt
  <1>6. a \in Blocks
    BY <1>3, PathEnds
  <1> HIDE DEF a
  <1>7. ASSUME NEW o \in Spends[t]
        PROVE  o[1] \in Confirmed[a] /\ CoinHeight[a][o[1]] + Relative[t] - 1 <= lp.height
    <2>1. o[1] \in Confirmed[tip]
      <3>1. o \in Unspent[tip]
        BY <1>5 DEF HaveCoin
      <3>2. QED
        BY <3>1, UnspentIn
    <2>2. PICK c \in Path[tip] : o[1] \in Range(Vtx[c])
      BY <2>1, ConfirmedIn
    <2>3. MadeAt(tip, o[1], Height[c])
      BY <2>2, CoinHeightIs
    <2>4. Height[c] <= Height[a]
      BY <1>3, <1>5, <2>3 DEF MadeAt
    <2>5. c \in Path[a]
      BY <1>3, <2>4, PathBelow
    <2>6. o[1] \in Confirmed[a] /\ MadeAt(a, o[1], Height[c])
      BY <1>6, <2>2, <2>5, CoinHeightIs
    <2>7. Height[c] \in Nat /\ Height[c] <= high
      <3>1. Height[c] <= high
        BY <1>5, <2>3 DEF MadeAt
      <3>2. c \in Blocks
        BY PathEnds
      <3>3. QED
        BY <3>1, <3>2, BlockFacts
    <2>8. Height[c] + Relative[t] - 1 <= lp.height
      BY <1>2, <1>3, <2>7, SMT
    <2>9. QED
      BY <2>6, <2>8 DEF MadeAt
  <1>8. QED
    BY <1>3, <1>5, <1>7 DEF LockSound, lp, a

\* what valid lock points say of the chain
LEMMA LocksHold ==
  ASSUME NEW t \in Tx, NEW lp \in Locks, tip \in Blocks, lp.block \in Path[tip],
         LockSound(t, lp), EvaluateSequenceLocks(lp), Relative[t] # 0, NEW o \in Spends[t]
  PROVE  /\ o[1] \in Confirmed[tip]
         /\ Height[tip] + 1 >= CoinHeight[tip][o[1]] + Relative[t]
  <1>1. /\ o[1] \in Confirmed[lp.block]
        /\ CoinHeight[lp.block][o[1]] + Relative[t] - 1 <= lp.height
        /\ lp.height < Height[tip] + 1
    BY DEF LockSound, EvaluateSequenceLocks
  <1>2. \A u \in Confirmed[lp.block] :
          /\ u \in Confirmed[tip] /\ MadeAt(tip, u, CoinHeight[lp.block][u])
          /\ CoinHeight[lp.block][u] \in Nat
    BY CoinHeightStays DEF MadeAt
  <1>3. Relative[t] \in Nat /\ Height[tip] \in Nat
    BY RelativeType, BlockFacts
  <1>4. lp.height \in Int
    BY SMT DEF Locks
  <1> DEFINE c == CoinHeight[lp.block][o[1]]
  <1>5. c \in Nat /\ c + Relative[t] - 1 <= lp.height
    BY <1>1, <1>2
  <1> HIDE DEF c
  <1>6. Height[tip] + 1 >= c + Relative[t]
    BY <1>1, <1>3, <1>4, <1>5, SMT
  <1>7. MadeAt(tip, o[1], c) /\ o[1] \in Confirmed[tip]
    BY <1>1, <1>2 DEF c
  <1>8. QED
    BY <1>6, <1>7 DEF MadeAt

=============================================================================
