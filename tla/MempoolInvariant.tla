-------------------------- MODULE MempoolInvariant --------------------------
(***************************************************************************)
(* The invariant of Mempool, PoolInv, and the notions its proof is made    *)
(* of, in the order in which MempoolLemmas and MempoolProofs use them.     *)
(***************************************************************************)
EXTENDS Mempool

-----------------------------------------------------------------------------
(* Numbers.                                                                *)

\* f is defined by recursion up to n
FoldEquation(n, base, step, f) ==
  f = [i \in 0 .. n |-> IF i = 0 THEN base ELSE step[<<i, f[i - 1]>>]]

-----------------------------------------------------------------------------
(* What can be reached along links.                                        *)

Wider(links, R) == {t \in Tx : t \in R \/ \E u \in R : t \in links[u]}

Closed(links, R) == \A u \in R : links[u] \subseteq R

\* the equation that defines reach in Reach
ReachEquation(links, f) ==
  f = [R \in SUBSET Tx |-> IF Wider(links, R) = R THEN R ELSE f[Wider(links, R)]]

Links == [Tx -> SUBSET Tx]

\* the links of parents and of children mirror each other
Dual(l, k) == \A t, u \in Tx : u \in l[t] <=> t \in k[u]

\* A set that is closed under the links is cut off: only what was reached in it
\* is lost.
Cut(l, k, D, m, n) ==
  /\ l \in Links /\ k \in Links /\ Dual(l, k) /\ D \in SUBSET Tx /\ Closed(l, D)
  /\ m \in Links /\ \A t \in Tx : m[t] = IF t \in D THEN {} ELSE l[t] \ D
  /\ n \in Links /\ \A t \in Tx : n[t] = IF t \in D THEN {} ELSE k[t]

CutReach(l, k, D, m, n, t) ==
  /\ Reach(m, {t}) = Reach(l, {t}) \ D
  /\ Reach(n, {t}) = Reach(k, {t})
  /\ \A r \in D : t \in Reach(k, k[r]) <=> r \in Reach(l, {t})

-----------------------------------------------------------------------------
(* Pools.                                                                  *)

\* t spends an output of u
Depends(t, u) == \E o \in Spends[t] : o[1] = u

Pool ==
  [tx : SUBSET Tx, parents : Links, children : Links,
   ancestors : [Tx -> Int], descendants : [Tx -> Int],
   locks : [Tx -> [height : Int, block : Blocks]]]

\* The entries tx are linked with what they depend on, except that one of late
\* is linked with its spenders in known only.
LinkedBy(tx, parents, children, late, known) ==
  \A t \in Tx :
    /\ parents[t] = {u \in tx : t \in tx /\ Depends(t, u) /\ (u \in late => t \in known)}
    /\ children[t] = {u \in tx : t \in tx /\ Depends(u, t) /\ (t \in late => u \in known)}

Linked(mp, late, known) == LinkedBy(mp.tx, mp.parents, mp.children, late, known)

CountedBy(tx, links, count) == \A t \in tx : count[t] = Cardinality(Reach(links, {t}))

Counted(mp) ==
  /\ CountedBy(mp.tx, mp.children, mp.descendants)
  /\ CountedBy(mp.tx, mp.parents, mp.ancestors)

Sound(mp, late, known) == mp \in Pool /\ Linked(mp, late, known) /\ Counted(mp)

With(mp, c, p, a, d) ==
  [mp EXCEPT !.children = c, !.parents = p, !.ancestors = a, !.descendants = d]

HasFields(mp, c, p, a, d, m) ==
  /\ m \in Pool /\ m.tx = mp.tx /\ m.locks = mp.locks /\ m.parents = p
  /\ m.children = c /\ m.ancestors = a /\ m.descendants = d

-----------------------------------------------------------------------------
(* Removal.                                                                *)

\* m is mp after RemoveStaged
Staged(mp, D, upd, m) ==
  /\ m \in Pool /\ m.tx = mp.tx \ D
  /\ \A t \in Tx : m.parents[t] = IF t \in D THEN {}
                     ELSE mp.parents[t] \ {r \in D : t \in mp.children[r]}
  /\ \A t \in Tx : m.children[t] = IF t \in D THEN {}
                     ELSE mp.children[t] \ {r \in D : t \in mp.parents[r]}
  /\ \A t \in Tx \ D :
       m.descendants[t] = mp.descendants[t]
         - Cardinality({r \in D : t \in Reach(mp.parents, mp.parents[r])})
  /\ \A t \in Tx \ D :
       m.ancestors[t] = mp.ancestors[t]
         - Cardinality({r \in D : t \in IF upd THEN Reach(mp.children, {r}) \ {r} ELSE {}})
  /\ \A t \in Tx \ D : m.locks[t] = mp.locks[t]

\* The two kinds of links, when a set that is closed under one of them leaves.
Leaving(l, k, D, m, n) ==
  /\ l \in Links /\ k \in Links /\ Dual(l, k) /\ D \in SUBSET Tx /\ Closed(l, D)
  /\ m \in Links
  /\ \A t \in Tx : m[t] = IF t \in D THEN {} ELSE l[t] \ {r \in D : t \in k[r]}
  /\ n \in Links
  /\ \A t \in Tx : n[t] = IF t \in D THEN {} ELSE k[t] \ {r \in D : t \in l[r]}

Recount(tx, D, k, x, y, z, w) ==
  \A t \in tx \ D :
    /\ z[t] = x[t] - Cardinality({r \in D : t \in Reach(k, k[r])})
    /\ w[t] = y[t]

\* m is what is left of mp without D, with links and counts in order
Rest(mp, D, late, known, m) ==
  /\ Sound(m, late, known)
  /\ m.tx = mp.tx \ D /\ \A t \in m.tx : m.locks[t] = mp.locks[t]

\* m is what is left of mp: an entry stays only if what it is linked to stays or
\* is in gone
Shrunk(mp, gone, late, known, m) ==
  /\ Sound(m, late, known) /\ m.tx \subseteq mp.tx
  /\ \A t \in m.tx : m.locks[t] = mp.locks[t]
  /\ \A t \in m.tx : \A u \in mp.tx :
       Depends(t, u) /\ (u \in late => t \in known) => u \in m.tx \cup gone

EachEquation(mp, txs, f) ==
  f = [i \in 0 .. Len(txs) |-> IF i = 0 THEN mp ELSE removeRecursive(f[i - 1], txs[i])]

\* m is what is left of mp after the first i transactions of a block
Confirming(mp, vtx, late, known, i, m) ==
  /\ Shrunk(mp, Range(vtx), late, known, m)
  /\ \A j \in 1 .. Len(vtx) : j <= i =>
       vtx[j] \notin m.tx /\ \A u \in m.tx : Spends[u] \cap Spends[vtx[j]] = {}

\* in a block, and against the pool, none comes before what it depends on
SpendsBack(mp, vtx) ==
  \A i \in 1 .. Len(vtx) : \A u \in mp.tx :
    Depends(vtx[i], u) => \E j \in 1 .. Len(vtx) : j <= i - 1 /\ u = vtx[j]

BlockEquation(mp, vtx, f) ==
  f = [i \in 0 .. Len(vtx) |-> IF i = 0 THEN mp ELSE RemoveConfirmed(f[i - 1], vtx[i])]

-----------------------------------------------------------------------------
(* Addition.                                                               *)

\* t joins the entries tx below S
Joins(tx, p, c, t, S, q, d) ==
  /\ tx \in SUBSET Tx /\ t \in Tx \ tx /\ S \in SUBSET tx
  /\ p \in Links /\ c \in Links /\ Dual(p, c) /\ q \in Links /\ d \in Links
  /\ \A u \in Tx : p[u] \subseteq tx /\ c[u] \subseteq tx
  /\ c[t] = {} /\ q[t] = S
  /\ \A u \in Tx : u # t => q[u] = p[u]
  /\ \A u \in Tx : d[u] = IF u \in S THEN c[u] \cup {t} ELSE c[u]

Joined(tx, p, c, t, S, q, d) ==
  /\ Reach(q, {t}) = {t} \cup Reach(p, S) /\ Reach(p, S) \subseteq tx
  /\ \A u \in tx : Reach(q, {u}) = Reach(p, {u})
  /\ Reach(d, {t}) = {t}
  /\ \A u \in tx : Reach(d, {u}) = IF u \in Reach(p, S) THEN Reach(c, {u}) \cup {t}
                                   ELSE Reach(c, {u})

\* m is mp after addUnchecked
Added(mp, t, A, lp, m) ==
  /\ m \in Pool /\ m.tx = mp.tx \cup {t}
  /\ m.parents[t] = SpentBy(mp, t)
  /\ \A u \in Tx : u # t => m.parents[u] = mp.parents[u]
  /\ \A u \in Tx : m.children[u] = IF u \in SpentBy(mp, t) THEN mp.children[u] \cup {t}
                                   ELSE mp.children[u]
  /\ m.ancestors[t] = 1 + Cardinality(A)
  /\ \A u \in Tx : u # t => m.ancestors[u] = mp.ancestors[u]
  /\ m.descendants[t] = 1
  /\ \A u \in Tx : u # t => m.descendants[u] = IF u \in A THEN mp.descendants[u] + 1
                                               ELSE mp.descendants[u]
  /\ m.locks[t] = lp /\ \A u \in Tx : u # t => m.locks[u] = mp.locks[u]

\* t, of X or of no new ones, is linked with nothing that comes after it
Fresh(mp, t, L, X) ==
  /\ t \in Tx /\ t \notin mp.tx /\ X \in SUBSET {t} /\ ~ Depends(t, t)
  /\ \A w \in mp.tx : Depends(w, t) => t \in X /\ w \notin L
  /\ \A u \in mp.tx : Depends(t, u) /\ u \in L => t \in X

\* m is mp with t, in place of what t conflicts with; left is mp without that
Entered(mp, t, lp, L, left, m) ==
  /\ Shrunk(mp, {}, L, L, left) /\ Conflicts(mp, t) \cap left.tx = {}
  /\ SpentBy(mp, t) \subseteq left.tx
  /\ m.tx = left.tx \cup {t}
  /\ m.locks[t] = lp /\ \A u \in left.tx : m.locks[u] = mp.locks[u]

-----------------------------------------------------------------------------
(* UpdateTransactionsFromBlock.  V are the re-added transactions, X those  *)
(* of them that do not know their children outside V yet.                  *)

Halfway(T, p, c, X, V) ==
  /\ T \in SUBSET Tx /\ V \in SUBSET T /\ X \in SUBSET V
  /\ p \in Links /\ c \in Links /\ Dual(p, c) /\ Closed(p, V) /\ Closed(p, X)
  /\ \A u \in Tx : p[u] \subseteq T /\ c[u] \subseteq T

\* t gets its new children
Meets(T, p, c, X, V, t, new, q, d) ==
  /\ Halfway(T, p, c, X, V) /\ t \in X /\ new \in SUBSET (T \ V)
  /\ q \in Links /\ \A u \in Tx : q[u] = IF u \in new THEN p[u] \cup {t} ELSE p[u]
  /\ d \in Links /\ \A u \in Tx : d[u] = IF u = t THEN c[u] \cup new ELSE c[u]

Met(T, p, c, X, V, t, new, q, d) ==
  /\ T \in SUBSET Tx /\ V \in SUBSET Tx /\ X \in SUBSET V /\ V \subseteq T
  /\ p \in Links /\ c \in Links /\ Dual(p, c) /\ q \in Links /\ d \in Links
  /\ t \in X /\ t \in V /\ t \in Tx /\ new \in SUBSET (T \ V)
  /\ Closed(p, V) /\ Closed(p, X) /\ Closed(c, T \ V) /\ Closed(c, Tx \ X)
  /\ \A u \in Tx : d[u] = IF u = t THEN c[u] \cup new ELSE c[u]
  /\ \A u \in Tx : q[u] = IF u \in new THEN p[u] \cup {t} ELSE p[u]

\* below: only transactions outside V are met, and only below X
MetBelow(c, X, V, d, s) ==
  /\ Reach(d, {s}) \cap V = Reach(c, {s}) \cap V
  /\ s \notin X => Reach(d, {s}) = Reach(c, {s})

\* above: t is met, and what t already had above it
MetAbove(p, X, V, t, q, d, u) ==
  /\ u \in V => Reach(q, {u}) = Reach(p, {u})
  /\ u \notin Reach(d, {t}) =>
       Reach(q, {u}) = Reach(p, {u}) /\ t \notin Reach(q, {u})
  /\ u \in Reach(d, {t}) /\ u \notin V =>
       Reach(q, {u}) \ (X \ {t}) = (Reach(p, {u}) \ X) \cup {t}

\* m is mp after UpdateForDescendants
Updated(mp, t, V, new, all, m) ==
  /\ m \in Pool /\ m.tx = mp.tx /\ m.locks = mp.locks
  /\ \A u \in Tx : m.parents[u] = IF u \in new THEN mp.parents[u] \cup {t} ELSE mp.parents[u]
  /\ \A u \in Tx : m.children[u] = IF u = t THEN mp.children[u] \cup new ELSE mp.children[u]
  /\ all = Reach(m.children, m.children[t]) \ V
  /\ \A u \in Tx : m.ancestors[u] = IF u \in all THEN mp.ancestors[u] + 1 ELSE mp.ancestors[u]
  /\ m.descendants[t] = mp.descendants[t] + Cardinality(all)
  /\ \A u \in Tx : u # t => m.descendants[u] = mp.descendants[u]

\* the links and the counts of a pool in which X do not know all their children yet
Partial(m, X, V) ==
  /\ m \in Pool /\ Linked(m, X, V)
  /\ \A s \in m.tx : m.descendants[s] = IF s \in X THEN Cardinality(Reach(m.children, {s}) \cap V)
                                        ELSE Cardinality(Reach(m.children, {s}))
  /\ \A u \in m.tx : m.ancestors[u] = IF u \in V THEN Cardinality(Reach(m.parents, {u}))
                                      ELSE Cardinality(Reach(m.parents, {u}) \ X)

\* V depends on nothing else in T, and X on nothing else in V
Upmost(T, V, X) ==
  /\ V \in SUBSET T /\ X \in SUBSET V
  /\ \A v \in V : \A u \in T \ V : ~ Depends(v, u)
  /\ \A x \in X : \A w \in V \ X : ~ Depends(x, w)

\* every input of an entry is an output of a transaction
Real(tx) == \A u \in tx : \A o \in Spends[u] : o[1] \in Tx /\ o \in Outputs[o[1]]

\* none comes before what it depends on, and none comes twice
Forward(v) ==
  \A i, j \in 1 .. Len(v) : i < j => v[i] # v[j] /\ ~ Depends(v[i], v[j])

First(v, k) == {v[j] : j \in 1 .. k}

\* m is mp after the last i transactions of v
Updating(mp, v, i, m) ==
  /\ Partial(m, First(v, Len(v) - i), Range(v))
  /\ m.tx = mp.tx /\ m.locks = mp.locks

\* v may return: the pool is in order but for what it knows about v's children
Returned(mp, v) ==
  /\ v \in Seq(Tx) /\ Forward(v) /\ Range(v) \in SUBSET mp.tx /\ Real(mp.tx)
  /\ \A t \in Range(v) : \A u \in mp.tx \ Range(v) : ~ Depends(t, u)
  /\ Sound(mp, Range(v), Range(v))

UpdateEquation(mp, v, f) ==
  f = [i \in 0 .. Len(v) |->
         IF i = 0 THEN mp
         ELSE UpdateForDescendants(f[i - 1], v[Len(v) + 1 - i], Range(v))]

-----------------------------------------------------------------------------
(* The disconnected transactions.                                          *)

\* what one depends on comes after it, and none comes twice
Backward(s) ==
  \A i, j \in 1 .. Len(s) : i < j => s[i] # s[j] /\ ~ Depends(s[j], s[i])

\* k is what is left of the first i transactions of txs
Kept(txs, vtx, i, k) ==
  k \in Seq(Tx) /\ Range(k) = First(txs, i) \ Range(vtx) /\ Backward(k)

KeptEquation(txs, vtx, f) ==
  f = [i \in 0 .. Len(txs) |->
         IF i = 0 THEN <<>>
         ELSE IF txs[i] \in Range(vtx) THEN f[i - 1] ELSE Append(f[i - 1], txs[i])]

-----------------------------------------------------------------------------
(* What a chain holds.                                                     *)

MadeAt(b, t, h) == CoinHeight[b][t] = h

\* what ConnectBlock finds out about the inputs of transaction i of b
Connects(b, i, t) ==
  /\ Spends[t] # {}
  /\ \A o \in Spends[t] :
       /\ o \in Unspent[Parent[b]] \/ \E j \in 1 .. i - 1 : o \in Outputs[Vtx[b][j]]
       /\ Height[b] - CoinHeight[b][o[1]] >= IF o[1] \in Coinbase THEN Maturity ELSE Relative[t]
  /\ \A j \in 2 .. i - 1 : Spends[t] \cap Spends[Vtx[b][j]] = {}

\* a transaction of a block spends what the chain before it left unspent, or
\* what an earlier one of the block made
MadeBefore(b, i, o) ==
  /\ i # 1 /\ o[1] \in Tx /\ o \in Outputs[o[1]]
  /\ \/ o \in Unspent[Parent[b]] /\ o[1] \in Confirmed[Parent[b]]
     \/ \E j \in 1 .. Len(Vtx[b]) : j < i /\ o[1] = Vtx[b][j]

Apart(t, u) == Spends[t] \cap Spends[u] = {}

-----------------------------------------------------------------------------
(* Lock points.                                                            *)

\* the height the lock points of t allow holds on every chain with their block
LockSound(t, lp) ==
  Relative[t] # 0 =>
    \A o \in Spends[t] : /\ o[1] \in Confirmed[lp.block]
                         /\ CoinHeight[lp.block][o[1]] + Relative[t] - 1 <= lp.height

Locks == [height : Int, block : Blocks]

\* high is the last height an input of t was made at, h the last in the chain
LockedAt(mp, t, lp, high, h) ==
  /\ high \in Nat /\ h \in Nat
  /\ lp.height = high + Relative[t] - 1 /\ lp.block \in Path[tip] /\ Height[lp.block] = h
  /\ \A o \in Spends[t] :
       IF o[1] \in mp.tx THEN Height[tip] + 1 <= high
       ELSE CoinHeight[tip][o[1]] <= high /\ CoinHeight[tip][o[1]] <= h

\* where the inputs of t were made
Made(mp, t) ==
  {IF o[1] \in mp.tx THEN Height[tip] + 1 ELSE CoinHeight[tip][o[1]] : o \in Spends[t]}

Greatest(S) == CHOOSE h \in S : \A g \in S : g <= h

-----------------------------------------------------------------------------
(* The inductive invariant.  Between two moves it says of the pool what    *)
(* ReadyForNextBlock, LinksExact and CountsFollowLinks say.  In the middle *)
(* of one an input may also come from a transaction that waits to return,  *)
(* and what returned is linked only to what returned after it.             *)

ReAdded == Range(vHashUpdate)

Returning == Range(disconnectpool)

\* where the inputs of a pool come from on the chain of b, when the
\* transactions of away wait to return
Sources(mp, away, b) ==
  /\ mp.tx \cap Confirmed[b] = {} /\ mp.tx \cap away = {} /\ mp.tx \cap Coinbase = {}
  /\ \A t, u \in mp.tx : t # u => Apart(t, u)
  /\ \A t \in mp.tx : LockSound(t, mp.locks[t])
  /\ Real(mp.tx)
  /\ \A t \in mp.tx : \A o \in Spends[t] : o[1] \in mp.tx \cup away \/ o \in Unspent[b]

\* an input that t finds in the pool, or in the chain and old enough
InputReady(mp, t, o, b) ==
  \/ o[1] \in mp.tx /\ Relative[t] = 0
  \/ /\ o \in Unspent[b] /\ Mature(o, b)
     /\ Height[b] + 1 >= CoinHeight[b][o[1]] + Relative[t]

Minable(mp, b) ==
  \A t \in mp.tx : CheckFinalTx(t, b) /\ \A o \in Spends[t] : InputReady(mp, t, o, b)

\* the disconnected transactions return in an order in which none comes before
\* what it depends on, and nothing that stayed in the pool stops them
Queued(waiting, added, mp) ==
  /\ Backward(waiting) /\ Forward(added)
  /\ \A t \in Range(added), u \in Range(waiting) : ~ Depends(t, u)
  /\ \A t, u \in Range(waiting) \cup Range(added) : t # u => Apart(t, u)
  /\ \A t \in Range(waiting) \cup Range(added) : \A u \in mp.tx \ Range(added) : ~ Depends(t, u)

Types ==
  /\ tip \in Blocks /\ refused \subseteq Blocks
  /\ phase \in {"idle", "moving", "invalidating", "adding"}
  /\ phase \in {"moving", "invalidating"} => target \in Blocks /\ oldTip \in Blocks
  /\ disconnectpool \in Seq(Tx) /\ vHashUpdate \in Seq(Tx)
  /\ phase # "adding" => vHashUpdate = <<>>
  /\ phase = "idle" => disconnectpool = <<>>

\* where the chain is in a move
Moving ==
  /\ phase = "moving" =>
       /\ tip \in Path[oldTip] \cup Path[target]
       /\ oldTip \in Path[target] => oldTip \in Path[tip]
       /\ oldTip \in Path[tip] => disconnectpool = <<>>
  /\ phase = "invalidating" =>
       tip \in Path[oldTip] /\ target \in Path[oldTip] /\ target # Genesis
  /\ phase \in {"moving", "invalidating"} =>
       Returning \subseteq Confirmed[oldTip] \ Confirmed[tip]

Ready ==
  phase = "idle" \/ (phase = "moving" /\ oldTip \in Path[tip]) => Minable(mempool, tip)

PoolInv ==
  /\ Types /\ Moving /\ Ready
  /\ Sound(mempool, ReAdded, ReAdded)
  /\ Sources(mempool, Returning, tip)
  /\ Queued(disconnectpool, vHashUpdate, mempool)
  /\ ReAdded \subseteq mempool.tx

-----------------------------------------------------------------------------
(* What removal and addition do to the invariant.                          *)

\* an input that loses its place in the pool or in the queue finds another
Replaced(mp, m, gone, away, b, away2, b2) ==
  \A t \in m.tx : \A o \in Spends[t] :
    /\ o[1] \in Tx /\ o \in Outputs[o[1]]
    /\ o[1] \in gone \cup away \/ o \in Unspent[b]
    => o[1] \in m.tx \cup away2 \/ o \in Unspent[b2]

-----------------------------------------------------------------------------
(* Steps that leave the chain and the pool alone.                          *)

\* the parts of the invariant that are about the pool
PoolPart ==
  /\ Sound(mempool, ReAdded, ReAdded) /\ Sources(mempool, Returning, tip)
  /\ Queued(disconnectpool, vHashUpdate, mempool) /\ ReAdded \subseteq mempool.tx

-----------------------------------------------------------------------------
(* A block is disconnected.                                                *)

\* the transactions that wait to return once tip is disconnected, and those that
\* no longer fit
Waiting(all, dropped, kept) ==
  /\ all \in Seq(Tx) /\ Backward(all) /\ Range(all) = Returning \cup Range(Vtx[tip])
  /\ dropped \in Seq(Tx) /\ kept \in Seq(Tx) /\ Backward(kept)
  /\ Range(all) = Range(dropped) \cup Range(kept)

-----------------------------------------------------------------------------
(* A block is connected.                                                   *)

\* b follows tip
Follows(b) ==
  b \in Blocks \ {Genesis} /\ Parent[b] = tip /\ Path[b] = Path[tip] \cup {b} /\ tip \in Blocks

\* the pool once b is connected
Connected(b, m) ==
  /\ Shrunk(mempool, Range(Vtx[b]), {}, {}, m)
  /\ \A t \in Range(Vtx[b]) : t \notin m.tx /\ \A u \in m.tx : Spends[u] \cap Spends[t] = {}

-----------------------------------------------------------------------------
(* A disconnected transaction returns.                                     *)

\* the last of the queue, t, and the rest of it
Taken(t, rest) ==
  /\ t \in Tx /\ rest \in Seq(Tx) /\ Backward(rest)
  /\ Returning = Range(rest) \cup {t} /\ t \notin Range(rest)
  /\ \A x \in Range(rest) : ~ Depends(t, x)

\* what the invariant says of t
TakenFacts(t) ==
  /\ t \notin mempool.tx /\ t \notin ReAdded /\ mempool.tx \in SUBSET Tx
  /\ \A u \in ReAdded : ~ Depends(u, t) /\ Apart(t, u) /\ Apart(u, t)

-----------------------------------------------------------------------------
(* A transaction is accepted.                                              *)

\* lock points that hold on the chain of tip
Timely(t, lp) ==
  /\ lp \in Locks /\ LockSound(t, lp)
  /\ Relative[t] # 0 => lp.block \in Path[tip] /\ EvaluateSequenceLocks(lp)

-----------------------------------------------------------------------------
(* The end of the update.                                                  *)

\* a pool but for its lock points
Relocked(mp, locks, m) ==
  /\ m \in Pool /\ m.tx = mp.tx /\ m.parents = mp.parents /\ m.children = mp.children
  /\ m.ancestors = mp.ancestors /\ m.descendants = mp.descendants /\ m.locks = locks

\* the lock points removeForReorg leaves t with
NewLocks(mp, t) ==
  IF /\ t \in mp.tx /\ ~ TestLockPointValidity(mp.locks[t])
     /\ \A o \in Spends[t] : HaveCoin(mp, o)
  THEN LockPoints(mp, t) ELSE mp.locks[t]

\* what is ready stays, with the lock points it was found ready by
Reorganized(mp, m) ==
  /\ Sound(m, {}, {}) /\ m.tx \subseteq mp.tx
  /\ \A t \in m.tx : \A u \in mp.tx : Depends(t, u) => u \in m.tx
  /\ \A t \in m.tx : ~ NotReady(mp, t) /\ Timely(t, m.locks[t])

-----------------------------------------------------------------------------
(* The stake.                                                              *)

\* the block that GetTransaction finds is the one that holds t
HeldBy(t, a) == a \in Path[tip] /\ t \in Range(Vtx[a]) /\ GetTransaction(mempool, t) = a

=============================================================================
