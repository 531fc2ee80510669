-------------------------- MODULE CoinsCacheProofs --------------------------
(***************************************************************************)
(* The caches of CoinsCache, for any outpoints, coins and blocks: they stay *)
(* true to the layers under them, never throw, and implement UtxoSet.      *)
(***************************************************************************)
EXTENDS CoinsCache, TLAPS

\* leaves are tried with Zenon unless they ask for SMT
USE Zenon

Coin == Coins \cup {SPENT}
Slot == Entry \cup {ABSENT}

-----------------------------------------------------------------------------
(* One entry e over a parent that holds coin b.                             *)

\* FetchCoin changes neither what a cache answers nor its truth, and leaves no
\* entry only when there is no coin.
LEMMA FetchedTrue ==
  ASSUME NEW e \in Slot, NEW b \in Coin, True(e, b)
  PROVE  /\ Fetched(e, b) \in Slot
         /\ True(Fetched(e, b), b)
         /\ CoinOf(Fetched(e, b), b) = CoinOf(e, b)
         /\ Fetched(e, b) = ABSENT => b = SPENT
  BY CoinsAssumption, SMT DEF Slot, Coin, Entry, DIRTY, FRESH, True, Fetched, Clean, CoinOf

\* AddCoin keeps an entry true when overwrite is set or there was no coin.
LEMMA AddedTrue ==
  ASSUME NEW e \in Slot, NEW b \in Coin, NEW c \in Coins, NEW w \in BOOLEAN,
         True(e, b), ~ w => CoinOf(e, b) = SPENT
  PROVE  /\ Added(e, c, w) \in Slot
         /\ True(Added(e, c, w), b)
         /\ CoinOf(Added(e, c, w), b) = c
  BY CoinsAssumption, SMT DEF Slot, Coin, Entry, DIRTY, FRESH, True, Added, Clean, CoinOf

\* SpendCoin, after FetchCoin, removes the coin.
LEMMA SpentTrue ==
  ASSUME NEW e \in Slot, NEW b \in Coin, True(e, b), e = ABSENT => b = SPENT
  PROVE  /\ Spent(e) \in Slot
         /\ True(Spent(e), b)
         /\ CoinOf(Spent(e), b) = SPENT
  BY CoinsAssumption, SMT DEF Slot, Coin, Entry, DIRTY, FRESH, True, Spent, CoinOf

\* BatchWrite of an entry c of the child over the parent's entry p: nothing is
\* thrown, the result is true to the grandparent's coin b, and it answers what
\* the child answered.
LEMMA MergedTrue ==
  ASSUME NEW c \in Slot, NEW p \in Slot, NEW b \in Coin,
         True(p, b), True(c, CoinOf(p, b))
  PROVE  /\ ~ MergeThrows(c, p)
         /\ Merged(c, p) \in Slot
         /\ True(Merged(c, p), b)
         /\ CoinOf(Merged(c, p), b) = CoinOf(c, CoinOf(p, b))
  <1>1. CASE c = ABSENT \/ (c # ABSENT /\ DIRTY \notin c.flags)
    BY <1>1, CoinsAssumption DEF Slot, Coin, Entry, DIRTY, FRESH, True, Merged, MergeThrows, CoinOf
  <1>2. CASE c # ABSENT /\ DIRTY \in c.flags /\ p = ABSENT
    BY <1>2, CoinsAssumption DEF Slot, Coin, Entry, DIRTY, FRESH, True, Merged, MergeThrows, CoinOf
  <1>3. CASE c # ABSENT /\ DIRTY \in c.flags /\ p # ABSENT
    <2>1. Merged(c, p) = IF FRESH \in p.flags /\ c.coin = SPENT THEN ABSENT
                         ELSE [coin |-> c.coin, flags |-> p.flags \cup {DIRTY}]
      BY <1>3 DEF Merged
    <2>2. QED
      BY <1>3, <2>1, CoinsAssumption, SMT DEF Slot, Coin, Entry, DIRTY, FRESH, True, MergeThrows, CoinOf
  <1>4. QED
    BY <1>1, <1>2, <1>3

\* The database ends up with what the cache over it answered.
LEMMA StoredRight ==
  ASSUME NEW e \in Slot, NEW b \in Coin, True(e, b)
  PROVE  Stored(e, b) = CoinOf(e, b) /\ Stored(e, b) \in Coin
  BY DEF Slot, Coin, Entry, DIRTY, FRESH, True, Stored, CoinOf

\* Uncache drops only what the parent still knows.
LEMMA UncachedTrue ==
  ASSUME NEW e \in Slot, NEW b \in Coin, True(e, b)
  PROVE  /\ Uncached(e) \in Slot
         /\ True(Uncached(e), b)
         /\ CoinOf(Uncached(e), b) = CoinOf(e, b)
  BY DEF Slot, Coin, Entry, DIRTY, FRESH, True, Uncached, CoinOf

-----------------------------------------------------------------------------
(* The inductive invariant.                                                 *)

Inv == TypeOK /\ Coherent

\* what TypeOK and Coherent say of one outpoint
LEMMA SlotFacts ==
  ASSUME Inv, NEW o \in Outpoints
  PROVE  /\ db[o] \in Coin /\ tip[o] \in Slot /\ view[o] \in Slot
         /\ TipCoin(o) \in Coin /\ ViewCoin(o) \in Coin
         /\ True(tip[o], db[o]) /\ True(view[o], TipCoin(o))
  BY DEF Inv, TypeOK, Coherent, Coin, Slot, Entry, TipCoin, ViewCoin, CoinOf

\* A step that leaves every coin of the tip where it was, and replaces the view's
\* entries by true ones, keeps the invariant.
LEMMA SlotsSuffice ==
  ASSUME Inv,
         db' \in [Outpoints -> Coin], dbBest' \in Hashes, tipBest' \in Hashes,
         viewBest' \in Hashes \cup {NULL}, open' \in BOOLEAN,
         tip' \in [Outpoints -> Slot], view' \in [Outpoints -> Slot],
         \A o \in Outpoints : True(tip'[o], db'[o]) /\ True(view'[o], CoinOf(tip'[o], db'[o])),
         ~ open' => view' = Nothing /\ viewBest' = NULL
  PROVE  Inv'
  BY DEF Inv, TypeOK, Coherent, Coin, Slot, TipCoin

\* Fetching outpoint o in the tip changes no coin of the tip.
LEMMA TipFetch ==
  ASSUME Inv, NEW o \in Outpoints
  PROVE  LET t == [tip EXCEPT ![o] = Fetched(@, db[o])]
         IN /\ t \in [Outpoints -> Slot]
            /\ \A x \in Outpoints : True(t[x], db[x]) /\ CoinOf(t[x], db[x]) = TipCoin(x)
  <1>1. tip \in [Outpoints -> Slot]
    BY DEF Inv, TypeOK, Slot
  <1>2. \A x \in Outpoints : True(tip[x], db[x]) /\ CoinOf(tip[x], db[x]) = TipCoin(x)
    BY SlotFacts DEF TipCoin
  <1>3. /\ Fetched(tip[o], db[o]) \in Slot
        /\ True(Fetched(tip[o], db[o]), db[o])
        /\ CoinOf(Fetched(tip[o], db[o]), db[o]) = TipCoin(o)
    BY SlotFacts, FetchedTrue DEF TipCoin
  <1>4. QED
    BY <1>1, <1>2, <1>3

\* The same for the fetch a view makes through the tip.
LEMMA ViewFetch ==
  ASSUME Inv, NEW o \in Outpoints
  PROVE  /\ TipAfterFetch(o) \in [Outpoints -> Slot]
         /\ \A x \in Outpoints : /\ True(TipAfterFetch(o)[x], db[x])
                                  /\ CoinOf(TipAfterFetch(o)[x], db[x]) = TipCoin(x)
         /\ ViewEntry(o) \in Slot
         /\ True(ViewEntry(o), TipCoin(o))
         /\ CoinOf(ViewEntry(o), TipCoin(o)) = ViewCoin(o)
         /\ ViewEntry(o) = ABSENT => TipCoin(o) = SPENT
  <1>1. /\ TipAfterFetch(o) \in [Outpoints -> Slot]
        /\ \A x \in Outpoints : /\ True(TipAfterFetch(o)[x], db[x])
                                 /\ CoinOf(TipAfterFetch(o)[x], db[x]) = TipCoin(x)
    <2>1. CASE view[o] = ABSENT
      BY <2>1, TipFetch DEF TipAfterFetch
    <2>2. CASE view[o] # ABSENT
      BY <2>2, SlotFacts DEF TipAfterFetch, Inv, TypeOK, Slot, TipCoin
    <2>3. QED
      BY <2>1, <2>2
  <1>2. /\ ViewEntry(o) \in Slot
        /\ True(ViewEntry(o), TipCoin(o))
        /\ CoinOf(ViewEntry(o), TipCoin(o)) = ViewCoin(o)
        /\ ViewEntry(o) = ABSENT => TipCoin(o) = SPENT
    BY SlotFacts, FetchedTrue DEF ViewEntry, ViewCoin
  <1>3. QED
    BY <1>1, <1>2

\* A step inside an open view that keeps the tip's coins and gives outpoint o the
\* true entry e keeps the invariant, and the view answers e's coin for o.
LEMMA ViewStep ==
  ASSUME Inv, open, open' = open, NEW o \in Outpoints, NEW e \in Slot,
         True(e, TipCoin(o)),
         tip' \in [Outpoints -> Slot],
         \A x \in Outpoints : True(tip'[x], db[x]) /\ CoinOf(tip'[x], db[x]) = TipCoin(x),
         view' = [view EXCEPT ![o] = e],
         UNCHANGED <<db, dbBest, tipBest, viewBest>>
  PROVE  /\ Inv'
         /\ \A x \in Outpoints : TipCoin(x)' = TipCoin(x)
         /\ \A x \in Outpoints :
              ViewCoin(x)' = IF x = o THEN CoinOf(e, TipCoin(o)) ELSE ViewCoin(x)
  <1>1. view \in [Outpoints -> Slot]
    BY DEF Inv, TypeOK, Slot
  <1>2. \A x \in Outpoints : TipCoin(x)' = TipCoin(x)
    BY DEF TipCoin
  <1>3. view' \in [Outpoints -> Slot]
    BY <1>1
  <1>4. \A x \in Outpoints : True(view'[x], TipCoin(x))
    BY <1>1, SlotFacts
  <1>5. Inv'
    <2>1. /\ db' \in [Outpoints -> Coin] /\ dbBest' \in Hashes /\ tipBest' \in Hashes
          /\ viewBest' \in Hashes \cup {NULL} /\ open' \in BOOLEAN
      BY DEF Inv, TypeOK, Coin
    <2>2. QED
      BY <1>3, <1>4, <2>1, SlotsSuffice
  <1>6. \A x \in Outpoints :
          ViewCoin(x)' = IF x = o THEN CoinOf(e, TipCoin(o)) ELSE ViewCoin(x)
    BY <1>1, <1>2 DEF ViewCoin
  <1>7. QED
    BY <1>2, <1>5, <1>6

-----------------------------------------------------------------------------
(* One lemma per action: the invariant, and what the layers answer after it. *)

Same(o) == TipCoin(o)' = TipCoin(o) /\ ViewCoin(o)' = ViewCoin(o)

LEMMA ReadViewStep ==
  ASSUME Inv, NEW o \in Outpoints, ReadView(o)
  PROVE  Inv' /\ \A x \in Outpoints : Same(x)
  <1>1. /\ open /\ open' = open /\ tip' = TipAfterFetch(o)
        /\ view' = [view EXCEPT ![o] = ViewEntry(o)]
        /\ UNCHANGED <<db, dbBest, tipBest, viewBest>>
    BY DEF ReadView
  <1>2. /\ ViewEntry(o) \in Slot /\ True(ViewEntry(o), TipCoin(o))
        /\ CoinOf(ViewEntry(o), TipCoin(o)) = ViewCoin(o)
        /\ tip' \in [Outpoints -> Slot]
        /\ \A x \in Outpoints : True(tip'[x], db[x]) /\ CoinOf(tip'[x], db[x]) = TipCoin(x)
    BY <1>1, ViewFetch
  <1>3. /\ Inv' /\ \A x \in Outpoints : TipCoin(x)' = TipCoin(x)
        /\ \A x \in Outpoints :
             ViewCoin(x)' = IF x = o THEN CoinOf(ViewEntry(o), TipCoin(o)) ELSE ViewCoin(x)
    BY <1>1, <1>2, ViewStep
  <1>4. QED
    BY <1>2, <1>3 DEF Same

LEMMA AddOutputStep ==
  ASSUME Inv, NEW o \in Outpoints, NEW c \in Coins, NEW w \in BOOLEAN, AddOutput(o, c, w)
  PROVE  /\ Inv' /\ \A x \in Outpoints : TipCoin(x)' = TipCoin(x)
         /\ \A x \in Outpoints : ViewCoin(x)' = IF x = o THEN c ELSE ViewCoin(x)
  <1>1. /\ Added(view[o], c, w) \in Slot
        /\ True(Added(view[o], c, w), TipCoin(o))
        /\ CoinOf(Added(view[o], c, w), TipCoin(o)) = c
    BY SlotFacts, AddedTrue DEF AddOutput, ViewCoin
  <1>2. /\ tip' \in [Outpoints -> Slot]
        /\ \A x \in Outpoints : True(tip'[x], db[x]) /\ CoinOf(tip'[x], db[x]) = TipCoin(x)
    BY SlotFacts DEF AddOutput, Inv, TypeOK, Slot, TipCoin
  <1>3. QED
    BY <1>1, <1>2, ViewStep DEF AddOutput

LEMMA SpendCoinStep ==
  ASSUME Inv, NEW o \in Outpoints, SpendCoin(o)
  PROVE  /\ Inv' /\ \A x \in Outpoints : TipCoin(x)' = TipCoin(x)
         /\ \A x \in Outpoints : ViewCoin(x)' = IF x = o THEN SPENT ELSE ViewCoin(x)
  <1> DEFINE e == Spent(ViewEntry(o))
  <1>1. e \in Slot /\ True(e, TipCoin(o)) /\ CoinOf(e, TipCoin(o)) = SPENT
    <2>1. /\ ViewEntry(o) \in Slot /\ TipCoin(o) \in Coin
          /\ True(ViewEntry(o), TipCoin(o)) /\ (ViewEntry(o) = ABSENT => TipCoin(o) = SPENT)
      BY SlotFacts, ViewFetch
    <2>2. QED
      BY <2>1, SpentTrue
  <1>2. /\ view' = [view EXCEPT ![o] = e] /\ tip' = TipAfterFetch(o) /\ open
        /\ open' = open /\ UNCHANGED <<db, dbBest, tipBest, viewBest>>
    BY DEF SpendCoin
  <1>3. /\ tip' \in [Outpoints -> Slot]
        /\ \A x \in Outpoints : True(tip'[x], db[x]) /\ CoinOf(tip'[x], db[x]) = TipCoin(x)
    BY <1>2, ViewFetch
  <1> HIDE DEF e
  <1>4. /\ Inv' /\ \A x \in Outpoints : TipCoin(x)' = TipCoin(x)
        /\ \A x \in Outpoints :
             ViewCoin(x)' = IF x = o THEN CoinOf(e, TipCoin(o)) ELSE ViewCoin(x)
    BY <1>1, <1>2, <1>3, ViewStep
  <1>5. QED
    BY <1>1, <1>4

LEMMA ApplyTxInUndoStep ==
  ASSUME Inv, NEW o \in Outpoints, NEW c \in Coins, ApplyTxInUndo(o, c)
  PROVE  /\ Inv' /\ \A x \in Outpoints : TipCoin(x)' = TipCoin(x)
         /\ \A x \in Outpoints : ViewCoin(x)' = IF x = o THEN c ELSE ViewCoin(x)
  <1> DEFINE w == ViewCoin(o) # SPENT
             e == Added(ViewEntry(o), c, w)
  <1>1. e \in Slot /\ True(e, TipCoin(o)) /\ CoinOf(e, TipCoin(o)) = c
    <2>1. w \in BOOLEAN /\ (~ w => CoinOf(ViewEntry(o), TipCoin(o)) = SPENT)
      BY ViewFetch
    <2>2. /\ ViewEntry(o) \in Slot /\ TipCoin(o) \in Coin
          /\ True(ViewEntry(o), TipCoin(o))
      BY SlotFacts, ViewFetch
    <2> HIDE DEF w
    <2>3. QED
      BY <2>1, <2>2, AddedTrue
  <1>2. view' = [view EXCEPT ![o] = e]
    BY DEF ApplyTxInUndo
  <1> HIDE DEF e
  <1>3. /\ open /\ open' = open /\ tip' = TipAfterFetch(o)
        /\ UNCHANGED <<db, dbBest, tipBest, viewBest>>
    BY DEF ApplyTxInUndo
  <1>4. /\ tip' \in [Outpoints -> Slot]
        /\ \A x \in Outpoints : True(tip'[x], db[x]) /\ CoinOf(tip'[x], db[x]) = TipCoin(x)
    BY <1>3, ViewFetch
  <1>5. /\ Inv' /\ \A x \in Outpoints : TipCoin(x)' = TipCoin(x)
        /\ \A x \in Outpoints :
             ViewCoin(x)' = IF x = o THEN CoinOf(e, TipCoin(o)) ELSE ViewCoin(x)
    BY <1>1, <1>2, <1>3, <1>4, ViewStep
  <1>6. QED
    BY <1>1, <1>5

\* A step that only exchanges entries of the tip for equivalent ones.
LEMMA TipStep ==
  ASSUME Inv, NEW t \in [Outpoints -> Slot],
         \A x \in Outpoints : True(t[x], db[x]) /\ CoinOf(t[x], db[x]) = TipCoin(x),
         tip' = t, UNCHANGED <<db, dbBest, tipBest, view, viewBest, open>>
  PROVE  Inv' /\ \A x \in Outpoints : Same(x)
  <1>1. \A x \in Outpoints : Same(x)
    BY DEF Same, TipCoin, ViewCoin
  <1>2. /\ db' \in [Outpoints -> Coin] /\ dbBest' \in Hashes /\ tipBest' \in Hashes
        /\ viewBest' \in Hashes \cup {NULL} /\ open' \in BOOLEAN
        /\ view' \in [Outpoints -> Slot]
        /\ ~ open' => view' = Nothing /\ viewBest' = NULL
    BY DEF Inv, TypeOK, Coin, Slot, Coherent
  <1>3. \A x \in Outpoints : True(tip'[x], db'[x]) /\ True(view'[x], CoinOf(tip'[x], db'[x]))
    BY SlotFacts
  <1>4. QED
    BY <1>1, <1>2, <1>3, SlotsSuffice

LEMMA ReadTipStep ==
  ASSUME Inv, NEW o \in Outpoints, ReadTip(o)
  PROVE  Inv' /\ \A x \in Outpoints : Same(x)
  BY TipFetch, TipStep DEF ReadTip

LEMMA UncacheStep ==
  ASSUME Inv, NEW o \in Outpoints, Uncache(o)
  PROVE  Inv' /\ \A x \in Outpoints : Same(x)
  <1> DEFINE t == [tip EXCEPT ![o] = Uncached(@)]
  <1>1. /\ Uncached(tip[o]) \in Slot
        /\ True(Uncached(tip[o]), db[o])
        /\ CoinOf(Uncached(tip[o]), db[o]) = TipCoin(o)
    BY SlotFacts, UncachedTrue DEF TipCoin
  <1>2. /\ t \in [Outpoints -> Slot]
        /\ \A x \in Outpoints : True(t[x], db[x]) /\ CoinOf(t[x], db[x]) = TipCoin(x)
    <2>1. tip \in [Outpoints -> Slot]
      BY DEF Inv, TypeOK, Slot
    <2>2. \A x \in Outpoints : True(tip[x], db[x]) /\ CoinOf(tip[x], db[x]) = TipCoin(x)
      BY SlotFacts DEF TipCoin
    <2>3. QED
      BY <1>1, <2>1, <2>2
  <1>3. QED
    BY <1>2, TipStep DEF Uncache

\* An empty cache answers what is under it.
LEMMA NothingTrue ==
  /\ Nothing \in [Outpoints -> Slot]
  /\ \A x \in Outpoints : /\ Nothing[x] = ABSENT
                           /\ \A b \in Coin : True(Nothing[x], b) /\ CoinOf(Nothing[x], b) = b
  BY DEF Nothing, Slot, True, CoinOf

LEMMA FlushViewStep ==
  ASSUME Inv, FlushView
  PROVE  /\ Inv'
         /\ \A x \in Outpoints : TipCoin(x)' = ViewCoin(x) /\ ViewCoin(x)' = ViewCoin(x)
  <1>1. \A x \in Outpoints : /\ tip'[x] = Merged(view[x], tip[x])
                             /\ tip'[x] \in Slot
                             /\ True(tip'[x], db[x])
                             /\ CoinOf(tip'[x], db[x]) = ViewCoin(x)
    BY SlotFacts, MergedTrue DEF FlushView, TipCoin, ViewCoin
  <1>2. \A x \in Outpoints : TipCoin(x)' = ViewCoin(x) /\ ViewCoin(x)' = ViewCoin(x)
    BY <1>1, NothingTrue, SlotFacts, ZenonT(30) DEF FlushView, TipCoin, ViewCoin
  <1>3. Inv'
    <2>1. /\ db' \in [Outpoints -> Coin] /\ dbBest' \in Hashes /\ tipBest' \in Hashes
          /\ viewBest' \in Hashes \cup {NULL} /\ open' \in BOOLEAN
      BY DEF FlushView, Inv, TypeOK, Coin
    <2>2. tip' \in [Outpoints -> Slot]
      BY <1>1 DEF FlushView
    <2>3. view' \in [Outpoints -> Slot] /\ view' = Nothing /\ viewBest' = NULL
      BY NothingTrue DEF FlushView
    <2>4. \A x \in Outpoints : True(tip'[x], db'[x]) /\ True(view'[x], CoinOf(tip'[x], db'[x]))
      BY <1>1, <2>3, NothingTrue, SlotFacts DEF FlushView
    <2>5. QED
      BY <2>1, <2>2, <2>3, <2>4, SlotsSuffice
  <1>4. QED
    BY <1>2, <1>3

LEMMA DropViewStep ==
  ASSUME Inv, DropView
  PROVE  /\ Inv'
         /\ \A x \in Outpoints : TipCoin(x)' = TipCoin(x) /\ ViewCoin(x)' = TipCoin(x)
  <1>1. \A x \in Outpoints : TipCoin(x)' = TipCoin(x) /\ ViewCoin(x)' = TipCoin(x)
    BY NothingTrue, SlotFacts DEF DropView, TipCoin, ViewCoin
  <1>2. /\ db' \in [Outpoints -> Coin] /\ dbBest' \in Hashes /\ tipBest' \in Hashes
        /\ viewBest' \in Hashes \cup {NULL} /\ open' \in BOOLEAN
        /\ tip' \in [Outpoints -> Slot] /\ view' \in [Outpoints -> Slot]
        /\ view' = Nothing /\ viewBest' = NULL
    BY NothingTrue DEF DropView, Inv, TypeOK, Coin, Slot
  <1>3. \A x \in Outpoints : True(tip'[x], db'[x]) /\ True(view'[x], CoinOf(tip'[x], db'[x]))
    BY <1>2, NothingTrue, SlotFacts DEF DropView, TipCoin
  <1>4. QED
    BY <1>1, <1>2, <1>3, SlotsSuffice

LEMMA FlushTipStep ==
  ASSUME Inv, FlushTip
  PROVE  Inv' /\ \A x \in Outpoints : Same(x) /\ db'[x] = TipCoin(x)
  <1>1. \A x \in Outpoints : db'[x] = TipCoin(x) /\ db'[x] \in Coin
    BY SlotFacts, StoredRight DEF FlushTip, TipCoin
  <1>2. view = Nothing /\ view' = Nothing /\ viewBest' = NULL /\ tip' = Nothing
    BY DEF FlushTip, Inv, Coherent
  <1>3. \A x \in Outpoints : Same(x)
    BY <1>1, <1>2, NothingTrue, SlotFacts DEF Same, TipCoin, ViewCoin
  <1>4. /\ db' \in [Outpoints -> Coin] /\ dbBest' \in Hashes /\ tipBest' \in Hashes
        /\ viewBest' \in Hashes \cup {NULL} /\ open' \in BOOLEAN
        /\ tip' \in [Outpoints -> Slot] /\ view' \in [Outpoints -> Slot]
    BY <1>1, <1>2, NothingTrue DEF FlushTip, Inv, TypeOK, Coin
  <1>5. \A x \in Outpoints : True(tip'[x], db'[x]) /\ True(view'[x], CoinOf(tip'[x], db'[x]))
    BY <1>1, <1>2, NothingTrue
  <1>6. QED
    BY <1>1, <1>2, <1>3, <1>4, <1>5, SlotsSuffice

-----------------------------------------------------------------------------
(* The theorems.                                                            *)

LEMMA InitInv == Init => Inv
  <1> SUFFICES ASSUME Init PROVE Inv
    OBVIOUS
  <1>1. TypeOK
    BY NothingTrue DEF Init, TypeOK, Slot
  <1>2. Coherent
    BY NothingTrue DEF Init, Coherent, Coin, TipCoin, CoinOf, True
  <1>3. QED
    BY <1>1, <1>2 DEF Inv

LEMMA NextInv == Inv /\ [Next]_vars => Inv'
  <1> SUFFICES ASSUME Inv, [Next]_vars PROVE Inv'
    OBVIOUS
  <1>1. CASE OpenView
    BY <1>1 DEF OpenView, Inv, TypeOK, Coherent, TipCoin
  <1>2. CASE FlushView
    BY <1>2, FlushViewStep
  <1>3. CASE DropView
    BY <1>3, DropViewStep
  <1>4. CASE FlushTip
    BY <1>4, FlushTipStep
  <1>5. ASSUME NEW o \in Outpoints, ReadView(o) \/ ReadTip(o) \/ Uncache(o) \/ SpendCoin(o)
        PROVE  Inv'
    BY <1>5, ReadViewStep, ReadTipStep, UncacheStep, SpendCoinStep
  <1>6. ASSUME NEW o \in Outpoints, NEW c \in Coins, ApplyTxInUndo(o, c)
        PROVE  Inv'
    BY <1>6, ApplyTxInUndoStep
  <1>7. ASSUME NEW o \in Outpoints, NEW c \in Coins, NEW w \in BOOLEAN, AddOutput(o, c, w)
        PROVE  Inv'
    BY <1>7, AddOutputStep
  <1>8. ASSUME NEW h \in Hashes, SetBestBlock(h)
        PROVE  Inv'
    BY <1>8 DEF SetBestBlock, Inv, TypeOK, Coherent, TipCoin
  <1>9. CASE UNCHANGED vars
    BY <1>9 DEF vars, Inv, TypeOK, Coherent, TipCoin
  <1>10. QED
    BY <1>1, <1>2, <1>3, <1>4, <1>5, <1>6, <1>7, <1>8, <1>9 DEF Next

LEMMA InvAlways == Spec => []Inv
  BY InitInv, NextInv, PTL DEF Spec

\* The layers keep their types: in particular a committed set of coins always
\* carries a block hash (BatchWrite of the database asserts that it is not null).
THEOREM TypeCorrect == Spec => []TypeOK
  <1>1. Inv => TypeOK
    BY DEF Inv
  <1>2. QED
    BY <1>1, InvAlways, PTL

\* Every entry of both caches is true to the layer under it: FRESH and DIRTY mean
\* what coins.h says, for any number of coins and any sequence of operations.
THEOREM CachesCoherent == Spec => []Coherent
  <1>1. Inv => Coherent
    BY DEF Inv
  <1>2. QED
    BY <1>1, InvAlways, PTL

\* AddCoin and BatchWrite never throw their logic_error.
THEOREM CachesNeverThrow == Spec => []NeverThrows
  <1>1. Inv => NeverThrows
    <2> SUFFICES ASSUME Inv, NEW o \in Outpoints
                 PROVE  /\ ~ MergeThrows(view[o], tip[o])
                        /\ open /\ ViewCoin(o) = SPENT => ~ AddThrows(view[o], FALSE)
      BY DEF NeverThrows
    <2>1. ~ MergeThrows(view[o], tip[o])
      BY SlotFacts, MergedTrue DEF TipCoin
    <2>2. ViewCoin(o) = SPENT => ~ AddThrows(view[o], FALSE)
      BY DEF ViewCoin, CoinOf, AddThrows
    <2>3. QED
      BY <2>1, <2>2
  <1>2. QED
    BY <1>1, InvAlways, PTL

-----------------------------------------------------------------------------
(* The refinement.                                                          *)

\* the variables of UtxoSet under the mapping
Utxo == [o \in Outpoints |-> TipCoin(o)]
Work == [o \in Outpoints |-> ViewCoin(o)]
WorkBest == IF viewBest = NULL THEN tipBest ELSE viewBest

LEMMA InitRefines == Init => U!Init
  <1> SUFFICES ASSUME Init PROVE U!Init
    OBVIOUS
  <1>1. \A o \in Outpoints : TipCoin(o) = db[o] /\ ViewCoin(o) = db[o]
    BY NothingTrue DEF Init, TipCoin, ViewCoin, CoinOf
  <1>2. db \in [Outpoints -> Coins \cup {SPENT}]
    BY DEF Init
  <1>3. Utxo = db /\ Work = db
    BY <1>1, <1>2 DEF Utxo, Work
  <1>4. QED
    BY <1>2, <1>3 DEF Init, U!Init, Utxo, Work

\* the coins after a step, as functions
LEMMA SameFunctions ==
  ASSUME \A x \in Outpoints : Same(x)
  PROVE  Utxo' = Utxo /\ Work' = Work
  BY DEF Utxo, Work, Same

LEMMA PutFunctions ==
  ASSUME NEW o \in Outpoints, NEW c,
         \A x \in Outpoints : TipCoin(x)' = TipCoin(x),
         \A x \in Outpoints : ViewCoin(x)' = IF x = o THEN c ELSE ViewCoin(x)
  PROVE  Utxo' = Utxo /\ Work' = [Work EXCEPT ![o] = c]
  BY DEF Utxo, Work

LEMMA NextRefines == Inv /\ Inv' /\ [Next]_vars => [U!Next]_(U!vars)
  <1> SUFFICES ASSUME Inv, [Next]_vars PROVE U!Next \/ UNCHANGED U!vars
    OBVIOUS
  <1>1. CASE OpenView
    <2>1. Utxo' = Utxo /\ Work' = Work
      BY <1>1 DEF OpenView, Utxo, Work, TipCoin, ViewCoin
    <2>2. U!Begin
      BY <1>1, <2>1 DEF OpenView, U!Begin, Utxo, Work
    <2>3. QED
      BY <2>2 DEF U!Next
  <1>2. CASE FlushView
    <2>1. Utxo' = Work /\ Work' = Work
      BY <1>2, FlushViewStep DEF Utxo, Work
    <2>2. tipBest' = WorkBest /\ WorkBest' = WorkBest
      BY <1>2 DEF FlushView, WorkBest
    <2>3. U!Commit
      BY <1>2, <2>1, <2>2 DEF FlushView, U!Commit, Utxo, Work, WorkBest
    <2>4. QED
      BY <2>3 DEF U!Next
  <1>3. CASE DropView
    <2>1. Utxo' = Utxo /\ Work' = Utxo
      BY <1>3, DropViewStep DEF Utxo, Work
    <2>2. WorkBest' = tipBest
      BY <1>3 DEF DropView, WorkBest
    <2>3. U!Abandon
      BY <1>3, <2>1, <2>2 DEF DropView, U!Abandon, Utxo, Work, WorkBest
    <2>4. QED
      BY <2>3 DEF U!Next
  <1>4. CASE FlushTip
    <2>1. Utxo' = Utxo /\ Work' = Work /\ db' = Utxo
      BY <1>4, FlushTipStep, SameFunctions DEF FlushTip, Utxo
    <2>2. U!Save
      BY <1>4, <2>1 DEF FlushTip, U!Save, Utxo, Work
    <2>3. QED
      BY <2>2 DEF U!Next
  <1>5. ASSUME NEW o \in Outpoints, ReadView(o) \/ ReadTip(o) \/ Uncache(o)
        PROVE  UNCHANGED U!vars
    <2>1. Utxo' = Utxo /\ Work' = Work
      BY <1>5, ReadViewStep, ReadTipStep, UncacheStep, SameFunctions
    <2>2. QED
      BY <1>5, <2>1 DEF ReadView, ReadTip, Uncache, U!vars, Utxo, Work
  <1>6. ASSUME NEW o \in Outpoints, SpendCoin(o)
        PROVE  U!Next
    <2>1. Utxo' = Utxo /\ Work' = [Work EXCEPT ![o] = SPENT]
      BY <1>6, SpendCoinStep, PutFunctions
    <2>2. U!Put(o, SPENT)
      BY <1>6, <2>1 DEF SpendCoin, U!Put, Utxo, Work
    <2>3. QED
      BY <2>2 DEF U!Next
  <1>7. ASSUME NEW o \in Outpoints, NEW c \in Coins, ApplyTxInUndo(o, c)
        PROVE  U!Next
    <2>1. Utxo' = Utxo /\ Work' = [Work EXCEPT ![o] = c]
      BY <1>7, ApplyTxInUndoStep, PutFunctions
    <2>2. U!Put(o, c)
      BY <1>7, <2>1 DEF ApplyTxInUndo, U!Put, Utxo, Work
    <2>3. QED
      BY <2>2 DEF U!Next
  <1>8. ASSUME NEW o \in Outpoints, NEW c \in Coins, NEW w \in BOOLEAN, AddOutput(o, c, w)
        PROVE  U!Next
    <2>1. Utxo' = Utxo /\ Work' = [Work EXCEPT ![o] = c]
      BY <1>8, AddOutputStep, PutFunctions, SMT
    <2>2. U!Put(o, c)
      BY <1>8, <2>1 DEF AddOutput, U!Put, Utxo, Work
    <2>3. QED
      BY <2>2 DEF U!Next
  <1>9. ASSUME NEW h \in Hashes, SetBestBlock(h)
        PROVE  U!Next
    <2>1. Utxo' = Utxo /\ Work' = Work
      BY <1>9 DEF SetBestBlock, Utxo, Work, TipCoin, ViewCoin
    <2>2. WorkBest' = h
      BY <1>9, CoinsAssumption DEF SetBestBlock, WorkBest
    <2>3. U!Label(h)
      BY <1>9, <2>1, <2>2 DEF SetBestBlock, U!Label, Utxo, Work, WorkBest
    <2>4. QED
      BY <2>3 DEF U!Next
  <1>10. CASE UNCHANGED vars
    BY <1>10 DEF vars, U!vars, TipCoin, ViewCoin
  <1>11. QED
    BY <1>1, <1>2, <1>3, <1>4, <1>5, <1>6, <1>7, <1>8, <1>9, <1>10 DEF Next

\* The caches over the database implement one set of coins that a block changes
\* all at once or not at all: fetching, evicting and flushing are invisible, and
\* the database always holds a committed set under that set's own block hash.
THEOREM CachesRefineUtxoSet == Spec => OneUtxoSet
  <1>1. Init => U!Init
    BY InitRefines
  <1>2. Inv /\ Inv' /\ [Next]_vars => [U!Next]_(U!vars)
    BY NextRefines
  <1>3. QED
    BY <1>1, <1>2, InvAlways, PTL DEF Spec, OneUtxoSet, U!Spec

=============================================================================
