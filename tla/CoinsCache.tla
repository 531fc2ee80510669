------------------------------ MODULE CoinsCache ------------------------------
(***************************************************************************)
(* The layered view of unspent coins (src/coins.cpp, src/txdb.cpp): a      *)
(* temporary CCoinsViewCache over pcoinsTip over the database, with the    *)
(* DIRTY and FRESH flags that let a layer avoid writes, and the callers    *)
(* that use it (UpdateCoins, ApplyTxInUndo, DisconnectBlock, ConnectTip,   *)
(* DisconnectTip, FlushStateToDisk, AcceptToMemoryPool, GetTransaction).   *)
(*                                                                         *)
(* cs_main is held while the temporary view exists, so the callers here    *)
(* interleave only between blocks; a reader of pcoinsTip inside a block    *)
(* (GetTransaction from CheckProofOfStake) is the exception.               *)
(***************************************************************************)
EXTENDS Integers

CONSTANTS
  Outpoints, Coins, SPENT, Hashes,
  ABSENT,   \* a cache has no entry for the outpoint
  NULL      \* a null block hash

\* CCoinsCacheEntry::Flags
DIRTY == "DIRTY"
FRESH == "FRESH"

\* a CCoinsCacheEntry; a cleared coin is SPENT
Entry == [coin : Coins \cup {SPENT}, flags : SUBSET {DIRTY, FRESH}]

ASSUME CoinsAssumption ==
  /\ SPENT \notin Coins /\ ABSENT \notin Entry /\ NULL \notin Hashes

VARIABLES
  db, dbBest,        \* CCoinsViewDB: coins, DB_BEST_BLOCK
  tip, tipBest,      \* pcoinsTip: cacheCoins, hashBlock
  view, viewBest,    \* the temporary cache of ConnectTip, DisconnectTip, ...
  open               \* it exists

vars == <<db, dbBest, tip, tipBest, view, viewBest, open>>

Nothing == [o \in Outpoints |-> ABSENT]

-----------------------------------------------------------------------------
(* One cache entry.                                                        *)

\* an entry fetched from the parent, or created empty by emplace
Clean(c) == [coin |-> c, flags |-> {}]

\* what a cache with entry e over a parent that has coin below answers
CoinOf(e, below) == IF e = ABSENT THEN below ELSE e.coin

\* CCoinsViewCache::FetchCoin on entry e
Fetched(e, below) == IF e = ABSENT /\ below # SPENT THEN Clean(below) ELSE e

\* mutant: FRESH although the entry is a spend the parent has not heard of
AddedAlwaysFresh(e, c, overwrite) ==
  LET old == IF e = ABSENT THEN Clean(SPENT) ELSE e
  IN [coin |-> c,
      flags |-> old.flags \cup {DIRTY} \cup (IF overwrite THEN {} ELSE {FRESH})]

\* CCoinsViewCache::AddCoin of a coin c that is not SPENT; it throws if
\* ~ overwrite and the entry holds a coin
Added(e, c, overwrite) ==
  LET old == IF e = ABSENT THEN Clean(SPENT) ELSE e
  IN [coin |-> c,
      flags |-> old.flags \cup {DIRTY} \cup
                (IF ~ overwrite /\ DIRTY \notin old.flags THEN {FRESH} ELSE {})]
AddThrows(e, overwrite) == ~ overwrite /\ e # ABSENT /\ e.coin # SPENT

\* CCoinsViewCache::SpendCoin after FetchCoin
Spent(e) ==
  IF e = ABSENT THEN ABSENT
  ELSE IF FRESH \in e.flags THEN ABSENT
  ELSE [coin |-> SPENT, flags |-> e.flags \cup {DIRTY}]

\* mutant: the child's FRESH flag is copied onto the parent's entry
MergedKeepsFresh(c, p) ==
  CASE c = ABSENT -> p
    [] c # ABSENT /\ DIRTY \notin c.flags -> p
    [] c # ABSENT /\ DIRTY \in c.flags /\ p = ABSENT ->
         IF FRESH \in c.flags /\ c.coin = SPENT THEN ABSENT ELSE c
    [] OTHER ->
         IF FRESH \in p.flags /\ c.coin = SPENT THEN ABSENT
         ELSE [coin |-> c.coin, flags |-> p.flags \cup c.flags]

\* CCoinsViewCache::BatchWrite of the child's entry c into the parent's p; it
\* throws if a FRESH entry meets a parent entry that holds a coin
Merged(c, p) ==
  CASE c = ABSENT -> p
    [] c # ABSENT /\ DIRTY \notin c.flags -> p
    [] c # ABSENT /\ DIRTY \in c.flags /\ p = ABSENT ->
         IF FRESH \in c.flags /\ c.coin = SPENT THEN ABSENT ELSE c
    [] OTHER ->
         IF FRESH \in p.flags /\ c.coin = SPENT THEN ABSENT
         ELSE [coin |-> c.coin, flags |-> p.flags \cup {DIRTY}]
MergeThrows(c, p) ==
  /\ c # ABSENT /\ {DIRTY, FRESH} \subseteq c.flags
  /\ p # ABSENT /\ p.coin # SPENT

\* CCoinsViewDB::BatchWrite of the entry c over the stored coin d
Stored(c, d) == IF c # ABSENT /\ DIRTY \in c.flags THEN c.coin ELSE d

\* CCoinsViewCache::Uncache
Uncached(e) == IF e # ABSENT /\ e.flags = {} THEN ABSENT ELSE e

-----------------------------------------------------------------------------
(* The layers.                                                             *)

TipCoin(o)  == CoinOf(tip[o], db[o])
ViewCoin(o) == CoinOf(view[o], TipCoin(o))

\* FetchCoin in the view asks the tip, which then keeps a copy of its own
TipAfterFetch(o) ==
  IF view[o] = ABSENT THEN [tip EXCEPT ![o] = Fetched(@, db[o])] ELSE tip
ViewEntry(o) == Fetched(view[o], TipCoin(o))

Init ==
  /\ db \in [Outpoints -> Coins \cup {SPENT}] /\ dbBest \in Hashes
  /\ tip = Nothing /\ tipBest = dbBest
  /\ view = Nothing /\ viewBest = NULL
  /\ open = FALSE

\* CCoinsViewCache view(pcoinsTip.get())
OpenView ==
  /\ ~ open /\ open' = TRUE
  /\ UNCHANGED <<db, dbBest, tip, tipBest, view, viewBest>>

\* AccessCoin, HaveCoin or GetCoin in the view
ReadView(o) ==
  /\ open
  /\ tip' = TipAfterFetch(o)
  /\ view' = [view EXCEPT ![o] = ViewEntry(o)]
  /\ UNCHANGED <<db, dbBest, tipBest, viewBest, open>>

\* AccessCoin in pcoinsTip: mempool acceptance, or GetTransaction inside a block
ReadTip(o) ==
  /\ tip' = [tip EXCEPT ![o] = Fetched(@, db[o])]
  /\ UNCHANGED <<db, dbBest, tipBest, view, viewBest, open>>

\* mempool acceptance gives up a coin it fetched, or the pool is trimmed and the
\* coins only the removed transactions spent go; never while a block is open
Uncache(o) ==
  /\ ~ open
  /\ tip' = [tip EXCEPT ![o] = Uncached(@)]
  /\ UNCHANGED <<db, dbBest, tipBest, view, viewBest, open>>

\* AddCoins for an output of a transaction: overwrite is "is a coinbase".  For
\* other transactions ConnectBlock has ruled out an unspent duplicate (BIP30).
AddOutput(o, c, coinbase) ==
  /\ open
  /\ ~ coinbase => ViewCoin(o) = SPENT
  /\ ~ AddThrows(view[o], coinbase)
  /\ view' = [view EXCEPT ![o] = Added(@, c, coinbase)]
  /\ UNCHANGED <<db, dbBest, tip, tipBest, viewBest, open>>

\* SpendCoin: UpdateCoins for an input, DisconnectBlock for an output
SpendCoin(o) ==
  /\ open
  /\ tip' = TipAfterFetch(o)
  /\ view' = [view EXCEPT ![o] = Spent(ViewEntry(o))]
  /\ UNCHANGED <<db, dbBest, tipBest, viewBest, open>>

\* mutant: the restored coin is taken for a new one
ApplyTxInUndoNew(o, c) ==
  /\ open
  /\ tip' = TipAfterFetch(o)
  /\ view' = [view EXCEPT ![o] = Added(ViewEntry(o), c, FALSE)]
  /\ UNCHANGED <<db, dbBest, tipBest, viewBest, open>>

\* ApplyTxInUndo: HaveCoin, then AddCoin with overwrite iff there was a coin
ApplyTxInUndo(o, c) ==
  /\ open
  /\ tip' = TipAfterFetch(o)
  /\ view' = [view EXCEPT ![o] = Added(ViewEntry(o), c, ViewCoin(o) # SPENT)]
  /\ UNCHANGED <<db, dbBest, tipBest, viewBest, open>>

\* SetBestBlock at the end of ConnectBlock and DisconnectBlock
SetBestBlock(h) ==
  /\ open /\ viewBest' = h
  /\ UNCHANGED <<db, dbBest, tip, tipBest, view, open>>

\* mutant: flushed although no block was set
FlushViewUnlabelled ==
  /\ open /\ open' = FALSE
  /\ \A o \in Outpoints : ~ MergeThrows(view[o], tip[o])
  /\ tip' = [o \in Outpoints |-> Merged(view[o], tip[o])]
  /\ tipBest' = viewBest
  /\ view' = Nothing /\ viewBest' = NULL
  /\ UNCHANGED <<db, dbBest>>

\* view.Flush() into pcoinsTip, and the view goes out of scope
FlushView ==
  /\ open /\ open' = FALSE
  /\ viewBest # NULL
  /\ \A o \in Outpoints : ~ MergeThrows(view[o], tip[o])
  /\ tip' = [o \in Outpoints |-> Merged(view[o], tip[o])]
  /\ tipBest' = viewBest
  /\ view' = Nothing /\ viewBest' = NULL
  /\ UNCHANGED <<db, dbBest>>

\* the view goes out of scope unflushed: the block was refused, or only tested
DropView ==
  /\ open /\ open' = FALSE
  /\ view' = Nothing /\ viewBest' = NULL
  /\ UNCHANGED <<db, dbBest, tip, tipBest>>

\* FlushStateToDisk: pcoinsTip->Flush() into the database, run to its end
FlushTip ==
  /\ ~ open
  /\ db' = [o \in Outpoints |-> Stored(tip[o], db[o])]
  /\ dbBest' = tipBest
  /\ tip' = Nothing
  /\ UNCHANGED <<tipBest, view, viewBest, open>>

Next ==
  \/ OpenView \/ FlushView \/ DropView \/ FlushTip
  \/ \E o \in Outpoints : ReadView(o) \/ ReadTip(o) \/ Uncache(o) \/ SpendCoin(o)
  \/ \E o \in Outpoints, c \in Coins :
       ApplyTxInUndo(o, c) \/ \E cb \in BOOLEAN : AddOutput(o, c, cb)
  \/ \E h \in Hashes : SetBestBlock(h)

Spec == Init /\ [][Next]_vars

-----------------------------------------------------------------------------
(* Properties.                                                             *)

\* The variables keep their types; a committed set of coins always has the hash
\* of its block (CCoinsViewDB::BatchWrite asserts that it is not null).
TypeOK ==
  /\ db \in [Outpoints -> Coins \cup {SPENT}] /\ dbBest \in Hashes
  /\ tip \in [Outpoints -> Entry \cup {ABSENT}] /\ tipBest \in Hashes
  /\ view \in [Outpoints -> Entry \cup {ABSENT}] /\ viewBest \in Hashes \cup {NULL}
  /\ open \in BOOLEAN

\* An entry e is true to its parent, which holds the coin below: FRESH only when
\* the parent has no coin (the promise of coins.h), not DIRTY only when it agrees
\* with the parent, and a FRESH entry that holds no coin does not exist.
True(e, below) ==
  e # ABSENT =>
    /\ FRESH \in e.flags => below = SPENT /\ DIRTY \in e.flags /\ e.coin # SPENT
    /\ DIRTY \notin e.flags => e.coin = below

\* Every entry of both caches is true to the layer under it, after any sequence
\* of fetches, adds, spends, undos and flushes.
Coherent ==
  /\ \A o \in Outpoints : True(tip[o], db[o]) /\ True(view[o], TipCoin(o))
  /\ ~ open => view = Nothing /\ viewBest = NULL

\* The logic_error exceptions of AddCoin ("Adding new coin that replaces
\* non-pruned entry") and BatchWrite ("FRESH flag misapplied...") are never
\* thrown for a block that keeps the callers' rules.
NeverThrows ==
  \A o \in Outpoints :
    /\ ~ MergeThrows(view[o], tip[o])
    /\ open /\ ViewCoin(o) = SPENT => ~ AddThrows(view[o], FALSE)

\* The three layers together are one set of coins that changes a block at a
\* time: fetches, flushes and evictions are invisible, a dropped view leaves no
\* trace, a flushed one takes effect whole, and the database only ever holds a
\* committed set under its own block's label.
U == INSTANCE UtxoSet WITH
       utxo <- [o \in Outpoints |-> TipCoin(o)], best <- tipBest,
       work <- [o \in Outpoints |-> ViewCoin(o)],
       workBest <- IF viewBest = NULL THEN tipBest ELSE viewBest,
       open <- open, disk <- db, diskBest <- dbBest
OneUtxoSet == U!Spec
=============================================================================
