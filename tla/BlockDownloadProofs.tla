------------------------- MODULE BlockDownloadProofs -------------------------
(***************************************************************************)
(* Proofs about BlockDownload, for any tree of blocks, any number of peers *)
(* and connections, and any window: the map of blocks in flight, the lists *)
(* of the peers and the counters agree, no peer has more than              *)
(* MAX_BLOCKS_IN_TRANSIT_PER_PEER blocks in flight, and only peers that    *)
(* owe a block are taken for stalling.                                     *)
(***************************************************************************)
EXTENDS BlockDownload, FiniteSetTheorems, TLAPS

\* leaves are tried with Zenon unless they ask for SMT
USE Zenon

-----------------------------------------------------------------------------
(* Heights.                                                                *)

LEMMA HeightNat ==
  ASSUME NEW b \in Blocks
  PROVE  Height[b] \in Nat
  <1>1. IsFiniteSet(Path[b]) /\ Path[b] # {}
    BY DownloadAssumption DEF DownloadAssumption
  <1>2. Cardinality(Path[b]) \in Nat /\ Cardinality(Path[b]) # 0
    BY <1>1, FS_CardinalityType, FS_EmptySet
  <1> QED BY <1>2, SMT DEF Height

LEMMA Ancestors ==
  ASSUME NEW b \in Blocks
  PROVE  /\ Path[b] \subseteq Blocks /\ IsFiniteSet(Path[b])
         /\ b \in Path[b] /\ Genesis \in Path[b]
  BY DownloadAssumption DEF DownloadAssumption

\* a proper ancestor is lower
LEMMA AncestorLower ==
  ASSUME NEW b \in Blocks, NEW a \in Path[b], a # b
  PROVE  Height[a] < Height[b]
  <1>1. Path[a] \subseteq Path[b] /\ b \notin Path[a] /\ a \in Blocks
    BY DownloadAssumption DEF DownloadAssumption
  <1>2. IsFiniteSet(Path[b]) /\ IsFiniteSet(Path[a]) /\ Path[a] # Path[b]
    BY <1>1, Ancestors
  <1>3. /\ Cardinality(Path[a]) <= Cardinality(Path[b])
        /\ Cardinality(Path[a]) # Cardinality(Path[b])
    BY <1>1, <1>2, FS_Subset
  <1>4. Cardinality(Path[a]) \in Nat /\ Cardinality(Path[b]) \in Nat
    BY <1>2, FS_CardinalityType
  <1> QED BY <1>1, <1>3, <1>4, SMT DEF Height

\* blocks of one chain differ in height
LEMMA HeightsDiffer ==
  ASSUME NEW b \in Blocks, NEW a \in Path[b], NEW c \in Path[b], a # c
  PROVE  Height[a] # Height[c]
  <1>1. a \in Blocks /\ c \in Blocks /\ (a \in Path[c] \/ c \in Path[a])
    BY DownloadAssumption DEF DownloadAssumption
  <1>2. Height[a] \in Nat /\ Height[c] \in Nat
    BY <1>1, HeightNat
  <1> QED BY <1>1, <1>2, AncestorLower, SMT

\* a set of numbers has a least one, and if it is bounded a greatest
LEMMA LeastNumber ==
  ASSUME NEW N \in SUBSET Nat, N # {}
  PROVE  \E n \in N : \A m \in N : n <= m
  <1>1. \E n \in N : \A m \in N : ~ (<<m, n>> \in OpToRel(<, Nat))
    BY NatLessThanWellFounded, WFMin
  <1>2. PICK n \in N : \A m \in N : ~ (<<m, n>> \in OpToRel(<, Nat))
    BY <1>1
  <1>3. ASSUME NEW m \in N PROVE n <= m
    <2>1. <<m, n>> \in Nat \X Nat /\ ~ (m < n)
      BY <1>2 DEF OpToRel
    <2> QED BY <2>1, SMT
  <1> QED BY <1>3

LEMMA LowestExists ==
  ASSUME NEW S \in SUBSET Blocks, S # {}
  PROVE  Lowest(S) \in S
  <1> DEFINE N == {Height[b] : b \in S}
  <1>1. N \in SUBSET Nat /\ N # {}
    BY HeightNat
  <1> HIDE DEF N
  <1>2. PICK n \in N : \A m \in N : n <= m
    BY <1>1, LeastNumber
  <1>3. \E b \in S : \A c \in S : Height[b] <= Height[c]
    BY <1>2 DEF N
  <1> QED BY <1>3 DEF Lowest

LEMMA HighestExists ==
  ASSUME NEW S \in SUBSET Blocks, S # {}, NEW h \in Nat,
         \A b \in S : Height[b] <= h
  PROVE  Highest(S) \in S
  <1> DEFINE N == {h - Height[b] : b \in S}
  <1>1. N \in SUBSET Nat /\ N # {}
    BY HeightNat, SMT
  <1> HIDE DEF N
  <1>2. PICK n \in N : \A m \in N : n <= m
    BY <1>1, LeastNumber
  <1>3. \E b \in S : \A c \in S : Height[c] <= Height[b]
    <2>1. PICK b \in S : n = h - Height[b]
      BY DEF N
    <2>2. ASSUME NEW c \in S PROVE Height[c] <= Height[b]
      <3>1. h - Height[c] \in N /\ Height[b] \in Nat /\ Height[c] \in Nat
        BY HeightNat DEF N
      <3> QED BY <3>1, <2>1, <1>2, SMT
    <2> QED BY <2>2
  <1> QED BY <1>3 DEF Highest

\* FirstOf takes at most n blocks of a chain
LEMMA FirstOfLimited ==
  ASSUME NEW b \in Blocks, NEW S \in SUBSET Path[b], NEW n \in Nat
  PROVE  /\ FirstOf(S, n) \subseteq S /\ IsFiniteSet(FirstOf(S, n))
         /\ Cardinality(FirstOf(S, n)) <= n
  <1> DEFINE Lower(x) == {c \in S : Height[c] < Height[x]}
             F == FirstOf(S, n)
             f == [x \in F |-> Cardinality(Lower(x))]
  <1>1. S \subseteq Blocks /\ F \subseteq S
    BY Ancestors DEF FirstOf
  <1>2. IsFiniteSet(S) /\ IsFiniteSet(F)
    <2>1. IsFiniteSet(S)
      BY Ancestors, FS_Subset
    <2> QED BY <2>1, <1>1, FS_Subset
  <1>3. ASSUME NEW x \in S PROVE IsFiniteSet(Lower(x)) /\ Cardinality(Lower(x)) \in Nat
    <2>1. Lower(x) \in SUBSET S
      OBVIOUS
    <2> HIDE DEF Lower
    <2>2. IsFiniteSet(Lower(x))
      BY <1>2, <2>1, FS_Subset
    <2> QED BY <2>2, FS_CardinalityType
  <1>4. ASSUME NEW x \in F PROVE Cardinality(Lower(x)) < n
    BY DEF FirstOf
  <1>5. ASSUME NEW x \in S, NEW y \in S, Height[x] < Height[y]
        PROVE  Cardinality(Lower(x)) # Cardinality(Lower(y))
    <2>1. Height[x] \in Nat /\ Height[y] \in Nat
      BY <1>1, HeightNat
    <2>2. Lower(x) \in SUBSET Lower(y) /\ x \in Lower(y) /\ x \notin Lower(x)
      BY <2>1, <1>1, <1>5, HeightNat, SMT
    <2> HIDE DEF Lower
    <2>3. IsFiniteSet(Lower(y)) /\ Lower(x) # Lower(y)
      BY <1>3, <2>2
    <2> QED BY <2>2, <2>3, FS_Subset
  <1> HIDE DEF Lower, F
  <1>6. f \in [F -> 0 .. (n - 1)]
    BY <1>1, <1>3, <1>4, SMT
  <1>7. ASSUME NEW x \in F, NEW y \in F, f[x] = f[y] PROVE x = y
    <2>1. Cardinality(Lower(x)) = Cardinality(Lower(y))
      BY <1>7
    <2>2. x \in S /\ y \in S /\ Height[x] \in Nat /\ Height[y] \in Nat
      BY <1>1, HeightNat
    <2>3. Height[x] = Height[y]
      BY <2>1, <2>2, <1>5, SMT
    <2> QED BY <2>2, <2>3, HeightsDiffer
  <1> HIDE DEF f
  <1>8. f \in Injection(F, 0 .. (n - 1))
    BY <1>6, <1>7 DEF Injection, IsInjective
  <1>9. /\ IsFiniteSet(0 .. (n - 1))
        /\ Cardinality(0 .. (n - 1)) = IF 0 > n - 1 THEN 0 ELSE n - 1 - 0 + 1
    BY FS_Interval, SMT
  <1>10. Cardinality(F) <= Cardinality(0 .. (n - 1))
    BY <1>8, <1>9, FS_Injection
  <1>11. Cardinality(F) <= n
    BY <1>9, <1>10, SMT
  <1> QED BY <1>1, <1>2, <1>11 DEF F

\* a chain has a block at every height below its tip
LEMMA AncestorAtHeight ==
  ASSUME NEW b \in Blocks, NEW h \in 0 .. Height[b]
  PROVE  \E a \in Path[b] : Height[a] = h
  <1> DEFINE f == [a \in Path[b] |-> Height[a]]
  <1>1. /\ Path[b] \subseteq Blocks /\ IsFiniteSet(Path[b])
        /\ Height[b] \in Nat /\ Cardinality(Path[b]) \in Nat
    BY Ancestors, HeightNat, FS_CardinalityType
  <1>2. f \in [Path[b] -> 0 .. Height[b]]
    <2>1. ASSUME NEW a \in Path[b] PROVE Height[a] \in 0 .. Height[b]
      <3>1. Height[a] \in Nat /\ (a = b \/ Height[a] < Height[b])
        BY <1>1, HeightNat, AncestorLower
      <3> QED BY <3>1, <1>1, SMT
    <2> QED BY <2>1
  <1>3. ASSUME NEW x \in Path[b], NEW y \in Path[b], f[x] = f[y] PROVE x = y
    BY <1>3, HeightsDiffer
  <1>4. IsFiniteSet(0 .. Height[b]) /\ Cardinality(0 .. Height[b]) = Height[b] + 1
    <2>1. ASSUME NEW n \in Nat
          PROVE  IsFiniteSet(0 .. n) /\ Cardinality(0 .. n) = n + 1
      BY FS_Interval, SMT
    <2> QED BY <1>1, <2>1
  <1>5. Cardinality(Path[b]) = Cardinality(0 .. Height[b])
    BY <1>1, <1>4, SMT DEF Height
  <1>6. f \in Injection(Path[b], 0 .. Height[b])
    <2> HIDE DEF f
    <2> QED BY <1>2, <1>3 DEF Injection, IsInjective
  <1>7. f \in Surjection(Path[b], 0 .. Height[b])
    <2> HIDE DEF f
    <2> QED BY <1>4, <1>5, <1>6, FS_Injection
  <1>8. \E a \in Path[b] : f[a] = h
    <2> HIDE DEF f
    <2> QED BY <1>7 DEF Surjection
  <1> QED BY <1>8

-----------------------------------------------------------------------------
(* The state of a peer.                                                    *)

Node == [known : Blocks \cup {NONE}, unknown : Blocks \cup {NONE},
         common : Blocks \cup {NONE}, flight : SUBSET Blocks, count : Nat,
         stalling : BOOLEAN, syncing : BOOLEAN, preferred : BOOLEAN]

\* m differs from n only in what the peer is known to have and to be sent
SameDownload(m, n) ==
  /\ m.flight = n.flight /\ m.count = n.count
  /\ m.stalling = n.stalling /\ m.preferred = n.preferred

LEMMA NewNode == CNodeState \in Node
  BY DEF CNodeState, Node

LEMMA Processed ==
  ASSUME NEW n \in Node, NEW known \in SUBSET Blocks
  PROVE  /\ ProcessBlockAvailability(n, known) \in Node
         /\ SameDownload(ProcessBlockAvailability(n, known), n)
         /\ ProcessBlockAvailability(n, known).syncing = n.syncing
  BY DEF ProcessBlockAvailability, Better, Node, SameDownload

LEMMA Updated ==
  ASSUME NEW n \in Node, NEW known \in SUBSET Blocks, NEW b \in Blocks
  PROVE  /\ UpdateBlockAvailability(n, b, known) \in Node
         /\ SameDownload(UpdateBlockAvailability(n, b, known), n)
         /\ UpdateBlockAvailability(n, b, known).syncing = n.syncing
  <1> DEFINE m == ProcessBlockAvailability(n, known)
  <1>1. m \in Node /\ SameDownload(m, n) /\ m.syncing = n.syncing
    BY Processed
  <1>2. UpdateBlockAvailability(n, b, known)
          = IF b \in known THEN [m EXCEPT !.known = Better(@, b)]
                           ELSE [m EXCEPT !.unknown = b]
    BY DEF UpdateBlockAvailability
  <1> HIDE DEF m
  <1> QED BY <1>1, <1>2, ZenonT(30) DEF Node, SameDownload, Better

LEMMA LastCommonBlock ==
  ASSUME NEW n \in Node, n.known # NONE, tip \in Blocks
  PROVE  LastCommon(n) \in Blocks
  <1> DEFINE low == IF Height[n.known] < Height[tip]
                    THEN Height[n.known] ELSE Height[tip]
             guess == IF n.common # NONE THEN n.common
                      ELSE CHOOSE b \in Path[tip] : Height[b] = low
             S == Path[guess] \cap Path[n.known]
  <1>1. n.known \in Blocks /\ n.common \in Blocks \cup {NONE}
    BY DEF Node
  <1>2. Height[n.known] \in Nat /\ Height[tip] \in Nat
    BY <1>1, HeightNat
  <1>3. \E b \in Path[tip] : Height[b] = low
    BY <1>2, AncestorAtHeight, SMT
  <1>4. guess \in Blocks
    BY <1>1, <1>3, Ancestors
  <1>5. LastCommon(n) = Highest(S)
    BY DEF LastCommon
  <1> HIDE DEF guess
  <1>6. S \in SUBSET Blocks /\ S # {}
    BY <1>1, <1>4, Ancestors
  <1>7. \A b \in S : Height[b] <= Height[n.known]
    <2>1. ASSUME NEW b \in Path[n.known] PROVE Height[b] <= Height[n.known]
      BY <1>1, <1>2, AncestorLower, HeightNat, Ancestors, SMT
    <2> QED BY <2>1
  <1> HIDE DEF S
  <1>8. Highest(S) \in S
    BY <1>2, <1>6, <1>7, HighestExists
  <1> QED BY <1>5, <1>6, <1>8

LEMMA NewCommonBlock ==
  ASSUME NEW n \in Node, n.known # NONE, NEW start \in Blocks
  PROVE  NewCommon(start, Ahead(n, start)) \in Blocks
  <1> DEFINE S == {start} \cup {b \in Ahead(n, start) : Linked(b)}
             h == Height[start] + Height[n.known]
  <1>1. n.known \in Blocks
    BY DEF Node
  <1>2. Height[start] \in Nat /\ Height[n.known] \in Nat
    BY <1>1, HeightNat
  <1>3. ASSUME NEW b \in S PROVE b \in Blocks /\ Height[b] <= h
    <2>1. CASE b = start
      BY <2>1, <1>2, SMT
    <2>2. CASE b \in Path[n.known]
      <3>1. b \in Blocks /\ Height[b] \in Nat
        BY <1>1, <2>2, Ancestors, HeightNat
      <3>2. b = n.known \/ Height[b] < Height[n.known]
        BY <1>1, <2>2, AncestorLower
      <3> QED BY <3>1, <3>2, <1>2, SMT
    <2> QED BY <2>1, <2>2 DEF Ahead
  <1>4. S # {} /\ h \in Nat
    BY <1>2, SMT
  <1>5. NewCommon(start, Ahead(n, start)) = Highest(S)
    BY DEF NewCommon
  <1> HIDE DEF S, h
  <1> QED BY <1>3, <1>4, <1>5, HighestExists

\* the blocks that are requested in one round are missing, and no more than allowed
LEMMA FetchLimited ==
  ASSUME NEW n \in Node, n.known # NONE, n.count <= MaxInTransit, NEW start
  PROVE  LET S == ToFetch(n, start, Ahead(n, start)) IN
         /\ S \subseteq Blocks /\ IsFiniteSet(S) /\ \A b \in S : inFlight[b] = NONE
         /\ n.count + Cardinality(S) <= MaxInTransit
  <1> DEFINE T == {b \in Ahead(n, start) :
                     Missing(b) /\ Height[b] <= Height[start] + Window}
             k == MaxInTransit - n.count
             S == FirstOf(T, k)
  <1>1. n.known \in Blocks /\ k \in Nat /\ n.count \in Nat /\ MaxInTransit \in Nat
    BY DownloadAssumption, SMT DEF DownloadAssumption, Node
  <1>2. T \in SUBSET Path[n.known] /\ \A b \in T : inFlight[b] = NONE
    BY DEF Ahead, Missing
  <1>3. ToFetch(n, start, Ahead(n, start)) = S
    BY DEF ToFetch
  <1> HIDE DEF T, k
  <1>4. S \subseteq T /\ IsFiniteSet(S) /\ Cardinality(S) <= k
    BY <1>1, <1>2, FirstOfLimited
  <1>5. Cardinality(S) \in Nat
    BY <1>4, FS_CardinalityType
  <1>6. Path[n.known] \subseteq Blocks
    BY <1>1, Ancestors
  <1> HIDE DEF S
  <1>7. n.count + Cardinality(S) <= MaxInTransit
    BY <1>1, <1>4, <1>5, SMT DEF k
  <1> QED BY <1>2, <1>3, <1>4, <1>6, <1>7

LEMMA DirectFetchLimited ==
  ASSUME NEW n \in Node, n.count <= MaxInTransit, NEW b \in Blocks
  PROVE  LET S == DirectFetch(n, b) IN
         /\ S \subseteq Blocks /\ IsFiniteSet(S) /\ \A c \in S : inFlight[c] = NONE
         /\ n.count + Cardinality(S) <= MaxInTransit
  <1> DEFINE T == {c \in Path[b] \ Path[tip] : Missing(c)}
             k == MaxInTransit - n.count
             S == FirstOf(T, k)
  <1>1. k \in Nat /\ n.count \in Nat /\ MaxInTransit \in Nat
    BY DownloadAssumption, SMT DEF DownloadAssumption, Node
  <1>2. T \in SUBSET Path[b] /\ \A c \in T : inFlight[c] = NONE
    BY DEF Missing
  <1>3. DirectFetch(n, b) = S \/ DirectFetch(n, b) = {}
    BY DEF DirectFetch
  <1> HIDE DEF T, k
  <1>4. S \subseteq T /\ IsFiniteSet(S) /\ Cardinality(S) <= k
    BY <1>1, <1>2, FirstOfLimited
  <1>5. Cardinality(S) \in Nat
    BY <1>4, FS_CardinalityType
  <1>6. Path[b] \subseteq Blocks
    BY Ancestors
  <1>7. IsFiniteSet({}) /\ Cardinality({}) = 0
    BY FS_EmptySet
  <1> HIDE DEF S
  <1>8. n.count + Cardinality(S) <= MaxInTransit
    BY <1>1, <1>4, <1>5, SMT DEF k
  <1>9. CASE DirectFetch(n, b) = S
    BY <1>9, <1>2, <1>4, <1>6, <1>8
  <1>10. CASE DirectFetch(n, b) = {}
    BY <1>10, <1>7, <1>1, SMT
  <1> QED BY <1>3, <1>9, <1>10

-----------------------------------------------------------------------------
(* The inductive invariant.                                                *)

Fresh == \A p \in Peers : phase[p] \in {"absent", "connecting"} => node[p] = CNodeState
FiniteFlights == \A p \in Peers : IsFiniteSet(node[p].flight)

\* what is kept of the blocks in flight
Bookkeeping == InFlightExact /\ StallersOwe /\ Fresh /\ FiniteFlights

IInv == TypeOK /\ Bookkeeping

Downloading == {p \in Peers : node[p].count > 0}
Preferred == {p \in Peers : node[p].preferred}
Syncing == {p \in Peers : node[p].syncing}

\* counting the peers in a set that p may enter or leave
LEMMA CountPeers ==
  ASSUME NEW A \in SUBSET Peers, NEW p \in Peers
  PROVE  /\ Cardinality(A) \in Nat
         /\ p \notin A => Cardinality(A \cup {p}) = Cardinality(A) + 1
         /\ p \in A => /\ Cardinality(A \ {p}) = Cardinality(A) - 1
                       /\ Cardinality(A) > 0
  <1>1. IsFiniteSet(A)
    BY FS_Subset, DownloadAssumption DEF DownloadAssumption
  <1>2. Cardinality(A) \in Nat /\ (p \in A => Cardinality(A) # 0)
    BY <1>1, FS_CardinalityType, FS_EmptySet
  <1>3. Cardinality(A \cup {p}) = IF p \in A THEN Cardinality(A) ELSE Cardinality(A) + 1
    BY <1>1, FS_AddElement
  <1>4. Cardinality(A \ {p}) = IF p \in A THEN Cardinality(A) - 1 ELSE Cardinality(A)
    BY <1>1, FS_RemoveElement
  <1> QED BY <1>2, <1>3, <1>4, SMT

\* blocks S that are in flight from nobody are requested from p, which may be
\* given up at the same time; others may be found to stall if they owe a block
LEMMA RequestKeeps ==
  ASSUME IInv, NEW p \in Peers, NEW n \in Node, SameDownload(n, node[p]),
         phase[p] = "ready",
         phase' = phase \/ phase' = [phase EXCEPT ![p] = "closing"],
         NEW S \in SUBSET Blocks, IsFiniteSet(S), \A b \in S : inFlight[b] = NONE,
         n.count + Cardinality(S) <= MaxInTransit,
         MarkBlocksAsInFlight(p, n, S), nPreferred' = nPreferred,
         node' \in [Peers -> Node],
         node'[p].flight = n.flight \cup S, node'[p].count = n.count + Cardinality(S),
         node'[p].stalling = n.stalling, node'[p].preferred = n.preferred,
         node[p].syncing => node'[p].syncing,
         nSync' = IF node'[p].syncing /\ ~ node[p].syncing THEN nSync + 1 ELSE nSync,
         \A q \in Peers \ {p} :
           \/ node'[q] = node[q]
           \/ node'[q] = [node[q] EXCEPT !.stalling = TRUE] /\ node[q].flight # {}
  PROVE  /\ Bookkeeping' /\ nDownloading' \in Nat /\ nSync' \in Nat
         /\ inFlight' \in [Blocks -> Peers \cup {NONE}]
  <1> USE DEF IInv, Bookkeeping
  <1>1. /\ node \in [Peers -> Node] /\ inFlight \in [Blocks -> Peers \cup {NONE}]
        /\ nDownloading \in Nat /\ nSync \in Nat
    BY DEF TypeOK, Node
  <1>2. ASSUME NEW q \in Peers, q # p
        PROVE  /\ node'[q].flight = node[q].flight /\ node'[q].count = node[q].count
               /\ node'[q].preferred = node[q].preferred /\ node'[q].syncing = node[q].syncing
               /\ node'[q].stalling => node[q].stalling \/ node[q].flight # {}
    <2>1. node[q] \in Node
      BY <1>1
    <2> QED BY <1>2, <2>1, SMT DEF Node
  <1>3. Cardinality(S) \in Nat /\ (Cardinality(S) = 0 <=> S = {})
    BY FS_CardinalityType, FS_EmptySet
  <1>4. \A b \in S, q \in Peers : b \notin node[q].flight
    BY DownloadAssumption, SMT DEF InFlightExact, DownloadAssumption
  <1>5. inFlight' = [b \in Blocks |-> IF b \in S THEN p ELSE inFlight[b]]
    BY DEF MarkBlocksAsInFlight
  <1>6. ASSUME NEW b \in Blocks, NEW q \in Peers
        PROVE  inFlight'[b] = q <=> b \in node'[q].flight
    <2>1. inFlight[b] = q <=> b \in node[q].flight
      BY DEF InFlightExact
    <2>2. CASE q = p
      BY <2>1, <2>2, <1>4, <1>5 DEF SameDownload
    <2>3. CASE q # p
      BY <2>1, <2>3, <1>2, <1>4, <1>5
    <2> QED BY <2>2, <2>3
  <1>7. node'[p].count = Cardinality(node'[p].flight) /\ IsFiniteSet(node'[p].flight)
    <2>1. IsFiniteSet(n.flight) /\ n.count = Cardinality(n.flight) /\ n.count \in Nat
      BY DEF SameDownload, InFlightExact, FiniteFlights, Node
    <2>2. n.flight \cap S = {}
      BY <1>4 DEF SameDownload
    <2>3. Cardinality(n.flight \cap S) = 0
      BY <2>2, FS_EmptySet
    <2>4. /\ IsFiniteSet(n.flight \cup S)
          /\ Cardinality(n.flight \cup S)
               = Cardinality(n.flight) + Cardinality(S) - Cardinality(n.flight \cap S)
      BY <2>1, FS_Union, ZenonT(30)
    <2> QED BY <2>1, <2>3, <2>4, <1>3, SMT
  <1>8. ASSUME NEW q \in Peers
        PROVE  /\ node'[q].count = Cardinality(node'[q].flight)
               /\ node'[q].count <= MaxInTransit /\ IsFiniteSet(node'[q].flight)
               /\ phase'[q] \in {"absent", "connecting"} => node'[q] = CNodeState
               /\ node'[q].stalling => node'[q].flight # {}
    <2>1. CASE q = p
      <3>1. phase'[p] \in {"ready", "closing"}
        BY DEF TypeOK
      <3>2. n.stalling => n.flight # {}
        BY DEF StallersOwe, SameDownload
      <3> QED BY <2>1, <3>1, <3>2, <1>7
    <2>2. CASE q # p
      <3>1. phase'[q] = phase[q]
        BY <2>2 DEF TypeOK
      <3>2. node'[q].flight = node[q].flight /\ node'[q].count = node[q].count
        BY <2>2, <1>2
      <3>3. /\ node[q].count = Cardinality(node[q].flight)
            /\ node[q].count <= MaxInTransit /\ IsFiniteSet(node[q].flight)
            /\ node[q].stalling => node[q].flight # {}
        BY DEF InFlightExact, StallersOwe, FiniteFlights
      <3>4. phase[q] \in {"absent", "connecting"} => node'[q] = CNodeState
        BY <2>2, SMT DEF Fresh, CNodeState
      <3> QED BY <3>1, <3>2, <3>3, <3>4, <2>2, <1>2
    <2> QED BY <2>1, <2>2
  <1>9. nPreferred' = Cardinality({q \in Peers : node'[q].preferred})
    <2>1. {q \in Peers : node'[q].preferred} = {q \in Peers : node[q].preferred}
      BY <1>2 DEF SameDownload
    <2> QED BY <2>1 DEF InFlightExact
  <1>10. nDownloading' = Cardinality({q \in Peers : node'[q].count > 0}) /\ nDownloading' \in Nat
    <2>1. /\ nDownloading = Cardinality(Downloading) /\ Downloading \in SUBSET Peers
          /\ n.count = node[p].count /\ n.count \in Nat
      BY DEF InFlightExact, Downloading, SameDownload, Node
    <2>2. CASE n.count = 0 /\ S # {}
      <3>1. {q \in Peers : node'[q].count > 0} = Downloading \cup {p} /\ p \notin Downloading
        <4>1. node'[p].count > 0 /\ ~ (node[p].count > 0)
          BY <1>3, <2>1, <2>2, SMT
        <4>2. \A q \in Peers \ {p} : node'[q].count = node[q].count
          BY <1>2
        <4> QED BY <4>1, <4>2 DEF Downloading
      <3> QED BY <2>1, <2>2, <3>1, <1>1, CountPeers, SMT DEF MarkBlocksAsInFlight
    <2>3. CASE ~ (n.count = 0 /\ S # {})
      <3>1. {q \in Peers : node'[q].count > 0} = Downloading
        BY <1>2, <1>3, <2>1, <2>3, SMT DEF Downloading
      <3> QED BY <2>1, <2>3, <3>1, <1>1 DEF MarkBlocksAsInFlight
    <2> QED BY <2>2, <2>3
  <1>11. inFlight' \in [Blocks -> Peers \cup {NONE}]
    BY <1>1, <1>5
  <1>12. nSync' = Cardinality({q \in Peers : node'[q].syncing}) /\ nSync' \in Nat
    <2>1. nSync = Cardinality(Syncing) /\ Syncing \in SUBSET Peers
      BY DEF InFlightExact, Syncing
    <2>2. CASE node'[p].syncing /\ ~ node[p].syncing
      <3>1. {q \in Peers : node'[q].syncing} = Syncing \cup {p} /\ p \notin Syncing
        BY <1>2, <2>2 DEF Syncing
      <3> QED BY <2>1, <2>2, <3>1, <1>1, CountPeers, SMT
    <2>3. CASE ~ (node'[p].syncing /\ ~ node[p].syncing)
      <3>1. {q \in Peers : node'[q].syncing} = Syncing
        BY <1>2, <2>3 DEF Syncing
      <3> QED BY <2>1, <2>3, <3>1, <1>1
    <2> QED BY <2>2, <2>3
  <1>13. InFlightExact'
    BY <1>6, <1>8, <1>9, <1>10, <1>12 DEF InFlightExact
  <1>14. StallersOwe' /\ Fresh' /\ FiniteFlights'
    BY <1>8 DEF StallersOwe, Fresh, FiniteFlights
  <1> QED BY <1>10, <1>11, <1>12, <1>13, <1>14

LEMMA NodeTypes ==
  TypeOK => node \in [Peers -> Node]
  BY DEF TypeOK, Node

LEMMA InitInv == Init => IInv
  <1> SUFFICES ASSUME Init PROVE IInv
    OBVIOUS
  <1>1. TypeOK
    BY DownloadAssumption, NewNode, SMT DEF DownloadAssumption, Init, TypeOK, Node
  <1>2. IsFiniteSet({}) /\ Cardinality({}) = 0
    BY FS_EmptySet
  <1>3. \A p \in Peers : node[p] = CNodeState /\ node[p].flight = {} /\ node[p].count = 0
                         /\ ~ node[p].stalling /\ ~ node[p].preferred /\ ~ node[p].syncing
    BY DEF Init, CNodeState
  <1>4. /\ {p \in Peers : node[p].count > 0} = {} /\ {p \in Peers : node[p].preferred} = {}
        /\ {p \in Peers : node[p].syncing} = {}
    BY <1>3, SMT
  <1>5. InFlightExact
    <2>1. \A b \in Blocks, p \in Peers : inFlight[b] = p <=> b \in node[p].flight
      BY <1>3, DownloadAssumption DEF DownloadAssumption, Init
    <2>2. \A p \in Peers : /\ node[p].count = Cardinality(node[p].flight)
                           /\ node[p].count <= MaxInTransit
      <3>1. 0 <= MaxInTransit
        BY DownloadAssumption, SMT DEF DownloadAssumption
      <3>2. \A p \in Peers : Cardinality(node[p].flight) = 0
        BY <1>2, <1>3
      <3> QED BY <1>3, <3>1, <3>2
    <2>3. nDownloading = 0 /\ nPreferred = 0 /\ nSync = 0
      BY DEF Init
    <2> QED BY <1>2, <1>3, <1>4, <2>1, <2>2, <2>3 DEF InFlightExact
  <1>6. StallersOwe /\ Fresh /\ FiniteFlights
    BY <1>2, <1>3 DEF StallersOwe, Fresh, FiniteFlights
  <1> QED BY <1>1, <1>5, <1>6 DEF IInv, Bookkeeping

LEMMA InitializeInv ==
  ASSUME IInv, NEW p \in Peers, InitializeNode(p)
  PROVE  IInv'
  <1> USE DEF IInv, Bookkeeping, InitializeNode, counters, chain, requests
  <1>1. node' = node
    BY DEF Fresh, TypeOK
  <1>2. TypeOK'
    BY <1>1, DownloadAssumption, SMT DEF TypeOK, DownloadAssumption
  <1>3. \A q \in Peers : phase'[q] \in {"absent", "connecting"} =>
                           phase[q] \in {"absent", "connecting"}
    BY DEF TypeOK
  <1>4. \A q \in Peers : phase'[q] = "absent" => phase[q] = "absent"
    BY DEF TypeOK
  <1>5. InFlightExact' /\ StallersOwe' /\ FiniteFlights'
    BY <1>1, <1>4, ZenonT(30) DEF InFlightExact, StallersOwe, FiniteFlights
  <1> QED BY <1>1, <1>2, <1>3, <1>5 DEF Fresh

LEMMA CloseInv ==
  ASSUME IInv, NEW p \in Peers, Close(p)
  PROVE  IInv'
  <1> USE DEF IInv, Bookkeeping, Close, counters, chain, requests
  <1>1. TypeOK'
    BY DEF TypeOK
  <1>2. \A q \in Peers : phase'[q] \in {"absent", "connecting"} => phase'[q] = phase[q]
    BY DEF TypeOK
  <1>3. InFlightExact' /\ StallersOwe' /\ FiniteFlights'
    BY <1>2, ZenonT(30) DEF InFlightExact, StallersOwe, FiniteFlights
  <1> QED BY <1>1, <1>2, <1>3 DEF Fresh

LEMMA VersionInv ==
  ASSUME IInv, NEW p \in Peers, Version(p)
  PROVE  IInv'
  <1> USE DEF IInv, Bookkeeping
  <1>1. PICK preferred \in BOOLEAN :
          /\ node' = [node EXCEPT ![p].preferred = preferred]
          /\ nPreferred' = IF preferred THEN nPreferred + 1 ELSE nPreferred
    BY DEF Version
  <1>2. node \in [Peers -> Node] /\ node[p] = CNodeState /\ nPreferred \in Nat
    BY NodeTypes DEF Version, Fresh, TypeOK
  <1>3. node' \in [Peers -> Node]
    BY <1>1, <1>2, SMT DEF Node
  <1>4. TypeOK'
    BY <1>1, <1>3, SMT DEF Version, TypeOK, Node, chain, requests
  <1>5. /\ \A q \in Peers \ {p} : node'[q] = node[q] /\ phase'[q] = phase[q]
        /\ node'[p].flight = {} /\ node'[p].count = 0 /\ ~ node'[p].stalling
        /\ node'[p].preferred = preferred /\ phase'[p] = "ready"
        /\ node[p].flight = {} /\ node[p].count = 0 /\ ~ node[p].preferred
    BY <1>1, <1>2, SMT DEF CNodeState, Version, TypeOK
  <1>6. /\ nPreferred' = Cardinality({q \in Peers : node'[q].preferred})
    <2>1. nPreferred = Cardinality(Preferred) /\ Preferred \in SUBSET Peers
      BY DEF InFlightExact, Preferred
    <2>2. p \notin Preferred
      BY <1>5 DEF Preferred
    <2>3. CASE preferred
      <3>1. {q \in Peers : node'[q].preferred} = Preferred \cup {p}
        BY <2>3, <1>5 DEF Preferred
      <3> QED BY <1>1, <2>1, <2>2, <2>3, <3>1, CountPeers
    <2>4. CASE ~ preferred
      <3>1. {q \in Peers : node'[q].preferred} = Preferred
        BY <2>4, <1>5 DEF Preferred
      <3> QED BY <1>1, <2>1, <2>4, <3>1
    <2> QED BY <2>3, <2>4
  <1>7. \A q \in Peers : /\ node'[q].flight = node[q].flight /\ node'[q].count = node[q].count
                         /\ node'[q].syncing = node[q].syncing
    BY <1>1, <1>2, <1>5, SMT DEF Node
  <1>8. /\ {q \in Peers : node'[q].count > 0} = {q \in Peers : node[q].count > 0}
        /\ {q \in Peers : node'[q].syncing} = {q \in Peers : node[q].syncing}
    BY <1>7
  <1>9. InFlightExact'
    <2>1. \A b \in Blocks, q \in Peers : inFlight'[b] = q <=> b \in node'[q].flight
      BY <1>7 DEF InFlightExact, Version
    <2>2. \A q \in Peers : /\ node'[q].count = Cardinality(node'[q].flight)
                           /\ node'[q].count <= MaxInTransit
      BY <1>7 DEF InFlightExact
    <2>3. \A q \in Peers : phase'[q] = "absent" => node'[q] = CNodeState
      BY <1>5 DEF InFlightExact
    <2>4. nDownloading' = nDownloading /\ nSync' = nSync
      BY DEF Version
    <2> QED BY <1>6, <1>8, <2>1, <2>2, <2>3, <2>4 DEF InFlightExact
  <1>10. StallersOwe' /\ Fresh' /\ FiniteFlights'
    BY <1>5, <1>7 DEF StallersOwe, Fresh, FiniteFlights
  <1> QED BY <1>4, <1>9, <1>10

LEMMA FinalizeInv ==
  ASSUME IInv, NEW p \in Peers, FinalizeNode(p)
  PROVE  IInv'
  <1> USE DEF IInv, Bookkeeping
  <1>1. /\ node \in [Peers -> Node] /\ nPreferred \in Nat /\ nDownloading \in Nat
        /\ nSync \in Nat /\ inFlight \in [Blocks -> Peers \cup {NONE}]
    BY NodeTypes DEF TypeOK
  <1>2. /\ \A q \in Peers \ {p} : node'[q] = node[q] /\ phase'[q] = phase[q]
        /\ node'[p] = CNodeState /\ phase'[p] = "absent"
        /\ node'[p].flight = {} /\ node'[p].count = 0
        /\ ~ node'[p].stalling /\ ~ node'[p].preferred /\ ~ node'[p].syncing
    BY <1>1 DEF FinalizeNode, CNodeState, TypeOK
  <1>3. nPreferred' = Cardinality({q \in Peers : node'[q].preferred}) /\ nPreferred' \in Nat
    <2>1. nPreferred = Cardinality(Preferred) /\ Preferred \in SUBSET Peers
      BY DEF InFlightExact, Preferred
    <2>2. {q \in Peers : node'[q].preferred} = Preferred \ {p}
      BY <1>2 DEF Preferred
    <2>3. CASE node[p].preferred
      <3>1. p \in Preferred /\ nPreferred' = nPreferred - 1
        BY <2>3 DEF Preferred, FinalizeNode
      <3> QED BY <2>1, <2>2, <3>1, <1>1, CountPeers
    <2>4. CASE ~ node[p].preferred
      <3>1. Preferred \ {p} = Preferred /\ nPreferred' = nPreferred
        BY <2>4 DEF Preferred, FinalizeNode
      <3> QED BY <2>1, <2>2, <3>1, <1>1
    <2> QED BY <2>3, <2>4
  <1>4. nDownloading' = Cardinality({q \in Peers : node'[q].count > 0}) /\ nDownloading' \in Nat
    <2>1. nDownloading = Cardinality(Downloading) /\ Downloading \in SUBSET Peers
      BY DEF InFlightExact, Downloading
    <2>2. {q \in Peers : node'[q].count > 0} = Downloading \ {p}
      BY <1>2, SMT DEF Downloading
    <2>3. CASE node[p].count > 0
      <3>1. p \in Downloading /\ nDownloading' = nDownloading - 1
        BY <2>3 DEF Downloading, FinalizeNode
      <3> QED BY <2>1, <2>2, <3>1, <1>1, CountPeers
    <2>4. CASE ~ (node[p].count > 0)
      <3>1. Downloading \ {p} = Downloading /\ nDownloading' = nDownloading
        BY <2>4 DEF Downloading, FinalizeNode
      <3> QED BY <2>1, <2>2, <3>1, <1>1
    <2> QED BY <2>3, <2>4
  <1>5. ASSUME NEW b \in Blocks, NEW q \in Peers
        PROVE  inFlight'[b] = q <=> b \in node'[q].flight
    <2>1. /\ inFlight[b] = q <=> b \in node[q].flight
          /\ inFlight[b] = p <=> b \in node[p].flight
          /\ inFlight'[b] = IF b \in node[p].flight THEN NONE ELSE inFlight[b]
          /\ NONE # q
      BY DownloadAssumption DEF InFlightExact, FinalizeNode, DownloadAssumption
    <2> QED BY <2>1, <1>2
  <1>6. Cardinality({}) = 0 /\ IsFiniteSet({}) /\ 0 <= MaxInTransit
    BY FS_EmptySet, DownloadAssumption, SMT DEF DownloadAssumption
  <1>10. nSync' = Cardinality({q \in Peers : node'[q].syncing}) /\ nSync' \in Nat
    <2>1. nSync = Cardinality(Syncing) /\ Syncing \in SUBSET Peers
      BY DEF InFlightExact, Syncing
    <2>2. {q \in Peers : node'[q].syncing} = Syncing \ {p}
      BY <1>2 DEF Syncing
    <2>3. CASE node[p].syncing
      <3>1. p \in Syncing /\ nSync' = nSync - 1
        BY <2>3 DEF Syncing, FinalizeNode
      <3> QED BY <2>1, <2>2, <3>1, <1>1, CountPeers, ZenonT(30)
    <2>4. CASE ~ node[p].syncing
      <3>1. Syncing \ {p} = Syncing /\ nSync' = nSync
        BY <2>4 DEF Syncing, FinalizeNode
      <3> QED BY <2>1, <2>2, <3>1, <1>1
    <2> QED BY <2>3, <2>4
  <1>7. InFlightExact'
    <2>1. \A q \in Peers : /\ node'[q].count = Cardinality(node'[q].flight)
                           /\ node'[q].count <= MaxInTransit
      <3>1. Cardinality(node'[p].flight) = 0
        BY <1>2, <1>6
      <3>2. \A q \in Peers : /\ node[q].count = Cardinality(node[q].flight)
                             /\ node[q].count <= MaxInTransit
        BY DEF InFlightExact
      <3> QED BY <1>2, <1>6, <3>1, <3>2
    <2>2. \A q \in Peers : phase'[q] = "absent" => node'[q] = CNodeState
      BY <1>2, ZenonT(30) DEF InFlightExact
    <2> QED BY <1>3, <1>4, <1>5, <1>10, <2>1, <2>2 DEF InFlightExact
  <1>8. StallersOwe' /\ Fresh' /\ FiniteFlights'
    BY <1>2, <1>6 DEF StallersOwe, Fresh, FiniteFlights
  <1>9. TypeOK'
    <2>1. node' \in [Peers -> Node] /\ inFlight' \in [Blocks -> Peers \cup {NONE}]
      BY <1>1, NewNode DEF FinalizeNode
    <2> QED BY <2>1, <1>3, <1>4, <1>10 DEF TypeOK, FinalizeNode, Node, chain, requests
  <1> QED BY <1>7, <1>8, <1>9

\* the state of p becomes n and nothing is requested
LEMMA NodeStep ==
  ASSUME IInv, NEW p \in Peers, NEW n \in Node, SameDownload(n, node[p]),
         node' = [node EXCEPT ![p] = n], UNCHANGED <<inFlight, nDownloading, nPreferred>>,
         phase[p] = "ready",
         phase' = phase \/ phase' = [phase EXCEPT ![p] = "closing"],
         node[p].syncing => n.syncing,
         nSync' = IF n.syncing /\ ~ node[p].syncing THEN nSync + 1 ELSE nSync
  PROVE  Bookkeeping' /\ nSync' \in Nat /\ node' \in [Peers -> Node]
  <1>1. /\ node \in [Peers -> Node] /\ inFlight \in [Blocks -> Peers \cup {NONE}]
        /\ n.count <= MaxInTransit /\ n.count \in Nat
    BY NodeTypes DEF IInv, Bookkeeping, InFlightExact, TypeOK, SameDownload, Node
  <1>2. node' \in [Peers -> Node] /\ node'[p] = n
    BY <1>1
  <1>3. IsFiniteSet({}) /\ Cardinality({}) = 0
    BY FS_EmptySet
  <1>4. MarkBlocksAsInFlight(p, n, {})
    BY <1>1 DEF MarkBlocksAsInFlight
  <1>5. /\ n.count + Cardinality({}) <= MaxInTransit
        /\ node'[p].count = n.count + Cardinality({})
        /\ node'[p].flight = n.flight \cup {}
    BY <1>1, <1>2, <1>3, SMT
  <1>6. \A q \in Peers \ {p} : node'[q] = node[q]
    BY <1>1
  <1> QED BY <1>2, <1>3, <1>4, <1>5, <1>6, RequestKeeps

\* p is sent requests for the blocks S
LEMMA RequestedNode ==
  ASSUME NEW n \in Node, NEW S \in SUBSET Blocks, IsFiniteSet(S)
  PROVE  /\ Requested(n, S) \in Node
         /\ Requested(n, S).flight = n.flight \cup S
         /\ Requested(n, S).count = n.count + Cardinality(S)
         /\ Requested(n, S).stalling = n.stalling
         /\ Requested(n, S).preferred = n.preferred
         /\ Requested(n, S).syncing = n.syncing
  <1>1. Cardinality(S) \in Nat
    BY FS_CardinalityType
  <1>2. Requested(n, S) = [n EXCEPT !.flight = n.flight \cup S,
                                    !.count = n.count + Cardinality(S)]
    BY DEF Requested
  <1>3. n.flight \cup S \in SUBSET Blocks /\ n.count + Cardinality(S) \in Nat
    BY <1>1, SMT DEF Node
  <1> QED BY <1>2, <1>3 DEF Node

LEMMA AskedTypes ==
  ASSUME TypeOK, NEW p \in Peers, NEW S \in SUBSET Blocks, AskForBlocks(p, S)
  PROVE  asked' \in [Prompt -> SUBSET Blocks]
  BY DEF TypeOK, AskForBlocks

LEMMA AnnounceInv ==
  ASSUME IInv, NEW p \in Peers, NEW b \in Blocks, Announce(p, b)
  PROVE  IInv'
  <1> DEFINE n == UpdateBlockAvailability(node[p], b, index)
  <1>1. TypeOK /\ node \in [Peers -> Node] /\ index \in SUBSET Blocks /\ nSync \in Nat
    BY NodeTypes DEF IInv, TypeOK
  <1>2. n \in Node /\ SameDownload(n, node[p]) /\ n.syncing = node[p].syncing
    BY <1>1, Updated
  <1>3. node' = [node EXCEPT ![p] = n]
    BY <1>1 DEF Announce
  <1> HIDE DEF n
  <1>4. /\ UNCHANGED <<phase, inFlight, nDownloading, nPreferred, nSync>>
        /\ phase[p] = "ready"
    BY DEF Announce, counters
  <1>5. Bookkeeping' /\ node' \in [Peers -> Node]
    BY <1>2, <1>3, <1>4, NodeStep
  <1>6. owing' \subseteq Prompt
    BY <1>1 DEF Announce, AskForHeaders, TypeOK
  <1>7. TypeOK'
    BY <1>1, <1>5, <1>6 DEF Announce, TypeOK, Node, counters, chain
  <1> QED BY <1>5, <1>7 DEF IInv

\* the start of the synchronization
LEMMA SyncedNode ==
  ASSUME IInv, NEW p \in Peers, StartSync(p)
  PROVE  /\ Synced(p) \in Node /\ SameDownload(Synced(p), node[p])
         /\ node[p].syncing => Synced(p).syncing
         /\ nSync' = IF Synced(p).syncing /\ ~ node[p].syncing THEN nSync + 1 ELSE nSync
         /\ owing' \subseteq Prompt
  <1> DEFINE n == ProcessBlockAvailability(node[p], index)
  <1>1. TypeOK /\ node[p] \in Node /\ index \in SUBSET Blocks
    BY NodeTypes DEF IInv, TypeOK
  <1>2. n \in Node /\ SameDownload(n, node[p]) /\ n.syncing = node[p].syncing
    BY <1>1, Processed
  <1>3. Synced(p) = [n EXCEPT !.syncing = n.syncing \/ StartsSync(p)]
    BY DEF Synced
  <1>4. StartsSync(p) \in BOOLEAN /\ (StartsSync(p) => ~ node[p].syncing)
    BY DEF StartsSync
  <1> HIDE DEF n
  <1>5. Synced(p) \in Node /\ SameDownload(Synced(p), node[p])
    BY <1>2, <1>3, <1>4 DEF Node, SameDownload
  <1>6. Synced(p).syncing <=> (node[p].syncing \/ StartsSync(p))
    BY <1>2, <1>3 DEF Node
  <1>7. nSync' = IF StartsSync(p) THEN nSync + 1 ELSE nSync
    BY DEF StartSync
  <1>8. owing' \subseteq Prompt
    BY <1>1 DEF StartSync, AskForHeaders, TypeOK
  <1> QED BY <1>4, <1>5, <1>6, <1>7, <1>8

LEMMA TimeOutInv ==
  ASSUME IInv, NEW p \in Peers, TimeOut(p)
  PROVE  IInv'
  <1>1. /\ Synced(p) \in Node /\ SameDownload(Synced(p), node[p])
        /\ node[p].syncing => Synced(p).syncing
        /\ nSync' = IF Synced(p).syncing /\ ~ node[p].syncing THEN nSync + 1 ELSE nSync
        /\ owing' \subseteq Prompt
    BY SyncedNode DEF TimeOut
  <1>2. /\ node' = [node EXCEPT ![p] = Synced(p)] /\ phase[p] = "ready"
        /\ phase' = [phase EXCEPT ![p] = "closing"]
        /\ UNCHANGED <<inFlight, nDownloading, nPreferred>>
    BY DEF TimeOut
  <1>3. Bookkeeping' /\ nSync' \in Nat /\ node' \in [Peers -> Node]
    BY <1>1, <1>2, NodeStep
  <1>4. TypeOK'
    BY <1>1, <1>2, <1>3 DEF IInv, TimeOut, TypeOK, Node, chain
  <1> QED BY <1>3, <1>4 DEF IInv

\* a peer that is found to stall has a block in flight
LEMMA StallerOwes ==
  ASSUME IInv, NEW p \in Peers, NEW fetch, NEW ahead \in SUBSET Blocks,
         NEW q \in Staller(p, fetch, ahead)
  PROVE  q \in Peers => node[q].flight # {}
  <1> DEFINE waiting == {b \in ahead : b \notin have /\ inFlight[b] # NONE}
  <1>1. waiting # {} /\ q = inFlight[Lowest(waiting)]
    BY DEF Staller
  <1>2. waiting \in SUBSET Blocks
    OBVIOUS
  <1> HIDE DEF waiting
  <1>3. Lowest(waiting) \in Blocks
    BY <1>1, <1>2, LowestExists
  <1> QED BY <1>1, <1>3 DEF IInv, Bookkeeping, InFlightExact

LEMMA RequestFromInv ==
  ASSUME IInv, NEW p \in Peers, NEW n \in Node, SameDownload(n, node[p]),
         node[p].syncing => n.syncing,
         nSync' = IF n.syncing /\ ~ node[p].syncing THEN nSync + 1 ELSE nSync,
         n.known # NONE, n.count < MaxInTransit, RequestFrom(p, n),
         phase[p] = "ready", UNCHANGED <<phase, nPreferred>>
  PROVE  /\ Bookkeeping' /\ node' \in [Peers -> Node] /\ nDownloading' \in Nat
         /\ nSync' \in Nat /\ inFlight' \in [Blocks -> Peers \cup {NONE}]
         /\ asked' \in [Prompt -> SUBSET Blocks]
  <1> DEFINE start == LastCommon(n)
             ahead == Ahead(n, start)
             S == ToFetch(n, start, ahead)
             m == [n EXCEPT !.common = NewCommon(start, ahead)]
             stallers == IF n.count = 0 THEN Staller(p, S, ahead) ELSE {}
  <1>1. /\ node' = [q \in Peers |->
                      IF q = p THEN Requested(m, S)
                      ELSE [node[q] EXCEPT !.stalling = node[q].stalling \/ q \in stallers]]
        /\ MarkBlocksAsInFlight(p, n, S) /\ AskForBlocks(p, S)
    BY ZenonT(30) DEF RequestFrom
  <1>2. /\ TypeOK /\ node \in [Peers -> Node] /\ tip \in Blocks /\ n.known \in Blocks
        /\ n.count \in Nat /\ MaxInTransit \in Nat
    BY NodeTypes, DownloadAssumption DEF IInv, TypeOK, Node, DownloadAssumption
  <1>3. start \in Blocks
    BY <1>2, LastCommonBlock
  <1>4. NewCommon(start, ahead) \in Blocks
    BY <1>3, NewCommonBlock
  <1>5. m \in Node /\ SameDownload(m, n) /\ m.syncing = n.syncing
    BY <1>4 DEF Node, SameDownload
  <1>6. /\ S \in SUBSET Blocks /\ IsFiniteSet(S) /\ \A b \in S : inFlight[b] = NONE
        /\ n.count + Cardinality(S) <= MaxInTransit
    BY <1>2, FetchLimited, SMT
  <1>7. ahead \in SUBSET Blocks
    BY <1>2, Ancestors DEF Ahead
  <1>8. ASSUME NEW q \in stallers PROVE q \in Peers => node[q].flight # {}
    BY <1>7, StallerOwes
  <1> HIDE DEF start, ahead, S, m, stallers
  <1>9. /\ Requested(m, S) \in Node
        /\ Requested(m, S).flight = n.flight \cup S
        /\ Requested(m, S).count = n.count + Cardinality(S)
        /\ Requested(m, S).stalling = n.stalling
        /\ Requested(m, S).preferred = n.preferred
        /\ Requested(m, S).syncing = n.syncing
    BY <1>5, <1>6, RequestedNode, SMT DEF SameDownload
  <1>10. ASSUME NEW q \in Peers, q # p
         PROVE  /\ node'[q] \in Node
                /\ \/ node'[q] = node[q]
                   \/ node'[q] = [node[q] EXCEPT !.stalling = TRUE] /\ node[q].flight # {}
    <2>1. node[q] \in Node /\ node[q].stalling \in BOOLEAN
      BY <1>2 DEF Node
    <2>2. CASE q \in stallers
      <3>1. node'[q] = [node[q] EXCEPT !.stalling = TRUE]
        BY <1>1, <1>10, <2>2
      <3> QED BY <2>1, <2>2, <3>1, <1>8 DEF Node
    <2>3. CASE q \notin stallers
      <3>1. (node[q].stalling \/ q \in stallers) = node[q].stalling
        BY <2>1, <2>3
      <3>2. node'[q] = [node[q] EXCEPT !.stalling = node[q].stalling]
        BY <1>1, <1>10, <3>1
      <3> QED BY <2>1, <3>2, ZenonT(30) DEF Node
    <2> QED BY <2>2, <2>3
  <1>11. node'[p] = Requested(m, S) /\ node' \in [Peers -> Node]
    BY <1>1, <1>9, <1>10
  <1>12. asked' \in [Prompt -> SUBSET Blocks]
    BY <1>1, <1>2, <1>6, AskedTypes
  <1>13. /\ Bookkeeping' /\ nDownloading' \in Nat /\ nSync' \in Nat
         /\ inFlight' \in [Blocks -> Peers \cup {NONE}]
    <2>1. \A q \in Peers \ {p} :
            \/ node'[q] = node[q]
            \/ node'[q] = [node[q] EXCEPT !.stalling = TRUE] /\ node[q].flight # {}
      BY <1>10
    <2>2. /\ node'[p].flight = n.flight \cup S /\ node'[p].count = n.count + Cardinality(S)
          /\ node'[p].stalling = n.stalling /\ node'[p].preferred = n.preferred
          /\ node'[p].syncing = n.syncing
      BY <1>9, <1>11
    <2> QED BY <1>1, <1>6, <1>11, <2>1, <2>2, RequestKeeps
  <1> QED BY <1>11, <1>12, <1>13

LEMMA RequestBlocksInv ==
  ASSUME IInv, NEW p \in Peers, RequestBlocks(p)
  PROVE  IInv'
  <1> DEFINE n == Synced(p)
  <1>1. /\ n \in Node /\ SameDownload(n, node[p])
        /\ node[p].syncing => n.syncing
        /\ nSync' = IF n.syncing /\ ~ node[p].syncing THEN nSync + 1 ELSE nSync
        /\ owing' \subseteq Prompt
    BY SyncedNode DEF RequestBlocks
  <1>2. /\ \/ n.count < MaxInTransit /\ n.known # NONE /\ RequestFrom(p, n)
           \/ node' = [node EXCEPT ![p] = n] /\ UNCHANGED <<inFlight, nDownloading, asked>>
        /\ phase[p] = "ready" /\ UNCHANGED <<phase, nPreferred>>
    BY DEF RequestBlocks
  <1> HIDE DEF n
  <1>3. /\ Bookkeeping' /\ node' \in [Peers -> Node] /\ nDownloading' \in Nat
        /\ nSync' \in Nat /\ inFlight' \in [Blocks -> Peers \cup {NONE}]
        /\ asked' \in [Prompt -> SUBSET Blocks]
    <2>1. CASE n.count < MaxInTransit /\ n.known # NONE /\ RequestFrom(p, n)
      BY <1>1, <1>2, <2>1, RequestFromInv
    <2>2. CASE node' = [node EXCEPT ![p] = n] /\ UNCHANGED <<inFlight, nDownloading, asked>>
      <3>1. Bookkeeping' /\ nSync' \in Nat /\ node' \in [Peers -> Node]
        BY <1>1, <1>2, <2>2, NodeStep
      <3> QED BY <2>2, <3>1 DEF IInv, TypeOK
    <2> QED BY <1>2, <2>1, <2>2
  <1>4. TypeOK'
    BY <1>1, <1>3 DEF IInv, RequestBlocks, TypeOK, Node, chain
  <1> QED BY <1>3, <1>4 DEF IInv

LEMMA HeadersInv ==
  ASSUME IInv, NEW p \in Peers, NEW b \in Blocks, Headers(p, b)
  PROVE  IInv'
  <1> DEFINE n == UpdateBlockAvailability(node[p], b, index')
             S == DirectFetch(n, b)
  <1>1. TypeOK /\ node \in [Peers -> Node] /\ index' \in SUBSET Blocks /\ have \subseteq index'
    BY NodeTypes, Ancestors DEF IInv, TypeOK, Headers
  <1>2. n \in Node /\ SameDownload(n, node[p]) /\ n.syncing = node[p].syncing
    BY <1>1, Updated
  <1>3. /\ node' = [node EXCEPT ![p] = Requested(n, S)]
        /\ MarkBlocksAsInFlight(p, n, S) /\ AskForBlocks(p, S)
    BY DEF Headers
  <1> HIDE DEF n
  <1>4. n.count <= MaxInTransit
    BY <1>2 DEF IInv, Bookkeeping, InFlightExact, SameDownload
  <1>5. /\ S \in SUBSET Blocks /\ IsFiniteSet(S) /\ \A c \in S : inFlight[c] = NONE
        /\ n.count + Cardinality(S) <= MaxInTransit
    BY <1>2, <1>4, DirectFetchLimited
  <1> HIDE DEF S
  <1>6. /\ Requested(n, S) \in Node
        /\ Requested(n, S).flight = n.flight \cup S
        /\ Requested(n, S).count = n.count + Cardinality(S)
        /\ Requested(n, S).stalling = n.stalling
        /\ Requested(n, S).preferred = n.preferred
        /\ Requested(n, S).syncing = n.syncing
    BY <1>2, <1>5, RequestedNode
  <1>7. /\ node' \in [Peers -> Node] /\ node'[p] = Requested(n, S)
        /\ \A q \in Peers \ {p} : node'[q] = node[q]
    BY <1>1, <1>3, <1>6
  <1>8. phase[p] = "ready" /\ UNCHANGED <<phase, nPreferred, nSync>>
    BY DEF Headers
  <1>9. /\ node'[p].flight = n.flight \cup S /\ node'[p].count = n.count + Cardinality(S)
        /\ node'[p].stalling = n.stalling /\ node'[p].preferred = n.preferred
        /\ node'[p].syncing = node[p].syncing
    BY <1>2, <1>6, <1>7
  <1>10. /\ Bookkeeping' /\ nDownloading' \in Nat /\ nSync' \in Nat
         /\ inFlight' \in [Blocks -> Peers \cup {NONE}]
    BY <1>2, <1>3, <1>5, <1>7, <1>8, <1>9, RequestKeeps
  <1>11. asked' \in [Prompt -> SUBSET Blocks]
    BY <1>1, <1>3, <1>5, AskedTypes
  <1>12. TypeOK'
    BY <1>1, <1>7, <1>10, <1>11 DEF Headers, TypeOK, Node
  <1> QED BY <1>10, <1>12 DEF IInv

LEMMA ReceivedKeeps ==
  ASSUME IInv, NEW b \in Blocks, MarkBlockAsReceived(b),
         UNCHANGED <<phase, nPreferred, nSync>>
  PROVE  /\ Bookkeeping' /\ node' \in [Peers -> Node] /\ nDownloading' \in Nat
         /\ inFlight' \in [Blocks -> Peers \cup {NONE}]
  <1> USE DEF IInv, Bookkeeping
  <1> DEFINE p == inFlight[b]
  <1>1. /\ node \in [Peers -> Node] /\ inFlight \in [Blocks -> Peers \cup {NONE}]
        /\ nDownloading \in Nat
    BY NodeTypes DEF TypeOK
  <1>2. CASE p = NONE
    <2>1. UNCHANGED <<node, inFlight, nDownloading>>
      BY <1>2 DEF MarkBlockAsReceived
    <2> QED BY <1>1, <2>1, ZenonT(30) DEF InFlightExact, StallersOwe, Fresh, FiniteFlights
  <1>3. CASE p # NONE
    <2>1. /\ node' = [node EXCEPT ![p].flight = node[p].flight \ {b},
                                  ![p].count = node[p].count - 1, ![p].stalling = FALSE]
          /\ nDownloading' = IF node[p].count = 1 THEN nDownloading - 1 ELSE nDownloading
          /\ inFlight' = [inFlight EXCEPT ![b] = NONE]
      BY <1>3 DEF MarkBlockAsReceived
    <2>2. p \in Peers /\ b \in node[p].flight /\ NONE \notin Peers
      BY <1>1, <1>3, DownloadAssumption DEF InFlightExact, DownloadAssumption
    <2>3. \A c \in Blocks, q \in Peers : inFlight[c] = q <=> c \in node[q].flight
      BY DEF InFlightExact
    <2> HIDE DEF p
    <2>4. /\ IsFiniteSet(node[p].flight) /\ node[p].count = Cardinality(node[p].flight)
          /\ node[p].count <= MaxInTransit /\ MaxInTransit \in Nat /\ node[p] \in Node
      BY <1>1, <2>2, DownloadAssumption DEF InFlightExact, FiniteFlights, DownloadAssumption
    <2>5. /\ IsFiniteSet(node[p].flight \ {b}) /\ node[p].count \in Nat /\ node[p].count # 0
          /\ Cardinality(node[p].flight \ {b}) = node[p].count - 1
      <3>1. IsFiniteSet(node[p].flight \ {b})
            /\ Cardinality(node[p].flight \ {b}) = Cardinality(node[p].flight) - 1
        BY <2>2, <2>4, FS_RemoveElement
      <3>2. Cardinality(node[p].flight) \in Nat /\ Cardinality(node[p].flight) # 0
        BY <2>2, <2>4, FS_CardinalityType, FS_EmptySet
      <3> QED BY <2>4, <3>1, <3>2
    <2>6. /\ node'[p].flight = node[p].flight \ {b} /\ node'[p].count = node[p].count - 1
          /\ ~ node'[p].stalling /\ node'[p].preferred = node[p].preferred
          /\ node'[p].syncing = node[p].syncing /\ node'[p] \in Node
      BY <1>1, <2>1, <2>2, <2>4, <2>5, SMT DEF Node
    <2>7. \A q \in Peers \ {p} : node'[q] = node[q]
      BY <1>1, <2>1
    <2>8. node' \in [Peers -> Node]
      <3>1. node' = [q \in Peers |-> node'[q]]
        BY <1>1, <2>1
      <3> QED BY <1>1, <2>6, <2>7, <3>1
    <2>9. ASSUME NEW c \in Blocks, NEW q \in Peers
          PROVE  inFlight'[c] = q <=> c \in node'[q].flight
      <3>1. inFlight'[c] = IF c = b THEN NONE ELSE inFlight[c]
        BY <1>1, <2>1
      <3>2. (inFlight[c] = q <=> c \in node[q].flight) /\ NONE # q
        BY <2>2, <2>3
      <3>3. CASE q = p
        BY <3>1, <3>2, <3>3, <2>6
      <3>4. CASE q # p
        <4>1. c = b => c \notin node[q].flight
          BY <2>3, <3>4 DEF p
        <4> QED BY <3>1, <3>2, <3>4, <4>1, <2>7
      <3> QED BY <3>3, <3>4
    <2>10. ASSUME NEW q \in Peers
           PROVE  /\ node'[q].count = Cardinality(node'[q].flight)
                  /\ node'[q].count <= MaxInTransit /\ IsFiniteSet(node'[q].flight)
                  /\ phase'[q] \in {"absent", "connecting"} => node'[q] = CNodeState
                  /\ node'[q].stalling => node'[q].flight # {}
      <3>1. CASE q = p
        <4>1. phase[p] \notin {"absent", "connecting"}
          BY <2>2, SMT DEF Fresh, CNodeState
        <4> QED BY <3>1, <4>1, <2>4, <2>5, <2>6, SMT
      <3>2. CASE q # p
        <4>1. node'[q] = node[q] /\ phase'[q] = phase[q]
          BY <3>2, <2>7
        <4> QED BY <4>1 DEF InFlightExact, Fresh, FiniteFlights, StallersOwe
      <3> QED BY <3>1, <3>2
    <2>11. /\ {q \in Peers : node'[q].preferred} = {q \in Peers : node[q].preferred}
           /\ {q \in Peers : node'[q].syncing} = {q \in Peers : node[q].syncing}
      BY <2>6, <2>7
    <2>12. /\ nDownloading' = Cardinality({q \in Peers : node'[q].count > 0})
           /\ nDownloading' \in Nat
      <3>1. nDownloading = Cardinality(Downloading) /\ Downloading \in SUBSET Peers
        BY DEF InFlightExact, Downloading
      <3>2. CASE node[p].count = 1
        <4>1. node[p].count > 0 /\ ~ (node'[p].count > 0)
          BY <3>2, <2>6, SMT
        <4>2. {q \in Peers : node'[q].count > 0} = Downloading \ {p} /\ p \in Downloading
          BY <4>1, <2>2, <2>7, SMT DEF Downloading
        <4>3. Cardinality(Downloading \ {p}) = Cardinality(Downloading) - 1
              /\ Cardinality(Downloading) > 0
          BY <4>2, <3>1, <2>2, CountPeers
        <4>4. nDownloading' = nDownloading - 1
          BY <3>2, <2>1
        <4>5. Cardinality({q \in Peers : node'[q].count > 0}) = Cardinality(Downloading) - 1
          BY <4>2, <4>3
        <4> QED BY <4>3, <4>4, <4>5, <3>1, <1>1, SMT
      <3>3. CASE node[p].count # 1
        <4>1. node[p].count > 0 /\ node'[p].count > 0
          BY <3>3, <2>5, <2>6, SMT
        <4>2. {q \in Peers : node'[q].count > 0} = Downloading
          BY <4>1, <2>7, SMT DEF Downloading
        <4> QED BY <4>2, <3>1, <3>3, <2>1, <1>1
      <3> QED BY <3>2, <3>3
    <2>13. inFlight' \in [Blocks -> Peers \cup {NONE}]
      BY <1>1, <2>1
    <2>14. InFlightExact'
      BY <2>9, <2>10, <2>11, <2>12 DEF InFlightExact
    <2>15. StallersOwe' /\ Fresh' /\ FiniteFlights'
      BY <2>10 DEF StallersOwe, Fresh, FiniteFlights
    <2> QED BY <2>8, <2>12, <2>13, <2>14, <2>15
  <1> QED BY <1>2, <1>3

LEMMA BlockInv ==
  ASSUME IInv, NEW p \in Peers, NEW b \in Blocks, Block(p, b)
  PROVE  IInv'
  <1>1. /\ Bookkeeping' /\ node' \in [Peers -> Node] /\ nDownloading' \in Nat
        /\ inFlight' \in [Blocks -> Peers \cup {NONE}]
    BY ReceivedKeeps DEF Block
  <1>2. asked' \in [Prompt -> SUBSET Blocks]
    BY DEF IInv, TypeOK, Block
  <1>3. /\ index' \subseteq Blocks /\ have' \subseteq index' /\ failed' \subseteq have'
        /\ tip' \in have'
    <2> USE DEF IInv, TypeOK
    <2>1. CASE UNCHANGED <<have, failed, tip>> /\ index' \in {index, index \cup {b}}
      BY <2>1
    <2>2. CASE index' = index \cup {b} /\ have' = have \cup {b} /\ ActivateBestChain
      <3>1. \A c \in Blocks : Path[c] \subseteq have' => c \in have'
        BY Ancestors
      <3>2. failed' \subseteq have' /\ tip' \in have'
        BY <2>2, <3>1 DEF ActivateBestChain
      <3> QED BY <2>2, <3>2
    <2> QED BY <2>1, <2>2 DEF Block, chain
  <1>4. TypeOK'
    BY <1>1, <1>2, <1>3 DEF IInv, Block, TypeOK, Node
  <1> QED BY <1>1, <1>4 DEF IInv

LEMMA NextInv ==
  ASSUME IInv, [Next]_vars
  PROVE  IInv'
  <1>1. CASE UNCHANGED vars
    BY <1>1, SMT DEF IInv, TypeOK, Bookkeeping, InFlightExact, StallersOwe, Fresh,
                FiniteFlights, vars, counters, chain, requests
  <1>2. ASSUME NEW p \in Peers,
               \/ InitializeNode(p) \/ Version(p) \/ Close(p) \/ FinalizeNode(p)
               \/ SendMessages(p)
        PROVE  IInv'
    BY <1>2, InitializeInv, VersionInv, CloseInv, FinalizeInv, TimeOutInv, RequestBlocksInv
    DEF SendMessages
  <1>3. ASSUME NEW p \in Peers, NEW b \in Blocks,
               Announce(p, b) \/ Headers(p, b) \/ Block(p, b)
        PROVE  IInv'
    BY <1>3, AnnounceInv, HeadersInv, BlockInv
  <1> QED BY <1>1, <1>2, <1>3 DEF Next

-----------------------------------------------------------------------------

\* The variables of block download keep their types: no counter goes below zero,
\* and the last common block with a peer is a block.
THEOREM DownloadTypes == Spec => []TypeOK
  <1>1. IInv => TypeOK
    BY DEF IInv
  <1> QED BY <1>1, InitInv, NextInv, PTL DEF Spec

\* FinalizeNode's assertions hold for any number of peers: mapBlocksInFlight, the
\* lists of the peers and the counters beside them agree, and no peer has more than
\* MAX_BLOCKS_IN_TRANSIT_PER_PEER blocks in flight.
THEOREM InFlightAlwaysExact == Spec => []InFlightExact
  <1>1. IInv => InFlightExact
    BY DEF IInv, Bookkeeping
  <1> QED BY <1>1, InitInv, NextInv, PTL DEF Spec

\* SendMessages never disconnects a peer for stalling that has no block in flight.
THEOREM StallersAlwaysOwe == Spec => []StallersOwe
  <1>1. IInv => StallersOwe
    BY DEF IInv, Bookkeeping
  <1> QED BY <1>1, InitInv, NextInv, PTL DEF Spec

=============================================================================
