---------------------------- MODULE BlockDownload ----------------------------
(***************************************************************************)
(* Block download from peers (src/net_processing.cpp): which blocks are    *)
(* requested from whom, the map of blocks in flight and the counters that  *)
(* are kept beside it, stalling and time-outs, and peers that come and go. *)
(* A step is one message, one round of SendMessages for a peer, or a       *)
(* connection that begins or ends; all hold cs_main or the only reference  *)
(* to the peer.                                                            *)
(*                                                                         *)
(* Work is height.  Time is left out: a time-out may strike whenever the   *)
(* thing it watches is pending, except for peers in Prompt, which answer   *)
(* every request in time.  Peers send genuine headers and blocks, in any   *)
(* order and unasked; Bad blocks are found invalid when they are           *)
(* connected.  Headers of all blocks are valid and fit one message.        *)
(***************************************************************************)
EXTENDS Integers, FiniteSets

CONSTANTS
  NONE,
  Blocks, Genesis, Path, Bad,
  Recent,        \* blocks less than a day old
  Best,          \* the best valid block of the network
  Peers, Prompt,
  Window,        \* BLOCK_DOWNLOAD_WINDOW
  MaxInTransit,  \* MAX_BLOCKS_IN_TRANSIT_PER_PEER
  MaxConnections \* bound on the connections with a peer

ASSUME DownloadAssumption ==
  /\ Genesis \in Blocks /\ Genesis \notin Bad /\ NONE \notin Blocks \cup Peers
  /\ Path \in [Blocks -> SUBSET Blocks] /\ Path[Genesis] = {Genesis}
  /\ \A b \in Blocks : /\ b \in Path[b] /\ Genesis \in Path[b]
                       /\ IsFiniteSet(Path[b])
                       /\ \A a \in Path[b] : Path[a] \subseteq Path[b]
                       /\ \A a \in Path[b] : b \in Path[a] => a = b
                       /\ \A a, c \in Path[b] : a \in Path[c] \/ c \in Path[a]
  /\ Bad \subseteq Blocks /\ Recent \subseteq Blocks
  /\ Best \in Recent /\ Path[Best] \cap Bad = {}
  /\ Prompt \subseteq Peers /\ IsFiniteSet(Peers)
  /\ Window \in Nat \ {0} /\ MaxInTransit \in Nat \ {0} /\ MaxConnections \in Nat

VARIABLES
  phase,         \* of a connection: absent, connecting, ready, closing
  node,          \* mapNodeState
  inFlight,      \* mapBlocksInFlight: the peer a block was requested from
  nDownloading,  \* nPeersWithValidatedDownloads
  nPreferred,    \* nPreferredDownload
  nSync,         \* nSyncStarted
  index,         \* mapBlockIndex
  have, failed,  \* blocks with data, blocks with BLOCK_FAILED_MASK
  tip,           \* chainActive.Tip()
  asked,         \* blocks a prompt peer has to send
  owing,         \* prompt peers that have to send headers
  connections    \* connections so far

counters == <<nDownloading, nPreferred, nSync>>
chain == <<index, have, failed, tip>>
requests == <<asked, owing>>
vars == <<phase, node, inFlight, counters, chain, requests, connections>>

Height == [b \in Blocks |-> Cardinality(Path[b]) - 1]
Highest(S) == CHOOSE b \in S : \A c \in S : Height[c] <= Height[b]
Lowest(S) == CHOOSE b \in S : \A c \in S : Height[b] <= Height[c]
FirstOf(S, n) == {b \in S : Cardinality({c \in S : Height[c] < Height[b]}) < n}

\* a new CNodeState; all requests are for blocks with validated headers, so that
\* nBlocksInFlightValidHeaders is nBlocksInFlight
CNodeState ==
  [known |-> NONE,       \* pindexBestKnownBlock
   unknown |-> NONE,     \* hashLastUnknownBlock
   common |-> NONE,      \* pindexLastCommonBlock
   flight |-> {},        \* vBlocksInFlight
   count |-> 0,          \* nBlocksInFlight
   stalling |-> FALSE,   \* nStallingSince
   syncing |-> FALSE,    \* fSyncStarted
   preferred |-> FALSE]  \* fPreferredDownload

Init ==
  /\ phase = [p \in Peers |-> "absent"]
  /\ node = [p \in Peers |-> CNodeState]
  /\ inFlight = [b \in Blocks |-> NONE]
  /\ nDownloading = 0 /\ nPreferred = 0 /\ nSync = 0
  /\ index = {Genesis} /\ have = {Genesis} /\ failed = {} /\ tip = Genesis
  /\ asked = [p \in Prompt |-> {}] /\ owing = {}
  /\ connections = [p \in Peers |-> 0]

\* getdata and getheaders, which a prompt peer is going to answer
AskForBlocks(p, S) ==
  asked' = IF p \in Prompt THEN [asked EXCEPT ![p] = @ \cup S] ELSE asked
AskForHeaders(p) == owing' = owing \cup ({p} \cap Prompt)

-----------------------------------------------------------------------------
(* Connections.                                                            *)

InitializeNode(p) ==
  /\ phase[p] = "absent"
  /\ connections[p] < MaxConnections
  /\ connections' = [connections EXCEPT ![p] = @ + 1]
  /\ phase' = [phase EXCEPT ![p] = "connecting"]
  /\ node' = [node EXCEPT ![p] = CNodeState]
  /\ UNCHANGED <<inFlight, counters, chain, requests>>

\* the version message, with UpdatePreferredDownload, and the end of the
\* handshake; prompt peers are outbound ones
Version(p) ==
  /\ phase[p] = "connecting"
  /\ phase' = [phase EXCEPT ![p] = "ready"]
  /\ \E preferred \in IF p \in Prompt THEN {TRUE} ELSE BOOLEAN :
       /\ node' = [node EXCEPT ![p].preferred = preferred]
       /\ nPreferred' = IF preferred THEN nPreferred + 1 ELSE nPreferred
  /\ UNCHANGED <<inFlight, nDownloading, nSync, chain, requests, connections>>

\* the connection is lost or given up for reasons that are not modelled
\* (misbehaviour, eviction)
Close(p) ==
  /\ p \notin Prompt /\ phase[p] \in {"connecting", "ready"}
  /\ phase' = [phase EXCEPT ![p] = "closing"]
  /\ UNCHANGED <<node, inFlight, counters, chain, requests, connections>>

\* mutant: what was requested from the peer stays in flight
FinalizeNodeInFlight(p) ==
  /\ phase[p] = "closing"
  /\ phase' = [phase EXCEPT ![p] = "absent"]
  /\ nSync' = IF node[p].syncing THEN nSync - 1 ELSE nSync
  /\ nPreferred' = IF node[p].preferred THEN nPreferred - 1 ELSE nPreferred
  /\ nDownloading' = IF node[p].count > 0 THEN nDownloading - 1 ELSE nDownloading
  /\ node' = [node EXCEPT ![p] = CNodeState]
  /\ UNCHANGED <<inFlight, chain, requests, connections>>

FinalizeNode(p) ==
  /\ phase[p] = "closing"
  /\ phase' = [phase EXCEPT ![p] = "absent"]
  /\ nSync' = IF node[p].syncing THEN nSync - 1 ELSE nSync
  /\ inFlight' = [b \in Blocks |-> IF b \in node[p].flight THEN NONE ELSE inFlight[b]]
  /\ nPreferred' = IF node[p].preferred THEN nPreferred - 1 ELSE nPreferred
  /\ nDownloading' = IF node[p].count > 0 THEN nDownloading - 1 ELSE nDownloading
  /\ node' = [node EXCEPT ![p] = CNodeState]
  /\ UNCHANGED <<chain, requests, connections>>

-----------------------------------------------------------------------------
(* Blocks in flight.                                                       *)

\* mutant: leaves nStallingSince
MarkBlockAsReceivedStalling(b) ==
  IF inFlight[b] = NONE
  THEN UNCHANGED <<node, inFlight, nDownloading>>
  ELSE LET p == inFlight[b] IN
       /\ node' = [node EXCEPT ![p].flight = @ \ {b}, ![p].count = @ - 1]
       /\ nDownloading' = IF node[p].count = 1 THEN nDownloading - 1 ELSE nDownloading
       /\ inFlight' = [inFlight EXCEPT ![b] = NONE]

MarkBlockAsReceived(b) ==
  IF inFlight[b] = NONE
  THEN UNCHANGED <<node, inFlight, nDownloading>>
  ELSE LET p == inFlight[b] IN
       /\ node' = [node EXCEPT ![p].flight = @ \ {b}, ![p].count = @ - 1,
                               ![p].stalling = FALSE]
       /\ nDownloading' = IF node[p].count = 1 THEN nDownloading - 1 ELSE nDownloading
       /\ inFlight' = [inFlight EXCEPT ![b] = NONE]

\* MarkBlockAsInFlight for blocks that are not in flight, one after the other: the
\* state n of the peer then, and the map and the counter
Requested(n, S) ==
  [n EXCEPT !.flight = @ \cup S, !.count = @ + Cardinality(S)]

MarkBlocksAsInFlight(p, n, S) ==
  /\ inFlight' = [b \in Blocks |-> IF b \in S THEN p ELSE inFlight[b]]
  /\ nDownloading' = IF n.count = 0 /\ S # {} THEN nDownloading + 1 ELSE nDownloading

Better(old, b) == IF old = NONE \/ Height[b] >= Height[old] THEN b ELSE old

ProcessBlockAvailability(n, known) ==
  IF n.unknown \in known
  THEN [n EXCEPT !.known = Better(@, n.unknown), !.unknown = NONE]
  ELSE n

UpdateBlockAvailability(n, b, known) ==
  LET m == ProcessBlockAvailability(n, known) IN
  IF b \in known THEN [m EXCEPT !.known = Better(@, b)]
                 ELSE [m EXCEPT !.unknown = b]

Missing(b) == b \notin have /\ inFlight[b] = NONE
Linked(b) == Path[b] \subseteq have    \* nChainTx

(* FindNextBlocksToDownload for a peer that has something interesting.     *)

\* the last common block, as it is guessed at first and when the peer reorganized
LastCommon(n) ==
  LET guess == IF n.common # NONE THEN n.common
               ELSE CHOOSE b \in Path[tip] :
                      Height[b] = IF Height[n.known] < Height[tip]
                                  THEN Height[n.known] ELSE Height[tip]
  IN  Highest(Path[guess] \cap Path[n.known])

\* the blocks that are walked through, to one beyond the window
Ahead(n, start) ==
  {b \in Path[n.known] \ Path[start] :
     /\ Height[b] <= Height[start] + Window + 1
     /\ (Path[b] \ Path[start]) \cap failed = {}}

\* the new pindexLastCommonBlock; no block above a missing one is linked, so that
\* the walk has seen all linked blocks when it ends
NewCommon(start, ahead) == Highest({start} \cup {b \in ahead : Linked(b)})

\* the blocks to request
ToFetch(n, start, ahead) ==
  FirstOf({b \in ahead : Missing(b) /\ Height[b] <= Height[start] + Window},
          MaxInTransit - n.count)

\* the peer that is in the way: it has the first block in flight, and the only
\* missing block is one beyond the window
Staller(p, fetch, ahead) ==
  LET waiting == {b \in ahead : b \notin have /\ inFlight[b] # NONE} IN
  IF fetch = {} /\ waiting # {} /\ (\E b \in ahead : Missing(b))
  THEN {inFlight[Lowest(waiting)]} \ {p} ELSE {}

-----------------------------------------------------------------------------
(* SendMessages.                                                           *)

BestHeaderRecent == index \cap Recent # {}
\* the clock is past a day after the tip, or within 20 block intervals of it
IsInitialBlockDownload == tip \notin Recent
CanDirectFetch == tip \in Recent

Fetch(p) == node[p].preferred \/ nPreferred = 0

\* getheaders goes to one peer, and to all once the headers are up to date
StartsSync(p) ==
  ~ node[p].syncing /\ ((nSync = 0 /\ Fetch(p)) \/ BestHeaderRecent)

\* SendMessages up to the time-outs: the start of the synchronization, and the
\* announcements, which look up what the peer has
Synced(p) == [ProcessBlockAvailability(node[p], index)
                EXCEPT !.syncing = @ \/ StartsSync(p)]
StartSync(p) ==
  /\ nSync' = IF StartsSync(p) THEN nSync + 1 ELSE nSync
  /\ IF StartsSync(p) THEN AskForHeaders(p) ELSE UNCHANGED owing

\* mutant: the time-out for headers is forgotten
ExpiredNotHeaders(p) ==
  /\ p \notin Prompt
  /\ node[p].stalling \/ node[p].flight # {}

\* the time-outs for a stalled window, for a block and for headers
Expired(p) ==
  /\ p \notin Prompt
  /\ \/ node[p].stalling
     \/ node[p].flight # {}
     \/ /\ node[p].syncing /\ ~ BestHeaderRecent /\ nSync = 1
        /\ nPreferred - (IF node[p].preferred THEN 1 ELSE 0) >= 1

TimeOut(p) ==
  /\ phase[p] = "ready" /\ Expired(p)
  /\ phase' = [phase EXCEPT ![p] = "closing"]
  /\ StartSync(p)
  /\ node' = [node EXCEPT ![p] = Synced(p)]
  /\ UNCHANGED <<inFlight, nDownloading, nPreferred, chain, asked, connections>>

\* the requests for blocks, and the peer that is found to stall them
RequestFrom(p, n) ==
  \E start \in {LastCommon(n)} :
    \E ahead \in {Ahead(n, start)} :
      \E fetch \in {ToFetch(n, start, ahead)} :
        LET m == [n EXCEPT !.common = NewCommon(start, ahead)]
            stallers == IF n.count = 0 THEN Staller(p, fetch, ahead) ELSE {}
        IN  /\ node' = [q \in Peers |->
                          IF q = p THEN Requested(m, fetch)
                          ELSE [node[q] EXCEPT !.stalling = @ \/ q \in stallers]]
            /\ MarkBlocksAsInFlight(p, n, fetch)
            /\ AskForBlocks(p, fetch)

RequestBlocks(p) ==
  /\ phase[p] = "ready"
  /\ StartSync(p)
  /\ \E n \in {Synced(p)} :
       IF /\ Fetch(p) \/ ~ IsInitialBlockDownload
          /\ n.count < MaxInTransit
          /\ n.known # NONE /\ Height[n.known] >= Height[tip]
       THEN RequestFrom(p, n)
       ELSE node' = [node EXCEPT ![p] = n] /\ UNCHANGED <<inFlight, nDownloading, asked>>
  /\ UNCHANGED <<phase, nPreferred, chain, connections>>

SendMessages(p) == TimeOut(p) \/ RequestBlocks(p)

-----------------------------------------------------------------------------
(* Messages.                                                               *)

\* AcceptBlockHeader for the headers after the last known one
HeadersValid(b) == IF b \in index THEN b \notin failed ELSE Path[b] \cap failed = {}

\* an inv, or headers that do not connect
Announce(p, b) ==
  /\ phase[p] = "ready" /\ (p \in Prompt => b = Best)
  /\ node' = [node EXCEPT ![p] = UpdateBlockAvailability(@, b, index)]
  /\ IF b \notin index THEN AskForHeaders(p) ELSE UNCHANGED owing
  /\ UNCHANGED <<phase, inFlight, counters, chain, asked, connections>>

\* the blocks ProcessHeadersMessage fetches at once
DirectFetch(n, b) ==
  LET branch == Path[b] \ Path[tip]
      missing == {c \in branch : Missing(c)}
      reached == \/ Cardinality(missing) <= MaxInTransit
                 \/ /\ Cardinality(missing) = MaxInTransit + 1
                    /\ Lowest(branch) \in missing
  IN  IF CanDirectFetch /\ b \notin failed /\ Height[b] >= Height[tip] /\ reached
      THEN FirstOf(missing, MaxInTransit - n.count) ELSE {}

\* ProcessHeadersMessage, with valid headers up to b
Headers(p, b) ==
  /\ phase[p] = "ready" /\ (p \in Prompt => p \in owing /\ b = Best)
  /\ HeadersValid(b)
  /\ index' = index \cup Path[b]
  /\ \E n \in {UpdateBlockAvailability(node[p], b, index')} :
       \E fetch \in {DirectFetch(n, b)} :
         /\ node' = [node EXCEPT ![p] = Requested(n, fetch)]
         /\ MarkBlocksAsInFlight(p, n, fetch)
         /\ AskForBlocks(p, fetch)
  /\ owing' = owing \ {p}
  /\ UNCHANGED <<phase, nPreferred, nSync, have, failed, tip, connections>>

\* ActivateBestChain: blocks with a bad ancestor are marked until the best linked
\* block is a valid one; the tip stays if there is nothing better
ActivateBestChain ==
  LET linked == {b \in Blocks : Path[b] \subseteq have'}
      Candidates(f) == {b \in linked : Path[b] \cap f = {}}
  IN  \E f \in SUBSET {b \in linked : Path[b] \cap Bad # {}} :
        /\ failed' = failed \cup f
        /\ tip' \in Candidates(failed') /\ Path[tip'] \cap Bad = {}
        /\ \A b \in Candidates(failed') : Height[b] <= Height[tip']
        /\ Height[tip'] = Height[tip] => tip' = tip

\* a block message: ProcessNewBlock takes blocks that were requested from anyone,
\* and others if they are not behind the tip
Block(p, b) ==
  /\ phase[p] = "ready" /\ (p \in Prompt => b \in asked[p])
  /\ MarkBlockAsReceived(b)
  /\ IF HeadersValid(b) /\ Path[b] \ {b} \subseteq index
     THEN /\ index' = index \cup {b}
          /\ IF inFlight[b] # NONE \/ Height[b] >= Height[tip]
             THEN have' = have \cup {b} /\ ActivateBestChain
             ELSE UNCHANGED <<have, failed, tip>>
     ELSE UNCHANGED chain
  /\ asked' = IF p \in Prompt THEN [asked EXCEPT ![p] = @ \ {b}] ELSE asked
  /\ UNCHANGED <<phase, nPreferred, nSync, owing, connections>>

-----------------------------------------------------------------------------

Next ==
  \E p \in Peers :
    \/ InitializeNode(p) \/ Version(p) \/ Close(p) \/ FinalizeNode(p)
    \/ SendMessages(p)
    \/ \E b \in Blocks : Announce(p, b) \/ Headers(p, b) \/ Block(p, b)

Spec == Init /\ [][Next]_vars

\* the message handler and the socket handler go on, time passes, and a prompt
\* peer connects and answers
FairSpec ==
  /\ Spec
  /\ \A p \in Peers \ Prompt : WF_vars(TimeOut(p) \/ FinalizeNode(p))
  /\ \A p \in Prompt :
       /\ WF_vars(InitializeNode(p) \/ Version(p) \/ RequestBlocks(p))
       /\ WF_vars(\E b \in Blocks : Headers(p, b))
       /\ WF_vars(\E b \in Blocks : Block(p, b))

-----------------------------------------------------------------------------
(* Properties.                                                             *)

\* the variables keep their types
TypeOK ==
  /\ phase \in [Peers -> {"absent", "connecting", "ready", "closing"}]
  /\ node \in [Peers ->
        [known : Blocks \cup {NONE}, unknown : Blocks \cup {NONE},
         common : Blocks \cup {NONE}, flight : SUBSET Blocks, count : Nat,
         stalling : BOOLEAN, syncing : BOOLEAN, preferred : BOOLEAN]]
  /\ inFlight \in [Blocks -> Peers \cup {NONE}]
  /\ nDownloading \in Nat /\ nPreferred \in Nat /\ nSync \in Nat
  /\ index \subseteq Blocks /\ have \subseteq index /\ failed \subseteq have
  /\ tip \in have
  /\ asked \in [Prompt -> SUBSET Blocks] /\ owing \subseteq Prompt
  /\ connections \in [Peers -> 0 .. MaxConnections]

\* FinalizeNode, "Do a consistency check after the last peer is removed": the map,
\* the lists of the peers and the counters always agree, whoever sends a block and
\* whenever peers go, and no peer has more blocks in flight than allowed
InFlightExact ==
  /\ \A b \in Blocks, p \in Peers : inFlight[b] = p <=> b \in node[p].flight
  /\ \A p \in Peers : /\ node[p].count = Cardinality(node[p].flight)
                      /\ node[p].count <= MaxInTransit
                      /\ phase[p] = "absent" => node[p] = CNodeState
  /\ nDownloading = Cardinality({p \in Peers : node[p].count > 0})
  /\ nPreferred = Cardinality({p \in Peers : node[p].preferred})
  /\ nSync = Cardinality({p \in Peers : node[p].syncing})

\* SendMessages, "Peer is stalling block download, disconnecting": a peer is not
\* disconnected for stalling when nothing is in flight from it any more
StallersOwe == \A p \in Peers : node[p].stalling => node[p].flight # {}

\* block download comes to the best chain if one peer that has it answers, whatever
\* the others withhold
Downloaded == <>[](tip = Best)

=============================================================================
