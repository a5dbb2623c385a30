----------------------------- MODULE BlockFetch -----------------------------
(***************************************************************************)
(* How a node of the chain downloads blocks: the windows, sources and      *)
(* pending blocks of ChainNode (core/chain/chain_node.ts) over the         *)
(* connections of core/net/node.ts.                                        *)
(*                                                                         *)
(* Every handler is synchronous and is one step.  The chain asks for the   *)
(* blocks of headers it received from a peer; a peer answers what it was   *)
(* asked on a connection, once and in order, unless the connection breaks. *)
(* An assertion that fails aborts its handler where it stands.  Requests   *)
(* that expire in the same turn of the timer are one step each.  Bans are  *)
(* carried out (m_ignoreBan is off).                                       *)
(***************************************************************************)
EXTENDS Integers, SequencesExt

CONSTANTS Peer, Block,
          Headers,        \* the lists of headers that may be announced
          InitWnd,        \* m_initBlockWnd
          MaxAnnounce,    \* bound on requestBlocks calls
          MaxLoss,        \* bound on connections that break or are replaced
          MaxReconnect    \* bound on connections that come back

ASSUME FetchConstants ==
    /\ \A h \in Headers : h \in Seq(Block) /\ IsInjective(h)
    /\ InitWnd \in Nat \ {0}
    /\ MaxAnnounce \in Nat /\ MaxLoss \in Nat /\ MaxReconnect \in Nat

VARIABLES
    fetch,       \* the ChainNode, a record:
                 \*   conns    connMap: [wnd, hashes, replaced] per connection
                 \*   asked    hashMap: the peer a block was last asked of
                 \*   pending  m_pendingBlock: blocks to ask for
                 \*   sources  m_blockFromMap: the peers that have a block
                 \*   known    the keys of m_blockFromMap, oldest first
                 \*   stored   m_blockStorage
                 \*   wire     requests on their way, per connection
                 \*   failed   lines of the assertions that have failed
    connected,   \* the connections of the network node
    announced, losses, reconnects

fetchVars == <<fetch, connected, announced, losses, reconnects>>

Offered == {b \in DOMAIN fetch.sources : fetch.sources[b] # <<>>}

\* Windows stay between one block and three times the first one, lists hold a
\* block once, and only connected peers have a window.
FetchTypeOK ==
    /\ DOMAIN fetch.conns \subseteq connected /\ connected \subseteq Peer
    /\ \A p \in DOMAIN fetch.conns :
        /\ fetch.conns[p].wnd \in 1..(3 * InitWnd)
        /\ fetch.conns[p].hashes \in Seq(Block) /\ IsInjective(fetch.conns[p].hashes)
    /\ fetch.asked \in [DOMAIN fetch.asked -> Peer] /\ DOMAIN fetch.asked \subseteq Block
    /\ fetch.pending \in Seq(Block) /\ IsInjective(fetch.pending)
    /\ \A b \in DOMAIN fetch.sources :
        fetch.sources[b] \in Seq(Peer) /\ IsInjective(fetch.sources[b])
    /\ fetch.known \in Seq(Block) /\ IsInjective(fetch.known)
    /\ ToSet(fetch.known) = DOMAIN fetch.sources
    /\ fetch.stored \subseteq Block
    /\ \A p \in Peer : fetch.wire[p] \in Seq(Block)
    /\ fetch.failed \subseteq {593, 650, 660}

FetchInit ==
    /\ fetch = [conns |-> <<>>, asked |-> <<>>, pending |-> <<>>, sources |-> <<>>, known |-> <<>>,
                stored |-> {}, wire |-> [p \in Peer |-> <<>>], failed |-> {}]
    /\ connected = Peer
    /\ announced = 0 /\ losses = 0 /\ reconnects = 0

----------------------------------------------------------------------------
\* Functions of the node

Without(f, S) == [x \in DOMAIN f \ S |-> f[x]]
SetAll(f, g) == [x \in DOMAIN f \cup DOMAIN g |-> IF x \in DOMAIN g THEN g[x] ELSE f[x]]

\* The elements of a sequence that are in S, in their order.
Keep(S) == [s \in Seq(Block \cup Peer) |->
    LET kept[i \in 0..Len(s)] ==
            IF i = 0 THEN <<>>
            ELSE IF s[i] \in S THEN Append(kept[i - 1], s[i]) ELSE kept[i - 1]
    IN  kept[Len(s)]]

Drop(s, x) == Keep(ToSet(s) \ {x})[s]

\* _requestBlockFromConnection, for each of these blocks.  On a connection that
\* another one has replaced the packages are written to nowhere.
Ask(n, p, blocks) ==
    [n EXCEPT !.conns[p].hashes = @ \o Keep(ToSet(blocks) \ ToSet(@))[blocks],
              !.asked = SetAll(@, [b \in ToSet(blocks) |-> p]),
              !.wire[p] = IF n.conns[p].replaced THEN @ ELSE @ \o blocks]

\* These of the pending blocks are asked of p.
Take(n, p, blocks) ==
    [Ask(n, p, blocks) EXCEPT !.pending = Keep(ToSet(n.pending) \ ToSet(blocks))[n.pending]]

\* The blocks that p is a source of.
Served(n, p) == {b \in DOMAIN n.sources : p \in ToSet(n.sources[b])}

\* Mutant: what p has is taken off the list, also beyond its window.
FreeWnd_DropsRest(n, p) ==
    LET mine == Keep(Served(n, p))[n.pending]
    IN  IF mine = <<>> THEN n
        ELSE [Ask(n, p, <<Head(mine)>>) EXCEPT !.pending = Keep(ToSet(@) \ ToSet(mine))[@]]

\* How far _onFreeBlockWnd goes down the pending blocks: until p's window is full,
\* to the first one that p has even if it is full already; a pending block without
\* an entry among the sources is the last.
Reached(n, p) ==
    LET b(i) == n.pending[i]
        before(i) == {b(j) : j \in 1..(i - 1)}
        out(i) == ToSet(n.conns[p].hashes) \cup (before(i) \cap Served(n, p))
    IN  {b(i) : i \in {j \in DOMAIN n.pending :
            /\ before(j) \subseteq DOMAIN n.sources
            /\ \/ before(j) \cap Served(n, p) = {}
               \/ Cardinality(out(j)) < n.conns[p].wnd}}

\* _onFreeBlockWnd: those that p has are asked of it; the one without an entry
\* fails an assertion.
OnFreeBlockWnd(n, p) ==
    LET reached == Reached(n, p)
        taken == Take(n, p, Keep(reached \cap Served(n, p))[n.pending])
    IN  IF reached \subseteq DOMAIN n.sources THEN taken
        ELSE [taken EXCEPT !.failed = @ \cup {593}]

\* p is no source of b any more, which is asked of the first of the others that
\* has room (_tryRequestBlockFromConnection).
TryAnother(m, p, b) ==
    LET others == [m EXCEPT !.sources[b] = Drop(@, p)]
        hasRoom(q) == others.conns[q].wnd > Len(others.conns[q].hashes)
        free == Keep({q \in ToSet(others.sources[b]) : hasRoom(q)})[others.sources[b]]
    IN  IF free = <<>> THEN others ELSE Take(others, Head(free), <<b>>)

\* p has no window any more, and what was asked of it is pending again, at the head.
Abandon(n, p) ==
    LET gone == IF p \in DOMAIN n.conns THEN n.conns[p].hashes ELSE <<>>
        moved == Keep(ToSet(gone) \ ToSet(n.pending))[gone]
    IN  [n EXCEPT !.conns = Without(@, {p}), !.asked = Without(@, ToSet(gone)),
                  !.pending = Reverse(moved) \o @, !.wire[p] = <<>>]

\* _onRemoveConnection: every block that p is a source of is asked of another.  The
\* set of the one node that comes of it.
OnRemoveConnection(n, p) ==
    LET blocks == Keep(Served(n, p))[n.known]
        after[k \in 0..Len(blocks)] ==
            IF k = 0 THEN {Abandon(n, p)} ELSE {TryAnother(m, p, blocks[k]) : m \in after[k - 1]}
    IN  after[Len(blocks)]

\* A connection has a window from its first headers on.
WithWindow(n, p) ==
    IF p \in DOMAIN n.conns THEN n
    ELSE [n EXCEPT !.conns = SetAll(@,
            [q \in {p} |-> [wnd |-> InitWnd, hashes |-> <<>>, replaced |-> FALSE]])]

\* The sources, with p the last one of these blocks.
AddSource(n, p, blocks) ==
    LET before(b) == IF b \in DOMAIN n.sources THEN n.sources[b] ELSE <<>>
    IN  SetAll(n.sources, [b \in blocks |-> Append(before(b), p)])

\* These of the headers' blocks are at p, too.
Announce(n, p, headers, new) ==
    [n EXCEPT !.sources = AddSource(n, p, new),
              !.known = @ \o Keep(new \ DOMAIN n.sources)[headers],
              !.pending = @ \o Keep(new \ (DOMAIN n.asked \cup ToSet(n.pending)))[headers]]

----------------------------------------------------------------------------
\* Steps

\* requestBlocks, for headers received from p: what is neither stored nor known to be
\* at p is now, and is pending unless it is already, or out.  Blocks in storage are
\* handed to the chain from there.
RequestBlocks(p, headers) ==
    /\ announced < MaxAnnounce /\ announced' = announced + 1
    /\ p \in connected
    /\ LET new == {b \in ToSet(headers) \ fetch.stored : b \notin Served(fetch, p)}
       IN  fetch' = OnFreeBlockWnd(Announce(WithWindow(fetch, p), p, headers, new), p)
    /\ UNCHANGED <<connected, losses, reconnects>>

\* A block that was asked of p came from p: it is done with, and p's window grows.
Received(n, p, b) ==
    LET w == n.conns[p]
        grown == IF w.wnd < 3 * InitWnd THEN w.wnd + 1 ELSE 3 * InitWnd
        window == [w EXCEPT !.hashes = Drop(@, b), !.wnd = grown]
    IN  [n EXCEPT !.asked = Without(@, {b}), !.sources = Without(@, {b}),
                  !.known = Drop(@, b), !.conns[p] = window]

\* Mutant: the window that a delivered block frees is not used.
RecvBlock_NoRefill(p) ==
    /\ fetch.wire[p] # <<>>
    /\ LET b == Head(fetch.wire[p])
           n == [fetch EXCEPT !.wire[p] = Tail(@)]
       IN  IF b \in DOMAIN fetch.asked /\ fetch.asked[b] = p
           THEN fetch' = Received([n EXCEPT !.stored = @ \cup {b}], p, b)
           ELSE fetch' = [n EXCEPT !.failed = @ \cup {650}]
    /\ UNCHANGED <<connected, announced, losses, reconnects>>

\* _onRecvBlock: the next answer on p's connection.
OnRecvBlock(p) ==
    /\ fetch.wire[p] # <<>>
    /\ LET b == Head(fetch.wire[p])
           n == [fetch EXCEPT !.wire[p] = Tail(@)]
           kept == [n EXCEPT !.stored = @ \cup {b}]
       IN  \/ /\ b \notin DOMAIN fetch.asked
              /\ fetch' = [n EXCEPT !.failed = @ \cup {650}]
           \/ /\ b \in DOMAIN fetch.asked /\ fetch.asked[b] # p
              /\ fetch' = [kept EXCEPT !.failed = @ \cup {660}]
           \/ /\ b \in DOMAIN fetch.asked /\ fetch.asked[b] = p
              /\ fetch' = OnFreeBlockWnd(Received(kept, p, b), p)
    /\ UNCHANGED <<connected, announced, losses, reconnects>>

\* network.banConnection and the removal its event brings, or the same after an
\* error of the connection.
Disconnect(n, p) ==
    connected' = connected \ {p} /\ fetch' \in OnRemoveConnection(n, p)

\* _onReqTimeoutTimer, for one request that is past its time: the window halves,
\* and a peer without one is banned.
OnReqTimeout(b) ==
    /\ b \in DOMAIN fetch.asked
    /\ LET p == fetch.asked[b]
           wnd == fetch.conns[p].wnd \div 2
           n == [fetch EXCEPT !.conns[p].wnd = wnd]
       IN  IF wnd < 1 THEN Disconnect(n, p) ELSE fetch' = n /\ UNCHANGED connected
    /\ UNCHANGED <<announced, losses, reconnects>>

\* The connection breaks, or the chain or the reader bans its peer.
ConnectionError(p) ==
    /\ p \in connected
    /\ losses < MaxLoss /\ losses' = losses + 1
    /\ Disconnect(fetch, p)
    /\ UNCHANGED <<announced, reconnects>>

\* A second connection with the same peer takes the first one's place, which is
\* closed without an error event: the window goes on with the closed one, and what
\* is written to it is lost.
Replace(p) ==
    /\ p \in connected
    /\ losses < MaxLoss /\ losses' = losses + 1
    /\ fetch' = IF p \in DOMAIN fetch.conns
                THEN [fetch EXCEPT !.conns[p].replaced = TRUE, !.wire[p] = <<>>]
                ELSE fetch
    /\ UNCHANGED <<connected, announced, reconnects>>

Reconnect(p) ==
    /\ p \notin connected
    /\ reconnects < MaxReconnect /\ reconnects' = reconnects + 1
    /\ connected' = connected \cup {p}
    /\ UNCHANGED <<fetch, announced, losses>>

FetchNext ==
    \/ \E p \in Peer, h \in Headers : RequestBlocks(p, h)
    \/ \E p \in Peer : OnRecvBlock(p) \/ ConnectionError(p) \/ Replace(p) \/ Reconnect(p)
    \/ \E b \in Block : OnReqTimeout(b)

FetchSpec == FetchInit /\ [][FetchNext]_fetchVars

\* The time-out timer runs; no peer has to answer.
FetchFairSpec == FetchSpec /\ \A b \in Block : WF_fetchVars(OnReqTimeout(b))

----------------------------------------------------------------------------
\* Properties

\* Some block is out at a peer that it is not (or no longer) asked of, or an
\* assertion has met one: what _onRemoveConnection leaves when it asks another
\* source for a block that is out already.
AskedTwice ==
    \/ fetch.failed # {}
    \/ \E p \in DOMAIN fetch.conns : \E b \in ToSet(fetch.conns[p].hashes) :
            b \in DOMAIN fetch.asked => fetch.asked[b] # p

\* Whoever the handlers look up is there, whatever broke, was banned or came back
\* since: every source of a block has a window (asserted at 696), and so has every
\* peer that a request is waited for of, whose time-out will halve it (722).
WindowsHold ==
    /\ \A b \in DOMAIN fetch.sources : ToSet(fetch.sources[b]) \subseteq DOMAIN fetch.conns
    /\ \A b \in DOMAIN fetch.asked :
        /\ fetch.asked[b] \in DOMAIN fetch.conns
        /\ b \in ToSet(fetch.conns[fetch.asked[b]].hashes)

\* No announced block is forgotten: as long as somebody has it, it is waiting to
\* be asked for, asked for, or here.
NoBlockForgotten ==
    Offered \subseteq ToSet(fetch.pending) \cup DOMAIN fetch.asked \cup fetch.stored

\* A block some peer keeps having arrives, whatever connections break, are replaced
\* or run out of time, unless the loss of a peer had a block asked of two at once.
EveryBlockArrives ==
    \A b \in Block : b \in Offered ~> b \in fetch.stored \/ b \notin Offered \/ AskedTwice

\* The fetching state hangs together: what is looked up is there, and every block
\* announced is in one of the places it is served from.
BlocksAreTracked == FetchTypeOK /\ WindowsHold /\ NoBlockForgotten
=============================================================================
