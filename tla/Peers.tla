------------------------------- MODULE Peers -------------------------------
(***************************************************************************)
(* Which peers a node is connected to: the version handshake and the       *)
(* connection lists of INode (core/net/node.ts) over TCP                   *)
(* (core/net_tcp/), the dials, bans and known peers of Network             *)
(* (core/block/network.ts, node_storage.ts) and the two networks that      *)
(* choose whom to dial (random_outbound_network.ts,                        *)
(* dbft_chain/validators_network.ts).                                      *)
(*                                                                         *)
(* Every node runs this code.  A connection is one object per end; an end  *)
(* reads what the other sent before it closed, and learns of the closing   *)
(* only from a write of its own.  A break is seen by each end, in any      *)
(* order, at any time, or never.                                           *)
(***************************************************************************)
EXTENDS Integers, FiniteSets

CONSTANTS Node, None,
          Kind,          \* per node: "random" (RandomOutNetwork) or "validators"
          Static,        \* per node: the peers it is configured with
          Needed,        \* per node: m_minOutbound, or the validators it needs
          Chains,        \* the genesis blocks the nodes may have, as functions
          Clock,         \* readings of the nodes' clocks, which may differ
          MaxConn,       \* bound on connections ever dialled
          MaxTrouble     \* bound on broken or refused connections and bans

ASSUME PeersConstants ==
    /\ Kind \in [Node -> {"random", "validators"}]
    /\ Static \in [Node -> SUBSET Node] /\ Needed \in [Node -> Nat]
    /\ \A g \in Chains : DOMAIN g = Node
    /\ {MaxConn, MaxTrouble} \subseteq Nat
    /\ IsFiniteSet(Node) /\ Clock \subseteq Nat /\ Clock # {}
    /\ None \notin 1..MaxConn

Conn == 1..MaxConn

VARIABLES
    conn,     \* the connections dialled so far, each a record:
              \*   from, to   the dialling and the accepting node
              \*   batch      the first connection of its call of _connectTo
              \*   ts         the timestamp of its Version
              \*   out, in    its two ends: "none", "dial", "wait" (for the
              \*              first package), "open" (listed), "dead" (listed,
              \*              but its socket has failed), "stuck" (failed while
              \*              waiting) or "gone"
              \*   ack        the versionAck: "none", "sent" or "read"
              \*   result     of connectTo: "pending", "conn", "exist", "failed";
              \*              "done" once _connectTo has dealt with the batch
              \*   broken     its socket has failed
    remote,   \* m_remoteMap, per node and peer
    known,    \* the peers of NodeStorage, per node
    bans,     \* its bans, per node and peer: "none", "day", "over", "forever"
    told,     \* the peers the ChainNode was told of, per node
    genesis,  \* m_genesis, per node
    breaks, banned  \* how often a connection has broken, a peer been banned

vars == <<conn, remote, known, bans, told, genesis, breaks, banned>>

-----------------------------------------------------------------------------
End(c, n) == IF conn[c].from = n THEN conn[c].out ELSE conn[c].in

Of(c, n) == n \in {conn[c].from, conn[c].to}

PeerOf(c, n) == IF conn[c].from = n THEN conn[c].to ELSE conn[c].from

Listed(n) == {c \in DOMAIN conn : Of(c, n) /\ End(c, n) \in {"open", "dead"}}

Connecting(n) == {conn[c].to : c \in {d \in DOMAIN conn :
                                        conn[d].from = n /\ conn[d].result # "done"}}

TypeOK ==
    /\ DOMAIN conn \subseteq Conn
    /\ \A c \in DOMAIN conn :
        /\ conn[c].from \in Node /\ conn[c].to \in Node \ {conn[c].from}
        /\ conn[c].batch \in DOMAIN conn /\ conn[c].ts \in Clock
        /\ conn[c].out \in {"dial", "wait", "open", "dead", "stuck", "gone"}
        /\ conn[c].in \in {"none", "wait", "open", "gone"}
        /\ conn[c].ack \in {"none", "sent", "read"}
        /\ conn[c].result \in {"pending", "conn", "exist", "failed", "done"}
    /\ remote \in [Node -> [Node -> Conn \cup {None}]]
    /\ known \in [Node -> SUBSET Node] /\ told \in [Node -> SUBSET Node]
    /\ bans \in [Node -> [Node -> {"none", "day", "over", "forever"}]]

Init ==
    /\ conn = <<>>
    /\ remote = [n \in Node |-> [p \in Node |-> None]]
    /\ known = [n \in Node |-> {}]
    /\ bans = [n \in Node |-> [p \in Node |-> "none"]]
    /\ told = [n \in Node |-> {}]
    /\ genesis \in Chains
    /\ breaks = 0 /\ banned = 0

-----------------------------------------------------------------------------
(* NodeStorage *)

IsBan_OnlyOver(n, p) == bans[n][p] = "over"

\* A ban that is still running does not count; one that is over does, once.
IsBan(n, p) == bans[n][p] \in {"over", "forever"}

\* isBan forgets the ban that is over.
Looked(n, peers) ==
    bans' = [bans EXCEPT ![n] =
                [p \in Node |-> IF p \in peers /\ @[p] = "over" THEN "none" ELSE @[p]]]

WillConnectTo(n, p) ==
    /\ ~IsBan(n, p) /\ remote[n][p] = None
    /\ p \notin Connecting(n) /\ p # n

-----------------------------------------------------------------------------
(* Whom to dial *)

\* The peers of the storage; when they are too few, also the configured ones
\* that are neither connected nor being connected.
RandomOut(n, count) ==
    IF Cardinality(known[n]) >= count THEN known[n]
    ELSE known[n] \cup (Static[n] \ (Connecting(n) \cup {PeerOf(c, n) : c \in Listed(n)}))

RandomNext(n) == Needed[n] - (Cardinality(Connecting(n)) + Cardinality(Listed(n)))

Reached(n) == {v \in Static[n] : remote[n][v] # None \/ v \in Connecting(n)}

Wanted(n) ==
    IF Kind[n] = "random"
    THEN IF RandomNext(n) > 0 THEN RandomOut(n, RandomNext(n)) ELSE {}
    ELSE IF Cardinality(Reached(n)) < Needed[n] THEN Static[n] ELSE {}

NewConn(n, p, batch) ==
    [from |-> n, to |-> p, batch |-> batch, ts |-> CHOOSE t \in Clock : TRUE,
     out |-> "dial", in |-> "none", ack |-> "none", result |-> "pending", broken |-> FALSE]

\* The timer: every peer it may dial is dialled in one call of _connectTo.
CheckOutbound(n) ==
    \E peers \in {Wanted(n)} : \E willing \in {{p \in peers : WillConnectTo(n, p)}} :
        LET first == Cardinality(DOMAIN conn) + 1
            ids == first..(first + Cardinality(willing) - 1)
        IN  /\ peers # {} /\ ids \subseteq Conn
            /\ Looked(n, peers)
            /\ \E peer \in [ids -> willing] :
                /\ {peer[c] : c \in ids} = willing
                /\ conn' = [c \in DOMAIN conn \cup ids |->
                               IF c \in ids THEN NewConn(n, peer[c], first) ELSE conn[c]]
            /\ UNCHANGED <<remote, known, told, genesis, breaks, banned>>

-----------------------------------------------------------------------------
(* The handshake *)

\* TcpNode has connected: the connection's Version is made and sent, the other
\* node waits for it.
Connected(c) ==
    /\ conn[c].out = "dial"
    /\ \E now \in Clock :
        conn' = [conn EXCEPT ![c].out = "wait", ![c].in = "wait", ![c].ts = now]
    /\ UNCHANGED <<remote, known, bans, told, genesis, breaks, banned>>

Refused(c) ==
    /\ conn[c].out = "dial" /\ breaks + banned < MaxTrouble
    /\ conn' = [conn EXCEPT ![c].out = "gone", ![c].result = "failed"]
    /\ breaks' = breaks + 1
    /\ UNCHANGED <<remote, known, bans, told, genesis, banned>>

Loses_Second(c, other) == {TRUE}

\* Version.compare: the later one loses; of two equal ones either may, since
\* each end draws the other's random number anew.
Loses(c, other) == IF conn[c].ts = conn[other].ts THEN BOOLEAN
                   ELSE {conn[c].ts > conn[other].ts}

WithEnd(cs, c, n, end) ==
    [cs EXCEPT ![c] = IF @.from = n THEN [@ EXCEPT !.out = end] ELSE [@ EXCEPT !.in = end]]

\* Node n lists connection c with p, and closes the one it had.
List(cs, c, n, p) ==
    WithEnd(IF remote[n][p] = None THEN cs ELSE WithEnd(cs, remote[n][p], n, "gone"),
            c, n, "open")

\* The accepting end reads the version.  The acknowledgement goes out before
\* the connection is compared with another one.
OnVersion(c) ==
    LET n == conn[c].to  p == conn[c].from
        acked == [conn EXCEPT ![c].ack = "sent"]
    IN  /\ conn[c].in = "wait"
        /\ IF genesis[p] # genesis[n]
           THEN conn' = WithEnd(conn, c, n, "gone") /\ UNCHANGED <<remote, bans, told>>
           ELSE \E loses \in IF remote[n][p] = None THEN {FALSE} ELSE Loses(c, remote[n][p]) :
                  IF loses
                  THEN conn' = WithEnd(acked, c, n, "gone") /\ UNCHANGED <<remote, bans, told>>
                  ELSE /\ Looked(n, {p})
                       /\ IF IsBan(n, p)
                          THEN /\ conn' = WithEnd(List(acked, c, n, p), c, n, "gone")
                               /\ remote' = [remote EXCEPT ![n][p] = None]
                               /\ UNCHANGED told
                          ELSE /\ conn' = List(acked, c, n, p)
                               /\ remote' = [remote EXCEPT ![n][p] = c]
                               /\ told' = [told EXCEPT ![n] = @ \cup {p}]
        /\ UNCHANGED <<known, genesis, breaks, banned>>

\* The dialling end reads the acknowledgement.
OnAck(c) ==
    LET n == conn[c].from  p == conn[c].to
        read == [conn EXCEPT ![c].ack = "read"]
    IN  /\ conn[c].out = "wait" /\ conn[c].ack = "sent"
        /\ \E loses \in IF remote[n][p] = None THEN {FALSE} ELSE Loses(c, remote[n][p]) :
            IF loses
            THEN /\ conn' = [read EXCEPT ![c].out = "gone", ![c].result = "exist"]
                 /\ UNCHANGED remote
            ELSE /\ conn' = [List(read, c, n, p) EXCEPT ![c].result = "conn"]
                 /\ remote' = [remote EXCEPT ![n][p] = c]
        /\ UNCHANGED <<known, bans, told, genesis, breaks, banned>>

Report_AllOrNone(n, first) ==
    LET batch == {c \in DOMAIN conn : conn[c].batch = first}
        With(result) == {conn[c].to : c \in {d \in batch : conn[d].result = result}}
    IN  /\ first \in DOMAIN conn /\ conn[first].from = n
        /\ \A c \in batch : conn[c].result = "conn"
        /\ conn' = [c \in DOMAIN conn |-> IF c \in batch THEN [conn[c] EXCEPT !.result = "done"]
                                          ELSE conn[c]]
        /\ known' = [known EXCEPT ![n] = (@ \ With("failed")) \cup With("conn")]
        /\ told' = [told EXCEPT ![n] = @ \cup With("conn")]
        /\ UNCHANGED <<remote, bans, genesis, breaks, banned>>

\* _connectTo deals with a batch once all its dials have ended.
Report(n, first) ==
    LET batch == {c \in DOMAIN conn : conn[c].batch = first}
        With(result) == {conn[c].to : c \in {d \in batch : conn[d].result = result}}
    IN  /\ first \in DOMAIN conn /\ conn[first].from = n
        /\ \A c \in batch : conn[c].result \notin {"pending", "done"}
        /\ conn' = [c \in DOMAIN conn |-> IF c \in batch THEN [conn[c] EXCEPT !.result = "done"]
                                          ELSE conn[c]]
        /\ known' = [known EXCEPT ![n] = (@ \ With("failed")) \cup With("conn")]
        /\ told' = [told EXCEPT ![n] = @ \cup With("conn")]
        /\ UNCHANGED <<remote, bans, genesis, breaks, banned>>

-----------------------------------------------------------------------------
(* Connections that end *)

\* Cables and processes fail.
Break(c) ==
    /\ breaks + banned < MaxTrouble /\ ~conn[c].broken
    /\ conn[c].out \in {"wait", "open"} \/ conn[c].in \in {"wait", "open"}
    /\ conn' = [conn EXCEPT ![c].broken = TRUE]
    /\ breaks' = breaks + 1
    /\ UNCHANGED <<remote, known, bans, told, genesis, banned>>

\* The accepting end's socket fails, or a write finds that the other end has
\* closed: it is taken off the list and the chain is told.
InError(c) ==
    LET n == conn[c].to  p == conn[c].from  listed == conn[c].in = "open"
    IN  /\ \/ conn[c].broken /\ conn[c].in \in {"wait", "open"}
           \/ conn[c].out \in {"gone", "dead"} /\ listed
        /\ conn' = WithEnd(conn, c, n, "gone")
        /\ remote' = IF listed THEN [remote EXCEPT ![n][p] = None] ELSE remote
        /\ told' = IF listed THEN [told EXCEPT ![n] = @ \ {p}] ELSE told
        /\ UNCHANGED <<known, bans, genesis, breaks, banned>>

\* The dialling end's socket: its listener on the connection was removed with
\* the one for the dial, so only the chain hears of it.
OutError(c) ==
    LET n == conn[c].from
    IN  /\ \/ conn[c].broken /\ conn[c].out \in {"wait", "open"}
           \/ conn[c].in = "gone" /\ conn[c].out = "open"
        /\ conn' = [conn EXCEPT ![c].out = IF @ = "open" THEN "dead" ELSE "stuck"]
        /\ told' = [told EXCEPT ![n] = @ \ {conn[c].to}]
        /\ UNCHANGED <<remote, known, bans, genesis, breaks, banned>>

\* The chain bans a peer it was told of; its connection is destroyed.
BanConnection(n, p, level) ==
    /\ p \in told[n] /\ breaks + banned < MaxTrouble
    /\ banned' = banned + 1
    /\ known' = [known EXCEPT ![n] = @ \ {p}]
    /\ bans' = [bans EXCEPT ![n][p] = level]
    /\ conn' = IF remote[n][p] = None THEN conn
               ELSE WithEnd(conn, remote[n][p], n, "gone")
    /\ remote' = [remote EXCEPT ![n][p] = None]
    /\ told' = [told EXCEPT ![n] = @ \ {p}]
    /\ UNCHANGED <<genesis, breaks>>

BanEnds(n, p) ==
    /\ bans[n][p] = "day"
    /\ bans' = [bans EXCEPT ![n][p] = "over"]
    /\ UNCHANGED <<conn, remote, known, told, genesis, breaks, banned>>
-----------------------------------------------------------------------------
Handshake(c) == Connected(c) \/ OnVersion(c) \/ OnAck(c)

Failure(c) == Refused(c) \/ Break(c) \/ InError(c) \/ OutError(c)

Next ==
    \/ \E n \in Node : CheckOutbound(n) \/ \E c \in DOMAIN conn : Report(n, c)
    \/ \E c \in DOMAIN conn : Handshake(c) \/ Failure(c)
    \/ \E n, p \in Node : BanEnds(n, p)
                         \/ \E level \in {"day", "forever"} : BanConnection(n, p, level)

Spec == Init /\ [][Next]_vars

\* Sockets that have not failed connect and deliver, and the turns of the event
\* loop that end a batch are taken.
FairSpec ==
    /\ Spec
    /\ \A c \in Conn : WF_vars(c \in DOMAIN conn /\ Handshake(c))
    /\ \A c \in Conn : WF_vars(c \in DOMAIN conn /\ \E n \in Node : Report(n, c))

-----------------------------------------------------------------------------
Between(a, b) == {c \in DOMAIN conn : {conn[c].from, conn[c].to} = {a, b}}

Quiet(a, b) ==
    \A c \in Between(a, b) : /\ conn[c].out # "dial" /\ conn[c].in # "wait"
                            /\ ~(conn[c].out = "wait" /\ conn[c].ack = "sent")

\* Two nodes that dialled each other at different times end up with one
\* connection, the same at both ends: the map and the list of connectTo and
\* _onInbound agree, and no order of handshakes makes each end close the
\* connection the other one keeps.
SurvivorAgreed ==
    \A a, b \in Node :
        /\ a # b /\ genesis[a] = genesis[b] /\ breaks = 0 /\ banned = 0
        /\ Between(a, b) # {} /\ Quiet(a, b)
        /\ \A c, d \in Between(a, b) : c # d => conn[c].ts # conn[d].ts
        => \E c \in Between(a, b) :
            /\ remote[a][b] = c /\ remote[b][a] = c
            /\ conn[c].out = "open" /\ conn[c].in = "open"
            /\ \A d \in Between(a, b) \ {c} : d \notin Listed(a) \cup Listed(b)

\* Without failures the chain knows the peer of every live connection, or the
\* batch that dialled it is still under way: neither a replaced connection nor
\* the error of another one makes it forget the peer.
LiveIsTold ==
    \A c \in DOMAIN conn :
        breaks = 0 /\ conn[c].out = "open" /\ conn[c].in = "open"
        => /\ conn[c].from \in told[conn[c].to]
           /\ conn[c].to \in told[conn[c].from] \/ conn[c].result # "done"

\* A peer that is banned for ever is not let in again; only a dial that was
\* under way when it was banned can bring it back.
BannedStayOut ==
    [][\A n, p \in Node :
        bans[n][p] = "forever" /\ p \in told'[n] \ told[n] => p \in Connecting(n)]_vars

\* A dial that has succeeded is reported to the chain, unless a connection has
\* failed or the same batch dialled a node of another chain, which never answers.
DialsAreReported ==
    \A c \in Conn :
        (c \in DOMAIN conn /\ conn[c].result = "conn")
        ~> \/ breaks > 0
           \/ /\ c \in DOMAIN conn
              /\ \/ conn[c].result = "done"
                 \/ \E d \in DOMAIN conn : /\ conn[d].batch = conn[c].batch
                                           /\ genesis[conn[d].from] # genesis[conn[d].to]

\* Both ends of a link agree on the connection, and the chain is told of it.
PeersAgree == TypeOK /\ SurvivorAgreed /\ LiveIsTold
=============================================================================
