---------------------------- MODULE PeersProofs ----------------------------
(***************************************************************************)
(* Proofs about the peer network, for any nodes, configurations, clocks    *)
(* and genesis blocks, and any number of connections, failures and bans:   *)
(* what a connection's two ends, the two maps and the chains have to say   *)
(* of each other.                                                          *)
(***************************************************************************)
EXTENDS Peers, TLAPS, FiniteSetTheorems

ConnRecord ==
    [from : Node, to : Node, batch : Conn, ts : Clock,
     out : {"dial", "wait", "open", "dead", "stuck", "gone"},
     in : {"none", "wait", "open", "gone"}, ack : {"none", "sent", "read"},
     result : {"pending", "conn", "exist", "failed", "done"}, broken : BOOLEAN]

\* Connections are numbered as they are dialled.
Dialled ==
    \E k \in 0..MaxConn : conn \in [1..k -> ConnRecord]

\* One call of _connectTo dials from one node to others.
Batches ==
    \A c \in DOMAIN conn :
        /\ conn[c].from # conn[c].to
        /\ conn[c].batch \in DOMAIN conn /\ conn[conn[c].batch].from = conn[c].from

Types ==
    /\ Dialled /\ Batches
    /\ remote \in [Node -> [Node -> Conn \cup {None}]]
    /\ known \in [Node -> SUBSET Node] /\ told \in [Node -> SUBSET Node]
    /\ bans \in [Node -> [Node -> {"none", "day", "over", "forever"}]]
    /\ genesis \in Chains /\ breaks \in Nat /\ banned \in Nat

\* What a node's map holds is listed at its end, though perhaps dead.
RemoteIsListed ==
    \A n, p \in Node : remote[n][p] # None =>
        /\ remote[n][p] \in DOMAIN conn
        /\ \/ /\ conn[remote[n][p]].from = n /\ conn[remote[n][p]].to = p
              /\ conn[remote[n][p]].out \in {"open", "dead"}
           \/ /\ conn[remote[n][p]].from = p /\ conn[remote[n][p]].to = n
              /\ conn[remote[n][p]].in = "open"

\* A live end is the one its node's map holds: no node keeps two with a peer.
OpenIsRemote ==
    \A c \in DOMAIN conn :
        /\ conn[c].out = "open" => remote[conn[c].from][conn[c].to] = c
        /\ conn[c].in = "open" => remote[conn[c].to][conn[c].from] = c

\* The accepting end knows nothing of a dial under way, and only a dial that
\* has succeeded is open at the dialling end.
DialsEnd ==
    \A c \in DOMAIN conn :
        /\ conn[c].out = "dial" => conn[c].in = "none"
        /\ conn[c].out = "open" => conn[c].result \in {"conn", "done"}

\* Without failures a live end's peer is known to the chain.
ChainsKnow ==
    breaks = 0 =>
        \A c \in DOMAIN conn :
            /\ ~conn[c].broken
            /\ conn[c].in = "open" => conn[c].from \in told[conn[c].to]
            /\ conn[c].out = "open" /\ conn[c].result = "done" =>
                   conn[c].to \in told[conn[c].from]

NobodyBanned == banned = 0 => \A n, p \in Node : bans[n][p] = "none"

\* No two connections of a pair that have exchanged versions carry one time.
NoTies(x, y) ==
    \A c, d \in Between(x, y) :
        c # d /\ conn[c].out # "dial" /\ conn[d].out # "dial" => conn[c].ts # conn[d].ts

\* An older connection the other way has been accepted and is not given up.
Beaten(c) ==
    \E d \in DOMAIN conn :
        /\ conn[d].from = conn[c].to /\ conn[d].to = conn[c].from
        /\ conn[d].ts < conn[c].ts
        /\ conn[d].in = "open" /\ conn[d].out \in {"wait", "open"}

\* How far a connection without trouble has come.
Stage(c) ==
    /\ conn[c].out \in {"dial", "wait"} => conn[c].result = "pending"
    /\ \/ conn[c].out = "dial" /\ conn[c].in = "none" /\ conn[c].ack = "none"
       \/ conn[c].out = "wait" /\ conn[c].in = "wait" /\ conn[c].ack = "none"
       \/ conn[c].out = "wait" /\ conn[c].in \in {"open", "gone"} /\ conn[c].ack = "sent"
       \/ /\ conn[c].out \in {"open", "gone"} /\ conn[c].in \in {"open", "gone"}
          /\ conn[c].ack = "read"

\* Two nodes of one chain that had no trouble and whose connections differ in
\* time.
Peaceful(x, y) ==
    breaks = 0 /\ banned = 0 /\ genesis[x] = genesis[y] /\ NoTies(x, y)

\* They have at most one connection each way, and one of its ends is given up
\* for an older one alone.
Settled(x, y) ==
    /\ \A c \in Between(x, y) :
        Stage(c) /\ (conn[c].in = "gone" \/ conn[c].out = "gone" => Beaten(c))
    /\ \A c, d \in Between(x, y) : conn[c].from = conn[d].from => c = d

Pairs == \A x, y \in Node : Peaceful(x, y) => Settled(x, y)

IInv ==
    /\ Types /\ RemoteIsListed /\ OpenIsRemote /\ DialsEnd /\ ChainsKnow
    /\ NobodyBanned /\ Pairs

----------------------------------------------------------------------------
(* Steps on connections.                                                   *)

\* Connections are numbered from one, and there are finitely many.
LEMMA DialledShape ==
    ASSUME Dialled
    PROVE  /\ conn \in [DOMAIN conn -> ConnRecord]
           /\ DOMAIN conn \subseteq Conn
           /\ Cardinality(DOMAIN conn) \in 0..MaxConn
           /\ DOMAIN conn = 1..Cardinality(DOMAIN conn)
<1>1. PICK k \in 0..MaxConn : conn \in [1..k -> ConnRecord]
  BY DEF Dialled
<1>2. MaxConn \in Nat
  BY PeersConstants
<1>3. k \in Nat /\ k <= MaxConn
  BY <1>1, <1>2
<1>4. IsFiniteSet(1..k) /\ Cardinality(1..k) = k
  <2>1. 1 \in Int /\ k \in Int
    BY <1>3
  <2>2. IsFiniteSet(1..k) /\ Cardinality(1..k) = IF 1 > k THEN 0 ELSE k - 1 + 1
    BY <2>1, FS_Interval
  <2>3. QED
    BY <2>2, <1>3
<1>5. DOMAIN conn = 1..k
  BY <1>1
<1>6. Cardinality(DOMAIN conn) = k
  BY <1>4, <1>5
<1>7. 1..k \subseteq Conn
  BY <1>2, <1>3 DEF Conn
<1>8. QED
  BY <1>1, <1>2, <1>3, <1>5, <1>6, <1>7

\* Any step that keeps the connections' number and types keeps their shape.
LEMMA StaysDialled ==
    ASSUME Dialled, conn' \in [DOMAIN conn -> ConnRecord]
    PROVE  Dialled' /\ DOMAIN conn' = DOMAIN conn
<1>1. PICK k \in 0..MaxConn : conn \in [1..k -> ConnRecord]
  BY DEF Dialled
<1>2. DOMAIN conn = 1..k
  BY <1>1
<1>3. conn' \in [1..k -> ConnRecord]
  BY <1>2
<1>4. QED
  BY <1>1, <1>2, <1>3 DEF Dialled

\* One end of one connection is set, and nothing else.
Sets(es, cs, D, c, n, end) ==
    /\ es \in [D -> ConnRecord]
    /\ \A d \in D \ {c} : es[d] = cs[d]
    /\ cs[c].from = n => es[c] = [cs[c] EXCEPT !.out = end]
    /\ cs[c].from # n => es[c] = [cs[c] EXCEPT !.in = end]

\* Setting an end with WithEnd does just that.
LEMMA WithEndSets ==
    ASSUME NEW D, NEW cs \in [D -> ConnRecord], NEW c \in D, NEW n,
           NEW end, end = "open" \/ end = "gone"
    PROVE  Sets(WithEnd(cs, c, n, end), cs, D, c, n, end)
<1>1. cs[c] \in ConnRecord
  OBVIOUS
<1>2. [cs[c] EXCEPT !.out = end] \in ConnRecord /\ [cs[c] EXCEPT !.in = end] \in ConnRecord
  BY <1>1 DEF ConnRecord
<1>3. QED
  BY <1>2 DEF WithEnd, Sets

\* Listing connection c opens its end at n and closes the end of old, the one
\* that was listed before.
Lists(es, cs, D, c, n, old) ==
    /\ es \in [D -> ConnRecord]
    /\ \A d \in D \ {c} : d # old => es[d] = cs[d]
    /\ cs[c].from = n => es[c] = [cs[c] EXCEPT !.out = "open"]
    /\ cs[c].from # n => es[c] = [cs[c] EXCEPT !.in = "open"]
    /\ old # None /\ cs[old].from = n => es[old] = [cs[old] EXCEPT !.out = "gone"]
    /\ old # None /\ cs[old].from # n => es[old] = [cs[old] EXCEPT !.in = "gone"]

\* List does just that.
LEMMA ListSets ==
    ASSUME NEW D, NEW cs \in [D -> ConnRecord], NEW c \in D, NEW n, NEW p,
           remote[n][p] # None => remote[n][p] \in D \ {c}
    PROVE  Lists(List(cs, c, n, p), cs, D, c, n, remote[n][p])
<1>1. CASE remote[n][p] = None
  <2>1. List(cs, c, n, p) = WithEnd(cs, c, n, "open")
    BY <1>1 DEF List
  <2>2. Sets(WithEnd(cs, c, n, "open"), cs, D, c, n, "open")
    BY WithEndSets
  <2>3. Sets(List(cs, c, n, p), cs, D, c, n, "open")
    BY <2>1, <2>2
  <2>4. QED
    BY <1>1, <2>3 DEF Sets, Lists
<1>2. CASE remote[n][p] # None
  <2>1. PICK d : d \in D /\ d # c /\ d = remote[n][p]
    BY <1>2
  <2>2. PICK ds : ds = WithEnd(cs, d, n, "gone")
    OBVIOUS
  <2>3. Sets(WithEnd(cs, d, n, "gone"), cs, D, d, n, "gone")
    BY <2>1, WithEndSets
  <2>4. Sets(ds, cs, D, d, n, "gone")
    BY <2>2, <2>3
  <2>5. ds \in [D -> ConnRecord]
    BY <2>4 DEF Sets
  <2>6. PICK es : es = WithEnd(ds, c, n, "open")
    OBVIOUS
  <2>7. Sets(WithEnd(ds, c, n, "open"), ds, D, c, n, "open")
    BY <2>5, WithEndSets
  <2>8. Sets(es, ds, D, c, n, "open")
    BY <2>6, <2>7
  <2>9. List(cs, c, n, p) = es
    BY <1>2, <2>1, <2>2, <2>6 DEF List
  <2>10. Lists(es, cs, D, c, n, d)
    BY <2>1, <2>4, <2>8 DEF Sets, Lists
  <2>11. QED
    BY <2>1, <2>9, <2>10
<1>3. QED
  BY <1>1, <1>2

\* The connections outside S stay as they are.
Untouched(S) == \A d \in DOMAIN conn \ S : conn'[d] = conn[d]

\* Node n closes its end of the connection that was listed before, if any.
Closes(old, n) ==
    old # None =>
        /\ conn[old].from = n => conn'[old] = [conn[old] EXCEPT !.out = "gone"]
        /\ conn[old].from # n => conn'[old] = [conn[old] EXCEPT !.in = "gone"]

\* A connection that waits for its first package is not the listed one.
LEMMA OldIsAnother ==
    ASSUME Types, RemoteIsListed, NEW c \in DOMAIN conn, NEW n \in Node, NEW p \in Node,
           \/ conn[c].to = n /\ conn[c].from = p /\ conn[c].in = "wait"
           \/ conn[c].from = n /\ conn[c].to = p /\ conn[c].out = "wait",
           remote[n][p] # None
    PROVE  /\ remote[n][p] \in DOMAIN conn /\ remote[n][p] # c
           /\ {conn[remote[n][p]].from, conn[remote[n][p]].to} = {n, p}
BY DEF Types, Batches, RemoteIsListed

\* What the accepting end n makes of a version of p: nothing for a node of
\* another chain; an acknowledgement and no more if the listed connection stays
\* or p is banned; else connection c is listed.
VersionTaken(c, n, p, old) ==
    /\ n \in Node /\ p \in Node /\ n # p
    /\ conn' \in [DOMAIN conn -> ConnRecord] /\ conn[c].in = "wait"
    /\ old # None => old \in DOMAIN conn \ {c}
    /\ UNCHANGED <<known, genesis, breaks, banned>>
    /\ \/ /\ genesis[p] # genesis[n]
          /\ conn'[c] = [conn[c] EXCEPT !.in = "gone"]
          /\ Untouched({c}) /\ UNCHANGED <<remote, bans, told>>
       \/ /\ old # None /\ TRUE \in Loses(c, old)
          /\ conn'[c] = [conn[c] EXCEPT !.ack = "sent", !.in = "gone"]
          /\ Untouched({c}) /\ UNCHANGED <<remote, bans, told>>
       \/ /\ IsBan(n, p) /\ Looked(n, {p})
          /\ conn'[c] = [conn[c] EXCEPT !.ack = "sent", !.in = "gone"]
          /\ Untouched({c, old}) /\ Closes(old, n)
          /\ remote' = [remote EXCEPT ![n][p] = None] /\ UNCHANGED told
       \/ /\ ~IsBan(n, p) /\ Looked(n, {p})
          /\ old # None => FALSE \in Loses(c, old)
          /\ conn'[c] = [conn[c] EXCEPT !.ack = "sent", !.in = "open"]
          /\ Untouched({c, old}) /\ Closes(old, n)
          /\ remote' = [remote EXCEPT ![n][p] = c]
          /\ told' = [told EXCEPT ![n] = @ \cup {p}]

\* The handler of a version does one of these.
LEMMA OnVersionEffect ==
    ASSUME Types, RemoteIsListed, NEW c \in DOMAIN conn, OnVersion(c),
           NEW n, n = conn[c].to, NEW p, p = conn[c].from, NEW old, old = remote[n][p]
    PROVE  VersionTaken(c, n, p, old)
<1> USE DEF VersionTaken
<1> PICK D : D = DOMAIN conn
  OBVIOUS
<1>1. conn \in [D -> ConnRecord] /\ c \in D
  BY DialledShape DEF Types
<1>2. conn[c] \in ConnRecord /\ conn[c].from # n /\ conn[c].in = "wait"
  BY <1>1 DEF Types, Batches, OnVersion
<1>3. n \in Node /\ p \in Node /\ n # p
  BY <1>2 DEF ConnRecord
<1>4. old # None => old \in D /\ old # c
  BY <1>2, <1>3, OldIsAnother
<1>5. PICK acked : acked = [conn EXCEPT ![c].ack = "sent"]
  OBVIOUS
<1>6. /\ acked \in [D -> ConnRecord]
      /\ acked[c] = [conn[c] EXCEPT !.ack = "sent"]
      /\ \A d \in D \ {c} : acked[d] = conn[d]
  <2>1. [conn[c] EXCEPT !.ack = "sent"] \in ConnRecord
    BY <1>2 DEF ConnRecord
  <2>2. QED
    BY <2>1, <1>1, <1>5
<1>7. acked[c].from # n
  BY <1>2, <1>6 DEF ConnRecord
<1>8. CASE genesis[p] # genesis[n]
  <2>1. /\ conn' = WithEnd(conn, c, n, "gone")
        /\ UNCHANGED <<remote, bans, told, known, genesis, breaks, banned>>
    BY <1>8 DEF OnVersion
  <2>2. Sets(WithEnd(conn, c, n, "gone"), conn, D, c, n, "gone")
    BY <1>1, WithEndSets
  <2>3. Sets(conn', conn, D, c, n, "gone")
    BY <2>1, <2>2
  <2>4. QED
    BY <1>2, <1>3, <1>4, <1>8, <2>1, <2>3 DEF Sets, Untouched
<1>9. ASSUME old # None, TRUE \in Loses(c, old), conn' = WithEnd(acked, c, n, "gone"),
             UNCHANGED <<remote, bans, told, known, genesis, breaks, banned>>
      PROVE  /\ conn' \in [D -> ConnRecord] /\ Untouched({c})
             /\ conn'[c] = [conn[c] EXCEPT !.ack = "sent", !.in = "gone"]
  <2>1. Sets(WithEnd(acked, c, n, "gone"), acked, D, c, n, "gone")
    BY <1>1, <1>6, WithEndSets
  <2>2. Sets(conn', acked, D, c, n, "gone")
    BY <2>1, <1>9
  <2>3. QED
    BY <2>2, <1>6, <1>7 DEF Sets, Untouched
<1>10. PICK ls : ls = List(acked, c, n, p)
  OBVIOUS
<1>11. Lists(ls, acked, D, c, n, old)
  <2>1. Lists(List(acked, c, n, p), acked, D, c, n, remote[n][p])
    BY <1>1, <1>4, <1>6, ListSets
  <2>2. QED
    BY <2>1, <1>10
<1>12. ls \in [D -> ConnRecord] /\ \A d \in D \ {c, old} : ls[d] = conn[d]
  BY <1>6, <1>11 DEF Lists
<1>13. ls[c] = [conn[c] EXCEPT !.ack = "sent", !.in = "open"]
  <2>1. ls[c] = [acked[c] EXCEPT !.in = "open"]
    BY <1>7, <1>11 DEF Lists
  <2>2. acked[c] = [conn[c] EXCEPT !.ack = "sent"]
    BY <1>6, Zenon
  <2>3. QED
    BY <2>1, <2>2, <1>2 DEF ConnRecord
<1>14. old # None => /\ conn[old].from = n => ls[old] = [conn[old] EXCEPT !.out = "gone"]
                     /\ conn[old].from # n => ls[old] = [conn[old] EXCEPT !.in = "gone"]
  <2>1. old # None => acked[old] = conn[old]
    <3>1. \A d \in D \ {c} : acked[d] = conn[d]
      BY <1>6, Zenon
    <3>2. QED
      BY <3>1, <1>4
  <2>2. QED
    BY <1>11, <2>1 DEF Lists
<1>15. ASSUME conn' = ls
       PROVE  /\ conn' \in [D -> ConnRecord] /\ Untouched({c, old}) /\ Closes(old, n)
              /\ conn'[c] = [conn[c] EXCEPT !.ack = "sent", !.in = "open"]
  BY <1>12, <1>13, <1>14, <1>15 DEF Untouched, Closes
<1>16. ASSUME conn' = WithEnd(ls, c, n, "gone")
       PROVE  /\ conn' \in [D -> ConnRecord] /\ Untouched({c, old}) /\ Closes(old, n)
              /\ conn'[c] = [conn[c] EXCEPT !.ack = "sent", !.in = "gone"]
  <2>1. Sets(WithEnd(ls, c, n, "gone"), ls, D, c, n, "gone")
    BY <1>1, <1>12, WithEndSets
  <2>2. Sets(conn', ls, D, c, n, "gone")
    BY <2>1, <1>16
  <2>3. ls[c].from # n
    BY <1>2, <1>13 DEF ConnRecord
  <2>4. conn'[c] = [ls[c] EXCEPT !.in = "gone"] /\ conn' \in [D -> ConnRecord]
    BY <2>2, <2>3 DEF Sets
  <2>5. conn'[c] = [conn[c] EXCEPT !.ack = "sent", !.in = "gone"]
    BY <2>4, <1>13, <1>2 DEF ConnRecord
  <2>6. Untouched({c, old})
    BY <2>2, <1>12 DEF Sets, Untouched
  <2>7. Closes(old, n)
    <3>1. old # None => conn'[old] = ls[old]
      BY <2>2, <1>4 DEF Sets
    <3>2. QED
      BY <3>1, <1>14 DEF Closes
  <2>8. QED
    BY <2>4, <2>5, <2>6, <2>7
<1>17. CASE genesis[p] = genesis[n]
  <2>1. PICK loses \in IF old = None THEN {FALSE} ELSE Loses(c, old) :
          IF loses
          THEN conn' = WithEnd(acked, c, n, "gone") /\ UNCHANGED <<remote, bans, told>>
          ELSE /\ Looked(n, {p})
               /\ IF IsBan(n, p)
                  THEN /\ conn' = WithEnd(ls, c, n, "gone")
                       /\ remote' = [remote EXCEPT ![n][p] = None]
                       /\ UNCHANGED told
                  ELSE /\ conn' = ls
                       /\ remote' = [remote EXCEPT ![n][p] = c]
                       /\ told' = [told EXCEPT ![n] = @ \cup {p}]
    BY <1>5, <1>10, <1>17, Zenon DEF OnVersion
  <2>2. UNCHANGED <<known, genesis, breaks, banned>>
    BY DEF OnVersion
  <2>3. loses = TRUE \/ loses = FALSE
    BY <2>1 DEF Loses
  <2>4. CASE loses = TRUE
    <3>1. old # None /\ TRUE \in Loses(c, old)
      BY <2>1, <2>4
    <3>2. conn' = WithEnd(acked, c, n, "gone") /\ UNCHANGED <<remote, bans, told>>
      BY <2>1, <2>4
    <3>3. QED
      BY <3>1, <3>2, <2>2, <1>9, <1>2, <1>3, <1>4
  <2>5. CASE loses = FALSE
    <3>1. old # None => FALSE \in Loses(c, old)
      BY <2>1, <2>5
    <3>2. Looked(n, {p})
      BY <2>1, <2>5
    <3>3. CASE IsBan(n, p)
      BY <2>1, <2>2, <2>5, <3>2, <3>3, <1>16, <1>2, <1>3, <1>4
    <3>4. CASE ~IsBan(n, p)
      BY <2>1, <2>2, <2>5, <3>1, <3>2, <3>4, <1>15, <1>2, <1>3, <1>4
    <3>5. QED
      BY <3>3, <3>4
  <2>6. QED
    BY <2>3, <2>4, <2>5
<1>18. QED
  BY <1>8, <1>17

\* What the dialling end n makes of an acknowledgement of p.
AckTaken(c, n, p, old) ==
    /\ n \in Node /\ p \in Node /\ n # p
    /\ conn' \in [DOMAIN conn -> ConnRecord]
    /\ conn[c].out = "wait" /\ conn[c].ack = "sent"
    /\ old # None => old \in DOMAIN conn \ {c}
    /\ UNCHANGED <<known, bans, told, genesis, breaks, banned>>
    /\ \/ /\ old # None /\ TRUE \in Loses(c, old)
          /\ conn'[c] = [conn[c] EXCEPT !.ack = "read", !.out = "gone", !.result = "exist"]
          /\ Untouched({c}) /\ UNCHANGED remote
       \/ /\ old # None => FALSE \in Loses(c, old)
          /\ conn'[c] = [conn[c] EXCEPT !.ack = "read", !.out = "open", !.result = "conn"]
          /\ Untouched({c, old}) /\ Closes(old, n)
          /\ remote' = [remote EXCEPT ![n][p] = c]

\* The handler of an acknowledgement does one of these.
LEMMA OnAckEffect ==
    ASSUME Types, RemoteIsListed, NEW c \in DOMAIN conn, OnAck(c),
           NEW n, n = conn[c].from, NEW p, p = conn[c].to, NEW old, old = remote[n][p]
    PROVE  AckTaken(c, n, p, old)
<1> USE DEF AckTaken
<1> PICK D : D = DOMAIN conn
  OBVIOUS
<1>1. conn \in [D -> ConnRecord] /\ c \in D
  BY DialledShape DEF Types
<1>2. /\ conn[c] \in ConnRecord /\ conn[c].to # n
      /\ conn[c].out = "wait" /\ conn[c].ack = "sent"
  BY <1>1 DEF Types, Batches, OnAck
<1>3. n \in Node /\ p \in Node /\ n # p
  BY <1>2 DEF ConnRecord
<1>4. old # None => old \in D /\ old # c
  BY <1>2, <1>3, OldIsAnother
<1>5. PICK read : read = [conn EXCEPT ![c].ack = "read"]
  OBVIOUS
<1>6. /\ read \in [D -> ConnRecord]
      /\ read[c] = [conn[c] EXCEPT !.ack = "read"]
      /\ \A d \in D \ {c} : read[d] = conn[d]
  <2>1. [conn[c] EXCEPT !.ack = "read"] \in ConnRecord
    BY <1>2 DEF ConnRecord
  <2>2. QED
    BY <2>1, <1>1, <1>5
<1>7. read[c].from = n
  BY <1>2, <1>6 DEF ConnRecord
<1>8. PICK ls : ls = List(read, c, n, p)
  OBVIOUS
<1>9. Lists(ls, read, D, c, n, old)
  <2>1. Lists(List(read, c, n, p), read, D, c, n, remote[n][p])
    BY <1>1, <1>4, <1>6, ListSets
  <2>2. QED
    BY <2>1, <1>8
<1>10. ls \in [D -> ConnRecord] /\ \A d \in D \ {c, old} : ls[d] = conn[d]
  BY <1>6, <1>9 DEF Lists
<1>11. ls[c] = [conn[c] EXCEPT !.ack = "read", !.out = "open"]
  <2>1. ls[c] = [read[c] EXCEPT !.out = "open"]
    BY <1>7, <1>9 DEF Lists
  <2>2. read[c] = [conn[c] EXCEPT !.ack = "read"]
    BY <1>6, Zenon
  <2>3. QED
    BY <2>1, <2>2, <1>2 DEF ConnRecord
<1>12. old # None => /\ conn[old].from = n => ls[old] = [conn[old] EXCEPT !.out = "gone"]
                     /\ conn[old].from # n => ls[old] = [conn[old] EXCEPT !.in = "gone"]
  <2>1. old # None => read[old] = conn[old]
    <3>1. \A d \in D \ {c} : read[d] = conn[d]
      BY <1>6, Zenon
    <3>2. QED
      BY <3>1, <1>4
  <2>2. QED
    BY <1>9, <2>1 DEF Lists
<1>13. PICK loses \in IF old = None THEN {FALSE} ELSE Loses(c, old) :
          IF loses
          THEN /\ conn' = [read EXCEPT ![c].out = "gone", ![c].result = "exist"]
               /\ UNCHANGED remote
          ELSE /\ conn' = [ls EXCEPT ![c].result = "conn"]
               /\ remote' = [remote EXCEPT ![n][p] = c]
  BY <1>5, <1>8, Zenon DEF OnAck
<1>14. UNCHANGED <<known, bans, told, genesis, breaks, banned>>
  BY DEF OnAck
<1>15. loses = TRUE \/ loses = FALSE
  BY <1>13 DEF Loses
<1>16. CASE loses = TRUE
  <2>1. old # None /\ TRUE \in Loses(c, old) /\ UNCHANGED remote
    BY <1>13, <1>16
  <2>2. conn' = [read EXCEPT ![c].out = "gone", ![c].result = "exist"]
    BY <1>13, <1>16
  <2>3. [conn[c] EXCEPT !.ack = "read", !.out = "gone", !.result = "exist"] \in ConnRecord
    BY <1>2 DEF ConnRecord
  <2>4. conn'[c] = [conn[c] EXCEPT !.ack = "read", !.out = "gone", !.result = "exist"]
    BY <2>2, <1>1, <1>6, <1>2 DEF ConnRecord
  <2>5. /\ DOMAIN conn' = D /\ conn' = [d \in D |-> conn'[d]]
        /\ \A d \in D \ {c} : conn'[d] = conn[d]
    BY <2>2, <1>6
  <2>6. conn' \in [D -> ConnRecord] /\ Untouched({c})
    BY <2>3, <2>4, <2>5, <1>1 DEF Untouched
  <2>7. QED
    BY <2>1, <2>4, <2>6, <1>14, <1>2, <1>3, <1>4
<1>17. CASE loses = FALSE
  <2>1. old # None => FALSE \in Loses(c, old)
    BY <1>13, <1>17
  <2>2. conn' = [ls EXCEPT ![c].result = "conn"] /\ remote' = [remote EXCEPT ![n][p] = c]
    BY <1>13, <1>17
  <2>3. [conn[c] EXCEPT !.ack = "read", !.out = "open", !.result = "conn"] \in ConnRecord
    BY <1>2 DEF ConnRecord
  <2>4. conn'[c] = [conn[c] EXCEPT !.ack = "read", !.out = "open", !.result = "conn"]
    BY <2>2, <1>1, <1>10, <1>11, <1>2 DEF ConnRecord
  <2>5. /\ DOMAIN conn' = D /\ conn' = [d \in D |-> conn'[d]]
        /\ \A d \in D \ {c} : conn'[d] = ls[d]
    BY <2>2, <1>10
  <2>6. conn' \in [D -> ConnRecord] /\ Untouched({c, old})
    BY <2>3, <2>4, <2>5, <1>1, <1>10 DEF Untouched
  <2>7. Closes(old, n)
    <3>1. old # None => conn'[old] = ls[old]
      BY <2>5, <1>4
    <3>2. QED
      BY <3>1, <1>12 DEF Closes
  <2>8. QED
    BY <2>1, <2>2, <2>4, <2>6, <2>7, <1>14, <1>2, <1>3, <1>4
<1>18. QED
  BY <1>15, <1>16, <1>17

\* Looking a ban up can only end it.
LEMMA LookedEffect ==
    ASSUME Types, NEW n \in Node, NEW peers, Looked(n, peers)
    PROVE  /\ bans' \in [Node -> [Node -> {"none", "day", "over", "forever"}]]
           /\ \A m, p \in Node : bans'[m][p] = bans[m][p] \/ bans'[m][p] = "none"
<1>1. bans \in [Node -> [Node -> {"none", "day", "over", "forever"}]]
  BY DEF Types
<1>2. PICK row : row = [p \in Node |-> IF p \in peers /\ bans[n][p] = "over"
                                      THEN "none" ELSE bans[n][p]]
  OBVIOUS
<1>3. bans' = [bans EXCEPT ![n] = row]
  BY <1>1, <1>2 DEF Looked
<1>4. /\ row \in [Node -> {"none", "day", "over", "forever"}]
      /\ \A p \in Node : row[p] = bans[n][p] \/ row[p] = "none"
  BY <1>1, <1>2
<1>5. QED
  BY <1>1, <1>3, <1>4

\* A new connection is well formed.
LEMMA NewConnType ==
    ASSUME NEW n \in Node, NEW p \in Node, NEW batch \in Conn
    PROVE  NewConn(n, p, batch) \in ConnRecord
<1>1. (CHOOSE t \in Clock : TRUE) \in Clock
  BY PeersConstants
<1>2. QED
  BY <1>1 DEF NewConn, ConnRecord

\* One call of _connectTo dials each willing peer once, under new numbers.
LEMMA CheckOutboundEffect ==
    ASSUME Types, NEW n \in Node, CheckOutbound(n)
    PROVE  \E ids, willing, peer, first :
             /\ peer \in [ids -> willing] /\ willing \subseteq Node
             /\ \A p \in willing : WillConnectTo(n, p)
             /\ \A c, d \in ids : peer[c] = peer[d] => c = d
             /\ ids \cap DOMAIN conn = {} /\ (ids # {} => first \in ids)
             /\ Dialled' /\ DOMAIN conn' = DOMAIN conn \cup ids
             /\ \A c \in DOMAIN conn : conn'[c] = conn[c]
             /\ \A c \in ids : conn'[c] = NewConn(n, peer[c], first)
             /\ \E peers : Looked(n, peers)
             /\ UNCHANGED <<remote, known, told, genesis, breaks, banned>>
<1>1. PICK peers, willing :
        /\ willing = {p \in peers : WillConnectTo(n, p)} /\ peers = Wanted(n)
        /\ LET first == Cardinality(DOMAIN conn) + 1
               ids == first..(first + Cardinality(willing) - 1)
           IN  /\ peers # {} /\ ids \subseteq Conn
               /\ Looked(n, peers)
               /\ \E peer \in [ids -> willing] :
                   /\ {peer[c] : c \in ids} = willing
                   /\ conn' = [c \in DOMAIN conn \cup ids |->
                                  IF c \in ids THEN NewConn(n, peer[c], first) ELSE conn[c]]
               /\ UNCHANGED <<remote, known, told, genesis, breaks, banned>>
  BY Zenon DEF CheckOutbound
<1> DEFINE first == Cardinality(DOMAIN conn) + 1
           ids == first..(first + Cardinality(willing) - 1)
<1>2. /\ first = Cardinality(DOMAIN conn) + 1
      /\ ids = first..(first + Cardinality(willing) - 1)
  OBVIOUS
<1>3. /\ ids \subseteq Conn /\ Looked(n, peers)
      /\ UNCHANGED <<remote, known, told, genesis, breaks, banned>>
  BY <1>1, Zenon
<1>4. PICK peer \in [ids -> willing] :
            /\ {peer[c] : c \in ids} = willing
            /\ conn' = [c \in DOMAIN conn \cup ids |->
                           IF c \in ids THEN NewConn(n, peer[c], first) ELSE conn[c]]
  BY <1>1, Zenon
<1> HIDE DEF first, ids
<1>5. willing \subseteq Node
  <2>1. Wanted(n) \subseteq Node
    <3>1. known[n] \subseteq Node /\ Static[n] \subseteq Node
      BY PeersConstants DEF Types
    <3>2. RandomOut(n, RandomNext(n)) \subseteq Node
      BY <3>1 DEF RandomOut
    <3>3. QED
      BY <3>1, <3>2 DEF Wanted
  <2>2. QED
    BY <2>1, <1>1
<1>6. IsFiniteSet(willing) /\ Cardinality(willing) \in Nat
  <2>1. IsFiniteSet(Node)
    BY PeersConstants
  <2>2. IsFiniteSet(willing)
    BY <2>1, <1>5, FS_Subset
  <2>3. QED
    BY <2>2, FS_CardinalityType
<1>7. PICK k \in Nat : k = Cardinality(DOMAIN conn) /\ DOMAIN conn = 1..k
                       /\ k <= MaxConn /\ conn \in [1..k -> ConnRecord]
  <2>1. MaxConn \in Nat
    BY PeersConstants
  <2>2. QED
    BY <2>1, DialledShape DEF Types
<1>8. PICK m \in Nat : m = Cardinality(willing)
  BY <1>6
<1>9. first = k + 1 /\ ids = (k + 1)..(k + m)
  BY <1>2, <1>7, <1>8
<1>10. ids \cap DOMAIN conn = {} /\ (ids # {} => first \in ids)
  BY <1>7, <1>8, <1>9
<1>11. /\ DOMAIN conn' = DOMAIN conn \cup ids
       /\ \A c \in DOMAIN conn : conn'[c] = conn[c]
       /\ \A c \in ids : conn'[c] = NewConn(n, peer[c], first)
  BY <1>4, <1>10
<1>12. \A p \in willing : WillConnectTo(n, p)
  BY <1>1
<1>13. \A c, d \in ids : peer[c] = peer[d] => c = d
  <2>1. IsFiniteSet(ids) /\ Cardinality(ids) = m
    <3>1. k + 1 \in Int /\ k + m \in Int
      BY <1>7, <1>8
    <3>2. /\ IsFiniteSet((k + 1)..(k + m))
          /\ Cardinality((k + 1)..(k + m)) =
               IF k + 1 > k + m THEN 0 ELSE (k + m) - (k + 1) + 1
      BY <3>1, FS_Interval
    <3>3. QED
      BY <3>2, <1>7, <1>8, <1>9
  <2>2. peer \in Surjection(ids, willing)
    BY <1>4 DEF Surjection
  <2>3. peer \in Injection(ids, willing)
    BY <2>1, <2>2, <1>8, FS_SurjSameCardinalityImpliesInj
  <2>4. QED
    BY <2>3 DEF Injection, IsInjective
<1>14. Dialled'
  <2>1. MaxConn \in Nat
    BY PeersConstants
  <2>2. k + m \in 0..MaxConn
    <3>1. CASE m = 0
      BY <3>1, <2>1, <1>7
    <3>2. CASE m # 0
      <4>1. k + m \in ids
        BY <3>2, <1>7, <1>8, <1>9
      <4>2. QED
        BY <4>1, <1>3, <2>1 DEF Conn
    <3>3. QED
      BY <3>1, <3>2
  <2>3. DOMAIN conn' = 1..(k + m)
    BY <1>7, <1>8, <1>9, <1>11
  <2>4. \A c \in DOMAIN conn' : conn'[c] \in ConnRecord
    <3> SUFFICES ASSUME NEW c \in DOMAIN conn' PROVE conn'[c] \in ConnRecord
      OBVIOUS
    <3>1. CASE c \in DOMAIN conn
      BY <3>1, <1>7, <1>11
    <3>2. CASE c \in ids
      <4>1. peer[c] \in Node /\ first \in Conn
        BY <3>2, <1>4, <1>3, <1>5, <1>10
      <4>2. NewConn(n, peer[c], first) \in ConnRecord
        BY <4>1, NewConnType
      <4>3. QED
        BY <4>2, <3>2, <1>11
    <3>3. QED
      BY <3>1, <3>2, <1>11
  <2>5. conn' = [c \in DOMAIN conn' |-> conn'[c]]
    BY <1>4
  <2>6. conn' \in [1..(k + m) -> ConnRecord]
    BY <2>3, <2>4, <2>5
  <2>7. QED
    BY <2>2, <2>6 DEF Dialled
<1>15. WITNESS ids, willing, peer, first
<1>16. QED
  BY <1>3, <1>4, <1>5, <1>10, <1>11, <1>12, <1>13, <1>14

----------------------------------------------------------------------------
(* What most steps leave alone.                                            *)

SameParties ==
    /\ DOMAIN conn' = DOMAIN conn
    /\ \A d \in DOMAIN conn : /\ conn'[d].from = conn[d].from /\ conn'[d].to = conn[d].to
                             /\ conn'[d].batch = conn[d].batch

\* A step that only edits connections keeps their numbers and batches.
LEMMA EditsKeepBatches ==
    ASSUME Types, conn' \in [DOMAIN conn -> ConnRecord], SameParties
    PROVE  Dialled' /\ Batches'
<1>1. Dialled'
  BY StaysDialled DEF Types
<1>2. Batches'
  BY DEF Types, Batches, SameParties
<1>3. QED
  BY <1>1, <1>2

\* The connections of a pair, by their two ends.
LEMMA BetweenIs ==
    ASSUME NEW x, NEW y, NEW c
    PROVE  c \in Between(x, y) <=>
             /\ c \in DOMAIN conn
             /\ \/ conn[c].from = x /\ conn[c].to = y
                \/ conn[c].from = y /\ conn[c].to = x
BY DEF Between

\* A connection's time is settled once it has been dialled.
TimesStay ==
    \A d \in DOMAIN conn :
        conn[d].out # "dial" => conn'[d].out # "dial" /\ conn'[d].ts = conn[d].ts

CountsGrow ==
    /\ breaks' \in Nat /\ banned' \in Nat /\ breaks <= breaks' /\ banned <= banned'
    /\ genesis' = genesis

\* Nodes that have had no trouble after a step had none before it.
LEMMA PeacefulBefore ==
    ASSUME Types, TimesStay, CountsGrow, NEW x, NEW y,
           DOMAIN conn \subseteq DOMAIN conn',
           \A d \in DOMAIN conn : conn'[d].from = conn[d].from /\ conn'[d].to = conn[d].to,
           Peaceful(x, y)'
    PROVE  Peaceful(x, y)
<1>1. breaks = 0 /\ banned = 0 /\ genesis[x] = genesis[y]
  BY DEF Peaceful, CountsGrow, Types
<1>2. NoTies(x, y)
  <2> SUFFICES ASSUME NEW c \in Between(x, y), NEW d \in Between(x, y), c # d,
                      conn[c].out # "dial", conn[d].out # "dial"
               PROVE  conn[c].ts # conn[d].ts
    BY DEF NoTies
  <2>1. c \in DOMAIN conn /\ d \in DOMAIN conn
    BY DEF Between
  <2>2. c \in Between(x, y)' /\ d \in Between(x, y)'
    BY <2>1 DEF Between
  <2>3. /\ conn'[c].out # "dial" /\ conn'[c].ts = conn[c].ts
        /\ conn'[d].out # "dial" /\ conn'[d].ts = conn[d].ts
    BY <2>1 DEF TimesStay
  <2>4. conn'[c].ts # conn'[d].ts
    BY <2>2, <2>3 DEF Peaceful, NoTies
  <2>5. QED
    BY <2>3, <2>4
<1>3. QED
  BY <1>1, <1>2 DEF Peaceful

\* The order in which the nodes of a pair are named does not matter.
LEMMA PairsAreSets ==
    ASSUME NEW x, NEW y, NEW n, NEW p, {x, y} = {n, p}
    PROVE  /\ Peaceful(x, y) <=> Peaceful(n, p)
           /\ Settled(x, y) <=> Settled(n, p)
<1>1. Between(x, y) = Between(n, p)
  BY DEF Between
<1>2. genesis[x] = genesis[y] <=> genesis[n] = genesis[p]
  OBVIOUS
<1>3. QED
  BY <1>1, <1>2 DEF Peaceful, Settled, NoTies

\* A step on connections of one pair leaves the other pairs as they are.
LEMMA PairStep ==
    ASSUME Types, Pairs, SameParties, TimesStay, CountsGrow, NEW n \in Node, NEW p \in Node,
           \A d \in DOMAIN conn : d \in Between(n, p) \/ conn'[d] = conn[d],
           Peaceful(n, p) /\ Peaceful(n, p)' /\ Settled(n, p) => Settled(n, p)'
    PROVE  Pairs'
<1> SUFFICES ASSUME NEW x \in Node, NEW y \in Node, Peaceful(x, y)' PROVE Settled(x, y)'
  BY DEF Pairs
<1>1. Peaceful(x, y)
  BY PeacefulBefore DEF SameParties
<1>2. Settled(x, y)
  BY <1>1 DEF Pairs
<1>3. CASE {x, y} = {n, p}
  <2>1. (Peaceful(x, y) <=> Peaceful(n, p)) /\ (Settled(x, y) <=> Settled(n, p))
    BY <1>3, PairsAreSets
  <2>2. (Peaceful(x, y)' <=> Peaceful(n, p)') /\ (Settled(x, y)' <=> Settled(n, p)')
    <3>1. Between(x, y)' = Between(n, p)'
      BY <1>3 DEF Between
    <3>2. genesis'[x] = genesis'[y] <=> genesis'[n] = genesis'[p]
      BY <1>3
    <3>3. QED
      BY <3>1, <3>2 DEF Peaceful, Settled, NoTies
  <2>3. QED
    BY <1>1, <1>2, <2>1, <2>2
<1>4. CASE {x, y} # {n, p}
  <2>1. \A c \in Between(x, y) : c \in DOMAIN conn /\ c \notin Between(n, p)
    BY <1>4 DEF Between
  <2>2. \A c \in Between(x, y) : conn'[c] = conn[c]
    BY <2>1
  <2>3. Between(x, y)' = Between(x, y)
    BY DEF Between, SameParties
  <2>4. ASSUME NEW c \in Between(x, y), Beaten(c) PROVE Beaten(c)'
    <3>1. PICK d \in DOMAIN conn :
            /\ conn[d].from = conn[c].to /\ conn[d].to = conn[c].from
            /\ conn[d].ts < conn[c].ts
            /\ conn[d].in = "open" /\ conn[d].out \in {"wait", "open"}
      BY <2>4 DEF Beaten
    <3>2. d \in Between(x, y)
      BY <3>1 DEF Between
    <3>3. conn'[d] = conn[d] /\ conn'[c] = conn[c] /\ d \in DOMAIN conn'
      BY <2>2, <3>2 DEF SameParties
    <3>4. QED
      BY <3>1, <3>3 DEF Beaten
  <2>5. \A c \in Between(x, y) : Stage(c) => Stage(c)'
    BY <2>2 DEF Stage
  <2>6. QED
    BY <1>2, <2>2, <2>3, <2>4, <2>5 DEF Settled
<1>5. QED
  BY <1>3, <1>4

----------------------------------------------------------------------------
(* The steps preserve the invariant.                                       *)

\* Only node n's end of connection old changes: it is gone.
ClosedBy(old, n) ==
    /\ conn'[old].from = conn[old].from /\ conn'[old].to = conn[old].to
    /\ conn'[old].batch = conn[old].batch /\ conn'[old].ts = conn[old].ts
    /\ conn'[old].ack = conn[old].ack /\ conn'[old].result = conn[old].result
    /\ conn'[old].broken = conn[old].broken
    /\ \/ conn[old].from = n /\ conn'[old].out = "gone" /\ conn'[old].in = conn[old].in
       \/ conn[old].from # n /\ conn'[old].in = "gone" /\ conn'[old].out = conn[old].out

\* The end of a connection that a node closes, field by field.
LEMMA ClosesFields ==
    ASSUME Types, NEW old \in DOMAIN conn, NEW n, Closes(old, n), old # None
    PROVE  ClosedBy(old, n)
<1>1. conn[old] \in ConnRecord
  BY DialledShape DEF Types
<1>2. QED
  BY <1>1 DEF Closes, ClosedBy, ConnRecord

\* The accepting end's answer keeps the maps, the chains and the pair agreed:
\* what it gives up is beaten by what it keeps.
LEMMA OnVersionKeeps ==
    ASSUME IInv, NEW c \in DOMAIN conn, OnVersion(c)
    PROVE  IInv'
<1>1. Types /\ RemoteIsListed
  BY DEF IInv
<1>2. PICK n, p, old : n = conn[c].to /\ p = conn[c].from /\ old = remote[n][p]
  OBVIOUS
<1>21. VersionTaken(c, n, p, old)
  BY <1>1, <1>2, OnVersionEffect, Zenon
<1>3. /\ n \in Node /\ p \in Node /\ n # p
      /\ conn' \in [DOMAIN conn -> ConnRecord] /\ conn[c].in = "wait"
      /\ old # None => old \in DOMAIN conn \ {c}
      /\ UNCHANGED <<known, genesis, breaks, banned>>
  BY <1>21 DEF VersionTaken
<1>4. \/ /\ genesis[p] # genesis[n]
         /\ conn'[c] = [conn[c] EXCEPT !.in = "gone"]
         /\ Untouched({c}) /\ UNCHANGED <<remote, bans, told>>
      \/ /\ old # None /\ TRUE \in Loses(c, old)
         /\ conn'[c] = [conn[c] EXCEPT !.ack = "sent", !.in = "gone"]
         /\ Untouched({c}) /\ UNCHANGED <<remote, bans, told>>
      \/ /\ IsBan(n, p) /\ Looked(n, {p})
         /\ conn'[c] = [conn[c] EXCEPT !.ack = "sent", !.in = "gone"]
         /\ Untouched({c, old}) /\ Closes(old, n)
         /\ remote' = [remote EXCEPT ![n][p] = None] /\ UNCHANGED told
      \/ /\ ~IsBan(n, p) /\ Looked(n, {p})
         /\ old # None => FALSE \in Loses(c, old)
         /\ conn'[c] = [conn[c] EXCEPT !.ack = "sent", !.in = "open"]
         /\ Untouched({c, old}) /\ Closes(old, n)
         /\ remote' = [remote EXCEPT ![n][p] = c]
         /\ told' = [told EXCEPT ![n] = @ \cup {p}]
  BY <1>21 DEF VersionTaken
<1>5. PICK D : D = DOMAIN conn
  OBVIOUS
<1>6. /\ conn \in [D -> ConnRecord] /\ c \in D /\ D \subseteq Conn
      /\ None \notin D
  BY <1>1, <1>5, DialledShape, PeersConstants DEF Types, Conn
<1>7. /\ conn'[c].from = p /\ conn'[c].to = n /\ conn'[c].batch = conn[c].batch
      /\ conn'[c].ts = conn[c].ts /\ conn'[c].result = conn[c].result
      /\ conn'[c].broken = conn[c].broken /\ conn'[c].out = conn[c].out
      /\ conn'[c].in \in {"open", "gone"}
  <2>1. conn[c] \in ConnRecord
    BY <1>6
  <2>2. QED
    BY <2>1, <1>2, <1>4 DEF ConnRecord
<1>8. old # None =>
        /\ conn'[old].from = conn[old].from /\ conn'[old].to = conn[old].to
        /\ conn'[old].batch = conn[old].batch /\ conn'[old].ts = conn[old].ts
        /\ conn'[old].ack = conn[old].ack /\ conn'[old].result = conn[old].result
        /\ conn'[old].broken = conn[old].broken
        /\ \/ conn'[old].out = conn[old].out /\ conn'[old].in = conn[old].in
              /\ Untouched({c})
           \/ conn[old].from = n /\ conn'[old].out = "gone" /\ conn'[old].in = conn[old].in
           \/ conn[old].from # n /\ conn'[old].in = "gone" /\ conn'[old].out = conn[old].out
  <2> SUFFICES ASSUME old # None PROVE
        /\ conn'[old].from = conn[old].from /\ conn'[old].to = conn[old].to
        /\ conn'[old].batch = conn[old].batch /\ conn'[old].ts = conn[old].ts
        /\ conn'[old].ack = conn[old].ack /\ conn'[old].result = conn[old].result
        /\ conn'[old].broken = conn[old].broken
        /\ \/ conn'[old].out = conn[old].out /\ conn'[old].in = conn[old].in
              /\ Untouched({c})
           \/ conn[old].from = n /\ conn'[old].out = "gone" /\ conn'[old].in = conn[old].in
           \/ conn[old].from # n /\ conn'[old].in = "gone" /\ conn'[old].out = conn[old].out
    OBVIOUS
  <2>1. CASE Closes(old, n)
    <3>1. ClosedBy(old, n)
      BY <2>1, <1>1, <1>3, ClosesFields, Zenon
    <3>2. QED
      BY <3>1 DEF ClosedBy
  <2>2. CASE Untouched({c})
    BY <2>2, <1>3 DEF Untouched
  <2>3. QED
    BY <2>1, <2>2, <1>4
<1>9. \A d \in D \ {c, old} : conn'[d] = conn[d]
  BY <1>4, <1>5 DEF Untouched
<1>10. SameParties
  <2>1. DOMAIN conn' = D
    BY <1>3, <1>5
  <2>2. ASSUME NEW d \in D PROVE conn'[d].from = conn[d].from /\ conn'[d].to = conn[d].to
                                 /\ conn'[d].batch = conn[d].batch
    <3>1. CASE d = c
      BY <3>1, <1>7, <1>2
    <3>2. CASE d = old
      BY <3>2, <1>8, <1>6
    <3>3. CASE d # c /\ d # old
      BY <3>3, <1>9
    <3>4. QED
      BY <3>1, <3>2, <3>3
  <2>3. QED
    BY <2>1, <2>2, <1>5 DEF SameParties
<1>11. TimesStay
  <2> SUFFICES ASSUME NEW d \in D, conn[d].out # "dial"
               PROVE  conn'[d].out # "dial" /\ conn'[d].ts = conn[d].ts
    BY <1>5 DEF TimesStay
  <2>1. CASE d = c
    BY <2>1, <1>7
  <2>2. CASE d = old
    BY <2>2, <1>8, <1>6
  <2>3. CASE d # c /\ d # old
    BY <2>3, <1>9
  <2>4. QED
    BY <2>1, <2>2, <2>3
<1>12. CountsGrow
  BY <1>1, <1>3 DEF CountsGrow, Types
<1>13. bans' \in [Node -> [Node -> {"none", "day", "over", "forever"}]]
       /\ \A m, q \in Node : bans'[m][q] = bans[m][q] \/ bans'[m][q] = "none"
  BY <1>1, <1>3, <1>4, LookedEffect DEF Types
<1>15. \/ /\ Untouched({c}) /\ UNCHANGED remote /\ UNCHANGED told /\ conn'[c].in = "gone"
       \/ /\ conn'[c].in = "gone" /\ Closes(old, n) /\ UNCHANGED told
          /\ remote' = [remote EXCEPT ![n][p] = None]
       \/ /\ conn'[c].in = "open" /\ Closes(old, n)
          /\ remote' = [remote EXCEPT ![n][p] = c]
          /\ told' = [told EXCEPT ![n] = @ \cup {p}]
  <2>1. conn[c] \in ConnRecord
    BY <1>6
  <2>2. QED
    BY <2>1, <1>4 DEF ConnRecord
<1>16. /\ remote \in [Node -> [Node -> Conn \cup {None}]]
       /\ \A m, q \in Node : remote'[m][q] = remote[m][q] \/ (m = n /\ q = p)
       /\ remote'[n][p] = old \/ remote'[n][p] = None
            \/ (remote'[n][p] = c /\ conn'[c].in = "open")
       /\ remote'[n][p] = old /\ old # None => conn'[old] = conn[old]
       /\ conn'[c].in = "open" => remote'[n][p] = c
  <2>1. remote \in [Node -> [Node -> Conn \cup {None}]]
    BY <1>1 DEF Types
  <2>2. CASE Untouched({c}) /\ UNCHANGED remote /\ conn'[c].in = "gone"
    BY <2>1, <2>2, <1>2, <1>3 DEF Untouched
  <2>3. CASE conn'[c].in = "gone" /\ remote' = [remote EXCEPT ![n][p] = None]
    BY <2>1, <2>3, <1>3
  <2>4. CASE conn'[c].in = "open" /\ remote' = [remote EXCEPT ![n][p] = c]
    <3>1. c # old \/ old = None
      BY <1>3
    <3>2. c # None
      BY <1>6
    <3>3. QED
      BY <2>1, <2>4, <3>1, <3>2, <1>3
  <2>5. QED
    BY <2>2, <2>3, <2>4, <1>15
<1>17. \A d \in D : \/ d = c /\ conn'[d].out = conn[d].out
                    \/ d # c /\ conn'[d] = conn[d] /\ (d = old => UNCHANGED remote)
                    \/ /\ d = old /\ d # c
                       /\ \/ conn[d].from = n /\ conn'[d].out = "gone" /\ conn'[d].in = conn[d].in
                          \/ conn[d].from # n /\ conn'[d].in = "gone" /\ conn'[d].out = conn[d].out
  <2> SUFFICES ASSUME NEW d \in D, d # c, d = old
               PROVE  \/ conn'[d] = conn[d] /\ UNCHANGED remote
                      \/ conn[d].from = n /\ conn'[d].out = "gone" /\ conn'[d].in = conn[d].in
                      \/ conn[d].from # n /\ conn'[d].in = "gone" /\ conn'[d].out = conn[d].out
    BY <1>7, <1>9
  <2>1. CASE Untouched({c}) /\ UNCHANGED remote
    BY <2>1, <1>5 DEF Untouched
  <2>2. CASE Closes(old, n)
    <3>1. ClosedBy(old, n)
      BY <2>2, <1>1, <1>5, <1>6, ClosesFields, Zenon
    <3>2. QED
      BY <3>1 DEF ClosedBy
  <2>3. QED
    BY <2>1, <2>2, <1>15
<1>14. Types'
  <2>1. Dialled' /\ Batches'
    BY <1>1, <1>3, <1>10, EditsKeepBatches
  <2>2. remote' \in [Node -> [Node -> Conn \cup {None}]]
    <3>1. c \in Conn \cup {None} /\ None \in Conn \cup {None}
      BY <1>6
    <3>2. PICK v \in Conn \cup {None} :
            remote' = remote \/ remote' = [remote EXCEPT ![n][p] = v]
      BY <3>1, <1>15
    <3>3. QED
      BY <3>2, <1>3, <1>16
  <2>3. told' \in [Node -> SUBSET Node] /\ known' \in [Node -> SUBSET Node]
    BY <1>1, <1>3, <1>15 DEF Types
  <2>4. genesis' \in Chains /\ breaks' \in Nat /\ banned' \in Nat
    BY <1>1, <1>3 DEF Types
  <2>5. QED
    BY <2>1, <2>2, <2>3, <2>4, <1>13 DEF Types
<1>18. RemoteIsListed'
  <2> SUFFICES ASSUME NEW m \in Node, NEW q \in Node, NEW e, e = remote'[m][q], e # None
               PROVE  /\ e \in DOMAIN conn'
                      /\ \/ /\ conn'[e].from = m /\ conn'[e].to = q
                            /\ conn'[e].out \in {"open", "dead"}
                         \/ conn'[e].from = q /\ conn'[e].to = m /\ conn'[e].in = "open"
    BY DEF RemoteIsListed
  <2>1. CASE m = n /\ q = p /\ e = c /\ conn'[c].in = "open"
    BY <2>1, <1>6, <1>7, <1>10, <1>5 DEF SameParties
  <2>2. CASE remote[m][q] = e /\ ~(m = n /\ q = p /\ conn'[e] # conn[e])
    <3>1. /\ e \in D
          /\ \/ conn[e].from = m /\ conn[e].to = q /\ conn[e].out \in {"open", "dead"}
             \/ conn[e].from = q /\ conn[e].to = m /\ conn[e].in = "open"
      BY <2>2, <1>1, <1>5 DEF RemoteIsListed
    <3>2. conn'[e].from = conn[e].from /\ conn'[e].to = conn[e].to /\ e \in DOMAIN conn'
      BY <3>1, <1>5, <1>10 DEF SameParties
    <3>3. conn[e].from # conn[e].to
      BY <3>1, <1>1, <1>5 DEF Types, Batches
    <3>4. e = old => {conn[e].from, conn[e].to} = {n, p}
      <4> SUFFICES ASSUME e = old PROVE {conn[e].from, conn[e].to} = {n, p}
        OBVIOUS
      <4>1. old # None
        OBVIOUS
      <4>2. QED
        BY <4>1, <1>1, <1>2, <1>3 DEF RemoteIsListed
    <3>5. CASE e = c
      BY <3>1, <3>2, <3>5, <1>3, <1>17
    <3>6. CASE conn'[e] = conn[e]
      BY <3>1, <3>2, <3>6
    <3>7. CASE e = old /\ e # c /\ conn'[e] # conn[e]
      BY <3>1, <3>2, <3>3, <3>4, <3>7, <2>2, <1>3, <1>17
    <3>8. QED
      BY <3>1, <3>5, <3>6, <3>7, <1>17
  <2>3. QED
    BY <2>1, <2>2, <1>2, <1>16
<1>19. OpenIsRemote'
  <2> SUFFICES ASSUME NEW d \in D
               PROVE  /\ conn'[d].out = "open" => remote'[conn'[d].from][conn'[d].to] = d
                      /\ conn'[d].in = "open" => remote'[conn'[d].to][conn'[d].from] = d
    BY <1>5, <1>10 DEF OpenIsRemote, SameParties
  <2>1. /\ conn[d].out = "open" => remote[conn[d].from][conn[d].to] = d
        /\ conn[d].in = "open" => remote[conn[d].to][conn[d].from] = d
    BY <1>5 DEF IInv, OpenIsRemote
  <2>2. conn[d].from \in Node /\ conn[d].to \in Node /\ conn[d].from # conn[d].to
    BY <1>1, <1>5, <1>6 DEF ConnRecord, Types, Batches
  <2>3. conn'[d].from = conn[d].from /\ conn'[d].to = conn[d].to
    BY <1>5, <1>10 DEF SameParties
  <2>4. CASE d = c
    BY <2>1, <2>2, <2>3, <2>4, <1>2, <1>3, <1>7, <1>16
  <2>5. CASE d # c /\ conn'[d] = conn[d] /\ (d = old => UNCHANGED remote)
    <3>1. conn[d].out = "open" => remote'[conn[d].from][conn[d].to] = d
      <4> SUFFICES ASSUME conn[d].out = "open" PROVE remote'[conn[d].from][conn[d].to] = d
        OBVIOUS
      <4>1. remote[conn[d].from][conn[d].to] = d
        BY <2>1
      <4>2. CASE ~(conn[d].from = n /\ conn[d].to = p)
        BY <4>1, <4>2, <2>2, <1>16
      <4>3. CASE conn[d].from = n /\ conn[d].to = p
        BY <4>1, <4>3, <2>5, <1>2
      <4>4. QED
        BY <4>2, <4>3
    <3>2. conn[d].in = "open" => remote'[conn[d].to][conn[d].from] = d
      <4> SUFFICES ASSUME conn[d].in = "open" PROVE remote'[conn[d].to][conn[d].from] = d
        OBVIOUS
      <4>1. remote[conn[d].to][conn[d].from] = d
        BY <2>1
      <4>2. CASE ~(conn[d].to = n /\ conn[d].from = p)
        BY <4>1, <4>2, <2>2, <1>16
      <4>3. CASE conn[d].to = n /\ conn[d].from = p
        BY <4>1, <4>3, <2>5, <1>2
      <4>4. QED
        BY <4>2, <4>3
    <3>3. QED
      BY <2>3, <2>5, <3>1, <3>2
  <2>6. CASE d = old /\ d # c /\ ~(conn'[d] = conn[d] /\ UNCHANGED remote)
    <3>1. {conn[d].from, conn[d].to} = {n, p}
      <4>1. old # None
        BY <2>6, <1>6
      <4>2. QED
        BY <2>6, <4>1, <1>1, <1>2, <1>3 DEF RemoteIsListed
    <3>2. QED
      BY <3>1, <2>1, <2>2, <2>3, <2>6, <1>3, <1>16, <1>17
  <2>7. QED
    BY <2>4, <2>5, <2>6, <1>17
<1>20. \A d \in D : conn'[d].result = conn[d].result /\ conn'[d].broken = conn[d].broken
  <2> SUFFICES ASSUME NEW d \in D
               PROVE  conn'[d].result = conn[d].result /\ conn'[d].broken = conn[d].broken
    OBVIOUS
  <2>1. CASE d = c
    BY <2>1, <1>7
  <2>2. CASE d = old
    BY <2>2, <1>6, <1>8
  <2>3. CASE d # c /\ d # old
    BY <2>3, <1>9
  <2>4. QED
    BY <2>1, <2>2, <2>3
<1>22. \A d \in D : /\ conn'[d].out = "open" => conn[d].out = "open"
                    /\ conn'[d].in = "open" => conn[d].in = "open" \/ d = c
  BY <1>17
<1>23. DialsEnd'
  <2> SUFFICES ASSUME NEW d \in D
               PROVE  /\ conn'[d].out = "dial" => conn'[d].in = "none"
                      /\ conn'[d].out = "open" => conn'[d].result \in {"conn", "done"}
    BY <1>5, <1>10 DEF DialsEnd, SameParties
  <2>1. /\ conn[d].out = "dial" => conn[d].in = "none"
        /\ conn[d].out = "open" => conn[d].result \in {"conn", "done"}
    BY <1>5 DEF IInv, DialsEnd
  <2>2. conn'[d].out = "dial" => conn'[d].in = "none"
    <3>1. CASE d = c
      BY <3>1, <2>1, <1>3, <1>7
    <3>2. CASE d # c /\ d # old
      BY <3>2, <2>1, <1>9
    <3>3. CASE d = old /\ d # c
      <4>1. old # None
        BY <3>3, <1>6
      <4>2. conn[old].out \in {"open", "dead"} \/ conn[old].in = "open"
        BY <4>1, <1>1, <1>2, <1>3 DEF RemoteIsListed
      <4>3. QED
        BY <3>3, <4>2, <2>1, <1>17
    <3>4. QED
      BY <3>1, <3>2, <3>3
  <2>3. QED
    BY <2>1, <2>2, <1>20, <1>22
<1>24. ChainsKnow'
  <2> SUFFICES ASSUME breaks' = 0, NEW d \in D
               PROVE  /\ ~conn'[d].broken
                      /\ conn'[d].in = "open" => conn[d].from \in told'[conn[d].to]
                      /\ conn'[d].out = "open" /\ conn'[d].result = "done" =>
                             conn[d].to \in told'[conn[d].from]
    BY <1>5, <1>10 DEF ChainsKnow, SameParties
  <2>1. /\ ~conn[d].broken
        /\ conn[d].in = "open" => conn[d].from \in told[conn[d].to]
        /\ conn[d].out = "open" /\ conn[d].result = "done" => conn[d].to \in told[conn[d].from]
    BY <1>3, <1>5 DEF IInv, ChainsKnow
  <2>2. /\ \A m \in Node : told[m] \subseteq told'[m]
        /\ conn'[c].in = "open" => p \in told'[n]
    <3>1. told \in [Node -> SUBSET Node]
      BY <1>1 DEF Types
    <3>2. QED
      BY <3>1, <1>3, <1>15
  <2>3. conn[d].from \in Node /\ conn[d].to \in Node
    BY <1>6 DEF ConnRecord
  <2>4. CASE d = c /\ conn'[d].in = "open"
    BY <2>1, <2>2, <2>3, <2>4, <1>2, <1>20, <1>22
  <2>5. CASE ~(d = c /\ conn'[d].in = "open")
    BY <2>1, <2>2, <2>3, <2>5, <1>20, <1>22
  <2>6. QED
    BY <2>4, <2>5
<1>25. NobodyBanned'
  BY <1>3, <1>13 DEF IInv, NobodyBanned
<1>26. Pairs'
  <2>1. \A d \in DOMAIN conn : d \in Between(n, p) \/ conn'[d] = conn[d]
    <3> SUFFICES ASSUME NEW d \in D PROVE d \in Between(n, p) \/ conn'[d] = conn[d]
      BY <1>5
    <3>1. c \in Between(n, p)
      BY <1>2, <1>5, <1>6, BetweenIs
    <3>2. old # None => old \in Between(n, p)
      BY <1>1, <1>2, <1>3, BetweenIs DEF RemoteIsListed
    <3>3. d = old => old # None
      BY <1>6
    <3>4. QED
      BY <3>1, <3>2, <3>3, <1>17
  <2>2. ASSUME Peaceful(n, p), Settled(n, p), Peaceful(n, p)' PROVE Settled(n, p)'
    <3>1. c \in Between(n, p) /\ Stage(c)
      BY <2>2, <1>2, <1>5, <1>6, BetweenIs DEF Settled
    <3>2. conn[c].out = "wait" /\ conn[c].ack = "none" /\ conn[c].result = "pending"
      BY <3>1, <1>3 DEF Stage
    <3>3. ~IsBan(n, p) /\ genesis[p] = genesis[n]
      BY <2>2, <1>3 DEF IInv, Peaceful, NobodyBanned, IsBan
    <3>4. ASSUME NEW e \in Between(n, p), e # c
          PROVE  /\ e \in D /\ Stage(e)
                 /\ conn[e].from = n /\ conn[e].to = p
                 /\ conn[e].in # "gone" /\ conn[e].out # "gone"
      <4>1. e \in D /\ Stage(e)
        BY <2>2, <1>5, BetweenIs DEF Settled
      <4>2. conn[e].from # p
        BY <2>2, <3>1, <3>4, <1>2 DEF Settled
      <4>3. conn[e].from = n /\ conn[e].to = p
        BY <3>4, <4>2, BetweenIs
      <4>4. ~Beaten(e)
        <5> SUFFICES ASSUME NEW d \in D, conn[d].from = p, conn[d].to = n, conn[d].in = "open"
                     PROVE  FALSE
          BY <4>3, <1>5 DEF Beaten
        <5>1. d \in Between(n, p)
          BY <1>5, BetweenIs
        <5>2. d = c
          BY <5>1, <2>2, <3>1, <1>2 DEF Settled
        <5>3. QED
          BY <5>2, <1>3
      <4>5. QED
        BY <4>1, <4>3, <4>4, <2>2 DEF Settled
    <3>5. ASSUME old # None
          PROVE  /\ old \in Between(n, p) /\ old # c
                 /\ conn[old].out = "open" /\ conn[old].in = "open" /\ conn[old].ack = "read"
                 /\ conn[old].ts # conn[c].ts
                 /\ \A e \in Between(n, p) : e # c => e = old
      <4>1. old \in Between(n, p) /\ old # c /\ conn[old].out \in {"open", "dead"}
        <5>1. old \in D /\ old # c
          BY <3>5, <1>3, <1>5
        <5>2. /\ \/ conn[old].from = n /\ conn[old].to = p /\ conn[old].out \in {"open", "dead"}
                 \/ conn[old].from = p /\ conn[old].to = n /\ conn[old].in = "open"
          BY <3>5, <1>1, <1>2, <1>3 DEF RemoteIsListed
        <5>3. old \in Between(n, p)
          BY <5>1, <5>2, <1>5, BetweenIs
        <5>4. QED
          BY <5>1, <5>2, <5>3, <3>4, <1>3
      <4>2. conn[old].out = "open" /\ conn[old].in = "open" /\ conn[old].ack = "read"
        BY <4>1, <3>4 DEF Stage
      <4>3. conn[old].ts # conn[c].ts
        BY <4>1, <4>2, <3>1, <3>2, <2>2 DEF Peaceful, NoTies
      <4>4. \A e \in Between(n, p) : e # c => e = old
        BY <4>1, <3>4, <2>2 DEF Settled
      <4>5. QED
        BY <4>1, <4>2, <4>3, <4>4
    <3>6. conn[c].ts \in Nat /\ \A d \in D : conn[d].ts \in Nat
      BY <1>6, PeersConstants DEF ConnRecord
    <3>7. Between(n, p)' = Between(n, p)
      BY <1>10 DEF Between, SameParties
    <3>8. \A d, e \in Between(n, p) : conn'[d].from = conn'[e].from => d = e
      BY <2>2, <1>10 DEF Between, Settled, SameParties
    <3>9. conn'[c].ack = "sent"
      <4>1. conn[c] \in ConnRecord
        BY <1>6
      <4>2. QED
        BY <4>1, <3>3, <1>4 DEF ConnRecord
    <3>10. Stage(c)'
      BY <3>1, <3>2, <3>9, <1>7 DEF Stage
    <3>14. \/ /\ old # None /\ TRUE \in Loses(c, old)
              /\ Untouched({c}) /\ conn'[c].in = "gone"
           \/ /\ old # None => FALSE \in Loses(c, old)
              /\ Closes(old, n) /\ conn'[c].in = "open"
      <4>1. conn[c] \in ConnRecord
        BY <1>6
      <4>2. QED
        BY <3>3, <1>4, <4>1 DEF ConnRecord
    <3>11. CASE /\ old # None /\ TRUE \in Loses(c, old)
                /\ Untouched({c}) /\ conn'[c].in = "gone"
      <4>1. old # None /\ TRUE \in Loses(c, old)
        BY <3>11
      <4>2. conn[old].ts < conn[c].ts
        <5>1. conn[c].ts > conn[old].ts
          BY <4>1, <3>5 DEF Loses
        <5>2. conn[old].ts \in Nat
          BY <4>1, <1>3, <1>5, <3>6
        <5>3. QED
          BY <5>1, <5>2, <3>6
      <4>3. old \in D /\ conn'[old] = conn[old] /\ conn[old].from = n /\ conn[old].to = p
        BY <4>1, <3>4, <3>5, <3>11, <1>5 DEF Untouched
      <4>4. Beaten(c)'
        <5>1. /\ old \in DOMAIN conn' /\ conn'[old].from = conn'[c].to
              /\ conn'[old].to = conn'[c].from /\ conn'[old].ts < conn'[c].ts
              /\ conn'[old].in = "open" /\ conn'[old].out \in {"wait", "open"}
          BY <4>1, <4>2, <4>3, <3>5, <1>2, <1>5, <1>7, <1>10 DEF SameParties
        <5>2. QED
          BY <5>1 DEF Beaten
      <4>5. ASSUME NEW e \in Between(n, p), e # c
            PROVE  Stage(e)' /\ conn'[e].in # "gone" /\ conn'[e].out # "gone"
        <5>1. conn'[e] = conn[e]
          BY <4>5, <3>4, <3>11, <1>5 DEF Untouched
        <5>2. QED
          BY <5>1, <4>5, <3>4 DEF Stage
      <4>6. QED
        BY <3>7, <3>8, <3>10, <4>4, <4>5 DEF Settled
    <3>12. CASE /\ old # None => FALSE \in Loses(c, old)
                /\ Closes(old, n) /\ conn'[c].in = "open"
      <4>1. old # None => FALSE \in Loses(c, old)
        BY <3>12
      <4>2. ASSUME NEW e \in Between(n, p), e # c
            PROVE  Stage(e)' /\ (conn'[e].in = "gone" \/ conn'[e].out = "gone" => Beaten(e)')
        <5>1. e \in D /\ Stage(e) /\ conn[e].from = n /\ conn[e].to = p
              /\ conn[e].in # "gone" /\ conn[e].out # "gone"
          BY <4>2, <3>4
        <5>2. CASE conn'[e] = conn[e]
          BY <5>1, <5>2 DEF Stage
        <5>3. CASE conn'[e] # conn[e]
          <6>1. e = old /\ conn'[e].out = "gone" /\ conn'[e].in = conn[e].in
            BY <4>2, <5>1, <5>3, <1>17
          <6>2. old # None
            BY <6>1, <5>1, <1>6
          <6>3. Stage(e)'
            BY <6>1, <6>2, <3>5, <1>8 DEF Stage
          <6>4. conn[c].ts < conn[e].ts
            <7>1. ~(conn[c].ts > conn[e].ts) /\ conn[c].ts # conn[e].ts
              BY <4>1, <6>1, <6>2, <3>5 DEF Loses
            <7>2. QED
              BY <7>1, <5>1, <3>6
          <6>5. /\ c \in DOMAIN conn' /\ conn'[c].from = conn'[e].to
                /\ conn'[c].to = conn'[e].from /\ conn'[c].ts < conn'[e].ts
                /\ conn'[c].in = "open" /\ conn'[c].out \in {"wait", "open"}
            BY <6>1, <6>2, <6>4, <5>1, <3>2, <3>12, <1>5, <1>6, <1>7, <1>8, <1>10 DEF SameParties
          <6>6. Beaten(e)'
            BY <6>5 DEF Beaten
          <6>7. QED
            BY <6>3, <6>6
        <5>4. QED
          BY <5>2, <5>3
      <4>3. conn'[c].in # "gone" /\ conn'[c].out # "gone"
        BY <3>2, <3>12, <1>7
      <4>4. QED
        BY <3>7, <3>8, <3>10, <4>2, <4>3 DEF Settled
    <3>13. QED
      BY <3>11, <3>12, <3>14
  <2>3. QED
    BY <2>1, <2>2, <1>1, <1>3, <1>10, <1>11, <1>12, PairStep DEF IInv
<1>27. QED
  BY <1>14, <1>18, <1>19, <1>23, <1>24, <1>25, <1>26 DEF IInv

\* The dialling end's answer keeps the maps, the chains and the pair agreed.
LEMMA OnAckKeeps ==
    ASSUME IInv, NEW c \in DOMAIN conn, OnAck(c)
    PROVE  IInv'
<1>1. Types /\ RemoteIsListed /\ OpenIsRemote
  BY DEF IInv
<1>2. PICK n, p, old : n = conn[c].from /\ p = conn[c].to /\ old = remote[n][p]
  OBVIOUS
<1>3. AckTaken(c, n, p, old)
  BY <1>1, <1>2, OnAckEffect, Zenon
<1>4. /\ n \in Node /\ p \in Node /\ n # p
      /\ conn' \in [DOMAIN conn -> ConnRecord]
      /\ conn[c].out = "wait" /\ conn[c].ack = "sent"
      /\ old # None => old \in DOMAIN conn \ {c}
      /\ UNCHANGED <<known, bans, told, genesis, breaks, banned>>
  BY <1>3 DEF AckTaken
<1>5. PICK D : D = DOMAIN conn
  OBVIOUS
<1>6. /\ conn \in [D -> ConnRecord] /\ c \in D /\ D \subseteq Conn
      /\ None \notin D
  BY <1>1, <1>5, DialledShape, PeersConstants DEF Types, Conn
<1>7. /\ conn'[c].from = n /\ conn'[c].to = p /\ conn'[c].batch = conn[c].batch
      /\ conn'[c].ts = conn[c].ts /\ conn'[c].broken = conn[c].broken
      /\ conn'[c].in = conn[c].in /\ conn'[c].ack = "read"
      /\ \/ /\ conn'[c].out = "gone" /\ conn'[c].result = "exist"
            /\ old # None /\ TRUE \in Loses(c, old) /\ Untouched({c}) /\ UNCHANGED remote
         \/ /\ conn'[c].out = "open" /\ conn'[c].result = "conn"
            /\ old # None => FALSE \in Loses(c, old)
            /\ Untouched({c, old}) /\ Closes(old, n)
            /\ remote' = [remote EXCEPT ![n][p] = c]
  <2>1. conn[c] \in ConnRecord
    BY <1>6
  <2>2. CASE /\ old # None /\ TRUE \in Loses(c, old)
             /\ conn'[c] = [conn[c] EXCEPT !.ack = "read", !.out = "gone", !.result = "exist"]
             /\ Untouched({c}) /\ UNCHANGED remote
    BY <2>1, <2>2, <1>2 DEF ConnRecord
  <2>3. CASE /\ old # None => FALSE \in Loses(c, old)
             /\ conn'[c] = [conn[c] EXCEPT !.ack = "read", !.out = "open", !.result = "conn"]
             /\ Untouched({c, old}) /\ Closes(old, n)
             /\ remote' = [remote EXCEPT ![n][p] = c]
    BY <2>1, <2>3, <1>2 DEF ConnRecord
  <2>4. QED
    BY <2>2, <2>3, <1>3 DEF AckTaken
<1>8. \A d \in D \ {c} :
        \/ conn'[d] = conn[d] /\ (d = old => UNCHANGED remote)
        \/ /\ d = old /\ conn'[c].out = "open"
           /\ conn'[d].from = conn[d].from /\ conn'[d].to = conn[d].to
           /\ conn'[d].batch = conn[d].batch /\ conn'[d].ts = conn[d].ts
           /\ conn'[d].ack = conn[d].ack /\ conn'[d].result = conn[d].result
           /\ conn'[d].broken = conn[d].broken
           /\ \/ conn[d].from = n /\ conn'[d].out = "gone" /\ conn'[d].in = conn[d].in
              \/ conn[d].from # n /\ conn'[d].in = "gone" /\ conn'[d].out = conn[d].out
  <2> SUFFICES ASSUME NEW d \in D, d # c, d = old
      PROVE  \/ conn'[d] = conn[d] /\ UNCHANGED remote
             \/ /\ conn'[c].out = "open"
                /\ conn'[d].from = conn[d].from /\ conn'[d].to = conn[d].to
                /\ conn'[d].batch = conn[d].batch /\ conn'[d].ts = conn[d].ts
                /\ conn'[d].ack = conn[d].ack /\ conn'[d].result = conn[d].result
                /\ conn'[d].broken = conn[d].broken
                /\ \/ conn[d].from = n /\ conn'[d].out = "gone" /\ conn'[d].in = conn[d].in
                   \/ conn[d].from # n /\ conn'[d].in = "gone" /\ conn'[d].out = conn[d].out
    <3>1. Untouched({c, old})
      BY <1>7 DEF Untouched
    <3>2. QED
      BY <3>1, <1>5 DEF Untouched
  <2>1. CASE Untouched({c}) /\ UNCHANGED remote
    BY <2>1, <1>5 DEF Untouched
  <2>2. CASE Closes(old, n) /\ conn'[c].out = "open"
    <3>1. ClosedBy(old, n)
      BY <2>2, <1>1, <1>5, <1>6, ClosesFields, Zenon
    <3>2. QED
      BY <3>1, <2>2 DEF ClosedBy
  <2>3. QED
    BY <2>1, <2>2, <1>7
<1>9. SameParties
  <2>1. DOMAIN conn' = D
    BY <1>4, <1>5
  <2>2. ASSUME NEW d \in D PROVE conn'[d].from = conn[d].from /\ conn'[d].to = conn[d].to
                                 /\ conn'[d].batch = conn[d].batch
    BY <1>2, <1>7, <1>8
  <2>3. QED
    BY <2>1, <2>2, <1>5 DEF SameParties
<1>10. TimesStay
  <2> SUFFICES ASSUME NEW d \in D, conn[d].out # "dial"
               PROVE  conn'[d].out # "dial" /\ conn'[d].ts = conn[d].ts
    BY <1>5 DEF TimesStay
  <2>1. CASE d = c
    BY <2>1, <1>7
  <2>2. CASE d # c
    BY <2>2, <1>8
  <2>3. QED
    BY <2>1, <2>2
<1>11. CountsGrow
  BY <1>1, <1>4 DEF CountsGrow, Types
<1>12. /\ remote \in [Node -> [Node -> Conn \cup {None}]]
       /\ \A m, q \in Node : remote'[m][q] = remote[m][q] \/ (m = n /\ q = p)
       /\ remote' = remote \/ (remote'[n][p] = c /\ conn'[c].out = "open")
       /\ conn'[c].out = "open" => remote'[n][p] = c
  <2>1. remote \in [Node -> [Node -> Conn \cup {None}]]
    BY <1>1 DEF Types
  <2>2. CASE conn'[c].out = "gone" /\ UNCHANGED remote
    BY <2>1, <2>2
  <2>3. CASE conn'[c].out = "open" /\ remote' = [remote EXCEPT ![n][p] = c]
    BY <2>1, <2>3, <1>4
  <2>4. QED
    BY <2>2, <2>3, <1>7
<1>13. Types'
  <2>1. Dialled' /\ Batches'
    BY <1>1, <1>4, <1>9, EditsKeepBatches
  <2>2. remote' \in [Node -> [Node -> Conn \cup {None}]]
    <3>1. c \in Conn \cup {None}
      BY <1>6
    <3>2. remote' = remote \/ remote' = [remote EXCEPT ![n][p] = c]
      BY <1>7
    <3>3. QED
      BY <3>1, <3>2, <1>4, <1>12
  <2>3. QED
    BY <2>1, <2>2, <1>1, <1>4 DEF Types
<1>14. RemoteIsListed'
  <2> SUFFICES ASSUME NEW m \in Node, NEW q \in Node, NEW e, e = remote'[m][q], e # None
               PROVE  /\ e \in DOMAIN conn'
                      /\ \/ /\ conn'[e].from = m /\ conn'[e].to = q
                            /\ conn'[e].out \in {"open", "dead"}
                         \/ conn'[e].from = q /\ conn'[e].to = m /\ conn'[e].in = "open"
    BY DEF RemoteIsListed
  <2>1. CASE m = n /\ q = p /\ e = c /\ conn'[c].out = "open"
    BY <2>1, <1>5, <1>6, <1>7, <1>9 DEF SameParties
  <2>2. CASE remote[m][q] = e /\ (UNCHANGED remote \/ ~(m = n /\ q = p))
    <3>1. /\ e \in D
          /\ \/ conn[e].from = m /\ conn[e].to = q /\ conn[e].out \in {"open", "dead"}
             \/ conn[e].from = q /\ conn[e].to = m /\ conn[e].in = "open"
      BY <2>2, <1>1, <1>5 DEF RemoteIsListed
    <3>2. conn'[e].from = conn[e].from /\ conn'[e].to = conn[e].to /\ e \in DOMAIN conn'
      BY <3>1, <1>5, <1>9 DEF SameParties
    <3>3. conn[e].from # conn[e].to
      BY <3>1, <1>1, <1>5 DEF Types, Batches
    <3>4. CASE e = c
      BY <3>1, <3>2, <3>4, <1>4, <1>7
    <3>5. CASE e # c /\ conn'[e] = conn[e]
      BY <3>1, <3>2, <3>5
    <3>6. CASE e = old /\ e # c /\ ~(conn'[e] = conn[e] /\ UNCHANGED remote)
      <4>1. {conn[e].from, conn[e].to} = {n, p}
        BY <3>6, <1>1, <1>2, <1>4 DEF RemoteIsListed
      <4>2. remote' # remote
        BY <3>1, <3>6, <1>8, <1>7, <1>12, <1>2, <1>4, <1>6
      <4>3. QED
        BY <3>1, <3>2, <3>3, <3>6, <4>1, <4>2, <2>2, <1>4, <1>8
    <3>7. QED
      BY <3>1, <3>4, <3>5, <3>6, <1>8
  <2>3. QED
    BY <2>1, <2>2, <1>12
<1>15. OpenIsRemote'
  <2> SUFFICES ASSUME NEW d \in D
               PROVE  /\ conn'[d].out = "open" => remote'[conn'[d].from][conn'[d].to] = d
                      /\ conn'[d].in = "open" => remote'[conn'[d].to][conn'[d].from] = d
    BY <1>5, <1>9 DEF OpenIsRemote, SameParties
  <2>1. /\ conn[d].out = "open" => remote[conn[d].from][conn[d].to] = d
        /\ conn[d].in = "open" => remote[conn[d].to][conn[d].from] = d
    BY <1>1, <1>5 DEF OpenIsRemote
  <2>2. conn[d].from \in Node /\ conn[d].to \in Node /\ conn[d].from # conn[d].to
    BY <1>1, <1>5, <1>6 DEF ConnRecord, Types, Batches
  <2>3. conn'[d].from = conn[d].from /\ conn'[d].to = conn[d].to
    BY <1>5, <1>9 DEF SameParties
  <2>4. CASE d = c
    BY <2>1, <2>2, <2>3, <2>4, <1>2, <1>4, <1>7, <1>12
  <2>5. CASE d # c /\ conn'[d] = conn[d] /\ (d = old => UNCHANGED remote)
    BY <2>1, <2>2, <2>3, <2>5, <1>2, <1>12
  <2>6. CASE d = old /\ d # c /\ ~(conn'[d] = conn[d] /\ UNCHANGED remote)
    <3>1. {conn[d].from, conn[d].to} = {n, p}
      <4>1. old # None
        BY <2>6, <1>6
      <4>2. QED
        BY <2>6, <4>1, <1>1, <1>2, <1>4 DEF RemoteIsListed
    <3>2. QED
      BY <3>1, <2>1, <2>2, <2>3, <2>6, <1>4, <1>8, <1>12
  <2>7. QED
    BY <2>4, <2>5, <2>6, <1>8
<1>16. DialsEnd'
  <2> SUFFICES ASSUME NEW d \in D
               PROVE  /\ conn'[d].out = "dial" => conn'[d].in = "none"
                      /\ conn'[d].out = "open" => conn'[d].result \in {"conn", "done"}
    BY <1>5, <1>9 DEF DialsEnd, SameParties
  <2>1. /\ conn[d].out = "dial" => conn[d].in = "none"
        /\ conn[d].out = "open" => conn[d].result \in {"conn", "done"}
    BY <1>5 DEF IInv, DialsEnd
  <2>2. CASE d = c
    BY <2>2, <1>7
  <2>3. CASE d # c /\ conn'[d] = conn[d]
    BY <2>1, <2>3
  <2>4. CASE d # c /\ conn'[d] # conn[d]
    <3>1. d = old /\ old # None
      BY <2>4, <1>6, <1>8
    <3>2. conn[old].out \in {"open", "dead"} \/ conn[old].in = "open"
      BY <3>1, <1>1, <1>2, <1>4 DEF RemoteIsListed
    <3>3. QED
      BY <3>1, <3>2, <2>1, <2>4, <1>8
  <2>5. QED
    BY <2>2, <2>3, <2>4
<1>17. ChainsKnow'
  <2> SUFFICES ASSUME breaks' = 0, NEW d \in D
               PROVE  /\ ~conn'[d].broken
                      /\ conn'[d].in = "open" => conn[d].from \in told'[conn[d].to]
                      /\ conn'[d].out = "open" /\ conn'[d].result = "done" =>
                             conn[d].to \in told'[conn[d].from]
    BY <1>5, <1>9 DEF ChainsKnow, SameParties
  <2>1. /\ ~conn[d].broken
        /\ conn[d].in = "open" => conn[d].from \in told[conn[d].to]
        /\ conn[d].out = "open" /\ conn[d].result = "done" => conn[d].to \in told[conn[d].from]
    BY <1>4, <1>5 DEF IInv, ChainsKnow
  <2>2. CASE d = c
    BY <2>1, <2>2, <1>4, <1>7
  <2>3. CASE d # c
    BY <2>1, <2>3, <1>4, <1>8
  <2>4. QED
    BY <2>2, <2>3
<1>18. NobodyBanned'
  BY <1>4 DEF IInv, NobodyBanned
<1>19. Pairs'
  <2>1. \A d \in DOMAIN conn : d \in Between(n, p) \/ conn'[d] = conn[d]
    <3> SUFFICES ASSUME NEW d \in D PROVE d \in Between(n, p) \/ conn'[d] = conn[d]
      BY <1>5
    <3>1. c \in Between(n, p)
      BY <1>2, <1>5, <1>6, BetweenIs
    <3>2. old # None => old \in Between(n, p)
      BY <1>1, <1>2, <1>4, BetweenIs DEF RemoteIsListed
    <3>3. d = old => old # None
      BY <1>6
    <3>4. QED
      BY <3>1, <3>2, <3>3, <1>8
  <2>2. ASSUME Peaceful(n, p), Settled(n, p), Peaceful(n, p)' PROVE Settled(n, p)'
    <3>1. c \in Between(n, p) /\ Stage(c) /\ (conn[c].in = "gone" => Beaten(c))
      BY <2>2, <1>2, <1>5, <1>6, BetweenIs DEF Settled
    <3>2. conn[c].in \in {"open", "gone"}
      BY <3>1, <1>4 DEF Stage
    <3>3. ASSUME NEW e \in Between(n, p), e # c
          PROVE  /\ e \in D /\ Stage(e) /\ conn[e].from = p /\ conn[e].to = n
                 /\ conn[e].in = "gone" \/ conn[e].out = "gone" =>
                      /\ conn[c].ts < conn[e].ts /\ conn[c].in = "open"
      <4>1. e \in D /\ Stage(e)
        BY <2>2, <1>5, BetweenIs DEF Settled
      <4>2. conn[e].from # n
        BY <2>2, <3>1, <3>3, <1>2 DEF Settled
      <4>3. conn[e].from = p /\ conn[e].to = n
        BY <3>3, <4>2, BetweenIs
      <4>4. Beaten(e) => conn[c].ts < conn[e].ts /\ conn[c].in = "open"
        <5> SUFFICES ASSUME NEW d \in D, conn[d].from = n, conn[d].to = p,
                            conn[d].ts < conn[e].ts, conn[d].in = "open"
                     PROVE  conn[c].ts < conn[e].ts /\ conn[c].in = "open"
          BY <4>3, <1>5 DEF Beaten
        <5>1. d \in Between(n, p)
          BY <1>5, BetweenIs
        <5>2. d = c
          BY <5>1, <2>2, <3>1, <1>2 DEF Settled
        <5>3. QED
          BY <5>2
      <4>5. QED
        BY <4>1, <4>3, <4>4, <2>2 DEF Settled
    <3>4. conn[c].ts \in Nat /\ \A d \in D : conn[d].ts \in Nat
      BY <1>6, PeersConstants DEF ConnRecord
    <3>5. ASSUME old # None
          PROVE  /\ old \in Between(n, p) /\ old # c /\ old \in D
                 /\ conn[old].in = "open" /\ conn[old].ts # conn[c].ts
                 /\ \A e \in Between(n, p) : e # c => e = old
      <4>1. old \in D /\ old # c
        BY <3>5, <1>4, <1>5
      <4>2. /\ \/ conn[old].from = n /\ conn[old].to = p /\ conn[old].out \in {"open", "dead"}
               \/ conn[old].from = p /\ conn[old].to = n /\ conn[old].in = "open"
        BY <3>5, <1>1, <1>2, <1>4 DEF RemoteIsListed
      <4>3. old \in Between(n, p)
        BY <4>1, <4>2, <1>5, BetweenIs
      <4>4. conn[old].in = "open" /\ conn[old].from = p
        BY <4>1, <4>2, <4>3, <3>3, <1>4
      <4>5. conn[old].out # "dial" /\ conn[c].out # "dial"
        BY <4>1, <4>3, <4>4, <3>3, <1>4 DEF Stage
      <4>6. conn[old].ts # conn[c].ts
        BY <4>1, <4>3, <4>5, <3>1, <2>2 DEF Peaceful, NoTies
      <4>7. \A e \in Between(n, p) : e # c => e = old
        BY <4>3, <4>4, <3>3, <2>2 DEF Settled
      <4>8. QED
        BY <4>1, <4>3, <4>4, <4>6, <4>7
    <3>6. ASSUME conn[c].in = "gone"
          PROVE  old # None /\ conn[old].ts < conn[c].ts
      <4>1. PICK d \in D : /\ conn[d].from = p /\ conn[d].to = n
                           /\ conn[d].ts < conn[c].ts /\ conn[d].in = "open"
        BY <3>1, <3>6, <1>2, <1>5 DEF Beaten
      <4>2. remote[n][p] = d
        BY <4>1, <1>1, <1>5 DEF OpenIsRemote
      <4>3. QED
        BY <4>1, <4>2, <1>2, <1>6
    <3>7. Between(n, p)' = Between(n, p)
      BY <1>9 DEF Between, SameParties
    <3>8. \A d, e \in Between(n, p) : conn'[d].from = conn'[e].from => d = e
      BY <2>2, <1>9 DEF Between, Settled, SameParties
    <3>9. Stage(c)'
      BY <3>2, <1>7 DEF Stage
    <3>10. CASE /\ conn'[c].out = "gone" /\ old # None /\ TRUE \in Loses(c, old)
                /\ Untouched({c})
      <4>1. conn[old].ts < conn[c].ts
        <5>1. conn[c].ts > conn[old].ts
          BY <3>10, <3>5 DEF Loses
        <5>2. QED
          BY <5>1, <3>4, <3>5, <3>10
      <4>2. conn[old].in # "gone" /\ conn[old].out # "gone"
        <5>1. ~(conn[c].ts < conn[old].ts)
          BY <4>1, <3>4, <3>5, <3>10
        <5>2. QED
          BY <5>1, <3>3, <3>5, <3>10
      <4>3. /\ conn'[old] = conn[old] /\ conn[old].from = p /\ conn[old].to = n
            /\ conn[old].in = "open" /\ conn[old].out \in {"wait", "open"} /\ Stage(old)
        BY <4>2, <3>3, <3>5, <3>10, <1>5 DEF Untouched, Stage
      <4>4. Beaten(c)'
        <5>1. /\ old \in DOMAIN conn' /\ conn'[old].from = conn'[c].to
              /\ conn'[old].to = conn'[c].from /\ conn'[old].ts < conn'[c].ts
              /\ conn'[old].in = "open" /\ conn'[old].out \in {"wait", "open"}
          BY <4>1, <4>3, <3>5, <3>10, <1>5, <1>7, <1>9 DEF SameParties
        <5>2. QED
          BY <5>1 DEF Beaten
      <4>5. ASSUME NEW e \in Between(n, p), e # c
            PROVE  Stage(e)' /\ conn'[e].in # "gone" /\ conn'[e].out # "gone"
        <5>1. e = old
          BY <4>5, <3>5, <3>10
        <5>2. QED
          BY <5>1, <4>2, <4>3 DEF Stage
      <4>6. QED
        BY <3>7, <3>8, <3>9, <4>4, <4>5 DEF Settled
    <3>11. CASE /\ conn'[c].out = "open" /\ (old # None => FALSE \in Loses(c, old))
      <4>1. old # None => conn[c].ts < conn[old].ts
        <5> SUFFICES ASSUME old # None PROVE conn[c].ts < conn[old].ts
          OBVIOUS
        <5>1. ~(conn[c].ts > conn[old].ts) /\ conn[c].ts # conn[old].ts
          BY <3>5, <3>11 DEF Loses
        <5>2. QED
          BY <5>1, <3>4, <3>5
      <4>2. conn[c].in = "open"
        <5>1. conn[c].in # "gone"
          BY <4>1, <3>4, <3>5, <3>6
        <5>2. QED
          BY <5>1, <3>2
      <4>3. conn'[c].in # "gone" /\ conn'[c].out # "gone"
        BY <4>2, <3>11, <1>7
      <4>4. ASSUME NEW e \in Between(n, p), e # c, conn[c].ts < conn[e].ts
            PROVE  Beaten(e)'
        <5>1. conn[e].from = p /\ conn[e].to = n /\ e \in D
          BY <4>4, <3>3
        <5>2. conn'[e].from = p /\ conn'[e].to = n /\ conn'[e].ts = conn[e].ts
          BY <5>1, <4>4, <1>8
        <5>3. /\ c \in DOMAIN conn' /\ conn'[c].from = conn'[e].to
              /\ conn'[c].to = conn'[e].from /\ conn'[c].ts < conn'[e].ts
              /\ conn'[c].in = "open" /\ conn'[c].out \in {"wait", "open"}
          BY <5>2, <4>2, <4>4, <3>11, <1>5, <1>6, <1>7, <1>9 DEF SameParties
        <5>4. QED
          BY <5>3 DEF Beaten
      <4>5. ASSUME NEW e \in Between(n, p), e # c
            PROVE  Stage(e)' /\ (conn'[e].in = "gone" \/ conn'[e].out = "gone" => Beaten(e)')
        <5>1. /\ e \in D /\ Stage(e) /\ conn[e].from = p /\ conn[e].to = n
              /\ conn[e].in = "gone" \/ conn[e].out = "gone" => conn[c].ts < conn[e].ts
          BY <4>5, <3>3
        <5>2. CASE conn'[e] = conn[e]
          <6>1. Stage(e)'
            BY <5>1, <5>2 DEF Stage
          <6>2. QED
            BY <6>1, <5>1, <5>2, <4>4, <4>5
        <5>3. CASE conn'[e] # conn[e]
          <6>1. /\ e = old /\ conn'[e].out = conn[e].out /\ conn'[e].in = "gone"
                /\ conn'[e].ack = conn[e].ack /\ conn'[e].result = conn[e].result
            BY <4>5, <5>1, <5>3, <1>4, <1>8
          <6>2. old # None
            BY <6>1, <5>1, <1>6
          <6>3. Stage(e)'
            BY <6>1, <6>2, <5>1, <3>5 DEF Stage
          <6>4. Beaten(e)'
            BY <6>1, <6>2, <4>1, <4>4, <4>5
          <6>5. QED
            BY <6>3, <6>4
        <5>4. QED
          BY <5>2, <5>3
      <4>6. QED
        BY <3>7, <3>8, <3>9, <4>3, <4>5 DEF Settled
    <3>12. QED
      BY <3>10, <3>11, <1>7
  <2>3. QED
    BY <2>1, <2>2, <1>1, <1>4, <1>9, <1>10, <1>11, PairStep DEF IInv
<1>20. QED
  BY <1>13, <1>14, <1>15, <1>16, <1>17, <1>18, <1>19 DEF IInv

\* One connection's record is replaced by another with the same parties.
LEMMA EditOne ==
    ASSUME Types, NEW c \in DOMAIN conn, NEW r \in ConnRecord,
           conn' = [conn EXCEPT ![c] = r],
           r.from = conn[c].from, r.to = conn[c].to, r.batch = conn[c].batch
    PROVE  /\ conn' \in [DOMAIN conn -> ConnRecord] /\ SameParties
           /\ Untouched({c}) /\ conn'[c] = r /\ Dialled' /\ Batches'
<1>1. conn \in [DOMAIN conn -> ConnRecord]
  BY DialledShape DEF Types
<1>2. conn' \in [DOMAIN conn -> ConnRecord] /\ conn'[c] = r /\ Untouched({c})
  BY <1>1 DEF Untouched
<1>3. SameParties
  BY <1>1, <1>2 DEF SameParties, Untouched
<1>4. QED
  BY <1>2, <1>3, EditsKeepBatches

\* A dial that reaches the other node only begins the handshake.
LEMMA ConnectedKeeps ==
    ASSUME IInv, NEW c \in DOMAIN conn, Connected(c)
    PROVE  IInv'
<1>1. Types /\ RemoteIsListed /\ OpenIsRemote
  BY DEF IInv
<1>2. PICK n, p : n = conn[c].from /\ p = conn[c].to
  OBVIOUS
<1>3. PICK now \in Clock :
        conn' = [conn EXCEPT ![c].out = "wait", ![c].in = "wait", ![c].ts = now]
  BY DEF Connected
<1>4. /\ conn[c].out = "dial" /\ conn[c].in = "none"
      /\ UNCHANGED <<remote, known, bans, told, genesis, breaks, banned>>
  BY DEF Connected, IInv, DialsEnd
<1>5. conn \in [DOMAIN conn -> ConnRecord] /\ conn[c] \in ConnRecord
  BY <1>1, DialledShape DEF Types
<1>6. PICK r : r = [conn[c] EXCEPT !.out = "wait", !.in = "wait", !.ts = now]
  OBVIOUS
<1>7. /\ r \in ConnRecord /\ r.from = n /\ r.to = p /\ r.batch = conn[c].batch
      /\ r.out = "wait" /\ r.in = "wait" /\ r.ack = conn[c].ack
      /\ r.result = conn[c].result /\ r.broken = conn[c].broken
  BY <1>2, <1>5, <1>6 DEF ConnRecord
<1>8. conn' = [conn EXCEPT ![c] = r]
  BY <1>3, <1>5, <1>6 DEF ConnRecord
<1>9. /\ conn' \in [DOMAIN conn -> ConnRecord] /\ SameParties
      /\ Untouched({c}) /\ conn'[c] = r /\ Dialled' /\ Batches'
  BY <1>1, <1>2, <1>7, <1>8, EditOne
<1>10. \A d \in DOMAIN conn : d # c => conn'[d] = conn[d]
  BY <1>9 DEF Untouched
<1>11. Types'
  BY <1>1, <1>4, <1>9 DEF Types
<1>12. RemoteIsListed'
  <2> SUFFICES ASSUME NEW m \in Node, NEW q \in Node, NEW e, e = remote[m][q], e # None
               PROVE  /\ e \in DOMAIN conn'
                      /\ \/ /\ conn'[e].from = m /\ conn'[e].to = q
                            /\ conn'[e].out \in {"open", "dead"}
                         \/ conn'[e].from = q /\ conn'[e].to = m /\ conn'[e].in = "open"
    BY <1>4 DEF RemoteIsListed
  <2>1. /\ e \in DOMAIN conn
        /\ \/ conn[e].from = m /\ conn[e].to = q /\ conn[e].out \in {"open", "dead"}
           \/ conn[e].from = q /\ conn[e].to = m /\ conn[e].in = "open"
    BY <1>1 DEF RemoteIsListed
  <2>2. e # c
    BY <2>1, <1>4
  <2>3. QED
    BY <2>1, <2>2, <1>9, <1>10 DEF SameParties
<1>13. OpenIsRemote' /\ DialsEnd' /\ ChainsKnow' /\ NobodyBanned'
  <2>1. DOMAIN conn' = DOMAIN conn
    BY <1>9 DEF SameParties
  <2>2. OpenIsRemote'
    BY <2>1, <1>1, <1>4, <1>7, <1>9, <1>10 DEF OpenIsRemote
  <2>3. DialsEnd'
    BY <2>1, <1>7, <1>9, <1>10 DEF IInv, DialsEnd
  <2>4. ChainsKnow'
    BY <2>1, <1>4, <1>7, <1>9, <1>10 DEF IInv, ChainsKnow
  <2>5. NobodyBanned'
    BY <1>4 DEF IInv, NobodyBanned
  <2>6. QED
    BY <2>2, <2>3, <2>4, <2>5
<1>14. TimesStay /\ CountsGrow
  BY <1>1, <1>4, <1>10 DEF TimesStay, CountsGrow, Types
<1>15. n \in Node /\ p \in Node /\ c \in Between(n, p)
  BY <1>2, <1>5, BetweenIs DEF ConnRecord
<1>16. ASSUME Settled(n, p) PROVE Settled(n, p)'
  <2>1. Between(n, p)' = Between(n, p)
    BY <1>9 DEF Between, SameParties
  <2>2. \A d, e \in Between(n, p) : conn'[d].from = conn'[e].from => d = e
    BY <1>9, <1>16 DEF Between, Settled, SameParties
  <2>3. Stage(c)' /\ conn'[c].in # "gone" /\ conn'[c].out # "gone"
    <3>1. conn[c].ack = "none" /\ conn[c].result = "pending"
      BY <1>4, <1>15, <1>16 DEF Settled, Stage
    <3>2. QED
      BY <3>1, <1>7, <1>9 DEF Stage
  <2>4. ASSUME NEW e \in Between(n, p), e # c
        PROVE  Stage(e)' /\ (conn'[e].in = "gone" \/ conn'[e].out = "gone" => Beaten(e)')
    <3>1. e \in DOMAIN conn /\ conn'[e] = conn[e]
      BY <2>4, <1>10, BetweenIs
    <3>2. Stage(e)'
      BY <2>4, <3>1, <1>16 DEF Stage, Settled
    <3>3. ASSUME Beaten(e) PROVE Beaten(e)'
      <4>1. PICK d \in DOMAIN conn :
              /\ conn[d].from = conn[e].to /\ conn[d].to = conn[e].from
              /\ conn[d].ts < conn[e].ts
              /\ conn[d].in = "open" /\ conn[d].out \in {"wait", "open"}
        BY <3>3 DEF Beaten
      <4>2. conn'[d] = conn[d] /\ d \in DOMAIN conn'
        BY <4>1, <1>4, <1>9, <1>10 DEF SameParties
      <4>3. QED
        BY <3>1, <4>1, <4>2 DEF Beaten
    <3>4. QED
      BY <2>4, <3>1, <3>2, <3>3, <1>16 DEF Settled
  <2>5. QED
    BY <2>1, <2>2, <2>3, <2>4 DEF Settled
<1>17. Pairs'
  <2>1. \A d \in DOMAIN conn : d \in Between(n, p) \/ conn'[d] = conn[d]
    BY <1>10, <1>15
  <2>2. QED
    BY <2>1, <1>1, <1>9, <1>14, <1>15, <1>16, PairStep DEF IInv
<1>18. QED
  BY <1>11, <1>12, <1>13, <1>17 DEF IInv

\* A failure that is counted bears on no peaceful pair.
LEMMA CountedFailure ==
    ASSUME Types, breaks' = breaks + 1
    PROVE  Pairs' /\ ChainsKnow' /\ breaks' \in Nat
<1>1. breaks' # 0 /\ breaks' \in Nat
  BY DEF Types
<1>2. QED
  BY <1>1 DEF Pairs, Peaceful, ChainsKnow

\* What does not touch the ends of a listed connection keeps the maps right.
LEMMA MapsKept ==
    ASSUME IInv, NEW c \in DOMAIN conn, NEW r, SameParties, Untouched({c}), conn'[c] = r,
           UNCHANGED remote,
           r.in = "open" <=> conn[c].in = "open",
           r.out = "open" => conn[c].out = "open",
           conn[c].out \in {"open", "dead"} => r.out \in {"open", "dead"},
           r.out = "open" => r.result \in {"conn", "done"},
           r.out = "dial" => r.in = "none"
    PROVE  RemoteIsListed' /\ OpenIsRemote' /\ DialsEnd'
<1>1. \A d \in DOMAIN conn : d # c => conn'[d] = conn[d]
  BY DEF Untouched
<1>2. RemoteIsListed'
  <2> SUFFICES ASSUME NEW m \in Node, NEW q \in Node, NEW e, e = remote[m][q], e # None
               PROVE  /\ e \in DOMAIN conn'
                      /\ \/ /\ conn'[e].from = m /\ conn'[e].to = q
                            /\ conn'[e].out \in {"open", "dead"}
                         \/ conn'[e].from = q /\ conn'[e].to = m /\ conn'[e].in = "open"
    BY DEF RemoteIsListed
  <2>1. /\ e \in DOMAIN conn
        /\ \/ conn[e].from = m /\ conn[e].to = q /\ conn[e].out \in {"open", "dead"}
           \/ conn[e].from = q /\ conn[e].to = m /\ conn[e].in = "open"
    BY DEF IInv, RemoteIsListed
  <2>2. e \in DOMAIN conn' /\ conn'[e].from = conn[e].from /\ conn'[e].to = conn[e].to
    BY <2>1 DEF SameParties
  <2>3. QED
    BY <2>1, <2>2, <1>1
<1>3. OpenIsRemote'
  <2> SUFFICES ASSUME NEW d \in DOMAIN conn
               PROVE  /\ conn'[d].out = "open" => remote[conn'[d].from][conn'[d].to] = d
                      /\ conn'[d].in = "open" => remote[conn'[d].to][conn'[d].from] = d
    BY DEF OpenIsRemote, SameParties
  <2>1. /\ conn[d].out = "open" => remote[conn[d].from][conn[d].to] = d
        /\ conn[d].in = "open" => remote[conn[d].to][conn[d].from] = d
    BY DEF IInv, OpenIsRemote
  <2>2. conn'[d].from = conn[d].from /\ conn'[d].to = conn[d].to
    BY DEF SameParties
  <2>3. QED
    BY <2>1, <2>2, <1>1
<1>4. DialsEnd'
  BY <1>1 DEF IInv, DialsEnd, SameParties
<1>5. QED
  BY <1>2, <1>3, <1>4

\* A refused dial was listed nowhere.
LEMMA RefusedKeeps ==
    ASSUME IInv, NEW c \in DOMAIN conn, Refused(c)
    PROVE  IInv'
<1>1. Types
  BY DEF IInv
<1>2. /\ conn' = [conn EXCEPT ![c].out = "gone", ![c].result = "failed"]
      /\ conn[c].out = "dial" /\ conn[c].in = "none" /\ breaks' = breaks + 1
      /\ UNCHANGED <<remote, known, bans, told, genesis, banned>>
  BY DEF Refused, IInv, DialsEnd
<1>3. conn \in [DOMAIN conn -> ConnRecord] /\ conn[c] \in ConnRecord
  BY <1>1, DialledShape DEF Types
<1>4. PICK r : r = [conn[c] EXCEPT !.out = "gone", !.result = "failed"]
  OBVIOUS
<1>5. /\ r \in ConnRecord /\ r.from = conn[c].from /\ r.to = conn[c].to
      /\ r.batch = conn[c].batch /\ r.out = "gone" /\ r.in = conn[c].in
  BY <1>3, <1>4 DEF ConnRecord
<1>6. conn' = [conn EXCEPT ![c] = r]
  BY <1>2, <1>3, <1>4 DEF ConnRecord
<1>7. /\ SameParties /\ Untouched({c}) /\ conn'[c] = r /\ Dialled' /\ Batches'
  BY <1>1, <1>5, <1>6, EditOne
<1>8. RemoteIsListed' /\ OpenIsRemote' /\ DialsEnd'
  BY <1>2, <1>5, <1>7, MapsKept
<1>9. Pairs' /\ ChainsKnow' /\ breaks' \in Nat
  BY <1>1, <1>2, CountedFailure
<1>10. Types'
  BY <1>1, <1>2, <1>7, <1>9 DEF Types
<1>11. NobodyBanned'
  BY <1>2 DEF IInv, NobodyBanned
<1>12. QED
  BY <1>8, <1>9, <1>10, <1>11 DEF IInv

\* A socket that fails is noticed later.
LEMMA BreakKeeps ==
    ASSUME IInv, NEW c \in DOMAIN conn, Break(c)
    PROVE  IInv'
<1>1. Types
  BY DEF IInv
<1>2. /\ conn' = [conn EXCEPT ![c].broken = TRUE] /\ breaks' = breaks + 1
      /\ UNCHANGED <<remote, known, bans, told, genesis, banned>>
  BY DEF Break
<1>3. conn \in [DOMAIN conn -> ConnRecord] /\ conn[c] \in ConnRecord
  BY <1>1, DialledShape DEF Types
<1>4. PICK r : r = [conn[c] EXCEPT !.broken = TRUE]
  OBVIOUS
<1>5. /\ r \in ConnRecord /\ r.from = conn[c].from /\ r.to = conn[c].to
      /\ r.batch = conn[c].batch /\ r.out = conn[c].out /\ r.in = conn[c].in
      /\ r.result = conn[c].result
  BY <1>3, <1>4 DEF ConnRecord
<1>6. conn' = [conn EXCEPT ![c] = r]
  BY <1>2, <1>3, <1>4
<1>7. /\ SameParties /\ Untouched({c}) /\ conn'[c] = r /\ Dialled' /\ Batches'
  BY <1>1, <1>5, <1>6, EditOne
<1>8. RemoteIsListed' /\ OpenIsRemote' /\ DialsEnd'
  <2>1. /\ r.out = "dial" => r.in = "none"
        /\ r.out = "open" => r.result \in {"conn", "done"}
    BY <1>5 DEF IInv, DialsEnd
  <2>2. QED
    BY <2>1, <1>2, <1>5, <1>7, MapsKept
<1>9. Pairs' /\ ChainsKnow' /\ breaks' \in Nat
  BY <1>1, <1>2, CountedFailure
<1>10. Types'
  BY <1>1, <1>2, <1>7, <1>9 DEF Types
<1>11. NobodyBanned'
  BY <1>2 DEF IInv, NobodyBanned
<1>12. QED
  BY <1>8, <1>9, <1>10, <1>11 DEF IInv

\* Without failures the dialling end never finds the other end closed: what the
\* accepting end gives up is beaten, and the dialling end gives it up as well.
LEMMA OutErrorKeeps ==
    ASSUME IInv, NEW c \in DOMAIN conn, OutError(c)
    PROVE  IInv'
<1>1. Types /\ OpenIsRemote
  BY DEF IInv
<1>2. PICK n, p : n = conn[c].from /\ p = conn[c].to
  OBVIOUS
<1>3. /\ conn' = [conn EXCEPT ![c].out = IF conn[c].out = "open" THEN "dead" ELSE "stuck"]
      /\ \/ conn[c].broken /\ conn[c].out \in {"wait", "open"}
         \/ conn[c].in = "gone" /\ conn[c].out = "open"
      /\ told' = [told EXCEPT ![n] = told[n] \ {p}]
      /\ UNCHANGED <<remote, known, bans, genesis, breaks, banned>>
  <2>1. told \in [Node -> SUBSET Node] /\ conn \in [DOMAIN conn -> ConnRecord]
    BY <1>1, DialledShape DEF Types
  <2>2. QED
    BY <2>1, <1>2 DEF OutError
<1>4. conn \in [DOMAIN conn -> ConnRecord] /\ conn[c] \in ConnRecord
      /\ n \in Node /\ p \in Node /\ n # p
  <2>1. conn \in [DOMAIN conn -> ConnRecord] /\ conn[c] \in ConnRecord
    BY <1>1, DialledShape DEF Types
  <2>2. n # p
    BY <1>1, <1>2 DEF Types, Batches
  <2>3. QED
    BY <2>1, <2>2, <1>2 DEF ConnRecord
<1>5. PICK end \in {"dead", "stuck"} :
        end = IF conn[c].out = "open" THEN "dead" ELSE "stuck"
  OBVIOUS
<1>6. PICK r : r = [conn[c] EXCEPT !.out = end]
  OBVIOUS
<1>7. /\ r \in ConnRecord /\ r.from = conn[c].from /\ r.to = conn[c].to
      /\ r.batch = conn[c].batch /\ r.out = end /\ r.in = conn[c].in
      /\ r.ts = conn[c].ts /\ r.broken = conn[c].broken
  BY <1>4, <1>5, <1>6 DEF ConnRecord
<1>8. conn' = [conn EXCEPT ![c] = r]
  BY <1>3, <1>4, <1>5, <1>6
<1>9. /\ SameParties /\ Untouched({c}) /\ conn'[c] = r /\ Dialled' /\ Batches'
  BY <1>1, <1>7, <1>8, EditOne
<1>10. RemoteIsListed' /\ OpenIsRemote' /\ DialsEnd'
  <2>1. conn[c].out \in {"open", "dead"} => r.out \in {"open", "dead"}
    BY <1>3, <1>5, <1>7
  <2>2. QED
    BY <2>1, <1>3, <1>5, <1>7, <1>9, MapsKept
<1>11. \A d \in DOMAIN conn : d # c => conn'[d] = conn[d]
  BY <1>9 DEF Untouched
<1>12. told' \in [Node -> SUBSET Node]
  BY <1>1, <1>3 DEF Types
<1>13. Types'
  BY <1>1, <1>3, <1>9, <1>12 DEF Types
<1>14. breaks = 0 => conn[c].in = "gone" /\ conn[c].out = "open" /\ remote[n][p] = c
  BY <1>1, <1>2, <1>3 DEF IInv, ChainsKnow, OpenIsRemote
<1>15. ChainsKnow'
  <2> SUFFICES ASSUME breaks = 0, NEW d \in DOMAIN conn
               PROVE  /\ ~conn'[d].broken
                      /\ conn'[d].in = "open" => conn[d].from \in told'[conn[d].to]
                      /\ conn'[d].out = "open" /\ conn'[d].result = "done" =>
                             conn[d].to \in told'[conn[d].from]
    BY <1>3, <1>9 DEF ChainsKnow, SameParties
  <2>1. /\ ~conn[d].broken
        /\ conn[d].in = "open" => conn[d].from \in told[conn[d].to]
        /\ conn[d].out = "open" /\ conn[d].result = "done" => conn[d].to \in told[conn[d].from]
    BY DEF IInv, ChainsKnow
  <2>2. /\ conn[d].out = "open" => remote[conn[d].from][conn[d].to] = d
        /\ conn[d].in = "open" => remote[conn[d].to][conn[d].from] = d
    BY <1>1 DEF OpenIsRemote
  <2>3. conn[d].from \in Node /\ conn[d].to \in Node
    BY <1>4 DEF ConnRecord
  <2>4. \A m, q \in Node : q \in told[m] => q \in told'[m] \/ (m = n /\ q = p)
    BY <1>1, <1>3, <1>4 DEF Types
  <2>5. CASE d = c
    BY <2>1, <2>5, <1>5, <1>7, <1>9, <1>14
  <2>6. CASE d # c
    <3>1. conn'[d] = conn[d]
      BY <2>6, <1>11
    <3>2. conn[d].in = "open" => ~(conn[d].to = n /\ conn[d].from = p)
      BY <2>2, <2>6, <1>14
    <3>3. conn[d].out = "open" => ~(conn[d].from = n /\ conn[d].to = p)
      BY <2>2, <2>6, <1>14
    <3>4. QED
      BY <2>1, <2>3, <2>4, <3>1, <3>2, <3>3
  <2>7. QED
    BY <2>5, <2>6
<1>16. NobodyBanned'
  BY <1>3 DEF IInv, NobodyBanned
<1>17. TimesStay /\ CountsGrow
  BY <1>1, <1>3, <1>5, <1>7, <1>9, <1>11 DEF TimesStay, CountsGrow, Types
<1>18. c \in Between(n, p)
  BY <1>2, BetweenIs
<1>19. ~(Peaceful(n, p) /\ Settled(n, p))
  <2> SUFFICES ASSUME Peaceful(n, p), Settled(n, p) PROVE FALSE
    OBVIOUS
  <2>1. breaks = 0 /\ Beaten(c)
    BY <1>14, <1>18 DEF Peaceful, Settled
  <2>2. PICK d \in DOMAIN conn : conn[d].from = p /\ conn[d].to = n /\ conn[d].in = "open"
    BY <2>1, <1>2 DEF Beaten
  <2>3. remote[n][p] = d
    BY <2>2, <1>1 DEF OpenIsRemote
  <2>4. QED
    BY <2>1, <2>2, <2>3, <1>2, <1>4, <1>14
<1>20. Pairs'
  <2>1. \A d \in DOMAIN conn : d \in Between(n, p) \/ conn'[d] = conn[d]
    BY <1>11, <1>18
  <2>2. QED
    BY <2>1, <1>1, <1>4, <1>9, <1>17, <1>19, PairStep DEF IInv
<1>21. QED
  BY <1>10, <1>13, <1>15, <1>16, <1>20 DEF IInv

\* The accepting end gives up a connection that the dialling end has given up
\* already, or that has failed.
LEMMA InErrorKeeps ==
    ASSUME IInv, NEW c \in DOMAIN conn, InError(c)
    PROVE  IInv'
<1>1. Types /\ RemoteIsListed /\ OpenIsRemote
  BY DEF IInv
<1>2. PICK n, p : n = conn[c].to /\ p = conn[c].from
  OBVIOUS
<1>3. /\ conn' = WithEnd(conn, c, n, "gone")
      /\ \/ conn[c].broken /\ conn[c].in \in {"wait", "open"}
         \/ conn[c].out \in {"gone", "dead"} /\ conn[c].in = "open"
      /\ UNCHANGED <<known, bans, genesis, breaks, banned>>
  BY <1>2 DEF InError
<1>4. /\ conn \in [DOMAIN conn -> ConnRecord] /\ conn[c] \in ConnRecord
      /\ n \in Node /\ p \in Node /\ n # p
  <2>1. conn \in [DOMAIN conn -> ConnRecord] /\ conn[c] \in ConnRecord
    BY <1>1, DialledShape DEF Types
  <2>2. n # p
    BY <1>1, <1>2 DEF Types, Batches
  <2>3. QED
    BY <2>1, <2>2, <1>2 DEF ConnRecord
<1>5. \/ /\ conn[c].in = "open" /\ remote' = [remote EXCEPT ![n][p] = None]
         /\ told' = [told EXCEPT ![n] = told[n] \ {p}]
      \/ conn[c].in # "open" /\ UNCHANGED <<remote, told>>
  <2>1. told \in [Node -> SUBSET Node]
    BY <1>1 DEF Types
  <2>2. QED
    BY <2>1, <1>2, <1>4 DEF InError
<1>6. PICK r : r = [conn[c] EXCEPT !.in = "gone"]
  OBVIOUS
<1>7. /\ r \in ConnRecord /\ r.from = p /\ r.to = n /\ r.batch = conn[c].batch
      /\ r.out = conn[c].out /\ r.in = "gone" /\ r.ts = conn[c].ts
      /\ r.ack = conn[c].ack /\ r.result = conn[c].result /\ r.broken = conn[c].broken
  BY <1>2, <1>4, <1>6 DEF ConnRecord
<1>8. conn' \in [DOMAIN conn -> ConnRecord] /\ conn'[c] = r /\ Untouched({c})
  <2>1. Sets(WithEnd(conn, c, n, "gone"), conn, DOMAIN conn, c, n, "gone")
    BY <1>4, WithEndSets
  <2>2. Sets(conn', conn, DOMAIN conn, c, n, "gone")
    BY <2>1, <1>3
  <2>3. QED
    BY <2>2, <1>2, <1>4, <1>6 DEF Sets, Untouched
<1>9. \A d \in DOMAIN conn : d # c => conn'[d] = conn[d]
  BY <1>8 DEF Untouched
<1>10. SameParties
  BY <1>2, <1>7, <1>8, <1>9 DEF SameParties
<1>11. Dialled' /\ Batches'
  BY <1>1, <1>8, <1>10, EditsKeepBatches
<1>12. conn[c].in = "open" => remote[n][p] = c
  BY <1>1, <1>2 DEF OpenIsRemote
<1>13. \A m, q \in Node : \/ remote'[m][q] = remote[m][q] /\ told'[m] = told[m]
                          \/ remote'[m][q] = remote[m][q] /\ q # p /\ m = n
                             /\ told'[m] = told[m] \ {p}
                          \/ m = n /\ q = p /\ remote'[m][q] = None /\ conn[c].in = "open"
  <2>1. CASE conn[c].in # "open" /\ UNCHANGED <<remote, told>>
    BY <2>1
  <2>2. CASE /\ conn[c].in = "open" /\ remote' = [remote EXCEPT ![n][p] = None]
             /\ told' = [told EXCEPT ![n] = told[n] \ {p}]
    <3>1. remote \in [Node -> [Node -> Conn \cup {None}]] /\ told \in [Node -> SUBSET Node]
      BY <1>1 DEF Types
    <3>2. \A m, q \in Node : remote'[m][q] = IF m = n /\ q = p THEN None ELSE remote[m][q]
      BY <2>2, <3>1
    <3>3. \A m \in Node : told'[m] = IF m = n THEN told[m] \ {p} ELSE told[m]
      BY <2>2, <3>1
    <3>4. QED
      BY <2>2, <3>2, <3>3
  <2>3. QED
    BY <2>1, <2>2, <1>5
<1>14. Types'
  <2>1. remote' \in [Node -> [Node -> Conn \cup {None}]]
    <3>1. remote \in [Node -> [Node -> Conn \cup {None}]]
      BY <1>1 DEF Types
    <3>2. remote' = remote \/ remote' = [remote EXCEPT ![n][p] = None]
      BY <1>5
    <3>3. QED
      BY <3>1, <3>2, <1>4
  <2>2. told' \in [Node -> SUBSET Node]
    <3>1. told \in [Node -> SUBSET Node]
      BY <1>1 DEF Types
    <3>2. told' = told \/ told' = [told EXCEPT ![n] = told[n] \ {p}]
      BY <1>5
    <3>3. QED
      BY <3>1, <3>2, <1>4
  <2>3. QED
    BY <2>1, <2>2, <1>1, <1>3, <1>11 DEF Types
<1>15. RemoteIsListed'
  <2> SUFFICES ASSUME NEW m \in Node, NEW q \in Node, NEW e, e = remote'[m][q], e # None
               PROVE  /\ e \in DOMAIN conn'
                      /\ \/ /\ conn'[e].from = m /\ conn'[e].to = q
                            /\ conn'[e].out \in {"open", "dead"}
                         \/ conn'[e].from = q /\ conn'[e].to = m /\ conn'[e].in = "open"
    BY DEF RemoteIsListed
  <2>1. e = remote[m][q] /\ ~(m = n /\ q = p /\ conn[c].in = "open")
    <3>1. remote'[n][p] = None \/ conn[c].in # "open"
      BY <1>1, <1>4, <1>5 DEF Types
    <3>2. QED
      BY <3>1, <1>13
  <2>2. /\ e \in DOMAIN conn
        /\ \/ conn[e].from = m /\ conn[e].to = q /\ conn[e].out \in {"open", "dead"}
           \/ conn[e].from = q /\ conn[e].to = m /\ conn[e].in = "open"
    BY <2>1, <1>1 DEF RemoteIsListed
  <2>3. e \in DOMAIN conn' /\ conn'[e].from = conn[e].from /\ conn'[e].to = conn[e].to
    BY <2>2, <1>10 DEF SameParties
  <2>4. QED
    BY <2>1, <2>2, <2>3, <1>2, <1>7, <1>8, <1>9
<1>16. OpenIsRemote'
  <2> SUFFICES ASSUME NEW d \in DOMAIN conn
               PROVE  /\ conn'[d].out = "open" => remote'[conn[d].from][conn[d].to] = d
                      /\ conn'[d].in = "open" => remote'[conn[d].to][conn[d].from] = d
    BY <1>10 DEF OpenIsRemote, SameParties
  <2>1. /\ conn[d].out = "open" => remote[conn[d].from][conn[d].to] = d
        /\ conn[d].in = "open" => remote[conn[d].to][conn[d].from] = d
    BY <1>1 DEF OpenIsRemote
  <2>2. conn[d].from \in Node /\ conn[d].to \in Node
    BY <1>4 DEF ConnRecord
  <2>3. CASE d = c
    BY <2>1, <2>2, <2>3, <1>2, <1>4, <1>7, <1>8, <1>13
  <2>4. CASE d # c
    BY <2>1, <2>2, <2>4, <1>9, <1>12, <1>13
  <2>5. QED
    BY <2>3, <2>4
<1>17. DialsEnd'
  BY <1>3, <1>7, <1>8, <1>9, <1>10 DEF IInv, DialsEnd, SameParties
<1>18. breaks = 0 => conn[c].out \in {"gone", "dead"} /\ conn[c].in = "open"
  BY <1>3 DEF IInv, ChainsKnow
<1>19. ChainsKnow'
  <2> SUFFICES ASSUME breaks = 0, NEW d \in DOMAIN conn
               PROVE  /\ ~conn'[d].broken
                      /\ conn'[d].in = "open" => conn[d].from \in told'[conn[d].to]
                      /\ conn'[d].out = "open" /\ conn'[d].result = "done" =>
                             conn[d].to \in told'[conn[d].from]
    BY <1>3, <1>10 DEF ChainsKnow, SameParties
  <2>1. /\ ~conn[d].broken
        /\ conn[d].in = "open" => conn[d].from \in told[conn[d].to]
        /\ conn[d].out = "open" /\ conn[d].result = "done" => conn[d].to \in told[conn[d].from]
    BY DEF IInv, ChainsKnow
  <2>2. /\ conn[d].out = "open" => remote[conn[d].from][conn[d].to] = d
        /\ conn[d].in = "open" => remote[conn[d].to][conn[d].from] = d
    BY <1>1 DEF OpenIsRemote
  <2>3. conn[d].from \in Node /\ conn[d].to \in Node
    BY <1>4 DEF ConnRecord
  <2>4. \A m, q \in Node : q \in told[m] => q \in told'[m] \/ (m = n /\ q = p)
    BY <1>1, <1>4, <1>5 DEF Types
  <2>5. CASE d = c
    BY <2>1, <2>5, <1>7, <1>8, <1>18
  <2>6. CASE d # c
    <3>1. conn'[d] = conn[d]
      BY <2>6, <1>9
    <3>2. conn[d].in = "open" => ~(conn[d].to = n /\ conn[d].from = p)
      BY <2>2, <2>6, <1>12, <1>18
    <3>3. conn[d].out = "open" => ~(conn[d].from = n /\ conn[d].to = p)
      BY <2>2, <2>6, <1>12, <1>18
    <3>4. QED
      BY <2>1, <2>3, <2>4, <3>1, <3>2, <3>3
  <2>7. QED
    BY <2>5, <2>6
<1>20. NobodyBanned'
  BY <1>3 DEF IInv, NobodyBanned
<1>21. TimesStay /\ CountsGrow
  BY <1>1, <1>3, <1>7, <1>8, <1>9 DEF TimesStay, CountsGrow, Types
<1>22. c \in Between(n, p)
  BY <1>2, BetweenIs
<1>23. ASSUME Peaceful(n, p), Settled(n, p) PROVE Settled(n, p)'
  <2>1. Between(n, p)' = Between(n, p)
    BY <1>10 DEF Between, SameParties
  <2>2. \A d, e \in Between(n, p) : conn'[d].from = conn'[e].from => d = e
    BY <1>10, <1>23 DEF Between, Settled, SameParties
  <2>3. conn[c].out = "gone" /\ conn[c].ack = "read" /\ Beaten(c)
    BY <1>18, <1>22, <1>23 DEF Peaceful, Settled, Stage
  <2>4. ASSUME NEW e \in Between(n, p), Beaten(e) PROVE Beaten(e)'
    <3>1. PICK d \in DOMAIN conn :
            /\ conn[d].from = conn[e].to /\ conn[d].to = conn[e].from
            /\ conn[d].ts < conn[e].ts
            /\ conn[d].in = "open" /\ conn[d].out \in {"wait", "open"}
      BY <2>4 DEF Beaten
    <3>2. d # c
      BY <2>3, <3>1
    <3>3. conn'[d] = conn[d] /\ d \in DOMAIN conn' /\ e \in DOMAIN conn
      BY <3>1, <3>2, <1>9, <1>10 DEF SameParties, Between
    <3>4. conn'[e].from = conn[e].from /\ conn'[e].to = conn[e].to /\ conn'[e].ts = conn[e].ts
      BY <3>3, <1>2, <1>7, <1>8, <1>9
    <3>5. QED
      BY <3>1, <3>3, <3>4 DEF Beaten
  <2>5. Stage(c)' /\ Beaten(c)'
    <3>1. Stage(c)'
      BY <2>3, <1>7, <1>8 DEF Stage
    <3>2. QED
      BY <3>1, <2>3, <2>4, <1>22
  <2>6. ASSUME NEW e \in Between(n, p), e # c
        PROVE  Stage(e)' /\ (conn'[e].in = "gone" \/ conn'[e].out = "gone" => Beaten(e)')
    <3>1. e \in DOMAIN conn /\ conn'[e] = conn[e]
      BY <2>6, <1>9, BetweenIs
    <3>2. Stage(e)'
      BY <2>6, <3>1, <1>23 DEF Stage, Settled
    <3>3. QED
      BY <2>4, <2>6, <3>1, <3>2, <1>23 DEF Settled
  <2>7. QED
    BY <2>1, <2>2, <2>5, <2>6 DEF Settled
<1>24. Pairs'
  <2>1. \A d \in DOMAIN conn : d \in Between(n, p) \/ conn'[d] = conn[d]
    BY <1>9, <1>22
  <2>2. QED
    BY <2>1, <1>1, <1>4, <1>10, <1>21, <1>23, PairStep DEF IInv
<1>25. QED
  BY <1>14, <1>15, <1>16, <1>17, <1>19, <1>20, <1>24 DEF IInv

\* What a report leaves of a connection: all but its result, which it gets
\* only after its dial has ended.
LEMMA ReportEffect ==
    ASSUME Types, NEW n \in Node, NEW first, Report(n, first)
    PROVE  /\ conn' \in [DOMAIN conn -> ConnRecord] /\ SameParties
           /\ \A d \in DOMAIN conn :
                /\ conn'[d].out = conn[d].out /\ conn'[d].in = conn[d].in
                /\ conn'[d].ts = conn[d].ts /\ conn'[d].ack = conn[d].ack
                /\ conn'[d].broken = conn[d].broken
                /\ \/ conn'[d].result = conn[d].result
                   \/ /\ conn'[d].result = "done" /\ conn[d].result # "pending"
                      /\ conn[d].result = "conn" => conn[d].to \in told'[conn[d].from]
           /\ \A m \in Node : told[m] \subseteq told'[m]
           /\ told' \in [Node -> SUBSET Node] /\ known' \in [Node -> SUBSET Node]
           /\ \A q \in told'[n] \ told[n] :
                \E d \in DOMAIN conn : conn[d].from = n /\ conn[d].to = q /\ conn[d].result = "conn"
           /\ \A m \in Node \ {n} : told'[m] = told[m]
           /\ UNCHANGED <<remote, bans, genesis, breaks, banned>>
<1>1. conn \in [DOMAIN conn -> ConnRecord]
  BY DialledShape DEF Types
<1>2. PICK batch : batch = {c \in DOMAIN conn : conn[c].batch = first}
  OBVIOUS
<1>3. PICK failed : failed = {conn[c].to : c \in {d \in batch : conn[d].result = "failed"}}
  OBVIOUS
<1>4. PICK reached : reached = {conn[c].to : c \in {d \in batch : conn[d].result = "conn"}}
  OBVIOUS
<1>5. /\ first \in DOMAIN conn /\ conn[first].from = n
      /\ \A c \in batch : conn[c].result \notin {"pending", "done"}
      /\ conn' = [c \in DOMAIN conn |-> IF c \in batch THEN [conn[c] EXCEPT !.result = "done"]
                                        ELSE conn[c]]
      /\ known' = [known EXCEPT ![n] = (known[n] \ failed) \cup reached]
      /\ told' = [told EXCEPT ![n] = told[n] \cup reached]
      /\ UNCHANGED <<remote, bans, genesis, breaks, banned>>
  <2>1. known \in [Node -> SUBSET Node] /\ told \in [Node -> SUBSET Node]
    BY DEF Types
  <2>2. QED
    BY <2>1, <1>2, <1>3, <1>4 DEF Report
<1>6. \A d \in batch : d \in DOMAIN conn /\ conn[d].from = n
  BY <1>2, <1>5 DEF Types, Batches
<1>7. reached \subseteq Node
  <2>1. \A d \in batch : conn[d].to \in Node
    BY <1>1, <1>6 DEF ConnRecord
  <2>2. QED
    BY <2>1, <1>4
<1>8. /\ told' \in [Node -> SUBSET Node] /\ known' \in [Node -> SUBSET Node]
      /\ told'[n] = told[n] \cup reached
      /\ \A m \in Node \ {n} : told'[m] = told[m]
  BY <1>5, <1>7 DEF Types
<1>9. ASSUME NEW d \in DOMAIN conn
      PROVE  /\ conn'[d] \in ConnRecord
             /\ conn'[d].from = conn[d].from /\ conn'[d].to = conn[d].to
             /\ conn'[d].batch = conn[d].batch
             /\ conn'[d].out = conn[d].out /\ conn'[d].in = conn[d].in
             /\ conn'[d].ts = conn[d].ts /\ conn'[d].ack = conn[d].ack
             /\ conn'[d].broken = conn[d].broken
             /\ \/ conn'[d].result = conn[d].result
                \/ /\ conn'[d].result = "done" /\ conn[d].result # "pending"
                   /\ conn[d].result = "conn" => conn[d].to \in told'[conn[d].from]
  <2>1. conn[d] \in ConnRecord
    BY <1>1
  <2>2. CASE d \notin batch
    <3>1. conn'[d] = conn[d]
      BY <2>2, <1>5
    <3>2. QED
      BY <2>1, <3>1
  <2>3. CASE d \in batch
    <3>1. conn'[d] = [conn[d] EXCEPT !.result = "done"]
      BY <2>3, <1>5
    <3>2. conn[d].result # "pending" /\ conn[d].from = n
      BY <2>3, <1>5, <1>6
    <3>3. conn[d].result = "conn" => conn[d].to \in reached
      BY <2>3, <1>4
    <3>4. QED
      BY <2>1, <3>1, <3>2, <3>3, <1>8 DEF ConnRecord
  <2>4. QED
    BY <2>2, <2>3
<1>10. DOMAIN conn' = DOMAIN conn /\ conn' \in [DOMAIN conn -> ConnRecord]
  <2>1. DOMAIN conn' = DOMAIN conn
    BY <1>5
  <2>2. conn' = [c \in DOMAIN conn |-> conn'[c]]
    BY <1>5
  <2>3. QED
    BY <2>1, <2>2, <1>9
<1>11. SameParties
  BY <1>9, <1>10 DEF SameParties
<1>12. ASSUME NEW q \in told'[n] \ told[n]
       PROVE  \E d \in DOMAIN conn :
                conn[d].from = n /\ conn[d].to = q /\ conn[d].result = "conn"
  <2>1. q \in reached
    BY <1>8, <1>12
  <2>2. PICK d \in batch : conn[d].result = "conn" /\ conn[d].to = q
    BY <2>1, <1>4
  <2>3. QED
    BY <2>2, <1>6
<1>13. \A m \in Node : told[m] \subseteq told'[m]
  BY <1>8
<1>14. QED
  BY <1>5, <1>8, <1>9, <1>10, <1>11, <1>12, <1>13

\* A batch is reported after its dials have ended.
LEMMA ReportKeeps ==
    ASSUME IInv, NEW n \in Node, NEW first, Report(n, first)
    PROVE  IInv'
<1>1. Types /\ RemoteIsListed /\ OpenIsRemote
  BY DEF IInv
<1>2. /\ conn' \in [DOMAIN conn -> ConnRecord] /\ SameParties
      /\ told' \in [Node -> SUBSET Node] /\ known' \in [Node -> SUBSET Node]
      /\ \A m \in Node : told[m] \subseteq told'[m]
      /\ UNCHANGED <<remote, bans, genesis, breaks, banned>>
  BY <1>1, ReportEffect
<1>3. \A d \in DOMAIN conn :
        /\ conn'[d].out = conn[d].out /\ conn'[d].in = conn[d].in
        /\ conn'[d].ts = conn[d].ts /\ conn'[d].ack = conn[d].ack
        /\ conn'[d].broken = conn[d].broken
        /\ \/ conn'[d].result = conn[d].result
           \/ /\ conn'[d].result = "done" /\ conn[d].result # "pending"
              /\ conn[d].result = "conn" => conn[d].to \in told'[conn[d].from]
  BY <1>1, ReportEffect
<1>4. /\ DOMAIN conn' = DOMAIN conn
      /\ \A d \in DOMAIN conn : conn'[d].from = conn[d].from /\ conn'[d].to = conn[d].to
  BY <1>2 DEF SameParties
<1>5. Types'
  <2>1. Dialled' /\ Batches'
    BY <1>1, <1>2, EditsKeepBatches
  <2>2. QED
    BY <2>1, <1>1, <1>2 DEF Types
<1>6. RemoteIsListed'
  BY <1>1, <1>2, <1>3, <1>4 DEF RemoteIsListed
<1>7. OpenIsRemote'
  BY <1>1, <1>2, <1>3, <1>4 DEF OpenIsRemote
<1>8. DialsEnd'
  BY <1>3, <1>4 DEF IInv, DialsEnd
<1>9. ChainsKnow'
  <2> SUFFICES ASSUME breaks = 0, NEW d \in DOMAIN conn
               PROVE  /\ ~conn'[d].broken
                      /\ conn'[d].in = "open" => conn[d].from \in told'[conn[d].to]
                      /\ conn'[d].out = "open" /\ conn'[d].result = "done" =>
                             conn[d].to \in told'[conn[d].from]
    BY <1>2, <1>4 DEF ChainsKnow
  <2>1. /\ ~conn[d].broken
        /\ conn[d].in = "open" => conn[d].from \in told[conn[d].to]
        /\ conn[d].out = "open" /\ conn[d].result = "done" => conn[d].to \in told[conn[d].from]
    BY DEF IInv, ChainsKnow
  <2>2. conn[d].out = "open" => conn[d].result \in {"conn", "done"}
    BY DEF IInv, DialsEnd
  <2>3. conn[d].from \in Node /\ conn[d].to \in Node
    <3>1. conn[d] \in ConnRecord
      BY <1>1, DialledShape DEF Types
    <3>2. QED
      BY <3>1 DEF ConnRecord
  <2>4. told[conn[d].from] \subseteq told'[conn[d].from]
        /\ told[conn[d].to] \subseteq told'[conn[d].to]
    BY <2>3, <1>2
  <2>5. QED
    BY <2>1, <2>2, <2>4, <1>3
<1>10. NobodyBanned'
  BY <1>2 DEF IInv, NobodyBanned
<1>11. Pairs'
  <2> SUFFICES ASSUME NEW x \in Node, NEW y \in Node, Peaceful(x, y)' PROVE Settled(x, y)'
    BY DEF Pairs
  <2>1. TimesStay /\ CountsGrow
    BY <1>1, <1>2, <1>3 DEF TimesStay, CountsGrow, Types
  <2>2. Peaceful(x, y)
    BY <2>1, <1>1, <1>4, PeacefulBefore
  <2>3. Settled(x, y)
    BY <2>2 DEF IInv, Pairs
  <2>4. Between(x, y)' = Between(x, y) /\ \A e \in Between(x, y) : e \in DOMAIN conn
    BY <1>4 DEF Between
  <2>5. ASSUME NEW e \in Between(x, y), Stage(e) PROVE Stage(e)'
    BY <2>4, <2>5, <1>3 DEF Stage
  <2>6. ASSUME NEW e \in Between(x, y), Beaten(e) PROVE Beaten(e)'
    <3>1. PICK d \in DOMAIN conn :
            /\ conn[d].from = conn[e].to /\ conn[d].to = conn[e].from
            /\ conn[d].ts < conn[e].ts
            /\ conn[d].in = "open" /\ conn[d].out \in {"wait", "open"}
      BY <2>6 DEF Beaten
    <3>2. /\ d \in DOMAIN conn' /\ conn'[d].from = conn[d].from /\ conn'[d].to = conn[d].to
          /\ conn'[d].ts = conn[d].ts /\ conn'[d].in = conn[d].in /\ conn'[d].out = conn[d].out
      BY <1>3, <1>4
    <3>3. /\ conn'[e].from = conn[e].from /\ conn'[e].to = conn[e].to
          /\ conn'[e].ts = conn[e].ts
      BY <2>4, <1>3, <1>4
    <3>4. QED
      BY <3>1, <3>2, <3>3 DEF Beaten
  <2>7. \A d, e \in Between(x, y) : conn'[d].from = conn'[e].from => d = e
    BY <2>3, <2>4, <1>4 DEF Settled
  <2>8. \A e \in Between(x, y) : conn'[e].in = conn[e].in /\ conn'[e].out = conn[e].out
    BY <2>4, <1>3
  <2>9. QED
    BY <2>3, <2>4, <2>5, <2>6, <2>7, <2>8 DEF Settled
<1>12. QED
  BY <1>5, <1>6, <1>7, <1>8, <1>9, <1>10, <1>11 DEF IInv

\* A ban takes the peer's connection with it; the pairs' agreement ends there.
LEMMA BanKeeps ==
    ASSUME IInv, NEW n \in Node, NEW p \in Node, NEW level \in {"day", "forever"},
           BanConnection(n, p, level)
    PROVE  IInv'
<1>1. Types /\ RemoteIsListed /\ OpenIsRemote
  BY DEF IInv
<1>2. PICK old : old = remote[n][p]
  OBVIOUS
<1>3. PICK D : D = DOMAIN conn
  OBVIOUS
<1>4. /\ conn \in [D -> ConnRecord] /\ None \notin D
      /\ remote \in [Node -> [Node -> Conn \cup {None}]] /\ told \in [Node -> SUBSET Node]
      /\ known \in [Node -> SUBSET Node]
      /\ bans \in [Node -> [Node -> {"none", "day", "over", "forever"}]]
  BY <1>1, <1>3, DialledShape, PeersConstants DEF Types, Conn
<1>5. /\ banned' = banned + 1 /\ UNCHANGED <<genesis, breaks>>
      /\ conn' = IF old = None THEN conn ELSE WithEnd(conn, old, n, "gone")
      /\ remote' = [remote EXCEPT ![n][p] = None]
      /\ told' = [told EXCEPT ![n] = told[n] \ {p}]
      /\ known' = [known EXCEPT ![n] = known[n] \ {p}]
      /\ bans' = [bans EXCEPT ![n][p] = level]
  BY <1>2, <1>4 DEF BanConnection
<1>6. old # None => /\ old \in D /\ n # p /\ {conn[old].from, conn[old].to} = {n, p}
                    /\ conn[old].out # "dial"
  <2> SUFFICES ASSUME old # None
               PROVE  /\ old \in D /\ n # p /\ {conn[old].from, conn[old].to} = {n, p}
                      /\ conn[old].out # "dial"
    OBVIOUS
  <2>1. /\ old \in D
        /\ \/ /\ conn[old].from = n /\ conn[old].to = p
              /\ conn[old].out \in {"open", "dead"}
           \/ conn[old].from = p /\ conn[old].to = n /\ conn[old].in = "open"
    BY <1>1, <1>2, <1>3 DEF RemoteIsListed
  <2>2. conn[old].from # conn[old].to /\ (conn[old].out = "dial" => conn[old].in = "none")
    BY <2>1, <1>1, <1>3 DEF IInv, Types, Batches, DialsEnd
  <2>3. QED
    BY <2>1, <2>2
<1>7. conn' \in [D -> ConnRecord] /\ Untouched({old}) /\ Closes(old, n)
  <2>1. CASE old = None
    BY <2>1, <1>4, <1>5 DEF Untouched, Closes
  <2>2. CASE old # None
    <3>1. Sets(WithEnd(conn, old, n, "gone"), conn, D, old, n, "gone")
      BY <2>2, <1>4, <1>6, WithEndSets
    <3>2. Sets(conn', conn, D, old, n, "gone")
      BY <2>2, <3>1, <1>5
    <3>3. QED
      BY <3>2, <1>3 DEF Sets, Untouched, Closes
  <2>3. QED
    BY <2>1, <2>2
<1>8. ASSUME NEW d \in D
      PROVE  \/ d # old /\ conn'[d] = conn[d]
             \/ /\ d = old /\ old # None
                /\ conn'[d].from = conn[d].from /\ conn'[d].to = conn[d].to
                /\ conn'[d].batch = conn[d].batch
                /\ conn'[d].result = conn[d].result /\ conn'[d].broken = conn[d].broken
                /\ \/ /\ conn[d].from = n /\ conn[d].to = p /\ conn'[d].out = "gone"
                      /\ conn'[d].in = conn[d].in
                   \/ /\ conn[d].from = p /\ conn[d].to = n /\ conn'[d].in = "gone"
                      /\ conn'[d].out = conn[d].out
  <2>1. CASE d # old
    BY <2>1, <1>3, <1>7 DEF Untouched
  <2>2. CASE d = old
    <3>1. old # None
      BY <2>2, <1>4
    <3>2. ClosedBy(old, n)
      BY <3>1, <1>1, <1>3, <1>6, <1>7, ClosesFields, Zenon
    <3>3. QED
      BY <2>2, <3>1, <3>2, <1>6 DEF ClosedBy
  <2>3. QED
    BY <2>1, <2>2
<1>9. SameParties
  <2>1. DOMAIN conn' = D
    BY <1>7
  <2>2. QED
    BY <2>1, <1>3, <1>8 DEF SameParties
<1>10. /\ \A m, q \in Node : remote'[m][q] = IF m = n /\ q = p THEN None ELSE remote[m][q]
       /\ \A m, q \in Node : q \in told[m] => q \in told'[m] \/ (m = n /\ q = p)
  <2>1. \A m, q \in Node : remote'[m][q] = IF m = n /\ q = p THEN None ELSE remote[m][q]
    BY <1>4, <1>5
  <2>2. \A m \in Node : told'[m] = IF m = n THEN told[m] \ {p} ELSE told[m]
    BY <1>4, <1>5
  <2>3. QED
    BY <2>1, <2>2
<1>11. banned' \in Nat /\ banned' # 0
  BY <1>1, <1>5 DEF Types
<1>12. Types'
  <2>1. Dialled' /\ Batches'
    BY <1>1, <1>3, <1>7, <1>9, EditsKeepBatches
  <2>2. remote' \in [Node -> [Node -> Conn \cup {None}]]
    BY <1>4, <1>5
  <2>3. told' \in [Node -> SUBSET Node] /\ known' \in [Node -> SUBSET Node]
    BY <1>4, <1>5
  <2>4. bans' \in [Node -> [Node -> {"none", "day", "over", "forever"}]]
    <3>1. level \in {"none", "day", "over", "forever"}
      OBVIOUS
    <3>2. QED
      BY <3>1, <1>4, <1>5
  <2>5. QED
    BY <2>1, <2>2, <2>3, <2>4, <1>1, <1>5, <1>11 DEF Types
<1>13. RemoteIsListed'
  <2> SUFFICES ASSUME NEW m \in Node, NEW q \in Node, NEW e, e = remote'[m][q], e # None
               PROVE  /\ e \in DOMAIN conn'
                      /\ \/ /\ conn'[e].from = m /\ conn'[e].to = q
                            /\ conn'[e].out \in {"open", "dead"}
                         \/ conn'[e].from = q /\ conn'[e].to = m /\ conn'[e].in = "open"
    BY DEF RemoteIsListed
  <2>1. e = remote[m][q] /\ ~(m = n /\ q = p)
    BY <1>10
  <2>2. /\ e \in D
        /\ \/ conn[e].from = m /\ conn[e].to = q /\ conn[e].out \in {"open", "dead"}
           \/ conn[e].from = q /\ conn[e].to = m /\ conn[e].in = "open"
    BY <2>1, <1>1, <1>3 DEF RemoteIsListed
  <2>3. e \in DOMAIN conn' /\ conn'[e].from = conn[e].from /\ conn'[e].to = conn[e].to
    BY <2>2, <1>3, <1>9 DEF SameParties
  <2>4. QED
    BY <2>1, <2>2, <2>3, <1>8
<1>14. OpenIsRemote'
  <2> SUFFICES ASSUME NEW d \in D
               PROVE  /\ conn'[d].out = "open" => remote'[conn[d].from][conn[d].to] = d
                      /\ conn'[d].in = "open" => remote'[conn[d].to][conn[d].from] = d
    BY <1>3, <1>9 DEF OpenIsRemote, SameParties
  <2>1. /\ conn[d].out = "open" => remote[conn[d].from][conn[d].to] = d
        /\ conn[d].in = "open" => remote[conn[d].to][conn[d].from] = d
    BY <1>1, <1>3 DEF OpenIsRemote
  <2>2. conn[d].from \in Node /\ conn[d].to \in Node
    BY <1>4 DEF ConnRecord
  <2>3. CASE d = old
    BY <2>1, <2>2, <2>3, <1>6, <1>8, <1>10
  <2>4. CASE d # old
    <3>1. conn'[d] = conn[d]
      BY <2>4, <1>8
    <3>2. remote[n][p] # d
      BY <2>4, <1>2
    <3>3. QED
      BY <2>1, <2>2, <3>1, <3>2, <1>10
  <2>5. QED
    BY <2>3, <2>4
<1>15. DialsEnd'
  <2> SUFFICES ASSUME NEW d \in D
               PROVE  /\ conn'[d].out = "dial" => conn'[d].in = "none"
                      /\ conn'[d].out = "open" => conn'[d].result \in {"conn", "done"}
    BY <1>3, <1>9 DEF DialsEnd, SameParties
  <2>1. /\ conn[d].out = "dial" => conn[d].in = "none"
        /\ conn[d].out = "open" => conn[d].result \in {"conn", "done"}
    BY <1>3 DEF IInv, DialsEnd
  <2>2. QED
    BY <2>1, <1>6, <1>8
<1>16. ChainsKnow'
  <2> SUFFICES ASSUME breaks = 0, NEW d \in D
               PROVE  /\ ~conn'[d].broken
                      /\ conn'[d].in = "open" => conn[d].from \in told'[conn[d].to]
                      /\ conn'[d].out = "open" /\ conn'[d].result = "done" =>
                             conn[d].to \in told'[conn[d].from]
    BY <1>3, <1>5, <1>9 DEF ChainsKnow, SameParties
  <2>1. /\ ~conn[d].broken
        /\ conn[d].in = "open" => conn[d].from \in told[conn[d].to]
        /\ conn[d].out = "open" /\ conn[d].result = "done" => conn[d].to \in told[conn[d].from]
    BY <1>3 DEF IInv, ChainsKnow
  <2>2. /\ conn[d].out = "open" => remote[conn[d].from][conn[d].to] = d
        /\ conn[d].in = "open" => remote[conn[d].to][conn[d].from] = d
    BY <1>1, <1>3 DEF OpenIsRemote
  <2>3. conn[d].from \in Node /\ conn[d].to \in Node
    BY <1>4 DEF ConnRecord
  <2>4. CASE d = old
    BY <2>1, <2>3, <2>4, <1>6, <1>8, <1>10
  <2>5. CASE d # old
    <3>1. conn'[d] = conn[d]
      BY <2>5, <1>8
    <3>2. remote[n][p] # d
      BY <2>5, <1>2
    <3>3. QED
      BY <2>1, <2>2, <2>3, <3>1, <3>2, <1>10
  <2>6. QED
    BY <2>4, <2>5
<1>17. NobodyBanned' /\ Pairs'
  BY <1>11 DEF NobodyBanned, Pairs, Peaceful
<1>18. QED
  BY <1>12, <1>13, <1>14, <1>15, <1>16, <1>17 DEF IInv

\* A ban can only end after one was imposed.
LEMMA BanEndsKeeps ==
    ASSUME IInv, NEW n \in Node, NEW p \in Node, BanEnds(n, p)
    PROVE  IInv'
<1>1. /\ bans[n][p] = "day" /\ bans' = [bans EXCEPT ![n][p] = "over"]
      /\ UNCHANGED <<conn, remote, known, told, genesis, breaks, banned>>
  BY DEF BanEnds
<1>2. bans' \in [Node -> [Node -> {"none", "day", "over", "forever"}]]
  <2>1. bans \in [Node -> [Node -> {"none", "day", "over", "forever"}]]
    BY DEF IInv, Types
  <2>2. QED
    BY <2>1, <1>1
<1>3. Types'
  BY <1>1, <1>2 DEF IInv, Types, Dialled, Batches
<1>4. RemoteIsListed' /\ OpenIsRemote' /\ DialsEnd' /\ ChainsKnow'
  BY <1>1 DEF IInv, RemoteIsListed, OpenIsRemote, DialsEnd, ChainsKnow
<1>5. NobodyBanned'
  <2>1. banned # 0
    BY <1>1 DEF IInv, NobodyBanned
  <2>2. QED
    BY <2>1, <1>1 DEF NobodyBanned
<1>6. Pairs'
  <2> SUFFICES ASSUME NEW x \in Node, NEW y \in Node, Peaceful(x, y)' PROVE Settled(x, y)'
    BY DEF Pairs
  <2>1. Between(x, y)' = Between(x, y)
    BY <1>1 DEF Between
  <2>2. Peaceful(x, y)
    BY <2>1, <1>1 DEF Peaceful, NoTies
  <2>3. Settled(x, y)
    BY <2>2 DEF IInv, Pairs
  <2>4. \A c : (Stage(c)' <=> Stage(c)) /\ (Beaten(c)' <=> Beaten(c))
    BY <1>1 DEF Stage, Beaten
  <2>5. QED
    BY <2>1, <2>3, <2>4, <1>1 DEF Settled
<1>7. QED
  BY <1>3, <1>4, <1>5, <1>6 DEF IInv

\* A peaceful pair is not dialled again: its first dial that way is under way,
\* or listed, or was given up for one that is.
LEMMA NotDialledTwice ==
    ASSUME IInv, NEW e \in DOMAIN conn, NEW x, NEW y, Settled(x, y), e \in Between(x, y),
           WillConnectTo(conn[e].from, conn[e].to)
    PROVE  FALSE
<1>1. Types /\ OpenIsRemote
  BY DEF IInv
<1>2. \A f \in DOMAIN conn : f # None
  BY <1>1, DialledShape, PeersConstants DEF Types, Conn
<1>3. conn[e].result = "done"
  BY DEF WillConnectTo, Connecting
<1>4. remote[conn[e].from][conn[e].to] = None
  BY DEF WillConnectTo
<1>5. conn[e].out \in {"open", "gone"} /\ (conn[e].out = "gone" => Beaten(e))
  BY <1>3 DEF Settled, Stage
<1>6. CASE conn[e].out = "open"
  BY <1>1, <1>2, <1>4, <1>6 DEF OpenIsRemote
<1>7. CASE Beaten(e)
  <2>1. PICK f \in DOMAIN conn :
          conn[f].from = conn[e].to /\ conn[f].to = conn[e].from /\ conn[f].in = "open"
    BY <1>7 DEF Beaten
  <2>2. remote[conn[e].from][conn[e].to] = f
    BY <2>1, <1>1 DEF OpenIsRemote
  <2>3. QED
    BY <2>1, <2>2, <1>2, <1>4
<1>8. QED
  BY <1>5, <1>6, <1>7

\* The timer dials none that a peaceful pair has dialled before.
LEMMA CheckOutboundKeeps ==
    ASSUME IInv, NEW n \in Node, CheckOutbound(n)
    PROVE  IInv'
<1>1. Types /\ RemoteIsListed /\ OpenIsRemote
  BY DEF IInv
<1>2. PICK ids, willing, peer, first :
        /\ peer \in [ids -> willing] /\ willing \subseteq Node
        /\ \A p \in willing : WillConnectTo(n, p)
        /\ \A c, d \in ids : peer[c] = peer[d] => c = d
        /\ ids \cap DOMAIN conn = {} /\ (ids # {} => first \in ids)
        /\ Dialled' /\ DOMAIN conn' = DOMAIN conn \cup ids
        /\ \A c \in DOMAIN conn : conn'[c] = conn[c]
        /\ \A c \in ids : conn'[c] = NewConn(n, peer[c], first)
        /\ \E peers : Looked(n, peers)
        /\ UNCHANGED <<remote, known, told, genesis, breaks, banned>>
  BY <1>1, CheckOutboundEffect
<1>3. PICK D : D = DOMAIN conn
  OBVIOUS
<1>4. \A e \in D : conn'[e] = conn[e] /\ e \notin ids
  BY <1>2, <1>3
<1>5. ASSUME NEW c \in ids
      PROVE  /\ peer[c] \in Node /\ WillConnectTo(n, peer[c]) /\ peer[c] # n
             /\ conn'[c].from = n /\ conn'[c].to = peer[c] /\ conn'[c].batch = first
             /\ conn'[c].out = "dial" /\ conn'[c].in = "none" /\ conn'[c].ack = "none"
             /\ conn'[c].result = "pending" /\ conn'[c].broken = FALSE
  <2>1. peer[c] \in Node /\ WillConnectTo(n, peer[c])
    BY <1>2
  <2>2. peer[c] # n
    BY <2>1 DEF WillConnectTo
  <2>3. conn'[c] = NewConn(n, peer[c], first)
    BY <1>2
  <2>4. QED
    BY <2>1, <2>2, <2>3 DEF NewConn
<1>6. DOMAIN conn' = D \cup ids
  BY <1>2, <1>3
<1>7. Batches'
  <2> SUFFICES ASSUME NEW c \in D \cup ids
               PROVE  /\ conn'[c].from # conn'[c].to /\ conn'[c].batch \in D \cup ids
                      /\ conn'[conn'[c].batch].from = conn'[c].from
    BY <1>6 DEF Batches
  <2>1. CASE c \in ids
    <3>1. first \in ids
      BY <2>1, <1>2
    <3>2. conn'[c].from = n /\ conn'[c].to # n /\ conn'[c].batch = first
      BY <2>1, <1>5
    <3>3. conn'[first].from = n
      BY <3>1, <1>5
    <3>4. QED
      BY <3>1, <3>2, <3>3
  <2>2. CASE c \in D
    <3>1. /\ conn[c].from # conn[c].to /\ conn[c].batch \in D
          /\ conn[conn[c].batch].from = conn[c].from
      BY <2>2, <1>1, <1>3 DEF Types, Batches
    <3>2. QED
      BY <2>2, <3>1, <1>4
  <2>3. QED
    BY <2>1, <2>2
<1>8. /\ bans' \in [Node -> [Node -> {"none", "day", "over", "forever"}]]
      /\ \A m, q \in Node : bans'[m][q] = bans[m][q] \/ bans'[m][q] = "none"
  BY <1>1, <1>2, LookedEffect
<1>9. Types'
  BY <1>1, <1>2, <1>7, <1>8 DEF Types
<1>10. RemoteIsListed'
  <2> SUFFICES ASSUME NEW m \in Node, NEW q \in Node, NEW e, e = remote[m][q], e # None
               PROVE  /\ e \in DOMAIN conn'
                      /\ \/ /\ conn'[e].from = m /\ conn'[e].to = q
                            /\ conn'[e].out \in {"open", "dead"}
                         \/ conn'[e].from = q /\ conn'[e].to = m /\ conn'[e].in = "open"
    BY <1>2 DEF RemoteIsListed
  <2>1. /\ e \in D
        /\ \/ conn[e].from = m /\ conn[e].to = q /\ conn[e].out \in {"open", "dead"}
           \/ conn[e].from = q /\ conn[e].to = m /\ conn[e].in = "open"
    BY <1>1, <1>3 DEF RemoteIsListed
  <2>2. QED
    BY <2>1, <1>4, <1>6
<1>11. OpenIsRemote'
  <2> SUFFICES ASSUME NEW d \in D \cup ids
               PROVE  /\ conn'[d].out = "open" => remote[conn'[d].from][conn'[d].to] = d
                      /\ conn'[d].in = "open" => remote[conn'[d].to][conn'[d].from] = d
    BY <1>2, <1>6 DEF OpenIsRemote
  <2>1. CASE d \in ids
    BY <2>1, <1>5
  <2>2. CASE d \in D
    BY <2>2, <1>1, <1>3, <1>4 DEF OpenIsRemote
  <2>3. QED
    BY <2>1, <2>2
<1>12. DialsEnd'
  <2> SUFFICES ASSUME NEW d \in D \cup ids
               PROVE  /\ conn'[d].out = "dial" => conn'[d].in = "none"
                      /\ conn'[d].out = "open" => conn'[d].result \in {"conn", "done"}
    BY <1>6 DEF DialsEnd
  <2>1. CASE d \in ids
    BY <2>1, <1>5
  <2>2. CASE d \in D
    BY <2>2, <1>3, <1>4 DEF IInv, DialsEnd
  <2>3. QED
    BY <2>1, <2>2
<1>13. ChainsKnow'
  <2> SUFFICES ASSUME breaks = 0, NEW d \in D \cup ids
               PROVE  /\ ~conn'[d].broken
                      /\ conn'[d].in = "open" => conn'[d].from \in told[conn'[d].to]
                      /\ conn'[d].out = "open" /\ conn'[d].result = "done" =>
                             conn'[d].to \in told[conn'[d].from]
    BY <1>2, <1>6 DEF ChainsKnow
  <2>1. CASE d \in ids
    BY <2>1, <1>5
  <2>2. CASE d \in D
    BY <2>2, <1>3, <1>4 DEF IInv, ChainsKnow
  <2>3. QED
    BY <2>1, <2>2
<1>14. NobodyBanned'
  BY <1>2, <1>8 DEF IInv, NobodyBanned
<1>15. Pairs'
  <2> SUFFICES ASSUME NEW x \in Node, NEW y \in Node, Peaceful(x, y)' PROVE Settled(x, y)'
    BY DEF Pairs
  <2>1. TimesStay /\ CountsGrow
    BY <1>1, <1>2, <1>3, <1>4 DEF TimesStay, CountsGrow, Types
  <2>2. Peaceful(x, y)
    <3>1. DOMAIN conn \subseteq DOMAIN conn'
      BY <1>2
    <3>2. \A d \in DOMAIN conn : conn'[d].from = conn[d].from /\ conn'[d].to = conn[d].to
      BY <1>2
    <3>3. QED
      BY <2>1, <3>1, <3>2, <1>1, PeacefulBefore
  <2>3. Settled(x, y)
    BY <2>2 DEF IInv, Pairs
  <2>4. \A e : e \in Between(x, y)' <=>
          e \in Between(x, y) \/ (e \in ids /\ {n, peer[e]} = {x, y})
    BY <1>3, <1>4, <1>5, <1>6 DEF Between
  <2>5. \A e \in Between(x, y) : e \in D /\ conn'[e] = conn[e]
    BY <1>3, <1>4 DEF Between
  <2>6. ASSUME NEW e \in Between(x, y), Beaten(e) PROVE Beaten(e)'
    <3>1. PICK d \in D :
            /\ conn[d].from = conn[e].to /\ conn[d].to = conn[e].from
            /\ conn[d].ts < conn[e].ts
            /\ conn[d].in = "open" /\ conn[d].out \in {"wait", "open"}
      BY <2>6, <1>3 DEF Beaten
    <3>2. conn'[d] = conn[d] /\ conn'[e] = conn[e] /\ d \in DOMAIN conn'
      BY <2>5, <1>4, <1>6
    <3>3. QED
      BY <3>1, <3>2 DEF Beaten
  <2>7. ASSUME NEW e \in Between(x, y)'
        PROVE  Stage(e)' /\ (conn'[e].in = "gone" \/ conn'[e].out = "gone" => Beaten(e)')
    <3>1. CASE e \in Between(x, y)
      <4>1. Stage(e) /\ (conn[e].in = "gone" \/ conn[e].out = "gone" => Beaten(e))
        BY <3>1, <2>3 DEF Settled
      <4>2. Stage(e)'
        BY <3>1, <4>1, <2>5 DEF Stage
      <4>3. QED
        BY <3>1, <4>1, <4>2, <2>5, <2>6
    <3>2. CASE e \in ids
      BY <3>2, <1>5 DEF Stage
    <3>3. QED
      BY <3>1, <3>2, <2>4
  <2>8. ASSUME NEW d \in ids, NEW e \in Between(x, y), {n, peer[d]} = {x, y},
               conn[e].from = n
        PROVE  FALSE
    <3>1. e \in DOMAIN conn /\ {conn[e].from, conn[e].to} = {x, y}
          /\ conn[e].from # conn[e].to
      BY <2>8, <1>1 DEF Between, Types, Batches
    <3>2. conn[e].to = peer[d]
      BY <2>8, <3>1, <1>5
    <3>3. WillConnectTo(conn[e].from, conn[e].to)
      BY <2>8, <3>2, <1>5
    <3>4. QED
      BY <3>1, <3>3, <2>3, <2>8, NotDialledTwice
  <2>9. ASSUME NEW d \in ids, NEW e \in ids, {n, peer[d]} = {x, y}, {n, peer[e]} = {x, y}
        PROVE  d = e
    BY <2>9, <1>2, <1>5
  <2>10. ASSUME NEW d \in Between(x, y)', NEW e \in Between(x, y)',
                conn'[d].from = conn'[e].from
         PROVE  d = e
    <3>1. CASE d \in Between(x, y) /\ e \in Between(x, y)
      BY <3>1, <2>3, <2>5, <2>10 DEF Settled
    <3>2. CASE d \in ids /\ {n, peer[d]} = {x, y} /\ e \in Between(x, y)
      <4>1. conn'[d].from = n /\ conn'[e] = conn[e]
        BY <3>2, <2>5, <1>5
      <4>2. conn[e].from = n
        BY <4>1, <2>10
      <4>3. QED
        BY <3>2, <4>2, <2>8
    <3>3. CASE e \in ids /\ {n, peer[e]} = {x, y} /\ d \in Between(x, y)
      <4>1. conn'[e].from = n /\ conn'[d] = conn[d]
        BY <3>3, <2>5, <1>5
      <4>2. conn[d].from = n
        BY <4>1, <2>10
      <4>3. QED
        BY <3>3, <4>2, <2>8
    <3>4. CASE d \in ids /\ {n, peer[d]} = {x, y} /\ e \in ids /\ {n, peer[e]} = {x, y}
      BY <3>4, <2>9
    <3>5. QED
      BY <3>1, <3>2, <3>3, <3>4, <2>4
  <2>11. QED
    BY <2>7, <2>10 DEF Settled
<1>16. QED
  BY <1>9, <1>10, <1>11, <1>12, <1>13, <1>14, <1>15 DEF IInv

----------------------------------------------------------------------------
(* The invariant.                                                          *)

\* Nothing is dialled at first.
LEMMA InitIInv == Init => IInv
<1> SUFFICES ASSUME Init PROVE IInv
  OBVIOUS
<1>1. DOMAIN conn = {}
  BY DEF Init
<1>2. MaxConn \in Nat
  BY PeersConstants
<1>3. Dialled
  <2>1. 1..0 = {}
    OBVIOUS
  <2>2. conn = [c \in 1..0 |-> conn[c]]
    BY <2>1 DEF Init
  <2>3. conn \in [1..0 -> ConnRecord]
    BY <2>1, <2>2
  <2>4. 0 \in 0..MaxConn
    BY <1>2
  <2>5. QED
    BY <2>3, <2>4 DEF Dialled
<1>4. Types
  BY <1>1, <1>3 DEF Init, Types, Batches
<1>5. RemoteIsListed
  BY DEF Init, RemoteIsListed
<1>6. OpenIsRemote /\ DialsEnd /\ ChainsKnow
  BY <1>1 DEF OpenIsRemote, DialsEnd, ChainsKnow
<1>7. NobodyBanned
  BY DEF Init, NobodyBanned
<1>8. Pairs
  <2>1. \A x, y : Between(x, y) = {}
    BY <1>1 DEF Between
  <2>2. QED
    BY <2>1 DEF Pairs, Settled
<1>9. QED
  BY <1>4, <1>5, <1>6, <1>7, <1>8 DEF IInv

\* Steps that change nothing.
LEMMA StutterKeeps ==
    ASSUME IInv, UNCHANGED vars
    PROVE  IInv'
<1> USE DEF vars
<1>1. Types'
  BY DEF IInv, Types, Dialled, Batches
<1>2. RemoteIsListed' /\ OpenIsRemote' /\ DialsEnd' /\ ChainsKnow' /\ NobodyBanned'
  BY DEF IInv, RemoteIsListed, OpenIsRemote, DialsEnd, ChainsKnow, NobodyBanned
<1>3. Pairs'
  <2> SUFFICES ASSUME NEW x \in Node, NEW y \in Node, Peaceful(x, y)' PROVE Settled(x, y)'
    BY DEF Pairs
  <2>1. Between(x, y)' = Between(x, y)
    BY DEF Between
  <2>2. Peaceful(x, y)
    BY <2>1 DEF Peaceful, NoTies
  <2>3. Settled(x, y)
    BY <2>2 DEF IInv, Pairs
  <2>4. \A c : (Stage(c)' <=> Stage(c)) /\ (Beaten(c)' <=> Beaten(c))
    BY DEF Stage, Beaten
  <2>5. QED
    BY <2>1, <2>3, <2>4 DEF Settled
<1>4. QED
  BY <1>1, <1>2, <1>3 DEF IInv

\* Every step preserves the invariant.
LEMMA NextIInv == IInv /\ [Next]_vars => IInv'
<1> SUFFICES ASSUME IInv, [Next]_vars PROVE IInv'
  OBVIOUS
<1>1. CASE \E n \in Node : CheckOutbound(n) \/ \E c \in DOMAIN conn : Report(n, c)
  BY <1>1, CheckOutboundKeeps, ReportKeeps
<1>2. CASE \E c \in DOMAIN conn : Handshake(c)
  BY <1>2, ConnectedKeeps, OnVersionKeeps, OnAckKeeps DEF Handshake
<1>3. CASE \E c \in DOMAIN conn : Failure(c)
  BY <1>3, RefusedKeeps, BreakKeeps, InErrorKeeps, OutErrorKeeps DEF Failure
<1>4. CASE \E n, p \in Node :
             BanEnds(n, p) \/ \E level \in {"day", "forever"} : BanConnection(n, p, level)
  BY <1>4, BanKeeps, BanEndsKeeps
<1>5. CASE UNCHANGED vars
  BY <1>5, StutterKeeps
<1>6. QED
  BY <1>1, <1>2, <1>3, <1>4, <1>5 DEF Next

\* The maps, the connections' ends and the chains stay in step, whatever fails and
\* whoever is banned (INode, Network and their callers).
THEOREM PeersInvariant == Spec => []IInv
BY InitIInv, NextIInv, PTL DEF Spec

----------------------------------------------------------------------------
(* What follows from it.                                                   *)

\* The invariant's types are those of the specification.
LEMMA TypesFollow == IInv => TypeOK
<1> SUFFICES ASSUME IInv PROVE TypeOK
  OBVIOUS
<1>1. conn \in [DOMAIN conn -> ConnRecord] /\ DOMAIN conn \subseteq Conn
  BY DialledShape DEF IInv, Types
<1>2. \A c \in DOMAIN conn : conn[c] \in ConnRecord
  BY <1>1
<1>3. \A c \in DOMAIN conn : conn[c].from # conn[c].to /\ conn[c].batch \in DOMAIN conn
  BY DEF IInv, Types, Batches
<1>4. \A c \in DOMAIN conn :
        /\ conn[c].from \in Node /\ conn[c].to \in Node \ {conn[c].from}
        /\ conn[c].batch \in DOMAIN conn /\ conn[c].ts \in Clock
        /\ conn[c].out \in {"dial", "wait", "open", "dead", "stuck", "gone"}
        /\ conn[c].in \in {"none", "wait", "open", "gone"}
        /\ conn[c].ack \in {"none", "sent", "read"}
        /\ conn[c].result \in {"pending", "conn", "exist", "failed", "done"}
  BY <1>2, <1>3 DEF ConnRecord
<1>5. QED
  BY <1>1, <1>4 DEF IInv, Types, TypeOK

\* The chain is told of a live connection by its two ends, by the accepting one at
\* once and by the dialling one with its batch.
LEMMA LiveIsToldFollows == IInv => LiveIsTold
<1> SUFFICES ASSUME IInv, NEW c \in DOMAIN conn, breaks = 0,
                    conn[c].out = "open", conn[c].in = "open"
             PROVE  /\ conn[c].from \in told[conn[c].to]
                    /\ conn[c].to \in told[conn[c].from] \/ conn[c].result # "done"
  BY DEF LiveIsTold
<1>1. QED
  BY DEF IInv, ChainsKnow

\* Once the handshakes of a peaceful pair are over, the oldest connection is left:
\* it beats every other one, and nothing beats it.
LEMMA SurvivorFollows == IInv => SurvivorAgreed
<1> SUFFICES ASSUME IInv, NEW a \in Node, NEW b \in Node, a # b, genesis[a] = genesis[b],
                    breaks = 0, banned = 0, Between(a, b) # {}, Quiet(a, b),
                    \A c, d \in Between(a, b) : c # d => conn[c].ts # conn[d].ts
             PROVE  \E c \in Between(a, b) :
                      /\ remote[a][b] = c /\ remote[b][a] = c
                      /\ conn[c].out = "open" /\ conn[c].in = "open"
                      /\ \A d \in Between(a, b) \ {c} : d \notin Listed(a) \cup Listed(b)
  BY DEF SurvivorAgreed
<1>1. Settled(a, b)
  BY DEF IInv, Pairs, Peaceful, NoTies
<1>2. ASSUME NEW c \in Between(a, b)
      PROVE  /\ c \in DOMAIN conn /\ {conn[c].from, conn[c].to} = {a, b}
             /\ conn[c].from # conn[c].to
             /\ conn[c].out \in {"open", "gone"} /\ conn[c].in \in {"open", "gone"}
             /\ conn[c].out = "gone" \/ conn[c].in = "gone" => Beaten(c)
  <2>1. c \in DOMAIN conn /\ {conn[c].from, conn[c].to} = {a, b}
    BY DEF Between
  <2>2. conn[c].from # conn[c].to
    BY <2>1 DEF IInv, Types, Batches
  <2>3. /\ conn[c].out # "dial" /\ conn[c].in # "wait"
        /\ ~(conn[c].out = "wait" /\ conn[c].ack = "sent")
    BY DEF Quiet
  <2>4. Stage(c) /\ (conn[c].out = "gone" \/ conn[c].in = "gone" => Beaten(c))
    BY <1>1 DEF Settled
  <2>5. QED
    BY <2>1, <2>2, <2>3, <2>4 DEF Stage
<1>3. ASSUME NEW c \in Between(a, b), Beaten(c)
      PROVE  \E d \in Between(a, b) : conn[d].out = "open" /\ conn[d].in = "open"
  <2>1. PICK d \in DOMAIN conn :
          /\ conn[d].from = conn[c].to /\ conn[d].to = conn[c].from
          /\ conn[d].in = "open" /\ conn[d].out \in {"wait", "open"}
    BY <1>3 DEF Beaten
  <2>2. d \in Between(a, b)
    BY <2>1, <1>2, <1>3 DEF Between
  <2>3. conn[d].out = "open"
    BY <2>1, <2>2, <1>2
  <2>4. QED
    BY <2>1, <2>2, <2>3
<1>4. PICK w \in Between(a, b) : conn[w].out = "open" /\ conn[w].in = "open"
  <2>1. PICK c : c \in Between(a, b)
    OBVIOUS
  <2>2. CASE conn[c].out = "open" /\ conn[c].in = "open"
    BY <2>1, <2>2
  <2>3. CASE conn[c].out = "gone" \/ conn[c].in = "gone"
    BY <2>1, <2>3, <1>2, <1>3
  <2>4. QED
    BY <2>1, <2>2, <2>3, <1>2
<1>5. ASSUME NEW d \in Between(a, b)
      PROVE  /\ conn[d].out = "open" => remote[conn[d].from][conn[d].to] = d
             /\ conn[d].in = "open" => remote[conn[d].to][conn[d].from] = d
  BY <1>2 DEF IInv, OpenIsRemote
<1>6. remote[a][b] = w /\ remote[b][a] = w
  BY <1>2, <1>4, <1>5
<1>7. ASSUME NEW d \in Between(a, b) \ {w} PROVE d \notin Listed(a) \cup Listed(b)
  <2>1. \/ conn[d].from = a /\ conn[d].to = b
        \/ conn[d].from = b /\ conn[d].to = a
    BY <1>2
  <2>2. conn[d].out # "open" /\ conn[d].in # "open"
    BY <2>1, <1>5, <1>6
  <2>3. conn[d].out = "gone" /\ conn[d].in = "gone"
    BY <2>2, <1>2
  <2>4. QED
    BY <2>3 DEF Listed, End
<1>8. WITNESS w \in Between(a, b)
<1>9. QED
  BY <1>4, <1>6, <1>7

\* Two nodes that dial each other at different times, have no other trouble and are
\* done with their handshakes share one connection, the same at both ends; and every
\* live connection's peer is known to the chain (connectTo, _onInbound and the
\* version's compare).
THEOREM PeersDoAgree == Spec => []PeersAgree
<1>1. IInv => PeersAgree
  BY TypesFollow, LiveIsToldFollows, SurvivorFollows DEF PeersAgree
<1>2. QED
  BY <1>1, PeersInvariant, PTL

\* The chain is told of a peer by its version, which a ban for ever refuses, or by
\* a batch that dialled it.
LEMMA ToldAnew ==
    ASSUME IInv, [Next]_vars, NEW n \in Node, NEW p \in Node, bans[n][p] = "forever",
           p \in told'[n] \ told[n]
    PROVE  p \in Connecting(n)
<1>1. Types /\ RemoteIsListed
  BY DEF IInv
<1>2. told \in [Node -> SUBSET Node]
  BY <1>1 DEF Types
<1>3. ASSUME UNCHANGED told PROVE FALSE
  BY <1>3
<1>4. ASSUME NEW m, NEW q, told' = [told EXCEPT ![m] = @ \ {q}] PROVE FALSE
  BY <1>2, <1>4
<1>5. CASE \E m \in Node : CheckOutbound(m)
  BY <1>3, <1>5 DEF CheckOutbound
<1>6. CASE \E m \in Node, first \in DOMAIN conn : Report(m, first)
  <2>1. PICK m \in Node, first \in DOMAIN conn : Report(m, first)
    BY <1>6
  <2>2. m = n
    BY <2>1, <1>1, ReportEffect
  <2>3. PICK d \in DOMAIN conn :
          conn[d].from = n /\ conn[d].to = p /\ conn[d].result = "conn"
    BY <2>1, <2>2, <1>1, ReportEffect
  <2>4. QED
    BY <2>3 DEF Connecting
<1>7. CASE \E c \in DOMAIN conn : OnVersion(c)
  <2>1. PICK c \in DOMAIN conn : OnVersion(c)
    BY <1>7
  <2>2. PICK m, q, old : m = conn[c].to /\ q = conn[c].from /\ old = remote[m][q]
    OBVIOUS
  <2>3. VersionTaken(c, m, q, old)
    BY <2>1, <2>2, <1>1, OnVersionEffect, Zenon
  <2>4. \/ UNCHANGED told
        \/ /\ ~IsBan(m, q) /\ m \in Node /\ q \in Node
           /\ told' = [told EXCEPT ![m] = told[m] \cup {q}]
    BY <2>3, <1>2 DEF VersionTaken
  <2>5. CASE /\ ~IsBan(m, q) /\ m \in Node /\ q \in Node
             /\ told' = [told EXCEPT ![m] = told[m] \cup {q}]
    <3>1. m = n /\ q = p
      BY <2>5, <1>2
    <3>2. QED
      BY <2>5, <3>1 DEF IsBan
  <2>6. QED
    BY <2>4, <2>5, <1>3
<1>8. CASE \E c \in DOMAIN conn : Connected(c) \/ OnAck(c) \/ Refused(c) \/ Break(c)
  BY <1>3, <1>8 DEF Connected, OnAck, Refused, Break
<1>9. CASE \E c \in DOMAIN conn : InError(c)
  BY <1>3, <1>4, <1>9 DEF InError
<1>10. CASE \E c \in DOMAIN conn : OutError(c)
  BY <1>4, <1>10 DEF OutError
<1>11. CASE \E m, q \in Node : BanEnds(m, q)
  BY <1>3, <1>11 DEF BanEnds
<1>12. CASE \E m, q \in Node : \E level \in {"day", "forever"} : BanConnection(m, q, level)
  BY <1>4, <1>12 DEF BanConnection
<1>13. CASE UNCHANGED vars
  BY <1>3, <1>13 DEF vars
<1>14. QED
  BY <1>5, <1>6, <1>7, <1>8, <1>9, <1>10, <1>11, <1>12, <1>13 DEF Next, Handshake, Failure

\* A peer that is banned for ever is not let in again, but by a dial that was under
\* way already (onNewConnection's and newConnection's callers).
THEOREM PeersBannedStayOut == Spec => BannedStayOut
<1>1. IInv /\ [Next]_vars =>
        [\A n, p \in Node :
            bans[n][p] = "forever" /\ p \in told'[n] \ told[n] => p \in Connecting(n)]_vars
  <2> SUFFICES ASSUME IInv, [Next]_vars, NEW n \in Node, NEW p \in Node,
                      bans[n][p] = "forever", p \in told'[n] \ told[n]
               PROVE  p \in Connecting(n)
    OBVIOUS
  <2>1. QED
    BY ToldAnew
<1>2. QED
  BY <1>1, PeersInvariant, PTL DEF Spec, BannedStayOut
=============================================================================
