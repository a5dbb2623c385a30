---------------------------- MODULE MCSyncTables ----------------------------
(***************************************************************************)
(* Two addresses, one token spelled in two ways, one transaction of every  *)
(* method, successful or not, and one question of every form the handlers  *)
(* tell apart.                                                             *)
(***************************************************************************)
EXTENDS ReadApi

CONSTANTS alice, bob

BothMine == <<bob, alice>>

Spelling == [abc |-> "ABC", ABC |-> "ABC"]

Tx(method, caller, to, token, ok) ==
    [method |-> method, caller |-> caller, to |-> to, token |-> token, ok |-> ok]

\* Sales are spelled in both ways: the client's command sends what was typed.
Sent ==
    { Tx("transferTo", alice, <<bob>>, "s", TRUE),
      Tx("transferTo", bob, <<alice>>, "s", FALSE),
      Tx("vote", alice, <<>>, "s", TRUE),
      Tx("createToken", alice, <<bob>>, "abc", TRUE),
      Tx("createBancorToken", bob, <<alice, bob>>, "abc", TRUE),
      Tx("createBancorToken", alice, <<bob>>, "ABC", FALSE),
      Tx("buyBancorToken", alice, <<>>, "abc", TRUE),
      Tx("sellBancorToken", bob, <<>>, "ABC", TRUE),
      Tx("sellBancorToken", alice, <<>>, "abc", TRUE),
      Tx("transferTokenTo", bob, <<alice>>, "abc", TRUE),
      Tx("transferBancorTokenTo", alice, <<bob>>, "abc", TRUE) }

WatchedTxs ==
    { Tx("createBancorToken", bob, <<alice, bob>>, "abc", TRUE),
      Tx("buyBancorToken", alice, <<>>, "abc", TRUE),
      Tx("sellBancorToken", alice, <<>>, "abc", TRUE) }

Capitals == [s |-> "S", sys |-> "SYS", SYS |-> "SYS", abc |-> "ABC", ABC |-> "ABC"]

Plain(fun) == [fun |-> fun, addr |-> None, token |-> "abc", num |-> None,
               page |-> 0, size |-> None, bad |-> FALSE]

About(fun, addr) == [Plain(fun) EXCEPT !.addr = addr]
Named(fun, token) == [Plain(fun) EXCEPT !.token = token]
Numbered(fun, num) == [Plain(fun) EXCEPT !.num = num]
Paged(q, page, size) == [q EXCEPT !.page = page, !.size = size]
Bad(fun) == [Plain(fun) EXCEPT !.bad = TRUE]

Questions ==
    { About("getName", alice), Named("getName", "abc"), Named("getName", "sys"),
      Numbered("getName", 1), Bad("getName"), About("getAccount", alice), Plain("getAccounts"),
      Named("getToken", "abc"), Bad("getToken"), Named("getTokenPrice", "abc"),
      Named("getFortuneRanking", "s"), Paged(Named("getFortuneRanking", "abc"), 2, 1),
      Bad("getFortuneRanking"), Paged(About("getTxsByAddress", bob), 1, 1),
      Paged(About("getTxsByAddress", alice), 0, 2), Bad("getTxsByAddress"), Plain("getTxs"),
      Paged(Plain("getLatestTxs"), 2, 1), Numbered("getTxsByBlock", 1), Numbered("getTx", 2),
      Plain("getBlocks"), Plain("getLatestBlocks"), Paged(Numbered("getLatestTxCount", 1), 0, 3),
      Plain("getChainOverview"), Plain("other") }
=============================================================================
