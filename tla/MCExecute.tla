----------------------------- MODULE MCExecute -----------------------------
(* Two users, five transactions and five blocks of one or two of them; and  *)
(* the operations of the stores the blocks may be run on.                   *)
EXTENDS Worker, KeyValue

CONSTANTS alice, bob

MCAccount == {alice, bob}

MCBalance == (alice :> 6) @@ (bob :> 2) @@ (Sys :> 0)

Pay(from, nonce, pays, cost, ok) ==
    [from |-> from, nonce |-> nonce, value |-> 2, fee |-> 1,
     pays |-> pays, cost |-> cost, ok |-> ok]

\* Payments that succeed, fail, cost more than their fee, and the payer's own.
A0  == Pay(alice, 0, bob, 1, TRUE)
A0x == Pay(alice, 0, bob, 1, FALSE)
A1  == Pay(alice, 1, alice, 1, TRUE)
B0  == Pay(bob, 0, None, 2, TRUE)
B0p == Pay(bob, 0, alice, 1, TRUE)

Block(event, txs) == [event |-> event, txs |-> txs]

MCContent == {Block("ok", <<A0x, A1>>), Block("fail", <<A0>>), Block("none", <<A1>>),
              Block("none", <<B0, A0>>), Block("ok", <<B0p>>)}

\* A field, and values of the kinds the log and the stores write differently.
MCField == {<<"string", <<"f">>>>, <<"string", <<"n">>>>}

MCValue == {<<"string", <<"n", "1">>>>, <<"BigNumber", <<"1">>>>}

\* A chain's state is the same whichever store keeps it, and if it is read back
\* from its file or made again from the redo log (storage_json, storage_sqlite,
\* js_log.ts).  No step of a routine bears on it, so that it is enough to look at
\* it before the first.
StoresAgree == (\A n \in Name : routine[n].at = "none") => SameState
=============================================================================
