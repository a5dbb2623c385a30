----------------------------- MODULE SyncTables -----------------------------
(***************************************************************************)
(* What the catch-up loop writes for one transaction: updateTx and the     *)
(* check* handlers of lib/catchup/synchro.ts, over the tables of           *)
(* lib/storage/StorageDataBase.ts.                                         *)
(*                                                                         *)
(* A handler is a fixed list of statements, each awaited; the first that   *)
(* fails abandons the block and the rest of its group.  They are copied    *)
(* again only if no later group has its height recorded before the range   *)
(* ends; else they are lost.                                               *)
(* Balances and bancor parameters are not taken from the transaction: the  *)
(* handler asks the chain for them, so a row holds the chain's state at    *)
(* the moment of the request.  A value is therefore named by the number of *)
(* the chain transaction that last changed it.                             *)
(***************************************************************************)
EXTENDS Naturals, Sequences

CONSTANTS Transactions,   \* the transactions clients may send
          Sys,            \* SYS_TOKEN
          Canon,          \* [tokenid as spelled -> upper-case name]
          Genesis,        \* addresses loaded from the genesis file
          Miners,         \* sequence: what getMiners answers
          nBatch,         \* blocks in a group
          MaxChain,       \* bound on the chain's length
          MaxFault        \* bound on failed statements, RPCs and crashes

\* What the chain lets into a block: only some methods name recipients, and those
\* about a token name one.
WellFormed(tx) ==
    /\ tx.ok \in BOOLEAN
    /\ tx.to \in Seq({tx.to[i] : i \in DOMAIN tx.to})
    /\ tx.to # <<>> =>
         tx.method \in {"transferTo", "createToken", "createBancorToken",
                       "transferTokenTo", "transferBancorTokenTo"}
    /\ tx.method \in {"createToken", "createBancorToken", "buyBancorToken", "sellBancorToken",
                     "transferTokenTo", "transferBancorTokenTo"} => tx.token \in DOMAIN Canon

ASSUME TableConstants ==
    /\ nBatch \in Nat \ {0}
    /\ MaxChain \in Nat /\ MaxFault \in Nat /\ Len(Miners) \in Nat
    /\ \A tx \in Transactions : WellFormed(tx)
    /\ Sys \notin DOMAIN Canon
    /\ \A t \in DOMAIN Canon : Canon[t] \in DOMAIN Canon /\ Canon[Canon[t]] = Canon[t]

VARIABLES chain,     \* executed transactions, one per block
          synced,    \* nCurrentHeight, the block recorded last
          copied,    \* history: the blocks that have been recorded
          copying,   \* the block being copied, 0 between two rounds
          group,     \* the last block of its group
          stop,      \* the last block of its range
          done,      \* statements executed for it
          hashes,    \* hash table: blocks and transactions
          names,     \* hash table: addresses and tokens
          blocks,    \* block table
          txs,       \* tx table
          txAddr,    \* tx-address table
          account,   \* account table: [<<address, token>> -> value]
          tokens,    \* token table
          bancor,    \* bancor token table: [token -> value]
          batch,     \* miners' balances fetched and not yet written
          faults

tables == <<hashes, names, blocks, txs, txAddr, account, tokens, bancor>>
position == <<synced, copied, copying, group, stop, done>>
vars == <<chain, position, tables, batch, faults>>

----------------------------------------------------------------------------
\* The chain (external)

\* Addresses a transaction names; a creation's recipients are its preBalances.
Recipients(tx) == {tx.to[i] : i \in 1..Len(tx.to)}
Parties(tx) == {tx.caller} \cup Recipients(tx)

\* The balances executing tx changes: the caller pays a fee in any case.
Changes(tx) ==
    {<<tx.caller, Sys>>} \cup
    (CASE ~tx.ok -> {}
       [] tx.ok /\ tx.method = "transferTo" -> Parties(tx) \X {Sys}
       [] tx.ok /\ tx.method \in {"createToken", "createBancorToken"} ->
            Recipients(tx) \X {Canon[tx.token]}
       [] tx.ok /\ tx.method \in {"buyBancorToken", "sellBancorToken",
                                  "transferTokenTo", "transferBancorTokenTo"} ->
            Parties(tx) \X {Canon[tx.token]}
       [] OTHER -> {})

ChangesParameters(tx, t) ==
    /\ tx.ok
    /\ tx.method \in {"createBancorToken", "buyBancorToken", "sellBancorToken"}
    /\ Canon[tx.token] = t

\* The last of some numbers of transactions; 0 when there is none.
LastOf(hits) == IF hits = {} THEN 0 ELSE CHOOSE i \in hits : \A j \in hits : j <= i

Balance(n, key) == LastOf({i \in 1..n : key \in Changes(chain[i])})
Parameters(n, t) == LastOf({i \in 1..n : ChangesParameters(chain[i], t)})

\* The methods that have created token t so far: none or one.
Created(t) ==
    {chain[i].method : i \in {j \in 1..Len(chain) :
        /\ chain[j].ok
        /\ chain[j].method \in {"createToken", "createBancorToken"}
        /\ Canon[chain[j].token] = t}}

\* A token operation succeeds only on an existing token of its own kind, a
\* creation only when there is none.
Creation(method) ==
    CASE method = "transferTokenTo" -> {"createToken"}
      [] method \in {"buyBancorToken", "sellBancorToken",
                     "transferBancorTokenTo"} -> {"createBancorToken"}
      [] OTHER -> {}

Execute(tx) ==
    /\ Len(chain) < MaxChain
    /\ tx.ok /\ tx.token # Sys => Created(Canon[tx.token]) = Creation(tx.method)
    /\ chain' = Append(chain, tx)
    /\ UNCHANGED <<position, tables, batch, faults>>

----------------------------------------------------------------------------
\* The statements of each handler

Statements(table, keys) ==
    [i \in 1..Len(keys) |-> [table |-> table, key |-> keys[i]]]
Names(list) == Statements("names", list)
TxAddrs(list) == Statements("txAddr", list)
Balances(list, token) ==
    Statements("account", [i \in 1..Len(list) |-> <<list[i], token>>])
Token(t) == Statements("tokens", <<t>>)
BancorParameters(t) == Statements("bancor", <<t>>)

OnSuccess(tx, statements) == IF tx.ok THEN statements ELSE <<>>

CheckDefaultCommand(tx) ==
    TxAddrs(<<tx.caller>>) \o Balances(<<tx.caller>>, Sys)

CheckTransferTo(tx) ==
    LET both == <<tx.caller>> \o tx.to
    IN  Names(both) \o TxAddrs(both) \o Balances(both, Sys)

\* preBalances are tx.to
CheckCreateToken(tx) ==
    LET all == Append(tx.to, tx.caller)
        t == Canon[tx.token]
    IN  Names(all) \o TxAddrs(all) \o Balances(<<tx.caller>>, Sys)
        \o OnSuccess(tx, Token(t) \o Balances(tx.to, t) \o Names(<<t>>))

CheckCreateBancorToken(tx) ==
    CheckCreateToken(tx) \o OnSuccess(tx, BancorParameters(Canon[tx.token]))

\* Mutant: what the caller paid is not refreshed.
CheckBuyBancorToken_NoSys(tx) ==
    LET t == Canon[tx.token]
    IN  TxAddrs(<<tx.caller>>)
        \o OnSuccess(tx, Balances(<<tx.caller>>, t) \o BancorParameters(t))

CheckBuyBancorToken(tx) ==
    LET t == Canon[tx.token]
    IN  TxAddrs(<<tx.caller>>) \o Balances(<<tx.caller>>, Sys)
        \o OnSuccess(tx, Balances(<<tx.caller>>, t) \o BancorParameters(t))

\* The one handler that keeps the token as the client spelled it.
CheckSellBancorToken(tx) ==
    LET t == tx.token
    IN  TxAddrs(<<tx.caller>>) \o Balances(<<tx.caller>>, Sys)
        \o OnSuccess(tx, Balances(<<tx.caller>>, t) \o BancorParameters(t))

\* transferTokenTo and transferBancorTokenTo
CheckTransferTokenTo(tx) ==
    LET both == <<tx.caller>> \o tx.to
    IN  TxAddrs(both) \o Balances(<<tx.caller>>, Sys)
        \o OnSuccess(tx, Balances(both, Canon[tx.token]))

\* checkAccountAndToken
Handler(tx) ==
    CASE tx.method = "transferTo" -> CheckTransferTo(tx)
      [] tx.method = "createToken" -> CheckCreateToken(tx)
      [] tx.method = "createBancorToken" -> CheckCreateBancorToken(tx)
      [] tx.method = "sellBancorToken" -> CheckSellBancorToken(tx)
      [] tx.method = "buyBancorToken" -> CheckBuyBancorToken(tx)
      [] tx.method \in {"transferTokenTo", "transferBancorTokenTo"} ->
           CheckTransferTokenTo(tx)
      [] OTHER -> CheckDefaultCommand(tx)

\* updateTx: hash row, receipt, tx row, then the handler.
UpdateTx(tx) ==
    Statements("hashes", <<<<"tx", copying>>>>) \o Statements("txs", <<copying>>)
        \o Handler(tx)

\* syncBlockData: hash row, block row, then the transaction.
SyncBlockData(tx) ==
    Statements("hashes", <<<<"block", copying>>>>)
        \o Statements("blocks", <<copying>>) \o UpdateTx(tx)

----------------------------------------------------------------------------
\* The loop

Absent == MaxChain + 1   \* no row

Keys == {<<a, t>> : a \in UNION {Parties(tx) : tx \in Transactions},
                    t \in {Sys} \cup DOMAIN Canon}

\* Rows are about known keys and hold states the chain has been in.
TypeOK ==
    /\ chain \in Seq(Transactions) /\ Len(chain) <= MaxChain
    /\ synced \in 0..Len(chain) /\ copied \subseteq 1..synced
    /\ copying \in 0..group /\ group \in 0..stop /\ stop \in 0..Len(chain)
    /\ copying # 0 => copying > synced
    /\ done \in Nat
    /\ hashes \subseteq {"block", "tx"} \X (1..MaxChain)
    /\ blocks \subseteq 1..MaxChain /\ txs \subseteq 1..MaxChain
    /\ account \in [Keys -> 0..Absent]
    /\ tokens \subseteq DOMAIN Canon
    /\ bancor \in [DOMAIN Canon -> 0..Absent]
    /\ batch \in [asOf : 0..MaxChain, left : 0..Len(Miners)]
    /\ faults \in 0..MaxFault

Init ==
    /\ chain = <<>> /\ synced = 0 /\ copied = {}
    /\ copying = 0 /\ group = 0 /\ stop = 0 /\ done = 0
    /\ hashes = {} /\ blocks = {}
    /\ names = Genesis /\ txs = {} /\ txAddr = {} /\ tokens = {}
    /\ account = [k \in Keys |-> IF k[1] \in Genesis /\ k[2] = Sys
                                 THEN 0 ELSE Absent]
    /\ bancor = [t \in DOMAIN Canon |-> Absent]
    /\ batch = [asOf |-> 0, left |-> 0]
    /\ faults = 0

\* The name the chain resolves a key to, however it is spelled.
Resolve(t) == IF t = Sys THEN Sys ELSE Canon[t]

\* One statement.  updateAccountTable and updateBancorTokenTable insert the row
\* or update it with what the chain answers now.
Write(s) ==
    /\ hashes' = IF s.table = "hashes" THEN hashes \cup {s.key} ELSE hashes
    /\ blocks' = IF s.table = "blocks" THEN blocks \cup {s.key} ELSE blocks
    /\ names' = IF s.table = "names" THEN names \cup {s.key} ELSE names
    /\ txs' = IF s.table = "txs" THEN txs \cup {s.key} ELSE txs
    /\ txAddr' = IF s.table = "txAddr"
                 THEN txAddr \cup {<<copying, s.key>>} ELSE txAddr
    /\ tokens' = IF s.table = "tokens" THEN tokens \cup {s.key} ELSE tokens
    /\ account' = IF s.table = "account"
                  THEN [account EXCEPT ![s.key] =
                          Balance(Len(chain), <<s.key[1], Resolve(s.key[2])>>)]
                  ELSE account
    /\ bancor' = IF s.table = "bancor"
                 THEN [bancor EXCEPT ![s.key] =
                         Parameters(Len(chain), Resolve(s.key))]
                 ELSE bancor

Lesser(i, j) == IF i < j THEN i ELSE j

\* Mutant: loopTask does not wait for loopTask2.
LoopTask_Concurrent ==
    /\ copying = 0
    /\ \E lib \in (synced + 1)..Len(chain) :
        /\ copying' = synced + 1
        /\ group' = Lesser(IF synced = 0 /\ nBatch > 1 THEN nBatch - 1 ELSE synced + nBatch, lib)
        /\ stop' = lib
    /\ UNCHANGED <<chain, synced, copied, done, tables, batch, faults>>

\* A round: the blocks behind the recorded one, up to the irreversible one as the
\* chain has told it last.  The first range begins with the genesis block, whose
\* rows are left out.
LoopTask ==
    /\ copying = 0 /\ batch.left = 0
    /\ \E lib \in (synced + 1)..Len(chain) :
        /\ copying' = synced + 1
        /\ group' = Lesser(IF synced = 0 /\ nBatch > 1 THEN nBatch - 1 ELSE synced + nBatch, lib)
        /\ stop' = lib
    /\ UNCHANGED <<chain, synced, copied, done, tables, batch, faults>>

\* The loop comes back to its timer.
RangeEnds == copying' = 0 /\ group' = 0 /\ stop' = 0

\* updateBlockRangeBatch goes on with the next group, if there is one.
NextGroup ==
    \/ /\ group < stop
       /\ copying' = group + 1 /\ group' = Lesser(group + nBatch, stop)
       /\ UNCHANGED stop
    \/ group = stop /\ RangeEnds

Statement ==
    /\ copying # 0
    /\ LET statements == SyncBlockData(chain[copying])
       IN  done < Len(statements) /\ Write(statements[done + 1])
    /\ done' = done + 1
    /\ UNCHANGED <<chain, synced, copied, copying, group, stop, batch, faults>>

\* The block is copied, its height is recorded.
SetCurrentHeight ==
    /\ copying # 0 /\ done = Len(SyncBlockData(chain[copying]))
    /\ synced' = copying /\ copied' = copied \cup {copying}
    /\ done' = 0
    /\ \/ copying < group /\ copying' = copying + 1 /\ UNCHANGED <<group, stop>>
       \/ copying = group /\ NextGroup
    /\ UNCHANGED <<chain, tables, batch, faults>>

\* A statement or an RPC of the block fails: its group is left by a break, the
\* range goes on.
BlockFails ==
    /\ faults < MaxFault
    /\ copying # 0 /\ done < Len(SyncBlockData(chain[copying]))
    /\ faults' = faults + 1
    /\ done' = 0
    /\ NextGroup
    /\ UNCHANGED <<chain, synced, copied, tables, batch>>

\* The process dies, or the height is not saved, or a group's blocks are not
\* answered: the next round begins behind the recorded height.
RangeFails ==
    /\ faults < MaxFault /\ copying # 0
    /\ faults' = faults + 1
    /\ done' = 0
    /\ RangeEnds
    /\ UNCHANGED <<chain, synced, copied, tables, batch>>

\* loopTask2, between two rounds of copying: one getBalances for all miners...
FetchMiners ==
    /\ copying = 0 /\ batch.left = 0
    /\ batch' = [asOf |-> Len(chain), left |-> Len(Miners)]
    /\ UNCHANGED <<chain, position, tables, faults>>

\* ... then updateBatchBalances writes them, row by row, whatever the chain did
\* since.  A failed row abandons the rest.
WriteMiner ==
    /\ batch.left > 0
    /\ LET key == <<Miners[Len(Miners) + 1 - batch.left], Sys>>
       IN  \/ /\ account' = [account EXCEPT ![key] = Balance(batch.asOf, key)]
              /\ batch' = [batch EXCEPT !.left = @ - 1]
              /\ UNCHANGED faults
           \/ /\ faults < MaxFault
              /\ faults' = faults + 1
              /\ batch' = [batch EXCEPT !.left = 0]
              /\ UNCHANGED account
    /\ UNCHANGED <<chain, position, hashes, names, blocks, txs, txAddr, tokens, bancor>>

Next == \/ \E tx \in Transactions : Execute(tx)
        \/ LoopTask \/ Statement \/ SetCurrentHeight \/ BlockFails \/ RangeFails
        \/ FetchMiners \/ WriteMiner

Spec == Init /\ [][Next]_vars

----------------------------------------------------------------------------
\* Properties

\* The name the handler of tx keeps its token under: that of sales as spelled.
TokenName(tx) == IF tx.method = "sellBancorToken" THEN tx.token ELSE Canon[tx.token]

\* The row that the handler of tx keeps a balance in.
RowOf(tx, key) == IF key[2] = Sys THEN key ELSE <<key[1], TokenName(tx)>>

\* The account table keeps up: every balance that a recorded block's transaction
\* changed has a row, under the name its handler uses, and the row is no older
\* than that transaction, whatever was abandoned, redone or lost before and
\* however the chain moved on in between.
BalancesKeepUp ==
    \A i \in copied : \A key \in Changes(chain[i]) :
        LET row == RowOf(chain[i], key)
        IN  account[row] # Absent /\ account[row] >= i

\* So do the bancor parameters prices are computed from (gettokenprice.ts).
ParametersKeepUp ==
    \A i \in copied :
        (\E t \in DOMAIN Canon : ChangesParameters(chain[i], t)) =>
            LET name == TokenName(chain[i])
            IN  bancor[name] # Absent /\ bancor[name] >= i

\* A row never goes back to an older value, although a block may be copied
\* again long after later ones were executed.
RowsNeverGoBack ==
    [][\A k \in Keys : account[k] # Absent =>
          account'[k] # Absent /\ account'[k] >= account[k]]_vars

\* getTxsByAddress finds every recorded block's transaction under each of its
\* parties.
FoundByEveryParty ==
    \A i \in copied : i \in blocks \cap txs /\ \A a \in Parties(chain[i]) : <<i, a>> \in txAddr

\* The database keeps up with the blocks that were recorded: balances, bancor
\* parameters and the listings by address, although a failure before them may
\* have left out others for good.
TablesKeepUp == TypeOK /\ BalancesKeepUp /\ ParametersKeepUp /\ FoundByEveryParty
=============================================================================
