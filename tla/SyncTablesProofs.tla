-------------------------- MODULE SyncTablesProofs --------------------------
(***************************************************************************)
(* Proofs about the tables of the catch-up service, for any transactions,  *)
(* any length of the chain and any number of failures.                     *)
(***************************************************************************)
EXTENDS ReadApi, TLAPS, FiniteSetTheorems, SequenceTheorems

\* LeastNat, which holds for any Op.
F == INSTANCE FoldProofs WITH Op <- LAMBDA a, b : a

----------------------------------------------------------------------------
\* The last of some transactions

\* LastOf is the greatest member of a set of numbers up to n, or 0.
LEMMA LastIsGreatest ==
    ASSUME NEW n \in Nat, NEW hits, hits \subseteq 1..n
    PROVE  /\ LastOf(hits) \in 0..n
           /\ \A i \in hits : LastOf(hits) \in hits /\ i <= LastOf(hits)
<1>0. \A k \in hits : k \in Nat /\ k <= n /\ n - k \in Nat
  OBVIOUS
<1>1. CASE hits = {}
  BY <1>1 DEF LastOf
<1>2. CASE hits # {}
  <2>1. PICK i \in hits : \A j \in hits : j <= i
    <3> DEFINE Far == {n - k : k \in hits}
    <3>1. Far \subseteq Nat /\ Far # {}
      BY <1>0, <1>2, Zenon
    <3>2. PICK m \in Far : \A f \in Far : m <= f
      BY <3>1, F!LeastNat
    <3>3. PICK i \in hits : m = n - i
      OBVIOUS
    <3>4. ASSUME NEW j \in hits PROVE j <= i
      <4>1. n - j \in Far
        OBVIOUS
      <4> HIDE DEF Far
      <4>2. m <= n - j
        BY <3>2, <4>1
      <4>3. i \in 1..n /\ j \in 1..n
        OBVIOUS
      <4>4. QED
        BY <3>3, <4>2, <4>3
    <3>5. QED
      BY <3>4
  <2>2. LastOf(hits) \in hits /\ \A j \in hits : j <= LastOf(hits)
    BY <1>2, <2>1, Zenon DEF LastOf
  <2>3. PICK last : last = LastOf(hits)
    OBVIOUS
  <2>4. last \in hits /\ \A j \in hits : j <= last
    BY <2>2, <2>3, Zenon
  <2>5. last \in 0..n
    BY <1>0, <2>4
  <2>6. QED
    BY <2>3, <2>4, <2>5, Zenon
<1>3. QED
  BY <1>1, <1>2

\* Balance and Parameters of the model, as functions of the chain.
LastChange(c, n, k) == LastOf({i \in 1..n : k \in Changes(c[i])})
LastParameters(c, n, t) == LastOf({i \in 1..n : ChangesParameters(c[i], t)})

\* One more transaction either changes the balance or leaves its last change
\* where it was; later states are not older.
LEMMA LastChanges ==
    ASSUME NEW c, NEW n \in Nat, NEW k
    PROVE  /\ LastChange(c, n, k) \in 0..n
           /\ \A m \in 0..n : LastChange(c, m, k) <= LastChange(c, n, k)
           /\ k \in Changes(c[n]) /\ n > 0 => LastChange(c, n, k) = n
           /\ k \notin Changes(c[n]) /\ n > 0 => LastChange(c, n, k) = LastChange(c, n - 1, k)
<1> DEFINE H(m) == {i \in 1..m : k \in Changes(c[i])}
<1>1. \A m \in Nat : /\ LastOf(H(m)) \in 0..m
                    /\ \A i \in H(m) : LastOf(H(m)) \in H(m) /\ i <= LastOf(H(m))
  BY LastIsGreatest
<1>2. ASSUME NEW m \in 0..n PROVE LastOf(H(m)) <= LastOf(H(n))
  <2>1. CASE H(m) = {}
    BY <1>1, <2>1 DEF LastOf
  <2>2. CASE H(m) # {}
    <3>1. LastOf(H(m)) \in H(m)
      BY <1>1, <2>2
    <3>2. LastOf(H(m)) \in H(n)
      BY <3>1
    <3>3. QED
      BY <1>1, <3>2
  <2>3. QED
    BY <2>1, <2>2
<1>3. ASSUME k \in Changes(c[n]), n > 0 PROVE LastOf(H(n)) = n
  <2>1. n \in H(n)
    BY <1>3
  <2>2. QED
    BY <1>1, <2>1
<1>4. ASSUME k \notin Changes(c[n]), n > 0 PROVE H(n) = H(n - 1)
  BY <1>4
<1>5. QED
  BY <1>1, <1>2, <1>3, <1>4 DEF LastChange

----------------------------------------------------------------------------
\* Lists of statements

\* The members of a list; a list is what Statements and \o make one of.
Items(list) == {list[i] : i \in 1..Len(list)}
IsList(list) == list \in Seq(Items(list))

\* One statement, one for each of some keys, and the keys of rows with a token.
St(table, key) == [table |-> table, key |-> key]
Sts(table, keys) == {St(table, key) : key \in keys}
Holding(set, token) == set \X {token}

\* An empty list has no members (a failed transaction's statements, OnSuccess).
LEMMA EmptyList == IsList(<<>>) /\ Items(<<>>) = {}
BY DEF IsList, Items

\* A list of one.
LEMMA OneList == ASSUME NEW x PROVE IsList(<<x>>) /\ Items(<<x>>) = {x}
BY DEF IsList, Items

\* A list of anything is one.
LEMMA AnyList ==
    ASSUME NEW S, NEW list \in Seq(S)
    PROVE  IsList(list) /\ Len(list) \in Nat /\ DOMAIN list = 1..Len(list)
BY DEF IsList, Items

\* Its indices are the numbers up to its length.
LEMMA ListFacts ==
    ASSUME NEW list, IsList(list)
    PROVE  Len(list) \in Nat /\ DOMAIN list = 1..Len(list)
BY AnyList DEF IsList

\* Two lists in a row have the items of both.
LEMMA JoinedLists ==
    ASSUME NEW a, NEW b, IsList(a), IsList(b)
    PROVE  IsList(a \o b) /\ Items(a \o b) = Items(a) \cup Items(b)
<1>1. PICK S : a \in Seq(S) /\ b \in Seq(S)
  <2>1. a \in Seq(Items(a) \cup Items(b)) /\ b \in Seq(Items(a) \cup Items(b))
    BY DEF IsList
  <2>2. QED
    BY <2>1, Zenon
<1>2. PICK c : c = a \o b
  OBVIOUS
<1>3. /\ c \in Seq(S) /\ Len(c) = Len(a) + Len(b) /\ Len(a) \in Nat /\ Len(b) \in Nat
      /\ \A i \in 1..Len(a) : c[i] = a[i]
      /\ \A i \in 1..Len(b) : c[Len(a) + i] = b[i]
  BY <1>1, <1>2
<1>4. ASSUME NEW i \in 1..Len(c) PROVE c[i] \in Items(a) \cup Items(b)
  <2>1. CASE i \in 1..Len(a)
    BY <1>3, <2>1 DEF Items
  <2>2. CASE i \notin 1..Len(a)
    <3>1. i - Len(a) \in 1..Len(b) /\ c[i] = b[i - Len(a)]
      BY <1>3, <2>2
    <3>2. QED
      BY <3>1 DEF Items
  <2>3. QED
    BY <2>1, <2>2
<1>5. ASSUME NEW i \in 1..Len(a) PROVE a[i] \in Items(c)
  BY <1>3 DEF Items
<1>6. ASSUME NEW i \in 1..Len(b) PROVE b[i] \in Items(c)
  <2>1. Len(a) + i \in 1..Len(c) /\ c[Len(a) + i] = b[i]
    BY <1>3
  <2>2. QED
    BY <2>1 DEF Items
<1>7. Items(c) = Items(a) \cup Items(b)
  BY <1>4, <1>5, <1>6 DEF Items
<1>8. QED
  BY <1>2, <1>3, <1>7, AnyList

\* One statement for each key.
LEMMA StatementsOf ==
    ASSUME NEW table, NEW keys, IsList(keys), NEW set, set = Items(keys)
    PROVE  IsList(Statements(table, keys)) /\ Items(Statements(table, keys)) = Sts(table, set)
<1>1. Len(keys) \in Nat
  BY ListFacts
<1>2. PICK list : list = Statements(table, keys)
  OBVIOUS
<1>3. list = [i \in 1..Len(keys) |-> St(table, keys[i])]
  BY <1>2 DEF Statements, St
<1>4. list \in Seq(Sts(table, Items(keys))) /\ Len(list) = Len(keys)
  <2>1. list \in [1..Len(keys) -> Sts(table, Items(keys))]
    BY <1>3 DEF Sts, Items
  <2>2. QED
    BY <1>1, <2>1
<1>5. Items(list) = Sts(table, Items(keys))
  BY <1>3, <1>4 DEF Items, Sts
<1>6. QED
  BY <1>2, <1>4, <1>5, AnyList

\* Balances refreshes one row for each address.
LEMMA BalancesOf ==
    ASSUME NEW list, IsList(list), NEW token, NEW set, set = Items(list)
    PROVE  /\ IsList(Balances(list, token))
           /\ Items(Balances(list, token)) = Sts("account", Holding(set, token))
<1>1. Len(list) \in Nat
  BY ListFacts
<1>2. PICK keys : keys = [i \in 1..Len(list) |-> <<list[i], token>>]
  OBVIOUS
<1>3. keys \in Seq(Items(list) \X {token}) /\ Len(keys) = Len(list)
  <2>1. keys \in [1..Len(list) -> Items(list) \X {token}]
    BY <1>2 DEF Items
  <2>2. QED
    BY <1>1, <2>1
<1>4. IsList(keys)
  BY <1>3, AnyList
<1>5. Items(keys) = Holding(set, token)
  BY <1>2, <1>3 DEF Items, Holding
<1>6. Balances(list, token) = Statements("account", keys)
  BY <1>2 DEF Balances
<1>7. QED
  BY <1>4, <1>5, <1>6, StatementsOf

----------------------------------------------------------------------------
\* The handlers

\* The rows of the balances a transaction changes.
Refreshed(tx) == {RowOf(tx, key) : key \in Changes(tx)}

\* The statements a handler may make for a transaction.
Allowed(tx) ==
    Sts("names", Parties(tx) \cup DOMAIN Canon) \cup Sts("txAddr", Parties(tx))
      \cup Sts("account", Parties(tx) \X ({Sys} \cup DOMAIN Canon))
      \cup Sts("tokens", DOMAIN Canon) \cup Sts("bancor", DOMAIN Canon)

\* A handler enters every party, and asks for everything the transaction changed.
Covers(list, tx) ==
    /\ IsList(list)
    /\ Items(list) \subseteq Allowed(tx)
    /\ Sts("txAddr", Parties(tx)) \subseteq Items(list)
    /\ Sts("account", Refreshed(tx)) \subseteq Items(list)
    /\ \A t : ChangesParameters(tx, t) => St("bancor", TokenName(tx)) \in Items(list)

\* A list enters the token t and its name.
Enters(list, t) == {St("tokens", t), St("names", t)} \subseteq Items(list)

\* But for a sale, the rows are those of the names in upper case, as the chain's are.
LEMMA OwnNames ==
    ASSUME NEW tx, WellFormed(tx), tx.method # "sellBancorToken"
    PROVE  /\ Refreshed(tx) = Changes(tx)
           /\ \A t : ChangesParameters(tx, t) => TokenName(tx) = t
<1>1. ASSUME NEW k \in Changes(tx) PROVE RowOf(tx, k) = k
  <2>1. k = <<k[1], k[2]>> /\ k[2] \in {Sys, Canon[tx.token]}
    BY DEF Changes, Parties
  <2>2. QED
    BY <2>1 DEF RowOf, TokenName
<1>2. QED
  BY <1>1 DEF Refreshed, ChangesParameters, TokenName

\* The lists of addresses the handlers go through, and whom they name.
LEMMA PartyLists ==
    ASSUME NEW tx, WellFormed(tx)
    PROVE  /\ IsList(tx.to) /\ Items(tx.to) = Recipients(tx)
           /\ IsList(<<tx.caller>>) /\ Items(<<tx.caller>>) = {tx.caller}
           /\ IsList(<<tx.caller>> \o tx.to) /\ Items(<<tx.caller>> \o tx.to) = Parties(tx)
           /\ IsList(Append(tx.to, tx.caller)) /\ Items(Append(tx.to, tx.caller)) = Parties(tx)
<1>1. IsList(tx.to) /\ Items(tx.to) = Recipients(tx)
  BY AnyList DEF WellFormed, Items, Recipients
<1>2. IsList(<<tx.caller>>) /\ Items(<<tx.caller>>) = {tx.caller}
  BY OneList
<1>3. Append(tx.to, tx.caller) = tx.to \o <<tx.caller>>
  BY <1>1 DEF IsList
<1>4. QED
  BY <1>1, <1>2, <1>3, JoinedLists DEF Parties

\* The handler of a method that has none of its own: only the caller pays.
LEMMA DefaultCovers ==
    ASSUME NEW tx, WellFormed(tx), tx.to = <<>>,
           ~tx.ok \/ tx.method \notin {"transferTo", "createToken", "createBancorToken",
               "buyBancorToken", "sellBancorToken", "transferTokenTo", "transferBancorTokenTo"}
    PROVE  Covers(CheckDefaultCommand(tx), tx)
<1>1. PICK me, a, b : me = <<tx.caller>> /\ a = TxAddrs(me) /\ b = Balances(me, Sys)
  OBVIOUS
<1>2. /\ IsList(a) /\ Items(a) = Sts("txAddr", {tx.caller})
      /\ IsList(b) /\ Items(b) = Sts("account", Holding({tx.caller}, Sys))
  <2>1. IsList(me) /\ Items(me) = {tx.caller}
    BY <1>1, OneList
  <2>2. IsList(a) /\ Items(a) = Sts("txAddr", {tx.caller})
    BY <1>1, <2>1, StatementsOf DEF TxAddrs
  <2>3. IsList(b) /\ Items(b) = Sts("account", Holding({tx.caller}, Sys))
    BY <1>1, <2>1, BalancesOf
  <2>4. QED
    BY <2>2, <2>3
<1>3. IsList(a \o b) /\ Items(a \o b) = Items(a) \cup Items(b)
  BY <1>2, JoinedLists
<1>4. Parties(tx) = {tx.caller}
  BY PartyLists, EmptyList DEF Parties
<1>5. Changes(tx) = {<<tx.caller, Sys>>} /\ \A t : ~ChangesParameters(tx, t)
  BY DEF Changes, ChangesParameters
<1>6. QED
  <2>1. Refreshed(tx) = {<<tx.caller, Sys>>}
    BY <1>5 DEF Refreshed, RowOf
  <2>2. QED
    BY <1>1, <1>2, <1>3, <1>4, <1>5, <2>1 DEF Covers, Allowed, CheckDefaultCommand, Sts, St, Holding

\* transferTo refreshes the balances of both sides.
LEMMA TransferCovers ==
    ASSUME NEW tx, WellFormed(tx), tx.method = "transferTo"
    PROVE  Covers(CheckTransferTo(tx), tx)
<1>1. PICK both, a, b, c : /\ both = <<tx.caller>> \o tx.to
                           /\ a = Names(both) /\ b = TxAddrs(both) /\ c = Balances(both, Sys)
  OBVIOUS
<1>2. IsList(both) /\ Items(both) = Parties(tx)
  BY <1>1, PartyLists
<1>3. /\ IsList(a) /\ Items(a) = Sts("names", Parties(tx))
      /\ IsList(b) /\ Items(b) = Sts("txAddr", Parties(tx))
      /\ IsList(c) /\ Items(c) = Sts("account", Holding(Parties(tx), Sys))
  BY <1>1, <1>2, StatementsOf, BalancesOf DEF Names, TxAddrs
<1>4. /\ IsList(a \o b \o c) /\ Items(a \o b \o c) = Items(a) \cup Items(b) \cup Items(c)
  BY <1>3, JoinedLists
<1>5. Changes(tx) \subseteq Parties(tx) \X {Sys} /\ \A t : ~ChangesParameters(tx, t)
  BY DEF Changes, ChangesParameters, Parties, WellFormed
<1>6. QED
  BY <1>1, <1>3, <1>4, <1>5, OwnNames DEF Covers, Allowed, CheckTransferTo, Sts, St, Holding

\* A creation enters the token and its first holders, if it succeeded, and a bancor
\* token's parameters.
LEMMA CreateCovers ==
    ASSUME NEW tx, WellFormed(tx), tx.method \in {"createToken", "createBancorToken"}
    PROVE  /\ tx.method = "createToken" => Covers(CheckCreateToken(tx), tx)
           /\ tx.method = "createBancorToken" => Covers(CheckCreateBancorToken(tx), tx)
           /\ tx.ok => /\ Enters(CheckCreateToken(tx), Canon[tx.token])
                       /\ Enters(CheckCreateBancorToken(tx), Canon[tx.token])
<1>1. PICK t : t = Canon[tx.token]
  OBVIOUS
<1>2. t \in DOMAIN Canon
  BY <1>1, TableConstants DEF WellFormed
<1>3. PICK all, to, me, it, a, b, c, d, e, f, g :
        /\ all = Append(tx.to, tx.caller) /\ to = tx.to /\ me = <<tx.caller>> /\ it = <<t>>
        /\ a = Names(all) /\ b = TxAddrs(all) /\ c = Balances(me, Sys)
        /\ d = Token(t) /\ e = Balances(to, t) /\ f = Names(it)
        /\ g = BancorParameters(t)
  OBVIOUS
<1>4. /\ IsList(all) /\ Items(all) = Parties(tx) /\ IsList(to) /\ Items(to) = Recipients(tx)
      /\ IsList(me) /\ Items(me) = {tx.caller} /\ IsList(it) /\ Items(it) = {t}
  BY <1>3, PartyLists, OneList
<1>5. /\ IsList(a) /\ Items(a) = Sts("names", Parties(tx))
      /\ IsList(b) /\ Items(b) = Sts("txAddr", Parties(tx))
      /\ IsList(c) /\ Items(c) = Sts("account", Holding({tx.caller}, Sys))
      /\ IsList(d) /\ Items(d) = Sts("tokens", {t})
      /\ IsList(e) /\ Items(e) = Sts("account", Holding(Recipients(tx), t))
      /\ IsList(f) /\ Items(f) = Sts("names", {t})
      /\ IsList(g) /\ Items(g) = Sts("bancor", {t})
  <2>1. d = Statements("tokens", it) /\ g = Statements("bancor", it)
    BY <1>3 DEF Token, BancorParameters
  <2>2. a = Statements("names", all) /\ b = Statements("txAddr", all) /\ f = Statements("names", it)
    BY <1>3 DEF Names, TxAddrs
  <2>3. IsList(a) /\ Items(a) = Sts("names", Parties(tx))
    BY <1>4, <2>2, StatementsOf
  <2>4. IsList(b) /\ Items(b) = Sts("txAddr", Parties(tx))
    BY <1>4, <2>2, StatementsOf
  <2>5. IsList(c) /\ Items(c) = Sts("account", Holding({tx.caller}, Sys))
    BY <1>3, <1>4, BalancesOf
  <2>6. IsList(d) /\ Items(d) = Sts("tokens", {t})
    BY <1>4, <2>1, StatementsOf
  <2>7. IsList(e) /\ Items(e) = Sts("account", Holding(Recipients(tx), t))
    BY <1>3, <1>4, BalancesOf
  <2>8. IsList(f) /\ Items(f) = Sts("names", {t})
    BY <1>4, <2>2, StatementsOf
  <2>9. IsList(g) /\ Items(g) = Sts("bancor", {t})
    BY <1>4, <2>1, StatementsOf
  <2>10. QED
    BY <2>3, <2>4, <2>5, <2>6, <2>7, <2>8, <2>9
<1>6. PICK always, made : always = a \o b \o c /\ made = d \o e \o f
  OBVIOUS
<1>7. /\ IsList(always) /\ Items(always) = Items(a) \cup Items(b) \cup Items(c)
      /\ IsList(made) /\ Items(made) = Items(d) \cup Items(e) \cup Items(f)
  BY <1>5, <1>6, JoinedLists
<1>8. /\ OnSuccess(tx, made) = IF tx.ok THEN made ELSE <<>>
      /\ OnSuccess(tx, g) = IF tx.ok THEN g ELSE <<>>
  BY DEF OnSuccess
<1>9. /\ IsList(always \o OnSuccess(tx, made))
      /\ Items(always \o OnSuccess(tx, made)) =
           Items(always) \cup (IF tx.ok THEN Items(made) ELSE {})
  BY <1>7, <1>8, EmptyList, JoinedLists
<1>10. PICK list : list = always \o OnSuccess(tx, made)
  OBVIOUS
<1>11. /\ IsList(list \o OnSuccess(tx, g))
       /\ Items(list \o OnSuccess(tx, g)) = Items(list) \cup (IF tx.ok THEN Items(g) ELSE {})
  BY <1>5, <1>8, <1>9, <1>10, EmptyList, JoinedLists
<1>12. /\ CheckCreateToken(tx) = list
       /\ CheckCreateBancorToken(tx) = list \o OnSuccess(tx, g)
  BY <1>1, <1>3, <1>6, <1>10, Zenon DEF CheckCreateToken, CheckCreateBancorToken
<1>13. /\ Changes(tx) \subseteq ({tx.caller} \X {Sys})
            \cup (IF tx.ok THEN Recipients(tx) \X {t} ELSE {})
       /\ tx.method = "createToken" => \A u : ~ChangesParameters(tx, u)
       /\ \A u : ChangesParameters(tx, u) => tx.ok /\ u = t
  BY <1>1 DEF Changes, ChangesParameters
<1>14. /\ Items(list) \subseteq Allowed(tx) /\ Sts("txAddr", Parties(tx)) \subseteq Items(list)
       /\ Sts("account", Changes(tx)) \subseteq Items(list)
       /\ Items(g) \subseteq Allowed(tx)
       /\ \A u : ChangesParameters(tx, u) => tx.ok /\ St("bancor", u) \in Items(g)
  <2>1. Recipients(tx) \subseteq Parties(tx) /\ tx.caller \in Parties(tx)
    BY DEF Parties
  <2>2. tx.ok => Sts("account", Holding(Recipients(tx), t)) \subseteq Items(list)
    BY <1>5, <1>7, <1>9, <1>10
  <2>3. Sts("account", Holding({tx.caller}, Sys)) \subseteq Items(list)
    BY <1>5, <1>7, <1>9, <1>10
  <2>4. Sts("account", Changes(tx)) \subseteq Items(list)
    BY <1>13, <2>2, <2>3 DEF Sts, Holding
  <2>5. Sts("txAddr", Parties(tx)) \subseteq Items(list)
    BY <1>5, <1>7, <1>9, <1>10
  <2>6. Items(list) \subseteq Allowed(tx)
    <3>1. Items(a) \cup Items(b) \cup Items(f) \subseteq Allowed(tx)
      BY <1>2, <1>5 DEF Allowed, Sts, Holding
    <3>2. Items(c) \cup Items(e) \subseteq Allowed(tx)
      BY <1>2, <1>5, <2>1 DEF Allowed, Sts, Holding
    <3>3. Items(d) \subseteq Allowed(tx)
      BY <1>2, <1>5 DEF Allowed, Sts, Holding
    <3>4. QED
      BY <1>7, <1>9, <1>10, <3>1, <3>2, <3>3
  <2>7. Items(g) \subseteq Allowed(tx)
    BY <1>2, <1>5 DEF Allowed, Sts, Holding
  <2>8. \A u : ChangesParameters(tx, u) => tx.ok /\ St("bancor", u) \in Items(g)
    BY <1>5, <1>13 DEF Sts
  <2>9. QED
    BY <2>4, <2>5, <2>6, <2>7, <2>8
<1>15. tx.ok => Enters(list, t) /\ Enters(list \o OnSuccess(tx, g), t)
  BY <1>5, <1>7, <1>9, <1>10, <1>11 DEF Enters, Sts
<1>16. QED
  BY <1>1, <1>9, <1>10, <1>11, <1>12, <1>13, <1>14, <1>15, OwnNames DEF Covers

\* The statements of a purchase or a sale of t.
Deal(tx, t) ==
    TxAddrs(<<tx.caller>>) \o Balances(<<tx.caller>>, Sys)
      \o OnSuccess(tx, Balances(<<tx.caller>>, t) \o BancorParameters(t))

\* A purchase or a sale asks for the caller's balances and the token's parameters,
\* under the name the handler uses for the token.
LEMMA DealCovers ==
    ASSUME NEW tx, WellFormed(tx), tx.method \in {"buyBancorToken", "sellBancorToken"},
           NEW t \in DOMAIN Canon, t = TokenName(tx)
    PROVE  Covers(Deal(tx, t), tx)
<1>1. PICK me, it, a, b, c, d :
        /\ me = <<tx.caller>> /\ it = <<t>>
        /\ a = TxAddrs(me) /\ b = Balances(me, Sys) /\ c = Balances(me, t)
        /\ d = BancorParameters(t)
  OBVIOUS
<1>2. IsList(me) /\ Items(me) = {tx.caller} /\ IsList(it) /\ Items(it) = {t}
  BY <1>1, OneList
<1>3. /\ IsList(a) /\ Items(a) = Sts("txAddr", {tx.caller})
      /\ IsList(b) /\ Items(b) = Sts("account", Holding({tx.caller}, Sys))
      /\ IsList(c) /\ Items(c) = Sts("account", Holding({tx.caller}, t))
      /\ IsList(d) /\ Items(d) = Sts("bancor", {t})
  <2>1. a = Statements("txAddr", me) /\ d = Statements("bancor", it)
    BY <1>1 DEF TxAddrs, BancorParameters
  <2>2. IsList(a) /\ Items(a) = Sts("txAddr", {tx.caller})
    BY <1>2, <2>1, StatementsOf
  <2>3. IsList(b) /\ Items(b) = Sts("account", Holding({tx.caller}, Sys))
    BY <1>1, <1>2, BalancesOf
  <2>4. IsList(c) /\ Items(c) = Sts("account", Holding({tx.caller}, t))
    BY <1>1, <1>2, BalancesOf
  <2>5. IsList(d) /\ Items(d) = Sts("bancor", {t})
    BY <1>2, <2>1, StatementsOf
  <2>6. QED
    BY <2>2, <2>3, <2>4, <2>5
<1>4. PICK always, made : always = a \o b /\ made = c \o d
  OBVIOUS
<1>5. /\ IsList(always) /\ Items(always) = Items(a) \cup Items(b)
      /\ IsList(made) /\ Items(made) = Items(c) \cup Items(d)
  BY <1>3, <1>4, JoinedLists
<1>6. OnSuccess(tx, made) = IF tx.ok THEN made ELSE <<>>
  BY DEF OnSuccess
<1>7. PICK list : list = Deal(tx, t) /\ list = always \o OnSuccess(tx, made)
  BY <1>1, <1>4 DEF Deal
<1>8. IsList(list) /\ Items(list) = Items(always) \cup (IF tx.ok THEN Items(made) ELSE {})
  <2>1. PICK then : then = OnSuccess(tx, made)
    OBVIOUS
  <2>2. IsList(then) /\ Items(then) = IF tx.ok THEN Items(made) ELSE {}
    BY <1>5, <1>6, <2>1, EmptyList
  <2>3. list = always \o then /\ IsList(always)
    BY <1>5, <1>7, <2>1
  <2>4. IsList(list) /\ Items(list) = Items(always) \cup Items(then)
    BY <2>2, <2>3, JoinedLists
  <2>5. QED
    BY <2>2, <2>4
<1>9. Parties(tx) = {tx.caller}
  <2>1. tx.to = <<>>
    BY DEF WellFormed
  <2>2. Recipients(tx) = {}
    BY <2>1, PartyLists, EmptyList
  <2>3. QED
    BY <2>2 DEF Parties
<1>10. /\ Refreshed(tx) \subseteq ({tx.caller} \X {Sys})
            \cup (IF tx.ok THEN {tx.caller} \X {t} ELSE {})
       /\ \A u : ChangesParameters(tx, u) => tx.ok
  <2>1. Changes(tx) \subseteq ({tx.caller} \X {Sys})
            \cup (IF tx.ok THEN {tx.caller} \X {Canon[tx.token]} ELSE {})
    BY <1>9 DEF Changes
  <2>2. QED
    BY <2>1 DEF Refreshed, RowOf, ChangesParameters
<1>11. Items(list) \subseteq Allowed(tx)
  BY <1>3, <1>5, <1>8, <1>9 DEF Allowed, Sts, Holding
<1>12. Sts("account", Refreshed(tx)) \subseteq Items(list)
  BY <1>3, <1>5, <1>8, <1>10 DEF Sts, Holding
<1>13. ASSUME NEW u, ChangesParameters(tx, u)
       PROVE  St("bancor", t) \in Items(list)
  BY <1>3, <1>5, <1>8, <1>10, <1>13 DEF Sts
<1>14. Sts("txAddr", Parties(tx)) \subseteq Items(list)
  BY <1>3, <1>5, <1>8, <1>9
<1>15. QED
  BY <1>7, <1>8, <1>11, <1>12, <1>13, <1>14 DEF Covers

\* A token's transfer refreshes what the caller paid and the token's balances of
\* both sides.
LEMMA TokenTransferCovers ==
    ASSUME NEW tx, WellFormed(tx), tx.method \in {"transferTokenTo", "transferBancorTokenTo"}
    PROVE  Covers(CheckTransferTokenTo(tx), tx)
<1>1. PICK t : t = Canon[tx.token]
  OBVIOUS
<1>2. t \in DOMAIN Canon
  BY <1>1, TableConstants DEF WellFormed
<1>3. PICK me, both, a, b, c :
        /\ me = <<tx.caller>> /\ both = <<tx.caller>> \o tx.to
        /\ a = TxAddrs(both) /\ b = Balances(me, Sys) /\ c = Balances(both, t)
  OBVIOUS
<1>4. IsList(me) /\ Items(me) = {tx.caller} /\ IsList(both) /\ Items(both) = Parties(tx)
  BY <1>3, PartyLists
<1>5. /\ IsList(a) /\ Items(a) = Sts("txAddr", Parties(tx))
      /\ IsList(b) /\ Items(b) = Sts("account", Holding({tx.caller}, Sys))
      /\ IsList(c) /\ Items(c) = Sts("account", Holding(Parties(tx), t))
  <2>1. IsList(a) /\ Items(a) = Sts("txAddr", Parties(tx))
    BY <1>3, <1>4, StatementsOf DEF TxAddrs
  <2>2. IsList(b) /\ Items(b) = Sts("account", Holding({tx.caller}, Sys))
    BY <1>3, <1>4, BalancesOf
  <2>3. IsList(c) /\ Items(c) = Sts("account", Holding(Parties(tx), t))
    BY <1>3, <1>4, BalancesOf
  <2>4. QED
    BY <2>1, <2>2, <2>3
<1>6. PICK list, always : always = a \o b /\ list = always \o OnSuccess(tx, c)
  OBVIOUS
<1>7. IsList(always) /\ Items(always) = Items(a) \cup Items(b)
  BY <1>5, <1>6, JoinedLists
<1>8. OnSuccess(tx, c) = IF tx.ok THEN c ELSE <<>>
  BY DEF OnSuccess
<1>9. IsList(list) /\ Items(list) = Items(always) \cup (IF tx.ok THEN Items(c) ELSE {})
  BY <1>5, <1>6, <1>7, <1>8, EmptyList, JoinedLists
<1>10. CheckTransferTokenTo(tx) = list
  BY <1>1, <1>3, <1>6, Zenon DEF CheckTransferTokenTo
<1>11. /\ Changes(tx) \subseteq ({tx.caller} \X {Sys})
            \cup (IF tx.ok THEN Parties(tx) \X {t} ELSE {})
       /\ \A u : ~ChangesParameters(tx, u)
       /\ tx.caller \in Parties(tx)
  BY <1>1 DEF Changes, ChangesParameters, Parties
<1>12. Items(list) \subseteq Allowed(tx)
  BY <1>2, <1>5, <1>7, <1>9, <1>11 DEF Allowed, Sts, Holding
<1>13. Sts("account", Changes(tx)) \subseteq Items(list)
  BY <1>5, <1>7, <1>9, <1>11 DEF Sts, Holding
<1>14. Sts("txAddr", Parties(tx)) \subseteq Items(list)
  BY <1>5, <1>7, <1>9
<1>15. QED
  BY <1>9, <1>10, <1>11, <1>12, <1>13, <1>14, OwnNames DEF Covers

\* Whatever the method, its handler covers the transaction.
LEMMA HandlerCovers ==
    ASSUME NEW tx, WellFormed(tx)
    PROVE  Covers(Handler(tx), tx)
<1>1. CASE tx.method = "transferTo"
  BY <1>1, TransferCovers DEF Handler
<1>2. CASE tx.method \in {"createToken", "createBancorToken"}
  BY <1>2, CreateCovers DEF Handler
<1>3. CASE tx.method = "buyBancorToken"
  <2>1. Canon[tx.token] \in DOMAIN Canon /\ Canon[tx.token] = TokenName(tx)
    BY <1>3, TableConstants DEF WellFormed, TokenName
  <2>2. QED
    BY <1>3, <2>1, DealCovers DEF Handler, CheckBuyBancorToken, Deal
<1>4. CASE tx.method = "sellBancorToken"
  <2>1. tx.token \in DOMAIN Canon /\ tx.token = TokenName(tx)
    BY <1>4 DEF WellFormed, TokenName
  <2>2. QED
    BY <1>4, <2>1, DealCovers DEF Handler, CheckSellBancorToken, Deal
<1>5. CASE tx.method \in {"transferTokenTo", "transferBancorTokenTo"}
  BY <1>5, TokenTransferCovers DEF Handler
<1>6. CASE tx.method \notin {"transferTo", "createToken", "createBancorToken", "buyBancorToken",
                           "sellBancorToken", "transferTokenTo", "transferBancorTokenTo"}
  <2>1. tx.to = <<>>
    BY <1>6 DEF WellFormed
  <2>2. QED
    BY <1>6, <2>1, DefaultCovers DEF Handler
<1>7. QED
  BY <1>1, <1>2, <1>3, <1>4, <1>5, <1>6

----------------------------------------------------------------------------
\* The statements of a block

\* SyncBlockData for block n.
Copies(n, tx) ==
    Statements("hashes", <<<<"block", n>>>>) \o Statements("blocks", <<n>>)
      \o (Statements("hashes", <<<<"tx", n>>>>) \o Statements("txs", <<n>>) \o Handler(tx))

\* The statements that may be made for block n.
AllowedFor(n, tx) ==
    Sts("hashes", {"block", "tx"} \X {n}) \cup Sts("blocks", {n}) \cup Sts("txs", {n})
      \cup Allowed(tx)

\* A block's statements are its own rows and the handler's.
LEMMA CopiesCover ==
    ASSUME NEW tx, WellFormed(tx), NEW n
    PROVE  /\ IsList(Copies(n, tx)) /\ Len(Copies(n, tx)) \in Nat \ {0}
           /\ Items(Copies(n, tx)) \subseteq AllowedFor(n, tx)
           /\ Items(Handler(tx)) \subseteq Items(Copies(n, tx))
           /\ St("blocks", n) \in Items(Copies(n, tx)) /\ St("txs", n) \in Items(Copies(n, tx))
<1>1. PICK k, j, m, a, b, c, d, e :
        /\ k = <<<<"block", n>>>> /\ j = <<<<"tx", n>>>> /\ m = <<n>>
        /\ a = Statements("hashes", k) /\ b = Statements("blocks", m)
        /\ c = Statements("hashes", j) /\ d = Statements("txs", m) /\ e = Handler(tx)
  OBVIOUS
<1>2. /\ IsList(k) /\ Items(k) = {<<"block", n>>} /\ IsList(j) /\ Items(j) = {<<"tx", n>>}
      /\ IsList(m) /\ Items(m) = {n}
  BY <1>1, OneList
<1>3. /\ IsList(a) /\ Items(a) = Sts("hashes", {<<"block", n>>})
      /\ IsList(c) /\ Items(c) = Sts("hashes", {<<"tx", n>>})
  BY <1>1, <1>2, StatementsOf
<1>4. /\ IsList(b) /\ Items(b) = Sts("blocks", {n}) /\ IsList(d) /\ Items(d) = Sts("txs", {n})
  BY <1>1, <1>2, StatementsOf
<1>5. IsList(e) /\ Items(e) \subseteq Allowed(tx)
  BY <1>1, HandlerCovers DEF Covers
<1>6. PICK f : f = c \o d \o e
  OBVIOUS
<1>7. IsList(f) /\ Items(f) = Items(c) \cup Items(d) \cup Items(e)
  <2>1. PICK h : h = c \o d
    OBVIOUS
  <2>2. IsList(h) /\ Items(h) = Items(c) \cup Items(d)
    BY <1>3, <1>4, <2>1, JoinedLists
  <2>3. f = h \o e
    BY <1>6, <2>1
  <2>4. IsList(f) /\ Items(f) = Items(h) \cup Items(e)
    BY <1>5, <2>2, <2>3, JoinedLists
  <2>5. QED
    BY <2>2, <2>4
<1>8. PICK g : g = a \o b \o f
  OBVIOUS
<1>9. IsList(g) /\ Items(g) = Items(a) \cup Items(b) \cup Items(f)
  <2>1. PICK h : h = a \o b
    OBVIOUS
  <2>2. IsList(h) /\ Items(h) = Items(a) \cup Items(b)
    BY <1>3, <1>4, <2>1, JoinedLists
  <2>3. g = h \o f /\ IsList(f)
    BY <1>7, <1>8, <2>1
  <2>4. IsList(g) /\ Items(g) = Items(h) \cup Items(f)
    BY <2>2, <2>3, JoinedLists
  <2>5. QED
    BY <2>2, <2>4
<1>10. g = Copies(n, tx)
  BY <1>1, <1>6, <1>8 DEF Copies
<1>11. St("blocks", n) \in Items(g) /\ St("txs", n) \in Items(g)
  BY <1>4, <1>7, <1>9 DEF Sts
<1>12. Len(g) \in Nat \ {0}
  <2>1. Len(g) \in Nat
    BY <1>9, ListFacts
  <2>2. PICK i \in 1..Len(g) : TRUE
    BY <1>11 DEF Items
  <2>3. QED
    BY <2>1, <2>2
<1>13. Items(g) \subseteq AllowedFor(n, tx)
  BY <1>3, <1>4, <1>5, <1>7, <1>9 DEF AllowedFor, Sts
<1>14. QED
  BY <1>1, <1>7, <1>9, <1>10, <1>11, <1>12, <1>13

----------------------------------------------------------------------------
\* The invariant

\* The key the chain is asked about for a row.
Asked(k) == <<k[1], Resolve(k[2])>>

\* What statement s of block n has brought about.
Reached(s, n) ==
    /\ s.table = "account" =>
         account[s.key] # Absent /\ LastChange(chain, n, Asked(s.key)) <= account[s.key]
    /\ s.table = "bancor" =>
         bancor[s.key] # Absent /\ LastParameters(chain, n, Resolve(s.key)) <= bancor[s.key]
    /\ s.table = "txAddr" => <<n, s.key>> \in txAddr
    /\ s.table = "blocks" => s.key \in blocks
    /\ s.table = "txs" => s.key \in txs
    /\ s.table = "names" => s.key \in names
    /\ s.table = "tokens" => s.key \in tokens

\* The statements of the block being copied that were made have brought about
\* what they should, although the chain moved on; no balances of miners wait.
Progress ==
    /\ copying = 0 => done = 0
    /\ copying # 0 =>
         /\ batch.left = 0
         /\ done <= Len(Copies(copying, chain[copying]))
         /\ \A i \in 1..done : Reached(Copies(copying, chain[copying])[i], copying)

\* So have all the statements of a recorded block.
Recorded ==
    \A n \in copied : \A s \in Items(Copies(n, chain[n])) : Reached(s, n)

\* No row is newer than the chain, nor, while the miners' balances wait to be
\* written, newer than they are.
NotNewer ==
    /\ \A k \in Keys : account[k] # Absent =>
          account[k] <= LastChange(chain, Len(chain), Asked(k))
    /\ \A t \in DOMAIN Canon : bancor[t] # Absent =>
          bancor[t] <= LastParameters(chain, Len(chain), Resolve(t))
    /\ batch.left > 0 =>
          /\ batch.asOf <= Len(chain)
          /\ \A k \in Keys : account[k] # Absent =>
                account[k] <= LastChange(chain, batch.asOf, Asked(k))

\* The inductive invariant.
IInv == TypeOK /\ Progress /\ Recorded /\ NotNewer

\* Rows stay, and do not go back.
RowsGrow ==
    /\ \A k \in Keys : account[k] # Absent => account'[k] # Absent /\ account[k] <= account'[k]
    /\ \A t \in DOMAIN Canon :
          bancor[t] # Absent => bancor'[t] # Absent /\ bancor[t] <= bancor'[t]
    /\ txAddr \subseteq txAddr' /\ blocks \subseteq blocks' /\ txs \subseteq txs'
    /\ names \subseteq names' /\ tokens \subseteq tokens'

\* The same of the last change of a token's parameters.
LEMMA LastParametersChange ==
    ASSUME NEW c, NEW n \in Nat, NEW t
    PROVE  /\ LastParameters(c, n, t) \in 0..n
           /\ \A m \in 0..n : LastParameters(c, m, t) <= LastParameters(c, n, t)
           /\ ChangesParameters(c[n], t) /\ n > 0 => LastParameters(c, n, t) = n
           /\ ~ChangesParameters(c[n], t) /\ n > 0 =>
                LastParameters(c, n, t) = LastParameters(c, n - 1, t)
<1> DEFINE H(m) == {i \in 1..m : ChangesParameters(c[i], t)}
<1>1. \A m \in Nat : /\ LastOf(H(m)) \in 0..m
                    /\ \A i \in H(m) : LastOf(H(m)) \in H(m) /\ i <= LastOf(H(m))
  BY LastIsGreatest
<1>2. ASSUME NEW m \in 0..n PROVE LastOf(H(m)) <= LastOf(H(n))
  <2>1. CASE H(m) = {}
    BY <1>1, <2>1 DEF LastOf
  <2>2. CASE H(m) # {}
    <3>1. LastOf(H(m)) \in H(m)
      BY <1>1, <2>2
    <3>2. LastOf(H(m)) \in H(n)
      BY <3>1
    <3>3. QED
      BY <1>1, <3>2
  <2>3. QED
    BY <2>1, <2>2
<1>3. ASSUME ChangesParameters(c[n], t), n > 0 PROVE LastOf(H(n)) = n
  <2>1. n \in H(n)
    BY <1>3
  <2>2. QED
    BY <1>1, <2>1
<1>4. ASSUME ~ChangesParameters(c[n], t), n > 0 PROVE H(n) = H(n - 1)
  BY <1>4
<1>5. QED
  BY <1>1, <1>2, <1>3, <1>4 DEF LastParameters

\* Only the transactions up to n count.
LEMMA LastOfPrefix ==
    ASSUME NEW c, NEW d, NEW n \in Nat, \A i \in 1..n : c[i] = d[i]
    PROVE  /\ \A k : LastChange(c, n, k) = LastChange(d, n, k)
           /\ \A t : LastParameters(c, n, t) = LastParameters(d, n, t)
<1>1. ASSUME NEW k PROVE {i \in 1..n : k \in Changes(c[i])} = {i \in 1..n : k \in Changes(d[i])}
  OBVIOUS
<1>2. ASSUME NEW t
      PROVE  {i \in 1..n : ChangesParameters(c[i], t)} = {i \in 1..n : ChangesParameters(d[i], t)}
  OBVIOUS
<1>3. QED
  BY <1>1, <1>2 DEF LastChange, LastParameters

\* The rows a statement may write.
LEMMA StatementKeys ==
    ASSUME NEW n, NEW tx \in Transactions, NEW s \in AllowedFor(n, tx)
    PROVE  /\ s.table = "account" => s.key \in Keys
           /\ s.table \in {"tokens", "bancor"} => s.key \in DOMAIN Canon
           /\ s.table \in {"blocks", "txs"} => s.key = n
           /\ s.table = "hashes" => s.key \in {"block", "tx"} \X {n}
<1>1. PICK table, key : s = St(table, key)
  BY DEF AllowedFor, Allowed, Sts
<1>2. s.table = table /\ s.key = key
  BY <1>1 DEF St
<1>3. ASSUME NEW other, NEW k, s = St(other, k) PROVE other = table /\ k = key
  BY <1>1, <1>3 DEF St
<1>4. ASSUME table = "account" PROVE key \in Parties(tx) \X ({Sys} \cup DOMAIN Canon)
  BY <1>3, <1>4 DEF AllowedFor, Allowed, Sts
<1>5. ASSUME table \in {"tokens", "bancor"} PROVE key \in DOMAIN Canon
  BY <1>3, <1>5 DEF AllowedFor, Allowed, Sts
<1>6. ASSUME table \in {"blocks", "txs"} PROVE key = n
  BY <1>3, <1>6 DEF AllowedFor, Allowed, Sts
<1>7. ASSUME table = "hashes" PROVE key \in {"block", "tx"} \X {n}
  BY <1>3, <1>7 DEF AllowedFor, Allowed, Sts
<1>8. Parties(tx) \X ({Sys} \cup DOMAIN Canon) \subseteq Keys
  BY DEF Keys
<1>9. QED
  BY <1>2, <1>4, <1>5, <1>6, <1>7, <1>8

\* What was reached stays reached while rows grow.
LEMMA ReachedStays ==
    ASSUME TypeOK, TypeOK', RowsGrow, NEW n \in Nat, NEW tx \in Transactions,
           NEW s \in AllowedFor(n, tx), Reached(s, n),
           \A i \in 1..n : chain[i] = chain'[i]
    PROVE  Reached(s, n)'
<1>1. PICK c, d : c = chain /\ d = chain'
  OBVIOUS
<1>2. /\ \A k : LastChange(c, n, k) = LastChange(d, n, k)
      /\ \A t : LastParameters(c, n, t) = LastParameters(d, n, t)
  BY <1>1, LastOfPrefix
<1>3. CASE s.table = "account"
  <2>1. PICK k \in Keys : k = s.key
    BY <1>3, StatementKeys
  <2>2. account[k] # Absent /\ LastChange(c, n, Asked(k)) <= account[k]
    BY <1>1, <1>3, <2>1 DEF Reached
  <2>3. account'[k] # Absent /\ account[k] <= account'[k]
    BY <2>2 DEF RowsGrow
  <2>4. LastChange(c, n, Asked(k)) \in 0..n /\ account[k] \in 0..Absent /\ account'[k] \in 0..Absent
    BY LastChanges DEF TypeOK
  <2>5. LastChange(d, n, Asked(k)) <= account'[k]
    BY <1>2, <2>2, <2>3, <2>4, TableConstants DEF Absent
  <2>6. QED
    BY <1>1, <1>3, <2>1, <2>3, <2>5 DEF Reached
<1>4. CASE s.table = "bancor"
  <2>1. PICK t \in DOMAIN Canon : t = s.key
    BY <1>4, StatementKeys
  <2>2. bancor[t] # Absent /\ LastParameters(c, n, Resolve(t)) <= bancor[t]
    BY <1>1, <1>4, <2>1 DEF Reached
  <2>3. bancor'[t] # Absent /\ bancor[t] <= bancor'[t]
    BY <2>2 DEF RowsGrow
  <2>4. /\ LastParameters(c, n, Resolve(t)) \in 0..n
        /\ bancor[t] \in 0..Absent /\ bancor'[t] \in 0..Absent
    BY LastParametersChange DEF TypeOK
  <2>5. LastParameters(d, n, Resolve(t)) <= bancor'[t]
    BY <1>2, <2>2, <2>3, <2>4, TableConstants DEF Absent
  <2>6. QED
    BY <1>1, <1>4, <2>1, <2>3, <2>5 DEF Reached
<1>5. CASE s.table \notin {"account", "bancor"}
  BY <1>5 DEF Reached, RowsGrow
<1>6. QED
  BY <1>3, <1>4, <1>5

\* A statement brings about what it should, and no row goes back.
LEMMA WriteReaches ==
    ASSUME IInv, NEW n \in 1..Len(chain), copying = n, done' \in Nat,
           NEW s \in AllowedFor(n, chain[n]), Write(s),
           UNCHANGED <<chain, synced, copied, copying, group, stop, batch, faults>>
    PROVE  TypeOK' /\ RowsGrow /\ Reached(s, n)' /\ NotNewer'
<1>1. /\ chain \in Seq(Transactions) /\ Len(chain) \in Nat /\ Len(chain) <= MaxChain
      /\ n \in 1..Len(chain) /\ n \in 1..MaxChain /\ ~(batch.left > 0)
  BY TableConstants DEF IInv, TypeOK, Progress
<1>2. PICK tx \in Transactions : tx = chain[n]
  BY <1>1
<1>3. /\ s.table = "account" => s.key \in Keys
      /\ s.table \in {"tokens", "bancor"} => s.key \in DOMAIN Canon
      /\ s.table \in {"blocks", "txs"} => s.key = n
      /\ s.table = "hashes" => s.key \in {"block", "tx"} \X {n}
  BY <1>2, StatementKeys
<1>4. PICK v, w : v = LastChange(chain, Len(chain), Asked(s.key))
                  /\ w = LastParameters(chain, Len(chain), Resolve(s.key))
  OBVIOUS
<1>5. /\ v \in 0..Len(chain) /\ LastChange(chain, n, Asked(s.key)) <= v
      /\ w \in 0..Len(chain) /\ LastParameters(chain, n, Resolve(s.key)) <= w
  BY <1>1, <1>4, LastChanges, LastParametersChange
<1>6. /\ account' = IF s.table = "account" THEN [account EXCEPT ![s.key] = v] ELSE account
      /\ bancor' = IF s.table = "bancor" THEN [bancor EXCEPT ![s.key] = w] ELSE bancor
  BY <1>4 DEF Write, Balance, Parameters, LastChange, LastParameters, Asked
<1>7. v \in 0..Absent /\ w \in 0..Absent /\ v # Absent /\ w # Absent
  BY <1>1, <1>5, TableConstants DEF Absent
<1>8. account \in [Keys -> 0..Absent] /\ bancor \in [DOMAIN Canon -> 0..Absent]
  BY DEF IInv, TypeOK
<1>9. account' \in [Keys -> 0..Absent] /\ bancor' \in [DOMAIN Canon -> 0..Absent]
  BY <1>6, <1>7, <1>8
<1>10. TypeOK'
  BY <1>1, <1>3, <1>9 DEF IInv, TypeOK, Write
<1>11. \A k \in Keys : /\ account[k] # Absent => account[k] <= LastChange(chain, Len(chain), Asked(k))
                       /\ account[k] \in Nat
  BY <1>8, TableConstants DEF IInv, NotNewer, Absent
<1>12. \A t \in DOMAIN Canon :
         /\ bancor[t] # Absent => bancor[t] <= LastParameters(chain, Len(chain), Resolve(t))
         /\ bancor[t] \in Nat
  BY <1>8, TableConstants DEF IInv, NotNewer, Absent
<1>13. RowsGrow
  <2>1. ASSUME NEW k \in Keys, account[k] # Absent
        PROVE  account'[k] # Absent /\ account[k] <= account'[k]
    <3>1. CASE s.table = "account" /\ k = s.key
      BY <1>3, <1>4, <1>6, <1>7, <1>8, <1>11, <2>1, <3>1
    <3>2. CASE ~(s.table = "account" /\ k = s.key)
      <4>1. account'[k] = account[k]
        BY <1>3, <1>6, <1>8, <3>2
      <4>2. QED
        BY <1>11, <2>1, <4>1
    <3>3. QED
      BY <3>1, <3>2
  <2>2. ASSUME NEW t \in DOMAIN Canon, bancor[t] # Absent
        PROVE  bancor'[t] # Absent /\ bancor[t] <= bancor'[t]
    <3>1. CASE s.table = "bancor" /\ t = s.key
      BY <1>3, <1>4, <1>6, <1>7, <1>8, <1>12, <2>2, <3>1
    <3>2. CASE ~(s.table = "bancor" /\ t = s.key)
      <4>1. bancor'[t] = bancor[t]
        BY <1>3, <1>6, <1>8, <3>2
      <4>2. QED
        BY <1>12, <2>2, <4>1
    <3>3. QED
      BY <3>1, <3>2
  <2>3. /\ txAddr \subseteq txAddr' /\ blocks \subseteq blocks' /\ txs \subseteq txs'
        /\ names \subseteq names' /\ tokens \subseteq tokens'
    BY DEF Write
  <2>4. QED
    BY <2>1, <2>2, <2>3 DEF RowsGrow
<1>14. Reached(s, n)'
  <2>1. s.table = "account" => /\ account'[s.key] = v
    BY <1>3, <1>6, <1>8
  <2>2. s.table = "bancor" => bancor'[s.key] = w
    BY <1>3, <1>6, <1>8
  <2>3. /\ s.table = "txAddr" => <<n, s.key>> \in txAddr'
        /\ s.table = "blocks" => s.key \in blocks'
        /\ s.table = "txs" => s.key \in txs'
        /\ s.table = "names" => s.key \in names'
        /\ s.table = "tokens" => s.key \in tokens'
    BY DEF Write
  <2>4. QED
    BY <1>5, <1>7, <2>1, <2>2, <2>3 DEF Reached
<1>15. NotNewer'
  <2>1. ASSUME NEW k \in Keys, account'[k] # Absent
        PROVE  account'[k] <= LastChange(chain, Len(chain), Asked(k))
    <3>1. CASE s.table = "account" /\ k = s.key
      BY <1>3, <1>4, <1>5, <1>6, <1>8, <3>1
    <3>2. CASE ~(s.table = "account" /\ k = s.key)
      BY <1>3, <1>6, <1>8, <1>11, <2>1, <3>2
    <3>3. QED
      BY <3>1, <3>2
  <2>2. ASSUME NEW t \in DOMAIN Canon, bancor'[t] # Absent
        PROVE  bancor'[t] <= LastParameters(chain, Len(chain), Resolve(t))
    <3>1. CASE s.table = "bancor" /\ t = s.key
      BY <1>3, <1>4, <1>5, <1>6, <1>8, <3>1
    <3>2. CASE ~(s.table = "bancor" /\ t = s.key)
      BY <1>3, <1>6, <1>8, <1>12, <2>2, <3>2
    <3>3. QED
      BY <3>1, <3>2
  <2>3. ~(batch'.left > 0)
    BY <1>1
  <2>4. QED
    BY <2>1, <2>2, <2>3 DEF NotNewer
<1>16. QED
  BY <1>10, <1>13, <1>14, <1>15

----------------------------------------------------------------------------
\* The steps

\* A block that is copied is one the chain has, and its statements are a list.
LEMMA BlockOfChain ==
    ASSUME chain \in Seq(Transactions), NEW n \in 1..Len(chain)
    PROVE  /\ n \in Nat /\ chain[n] \in Transactions /\ WellFormed(chain[n])
           /\ IsList(Copies(n, chain[n])) /\ Len(Copies(n, chain[n])) \in Nat \ {0}
           /\ Items(Copies(n, chain[n])) \subseteq AllowedFor(n, chain[n])
<1>1. n \in Nat /\ chain[n] \in Transactions
  OBVIOUS
<1>2. QED
  BY <1>1, TableConstants, CopiesCover

\* So is the block in hand.
LEMMA BlockInHand ==
    ASSUME IInv, copying # 0
    PROVE  /\ copying \in 1..Len(chain) /\ Len(chain) \in Nat
           /\ chain[copying] \in Transactions /\ WellFormed(chain[copying])
           /\ SyncBlockData(chain[copying]) = Copies(copying, chain[copying])
<1>1. copying \in 1..Len(chain) /\ chain \in Seq(Transactions) /\ Len(chain) \in Nat
  BY DEF IInv, TypeOK
<1>2. QED
  BY <1>1, BlockOfChain DEF SyncBlockData, UpdateTx, Copies

\* A recorded block is one the chain has.
LEMMA CopiedOfChain == ASSUME TypeOK PROVE copied \subseteq 1..Len(chain) /\ copied \subseteq 1..synced
<1>1. synced \in Nat /\ Len(chain) \in Nat /\ synced <= Len(chain) /\ copied \subseteq 1..synced
  BY DEF TypeOK
<1>2. QED
  BY <1>1

\* What recorded blocks have brought about stays.
LEMMA RecordedStays ==
    ASSUME IInv, TypeOK', RowsGrow, \A i \in 1..Len(chain) : chain[i] = chain'[i],
           NEW n \in copied
    PROVE  \A s \in Items(Copies(n, chain'[n])) : Reached(s, n)'
<1>1. chain \in Seq(Transactions) /\ Len(chain) \in Nat /\ n \in 1..Len(chain)
  BY CopiedOfChain DEF IInv, TypeOK
<1>2. n \in Nat /\ \A i \in 1..n : i \in 1..Len(chain)
  BY <1>1
<1>3. PICK tx \in Transactions : tx = chain[n] /\ tx = chain'[n]
  BY <1>1, BlockOfChain
<1>4. \A s \in Items(Copies(n, tx)) : s \in AllowedFor(n, tx) /\ Reached(s, n)
  BY <1>1, <1>3, BlockOfChain DEF IInv, Recorded
<1>5. \A s \in Items(Copies(n, tx)) : Reached(s, n)'
  BY <1>2, <1>4, ReachedStays DEF IInv
<1>6. QED
  BY <1>3, <1>5

\* One statement leaves the block in hand one statement further.
LEMMA StatementHolds == ASSUME IInv, Statement PROVE IInv' /\ RowsGrow
<1>1. PICK n : n = copying
  OBVIOUS
<1>2. PICK tx, list : tx = chain[n] /\ list = Copies(n, tx)
  OBVIOUS
<1>3. /\ copying # 0 /\ chain' = chain /\ batch' = batch /\ done' = done + 1
      /\ UNCHANGED <<chain, synced, copied, copying, group, stop, batch, faults>>
  BY DEF Statement
<1>4. /\ n \in 1..Len(chain) /\ Len(chain) \in Nat /\ tx \in Transactions /\ n \in Nat
      /\ SyncBlockData(chain[copying]) = list /\ chain \in Seq(Transactions)
  BY <1>1, <1>2, <1>3, BlockInHand DEF IInv, TypeOK
<1>5. IsList(list) /\ Len(list) \in Nat \ {0} /\ Items(list) \subseteq AllowedFor(n, tx)
  BY <1>2, <1>4, BlockOfChain
<1>6. done < Len(list) /\ done \in Nat /\ Write(list[done + 1])
  BY <1>4 DEF Statement, IInv, TypeOK
<1>7. \A i \in 1..done : Reached(list[i], n)
  BY <1>1, <1>2, <1>3 DEF IInv, Progress
<1>8. PICK s : s = list[done + 1]
  OBVIOUS
<1>9. \A i \in 1..Len(list) : list[i] \in AllowedFor(n, tx)
  BY <1>5 DEF Items
<1>10. s \in AllowedFor(n, tx)
  BY <1>5, <1>6, <1>8, <1>9
<1>11. TypeOK' /\ RowsGrow /\ Reached(s, n)' /\ NotNewer'
  BY <1>1, <1>2, <1>3, <1>4, <1>6, <1>8, <1>10, WriteReaches
<1>12. ASSUME NEW i \in 1..(done + 1) PROVE Reached(list[i], n)'
  <2>1. CASE i = done + 1
    BY <1>8, <1>11, <2>1
  <2>2. CASE i # done + 1
    <3>1. i \in 1..done /\ i \in 1..Len(list)
      BY <1>5, <1>6, <2>2
    <3>2. PICK r \in AllowedFor(n, tx) : r = list[i]
      BY <1>9, <3>1
    <3>3. Reached(r, n)
      BY <1>7, <3>1, <3>2
    <3>4. Reached(r, n)'
      BY <1>3, <1>4, <1>11, <3>2, <3>3, ReachedStays DEF IInv
    <3>5. QED
      BY <3>2, <3>4
  <2>3. QED
    BY <2>1, <2>2
<1>13. Progress'
  <2>1. done' <= Len(list)
    BY <1>3, <1>5, <1>6
  <2>2. \A i \in 1..done' : Reached(list[i], n)'
    BY <1>3, <1>12
  <2>3. batch.left = 0
    BY <1>3 DEF IInv, Progress
  <2>4. QED
    BY <1>1, <1>2, <1>3, <2>1, <2>2, <2>3 DEF Progress
<1>14. Recorded'
  BY <1>3, <1>11, RecordedStays DEF Recorded
<1>15. QED
  BY <1>11, <1>13, <1>14 DEF IInv

\* Nothing was copied or written yet.
LEMMA InitHolds == ASSUME Init PROVE IInv
<1>1. \A k : LastChange(<<>>, 0, k) = 0
  BY LastChanges
<1>2. \A k \in Keys : account[k] # Absent => account[k] = 0
  BY TableConstants DEF Init, Absent
<1>3. \A t \in DOMAIN Canon : bancor[t] = Absent
  BY DEF Init
<1>4. TypeOK
  <2>1. Absent \in Nat /\ 0 \in 0..Absent /\ Absent \in 0..Absent
    BY TableConstants DEF Absent
  <2>2. account \in [Keys -> 0..Absent] /\ bancor \in [DOMAIN Canon -> 0..Absent]
    BY <2>1 DEF Init
  <2>3. QED
    BY <2>2, TableConstants DEF Init, TypeOK
<1>5. Progress
  BY DEF Init, Progress
<1>6. NotNewer
  BY <1>1, <1>2, <1>3 DEF Init, NotNewer
<1>7. Recorded
  BY DEF Init, Recorded
<1>8. QED
  BY <1>4, <1>5, <1>6, <1>7 DEF IInv

\* A step that records nothing keeps what was reached, or begins a block anew; the
\* chain may have grown.
LEMMA ProgressStays ==
    ASSUME IInv, TypeOK', RowsGrow, \A i \in 1..Len(chain) : chain[i] = chain'[i],
           copied' = copied, done' = 0 \/ (done' = done /\ copying' = copying),
           copying' # 0 => batch'.left = 0
    PROVE  Progress' /\ Recorded'
<1>1. Recorded'
  BY RecordedStays DEF Recorded
<1>2. copying' = 0 => done' = 0
  BY DEF IInv, Progress
<1>3. PICK n : n = copying'
  OBVIOUS
<1>4. PICK tx, list : tx = chain'[n] /\ list = Copies(n, tx)
  OBVIOUS
<1>5. ASSUME copying' # 0
      PROVE  done' <= Len(list) /\ \A i \in 1..done' : Reached(list[i], n)'
  <2>1. n \in 1..Len(chain') /\ n \in Nat /\ tx \in Transactions /\ Len(list) \in Nat
    <3>1. copying' \in 1..Len(chain') /\ chain' \in Seq(Transactions)
      BY <1>5 DEF TypeOK
    <3>2. PICK c : c = chain'
      OBVIOUS
    <3>3. c[n] \in Transactions /\ n \in Nat
      BY <1>3, <3>1, <3>2
    <3>4. Len(list) \in Nat
      BY <1>4, <3>2, <3>3, TableConstants, CopiesCover
    <3>5. QED
      BY <1>3, <1>4, <3>1, <3>2, <3>3, <3>4
  <2>2. CASE done' = 0
    BY <2>1, <2>2
  <2>3. CASE done' = done /\ copying' = copying
    <3>1. n = copying /\ copying # 0
      BY <1>3, <1>5, <2>3
    <3>2. /\ n \in 1..Len(chain) /\ Len(chain) \in Nat /\ chain \in Seq(Transactions)
          /\ tx = chain[n]
      BY <1>4, <3>1, BlockInHand DEF IInv, TypeOK
    <3>3. Items(list) \subseteq AllowedFor(n, tx)
      BY <1>4, <3>2, BlockOfChain
    <3>4. done <= Len(list) /\ done \in Nat /\ \A i \in 1..done : Reached(list[i], n)
      BY <1>4, <3>1, <3>2 DEF IInv, Progress, TypeOK
    <3>5. \A i \in 1..n : chain[i] = chain'[i]
      BY <2>1, <3>2
    <3>6. ASSUME NEW i \in 1..done PROVE Reached(list[i], n)'
      <4>1. PICK r \in AllowedFor(n, tx) : r = list[i]
        BY <2>1, <3>3, <3>4 DEF Items
      <4>2. Reached(r, n)
        BY <3>4, <4>1
      <4>3. Reached(r, n)'
        BY <2>1, <3>5, <4>1, <4>2, ReachedStays DEF IInv
      <4>4. QED
        BY <4>1, <4>3
    <3>7. QED
      BY <2>3, <3>4, <3>6
  <2>4. QED
    BY <2>2, <2>3
<1>6. Progress'
  BY <1>2, <1>3, <1>4, <1>5 DEF Progress
<1>7. QED
  BY <1>1, <1>6

\* Rows that nobody touched have not gone back.
LEMMA SameRows == ASSUME IInv, UNCHANGED tables PROVE RowsGrow
<1>1. account \in [Keys -> 0..Absent] /\ bancor \in [DOMAIN Canon -> 0..Absent] /\ Absent \in Nat
  BY TableConstants DEF IInv, TypeOK, Absent
<1>2. \A v \in 0..Absent : v <= v
  BY <1>1
<1>3. QED
  BY <1>1, <1>2 DEF tables, RowsGrow

\* The chain executes a transaction: what the rows were compared with grows.
LEMMA ExecuteHolds ==
    ASSUME IInv, NEW tx \in Transactions, Execute(tx)
    PROVE  IInv' /\ RowsGrow
<1>1. PICK c, d, n : c = chain /\ d = chain' /\ n = Len(chain)
  OBVIOUS
<1>2. /\ c \in Seq(Transactions) /\ n = Len(c) /\ n \in Nat /\ n < MaxChain /\ d = Append(c, tx)
      /\ UNCHANGED <<position, tables, batch, faults>>
  BY <1>1 DEF Execute, IInv, TypeOK
<1>3. d \in Seq(Transactions) /\ Len(d) = n + 1 /\ \A i \in 1..n : c[i] = d[i]
  BY <1>2
<1>4. TypeOK'
  BY <1>1, <1>2, <1>3, TableConstants DEF IInv, TypeOK, tables, position
<1>5. RowsGrow
  BY <1>2, SameRows
<1>6. Progress' /\ Recorded'
  <2>1. \A i \in 1..Len(chain) : chain[i] = chain'[i]
    BY <1>1, <1>2, <1>3
  <2>2. copying' # 0 => batch'.left = 0
    BY <1>2 DEF IInv, Progress, position
  <2>3. copied' = copied /\ done' = done /\ copying' = copying
    BY <1>2 DEF position
  <2>4. QED
    BY <1>4, <1>5, <2>1, <2>2, <2>3, ProgressStays
<1>7. ASSUME NEW m \in 0..n
      PROVE  /\ \A k : LastChange(c, m, k) = LastChange(d, m, k) /\ LastChange(d, m, k) \in Nat
             /\ \A t : LastParameters(c, m, t) = LastParameters(d, m, t)
  <2>1. m \in Nat /\ \A i \in 1..m : c[i] = d[i]
    BY <1>2, <1>3
  <2>2. QED
    BY <2>1, LastOfPrefix, LastChanges
<1>8. \A k : LastChange(c, n, k) <= LastChange(d, n + 1, k) /\ LastChange(d, n + 1, k) \in Nat
             /\ LastChange(c, n, k) \in Nat
  <2>1. ASSUME NEW k
        PROVE  /\ LastChange(d, n, k) <= LastChange(d, n + 1, k)
               /\ LastChange(d, n + 1, k) \in Nat /\ LastChange(c, n, k) \in Nat
    <3>1. n + 1 \in Nat /\ n \in 0..(n + 1)
      BY <1>2
    <3>2. LastChange(d, n + 1, k) \in 0..(n + 1) /\ LastChange(c, n, k) \in 0..n
      BY <1>2, <3>1, LastChanges
    <3>3. LastChange(d, n, k) <= LastChange(d, n + 1, k)
      BY <3>1, LastChanges
    <3>4. QED
      BY <1>2, <3>2, <3>3
  <2>2. \A k : LastChange(c, n, k) = LastChange(d, n, k)
    BY <1>2, <1>7
  <2>3. QED
    BY <2>1, <2>2
<1>9. \A t : LastParameters(c, n, t) <= LastParameters(d, n + 1, t)
             /\ LastParameters(d, n + 1, t) \in Nat /\ LastParameters(c, n, t) \in Nat
  <2>1. ASSUME NEW t
        PROVE  /\ LastParameters(d, n, t) <= LastParameters(d, n + 1, t)
               /\ LastParameters(d, n + 1, t) \in Nat /\ LastParameters(c, n, t) \in Nat
    <3>1. n + 1 \in Nat /\ n \in 0..(n + 1)
      BY <1>2
    <3>2. LastParameters(d, n + 1, t) \in 0..(n + 1) /\ LastParameters(c, n, t) \in 0..n
      BY <1>2, <3>1, LastParametersChange
    <3>3. LastParameters(d, n, t) <= LastParameters(d, n + 1, t)
      BY <3>1, LastParametersChange
    <3>4. QED
      BY <1>2, <3>2, <3>3
  <2>2. \A t : LastParameters(c, n, t) = LastParameters(d, n, t)
    BY <1>2, <1>7
  <2>3. QED
    BY <2>1, <2>2
<1>10. NotNewer'
  <2>1. account' = account /\ bancor' = bancor /\ batch' = batch
    BY <1>2 DEF tables
  <2>2. /\ account \in [Keys -> 0..Absent] /\ bancor \in [DOMAIN Canon -> 0..Absent]
        /\ Absent \in Nat /\ batch.asOf \in Nat
    BY TableConstants DEF IInv, TypeOK, Absent
  <2>3. ASSUME NEW k \in Keys, account[k] # Absent PROVE account[k] <= LastChange(d, n + 1, Asked(k))
    <3>1. account[k] <= LastChange(c, n, Asked(k)) /\ account[k] \in 0..Absent
      BY <1>1, <2>2, <2>3 DEF IInv, NotNewer
    <3>2. QED
      BY <1>8, <2>2, <3>1
  <2>4. ASSUME NEW t \in DOMAIN Canon, bancor[t] # Absent
        PROVE  bancor[t] <= LastParameters(d, n + 1, Resolve(t))
    <3>1. bancor[t] <= LastParameters(c, n, Resolve(t)) /\ bancor[t] \in 0..Absent
      BY <1>1, <2>2, <2>4 DEF IInv, NotNewer
    <3>2. QED
      BY <1>9, <2>2, <3>1
  <2>5. ASSUME batch.left > 0
        PROVE  /\ batch.asOf <= n + 1
               /\ \A k \in Keys : account[k] # Absent => account[k] <= LastChange(d, batch.asOf, Asked(k))
    <3>1. batch.asOf \in 0..n
      BY <1>1, <1>2, <2>2, <2>5 DEF IInv, NotNewer
    <3>2. \A k \in Keys : account[k] # Absent => account[k] <= LastChange(c, batch.asOf, Asked(k))
      BY <1>1, <2>5 DEF IInv, NotNewer
    <3>3. QED
      BY <1>2, <1>7, <3>1, <3>2
  <2>6. QED
    BY <1>1, <1>3, <2>1, <2>3, <2>4, <2>5 DEF NotNewer
<1>11. QED
  BY <1>4, <1>5, <1>6, <1>10 DEF IInv

\* One request for the balances of all miners: they are the chain's present ones.
LEMMA FetchMinersHolds == ASSUME IInv, FetchMiners PROVE IInv' /\ RowsGrow
<1>1. /\ copying = 0 /\ batch' = [asOf |-> Len(chain), left |-> Len(Miners)]
      /\ UNCHANGED <<chain, synced, copied, copying, group, stop, done, tables, faults>>
  BY DEF FetchMiners, position
<1>2. chain \in Seq(Transactions) /\ Len(chain) \in Nat /\ Len(chain) <= MaxChain
  BY DEF IInv, TypeOK
<1>3. TypeOK'
  BY <1>1, <1>2, TableConstants DEF IInv, TypeOK, tables
<1>4. RowsGrow
  BY <1>1, SameRows
<1>5. Progress' /\ Recorded'
  BY <1>1, <1>2, <1>3, <1>4, ProgressStays
<1>6. NotNewer'
  BY <1>1, <1>2 DEF IInv, NotNewer, tables
<1>7. QED
  BY <1>3, <1>4, <1>5, <1>6 DEF IInv

\* A miner's row becomes what was fetched: nothing was copied meanwhile, so no row
\* is newer.
LEMMA WriteMinerHolds == ASSUME IInv, WriteMiner PROVE IInv' /\ RowsGrow
<1>1. /\ batch.left > 0 /\ batch.asOf <= Len(chain)
      /\ \A k \in Keys : account[k] # Absent =>
           account[k] <= LastChange(chain, batch.asOf, Asked(k))
  BY DEF WriteMiner, IInv, NotNewer
<1>2. /\ chain \in Seq(Transactions) /\ Len(chain) \in Nat /\ Len(chain) <= MaxChain
      /\ batch \in [asOf : 0..MaxChain, left : 0..Len(Miners)] /\ batch.asOf \in Nat
      /\ account \in [Keys -> 0..Absent] /\ bancor \in [DOMAIN Canon -> 0..Absent]
      /\ Absent = MaxChain + 1 /\ Absent \in Nat
  BY TableConstants DEF IInv, TypeOK, Absent
<1>3. PICK key : key = <<Miners[Len(Miners) + 1 - batch.left], Sys>>
  OBVIOUS
<1>4. PICK v : v = LastChange(chain, batch.asOf, key)
  OBVIOUS
<1>5. /\ UNCHANGED <<chain, synced, copied, copying, group, stop, done>>
      /\ UNCHANGED <<hashes, names, blocks, txs, txAddr, tokens, bancor>>
      /\ \/ /\ account' = [account EXCEPT ![key] = v]
            /\ batch' = [batch EXCEPT !.left = @ - 1] /\ faults' = faults
         \/ /\ batch' = [batch EXCEPT !.left = 0] /\ account' = account
            /\ faults < MaxFault /\ faults' = faults + 1
  BY <1>3, <1>4 DEF WriteMiner, Balance, LastChange, position
<1>6. Asked(key) = key
  BY <1>3 DEF Asked, Resolve
<1>7. v \in 0..Absent /\ v # Absent /\ v <= LastChange(chain, Len(chain), key)
  <2>1. batch.asOf \in 0..Len(chain)
    BY <1>1, <1>2
  <2>2. v \in 0..batch.asOf
    <3>1. PICK m \in Nat : m = batch.asOf
      BY <1>2
    <3>2. LastChange(chain, m, key) \in 0..m
      BY LastChanges
    <3>3. QED
      BY <1>4, <3>1, <3>2
  <2>3. v <= LastChange(chain, Len(chain), key)
    BY <1>2, <1>4, <2>1, LastChanges
  <2>4. PICK m, l : m = batch.asOf /\ l = Len(chain)
    OBVIOUS
  <2>5. m \in Nat /\ l \in Nat /\ m <= l /\ l <= MaxChain /\ Absent = MaxChain + 1 /\ v \in 0..m
    BY <1>1, <1>2, <2>2, <2>4
  <2>6. v \in 0..Absent /\ v # Absent
    BY <2>5, TableConstants
  <2>7. QED
    BY <2>3, <2>6
<1>8. account' \in [Keys -> 0..Absent]
  BY <1>2, <1>5, <1>7
<1>9. batch' \in [asOf : 0..MaxChain, left : 0..Len(Miners)] /\ batch'.asOf = batch.asOf
  BY <1>1, <1>2, <1>5, TableConstants
<1>10. faults' \in 0..MaxFault
  BY <1>5, TableConstants DEF IInv, TypeOK
<1>11. TypeOK'
  BY <1>5, <1>8, <1>9, <1>10 DEF IInv, TypeOK
<1>12. \A k \in Keys : account'[k] # account[k] => k = key /\ account'[k] = v
  BY <1>2, <1>5
<1>13. RowsGrow
  <2>1. ASSUME NEW k \in Keys, account[k] # Absent
        PROVE  account'[k] # Absent /\ account[k] <= account'[k]
    <3>1. CASE account'[k] = account[k]
      BY <1>2, <2>1, <3>1
    <3>2. CASE account'[k] # account[k]
      <4>1. k = key /\ account'[k] = v
        BY <1>12, <3>2
      <4>2. account[k] <= LastChange(chain, batch.asOf, key)
        BY <1>1, <1>6, <2>1, <4>1
      <4>3. QED
        BY <1>4, <1>7, <4>1, <4>2
    <3>3. QED
      BY <3>1, <3>2
  <2>2. \A t \in DOMAIN Canon : bancor'[t] = bancor[t] /\ bancor[t] <= bancor[t]
    BY <1>2, <1>5
  <2>3. QED
    BY <1>5, <2>1, <2>2 DEF RowsGrow
<1>14. Progress' /\ Recorded'
  <2>1. copying = 0
    BY <1>1 DEF IInv, Progress
  <2>2. \A i \in 1..Len(chain) : chain[i] = chain'[i]
    BY <1>5
  <2>3. copied' = copied /\ done' = done /\ copying' = copying
    BY <1>5
  <2>4. QED
    BY <1>11, <1>13, <2>1, <2>2, <2>3, ProgressStays
<1>15. NotNewer'
  <2>1. ASSUME NEW k \in Keys, account'[k] # Absent
        PROVE  /\ account'[k] <= LastChange(chain, Len(chain), Asked(k))
               /\ account'[k] <= LastChange(chain, batch.asOf, Asked(k))
    <3>1. CASE account'[k] = account[k]
      BY <1>1, <2>1, <3>1 DEF IInv, NotNewer
    <3>2. CASE account'[k] # account[k]
      BY <1>2, <1>4, <1>6, <1>7, <1>12, <3>2
    <3>3. QED
      BY <3>1, <3>2
  <2>2. \A t \in DOMAIN Canon : bancor[t] # Absent =>
          bancor[t] <= LastParameters(chain, Len(chain), Resolve(t))
    BY DEF IInv, NotNewer
  <2>3. QED
    BY <1>1, <1>5, <1>9, <2>1, <2>2 DEF NotNewer
<1>16. QED
  BY <1>11, <1>13, <1>14, <1>15 DEF IInv

\* A block is begun, or given up for the next one or for none, and what was fetched of
\* the miners may be: no row changes.
LEMMA BegunHolds ==
    ASSUME IInv, UNCHANGED <<chain, synced, copied, tables>>, TypeOK', done' = 0,
           batch' = batch \/ ~(batch'.left > 0), copying' # 0 => batch'.left = 0
    PROVE  IInv' /\ RowsGrow
<1>1. RowsGrow
  BY SameRows
<1>2. Progress' /\ Recorded'
  BY <1>1, ProgressStays
<1>3. NotNewer'
  BY DEF IInv, NotNewer, tables
<1>4. QED
  BY <1>1, <1>2, <1>3 DEF IInv

\* A round begins behind the recorded block.
LEMMA LoopTaskHolds == ASSUME IInv, LoopTask PROVE IInv' /\ RowsGrow
<1>1. PICK lib \in (synced + 1)..Len(chain) :
        /\ copying' = synced + 1 /\ stop' = lib
        /\ group' = Lesser(IF synced = 0 /\ nBatch > 1 THEN nBatch - 1 ELSE synced + nBatch, lib)
  BY DEF LoopTask
<1>2. /\ copying = 0 /\ batch.left = 0
      /\ UNCHANGED <<chain, synced, copied, done, tables, batch, faults>>
  BY DEF LoopTask
<1>3. done' = 0
  BY <1>2 DEF IInv, Progress
<1>4. PICK end : end = IF synced = 0 /\ nBatch > 1 THEN nBatch - 1 ELSE synced + nBatch
  OBVIOUS
<1>5. /\ synced \in Nat /\ nBatch \in Nat \ {0} /\ Len(chain) \in Nat
      /\ lib \in Nat /\ lib > synced /\ lib <= Len(chain)
  BY TableConstants DEF IInv, TypeOK
<1>6. end \in Nat /\ end > synced
  BY <1>4, <1>5
<1>7. group' \in 0..stop' /\ group' > synced /\ group' \in Nat
  BY <1>1, <1>4, <1>5, <1>6 DEF Lesser
<1>8. TypeOK'
  BY <1>1, <1>2, <1>3, <1>5, <1>7 DEF IInv, TypeOK, tables
<1>9. QED
  BY <1>2, <1>3, <1>8, BegunHolds

\* Where the next group begins and ends.
LEMMA NextGroupInRange ==
    ASSUME TypeOK, NextGroup, copying # 0
    PROVE  /\ group' \in 0..stop' /\ copying' \in 0..group' /\ stop' \in 0..Len(chain)
           /\ copying' = 0 \/ copying' > group
<1>1. /\ group \in Nat /\ stop \in Nat /\ group <= stop /\ stop <= Len(chain)
      /\ Len(chain) \in Nat /\ nBatch \in Nat \ {0}
  BY TableConstants DEF TypeOK
<1>2. CASE group < stop
  <2>1. copying' = group + 1 /\ group' = Lesser(group + nBatch, stop) /\ stop' = stop
    BY <1>1, <1>2 DEF NextGroup
  <2>2. group' \in Nat /\ group' <= stop /\ group' > group
    BY <1>1, <1>2, <2>1 DEF Lesser
  <2>3. QED
    BY <1>1, <2>1, <2>2
<1>3. CASE group = stop
  BY <1>1, <1>3 DEF NextGroup, RangeEnds
<1>4. QED
  BY <1>2, <1>3 DEF NextGroup

\* Behind the block in hand no block is recorded.
LEMMA BehindRecorded ==
    ASSUME TypeOK, copying # 0
    PROVE  /\ copying \in 1..group /\ group \in Nat /\ synced < copying /\ synced \in Nat
           /\ copying \in 1..Len(chain) /\ stop \in 0..Len(chain) /\ Len(chain) \in Nat
           /\ copying \in Nat /\ group \in 0..stop
BY DEF TypeOK

\* All the statements of a block were made: it is recorded.
LEMMA SetCurrentHeightHolds == ASSUME IInv, SetCurrentHeight PROVE IInv' /\ RowsGrow
<1>1. PICK n : n = copying
  OBVIOUS
<1>2. PICK tx, list : tx = chain[n] /\ list = Copies(n, tx)
  OBVIOUS
<1>3. /\ n # 0 /\ synced' = n /\ copied' = copied \cup {n} /\ done' = 0
      /\ UNCHANGED <<chain, tables, batch, faults>>
  BY <1>1 DEF SetCurrentHeight
<1>4. done = Len(list) /\ n \in 1..Len(chain) /\ chain \in Seq(Transactions)
  BY <1>1, <1>2, <1>3, BlockInHand DEF SetCurrentHeight, IInv, TypeOK
<1>5. /\ n \in 1..group /\ group \in Nat /\ synced < n /\ synced \in Nat /\ n \in Nat
      /\ stop \in 0..Len(chain) /\ Len(chain) \in Nat /\ group \in 0..stop
      /\ copied \subseteq 1..synced
  BY <1>1, <1>3, BehindRecorded DEF IInv, TypeOK
<1>6. /\ group' \in 0..stop' /\ copying' \in 0..group' /\ stop' \in 0..Len(chain)
      /\ copying' = 0 \/ copying' > n
  <2>1. CASE n < group /\ copying' = n + 1 /\ group' = group /\ stop' = stop
    BY <1>5, <2>1
  <2>2. CASE n = group /\ NextGroup
    BY <1>1, <1>3, <1>5, <2>2, NextGroupInRange DEF IInv
  <2>3. QED
    BY <1>1, <2>1, <2>2 DEF SetCurrentHeight
<1>7. TypeOK'
  <2>1. copied' \subseteq 1..synced'
    BY <1>3, <1>5
  <2>2. synced' \in 0..Len(chain)
    BY <1>3, <1>4, <1>5
  <2>3. copying' # 0 => copying' > synced'
    BY <1>3, <1>6
  <2>4. QED
    BY <1>3, <1>6, <2>1, <2>2, <2>3 DEF IInv, TypeOK, tables
<1>8. RowsGrow
  BY <1>3, SameRows
<1>9. PICK old : old = copied
  OBVIOUS
<1>10. \A i \in 1..Len(chain) : chain[i] = chain'[i]
  BY <1>3
<1>11. \A m \in old : \A s \in Items(Copies(m, chain'[m])) : Reached(s, m)'
  BY <1>7, <1>8, <1>9, <1>10, RecordedStays
<1>12. \A s \in Items(Copies(n, chain'[n])) : Reached(s, n)'
  <2>1. \A i \in 1..Len(list) : Reached(list[i], n)
    BY <1>1, <1>2, <1>3, <1>4 DEF IInv, Progress
  <2>2. \A s \in Items(list) : Reached(s, n)
    BY <2>1 DEF Items
  <2>3. ASSUME NEW s \in Items(list) PROVE Reached(s, n)'
    <3>1. s \in AllowedFor(n, tx) /\ tx \in Transactions /\ n \in Nat
      BY <1>2, <1>4, BlockOfChain
    <3>2. \A i \in 1..n : chain[i] = chain'[i]
      BY <1>3
    <3>3. QED
      BY <1>7, <1>8, <2>2, <3>1, <3>2, ReachedStays DEF IInv
  <2>4. QED
    BY <1>2, <1>3, <2>3
<1>13. Recorded'
  BY <1>3, <1>9, <1>11, <1>12 DEF Recorded
<1>14. Progress'
  <2>1. PICK m : m = copying'
    OBVIOUS
  <2>2. ASSUME m # 0 PROVE 0 <= Len(Copies(m, chain[m]))
    <3>1. m \in 1..Len(chain)
      BY <1>5, <1>6, <2>1, <2>2
    <3>2. Len(Copies(m, chain[m])) \in Nat
      BY <1>4, <3>1, BlockOfChain
    <3>3. QED
      BY <3>2
  <2>3. batch.left = 0
    BY <1>1, <1>3 DEF IInv, Progress
  <2>4. QED
    BY <1>3, <2>1, <2>2, <2>3 DEF Progress
<1>15. NotNewer'
  BY <1>3 DEF IInv, NotNewer, tables
<1>16. QED
  BY <1>7, <1>8, <1>13, <1>14, <1>15 DEF IInv

\* A failure leaves the group, or the range, behind.
LEMMA FailsHold == ASSUME IInv, BlockFails \/ RangeFails PROVE IInv' /\ RowsGrow
<1>1. /\ UNCHANGED <<chain, synced, copied, tables, batch>> /\ done' = 0
      /\ faults' = faults + 1 /\ faults < MaxFault /\ copying # 0
  BY DEF BlockFails, RangeFails
<1>2. /\ copying \in 1..group /\ group \in Nat /\ synced < copying /\ synced \in Nat
      /\ stop \in 0..Len(chain) /\ Len(chain) \in Nat /\ copying \in Nat
  BY <1>1, BehindRecorded DEF IInv
<1>3. /\ group' \in 0..stop' /\ copying' \in 0..group' /\ stop' \in 0..Len(chain)
      /\ copying' = 0 \/ copying' > group
  <2>1. CASE BlockFails
    BY <1>1, <2>1, NextGroupInRange DEF BlockFails, IInv
  <2>2. CASE RangeFails
    BY <1>2, <2>2 DEF RangeFails, RangeEnds
  <2>3. QED
    BY <2>1, <2>2
<1>4. copying' # 0 => copying' > synced
  BY <1>2, <1>3
<1>5. faults' \in 0..MaxFault
  BY <1>1, TableConstants DEF IInv, TypeOK
<1>6. TypeOK'
  BY <1>1, <1>3, <1>4, <1>5 DEF IInv, TypeOK, tables
<1>7. batch.left = 0
  BY <1>1 DEF IInv, Progress
<1>8. QED
  BY <1>1, <1>6, <1>7, BegunHolds

\* Every step of the copying, and of the chain.
LEMMA StepHolds == ASSUME IInv, [Next]_vars PROVE IInv' /\ RowsGrow
<1>1. ASSUME NEW tx \in Transactions, Execute(tx) PROVE IInv' /\ RowsGrow
  BY <1>1, ExecuteHolds
<1>2. CASE LoopTask
  BY <1>2, LoopTaskHolds
<1>3. CASE Statement
  BY <1>3, StatementHolds
<1>4. CASE SetCurrentHeight
  BY <1>4, SetCurrentHeightHolds
<1>5. CASE BlockFails \/ RangeFails
  BY <1>5, FailsHold
<1>6. CASE FetchMiners
  BY <1>6, FetchMinersHolds
<1>7. CASE WriteMiner
  BY <1>7, WriteMinerHolds
<1>8. CASE UNCHANGED vars
  <2>1. UNCHANGED <<chain, position, tables, batch, faults>>
    BY <1>8 DEF vars
  <2>2. TypeOK' /\ RowsGrow
    BY <2>1, SameRows DEF IInv, TypeOK, position, tables
  <2>3. Progress' /\ Recorded'
    BY <2>1, <2>2, ProgressStays DEF position, IInv, Progress
  <2>4. NotNewer'
    BY <2>1 DEF IInv, NotNewer, tables
  <2>5. QED
    BY <2>2, <2>3, <2>4 DEF IInv
<1>9. QED
  BY <1>1, <1>2, <1>3, <1>4, <1>5, <1>6, <1>7, <1>8 DEF Next

\* A step of a client leaves the tables alone, but for one that ends the process:
\* the block in hand is given up.
LEMMA ReadStepHolds ==
    ASSUME IInv, [ReadNext]_readVars
    PROVE  IInv' /\ RowsGrow
<1>1. CASE Copy
  BY <1>1, StepHolds DEF Copy
<1>2. CASE Restarted
  <2>1. /\ UNCHANGED <<chain, synced, copied, tables, faults>> /\ done' = 0
        /\ copying' = 0 /\ group' = 0 /\ stop' = 0 /\ batch' = [batch EXCEPT !.left = 0]
    BY <1>2 DEF Restarted, RangeEnds
  <2>2. /\ batch' \in [asOf : 0..MaxChain, left : 0..Len(Miners)] /\ ~(batch'.left > 0)
    BY <2>1, TableConstants DEF IInv, TypeOK
  <2>3. TypeOK'
    BY <2>1, <2>2 DEF IInv, TypeOK, tables
  <2>4. QED
    BY <2>1, <2>2, <2>3, BegunHolds
<1>3. CASE Serve \/ Close \/ (\E q \in Question : Ask(q)) \/ UNCHANGED readVars
  <2>1. UNCHANGED vars
    BY <1>3 DEF Serve, FirstQuery, LatestBlock, CountQuery, Becomes, Close, Ask, readVars
  <2>2. QED
    BY <2>1, StepHolds
<1>4. QED
  BY <1>1, <1>2, <1>3 DEF ReadNext

----------------------------------------------------------------------------
\* Keeping up

\* Whatever the handler calls a token, it asks the chain for what the transaction
\* changed.
LEMMA AsksForChanges ==
    ASSUME NEW tx, WellFormed(tx)
    PROVE  /\ \A k \in Changes(tx) : Asked(RowOf(tx, k)) = k
           /\ \A t : ChangesParameters(tx, t) =>
                Resolve(TokenName(tx)) = t /\ TokenName(tx) \in DOMAIN Canon
<1>1. CASE tx.method \in {"createToken", "createBancorToken", "buyBancorToken", "sellBancorToken",
                         "transferTokenTo", "transferBancorTokenTo"}
  <2>1. PICK t, u : u = Canon[tx.token] /\ t = TokenName(tx)
    OBVIOUS
  <2>2. u \in DOMAIN Canon /\ t \in DOMAIN Canon /\ Canon[t] = u
    BY <1>1, <2>1, TableConstants DEF WellFormed, TokenName
  <2>3. Resolve(t) = u /\ Resolve(Sys) = Sys
    BY <2>2, TableConstants DEF Resolve
  <2>4. ASSUME NEW k \in Changes(tx) PROVE Asked(RowOf(tx, k)) = k
    <3>1. k = <<k[1], k[2]>> /\ k[2] \in {Sys, u}
      BY <1>1, <2>1 DEF Changes, Parties
    <3>2. RowOf(tx, k) = <<k[1], IF k[2] = Sys THEN Sys ELSE t>>
      BY <2>1, <3>1 DEF RowOf
    <3>3. QED
      BY <2>3, <3>1, <3>2 DEF Asked
  <2>5. QED
    BY <2>1, <2>2, <2>3, <2>4 DEF ChangesParameters
<1>2. CASE tx.method \notin {"createToken", "createBancorToken", "buyBancorToken", "sellBancorToken",
                            "transferTokenTo", "transferBancorTokenTo"}
  <2>1. Changes(tx) \subseteq Parties(tx) \X {Sys} /\ \A t : ~ChangesParameters(tx, t)
    BY <1>2 DEF Changes, ChangesParameters, Parties
  <2>2. \A k \in Changes(tx) : Asked(RowOf(tx, k)) = k
    BY <2>1 DEF Asked, Resolve, RowOf
  <2>3. QED
    BY <2>1, <2>2
<1>3. QED
  BY <1>1, <1>2

\* A recorded block's transaction is found, and of what it changed every row is there
\* and no older.
LEMMA RecordedKeeps ==
    ASSUME IInv, NEW n \in copied
    PROVE  /\ \A k \in Changes(chain[n]) :
                LET row == RowOf(chain[n], k) IN account[row] # Absent /\ account[row] >= n
           /\ (\E t \in DOMAIN Canon : ChangesParameters(chain[n], t)) =>
                LET name == TokenName(chain[n]) IN bancor[name] # Absent /\ bancor[name] >= n
           /\ n \in blocks \cap txs /\ \A a \in Parties(chain[n]) : <<n, a>> \in txAddr
<1>1. PICK c, tx : c = chain /\ tx = c[n]
  OBVIOUS
<1>2. PICK list : list = Copies(n, tx)
  OBVIOUS
<1>3. n \in 1..Len(c) /\ c \in Seq(Transactions) /\ n \in Nat /\ n > 0 /\ WellFormed(tx)
  BY <1>1, CopiedOfChain, BlockOfChain DEF IInv, TypeOK
<1>4. \A s \in Items(list) : Reached(s, n)
  BY <1>1, <1>2 DEF IInv, Recorded
<1>5. /\ Items(Handler(tx)) \subseteq Items(list)
      /\ St("blocks", n) \in Items(list) /\ St("txs", n) \in Items(list)
  BY <1>2, <1>3, CopiesCover
<1>6. /\ Sts("txAddr", Parties(tx)) \subseteq Items(list)
      /\ Sts("account", Refreshed(tx)) \subseteq Items(list)
      /\ \A t : ChangesParameters(tx, t) => St("bancor", TokenName(tx)) \in Items(list)
  BY <1>3, <1>5, HandlerCovers DEF Covers
<1>7. ASSUME NEW k \in Changes(tx)
      PROVE  account[RowOf(tx, k)] # Absent /\ account[RowOf(tx, k)] >= n
  <2>1. PICK row, r : row = RowOf(tx, k) /\ r = St("account", row)
    OBVIOUS
  <2>2. r \in Items(list) /\ r.table = "account" /\ r.key = row
    BY <1>6, <2>1 DEF Refreshed, Sts, St
  <2>3. account[row] # Absent /\ LastChange(c, n, Asked(row)) <= account[row]
    BY <1>1, <1>4, <2>2 DEF Reached
  <2>4. Asked(row) = k
    BY <1>3, <2>1, AsksForChanges
  <2>5. LastChange(c, n, k) = n
    BY <1>1, <1>3, LastChanges
  <2>6. n <= account[row]
    BY <2>3, <2>4, <2>5
  <2>7. QED
    BY <2>1, <2>3, <2>6
<1>8. ASSUME NEW t \in DOMAIN Canon, ChangesParameters(tx, t)
      PROVE  bancor[TokenName(tx)] # Absent /\ bancor[TokenName(tx)] >= n
  <2>1. PICK name, r : name = TokenName(tx) /\ r = St("bancor", name)
    OBVIOUS
  <2>2. r \in Items(list) /\ r.table = "bancor" /\ r.key = name
    BY <1>6, <1>8, <2>1 DEF St
  <2>3. bancor[name] # Absent /\ LastParameters(c, n, Resolve(name)) <= bancor[name]
    BY <1>1, <1>4, <2>2 DEF Reached
  <2>4. Resolve(name) = t
    BY <1>3, <1>8, <2>1, AsksForChanges
  <2>5. LastParameters(c, n, t) = n
    BY <1>1, <1>3, <1>8, LastParametersChange
  <2>6. n <= bancor[name]
    BY <2>3, <2>4, <2>5
  <2>7. QED
    BY <2>1, <2>3, <2>6
<1>9. n \in blocks \cap txs
  BY <1>4, <1>5 DEF Reached, St
<1>10. ASSUME NEW a \in Parties(tx) PROVE <<n, a>> \in txAddr
  <2>1. PICK r : r = St("txAddr", a)
    OBVIOUS
  <2>2. r \in Items(list) /\ r.table = "txAddr" /\ r.key = a
    BY <1>6, <2>1 DEF Sts, St
  <2>3. QED
    BY <1>4, <2>2 DEF Reached
<1>11. QED
  BY <1>1, <1>7, <1>8, <1>9, <1>10

\* So the tables keep up.
LEMMA TablesFollow ==
    ASSUME IInv
    PROVE  BalancesKeepUp /\ ParametersKeepUp /\ FoundByEveryParty
<1>1. BalancesKeepUp
  BY RecordedKeeps DEF BalancesKeepUp
<1>2. ParametersKeepUp
  BY RecordedKeeps DEF ParametersKeepUp
<1>3. FoundByEveryParty
  BY RecordedKeeps DEF FoundByEveryParty
<1>4. QED
  BY <1>1, <1>2, <1>3

----------------------------------------------------------------------------
\* The newest of a set of numbers

Above(S, n) == {m \in S : m > n}

\* What is above a greater number is above a smaller one.
LEMMA AboveWithin ==
    ASSUME NEW S \in SUBSET Nat, NEW T \in SUBSET Nat, S \subseteq T,
           NEW m \in T, NEW n \in S, m < n
    PROVE  /\ Above(S, n) \subseteq S /\ Above(T, m) \subseteq T
           /\ n \notin Above(S, n) /\ Above(S, n) \cup {n} \subseteq Above(T, m)
<1>1. m \in Nat /\ n \in Nat
  OBVIOUS
<1>2. ASSUME NEW k \in Above(S, n) PROVE k \in Above(T, m)
  <2>1. k \in S /\ k > n
    BY DEF Above
  <2>2. k \in Nat
    BY <2>1
  <2>3. k > m
    BY <1>1, <2>1, <2>2
  <2>4. QED
    BY <2>1, <2>3 DEF Above
<1>3. n \notin Above(S, n)
  BY <1>1 DEF Above
<1>4. n \in Above(T, m)
  BY <1>1 DEF Above
<1>5. Above(S, n) \subseteq S /\ Above(T, m) \subseteq T
  BY DEF Above
<1>6. QED
  BY <1>2, <1>3, <1>4, <1>5

\* Fewer numbers are above a greater one.
LEMMA AboveShrinks ==
    ASSUME NEW S \in SUBSET Nat, IsFiniteSet(S), NEW m \in S, NEW n \in S, m < n
    PROVE  /\ Cardinality(Above(S, m)) \in Nat /\ Cardinality(Above(S, n)) \in Nat
           /\ Cardinality(Above(S, n)) < Cardinality(Above(S, m))
<1>1. PICK a, b : a = Above(S, n) /\ b = Above(S, m)
  OBVIOUS
<1>2. a \subseteq S /\ b \subseteq S /\ n \notin a /\ a \cup {n} \subseteq b
  BY <1>1, AboveWithin
<1>3. IsFiniteSet(a) /\ IsFiniteSet(b)
  BY <1>2, FS_Subset
<1>4. Cardinality(a \cup {n}) = Cardinality(a) + 1
  BY <1>2, <1>3, FS_AddElement
<1>5. a \cup {n} \subseteq b
  BY <1>2
<1>6. Cardinality(a \cup {n}) <= Cardinality(b)
  BY <1>3, <1>5, FS_Subset
<1>7. Cardinality(a) \in Nat /\ Cardinality(b) \in Nat
  BY <1>3, FS_CardinalityType
<1>8. Cardinality(a) < Cardinality(b)
  BY <1>4, <1>6, <1>7
<1>9. QED
  BY <1>1, <1>7, <1>8, Zenon

\* There is an i-th newest.
LEMMA NewestExists ==
    ASSUME NEW S \in SUBSET Nat, IsFiniteSet(S), NEW i \in 1..Cardinality(S)
    PROVE  \E n \in S : Cardinality(Above(S, n)) = i - 1
<1> DEFINE C(n) == Cardinality(Above(S, n))
           Far  == {C(n) : n \in {m \in S : C(m) >= i - 1}}
<1>1. Cardinality(S) \in Nat /\ \A n \in S : IsFiniteSet(Above(S, n)) /\ C(n) \in Nat
  <2>1. \A n \in S : Above(S, n) \in SUBSET S
    BY DEF Above
  <2>2. \A n \in S : IsFiniteSet(Above(S, n))
    BY <2>1, FS_Subset
  <2>3. \A n \in S : Cardinality(Above(S, n)) \in Nat
    BY <2>2, FS_CardinalityType, Zenon
  <2>4. Cardinality(S) \in Nat
    BY FS_CardinalityType
  <2>5. QED
    BY <2>2, <2>3, <2>4
<1>2. S # {}
  BY FS_EmptySet
<1>3. PICK n \in S : \A m \in S : n <= m
  BY <1>2, F!LeastNat
<1>4. C(n) >= i - 1
  <2>1. Above(S, n) = S \ {n}
    <3>1. n \in Nat /\ \A m \in S : m \in Nat /\ (m > n <=> m # n)
      BY <1>3
    <3>2. QED
      BY <3>1 DEF Above
  <2>2. C(n) = Cardinality(S) - 1
    BY <2>1, FS_RemoveElement
  <2>3. QED
    BY <1>1, <2>2
<1>5. Far \subseteq Nat /\ Far # {}
  BY <1>1, <1>4
<1>6. PICK k \in Far : \A f \in Far : k <= f
  BY <1>5, F!LeastNat
<1>7. PICK p \in S : k = C(p) /\ C(p) >= i - 1
  OBVIOUS
<1>8. CASE C(p) # i - 1
  <2>1. Above(S, p) # {} /\ Above(S, p) \subseteq Nat /\ Above(S, p) \subseteq S
    <3>1. C(p) # 0
      BY <1>1, <1>7, <1>8
    <3>2. QED
      BY <3>1, FS_EmptySet DEF Above
  <2>2. PICK q \in Above(S, p) : \A r \in Above(S, p) : q <= r
    BY <2>1, F!LeastNat
  <2>3. q \in S /\ q \notin Above(S, q) /\ Above(S, p) = Above(S, q) \cup {q}
    <3>1. q \in S /\ p < q
      BY <2>1, <2>2 DEF Above
    <3>2. q \notin Above(S, q) /\ Above(S, q) \cup {q} \subseteq Above(S, p)
      BY <3>1, AboveWithin
    <3>3. ASSUME NEW m \in Above(S, p), m # q PROVE m \in Above(S, q)
      <4>1. m \in S /\ q <= m /\ m \in Nat /\ q \in Nat
        BY <2>1, <2>2
      <4>2. m > q
        BY <3>3, <4>1
      <4>3. QED
        BY <4>1, <4>2 DEF Above
    <3>4. QED
      BY <3>1, <3>2, <3>3
  <2>4. C(p) = C(q) + 1
    BY <1>1, <2>3, FS_AddElement
  <2>5. C(q) >= i - 1 /\ C(q) < C(p)
    BY <1>1, <1>7, <1>8, <2>3, <2>4
  <2>6. C(q) \in Far
    BY <2>3, <2>5
  <2>7. k <= C(q)
    BY <1>6, <2>6
  <2>8. QED
    BY <1>1, <1>7, <2>3, <2>5, <2>7
<1>9. QED
  BY <1>7, <1>8

\* Newest lists every member of a set once, the i-th below i - 1 others.
LEMMA NewestRows ==
    ASSUME NEW S \in SUBSET Nat, IsFiniteSet(S)
    PROVE  /\ Cardinality(S) \in Nat /\ Newest(S) \in Seq(S) /\ Len(Newest(S)) = Cardinality(S)
           /\ \A i \in 1..Cardinality(S) :
                 Newest(S)[i] \in S /\ Cardinality(Above(S, Newest(S)[i])) = i - 1
           /\ \A m \in S : /\ Cardinality(Above(S, m)) + 1 \in 1..Cardinality(S)
                           /\ Newest(S)[Cardinality(Above(S, m)) + 1] = m
<1> DEFINE C(n) == Cardinality(Above(S, n))
<1>1. PICK k, rows : k = Cardinality(S) /\ rows = Newest(S)
  OBVIOUS
<1>2. k \in Nat
  BY <1>1, FS_CardinalityType
<1>3. rows = [i \in 1..k |-> CHOOSE n \in S : C(n) = i - 1]
  BY <1>1 DEF Newest, Above
<1>4. ASSUME NEW i \in 1..k PROVE rows[i] \in S /\ C(rows[i]) = i - 1
  <2>1. \E n \in S : C(n) = i - 1
    BY <1>1, NewestExists
  <2>2. rows[i] = CHOOSE n \in S : C(n) = i - 1
    BY <1>3
  <2>3. QED
    BY <2>1, <2>2
<1>5. rows \in Seq(S) /\ Len(rows) = k
  BY <1>2, <1>3, <1>4
<1>6. ASSUME NEW m \in S PROVE C(m) + 1 \in 1..k /\ rows[C(m) + 1] = m
  <2>1. Above(S, m) \subseteq S \ {m}
    BY DEF Above
  <2>2. IsFiniteSet(S \ {m}) /\ Cardinality(S \ {m}) = k - 1
    BY <1>1, FS_RemoveElement
  <2>3. C(m) <= k - 1 /\ C(m) \in Nat
    BY <2>1, <2>2, FS_Subset, FS_CardinalityType
  <2>4. C(m) + 1 \in 1..k
    BY <1>2, <2>3
  <2>5. PICK x : x = rows[C(m) + 1]
    OBVIOUS
  <2>6. x \in S /\ C(x) = C(m)
    BY <1>4, <2>3, <2>4, <2>5
  <2>7. ~(x < m) /\ ~(m < x)
    BY <2>6, AboveShrinks
  <2>8. x = m
    BY <2>6, <2>7
  <2>9. QED
    BY <2>4, <2>5, <2>8
<1>7. QED
  BY <1>1, <1>2, <1>4, <1>5, <1>6

\* The i-th newest of more is not older.
LEMMA NewestAhead ==
    ASSUME NEW T \in SUBSET Nat, IsFiniteSet(T), NEW S \in SUBSET T, NEW i \in 1..Cardinality(S)
    PROVE  /\ IsFiniteSet(S) /\ Cardinality(S) \in Nat /\ Cardinality(T) \in Nat
           /\ Cardinality(S) <= Cardinality(T) /\ i \in 1..Cardinality(T)
           /\ Newest(S)[i] \in S /\ Newest(T)[i] \in T /\ Newest(T)[i] >= Newest(S)[i]
<1>1. /\ IsFiniteSet(S) /\ Cardinality(S) \in Nat /\ Cardinality(T) \in Nat
      /\ Cardinality(S) <= Cardinality(T)
  BY FS_Subset, FS_CardinalityType
<1>2. i \in 1..Cardinality(T) /\ S \in SUBSET Nat
  BY <1>1
<1>3. PICK x, y : x = Newest(T)[i] /\ y = Newest(S)[i]
  OBVIOUS
<1>4. x \in T /\ Cardinality(Above(T, x)) = i - 1
  BY <1>2, <1>3, NewestRows
<1>5. y \in S /\ Cardinality(Above(S, y)) = i - 1
  BY <1>1, <1>2, <1>3, NewestRows
<1>6. CASE x < y
  <2>1. PICK a : a = Above(S, y)
    OBVIOUS
  <2>2. a \subseteq S /\ y \notin a /\ a \cup {y} \subseteq Above(T, x)
    BY <1>2, <1>4, <1>5, <1>6, <2>1, AboveWithin
  <2>3. IsFiniteSet(a) /\ Cardinality(a \cup {y}) = i
    <3>1. IsFiniteSet(a)
      BY <1>1, <2>2, FS_Subset
    <3>2. Cardinality(a \cup {y}) = Cardinality(a) + 1
      BY <2>2, <3>1, FS_AddElement
    <3>3. QED
      BY <1>1, <1>5, <2>1, <3>1, <3>2
  <2>4. Above(T, x) \in SUBSET T
    BY DEF Above
  <2>5. IsFiniteSet(Above(T, x))
    BY <2>4, FS_Subset
  <2>6. Cardinality(a \cup {y}) <= Cardinality(Above(T, x))
    BY <2>2, <2>5, FS_Subset
  <2>7. QED
    BY <1>1, <1>4, <2>3, <2>6
<1>7. x \in Nat /\ y \in Nat
  BY <1>2, <1>4, <1>5
<1>8. QED
  BY <1>1, <1>2, <1>3, <1>4, <1>5, <1>6, <1>7

\* A page of rows: the first one has the first of them, each lies within them.
LEMMA PageRows ==
    ASSUME NEW S \in SUBSET Nat, NEW rows \in Seq(S), NEW index \in Nat, NEW size \in Nat,
           NEW p, p = Page(rows, index, size)
    PROVE  /\ p \in Seq(S) /\ Len(p) \in Nat
           /\ index = 0 => \A i \in 1..Len(rows) : i <= size => i <= Len(p) /\ p[i] = rows[i]
           /\ p # <<>> => index * size + Len(p) <= Len(rows)
<1>1. PICK k, n : k = index * size /\ n = Len(rows)
  OBVIOUS
<1>2. k \in Nat /\ n \in Nat /\ (index = 0 => k = 0)
  BY <1>1
<1>3. PICK last : last = IF k + 1 + size - 1 > n THEN n ELSE k + 1 + size - 1
  OBVIOUS
<1>4. last \in Nat /\ last <= n /\ last <= k + size /\ (last = n \/ last = k + size)
  BY <1>2, <1>3
<1>5. p = SubSeq(rows, k + 1, last)
  BY <1>1, <1>3 DEF Page
<1>6. \A i \in (k + 1)..last : rows[i] \in S
  BY <1>1, <1>2, <1>4
<1>7. k + 1 \in Int /\ last \in Int
  BY <1>2, <1>4
<1>8. /\ p \in Seq(S)
      /\ Len(p) = IF k + 1 <= last THEN last - (k + 1) + 1 ELSE 0
      /\ \A i \in 1..(last - (k + 1) + 1) : p[i] = rows[k + 1 + i - 1]
  BY <1>5, <1>6, <1>7, SubSeqProperties
<1>9. ASSUME index = 0, NEW i \in 1..n, i <= size PROVE i <= Len(p) /\ p[i] = rows[i]
  <2>1. k = 0 /\ i <= last
    BY <1>2, <1>4, <1>9
  <2>2. i \in 1..(last - (k + 1) + 1) /\ k + 1 + i - 1 = i /\ k + 1 <= last
    BY <1>4, <2>1
  <2>3. p[i] = rows[i]
    BY <1>8, <2>2
  <2>4. QED
    BY <1>4, <1>8, <2>1, <2>2, <2>3
<1>10. ASSUME p # <<>> PROVE k + Len(p) <= n
  <2>1. Len(p) # 0
    BY <1>8, <1>10
  <2>2. QED
    BY <1>2, <1>4, <1>8, <2>1
<1>11. Len(p) \in Nat
  BY <1>8
<1>12. QED
  BY <1>1, <1>8, <1>9, <1>10, <1>11

\* The i-th row is the i-th of the list, or a newer one.
Ahead(rows, size, old) == \A i \in 1..Len(old) : i <= size => i <= Len(rows) /\ rows[i] >= old[i]

\* All rows, and their first page, are ahead of what was there before.
LEMMA NewestAreAhead ==
    ASSUME NEW T \in SUBSET Nat, IsFiniteSet(T), NEW S \in SUBSET T, NEW size
    PROVE  /\ Ahead(Newest(T), size, Newest(S))
           /\ size \in Nat => Ahead(Page(Newest(T), 0, size), size, Newest(S))
<1>1. PICK old, rows, p : old = Newest(S) /\ rows = Newest(T) /\ p = Page(rows, 0, size)
  OBVIOUS
<1>2. IsFiniteSet(S) /\ S \in SUBSET Nat
  BY FS_Subset
<1>3. /\ Len(old) = Cardinality(S) /\ Cardinality(S) \in Nat
      /\ rows \in Seq(T) /\ Len(rows) = Cardinality(T) /\ Cardinality(T) \in Nat
  BY <1>1, <1>2, NewestRows
<1>4. ASSUME NEW i \in 1..Len(old) PROVE i <= Len(rows) /\ rows[i] >= old[i] /\ i \in 1..Len(rows)
  <2>1. i \in 1..Cardinality(S)
    BY <1>3
  <2>2. i \in 1..Cardinality(T) /\ rows[i] >= old[i]
    BY <1>1, <2>1, NewestAhead
  <2>3. QED
    BY <1>3, <2>2
<1>5. Ahead(rows, size, old)
  BY <1>4 DEF Ahead
<1>6. ASSUME size \in Nat PROVE Ahead(p, size, old)
  <2>1. \A i \in 1..Len(rows) : i <= size => i <= Len(p) /\ p[i] = rows[i]
    BY <1>1, <1>3, <1>6, PageRows
  <2>2. QED
    BY <1>4, <2>1 DEF Ahead
<1>7. QED
  BY <1>1, <1>5, <1>6

\* The page of a question about the newest of T.
LEMMA LatestRows ==
    ASSUME NEW q \in Question, NEW T \in SUBSET Nat, IsFiniteSet(T), NEW S \in SUBSET T,
           NEW data, data = Latest(q, T)
    PROVE  /\ Len(data) \in Nat
           /\ Index(q.page) = 0 => Ahead(data, Size(q), Newest(S))
           /\ data # <<>> => Index(q.page) * (IF q.size = None THEN 0 ELSE q.size) + Len(data)
                               <= Cardinality(T)
<1>1. PICK rows, index, size : rows = Newest(T) /\ index = Index(q.page) /\ size = q.size
  OBVIOUS
<1>2. index \in Nat /\ (size \in Nat \/ size = None)
  BY <1>1, QuestionsAsked DEF Index
<1>3. rows \in Seq(T) /\ Len(rows) = Cardinality(T) /\ Cardinality(T) \in Nat
  BY <1>1, NewestRows
<1>4. CASE size = None
  <2>1. data = rows
    BY <1>1, <1>4 DEF Latest
  <2>2. Ahead(data, Size(q), Newest(S))
    BY <1>1, <2>1, NewestAreAhead
  <2>3. index * 0 + Len(data) = Len(data)
    BY <1>2, <1>3, <2>1
  <2>4. QED
    BY <1>1, <1>3, <1>4, <2>1, <2>2, <2>3
<1>5. CASE size # None
  <2>1. size \in Nat /\ data = Page(rows, index, size) /\ Size(q) = size
    BY <1>1, <1>2, <1>5 DEF Latest, Size
  <2>2. Len(data) \in Nat /\ (data # <<>> => index * size + Len(data) <= Len(rows))
    BY <1>2, <1>3, <2>1, PageRows
  <2>3. ASSUME index = 0 PROVE Ahead(data, size, Newest(S))
    BY <1>1, <2>1, <2>3, NewestAreAhead
  <2>4. QED
    BY <1>1, <1>3, <1>5, <2>1, <2>2, <2>3
<1>6. QED
  BY <1>4, <1>5

\* Those rows of X that are on a page of the newest of T, newest first.
RowsOnPage(X, T, index, size) ==
    LET page == Page(Newest(T), index, size)
    IN  Newest({n \in X : \E i \in DOMAIN page : page[i] = n})

\* They are as many as the page has, and as new.
LEMMA RowsOfPage ==
    ASSUME NEW X \in SUBSET Nat, IsFiniteSet(X), NEW T \in SUBSET X, NEW S \in SUBSET T,
           NEW index \in Nat, NEW size \in Nat
    PROVE  /\ Len(RowsOnPage(X, T, index, size)) \in Nat
           /\ index = 0 => Ahead(RowsOnPage(X, T, index, size), size, Newest(S))
           /\ RowsOnPage(X, T, index, size) # <<>> =>
                 index * size + Len(RowsOnPage(X, T, index, size)) <= Cardinality(T)
<1>1. PICK page, P, data, rows :
        /\ rows = Newest(T) /\ page = Page(rows, index, size)
        /\ P = {n \in X : \E i \in DOMAIN page : page[i] = n} /\ data = Newest(P)
  OBVIOUS
<1> SUFFICES /\ Len(data) \in Nat
             /\ index = 0 => Ahead(data, size, Newest(S))
             /\ data # <<>> => index * size + Len(data) <= Cardinality(T)
  BY <1>1 DEF RowsOnPage
<1>2. /\ T \in SUBSET Nat /\ P \in SUBSET Nat /\ S \in SUBSET Nat
      /\ IsFiniteSet(T) /\ IsFiniteSet(P) /\ IsFiniteSet(S)
  <2>1. P \in SUBSET X
    BY <1>1
  <2>2. IsFiniteSet(T) /\ IsFiniteSet(P)
    BY <2>1, FS_Subset
  <2>3. QED
    BY <2>1, <2>2, FS_Subset
<1>3. /\ rows \in Seq(T) /\ Len(rows) = Cardinality(T) /\ Cardinality(T) \in Nat
      /\ \A m \in T : /\ Cardinality(Above(T, m)) + 1 \in 1..Cardinality(T)
                      /\ rows[Cardinality(Above(T, m)) + 1] = m
      /\ \A i \in 1..Cardinality(T) : rows[i] \in T /\ Cardinality(Above(T, rows[i])) = i - 1
  BY <1>1, <1>2, NewestRows
<1>4. Len(data) = Cardinality(P) /\ Cardinality(P) \in Nat /\ data = Newest(P)
  BY <1>1, <1>2, NewestRows
<1>5. /\ page \in Seq(T) /\ Len(page) \in Nat
      /\ index = 0 => \A i \in 1..Len(rows) : i <= size => i <= Len(page) /\ page[i] = rows[i]
      /\ page # <<>> => index * size + Len(page) <= Len(rows)
  BY <1>1, <1>2, <1>3, PageRows
<1>6. ASSUME data # <<>> PROVE index * size + Len(data) <= Cardinality(T)
  <2>1. Cardinality(P) <= Len(page)
    <3>1. page \in [1..Len(page) -> P] /\ \A n \in P : \E i \in 1..Len(page) : page[i] = n
      <4>1. DOMAIN page = 1..Len(page) /\ \A i \in 1..Len(page) : page[i] \in T
        BY <1>5
      <4>2. \A i \in 1..Len(page) : page[i] \in P
        BY <1>1, <4>1
      <4>3. page \in [1..Len(page) -> P]
        BY <1>5, <4>1, <4>2
      <4>4. \A n \in P : \E i \in 1..Len(page) : page[i] = n
        BY <1>1, <4>1
      <4>5. QED
        BY <4>3, <4>4
    <3>2. ExistsSurjection(1..Len(page), P)
      BY <3>1 DEF ExistsSurjection, Surjection
    <3>3. QED
      BY <1>5, <3>2, FS_SurjCardinalityBound
  <2>2. page # <<>>
    <3>1. Len(data) # 0
      <4>1. data \in Seq(P)
        BY <1>1, <1>2, NewestRows
      <4>2. QED
        BY <1>6, <4>1
    <3>2. QED
      BY <1>4, <1>5, <2>1, <3>1
  <2>3. PICK k : k = index * size
    OBVIOUS
  <2>4. k \in Nat /\ k + Len(page) <= Len(rows)
    BY <1>5, <2>2, <2>3
  <2>5. QED
    BY <1>3, <1>4, <1>5, <2>1, <2>3, <2>4
<1>7. ASSUME index = 0, NEW i \in 1..Cardinality(S), i <= size
      PROVE  i <= Cardinality(P) /\ data[i] >= Newest(S)[i]
  <2>1. PICK y, r : y = Newest(S)[i] /\ r = rows[i]
    OBVIOUS
  <2>2. i \in 1..Cardinality(T) /\ r \in T /\ y \in S /\ r >= y /\ y \in Nat /\ r \in Nat
    BY <1>1, <1>2, <2>1, NewestAhead
  <2>3. PICK a, B : a = Above(T, r) /\ B = a \cup {r}
    OBVIOUS
  <2>4. Cardinality(a) = i - 1 /\ a \subseteq T /\ r \notin a
    BY <1>3, <2>1, <2>2, <2>3 DEF Above
  <2>5. ASSUME NEW m \in B PROVE m \in P /\ m >= r
    <3>1. m \in T /\ m \in Nat /\ (m = r \/ m > r)
      BY <1>2, <2>2, <2>3 DEF Above
    <3>2. Cardinality(Above(T, m)) \in Nat /\ Cardinality(Above(T, m)) <= i - 1
      <4>1. CASE m = r
        BY <2>3, <2>4, <4>1
      <4>2. CASE m > r
        <5>1. r < m
          BY <2>2, <3>1, <4>2
        <5>2. /\ Cardinality(Above(T, m)) \in Nat /\ Cardinality(Above(T, r)) \in Nat
              /\ Cardinality(Above(T, m)) < Cardinality(Above(T, r))
          BY <1>2, <2>2, <3>1, <5>1, AboveShrinks
        <5>3. QED
          BY <2>3, <2>4, <5>2
      <4>3. QED
        BY <3>1, <4>1, <4>2
    <3>3. PICK j : j = Cardinality(Above(T, m)) + 1
      OBVIOUS
    <3>4. j \in 1..Len(rows) /\ rows[j] = m /\ j <= i
      BY <1>3, <3>1, <3>2, <3>3
    <3>5. j <= size
      BY <1>7, <3>4
    <3>6. j <= Len(page) /\ page[j] = m
      BY <1>5, <1>7, <3>4, <3>5
    <3>7. j \in DOMAIN page /\ m \in X
      BY <1>5, <3>1, <3>4, <3>6
    <3>8. QED
      BY <1>1, <2>2, <3>1, <3>6, <3>7
  <2>6. IsFiniteSet(a) /\ Cardinality(B) = i
    <3>1. IsFiniteSet(a)
      BY <1>2, <2>4, FS_Subset
    <3>2. Cardinality(B) = Cardinality(a) + 1
      BY <2>3, <2>4, <3>1, FS_AddElement
    <3>3. QED
      BY <1>2, <2>2, <2>4, <3>1, <3>2
  <2>7. B \in SUBSET P /\ i \in 1..Cardinality(B)
    BY <2>2, <2>5, <2>6
  <2>8. PICK z : z = Newest(B)[i]
    OBVIOUS
  <2>9. /\ Cardinality(B) <= Cardinality(P) /\ z \in B
        /\ data[i] \in P /\ data[i] >= z
    BY <1>2, <1>4, <2>7, <2>8, NewestAhead
  <2>10. data[i] \in Nat /\ z \in Nat /\ z >= r
    BY <1>2, <2>5, <2>7, <2>9
  <2>11. QED
    BY <1>4, <2>1, <2>2, <2>6, <2>9, <2>10
<1>8. Len(Newest(S)) = Cardinality(S)
  BY <1>2, NewestRows
<1>9. index = 0 => Ahead(data, size, Newest(S))
  BY <1>4, <1>7, <1>8 DEF Ahead
<1>10. QED
  BY <1>4, <1>6, <1>9

----------------------------------------------------------------------------
\* The invariant of a client's question

\* A transaction that has created its token.
Creates(tx) == tx.ok /\ tx.method \in {"createToken", "createBancorToken"}

\* A transaction that is found under an address is itself there: its row was written
\* first.
Entered == \A x \in txAddr : x[1] \in txs

\* There are finitely many account rows.
Present == {k \in Keys : account[k] # Absent}
FewRows == IsFiniteSet(Present)

\* What an answer's data says of the blocks that had been recorded.
Right(q, data, asked) ==
    /\ q.fun = "getTx" => (q.num \in asked => data = q.num)
    /\ q.fun = "getTxsByBlock" => (q.num \in asked => q.num \in data)
    /\ q.fun \in {"getTxs", "getLatestTxs", "getLatestBlocks"} /\ Index(q.page) = 0 =>
          Ahead(data, Size(q), Newest(asked))
    /\ q.fun = "getBlocks" => Ahead(data, MaxChain, Newest(asked))
    /\ q.fun = "getTxsByAddress" /\ Index(q.page) = 0 =>
          Ahead(data, q.size, Newest({n \in asked : q.addr \in Parties(chain[n])}))
    /\ q.fun \in {"getAccount", "getTokensByAddress"} =>
          \A n \in asked : Fresh(data, q.addr, n)
    /\ q.fun \in {"getTokenPrice", "getBancorTokenParams"} =>
          \A n \in asked : Sets(n, Upper[q.token]) => (data # None /\ data >= n)
    /\ q.fun \in {"getToken", "getTokenInfo"} =>
          ((\E n \in asked : Creates(chain[n]) /\ Canon[chain[n].token] = Upper[q.token])
              => data # None)
    /\ q.fun = "getName" /\ q.num = None /\ q.addr = None =>
          ((\E n \in asked : Creates(chain[n]) /\ Canon[chain[n].token] = Upper[q.token])
              => data = {"token"})
    /\ q.fun = "getName" /\ q.num # None =>
          /\ (\E n \in asked : q.num < n) => data = {"block"}
          /\ data = {"block"} => q.num <= Len(chain)
    /\ q.fun = "getLatestTxCount" => data >= Cardinality({n \in asked : n >= q.num /\ n < q.size})

\* How its parts agree with each other, given the total.
Covered(q, data, asked, total) ==
    /\ q.fun \in {"getTxs", "getLatestTxs", "getLatestBlocks", "getTxsByAddress"} /\ data # <<>> =>
          /\ Len(data) \in Nat
          /\ Index(q.page) * (IF q.size = None THEN 0 ELSE q.size) + Len(data) <= total
    /\ q.fun = "getFortuneRanking" /\ q.size # None =>
          Cardinality(data) \in Nat /\ Cardinality(data) <= total
    /\ q.fun = "getChainOverview" =>
          /\ data.lib \in Nat /\ data.height \in Nat /\ data.lib <= data.height
          /\ Cardinality(asked) \in Nat /\ Cardinality(asked) <= total

\* What holds of a handler that did not fail, wherever it is.
Sound(q, asked, out) ==
    /\ out.at \in {"counting", "answered"} => Right(q, out.data, asked)
    /\ out.at = "counting" => Covered(q, out.data, asked, Count(q))
    /\ out.at = "answered" => Covered(q, out.data, asked, out.total)
    /\ out.at = "latest" => /\ q.fun = "getChainOverview"
                            /\ out.data \in [lib : 0..Len(chain), height : {0}]

\* The questions a handler is registered for (getFunc).
Handled == {"getName", "getAccount", "getTokensByAddress", "getAccounts", "getToken",
            "getTokenInfo", "getTokenPrice", "getBancorTokenParams", "getFortuneRanking",
            "getTxsByAddress", "getTxs", "getLatestTxs", "getTxsByBlock", "getTx", "getBlocks",
            "getLatestBlocks", "getChainOverview", "getLatestTxCount"}

Stages == {"asked", "latest", "counting", "answered", "hung", "thrown"}

\* A question that is being served, and what its handler has so far.
Served(r) == r \in [at : Stages, q : Question, asked : SUBSET copied, failed : BOOLEAN,
                    data : {r.data}, total : {r.total}]
Serves(r) == Served(r) /\ (~r.failed /\ ~r.q.bad => Sound(r.q, r.asked, r))

ReaderInv ==
    /\ Entered /\ FewRows
    /\ reader \in {NoClient, Idle} \/ \E r \in {reader} : Serves(r)

----------------------------------------------------------------------------
\* The first answer of a handler that does not fail

\* The rows of the blocks recorded so far.
LEMMA RowsThere ==
    ASSUME IInv, Entered, NEW asked \in SUBSET copied, NEW addr
    PROVE  /\ txs \in SUBSET Nat /\ IsFiniteSet(txs) /\ asked \in SUBSET txs
           /\ blocks \in SUBSET Nat /\ IsFiniteSet(blocks) /\ asked \in SUBSET blocks
           /\ TxsOf(addr) \in SUBSET txs
           /\ {n \in asked : addr \in Parties(chain[n])} \in SUBSET TxsOf(addr)
<1>1. blocks \subseteq 1..MaxChain /\ txs \subseteq 1..MaxChain /\ MaxChain \in Nat
  BY TableConstants DEF IInv, TypeOK
<1>2. IsFiniteSet(1..MaxChain)
  BY <1>1, FS_Interval
<1>3. txs \in SUBSET Nat /\ blocks \in SUBSET Nat /\ IsFiniteSet(txs) /\ IsFiniteSet(blocks)
  <2>1. txs \in SUBSET (1..MaxChain) /\ blocks \in SUBSET (1..MaxChain)
    BY <1>1
  <2>2. IsFiniteSet(txs) /\ IsFiniteSet(blocks)
    BY <1>2, <2>1, FS_Subset
  <2>3. QED
    BY <1>1, <2>1, <2>2
<1>4. ASSUME NEW n \in asked
      PROVE  n \in txs /\ n \in blocks /\ \A a \in Parties(chain[n]) : <<n, a>> \in txAddr
  BY RecordedKeeps
<1>5. ASSUME NEW n \in TxsOf(addr) PROVE n \in txs
  BY DEF TxsOf, Entered
<1>6. ASSUME NEW n \in asked, addr \in Parties(chain[n]) PROVE n \in TxsOf(addr)
  <2>1. <<n, addr>> \in txAddr
    BY <1>4, <1>6
  <2>2. <<n, addr>>[1] = n /\ <<n, addr>>[2] = addr
    OBVIOUS
  <2>3. QED
    BY <2>1, <2>2 DEF TxsOf
<1>7. QED
  BY <1>3, <1>4, <1>5, <1>6

\* The rows that balances are kept in are those of the accounts.
LEMMA RowsAreKeys ==
    ASSUME NEW tx \in Transactions, NEW key \in Changes(tx)
    PROVE  RowOf(tx, key) \in Keys /\ RowOf(tx, key)[1] = key[1]
<1>1. PICK row, r : row = RowOf(tx, key) /\ r = St("account", row)
  OBVIOUS
<1>2. WellFormed(tx)
  BY TableConstants
<1>3. r \in Allowed(tx)
  BY <1>1, <1>2, HandlerCovers DEF Covers, Refreshed, Sts
<1>4. r \in AllowedFor(0, tx) /\ r.table = "account" /\ r.key = row
  BY <1>1, <1>3 DEF AllowedFor, St
<1>5. row \in Keys
  BY <1>4, StatementKeys
<1>6. row[1] = key[1]
  BY <1>1 DEF RowOf
<1>7. QED
  BY <1>1, <1>5, <1>6

\* A creation that was recorded has its rows.
LEMMA CreatedThere ==
    ASSUME IInv, NEW n \in copied, Creates(chain[n])
    PROVE  Canon[chain[n].token] \in tokens \cap names
<1>1. PICK tx, t, list : tx = chain[n] /\ t = Canon[tx.token] /\ list = Copies(n, tx)
  OBVIOUS
<1>2. WellFormed(tx)
  BY <1>1, CopiedOfChain, BlockOfChain DEF IInv, TypeOK
<1>3. Enters(Handler(tx), t)
  <2>1. tx.method = "createToken" => Handler(tx) = CheckCreateToken(tx)
    BY DEF Handler
  <2>2. tx.method = "createBancorToken" => Handler(tx) = CheckCreateBancorToken(tx)
    BY DEF Handler
  <2>3. QED
    BY <1>1, <1>2, <2>1, <2>2, CreateCovers DEF Creates
<1>4. St("tokens", t) \in Items(list) /\ St("names", t) \in Items(list)
  BY <1>1, <1>2, <1>3, CopiesCover DEF Enters
<1>5. PICK r, s : r = St("tokens", t) /\ s = St("names", t)
  OBVIOUS
<1>6. Reached(r, n) /\ Reached(s, n)
  BY <1>1, <1>4, <1>5 DEF IInv, Recorded
<1>7. r.table = "tokens" /\ r.key = t /\ s.table = "names" /\ s.key = t
  BY <1>5 DEF St
<1>8. QED
  BY <1>1, <1>6, <1>7 DEF Reached

\* A block, a transaction, or how many.
LEMMA FirstOfBlocks ==
    ASSUME IInv, Entered, NEW q \in Question, ~q.bad, NEW asked \in SUBSET copied, NEW out,
           \/ q.fun = "getTx" /\ out \in GetTx(q, FALSE)
           \/ q.fun = "getTxsByBlock" /\ out \in GetTxsByBlock(q, FALSE)
           \/ q.fun = "getLatestTxCount" /\ out \in GetLatestTxCount(q, FALSE)
    PROVE  Sound(q, asked, out)
<1>1. txs \in SUBSET Nat /\ IsFiniteSet(txs) /\ asked \in SUBSET txs
  BY RowsThere
<1>2. CASE q.fun = "getTx" /\ out \in GetTx(q, FALSE)
  <2>1. out.at = "answered" /\ (q.num \in txs => out.data = q.num)
    BY <1>2 DEF GetTx, Only, Failed, Answered
  <2>2. QED
    BY <1>1, <1>2, <2>1 DEF Sound, Right, Covered
<1>3. CASE q.fun = "getTxsByBlock" /\ out \in GetTxsByBlock(q, FALSE)
  <2>1. out.at = "answered" /\ out.data = {n \in txs : n = q.num}
    BY <1>3 DEF GetTxsByBlock, Only, Answered
  <2>2. QED
    BY <1>1, <1>3, <2>1 DEF Sound, Right, Covered
<1>4. CASE q.fun = "getLatestTxCount" /\ out \in GetLatestTxCount(q, FALSE)
  <2>1. PICK a, b : /\ a = {n \in asked : n >= q.num /\ n < q.size}
                    /\ b = {n \in txs : n >= q.num /\ n < q.size}
    OBVIOUS
  <2>2. out.at = "answered" /\ out.data = Cardinality(b)
    BY <1>4, <2>1 DEF GetLatestTxCount, Only, Answered
  <2>3. a \in SUBSET b /\ b \in SUBSET txs
    BY <1>1, <2>1
  <2>4. IsFiniteSet(b)
    BY <1>1, <2>3, FS_Subset
  <2>5. Cardinality(a) <= Cardinality(b) /\ Cardinality(a) \in Nat /\ Cardinality(b) \in Nat
    BY <2>3, <2>4, FS_Subset, FS_CardinalityType
  <2>6. out.data >= Cardinality({n \in asked : n >= q.num /\ n < q.size})
    BY <2>1, <2>2, <2>5
  <2>7. QED
    BY <1>4, <2>2, <2>6 DEF Sound, Right, Covered
<1>5. QED
  BY <1>2, <1>3, <1>4

\* The latest blocks or transactions, of all or of an address.
LEMMA FirstOfLists ==
    ASSUME IInv, Entered, NEW q \in Question, ~q.bad, NEW asked \in SUBSET copied, NEW out,
           \/ q.fun \in {"getTxs", "getLatestTxs"} /\ out \in GetTxs(q, FALSE)
           \/ q.fun = "getLatestBlocks" /\ out \in GetLatestBlocks(q, FALSE)
           \/ q.fun = "getBlocks" /\ out \in GetBlocks(q, FALSE)
           \/ q.fun = "getTxsByAddress" /\ out \in GetTxsByAddress(q, FALSE)
    PROVE  Sound(q, asked, out)
<1>1. PICK all, some : /\ all = asked
                       /\ some = {n \in asked : q.addr \in Parties(chain[n])}
  OBVIOUS
<1>2. /\ txs \in SUBSET Nat /\ IsFiniteSet(txs) /\ all \in SUBSET txs
      /\ blocks \in SUBSET Nat /\ IsFiniteSet(blocks) /\ all \in SUBSET blocks
      /\ TxsOf(q.addr) \in SUBSET txs /\ some \in SUBSET TxsOf(q.addr)
  BY <1>1, RowsThere
<1>3. CASE q.fun \in {"getTxs", "getLatestTxs"} /\ out \in GetTxs(q, FALSE)
  <2>1. PICK data : data = Latest(q, txs)
    OBVIOUS
  <2>2. /\ Len(data) \in Nat
        /\ Index(q.page) = 0 => Ahead(data, Size(q), Newest(all))
        /\ data # <<>> => Index(q.page) * (IF q.size = None THEN 0 ELSE q.size) + Len(data)
                            <= Cardinality(txs)
    BY <1>2, <2>1, LatestRows
  <2>3. out.at = "counting" /\ out.data = data /\ Count(q) = Cardinality(txs)
    BY <1>3, <2>1 DEF GetTxs, Counting, Count
  <2>4. QED
    BY <1>1, <1>3, <2>2, <2>3 DEF Sound, Right, Covered
<1>4. CASE q.fun = "getLatestBlocks" /\ out \in GetLatestBlocks(q, FALSE)
  <2>1. PICK data : data = Latest(q, blocks)
    OBVIOUS
  <2>2. /\ Len(data) \in Nat
        /\ Index(q.page) = 0 => Ahead(data, Size(q), Newest(all))
        /\ data # <<>> => Index(q.page) * (IF q.size = None THEN 0 ELSE q.size) + Len(data)
                            <= Cardinality(blocks)
    BY <1>2, <2>1, LatestRows
  <2>3. out.at = "counting" /\ out.data = data /\ Count(q) = Cardinality(blocks)
    BY <1>4, <2>1 DEF GetLatestBlocks, Counting, Count
  <2>4. QED
    BY <1>1, <1>4, <2>2, <2>3 DEF Sound, Right, Covered
<1>5. CASE q.fun = "getBlocks" /\ out \in GetBlocks(q, FALSE)
  <2>1. out.at = "answered" /\ out.data = Newest(blocks)
    BY <1>5 DEF GetBlocks, Only, Answered
  <2>2. Ahead(Newest(blocks), MaxChain, Newest(all))
    BY <1>2, NewestAreAhead
  <2>3. QED
    BY <1>1, <1>5, <2>1, <2>2 DEF Sound, Right, Covered
<1>6. CASE q.fun = "getTxsByAddress" /\ out \in GetTxsByAddress(q, FALSE)
  <2>1. PICK T, index, size, data :
          /\ T = TxsOf(q.addr) /\ index = Index(q.page) /\ size = q.size
          /\ data = RowsOnPage(txs, T, index, size)
    OBVIOUS
  <2>2. index \in Nat /\ size \in Nat /\ size # None
    BY <1>6, <2>1, QuestionsAsked DEF Index
  <2>3. /\ Len(data) \in Nat
        /\ index = 0 => Ahead(data, size, Newest(some))
        /\ data # <<>> => index * size + Len(data) <= Cardinality(T)
    <3>1. T \in SUBSET txs /\ some \in SUBSET T
      BY <1>2, <2>1
    <3>2. QED
      BY <1>2, <2>1, <2>2, <3>1, RowsOfPage
  <2>4. out.at = "counting" /\ out.data = data /\ Count(q) = Cardinality(TxsOf(q.addr))
    <3>1. out = Counting(data)
      BY <1>6, <2>1, Zenon DEF GetTxsByAddress, RowsOnPage
    <3>2. QED
      BY <1>6, <3>1 DEF Counting, Count
  <2>5. QED
    BY <1>1, <1>6, <2>1, <2>2, <2>3, <2>4 DEF Sound, Right, Covered
<1>7. QED
  BY <1>3, <1>4, <1>5, <1>6

\* The rows of an account.
LEMMA FirstOfAccounts ==
    ASSUME IInv, NEW q \in Question, ~q.bad, NEW asked \in SUBSET copied, NEW out,
           q.fun \in {"getAccount", "getTokensByAddress"} /\ out \in GetAccount(q, FALSE)
    PROVE  Sound(q, asked, out)
<1>1. PICK keys, sys : keys = RowsOf(q.addr) /\ sys = {k \in keys : k[2] = Sys}
  OBVIOUS
<1>2. out \in OneOf(Rows(keys))
  BY <1>1 DEF GetAccount
<1>3. PICK data \in Rows(keys) : out = Only(data)
  BY <1>2 DEF OneOf
<1>4. PICK first \in (IF sys = {} THEN {None} ELSE sys) : data = Shown(keys, first)
  BY <1>1, <1>3, Zenon DEF Rows
<1>5. ASSUME NEW n \in asked, NEW key \in Changes(chain[n]), key[1] = q.addr,
             NEW k, k = RowOf(chain[n], key)
      PROVE  \E r \in data : /\ r.addr = q.addr /\ r.value >= n
                             /\ r.token = IF k[2] = Sys THEN Symbol ELSE k[2]
  <2>1. account[k] # Absent /\ account[k] >= n
    BY <1>5, RecordedKeeps
  <2>2. chain[n] \in Transactions
    BY CopiedOfChain, BlockOfChain DEF IInv, TypeOK
  <2>3. k \in Keys /\ k[1] = q.addr
    BY <1>5, <2>2, RowsAreKeys
  <2>4. k \in keys
    BY <1>1, <2>1, <2>3 DEF RowsOf
  <2>5. k = first <=> k[2] = Sys
    <3>1. k # None
      BY <2>3, NoneIsNothing
    <3>2. CASE k[2] = Sys
      <4>1. k \in sys
        BY <1>1, <2>4, <3>2
      <4>2. first \in Keys /\ first[1] = q.addr /\ first[2] = Sys
        BY <1>1, <1>4, <4>1 DEF RowsOf
      <4>3. \A x \in Keys : x = <<x[1], x[2]>>
        BY DEF Keys
      <4>4. QED
        BY <2>3, <3>2, <4>2, <4>3
    <3>3. CASE k[2] # Sys
      BY <1>1, <1>4, <3>1, <3>3
    <3>4. QED
      BY <3>2, <3>3
  <2>6. PICK r : r = [addr |-> k[1], token |-> IF k = first THEN Symbol ELSE k[2],
                      value |-> account[k]]
    OBVIOUS
  <2>7. r \in data
    BY <1>4, <2>4, <2>6 DEF Shown
  <2>8. r.addr = q.addr /\ r.value >= n /\ r.token = (IF k[2] = Sys THEN Symbol ELSE k[2])
    BY <2>1, <2>3, <2>5, <2>6
  <2>9. QED
    BY <2>7, <2>8
<1>6. out.at = "answered" /\ out.data = data
  BY <1>3 DEF Only, Answered
<1>7. \A n \in asked : Fresh(data, q.addr, n)
  BY <1>5 DEF Fresh
<1>8. QED
  BY <1>6, <1>7 DEF Sound, Right, Covered

\* A token, its price, or what a name stands for.
LEMMA FirstOfTokens ==
    ASSUME IInv, NEW q \in Question, ~q.bad, NEW asked \in SUBSET copied, NEW out,
           \/ q.fun \in {"getToken", "getTokenInfo"} /\ out \in GetToken(q, FALSE)
           \/ q.fun \in {"getTokenPrice", "getBancorTokenParams"} /\ out \in GetTokenPrice(q, FALSE)
           \/ q.fun = "getName" /\ out \in GetName(q, FALSE)
    PROVE  Sound(q, asked, out)
<1>1. PICK t : t = Upper[q.token]
  OBVIOUS
<1>2. ASSUME NEW n \in asked, Creates(chain[n]), Canon[chain[n].token] = t
      PROVE  t \in tokens /\ t \in names /\ t # None
  <2>1. t \in tokens \cap names
    BY <1>2, CreatedThere
  <2>2. tokens \subseteq DOMAIN Canon
    BY DEF IInv, TypeOK
  <2>3. QED
    BY <2>1, <2>2, NoneIsNothing
<1>3. CASE q.fun \in {"getToken", "getTokenInfo"} /\ out \in GetToken(q, FALSE)
  <2>1. out.at = "answered" /\ (t \in tokens => out.data = t)
    BY <1>1, <1>3 DEF GetToken, Only, Failed, Answered
  <2>2. QED
    BY <1>1, <1>2, <1>3, <2>1 DEF Sound, Right, Covered
<1>4. CASE q.fun \in {"getTokenPrice", "getBancorTokenParams"} /\ out \in GetTokenPrice(q, FALSE)
  <2>1. out.at = "answered" /\ (bancor[t] # Absent => out.data = bancor[t])
    BY <1>1, <1>4 DEF GetTokenPrice, Only, Failed, Answered
  <2>2. ASSUME NEW n \in asked, Sets(n, t) PROVE out.data # None /\ out.data >= n
    <3>1. t = TokenName(chain[n]) /\ \E u \in DOMAIN Canon : ChangesParameters(chain[n], u)
      BY <2>2 DEF Sets
    <3>2. bancor[t] # Absent /\ bancor[t] >= n
      BY <3>1, RecordedKeeps
    <3>3. t \in DOMAIN Canon
      <4>1. WellFormed(chain[n])
        BY CopiedOfChain, BlockOfChain DEF IInv, TypeOK
      <4>2. QED
        BY <3>1, <4>1, AsksForChanges
    <3>4. bancor[t] \in Nat
      BY <3>3, TableConstants DEF IInv, TypeOK, Absent
    <3>5. QED
      BY <2>1, <3>2, <3>4, NoneIsNothing
  <2>3. QED
    BY <1>1, <1>4, <2>1, <2>2 DEF Sound, Right, Covered
<1>5. CASE q.fun = "getName" /\ out \in GetName(q, FALSE)
  <2>1. out.at = "answered" /\ out.data = Meanings(q)
    <3>1. ~(q.bad \/ (FALSE /\ LooksUp(q)))
      OBVIOUS
    <3>2. out = Only(Meanings(q))
      BY <1>5, <3>1 DEF GetName
    <3>3. QED
      BY <3>2 DEF Only, Answered
  <2>2. ASSUME q.num # None
        PROVE  /\ (\E n \in asked : q.num < n) => out.data = {"block"}
               /\ out.data = {"block"} => q.num <= Len(chain)
    <3>1. out.data = IF q.num < synced THEN {"block"} ELSE {}
      BY <2>1, <2>2 DEF Meanings
    <3>2. /\ q.num \in Nat /\ synced \in Nat /\ Len(chain) \in Nat /\ synced <= Len(chain)
          /\ asked \subseteq 1..synced
      BY <2>2, QuestionsAsked DEF IInv, TypeOK
    <3>3. ASSUME NEW n \in asked, q.num < n PROVE q.num < synced
      BY <3>2, <3>3
    <3>4. QED
      BY <3>1, <3>2, <3>3
  <2>3. ASSUME q.num = None, q.addr = None, t \in names PROVE out.data = {"token"}
    BY <1>1, <2>1, <2>3 DEF Meanings
  <2>4. QED
    BY <1>1, <1>2, <1>5, <2>1, <2>2, <2>3 DEF Sound, Right, Covered
<1>6. QED
  BY <1>3, <1>4, <1>5

\* Rows are answered as they are, or a page of them.
LEMMA RowsAreShown ==
    ASSUME NEW keys, IsFiniteSet(keys), NEW data \in Rows(keys)
    PROVE  IsFiniteSet(data) /\ Cardinality(data) \in Nat /\ Cardinality(data) <= Cardinality(keys)
<1>1. PICK first : data = Shown(keys, first)
  BY Zenon DEF Rows
<1>2. PICK f : f = [k \in keys |-> [addr |-> k[1], token |-> IF k = first THEN Symbol ELSE k[2],
                                    value |-> account[k]]]
  OBVIOUS
<1>3. f \in Surjection(keys, data)
  <2>1. data = {[addr |-> k[1], token |-> IF k = first THEN Symbol ELSE k[2],
                 value |-> account[k]] : k \in keys}
    BY <1>1 DEF Shown
  <2>2. data = {f[k] : k \in keys}
    BY <1>2, <2>1
  <2>3. f \in [keys -> data] /\ \A x \in data : \E k \in keys : f[k] = x
    BY <1>2, <2>2
  <2>4. QED
    BY <2>3 DEF Surjection
<1>4. QED
  BY <1>3, FS_Surjection, FS_CardinalityType

\* The holders are not more than there are keys, and they are finitely many.
LEMMA FirstOfRanking ==
    ASSUME IInv, NEW q \in Question, ~q.bad, NEW asked \in SUBSET copied, NEW out,
           q.fun = "getFortuneRanking", out \in GetFortuneRanking(q, FALSE),
           IsFiniteSet(HoldersOf(RankedToken(q)))
    PROVE  Sound(q, asked, out)
<1>1. PICK holders, onPage :
        /\ holders = HoldersOf(RankedToken(q))
        /\ onPage = Len(Page(SetToSeq(holders), Index(q.page), q.size))
  OBVIOUS
<1>2. Count(q) = Cardinality(holders)
  BY <1>1 DEF Count
<1>3. CASE q.size = None
  <2>1. out \in OneOf(Rows(holders))
    BY <1>1, <1>3 DEF GetFortuneRanking
  <2>2. out.at = "answered"
    BY <2>1 DEF OneOf, Only, Answered
  <2>3. QED
    BY <1>3, <2>2 DEF Sound, Right, Covered
<1>4. CASE q.size # None
  <2>1. out \in {Counting(data) : data \in UNION {Rows(keys) : keys \in kSubset(onPage, holders)}}
    BY <1>1, <1>4, Zenon DEF GetFortuneRanking
  <2>2. PICK keys \in kSubset(onPage, holders) : \E d \in Rows(keys) : out = Counting(d)
    BY <2>1
  <2>3. PICK data \in Rows(keys) : out = Counting(data)
    BY <2>2
  <2>4. keys \in SUBSET holders
    BY <2>2 DEF kSubset
  <2>5. IsFiniteSet(keys) /\ Cardinality(keys) <= Cardinality(holders)
    BY <1>1, <2>4, FS_Subset
  <2>6. /\ Cardinality(data) \in Nat /\ Cardinality(data) <= Cardinality(keys)
        /\ Cardinality(keys) \in Nat /\ Cardinality(holders) \in Nat
    BY <1>1, <2>5, RowsAreShown, FS_CardinalityType
  <2>7. Cardinality(data) <= Cardinality(holders)
    BY <2>5, <2>6
  <2>8. out.at = "counting" /\ out.data = data
    BY <2>3 DEF Counting
  <2>9. QED
    BY <1>2, <2>6, <2>7, <2>8 DEF Sound, Right, Covered
<1>5. QED
  BY <1>3, <1>4

\* What the dispatcher hands a question to (getFunc).
LEMMA Dispatch ==
    ASSUME NEW q, NEW failed
    PROVE  /\ q.fun = "getName" => Handle(q, failed) = GetName(q, failed)
           /\ q.fun \in {"getAccount", "getTokensByAddress"} =>
                Handle(q, failed) = GetAccount(q, failed)
           /\ q.fun = "getAccounts" => Handle(q, failed) = GetAccounts(q, failed)
           /\ q.fun \in {"getToken", "getTokenInfo"} => Handle(q, failed) = GetToken(q, failed)
           /\ q.fun \in {"getTokenPrice", "getBancorTokenParams"} =>
                Handle(q, failed) = GetTokenPrice(q, failed)
           /\ q.fun = "getFortuneRanking" => Handle(q, failed) = GetFortuneRanking(q, failed)
           /\ q.fun = "getTxsByAddress" => Handle(q, failed) = GetTxsByAddress(q, failed)
           /\ q.fun \in {"getTxs", "getLatestTxs"} => Handle(q, failed) = GetTxs(q, failed)
           /\ q.fun = "getTxsByBlock" => Handle(q, failed) = GetTxsByBlock(q, failed)
           /\ q.fun = "getTx" => Handle(q, failed) = GetTx(q, failed)
           /\ q.fun = "getBlocks" => Handle(q, failed) = GetBlocks(q, failed)
           /\ q.fun = "getLatestBlocks" => Handle(q, failed) = GetLatestBlocks(q, failed)
           /\ q.fun = "getChainOverview" => Handle(q, failed) = GetChainOverview(q, failed)
           /\ q.fun = "getLatestTxCount" => Handle(q, failed) = GetLatestTxCount(q, failed)
           /\ q.fun \notin Handled => Handle(q, failed) = {Only("unknown")}
BY DEF Handle, Handled

\* The chain's latest irreversible block.
LEMMA FirstOfOverview ==
    ASSUME synced \in Nat, NEW q \in Question, NEW asked, NEW out \in GetChainOverview(q, FALSE),
           q.fun = "getChainOverview"
    PROVE  Sound(q, asked, out)
<1>1. PICK n \in synced..Len(chain) :
        out = [at |-> "latest", data |-> [lib |-> n, height |-> 0], total |-> None]
  BY DEF GetChainOverview
<1>2. out.at = "latest" /\ out.data \in [lib : 0..Len(chain), height : {0}]
  BY <1>1
<1>3. QED
  BY <1>2 DEF Sound

\* The questions whose answers promise nothing.
LEMMA FirstOfOthers ==
    ASSUME NEW q \in Question, NEW asked, NEW out, q.fun \notin Handled \ {"getAccounts"},
           out.at = "answered"
    PROVE  Sound(q, asked, out)
BY DEF Sound, Right, Covered, Handled

\* What a handler answers first holds.
LEMMA FirstAnswer ==
    ASSUME IInv, Entered, FewRows, NEW q \in Question, ~q.bad,
           NEW asked \in SUBSET copied, NEW out \in Handle(q, FALSE)
    PROVE  Sound(q, asked, out)
<1>1. CASE q.fun = "getName"
  <2>1. out \in GetName(q, FALSE)
    BY <1>1, Dispatch, Zenon
  <2>2. QED
    BY <1>1, <2>1, FirstOfTokens
<1>2. CASE q.fun \in {"getAccount", "getTokensByAddress"}
  <2>1. out \in GetAccount(q, FALSE)
    BY <1>2, Dispatch, Zenon
  <2>2. QED
    BY <1>2, <2>1, FirstOfAccounts
<1>3. CASE q.fun \in {"getToken", "getTokenInfo"}
  <2>1. out \in GetToken(q, FALSE)
    BY <1>3, Dispatch, Zenon
  <2>2. QED
    BY <1>3, <2>1, FirstOfTokens
<1>4. CASE q.fun \in {"getTokenPrice", "getBancorTokenParams"}
  <2>1. out \in GetTokenPrice(q, FALSE)
    BY <1>4, Dispatch, Zenon
  <2>2. QED
    BY <1>4, <2>1, FirstOfTokens
<1>5. CASE q.fun = "getFortuneRanking"
  <2>1. out \in GetFortuneRanking(q, FALSE)
    BY <1>5, Dispatch, Zenon
  <2>2. HoldersOf(RankedToken(q)) \in SUBSET Present
    BY DEF HoldersOf, Present
  <2>3. IsFiniteSet(HoldersOf(RankedToken(q)))
    BY <2>2, FS_Subset DEF FewRows
  <2>4. QED
    BY <1>5, <2>1, <2>3, FirstOfRanking
<1>6. CASE q.fun = "getTxsByAddress"
  <2>1. out \in GetTxsByAddress(q, FALSE)
    BY <1>6, Dispatch, Zenon
  <2>2. QED
    BY <1>6, <2>1, FirstOfLists
<1>7. CASE q.fun \in {"getTxs", "getLatestTxs"}
  <2>1. out \in GetTxs(q, FALSE)
    BY <1>7, Dispatch, Zenon
  <2>2. QED
    BY <1>7, <2>1, FirstOfLists
<1>8. CASE q.fun = "getLatestBlocks"
  <2>1. out \in GetLatestBlocks(q, FALSE)
    BY <1>8, Dispatch, Zenon
  <2>2. QED
    BY <1>8, <2>1, FirstOfLists
<1>9. CASE q.fun = "getBlocks"
  <2>1. out \in GetBlocks(q, FALSE)
    BY <1>9, Dispatch, Zenon
  <2>2. QED
    BY <1>9, <2>1, FirstOfLists
<1>10. CASE q.fun = "getTx"
  <2>1. out \in GetTx(q, FALSE)
    BY <1>10, Dispatch, Zenon
  <2>2. QED
    BY <1>10, <2>1, FirstOfBlocks
<1>11. CASE q.fun = "getTxsByBlock"
  <2>1. out \in GetTxsByBlock(q, FALSE)
    BY <1>11, Dispatch, Zenon
  <2>2. QED
    BY <1>11, <2>1, FirstOfBlocks
<1>12. CASE q.fun = "getLatestTxCount"
  <2>1. out \in GetLatestTxCount(q, FALSE)
    BY <1>12, Dispatch, Zenon
  <2>2. QED
    BY <1>12, <2>1, FirstOfBlocks
<1>13. CASE q.fun = "getChainOverview"
  <2>1. out \in GetChainOverview(q, FALSE)
    BY <1>13, Dispatch, Zenon
  <2>2. synced \in Nat
    BY DEF IInv, TypeOK
  <2>3. QED
    BY <1>13, <2>1, <2>2, FirstOfOverview
<1>14. CASE q.fun \notin Handled \ {"getAccounts"}
  <2>1. \/ q.fun = "getAccounts" /\ out \in GetAccounts(q, FALSE)
        \/ q.fun \notin Handled /\ out = Only("unknown")
    <3>1. q.fun = "getAccounts" \/ q.fun \notin Handled
      BY <1>14
    <3>2. CASE q.fun = "getAccounts"
      BY <3>2, Dispatch, Zenon
    <3>3. CASE q.fun \notin Handled
      <4>1. Handle(q, FALSE) = {Only("unknown")}
        BY <3>3, Dispatch, Zenon
      <4>2. QED
        BY <3>3, <4>1
    <3>4. QED
      BY <3>1, <3>2, <3>3
  <2>2. out.at = "answered"
    <3>1. out \in GetAccounts(q, FALSE) => out.at = "answered"
      <4>1. PICK R : R = Rows({k \in Keys : account[k] # Absent})
        OBVIOUS
      <4>2. GetAccounts(q, FALSE) = OneOf(R)
        BY <4>1 DEF GetAccounts
      <4>3. ASSUME out \in OneOf(R) PROVE out.at = "answered"
        <5>1. PICK data \in R : out = Only(data)
          BY <4>3 DEF OneOf
        <5>2. QED
          BY <5>1 DEF Only, Answered
      <4>4. QED
        BY <4>2, <4>3
    <3>2. out = Only("unknown") => out.at = "answered"
      BY DEF Only, Answered
    <3>3. QED
      BY <2>1, <3>1, <3>2
  <2>3. QED
    BY <1>14, <2>2, FirstOfOthers
<1>15. QED
  BY <1>1, <1>2, <1>3, <1>4, <1>5, <1>6, <1>7, <1>8, <1>9, <1>10, <1>11, <1>12, <1>13, <1>14
     DEF Handled

\* Where a handler's first query takes it.
LEMMA FirstStage ==
    ASSUME NEW q, NEW failed \in BOOLEAN, NEW out \in Handle(q, failed)
    PROVE  out.at \in Stages
<1> USE DEF Only, OneOf, Answered, Failed, Counting, Hung, Thrown, Stages
<1>1. CASE out \in GetName(q, failed)
  BY <1>1 DEF GetName
<1>2. CASE out \in GetAccount(q, failed) \/ out \in GetAccounts(q, failed)
  <2>1. PICK R, A : R = Rows(RowsOf(q.addr)) /\ A = Rows({k \in Keys : account[k] # Absent})
    OBVIOUS
  <2>2. out \in (IF failed THEN {Failed} ELSE OneOf(R)) \cup (IF failed THEN {Failed} ELSE OneOf(A))
    BY <1>2, <2>1, Zenon DEF GetAccount, GetAccounts
  <2>3. QED
    BY <2>2
<1>3. CASE out \in GetToken(q, failed) \/ out \in GetTokenPrice(q, failed)
  BY <1>3 DEF GetToken, GetTokenPrice
<1>4. CASE out \in GetFortuneRanking(q, failed)
  <2>1. PICK H, R, C, n :
          /\ H = HoldersOf(RankedToken(q)) /\ R = Rows(H)
          /\ n = Len(Page(SetToSeq(H), Index(q.page), q.size))
          /\ C = UNION {Rows(keys) : keys \in kSubset(n, H)}
    OBVIOUS
  <2>2. out \in CASE q.bad -> {Hung}
                  [] ~q.bad /\ q.size = None -> IF failed THEN {Failed} ELSE OneOf(R)
                  [] ~q.bad /\ q.size # None ->
                       {Counting(data) : data \in IF failed THEN {None} ELSE C}
    BY <1>4, <2>1, Zenon DEF GetFortuneRanking
  <2>3. QED
    BY <2>2
<1>5. CASE out \in GetTxsByAddress(q, failed) \/ out \in GetTxs(q, failed)
  BY <1>5 DEF GetTxsByAddress, GetTxs
<1>6. CASE out \in GetLatestBlocks(q, failed) \/ out \in GetBlocks(q, failed)
  BY <1>6 DEF GetLatestBlocks, GetBlocks
<1>7. CASE out \in GetTxsByBlock(q, failed) \/ out \in GetTx(q, failed)
  BY <1>7 DEF GetTxsByBlock, GetTx
<1>8. CASE out \in GetLatestTxCount(q, failed)
  BY <1>8 DEF GetLatestTxCount
<1>9. CASE out \in GetChainOverview(q, failed)
  BY <1>9 DEF GetChainOverview
<1>10. CASE out = Only("unknown")
  BY <1>10
<1>11. QED
  BY <1>1, <1>2, <1>3, <1>4, <1>5, <1>6, <1>7, <1>8, <1>9, <1>10, Dispatch DEF Handled

----------------------------------------------------------------------------
\* A step, as a client sees it

\* Only a restart does else to the tables' state than a step of the copying.
LEMMA CopyOrRestart ==
    ASSUME [ReadNext]_readVars
    PROVE  [Next]_vars \/ Restarted
<1>1. CASE Copy
  BY <1>1 DEF Copy
<1>2. CASE Serve \/ Close \/ (\E q \in Question : Ask(q)) \/ UNCHANGED readVars
  <2>1. Serve => UNCHANGED vars
    <3>1. FirstQuery => UNCHANGED vars
      BY DEF FirstQuery, Becomes
    <3>2. LatestBlock \/ CountQuery => UNCHANGED vars
      BY DEF LatestBlock, CountQuery, Becomes
    <3>3. QED
      BY <3>1, <3>2 DEF Serve
  <2>2. Close \/ (\E q \in Question : Ask(q)) \/ UNCHANGED readVars => UNCHANGED vars
    BY DEF Close, Ask, readVars
  <2>3. QED
    BY <1>2, <2>1, <2>2
<1>3. QED
  BY <1>1, <1>2 DEF ReadNext

\* The chain and the copying only go on.
LEMMA ChainGrows ==
    ASSUME IInv, [ReadNext]_readVars
    PROVE  /\ Len(chain) \in Nat /\ copied \subseteq 1..Len(chain)
           /\ copied \subseteq copied'
           /\ Len(chain) <= Len(chain') /\ Len(chain') \in Nat
           /\ \A i \in 1..Len(chain) : chain'[i] = chain[i]
<1>1. chain \in Seq(Transactions) /\ Len(chain) \in Nat /\ copied \subseteq 1..Len(chain)
  BY CopiedOfChain DEF IInv, TypeOK
<1>2. CASE chain' = chain /\ copied \subseteq copied'
  BY <1>1, <1>2
<1>3. CASE \E tx \in Transactions : Execute(tx)
  <2>1. PICK tx \in Transactions : chain' = Append(chain, tx) /\ copied' = copied
    BY <1>3 DEF Execute, position
  <2>2. Len(chain') = Len(chain) + 1 /\ \A i \in 1..Len(chain) : chain'[i] = chain[i]
    BY <1>1, <2>1
  <2>3. QED
    BY <1>1, <2>1, <2>2
<1>4. CASE [Next]_vars /\ ~(\E tx \in Transactions : Execute(tx))
  <2>1. chain' = chain /\ copied \subseteq copied'
    BY <1>4 DEF Next, LoopTask, Statement, SetCurrentHeight, BlockFails, RangeFails, FetchMiners,
                WriteMiner, vars, position
  <2>2. QED
    BY <1>2, <2>1
<1>5. CASE Restarted
  BY <1>2, <1>5 DEF Restarted
<1>6. QED
  BY <1>3, <1>4, <1>5, CopyOrRestart

\* Of the account rows a step changes one at most.
LEMMA OneAccountChanges ==
    ASSUME IInv, [ReadNext]_readVars
    PROVE  \E k : \A j \in Keys : j # k => account'[j] = account[j]
<1>1. account \in [Keys -> 0..Absent]
  BY DEF IInv, TypeOK
<1>2. CASE account' = account
  BY <1>2
<1>3. ASSUME NEW s, Write(s) PROVE \A j \in Keys : j # s.key => account'[j] = account[j]
  BY <1>1, <1>3 DEF Write
<1>4. CASE Statement
  <2>1. PICK s : Write(s)
    BY <1>4 DEF Statement
  <2>2. QED
    BY <1>3, <2>1
<1>5. CASE WriteMiner
  <2>1. PICK key, v : account' = account \/ account' = [account EXCEPT ![key] = v]
    BY <1>5 DEF WriteMiner
  <2>2. \A j \in Keys : j # key => account'[j] = account[j]
    BY <1>1, <2>1
  <2>3. QED
    BY <2>2
<1>6. CASE [Next]_vars /\ ~Statement /\ ~WriteMiner
  BY <1>2, <1>6 DEF Next, Execute, LoopTask, SetCurrentHeight, BlockFails, RangeFails, FetchMiners,
                    vars, tables
<1>7. CASE ~[Next]_vars
  BY <1>2, <1>7, CopyOrRestart DEF Restarted, tables
<1>8. QED
  BY <1>4, <1>5, <1>6, <1>7

\* So there stay finitely many of them.
LEMMA FewRowsStay ==
    ASSUME IInv, FewRows, [ReadNext]_readVars
    PROVE  FewRows'
<1>1. PICK k : \A j \in Keys : j # k => account'[j] = account[j]
  BY OneAccountChanges
<1>2. PICK now, then : now = Present /\ then = Present'
  OBVIOUS
<1>3. then \in SUBSET (now \cup {k})
  BY <1>1, <1>2 DEF Present
<1>4. IsFiniteSet(now \cup {k})
  BY <1>2, FS_AddElement DEF FewRows
<1>5. IsFiniteSet(then)
  BY <1>3, <1>4, FS_Subset
<1>6. QED
  BY <1>2, <1>5 DEF FewRows

\* Where the items of two lists in a row are.
Joins(c, a, b) ==
    /\ \A i \in 1..Len(a) : c[i] = a[i]
    /\ \A i \in 1..Len(b) : c[Len(a) + i] = b[i]

\* Concatenation does just that.
LEMMA JoinedAt == ASSUME NEW S, NEW a \in Seq(S), NEW b \in Seq(S) PROVE Joins(a \o b, a, b)
<1>1. Len(a) \in Nat /\ Len(b) \in Nat
  OBVIOUS
<1>2. PICK c : c = a \o b
  OBVIOUS
<1>3. \A i \in 1..Len(a) + Len(b) : c[i] = IF i <= Len(a) THEN a[i] ELSE b[i - Len(a)]
  BY <1>2, ConcatProperties
<1>4. \A i \in 1..Len(a) : c[i] = a[i]
  BY <1>1, <1>3
<1>5. ASSUME NEW i \in 1..Len(b) PROVE c[Len(a) + i] = b[i]
  <2>1. PICK j : j = Len(a) + i
    OBVIOUS
  <2>2. j \in 1..Len(a) + Len(b) /\ ~(j <= Len(a)) /\ j - Len(a) = i
    BY <1>1, <2>1
  <2>3. c[j] = b[i]
    BY <1>3, <2>2
  <2>4. QED
    BY <2>1, <2>3
<1>6. QED
  BY <1>2, <1>4, <1>5 DEF Joins

\* A block's own rows come before those of its parties: its transaction's is the fourth.
LEMMA CopiesBegin ==
    ASSUME NEW tx, WellFormed(tx), NEW n
    PROVE  \A i \in 1..Len(Copies(n, tx)) :
              Copies(n, tx)[i].table = "txAddr" =>
                  i > 4 /\ Copies(n, tx)[4] = St("txs", n)
<1>1. PICK a, b, c, d, e :
        /\ a = Statements("hashes", <<<<"block", n>>>>) /\ b = Statements("blocks", <<n>>)
        /\ c = Statements("hashes", <<<<"tx", n>>>>) /\ d = Statements("txs", <<n>>)
        /\ e = Handler(tx)
  OBVIOUS
<1>2. /\ a = <<St("hashes", <<"block", n>>)>> /\ b = <<St("blocks", n)>>
      /\ c = <<St("hashes", <<"tx", n>>)>> /\ d = <<St("txs", n)>>
  BY <1>1 DEF Statements, St
<1>3. IsList(e)
  BY <1>1, HandlerCovers DEF Covers
<1>4. PICK S : S = Items(e) \cup {a[1], b[1], c[1], d[1]}
  OBVIOUS
<1>5. /\ a \in Seq(S) /\ b \in Seq(S) /\ c \in Seq(S) /\ d \in Seq(S) /\ e \in Seq(S)
      /\ Len(a) = 1 /\ Len(b) = 1 /\ Len(c) = 1 /\ Len(d) = 1 /\ Len(e) \in Nat
  BY <1>2, <1>3, <1>4 DEF IsList
<1>6. PICK ab, cd, cde, list : ab = a \o b /\ cd = c \o d /\ cde = cd \o e /\ list = ab \o cde
  OBVIOUS
<1>7. /\ ab \in Seq(S) /\ Len(ab) = 2 /\ ab[1] = a[1] /\ ab[2] = b[1]
      /\ cd \in Seq(S) /\ Len(cd) = 2 /\ cd[1] = c[1] /\ cd[2] = d[1]
  <2>1. ab \in Seq(S) /\ Len(ab) = Len(a) + Len(b)
    BY <1>5, <1>6, ConcatProperties
  <2>2. cd \in Seq(S) /\ Len(cd) = Len(c) + Len(d)
    BY <1>5, <1>6, ConcatProperties
  <2>3. ab[1] = a[1] /\ ab[2] = b[1]
    <3>1. Joins(ab, a, b)
      BY <1>5, <1>6, JoinedAt, Zenon
    <3>2. ab[1] = a[1] /\ ab[1 + 1] = b[1]
      BY <1>5, <3>1 DEF Joins
    <3>3. QED
      BY <3>2
  <2>4. cd[1] = c[1] /\ cd[2] = d[1]
    <3>1. Joins(cd, c, d)
      BY <1>5, <1>6, JoinedAt, Zenon
    <3>2. cd[1] = c[1] /\ cd[1 + 1] = d[1]
      BY <1>5, <3>1 DEF Joins
    <3>3. QED
      BY <3>2
  <2>5. QED
    BY <1>5, <2>1, <2>2, <2>3, <2>4
<1>8. cde \in Seq(S) /\ Len(cde) \in Nat /\ Len(cde) >= 2 /\ cde[1] = c[1] /\ cde[2] = d[1]
  <2>1. cde \in Seq(S) /\ Len(cde) = Len(cd) + Len(e)
    BY <1>5, <1>6, <1>7, ConcatProperties
  <2>2. cde[1] = cd[1] /\ cde[2] = cd[2]
    <3>1. Joins(cde, cd, e)
      BY <1>5, <1>6, <1>7, JoinedAt, Zenon
    <3>2. QED
      BY <1>7, <3>1 DEF Joins
  <2>3. QED
    BY <1>5, <1>7, <2>1, <2>2
<1>9. list[1] = a[1] /\ list[2] = b[1] /\ list[3] = c[1] /\ list[4] = d[1]
  <2>1. Joins(list, ab, cde)
    BY <1>6, <1>7, <1>8, JoinedAt, Zenon
  <2>2. list[1] = ab[1] /\ list[2] = ab[2]
    BY <1>7, <2>1 DEF Joins
  <2>3. list[2 + 1] = cde[1] /\ list[2 + 2] = cde[2]
    BY <1>7, <1>8, <2>1 DEF Joins
  <2>4. QED
    BY <1>7, <1>8, <2>2, <2>3
<1>10. list = Copies(n, tx)
  BY <1>1, <1>6 DEF Copies
<1>11. Len(list) \in Nat
  BY <1>10, CopiesCover
<1>12. ASSUME NEW i \in 1..Len(list), list[i].table = "txAddr" PROVE i > 4
  <2>1. /\ a[1].table # "txAddr" /\ b[1].table # "txAddr" /\ c[1].table # "txAddr"
        /\ d[1].table # "txAddr"
    BY <1>2 DEF St
  <2>2. i # 1 /\ i # 2 /\ i # 3 /\ i # 4
    BY <1>9, <1>12, <2>1
  <2>3. QED
    BY <1>11, <2>2
<1>13. list[4] = St("txs", n)
  BY <1>2, <1>9
<1>14. QED
  BY <1>10, <1>12, <1>13

\* A transaction is itself there before it is found under an address.
LEMMA EnteredStays ==
    ASSUME IInv, Entered, [ReadNext]_readVars
    PROVE  Entered'
<1>1. RowsGrow
  BY ReadStepHolds
<1>2. CASE txAddr' = txAddr
  BY <1>1, <1>2 DEF Entered, RowsGrow
<1>3. CASE Statement
  <2>1. PICK n, tx, list, s :
          /\ n = copying /\ tx = chain[n] /\ list = Copies(n, tx) /\ s = list[done + 1]
    OBVIOUS
  <2>2. copying # 0
    BY <1>3 DEF Statement
  <2>3. WellFormed(tx) /\ SyncBlockData(tx) = list
    BY <2>1, <2>2, BlockInHand
  <2>4. Write(s) /\ done < Len(list)
    BY <1>3, <2>1, <2>3 DEF Statement
  <2>5. done < Len(list) /\ done \in Nat /\ \A i \in 1..done : Reached(list[i], n)
    BY <2>1, <2>2, <2>4 DEF IInv, Progress, TypeOK
  <2>6. Len(list) \in Nat
    BY <2>1, <2>3, CopiesCover
  <2>7. ASSUME s.table = "txAddr" PROVE n \in txs
    <3>1. done + 1 \in 1..Len(list)
      BY <2>5, <2>6
    <3>2. list[done + 1].table = "txAddr"
      BY <2>1, <2>7
    <3>3. done + 1 > 4 /\ list[4] = St("txs", n)
      BY <2>1, <2>3, <3>1, <3>2, CopiesBegin
    <3>4. Reached(St("txs", n), n)
      <4>1. 4 \in 1..done
        BY <2>5, <3>3
      <4>2. QED
        BY <2>5, <3>3, <4>1
    <3>5. QED
      BY <3>4 DEF Reached, St
  <2>8. ASSUME NEW x \in txAddr' PROVE x[1] \in txs'
    <3>1. CASE x \in txAddr
      BY <1>1, <3>1 DEF Entered, RowsGrow
    <3>2. CASE x \notin txAddr
      <4>1. s.table = "txAddr" /\ x = <<n, s.key>>
        BY <2>1, <2>4, <2>8, <3>2 DEF Write
      <4>2. QED
        BY <1>1, <2>7, <4>1 DEF RowsGrow
    <3>3. QED
      BY <3>1, <3>2
  <2>9. QED
    BY <2>8 DEF Entered
<1>4. CASE [Next]_vars /\ ~Statement
  BY <1>2, <1>4 DEF Next, Execute, LoopTask, SetCurrentHeight, BlockFails, RangeFails, FetchMiners,
                    WriteMiner, vars, tables
<1>5. CASE ~[Next]_vars
  BY <1>2, <1>5, CopyOrRestart DEF Restarted, tables
<1>6. QED
  BY <1>3, <1>4, <1>5

----------------------------------------------------------------------------
\* The answer in the making

\* The rows that are counted are finitely many.
FewOfAll ==
    /\ IsFiniteSet(txs) /\ IsFiniteSet(blocks)
    /\ \A addr : IsFiniteSet(TxsOf(addr))
    /\ \A t : IsFiniteSet(HoldersOf(t))

\* The invariant and the bound on rows keep all these sets finite.
LEMMA FewAreCounted == IInv /\ Entered /\ FewRows => FewOfAll
<1> SUFFICES ASSUME IInv, Entered, FewRows PROVE FewOfAll
  OBVIOUS
<1>1. {} \in SUBSET copied
  OBVIOUS
<1>2. IsFiniteSet(txs) /\ IsFiniteSet(blocks)
  BY <1>1, RowsThere
<1>3. ASSUME NEW addr PROVE IsFiniteSet(TxsOf(addr))
  <2>1. TxsOf(addr) \in SUBSET txs
    BY <1>1, RowsThere
  <2>2. QED
    BY <1>2, <2>1, FS_Subset
<1>4. ASSUME NEW t PROVE IsFiniteSet(HoldersOf(t))
  <2>1. HoldersOf(t) \in SUBSET Present
    BY DEF HoldersOf, Present
  <2>2. QED
    BY <2>1, FS_Subset DEF FewRows
<1>5. QED
  BY <1>2, <1>3, <1>4 DEF FewOfAll

\* The questions that are answered with a total.
Totalled == {"getFortuneRanking", "getTxsByAddress", "getTxs", "getLatestTxs", "getChainOverview",
             "getLatestBlocks"}

\* No total becomes smaller.
LEMMA CountGrows ==
    ASSUME IInv, Entered, FewRows, [ReadNext]_readVars, NEW q, q.fun \in Totalled
    PROVE  Count(q) \in Nat /\ Count(q)' \in Nat /\ Count(q) <= Count(q)'
<1>1. FewOfAll /\ FewOfAll'
  <2>1. IInv' /\ Entered' /\ FewRows'
    BY ReadStepHolds, EnteredStays, FewRowsStay
  <2>2. FewOfAll'
    BY <2>1, FewAreCounted, PTL
  <2>3. QED
    BY <2>2, FewAreCounted
<1>2. ASSUME NEW a, NEW b, a \in SUBSET b, IsFiniteSet(b)
      PROVE  Cardinality(a) \in Nat /\ Cardinality(b) \in Nat /\ Cardinality(a) <= Cardinality(b)
  BY <1>2, FS_Subset, FS_CardinalityType
<1>4. RowsGrow
  BY ReadStepHolds
<1>5. CASE q.fun = "getFortuneRanking"
  <2>1. PICK t : t = RankedToken(q)
    OBVIOUS
  <2>2. PICK a, b : a = HoldersOf(t) /\ b = HoldersOf(t)'
    OBVIOUS
  <2>3. Count(q) = Cardinality(a) /\ Count(q)' = Cardinality(b)
    BY <1>5, <2>1, <2>2 DEF Count, RankedToken
  <2>4. a \in SUBSET b
    BY <1>4, <2>2 DEF RowsGrow, HoldersOf
  <2>5. IsFiniteSet(b)
    BY <1>1, <2>2 DEF FewOfAll
  <2>6. QED
    BY <1>2, <2>3, <2>4, <2>5
<1>6. CASE q.fun = "getTxsByAddress"
  <2>1. PICK addr : addr = q.addr
    OBVIOUS
  <2>2. PICK a, b : a = TxsOf(addr) /\ b = TxsOf(addr)'
    OBVIOUS
  <2>3. Count(q) = Cardinality(a) /\ Count(q)' = Cardinality(b)
    BY <1>6, <2>1, <2>2 DEF Count
  <2>4. a \in SUBSET b
    BY <1>4, <2>2 DEF RowsGrow, TxsOf
  <2>5. IsFiniteSet(b)
    BY <1>1, <2>2 DEF FewOfAll
  <2>6. QED
    BY <1>2, <2>3, <2>4, <2>5
<1>7. CASE q.fun \in {"getTxs", "getLatestTxs", "getChainOverview"}
  <2>1. Count(q) = Cardinality(txs) /\ Count(q)' = Cardinality(txs')
    BY <1>7 DEF Count
  <2>2. txs \in SUBSET txs' /\ IsFiniteSet(txs')
    BY <1>1, <1>4 DEF RowsGrow, FewOfAll
  <2>3. QED
    BY <1>2, <2>1, <2>2
<1>8. CASE q.fun = "getLatestBlocks"
  <2>1. Count(q) = Cardinality(blocks) /\ Count(q)' = Cardinality(blocks')
    BY <1>8 DEF Count
  <2>2. blocks \in SUBSET blocks' /\ IsFiniteSet(blocks')
    BY <1>1, <1>4 DEF RowsGrow, FewOfAll
  <2>3. QED
    BY <1>2, <2>1, <2>2
<1>9. QED
  BY <1>5, <1>6, <1>7, <1>8 DEF Totalled

\* What had been recorded when the client asked stays as it was.
LEMMA CopiedStays ==
    ASSUME IInv, [ReadNext]_readVars, NEW asked \in SUBSET copied
    PROVE  asked \in SUBSET copied' /\ \A n \in asked : chain'[n] = chain[n]
BY ChainGrows

\* What an answer's data says of it goes on being right.
LEMMA RightStays ==
    ASSUME IInv, [ReadNext]_readVars, NEW q \in Question, NEW data,
           NEW asked \in SUBSET copied, Right(q, data, asked)
    PROVE  Right(q, data, asked)'
<1>1. \A n \in asked : chain'[n] = chain[n]
  BY CopiedStays
<1>2. \A n \in asked : Fresh(data, q.addr, n) => Fresh(data, q.addr, n)'
  BY <1>1 DEF Fresh
<1>3. \A n \in asked : Sets(n, Upper[q.token])' => Sets(n, Upper[q.token])
  BY <1>1 DEF Sets
<1>4. {n \in asked : q.addr \in Parties(chain[n])}' = {n \in asked : q.addr \in Parties(chain[n])}
  BY <1>1
<1>5. (\E n \in asked : Creates(chain[n]) /\ Canon[chain[n].token] = Upper[q.token])'
        <=> \E n \in asked : Creates(chain[n]) /\ Canon[chain[n].token] = Upper[q.token]
  BY <1>1 DEF Creates
<1>6. ASSUME q.num # None, q.num <= Len(chain) PROVE q.num <= Len(chain')
  BY <1>6, ChainGrows, QuestionsAsked
<1>7. QED
  BY <1>2, <1>3, <1>4, <1>5, <1>6 DEF Right, Ahead

\* A total that is no smaller covers a page as well.
LEMMA CoveredByMore ==
    ASSUME NEW q \in Question, NEW data, NEW asked, NEW total \in Nat, NEW more \in Nat,
           total <= more, Covered(q, data, asked, total)
    PROVE  Covered(q, data, asked, more)
<1>1. \A x \in Nat : x <= total => x <= more
  OBVIOUS
<1>2. ASSUME q.fun \in {"getTxs", "getLatestTxs", "getLatestBlocks", "getTxsByAddress"},
             data # <<>>
      PROVE  /\ Len(data) \in Nat
             /\ Index(q.page) * (IF q.size = None THEN 0 ELSE q.size) + Len(data) <= more
  <2>1. PICK size, index, rows :
          /\ size = (IF q.size = None THEN 0 ELSE q.size) /\ index = Index(q.page)
          /\ rows = Len(data)
    OBVIOUS
  <2>2. rows \in Nat /\ index * size + rows <= total
    BY <1>2, <2>1 DEF Covered
  <2>3. index \in Nat /\ size \in Nat
    BY <2>1, QuestionsAsked DEF Index
  <2>4. index * size \in Nat
    BY <2>3
  <2>5. index * size + rows \in Nat
    BY <2>2, <2>4
  <2>6. index * size + rows <= more
    BY <1>1, <2>2, <2>5
  <2>7. QED
    BY <2>1, <2>2, <2>6
<1>3. ASSUME q.fun = "getFortuneRanking", q.size # None
      PROVE  Cardinality(data) \in Nat /\ Cardinality(data) <= more
  BY <1>1, <1>3 DEF Covered
<1>4. ASSUME q.fun = "getChainOverview"
      PROVE  /\ data.lib \in Nat /\ data.height \in Nat /\ data.lib <= data.height
             /\ Cardinality(asked) \in Nat /\ Cardinality(asked) <= more
  BY <1>1, <1>4 DEF Covered
<1>5. QED
  BY <1>2, <1>3, <1>4 DEF Covered

\* So does all that holds of a handler.
LEMMA SoundStays ==
    ASSUME IInv, Entered, FewRows, [ReadNext]_readVars, NEW q \in Question,
           NEW asked \in SUBSET copied, NEW out, Sound(q, asked, out)
    PROVE  Sound(q, asked, out)'
<1>1. PICK data, total : data = out.data /\ total = out.total
  OBVIOUS
<1>2. ASSUME out.at \in {"counting", "answered"} PROVE Right(q, data, asked)'
  BY <1>1, <1>2, RightStays DEF Sound
<1>3. ASSUME out.at = "counting" PROVE Covered(q, data, asked, Count(q)')
  <2>1. PICK now, then : now = Count(q) /\ then = Count(q)'
    OBVIOUS
  <2>2. Covered(q, data, asked, now)
    BY <1>1, <1>3, <2>1 DEF Sound
  <2>3. CASE q.fun \in Totalled
    <3>1. now \in Nat /\ then \in Nat /\ now <= then
      BY <2>1, <2>3, CountGrows
    <3>2. Covered(q, data, asked, then)
      BY <2>2, <3>1, CoveredByMore
    <3>3. QED
      BY <2>1, <3>2
  <2>4. CASE q.fun \notin Totalled
    BY <2>4 DEF Covered, Totalled
  <2>5. QED
    BY <2>3, <2>4
<1>4. ASSUME out.at = "answered" PROVE Covered(q, data, asked, total)
  BY <1>1, <1>4 DEF Sound
<1>5. ASSUME out.at = "latest"
      PROVE  q.fun = "getChainOverview" /\ data \in [lib : 0..Len(chain'), height : {0}]
  <2>1. Len(chain) \in Nat /\ Len(chain') \in Nat /\ Len(chain) <= Len(chain')
    BY ChainGrows
  <2>2. q.fun = "getChainOverview" /\ data \in [lib : 0..Len(chain), height : {0}]
    BY <1>1, <1>5 DEF Sound
  <2>3. QED
    BY <2>1, <2>2
<1>6. QED
  BY <1>1, <1>2, <1>3, <1>4, <1>5 DEF Sound, Covered

\* What is being served stays so, whatever the chain and the copying do.
LEMMA ServesStays ==
    ASSUME IInv, Entered, FewRows, [ReadNext]_readVars, NEW r, Serves(r)
    PROVE  Serves(r)'
<1>1. PICK q, asked : q = r.q /\ asked = r.asked
  OBVIOUS
<1>2. Served(r) /\ (~r.failed /\ ~q.bad => Sound(q, asked, r))
  BY <1>1 DEF Serves
<1>3. q \in Question /\ asked \in SUBSET copied
  BY <1>1, <1>2 DEF Served
<1>4. asked \in SUBSET copied'
  BY <1>3, CopiedStays
<1>5. Served(r)'
  BY <1>1, <1>2, <1>4 DEF Served
<1>6. ~r.failed /\ ~q.bad => Sound(q, asked, r)'
  BY <1>2, <1>3, SoundStays
<1>7. QED
  BY <1>1, <1>5, <1>6 DEF Serves

----------------------------------------------------------------------------
\* The steps of a client

\* What holds of a handler depends on where it is and what it has.
LEMMA SameSound ==
    ASSUME NEW q, NEW asked, NEW a, NEW b, Sound(q, asked, a),
           b.at = a.at, b.data = a.data, b.total = a.total
    PROVE  Sound(q, asked, b)
BY DEF Sound

\* What the client has when a step makes out of its question.
Made(r, out, failed) ==
    [r EXCEPT !.at = out.at, !.data = out.data, !.total = out.total, !.failed = @ \/ failed]

\* A step of the handler is served on, if what it makes of the question is sound.
LEMMA BecomesSound ==
    ASSUME NEW r, Served(r), NEW out, out.at \in Stages, NEW failed \in BOOLEAN,
           ~failed /\ ~r.failed /\ ~r.q.bad => Sound(r.q, r.asked, out)
    PROVE  Serves(Made(r, out, failed))
<1>1. PICK m : m = Made(r, out, failed)
  OBVIOUS
<1>2. /\ m.at = out.at /\ m.data = out.data /\ m.total = out.total
      /\ m.q = r.q /\ m.asked = r.asked /\ m.failed = (r.failed \/ failed)
      /\ m = [at |-> m.at, q |-> m.q, asked |-> m.asked, failed |-> m.failed,
              data |-> m.data, total |-> m.total]
  BY <1>1 DEF Served, Made
<1>3. Served(m)
  BY <1>2 DEF Served
<1>4. ASSUME ~m.failed, ~m.q.bad PROVE Sound(m.q, m.asked, m)
  BY <1>2, <1>4, SameSound
<1>5. QED
  BY <1>1, <1>3, <1>4 DEF Serves

\* The first answer.
LEMMA FirstQueryServes ==
    ASSUME IInv, ReaderInv, FirstQuery
    PROVE  \E r : reader' = r /\ Serves(r)
<1>1. PICK r : r = reader
  OBVIOUS
<1>2. Serves(r) /\ Entered /\ FewRows
  BY <1>1 DEF ReaderInv, FirstQuery, NoClient, Idle
<1>3. PICK failed \in BOOLEAN : \E out \in Handle(r.q, failed) : Becomes(out, failed)
  BY <1>1 DEF FirstQuery
<1>4. PICK out \in Handle(r.q, failed) : Becomes(out, failed)
  BY <1>3
<1>5. reader' = Made(r, out, failed)
  BY <1>1, <1>4 DEF Becomes, Made
<1>6. Served(r) /\ r.q \in Question /\ r.asked \in SUBSET copied
  BY <1>2 DEF Serves, Served
<1>7. out.at \in Stages
  BY FirstStage
<1>8. ASSUME ~failed, ~r.failed, ~r.q.bad PROVE Sound(r.q, r.asked, out)
  <2>1. failed = FALSE
    BY <1>8
  <2>2. out \in Handle(r.q, FALSE)
    BY <2>1
  <2>3. QED
    BY <1>2, <1>6, <1>8, <2>2, FirstAnswer
<1>9. Serves(Made(r, out, failed))
  BY <1>6, <1>7, <1>8, BecomesSound
<1>10. QED
  BY <1>5, <1>9

\* The latest block is not before the irreversible one that was answered first.
LEMMA LatestBlockServes ==
    ASSUME IInv, ReaderInv, LatestBlock
    PROVE  \E r : reader' = r /\ Serves(r)
<1>1. PICK r : r = reader
  OBVIOUS
<1>2. Serves(r) /\ Entered /\ FewRows /\ r.at = "latest"
  BY <1>1 DEF ReaderInv, LatestBlock, NoClient, Idle
<1>3. Served(r) /\ r.q \in Question /\ r.asked \in SUBSET copied
  BY <1>2 DEF Serves, Served
<1>4. CASE Becomes([reader EXCEPT !.at = "counting", !.data.height = Len(chain)], FALSE)
  <2>1. PICK out, no :
          /\ out = [r EXCEPT !.at = "counting", !.data.height = Len(chain)]
          /\ no = FALSE /\ no \in BOOLEAN
    BY Zenon
  <2>2. reader' = Made(r, out, no)
    BY <1>1, <1>4, <2>1 DEF Becomes, Made
  <2>3. out.at = "counting" /\ out.data = [r.data EXCEPT !.height = Len(chain)]
    BY <1>3, <2>1 DEF Served
  <2>4. ASSUME ~r.failed, ~r.q.bad PROVE Sound(r.q, r.asked, out)
    <3>1. r.q.fun = "getChainOverview" /\ r.data \in [lib : 0..Len(chain), height : {0}]
      BY <1>2, <2>4 DEF Serves, Sound
    <3>2. Len(chain) \in Nat
      BY DEF IInv, TypeOK
    <3>3. /\ out.data.lib \in Nat /\ out.data.height \in Nat
          /\ out.data.lib <= out.data.height
      BY <2>3, <3>1, <3>2
    <3>4. Cardinality(r.asked) \in Nat /\ Cardinality(r.asked) <= Count(r.q)
      <4>1. PICK asked : asked = r.asked
        OBVIOUS
      <4>2. asked \in SUBSET txs /\ IsFiniteSet(txs)
        BY <1>2, <1>3, <4>1, RowsThere
      <4>3. Cardinality(asked) \in Nat /\ Cardinality(asked) <= Cardinality(txs)
        BY <4>2, FS_Subset, FS_CardinalityType
      <4>4. Count(r.q) = Cardinality(txs)
        BY <3>1 DEF Count
      <4>5. QED
        BY <4>1, <4>3, <4>4
    <3>5. QED
      BY <2>3, <3>1, <3>3, <3>4 DEF Sound, Right, Covered
  <2>5. Serves(Made(r, out, no))
    <3>1. out.at \in Stages /\ no \in BOOLEAN
      BY <2>1, <2>3 DEF Stages
    <3>2. QED
      BY <1>3, <2>4, <3>1, BecomesSound, Zenon
  <2>6. QED
    BY <2>2, <2>5
<1>5. CASE Becomes([reader EXCEPT !.at = "counting"], TRUE)
  <2>1. PICK out, yes :
          out = [r EXCEPT !.at = "counting"] /\ yes = TRUE /\ yes \in BOOLEAN
    BY Zenon
  <2>2. reader' = Made(r, out, yes)
    BY <1>1, <1>5, <2>1 DEF Becomes, Made
  <2>3. out.at = "counting"
    BY <1>3, <2>1 DEF Served
  <2>4. out.at \in Stages /\ yes
    BY <2>1, <2>3 DEF Stages
  <2>5. Serves(Made(r, out, yes))
    BY <1>3, <2>1, <2>4, BecomesSound, Zenon
  <2>6. QED
    BY <2>2, <2>5
<1>6. CASE Becomes(Failed, TRUE)
  <2>1. PICK out, yes : out = Failed /\ yes = TRUE /\ yes \in BOOLEAN
    BY Zenon
  <2>2. reader' = Made(r, out, yes)
    BY <1>1, <1>6, <2>1 DEF Becomes, Made
  <2>3. out.at \in Stages /\ yes
    BY <2>1 DEF Failed, Answered, Stages
  <2>4. Serves(Made(r, out, yes))
    BY <1>3, <2>1, <2>3, BecomesSound, Zenon
  <2>5. QED
    BY <2>2, <2>4
<1>7. QED
  BY <1>4, <1>5, <1>6 DEF LatestBlock

\* The count completes the answer.
LEMMA CountQueryServes ==
    ASSUME IInv, ReaderInv, CountQuery
    PROVE  \E r : reader' = r /\ Serves(r)
<1>1. PICK r : r = reader
  OBVIOUS
<1>2. Serves(r) /\ r.at = "counting"
  BY <1>1 DEF ReaderInv, CountQuery, NoClient, Idle
<1>3. Served(r)
  BY <1>2 DEF Serves
<1>4. PICK total, failed :
        /\ failed \in BOOLEAN /\ Becomes(Answered(r.data, total), failed)
        /\ ~failed => total = Count(r.q)
  <2>1. CASE Becomes(Answered(r.data, Count(r.q)), FALSE)
    <3>1. PICK n, no : n = Count(r.q) /\ no = FALSE /\ no \in BOOLEAN
      BY Zenon
    <3>2. Becomes(Answered(r.data, n), no)
      BY <2>1, <3>1, Zenon
    <3>3. QED
      BY <3>1, <3>2, Zenon
  <2>2. CASE Becomes(Answered(r.data, IF r.q.fun = "getChainOverview" THEN 0 ELSE None), TRUE)
    <3>1. PICK n, yes : /\ n = (IF r.q.fun = "getChainOverview" THEN 0 ELSE None)
                        /\ yes = TRUE /\ yes \in BOOLEAN
      BY Zenon
    <3>2. Becomes(Answered(r.data, n), yes)
      BY <2>2, <3>1, Zenon
    <3>3. ~yes => n = Count(r.q)
      BY <3>1
    <3>4. QED
      BY <3>1, <3>2, <3>3, Zenon
  <2>3. QED
    BY <1>1, <2>1, <2>2 DEF CountQuery
<1>5. PICK out : out = Answered(r.data, total)
  OBVIOUS
<1>6. reader' = Made(r, out, failed)
  BY <1>1, <1>4, <1>5 DEF Becomes, Made
<1>7. out.at = "answered" /\ out.data = r.data /\ out.total = total
  BY <1>5 DEF Answered
<1>8. ASSUME ~failed, ~r.failed, ~r.q.bad PROVE Sound(r.q, r.asked, out)
  BY <1>2, <1>4, <1>7, <1>8 DEF Serves, Sound
<1>9. Serves(Made(r, out, failed))
  <2>1. out.at \in Stages
    BY <1>7 DEF Stages
  <2>2. QED
    BY <1>3, <1>4, <1>8, <2>1, BecomesSound, Zenon
<1>10. QED
  BY <1>6, <1>9

\* Every step of the chain, the copying and the client.
LEMMA ReaderInvHolds ==
    ASSUME IInv, ReaderInv, [ReadNext]_readVars
    PROVE  ReaderInv'
<1>1. Entered' /\ FewRows'
  BY EnteredStays, FewRowsStay DEF ReaderInv
<1>2. Entered /\ FewRows
  BY DEF ReaderInv
<1>3. CASE Serve
  <2>1. PICK r : reader' = r /\ Serves(r)
    BY <1>3, FirstQueryServes, LatestBlockServes, CountQueryServes DEF Serve
  <2>2. Serves(r)'
    BY <1>2, <2>1, ServesStays
  <2>3. QED
    BY <1>1, <2>1, <2>2 DEF ReaderInv
<1>4. ASSUME NEW q \in Question, Ask(q) PROVE ReaderInv'
  <2>1. PICK r : r = [at |-> "asked", q |-> q, asked |-> copied, failed |-> FALSE,
                      data |-> None, total |-> None]
    OBVIOUS
  <2>2. reader' = r
    BY <1>4, <2>1 DEF Ask
  <2>3. copied \in SUBSET copied
    OBVIOUS
  <2>4. Served(r)
    BY <2>1, <2>3 DEF Served, Stages
  <2>5. Sound(r.q, r.asked, r)
    BY <2>1 DEF Sound
  <2>6. Serves(r)'
    BY <1>2, <2>4, <2>5, ServesStays DEF Serves
  <2>7. QED
    BY <1>1, <2>2, <2>6 DEF ReaderInv
<1>5. CASE Close \/ Restarted
  BY <1>1, <1>5 DEF Close, Restarted, ReaderInv
<1>6. CASE reader' = reader
  <2>1. CASE reader \in {NoClient, Idle}
    BY <1>1, <1>6, <2>1 DEF ReaderInv, NoClient, Idle
  <2>2. CASE reader \notin {NoClient, Idle}
    <3>1. PICK r : r = reader /\ Serves(r)
      BY <2>2 DEF ReaderInv
    <3>2. Serves(r)'
      BY <1>2, <3>1, ServesStays
    <3>3. QED
      BY <1>1, <1>6, <3>1, <3>2 DEF ReaderInv
  <2>3. QED
    BY <2>1, <2>2
<1>7. QED
  BY <1>3, <1>4, <1>5, <1>6 DEF ReadNext, Copy, readVars

\* Nothing was asked yet.
LEMMA ReaderInvStarts == ASSUME ReadInit PROVE ReaderInv
<1>1. txAddr = {} /\ reader \in {NoClient, Idle}
  BY DEF ReadInit, Init
<1>2. FewRows
  <2>1. \A k \in Keys : account[k] = IF k[1] \in Genesis /\ k[2] = Sys THEN 0 ELSE Absent
    BY DEF ReadInit, Init
  <2>2. \A k \in Keys : k = <<k[1], k[2]>>
    BY DEF Keys
  <2>3. Present \in SUBSET (Genesis \X {Sys})
    BY <2>1, <2>2 DEF Present
  <2>4. IsFiniteSet({Sys})
    BY FS_Singleton
  <2>5. IsFiniteSet(Genesis \X {Sys})
    BY <2>4, GenesisIsFinite, FS_Product
  <2>6. QED
    BY <2>3, <2>5, FS_Subset DEF FewRows
<1>3. QED
  BY <1>1, <1>2 DEF ReaderInv, Entered

\* What the invariant says of an answer.
LEMMA AnswersFollow == ASSUME IInv, ReaderInv PROVE AnswersHold
<1>1. CASE reader.at # "answered"
  BY <1>1 DEF AnswersHold, AnswersKeepUp, TotalCoversPage, Good
<1>2. CASE reader.failed \/ reader.q.bad
  BY <1>2 DEF AnswersHold, AnswersKeepUp, TotalCoversPage, Good
<1>3. CASE reader.at = "answered" /\ ~reader.failed /\ ~reader.q.bad
  <2>1. PICK q, data, asked, total :
          q = reader.q /\ data = reader.data /\ asked = reader.asked /\ total = reader.total
    OBVIOUS
  <2>2. Serves(reader)
    BY <1>3 DEF ReaderInv, NoClient, Idle
  <2>3. Right(q, data, asked) /\ Covered(q, data, asked, total)
    BY <1>3, <2>1, <2>2 DEF Serves, Sound
  <2>4. asked \in SUBSET copied
    BY <2>1, <2>2 DEF Serves, Served
  <2>5. TotalCoversPage
    BY <2>1, <2>3 DEF TotalCoversPage, Good, Covered
  <2>6. AnswersKeepUp
    <3>1. {n \in asked : TRUE} = asked
      OBVIOUS
    <3>2. reader.q = q /\ reader.data = data /\ reader.asked = asked
      BY <2>1
    <3>3. Good({"getTx"}) => (q.num \in asked => data = q.num)
      BY <2>3, <3>2 DEF Good, Right
    <3>4. Good({"getTxsByBlock"}) => (q.num \in asked => q.num \in data)
      BY <2>3, <3>2 DEF Good, Right
    <3>5. (Good({"getTxs", "getLatestTxs", "getLatestBlocks"}) /\ Index(q.page) = 0) =>
            NewestAre(data, Size(q), LAMBDA n : TRUE)
      BY <2>3, <3>1, <3>2 DEF Good, Right, NewestAre, Ahead
    <3>6. Good({"getBlocks"}) => NewestAre(data, MaxChain, LAMBDA n : TRUE)
      BY <2>3, <3>1, <3>2 DEF Good, Right, NewestAre, Ahead
    <3>7. (Good({"getTxsByAddress"}) /\ Index(q.page) = 0) =>
            NewestAre(data, q.size, LAMBDA n : q.addr \in Parties(chain[n]))
      BY <2>3, <3>2 DEF Good, Right, NewestAre, Ahead
    <3>8. Good({"getAccount", "getTokensByAddress"}) => \A n \in asked : Fresh(data, q.addr, n)
      BY <2>3, <3>2 DEF Good, Right
    <3>9. Good({"getTokenPrice", "getBancorTokenParams"}) =>
            \A n \in asked : Sets(n, Upper[q.token]) => (data # None /\ data >= n)
      BY <2>3, <3>2 DEF Good, Right
    <3>10. CopiedCreation(Upper[q.token]) <=>
             \E n \in asked : Creates(chain[n]) /\ Canon[chain[n].token] = Upper[q.token]
      BY <3>2 DEF CopiedCreation, Creates
    <3>11. Good({"getToken", "getTokenInfo"}) => (CopiedCreation(Upper[q.token]) => data # None)
      BY <2>3, <3>2, <3>10 DEF Good, Right
    <3>12. (Good({"getName"}) /\ q.num = None /\ q.addr = None) =>
             (CopiedCreation(Upper[q.token]) => data = {"token"})
      BY <2>3, <3>2, <3>10 DEF Good, Right
    <3>13. (Good({"getName"}) /\ q.num # None) =>
             /\ (\E n \in asked : q.num < n) => data = {"block"}
             /\ data = {"block"} => q.num <= Len(chain)
      BY <2>3, <3>2 DEF Good, Right
    <3>14. Good({"getLatestTxCount"}) =>
             data >= Cardinality({n \in asked : n >= q.num /\ n < q.size})
      BY <2>3, <3>2 DEF Good, Right
    <3>15. QED
      BY <3>2, <3>3, <3>4, <3>5, <3>6, <3>7, <3>8, <3>9, <3>11, <3>12, <3>13, <3>14
         DEF AnswersKeepUp
  <2>7. QED
    BY <2>5, <2>6 DEF AnswersHold
<1>4. QED
  BY <1>1, <1>2, <1>3

----------------------------------------------------------------------------
\* Theorems

\* No balance row goes back to an older value, whatever is copied again long after
\* the chain went on (updateAccountTable, updateBatchBalances).
THEOREM RowsStay == ReadSpec => RowsNeverGoBack
<1>1. ReadInit => IInv
  BY InitHolds DEF ReadInit
<1>2. IInv /\ [ReadNext]_readVars => IInv'
  BY ReadStepHolds
<1>3. IInv /\ [ReadNext]_readVars =>
        [\A k \in Keys : account[k] # Absent => account'[k] # Absent /\ account'[k] >= account[k]]_vars
  <2>1. ASSUME IInv, [ReadNext]_readVars, NEW k \in Keys, account[k] # Absent
        PROVE  account'[k] # Absent /\ account'[k] >= account[k]
    <3>1. account'[k] # Absent /\ account[k] <= account'[k]
      BY <2>1, ReadStepHolds DEF RowsGrow
    <3>2. TypeOK /\ TypeOK'
      BY <2>1, ReadStepHolds DEF IInv
    <3>3. account[k] \in 0..Absent /\ account'[k] \in 0..Absent /\ Absent \in Nat
      BY <3>2, TableConstants DEF TypeOK, Absent
    <3>4. QED
      BY <3>1, <3>3
  <2>2. QED
    BY <2>1
<1>4. QED
  BY <1>1, <1>2, <1>3, PTL DEF ReadSpec, RowsNeverGoBack

\* The tables keep up with the blocks that were recorded, whatever is left out or done
\* again: every balance and every bancor parameter such a block's transaction changed
\* has a row no older than the transaction, and each of its parties finds it (updateTx
\* and the check* handlers, the break in updateBlockRangeGroup).
THEOREM CopiedIsKept == ReadSpec => []TablesKeepUp
<1>1. ReadInit => IInv
  BY InitHolds DEF ReadInit
<1>2. IInv /\ [ReadNext]_readVars => IInv'
  BY ReadStepHolds
<1>3. IInv => TablesKeepUp
  BY TablesFollow DEF IInv, TablesKeepUp
<1>4. QED
  BY <1>1, <1>2, <1>3, PTL DEF ReadSpec

\* What a client is answered is true of the moment it asked or of a later one, and a
\* page agrees with the total it comes with, although they were read one by one while
\* the tables moved and blocks were left out (the handlers of lib/storage/dbapi).
THEOREM AnswersAreTrue == ReadSpec => []AnswersHold
<1>1. ReadInit => IInv /\ ReaderInv
  BY InitHolds, ReaderInvStarts DEF ReadInit
<1>2. IInv /\ ReaderInv /\ [ReadNext]_readVars => (IInv /\ ReaderInv)'
  BY ReadStepHolds, ReaderInvHolds
<1>3. IInv /\ ReaderInv => AnswersHold
  BY AnswersFollow
<1>4. QED
  BY <1>1, <1>2, <1>3, PTL DEF ReadSpec
=============================================================================
