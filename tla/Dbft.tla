-------------------------------- MODULE Dbft --------------------------------
(***************************************************************************)
(* Block production by the dbft validators: DbftConsensusNode              *)
(* (core/dbft_chain/consensus_node.ts) together with the miner that        *)
(* creates, executes and adds the blocks (dbft_chain/miner.ts and          *)
(* chain/miner.ts).                                                        *)
(*                                                                         *)
(* A step is what one timer, one package or one resumed await does.        *)
(* Packages arrive in the order of their connection, and late ones meet    *)
(* whatever state the node is in.  The deadlines of _nextTimeout come from *)
(* each node's own clock, so a timer may fire at any time and any number   *)
(* of views may be past when it is set.  A block stands for the path that  *)
(* leads to it: the sequence of the headers after the genesis block.       *)
(***************************************************************************)
EXTENDS Integers, SequencesExt

CONSTANTS Validators,         \* nextMiners, in order; the same at every height
          AgreeRateNumerator, AgreeRateDenominator,
          ReSelectionBlocks,
          MaxView, MaxHeight, \* bounds
          MaxTimeout,         \* bound on ViewTimeout steps
          MaxBlocks           \* bound on blocks created

ASSUME DbftConstants ==
    /\ Validators \in Seq(ToSet(Validators)) /\ IsInjective(Validators)
    /\ AgreeRateNumerator \in Nat /\ AgreeRateDenominator \in Nat \ {0}
    /\ ReSelectionBlocks \in Nat \ {0}
    /\ MaxView \in Nat /\ MaxHeight \in Nat

Node == ToSet(Validators)

VARIABLES node,     \* the consensus node's tip, state, context and votes
          tasks,    \* blocks whose creation or execution is being awaited
          current,  \* the block of m_stateContext, if the miner has one
          adding,   \* mined blocks on their way into the chain
          channel,  \* packages on the connection from one node to another
          mined,    \* blocks some node's chain has added as mined
          made,     \* blocks created
          timeouts, \* ViewTimeout steps so far
          signed    \* the blocks each node has put its signature to

miner == <<tasks, current, adding>>
vars == <<node, miner, channel, mined, made, timeouts, signed>>

States == {"waitingCreate", "waitingProposal", "waitingVerify",
           "waitingAgree", "waitingBlock", "changeViewSent"}

Genesis == <<>>
IsPreBlock(tip, b) == Front(b) = tip
View(b) == Last(b).view

\* The nodes' states are well formed: views stay in bounds, a context holds a
\* block on the node's tip exactly while one is being agreed on, and only
\* validators vote and sign.
TypeOK ==
    /\ \A n \in Node :
        /\ node[n].state \in States /\ node[n].view \in 0..MaxView
        /\ node[n].block \subseteq {b \in made : IsPreBlock(node[n].tip, b)}
        /\ node[n].block # {} <=>
             node[n].state \in {"waitingVerify", "waitingAgree", "waitingBlock"}
        /\ node[n].signs \subseteq Node
        /\ node[n].preSigns \subseteq Node \X made
        /\ node[n].changeView \subseteq Node \X (1..MaxView)
        /\ tasks[n] \subseteq made \X {"propose", "execute"}
        /\ current[n] \cup adding[n] \cup signed[n] \subseteq made
    /\ mined \subseteq made

----------------------------------------------------------------------------
\* dbft_chain/context.ts

\* isAgreeRateReached
AgreeRateReached(count) ==
    count * AgreeRateDenominator >= Len(Validators) * AgreeRateNumerator

\* getDueNextMiner: the miners take turns, from the first after an election.
Due(tip, view) ==
    LET offset == IF Len(tip) % ReSelectionBlocks = 0 THEN 0
                  ELSE CHOOSE i \in 1..Len(Validators) : Validators[i] = Last(tip).miner
    IN  Validators[((view + offset) % Len(Validators)) + 1]

----------------------------------------------------------------------------
\* Views

\* A new context for `view`.
Enter(n, r, view) ==
    [r EXCEPT !.view = view,
              !.state = IF Due(r.tip, view) = n THEN "waitingCreate" ELSE "waitingProposal",
              !.block = {}, !.preSigns = {}, !.signs = {}, !.expect = 0]

\* _resetTimer with _nextTimeout: a cancelled or agreed view is entered; views
\* whose deadline has passed are skipped, whatever the node is doing.
ResetTimer(n, r) ==
    {IF view = r.view /\ r.state \in States THEN r ELSE Enter(n, r, view) :
        view \in r.view..IF Len(r.tip) < MaxHeight THEN MaxView ELSE r.view}

\* updateTip and _cancel
UpdateTip(n, r, b) ==
    ResetTimer(n, [r EXCEPT !.tip = b, !.state = "none", !.view = 0, !.changeView = {}])

\* _onChangeView: the agreed view is entered, be it a later or an earlier one.
OnChangeView(n, r, m, view) ==
    LET votes == {c \in r.changeView : c[1] # m} \cup {<<m, view>>}
        count == Cardinality({c \in votes : c[2] = view})
    IN  IF <<m, view>> \in r.changeView THEN {r}
        ELSE IF AgreeRateReached(count)
             THEN ResetTimer(n, [r EXCEPT !.changeView = {}, !.view = view,
                                          !.state = "changeViewSucc"])
             ELSE {[r EXCEPT !.changeView = votes]}

\* A node that has reached MaxHeight takes no further part.
Live(n) == Len(node'[n].tip) < MaxHeight

\* Mutant: setValidators has not been called, so the package goes nowhere.
Broadcast_NoValidators(n, package) == UNCHANGED channel

Broadcast(n, package) ==
    channel' = [c \in Node \X Node |->
        IF c[1] = n /\ c[2] # n /\ Live(c[2]) THEN Append(channel[c], package) ELSE channel[c]]

Retire ==
    /\ channel' = [c \in Node \X Node |-> IF Live(c[2]) THEN channel[c] ELSE <<>>]
    /\ tasks' = [n \in Node |-> IF Live(n) THEN tasks[n] ELSE {}]
    /\ current' = [n \in Node |-> IF Live(n) THEN current[n] ELSE {}]

Become(n, r) == node' = [node EXCEPT ![n] = r]

Init ==
    /\ node \in [Node -> [tip : {Genesis}, view : {0},
                          state : {"waitingCreate", "waitingProposal"}, block : {{}},
                          preSigns : {{}}, signs : {{}}, expect : {0}, changeView : {{}}]]
    /\ \A n \in Node : node[n].state = "waitingCreate" <=> Due(Genesis, 0) = n
    /\ tasks = [n \in Node |-> {}]
    /\ current = [n \in Node |-> {}] /\ adding = [n \in Node |-> {}]
    /\ channel = [c \in Node \X Node |-> <<>>]
    /\ mined = {} /\ made = {} /\ timeouts = 0
    /\ signed = [n \in Node |-> {}]

----------------------------------------------------------------------------
\* Timers

\* _createExecuteRoutine takes the miner over from whatever it was doing.
StartTask(n, b, phase) ==
    /\ tasks' = [tasks EXCEPT ![n] = @ \cup {<<b, phase>>}]
    /\ current' = [current EXCEPT ![n] = {b}]

\* _onTimeout of the due miner: the block is created, and proposed later.
CreateTimeout(n) ==
    LET r == node[n]
        alike == {b \in made : IsPreBlock(r.tip, b) /\ View(b) = r.view /\ Last(b).miner = n}
        b == Append(r.tip, [view |-> r.view, miner |-> n, copy |-> Cardinality(alike)])
    IN  /\ r.state = "waitingCreate" /\ Len(r.tip) < MaxHeight
        /\ Cardinality(made) < MaxBlocks
        /\ \E s \in ResetTimer(n, [r EXCEPT !.state = "waitingProposal"]) : Become(n, s)
        /\ made' = made \cup {b}
        /\ StartTask(n, b, "propose")
        /\ UNCHANGED <<adding, channel, mined, signed, timeouts>>

\* _onTimeout of everybody else starts a change of view.
ViewTimeout(n) ==
    LET r == node[n]
        newView == IF r.state = "changeViewSent" THEN r.expect + 1 ELSE r.view + 1
        sent == [r EXCEPT !.state = "changeViewSent", !.expect = newView,
                          !.block = {}, !.preSigns = {}, !.signs = {}]
    IN  /\ r.state # "waitingCreate" /\ Len(r.tip) < MaxHeight
        /\ newView <= MaxView
        /\ \E s \in OnChangeView(n, sent, n, newView) :
             \E t \in ResetTimer(n, s) : Become(n, t)
        /\ Broadcast(n, [type |-> "changeview", tip |-> r.tip, view |-> newView])
        /\ timeouts < MaxTimeout /\ timeouts' = timeouts + 1
        /\ UNCHANGED <<miner, mined, made, signed>>

----------------------------------------------------------------------------
\* The miner's awaits

\* newProposal, when the storage for the block has been created.  It is not
\* looked at whether the miner has been taken over, or the view has changed.
NewProposal(n, b) ==
    LET r == node[n]
    IN  /\ <<b, "propose">> \in tasks[n]
        /\ \/ /\ r.state = "waitingProposal" /\ IsPreBlock(r.tip, b)
              /\ Become(n, [r EXCEPT !.state = "waitingVerify", !.block = {b},
                                     !.preSigns = {}])
              /\ Broadcast(n, [type |-> "prepareRequest", block |-> b])
              /\ tasks' = [tasks EXCEPT ![n] = (@ \ {<<b, "propose">>}) \cup {<<b, "execute">>}]
              /\ UNCHANGED current
           \/ /\ ~(r.state = "waitingProposal" /\ IsPreBlock(r.tip, b))
              /\ tasks' = [tasks EXCEPT ![n] = @ \ {<<b, "propose">>}]
              /\ current' = [current EXCEPT ![n] = @ \ {b}]
              /\ UNCHANGED <<node, channel>>
        /\ UNCHANGED <<adding, mined, made, signed, timeouts>>

\* _onPrepareResponse in waitingAgree, and mineBlock when the rate is reached:
\* the routine goes on unless the miner has been taken over.
Agree(n, r, signs) ==
    IF AgreeRateReached(Cardinality(signs))
    THEN /\ Become(n, [r EXCEPT !.state = "waitingBlock", !.signs = signs])
         /\ adding' = [adding EXCEPT ![n] = @ \cup (r.block \cap current[n])]
         /\ current' = [current EXCEPT ![n] = @ \ r.block]
    ELSE /\ Become(n, [r EXCEPT !.signs = signs])
         /\ UNCHANGED <<adding, current>>

\* _checkCancel: the miner has been taken over by a later block.
Cancelled(n, b) == current[n] # {b}

\* Mutant: the hash of an early response is not compared.
EarlySigners_AnyHash(r, b) == {s[1] : s \in r.preSigns}

\* Those whose response to b came before b was executed.
EarlySigners(r, b) == {s[1] : s \in {p \in r.preSigns : p[2] = b}}

\* The block has been executed (executions succeed): agreeProposal, unless the
\* routine was cancelled.
AgreeProposal(n, b) ==
    LET r == node[n]
        agrees == /\ ~Cancelled(n, b)
                  /\ r.state = "waitingVerify" /\ IsPreBlock(r.tip, b)
    IN  /\ <<b, "execute">> \in tasks[n]
        /\ tasks' = [tasks EXCEPT ![n] = @ \ {<<b, "execute">>}]
        /\ \/ /\ agrees
              /\ Agree(n, [r EXCEPT !.state = "waitingAgree", !.block = {b}, !.preSigns = {}],
                       EarlySigners(r, b) \cup {n})
              /\ Broadcast(n, [type |-> "prepareResponse", block |-> b])
              /\ signed' = [signed EXCEPT ![n] = @ \cup {b}]
           \/ ~agrees /\ UNCHANGED <<node, current, adding, channel, signed>>
        /\ UNCHANGED <<mined, made, timeouts>>

\* addMinedBlock: the chain takes the block if it extends the tip, and the miner
\* hears of the new tip.
AddMinedBlock(n, b) ==
    LET r == node[n]
    IN  /\ b \in adding[n]
        /\ adding' = [adding EXCEPT ![n] = @ \ {b}]
        /\ mined' = mined \cup {b}
        /\ IF IsPreBlock(r.tip, b) THEN \E s \in UpdateTip(n, r, b) : Become(n, s)
                                   ELSE UNCHANGED node
        /\ Retire
        /\ UNCHANGED <<made, signed, timeouts>>

\* The chain fetches a block that another node has mined.
SyncBlock(n, b) ==
    /\ b \in mined /\ IsPreBlock(node[n].tip, b)
    /\ \E s \in UpdateTip(n, node[n], b) : Become(n, s)
    /\ Retire
    /\ UNCHANGED <<adding, mined, made, signed, timeouts>>

----------------------------------------------------------------------------
\* Packages

\* _onPrepareRequest
OnPrepareRequest(n, b) ==
    LET r == node[n]
        expected == /\ r.state = "waitingProposal" /\ IsPreBlock(r.tip, b)
                    /\ View(b) = r.view /\ Last(b).miner = Due(r.tip, r.view)
    IN  IF expected
        THEN /\ Become(n, [r EXCEPT !.state = "waitingVerify", !.block = {b}])
             /\ StartTask(n, b, "execute")
             /\ UNCHANGED adding
        ELSE UNCHANGED <<node, miner>>

\* _onPrepareResponse from another node
OnPrepareResponse(n, m, b) ==
    LET r == node[n]
    IN  CASE r.state = "waitingAgree" /\ r.block = {b} /\ m \notin r.signs ->
                Agree(n, r, r.signs \cup {m}) /\ UNCHANGED tasks
          [] r.state \in {"waitingProposal", "waitingVerify"}
             /\ \A p \in r.preSigns : p[1] # m ->
                Become(n, [r EXCEPT !.preSigns = @ \cup {<<m, b>>}]) /\ UNCHANGED miner
          [] OTHER -> UNCHANGED <<node, miner>>

Receive(n, m) ==
    LET package == Head(channel[<<m, n>>])
    IN  /\ channel[<<m, n>>] # <<>>
        /\ channel' = [channel EXCEPT ![<<m, n>>] = Tail(@)]
        /\ \/ /\ package.type = "prepareRequest"
              /\ OnPrepareRequest(n, package.block)
           \/ /\ package.type = "prepareResponse"
              /\ OnPrepareResponse(n, m, package.block)
           \/ /\ package.type = "changeview" /\ package.tip = node[n].tip
              /\ \E s \in OnChangeView(n, node[n], m, package.view) : Become(n, s)
              /\ UNCHANGED miner
           \/ /\ package.type = "changeview" /\ package.tip # node[n].tip
              /\ UNCHANGED <<node, miner>>
        /\ UNCHANGED <<mined, made, signed, timeouts>>

Progress == \E n \in Node :
    \/ CreateTimeout(n)
    \/ \E b \in made : NewProposal(n, b) \/ AgreeProposal(n, b)
    \/ \E b \in made : AddMinedBlock(n, b) \/ SyncBlock(n, b)
    \/ \E m \in Node : Receive(n, m)

Next == Progress \/ \E n \in Node : ViewTimeout(n)

Spec == Init /\ [][Next]_vars

----------------------------------------------------------------------------
\* Properties

Signers(b) == {n \in Node : b \in signed[n]}

\* A block is mined only when validators that reach the agree rate have each
\* executed and signed that block: responses that came early or late, for other
\* views or other tips, are never counted for it.
MinedWasAgreed ==
    \A b \in mined \cup UNION {adding[n] : n \in Node} : AgreeRateReached(Cardinality(Signers(b)))

\* While the consensus node counts signatures for a block, the miner holds that
\* block's routine, so that reaching the rate has somebody to tell.
MinerHoldsBlock ==
    \A n \in Node : node[n].state = "waitingAgree" => current[n] = node[n].block

Quiet == timeouts = 0 /\ \A n \in Node : node[n].view = 0

\* When no deadline passes, the block that is proposed is mined and every node
\* takes it, in whatever order requests, responses and executions come: the
\* nodes do not run out of steps before.
QuietViewMines ==
    Quiet /\ ~ENABLED Progress => \A n \in Node : node[n].tip # Genesis

\* Only what enough validators signed is mined, and whoever counts signatures has
\* a miner to tell when there are enough.
AgreementHolds == TypeOK /\ MinedWasAgreed /\ MinerHoldsBlock
=============================================================================
