------------------------------ MODULE Service ------------------------------
(***************************************************************************)
(* The catch-up service as a process: main() of index.ts (Startup) and,    *)
(* once it has come to its end, the loop it starts (Synchro).  Both work   *)
(* on the same database files.  Whatever ends the process - a crash, an    *)
(* assert of main(), the rejection of "Obsolete storage!" - ends both, and *)
(* the next process begins with main() again.                              *)
(*                                                                         *)
(* A process that is gone keeps no memory: the loop's variables are what   *)
(* the next process will read from the status table.                       *)
(***************************************************************************)
EXTENDS Synchro, Sequences

CONSTANTS PreBalances,   \* addresses of config/genesis.json, in file order
          MaxBootFault   \* bound on statements of main() that fail

ASSUME ServiceConstants ==
    /\ MaxBootFault \in Nat
    /\ PreBalances \in Seq({PreBalances[i] : i \in 1..Len(PreBalances)})

VARIABLES main,          \* next statement of main()
          next, heightRow, flagRow, names, accounts, tokenRow, bootFaults

S == INSTANCE Startup WITH pc <- main, dbFaults <- bootFaults, MaxDbFault <- MaxBootFault

tables == <<heightRow, flagRow, names, accounts, tokenRow>>
bootVars == <<main, next, tables, bootFaults>>
loopVars == <<lib, known, height, durable, pc, range, rpcFaults, dbFaults>>
serviceVars == <<vars, bootVars>>

ServiceInit == Init /\ S!Init

Main == S!Main /\ UNCHANGED loopVars

\* A copied transaction writes the names and then the balances of its parties,
\* whom the genesis file may name, and replaces the rows that are there; one
\* that fails has written some of them.
CopiedRows ==
    \E parties \in SUBSET S!Addresses : \E updated \in SUBSET parties :
        /\ pc' = "save" => updated = parties
        /\ names' = names \cup parties
        /\ accounts' = accounts \cup updated

LoopStep ==
    /\ main = "serving"
    /\ Loop
    /\ IF pc = "txs" THEN CopiedRows ELSE UNCHANGED <<names, accounts>>
    /\ UNCHANGED <<main, next, heightRow, flagRow, tokenRow, bootFaults>>

\* The process is killed, or the loop finds more blocks than the chain has.
ProcessEnds ==
    /\ main = "serving"
    /\ Crash \/ Restart
    /\ main' = "down"
    /\ UNCHANGED <<next, tables, bootFaults>>

CrashInMain == main # "serving" /\ S!Crash /\ UNCHANGED loopVars

Started == S!Restart /\ UNCHANGED loopVars

ServiceNext ==
    \/ Main
    \/ LoopStep
    \/ ProcessEnds
    \/ CrashInMain
    \/ Started
    \/ ChainGrows /\ UNCHANGED bootVars

ServiceSpec == ServiceInit /\ [][ServiceNext]_serviceVars

\* Statements complete, timers fire, the chain node answers, and a process that
\* ended is started again.
FairService ==
    /\ ServiceSpec
    /\ WF_serviceVars(Main) /\ WF_serviceVars(LoopStep) /\ WF_serviceVars(Started)
    /\ WF_serviceVars(Restart /\ ProcessEnds)

-----------------------------------------------------------------------------
\* The flag is set last: wherever main() died before, and whatever the loop
\* wrote in a process that could not read the flag, a database that says the
\* genesis file was loaded holds every balance of it.
FlagMeansLoaded == flagRow = "one" => S!GenesisLoaded

\* A service whose genesis file was loaded reaches the chain, wherever it
\* stood, however often and wherever its process ends: no crash, failed
\* statement or lost answer keeps main() from coming to its end again over the
\* same files, nor the loop from going on.
ServiceCatchesUp ==
    \A n \in Heights : (flagRow = "one" /\ lib = n) ~> height >= n
=============================================================================
