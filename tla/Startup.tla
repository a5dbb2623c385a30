------------------------------ MODULE Startup ------------------------------
(***************************************************************************)
(* Starting the catch-up service: main() of index.ts opens both databases, *)
(* makes sure the status rows exist (lib/storage/statusdb.ts) and, the     *)
(* first time, loads the genesis balances with plain INSERTs before it     *)
(* sets the loadedgenesis flag and starts the loop and the server.         *)
(*                                                                         *)
(* One step per awaited statement.  A statement that fails makes assert()  *)
(* throw, which ends the process; whoever runs the service starts it again *)
(* over the same database files.                                           *)
(***************************************************************************)
EXTENDS Naturals, Sequences

CONSTANTS PreBalances,   \* addresses of config/genesis.json, in file order
          MaxCrash,      \* bound on crashes
          MaxDbFault     \* bound on statements that fail by themselves

VARIABLES pc,         \* next statement of main()
          next,       \* index of the pre-balance being loaded
          heightRow, flagRow,   \* durable: the two rows of the status table
          names,      \* durable: hash table
          accounts,   \* durable: account table
          tokenRow,   \* durable: the SYS row of the token table
          crashes, dbFaults

durable == <<heightRow, flagRow, names, accounts, tokenRow>>
vars == <<pc, next, durable, crashes, dbFaults>>

Addresses == {PreBalances[i] : i \in 1..Len(PreBalances)}
Sys == "SYS"

\* main() is at one of its statements, at an existing pre-balance, and the
\* tables hold only what the genesis file names.
TypeOK ==
    /\ pc \in {"heightRow", "flagRow", "sysName", "account", "name", "token",
               "setFlag", "serving", "down"}
    /\ next \in 1..(Len(PreBalances) + 1)
    /\ heightRow \in BOOLEAN /\ flagRow \in {"none", "zero", "one"}
    /\ names \subseteq Addresses \cup {Sys}
    /\ accounts \subseteq Addresses
    /\ tokenRow \in BOOLEAN
    /\ crashes \in 0..MaxCrash /\ dbFaults \in 0..MaxDbFault

Init ==
    /\ pc = "heightRow" /\ next = 1
    /\ heightRow = FALSE /\ flagRow = "none"
    /\ names = {} /\ accounts = {} /\ tokenRow = FALSE
    /\ crashes = 0 /\ dbFaults = 0

----------------------------------------------------------------------------
\* Statements

\* A statement fails by itself.
Fault ==
    /\ dbFaults < MaxDbFault
    /\ dbFaults' = dbFaults + 1
    /\ pc' = "down"
    /\ UNCHANGED <<next, durable>>

\* INSERT INTO a table that already holds the primary key: assert throws.
KeyTaken ==
    /\ pc' = "down"
    /\ UNCHANGED <<next, durable, dbFaults>>

\* getCurrentHeight reads the height row or inserts it.  When the read fails
\* it inserts all the same, which works only if the row is not there.
HeightRow ==
    /\ pc = "heightRow"
    /\ \/ /\ heightRow' = TRUE
          /\ pc' = "flagRow"
          /\ UNCHANGED <<next, flagRow, names, accounts, tokenRow, dbFaults>>
       \/ Fault
    /\ UNCHANGED crashes

\* Mutant: a missing flag row is inserted as loaded.
FlagRow_DefaultsToLoaded ==
    /\ pc = "flagRow"
    /\ flagRow' = IF flagRow = "none" THEN "one" ELSE flagRow
    /\ pc' = IF flagRow' = "zero" THEN "sysName" ELSE "serving"
    /\ UNCHANGED <<next, heightRow, names, accounts, tokenRow, crashes, dbFaults>>

\* Mutant: any flag row that can be read starts the load.
FlagRow_LoadsAgain ==
    /\ pc = "flagRow"
    /\ flagRow' = IF flagRow = "none" THEN "zero" ELSE flagRow
    /\ pc' = "sysName"
    /\ UNCHANGED <<next, heightRow, names, accounts, tokenRow, crashes, dbFaults>>

\* getLoadGenesisFileBool does the same for the flag, but init() does not look
\* at its error: nLoadGenesisFile is then undefined, which is not 0.
FlagRow ==
    /\ pc = "flagRow"
    /\ \/ /\ flagRow' = IF flagRow = "none" THEN "zero" ELSE flagRow
          /\ pc' = IF flagRow' = "zero" THEN "sysName" ELSE "serving"
          /\ UNCHANGED dbFaults
       \/ /\ dbFaults < MaxDbFault
          /\ dbFaults' = dbFaults + 1
          /\ pc' = "serving"
          /\ UNCHANGED flagRow
    /\ UNCHANGED <<next, heightRow, names, accounts, tokenRow, crashes>>

\* Where main() goes when `next` pre-balances are done.
AfterBalance(n) == IF n > Len(PreBalances) THEN "token" ELSE "account"

SysName ==
    /\ pc = "sysName"
    /\ \/ /\ Sys \notin names
          /\ names' = names \cup {Sys}
          /\ pc' = AfterBalance(next)
          /\ UNCHANGED <<next, heightRow, flagRow, accounts, tokenRow,
                         dbFaults>>
       \/ Sys \in names /\ KeyTaken
       \/ Fault
    /\ UNCHANGED crashes

Account ==
    /\ pc = "account"
    /\ \/ /\ PreBalances[next] \notin accounts
          /\ accounts' = accounts \cup {PreBalances[next]}
          /\ pc' = "name"
          /\ UNCHANGED <<next, heightRow, flagRow, names, tokenRow,
                         dbFaults>>
       \/ PreBalances[next] \in accounts /\ KeyTaken
       \/ Fault
    /\ UNCHANGED crashes

Name ==
    /\ pc = "name"
    /\ \/ /\ PreBalances[next] \notin names
          /\ names' = names \cup {PreBalances[next]}
          /\ next' = next + 1
          /\ pc' = AfterBalance(next + 1)
          /\ UNCHANGED <<heightRow, flagRow, accounts, tokenRow,
                         dbFaults>>
       \/ PreBalances[next] \in names /\ KeyTaken
       \/ Fault
    /\ UNCHANGED crashes

\* insertTokenTable is an INSERT OR REPLACE.
Token ==
    /\ pc = "token"
    /\ \/ /\ tokenRow' = TRUE
          /\ pc' = "setFlag"
          /\ UNCHANGED <<next, heightRow, flagRow, names, accounts,
                         dbFaults>>
       \/ Fault
    /\ UNCHANGED crashes

\* setLoadGenesisFileBool(1), then client.start() and server.start().
SetFlag ==
    /\ pc = "setFlag"
    /\ \/ /\ flagRow' = "one"
          /\ pc' = "serving"
          /\ UNCHANGED <<next, heightRow, names, accounts, tokenRow,
                         dbFaults>>
       \/ Fault
    /\ UNCHANGED crashes

Main == \/ HeightRow \/ FlagRow \/ SysName \/ Account \/ Name \/ Token
        \/ SetFlag

----------------------------------------------------------------------------
\* Environment

Crash ==
    /\ pc # "down" /\ crashes < MaxCrash
    /\ crashes' = crashes + 1
    /\ pc' = "down"
    /\ UNCHANGED <<next, durable, dbFaults>>

Restart ==
    /\ pc = "down"
    /\ pc' = "heightRow" /\ next' = 1
    /\ UNCHANGED <<durable, crashes, dbFaults>>

Next == Main \/ Crash \/ Restart

Spec == Init /\ [][Next]_vars

\* Statements complete and a process that died is started again.
FairSpec == Spec /\ WF_vars(Main) /\ WF_vars(Restart)

----------------------------------------------------------------------------
\* Properties

GenesisLoaded == Addresses \subseteq accounts \cap names
                   /\ Sys \in names /\ tokenRow
=============================================================================
