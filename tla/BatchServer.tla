---------------------------- MODULE BatchServer ----------------------------
(***************************************************************************)
(* What one lane of the catch-up server's request queue promises, without  *)
(* lists, flags or events: a request that finds the lane idle is served at *)
(* once, any other waits, and the completion of any served request starts  *)
(* everything that waits.  A request is answered once, and only after it   *)
(* was served.                                                             *)
(***************************************************************************)
CONSTANT Request

VARIABLES waiting,   \* accepted, not started
          serving,   \* handler called, not answered
          answered   \* callback called

vars == <<waiting, serving, answered>>

Known == waiting \cup serving \cup answered

Init == waiting = {} /\ serving = {} /\ answered = {}

Accept(r) ==
    /\ r \in Request \ Known
    /\ IF waiting \cup serving = {}
       THEN serving' = {r} /\ UNCHANGED waiting
       ELSE waiting' = waiting \cup {r} /\ UNCHANGED serving
    /\ UNCHANGED answered

Answer(r) ==
    /\ r \in serving
    /\ serving' = (serving \ {r}) \cup waiting
    /\ waiting' = {}
    /\ answered' = answered \cup {r}

Next == \E r \in Request : Accept(r) \/ Answer(r)

Spec == Init /\ [][Next]_vars
=============================================================================
