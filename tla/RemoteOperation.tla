---------------------------- MODULE RemoteOperation ----------------------------
(***************************************************************************)
(* What the service promises about one operation in amoCRM, without        *)
(* attempts, timeouts, bodies or statuses: it is executed at most once,    *)
(* the client is told of a success only after amoCRM has confirmed it, and *)
(* of a failure only if it has not.  A failure says nothing about whether  *)
(* the operation was executed, or still will be.                           *)
(***************************************************************************)
EXTENDS Naturals

VARIABLES
    executed,   (* how often amoCRM has executed the operation            *)
    confirmed,  (* a complete confirmation of amoCRM has arrived          *)
    told        (* what the client was told                               *)

vars == <<executed, confirmed, told>>

Init ==
    /\ executed = 0
    /\ confirmed = FALSE
    /\ told = "nothing"

(* amoCRM executes it and nobody learns of it: the reply is lost, late or  *)
(* useless, and the client may even have been told of a failure before.    *)
Execute ==
    /\ executed = 0
    /\ ~confirmed /\ told # "success"
    /\ executed' = 1
    /\ UNCHANGED <<confirmed, told>>

(* amoCRM confirms what it has executed, at once or some time ago.         *)
Confirm ==
    /\ told = "nothing" /\ ~confirmed
    /\ executed \in {0, 1}
    /\ executed' = 1
    /\ confirmed' = TRUE
    /\ UNCHANGED told

(* The client is told how it ended.                                        *)
Succeed ==
    /\ told = "nothing" /\ confirmed
    /\ told' = "success"
    /\ UNCHANGED <<executed, confirmed>>

Fail ==
    /\ told = "nothing" /\ ~confirmed
    /\ told' = "failure"
    /\ UNCHANGED <<executed, confirmed>>

Next == Execute \/ Confirm \/ Succeed \/ Fail

Spec == Init /\ [][Next]_vars
=============================================================================
