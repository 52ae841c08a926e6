------------------------------ MODULE AppLifecycle ------------------------------
(***************************************************************************)
(* The life of the process: main connects to the database and starts the   *)
(* goroutines of App.Run; a signal cancels one context that all of them,   *)
(* and every SQL statement, have as an ancestor.  The channels UsersDB and *)
(* Exit then order the end: App, DB, main.                                 *)
(***************************************************************************)
EXTENDS Naturals

CONSTANTS
    Requests,   (* HTTP requests                                            *)
    Faults      (* subset of {"connect", "listen", "statement"}             *)

(* main, Server.Handler, the goroutine of App.Run that waits for the       *)
(* signal, DB.HandlerClose, CRM.StartOAuthStateCleanup.                    *)
Goroutines == {"main", "server", "stopper", "closer", "cleaner"}

VARIABLES
    at,         (* where each goroutine is                                  *)
    cancelled,  (* the context of signal.NotifyContext is done              *)
    usersDB,    (* state.UsersDB is closed                                  *)
    exit,       (* state.Exit is closed                                     *)
    database,   (* the connection: "none", "open" or "closed"               *)
    req         (* where each request is                                    *)

vars == <<at, cancelled, usersDB, exit, database, req>>

(* The places of each goroutine; main's also tell how the process ended.   *)
Places == [main    |-> {"connecting", "building", "built", "waiting",
                       "returned", "fatal"},
           server  |-> {"off", "starting", "listening"},
           stopper |-> {"off", "waiting", "shutdown", "done"},
           closer  |-> {"off", "waiting", "users", "closed", "done"},
           cleaner |-> {"off", "statement", "waiting", "stopped"}]

TypeOK ==
    /\ DOMAIN at = Goroutines
    /\ \A g \in Goroutines : at[g] \in Places[g]
    /\ cancelled \in BOOLEAN
    /\ usersDB \in BOOLEAN
    /\ exit \in BOOLEAN
    /\ database \in {"none", "open", "closed"}
    /\ req \in [Requests -> {"new", "reading", "remote", "writing", "answered"}]

Init ==
    /\ at = [g \in Goroutines |-> IF g = "main" THEN "connecting" ELSE "off"]
    /\ cancelled = FALSE
    /\ usersDB = FALSE
    /\ exit = FALSE
    /\ database = "none"
    /\ req = [r \in Requests |-> "new"]

(* The end of main, or logger.Fatal anywhere, ends every goroutine.        *)
Running == at["main"] \notin {"returned", "fatal"}

Move(g, from, to) ==
    /\ Running
    /\ at[g] = from
    /\ at' = [at EXCEPT ![g] = to]

-----------------------------------------------------------------------------
(* main and App.                                                           *)

(* SIGINT or SIGTERM; NotifyContext swallows all that follow.              *)
Signal ==
    /\ Running /\ ~cancelled
    /\ cancelled' = TRUE
    /\ UNCHANGED <<at, usersDB, exit, database, req>>

(* db.New ...                                                              *)
Connect ==
    /\ Move("main", "connecting", "building")
    /\ database' = "open"
    /\ UNCHANGED <<cancelled, usersDB, exit, req>>

(* Defect: the error of db.New is not looked at.                           *)
KeepFailed ==
    /\ cancelled \/ "connect" \in Faults
    /\ Move("main", "connecting", "building")
    /\ database' = "failed"
    /\ UNCHANGED <<cancelled, usersDB, exit, req>>

(* ... which may also fail because the signal came before.                 *)
ConnectFails ==
    /\ cancelled \/ "connect" \in Faults
    /\ Move("main", "connecting", "fatal")
    /\ UNCHANGED <<cancelled, usersDB, exit, database, req>>

(* crm.New: the registry, the service and the handlers; no goroutine that  *)
(* matters here.                                                           *)
Build ==
    /\ Move("main", "building", "built")
    /\ UNCHANGED <<cancelled, usersDB, exit, database, req>>

(* App.Run starts its goroutines, and main waits for Exit.                 *)
Run ==
    /\ at["main"] = "built"
    /\ at' = [main |-> "waiting", server |-> "starting", stopper |-> "waiting",
              closer |-> "waiting", cleaner |-> "statement"]
    /\ UNCHANGED <<cancelled, usersDB, exit, database, req>>

Return ==
    /\ exit
    /\ Move("main", "waiting", "returned")
    /\ UNCHANGED <<cancelled, usersDB, exit, database, req>>

(* crm.Shutdown cancels a context that is done already.                    *)
Shutdown ==
    /\ cancelled
    /\ Move("stopper", "waiting", "shutdown")
    /\ UNCHANGED <<cancelled, usersDB, exit, database, req>>

(* Defect: App.Run does not close UsersDB.                                 *)
ForgetUsersDB ==
    /\ Move("stopper", "shutdown", "done")
    /\ UNCHANGED <<cancelled, usersDB, exit, database, req>>

CloseUsersDB ==
    /\ Move("stopper", "shutdown", "done")
    /\ usersDB' = TRUE
    /\ UNCHANGED <<cancelled, exit, database, req>>

-----------------------------------------------------------------------------
(* DB.HandlerClose.                                                        *)

SeeCancel ==
    /\ cancelled
    /\ Move("closer", "waiting", "users")
    /\ UNCHANGED <<cancelled, usersDB, exit, database, req>>

(* Defect: it does not wait for UsersDB.                                   *)
CloseAtOnce ==
    /\ Move("closer", "users", "closed")
    /\ database' = "closed"
    /\ UNCHANGED <<cancelled, usersDB, exit, req>>

(* Whether or not Close reports an error.                                  *)
CloseDatabase ==
    /\ usersDB
    /\ Move("closer", "users", "closed")
    /\ database' = "closed"
    /\ UNCHANGED <<cancelled, usersDB, exit, req>>

CloseExit ==
    /\ Move("closer", "closed", "done")
    /\ exit' = TRUE
    /\ UNCHANGED <<cancelled, usersDB, database, req>>

-----------------------------------------------------------------------------
(* The clean-up of OAuth states.                                           *)

(* Defect: a failed statement ends the goroutine.                          *)
EndAfterError ==
    /\ \/ Move("cleaner", "statement", "waiting")
       \/ /\ cancelled \/ "statement" \in Faults
          /\ Move("cleaner", "statement", "stopped")
    /\ UNCHANGED <<cancelled, usersDB, exit, database, req>>

(* The DELETE ends; an error is only logged.                               *)
CleanupDone ==
    /\ Move("cleaner", "statement", "waiting")
    /\ UNCHANGED <<cancelled, usersDB, exit, database, req>>

(* select takes the ticker or, once it is done, the context.               *)
CleanupTick ==
    /\ Move("cleaner", "waiting", "statement")
    /\ UNCHANGED <<cancelled, usersDB, exit, database, req>>

CleanupStops ==
    /\ cancelled
    /\ Move("cleaner", "waiting", "stopped")
    /\ UNCHANGED <<cancelled, usersDB, exit, database, req>>

-----------------------------------------------------------------------------
(* The server and its requests.  Nothing ever stops it from accepting.     *)

Listen ==
    /\ Move("server", "starting", "listening")
    /\ UNCHANGED <<cancelled, usersDB, exit, database, req>>

(* Server.Handler returns an error; App.Run ends the process.              *)
ListenFails ==
    /\ "listen" \in Faults
    /\ at["server"] = "starting"
    /\ Move("main", "waiting", "fatal")
    /\ UNCHANGED <<cancelled, usersDB, exit, database, req>>

Goto(r, place) ==
    /\ req' = [req EXCEPT ![r] = place]
    /\ UNCHANGED <<at, cancelled, usersDB, exit, database>>

(* A statement's context descends from that of main: after the signal it   *)
(* does not begin, and the handler answers with the error.                 *)
Begin(r, statement) == Goto(r, IF cancelled THEN "answered" ELSE statement)

Accept(r) ==
    /\ Running
    /\ at["server"] = "listening" /\ req[r] = "new"
    /\ Begin(r, "reading")

(* The configuration is read; a statement under way may be cancelled.      *)
ReadDone(r) ==
    /\ Running /\ req[r] = "reading"
    /\ \/ Goto(r, "remote")
       \/ /\ cancelled \/ "statement" \in Faults
          /\ Goto(r, "answered")

(* amoCRM answers, at any time; the handler stores a result or has none.   *)
RemoteDone(r) ==
    /\ Running /\ req[r] = "remote"
    /\ Begin(r, "writing") \/ Goto(r, "answered")

WriteDone(r) ==
    /\ Running /\ req[r] = "writing"
    /\ Goto(r, "answered")

-----------------------------------------------------------------------------
(* The specification.                                                      *)

Main == Connect \/ ConnectFails \/ Build \/ Run \/ Return
Stopper == Shutdown \/ CloseUsersDB
Closer == SeeCancel \/ CloseDatabase \/ CloseExit
Cleaner == CleanupDone \/ CleanupTick \/ CleanupStops
Server == Listen \/ ListenFails
Serve(r) == ReadDone(r) \/ RemoteDone(r) \/ WriteDone(r)

Next ==
    \/ Signal
    \/ Main
    \/ Stopper
    \/ Closer
    \/ Cleaner
    \/ Server
    \/ \E r \in Requests : Accept(r) \/ Serve(r)

Spec == Init /\ [][Next]_vars

(* Go runs every goroutine that can run; what they wait for ends: dials,   *)
(* statements and calls have timeouts, and the ticker fires.               *)
Fairness ==
    /\ WF_vars(Main)
    /\ WF_vars(Stopper)
    /\ WF_vars(Closer)
    /\ WF_vars(Cleaner)
    /\ WF_vars(Server)
    /\ \A r \in Requests : WF_vars(Serve(r))

FairSpec == Spec /\ Fairness

-----------------------------------------------------------------------------
(* Properties.                                                             *)

(* The end is ordered by two channels over three goroutines: main returns  *)
(* only after the database was closed, and the database is closed only     *)
(* after a signal and after App has shut down its modules (app.go, db.go). *)
StopsInOrder ==
    /\ database = "closed" => cancelled /\ at["stopper"] = "done"
    /\ at["main"] = "returned" => database = "closed"

(* A signal at any moment, before, during or after the start, ends the     *)
(* process: nobody waits for a channel that nobody closes (App.Run,        *)
(* DB.HandlerClose, main).                                                 *)
SignalEndsProcess == cancelled ~> ~Running

(* Until the end, expired states are removed again and again, also after   *)
(* a statement has failed (StartOAuthStateCleanup).                        *)
CleanupGoesOn ==
    at["cleaner"] # "off"
        ~> (at["cleaner"] = "statement" \/ cancelled \/ ~Running)
=============================================================================
