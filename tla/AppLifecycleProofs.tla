--------------------------- MODULE AppLifecycleProofs ---------------------------
(***************************************************************************)
(* Proofs about AppLifecycle for any set of requests and any faults.       *)
(***************************************************************************)
EXTENDS AppLifecycle, TLAPS

(* Nothing runs before App.Run, and the database is opened before it.      *)
Started ==
    /\ at["main"] = "connecting" => database = "none"
    /\ at["main"] \in {"connecting", "building", "built"} =>
         \A g \in Goroutines \ {"main"} : at[g] = "off"

(* App: its goroutine goes on after the signal, and UsersDB is closed at   *)
(* its end.                                                                *)
AppEnds ==
    /\ at["stopper"] \in {"shutdown", "done"} => cancelled
    /\ usersDB => at["stopper"] = "done"

(* DB: the database is closed after UsersDB, and Exit after the database;  *)
(* main returns after Exit.                                                *)
ChannelsOrder ==
    /\ database = "closed" => usersDB
    /\ at["closer"] \in {"closed", "done"} => database = "closed"
    /\ exit => at["closer"] = "done"
    /\ at["main"] = "returned" => exit

Inv == TypeOK /\ Started /\ AppEnds /\ ChannelsOrder

-----------------------------------------------------------------------------
(* Lemmas.                                                                 *)

(* A goroutine that moves is where it went, and all others stay.           *)
LEMMA Moved ==
    ASSUME TypeOK, NEW g \in Goroutines, NEW from, NEW to \in Places[g],
           Move(g, from, to)
    PROVE  /\ DOMAIN at' = Goroutines
           /\ at'[g] = to
           /\ \A h \in Goroutines \ {g} : at'[h] = at[h]
           /\ \A h \in Goroutines : at'[h] \in Places[h]
           /\ Running /\ at[g] = from
BY DEF TypeOK, Move

(* A request's step changes only that request.                             *)
LEMMA RequestStep ==
    ASSUME Inv, NEW r \in Requests,
           NEW place \in {"new", "reading", "remote", "writing", "answered"},
           Goto(r, place)
    PROVE  Inv'
BY DEF Inv, TypeOK, Started, AppEnds, ChannelsOrder, Goto, Running

(* The initial state satisfies the invariant.                              *)
LEMMA InitInv == Init => Inv
<1> SUFFICES ASSUME Init PROVE Inv
  OBVIOUS
<1>1. /\ DOMAIN at = Goroutines
      /\ at["main"] = "connecting"
      /\ \A g \in Goroutines \ {"main"} : at[g] = "off"
  BY DEF Init, Goroutines
<1>2. /\ at["stopper"] = "off" /\ at["closer"] = "off"
  BY <1>1 DEF Goroutines
<1>3. \A g \in Goroutines : at[g] \in Places[g]
  BY <1>1 DEF Goroutines, Places
<1>4. TypeOK
  BY <1>1, <1>3 DEF Init, TypeOK
<1>5. Started
  BY <1>1 DEF Init, Started
<1>6. AppEnds /\ ChannelsOrder
  BY <1>1, <1>2 DEF Init, AppEnds, ChannelsOrder
<1> QED
  BY <1>4, <1>5, <1>6 DEF Inv

(* Every step keeps the invariant.                                         *)
LEMMA NextInv == Inv /\ [Next]_vars => Inv'
<1> SUFFICES ASSUME Inv, [Next]_vars PROVE Inv'
  OBVIOUS
<1> USE DEF Inv, Started, AppEnds, ChannelsOrder
<1>0. /\ {"main", "server", "stopper", "closer", "cleaner"} = Goroutines
      /\ {"building", "built", "returned", "fatal"} \subseteq Places["main"]
      /\ "listening" \in Places["server"]
      /\ {"shutdown", "done"} \subseteq Places["stopper"]
      /\ {"users", "closed", "done"} \subseteq Places["closer"]
      /\ {"statement", "waiting", "stopped"} \subseteq Places["cleaner"]
  BY DEF Goroutines, Places
<1>1. CASE Signal
  BY <1>1 DEF Signal, TypeOK
<1>2. CASE Connect
  BY <1>0, <1>2, Moved DEF Connect, TypeOK, Running
<1>3. CASE ConnectFails
  BY <1>0, <1>3, Moved DEF ConnectFails, TypeOK, Running
<1>4. CASE Run
  BY <1>4 DEF Run, TypeOK, Goroutines, Places
<1>5. CASE Return
  BY <1>0, <1>5, Moved DEF Return, TypeOK, Running
<1>6. CASE Shutdown
  BY <1>0, <1>6, Moved DEF Shutdown, TypeOK, Running
<1>7. CASE CloseUsersDB
  BY <1>0, <1>7, Moved DEF CloseUsersDB, TypeOK, Running
<1>8. CASE SeeCancel
  BY <1>0, <1>8, Moved DEF SeeCancel, TypeOK, Running
<1>9. CASE CloseDatabase
  BY <1>0, <1>9, Moved DEF CloseDatabase, TypeOK, Running
<1>10. CASE CloseExit
  BY <1>0, <1>10, Moved DEF CloseExit, TypeOK, Running
<1>11. CASE Cleaner
  BY <1>0, <1>11, Moved
     DEF Cleaner, CleanupDone, CleanupTick, CleanupStops, TypeOK, Running
<1>12. CASE Listen
  BY <1>0, <1>12, Moved DEF Listen, TypeOK, Running
<1>13. CASE ListenFails
  BY <1>0, <1>13, Moved DEF ListenFails, TypeOK, Running
<1>14. CASE \E r \in Requests : Accept(r) \/ Serve(r)
  BY <1>14, RequestStep DEF Accept, Serve, ReadDone, RemoteDone, WriteDone, Begin
<1>15. CASE Build
  BY <1>0, <1>15, Moved DEF Build, TypeOK, Running
<1>16. CASE UNCHANGED vars
  BY <1>16 DEF vars, TypeOK
<1> QED
  BY <1>1, <1>2, <1>3, <1>4, <1>5, <1>6, <1>7, <1>8, <1>9, <1>10, <1>11, <1>12,
     <1>13, <1>14, <1>15, <1>16 DEF Next, Main, Stopper, Closer, Server

(* The invariant holds throughout.                                         *)
LEMMA InvHolds == Spec => []Inv
<1>1. Init => Inv
  BY InitInv
<1>2. Inv /\ [Next]_vars => Inv'
  BY NextInv
<1> QED
  BY <1>1, <1>2, PTL DEF Spec

-----------------------------------------------------------------------------
(* Theorems.                                                               *)

(* Every goroutine is always at a place it has (App, DB, main, Server).    *)
THEOREM TypeCorrect == Spec => []TypeOK
<1>1. Inv => TypeOK
  BY DEF Inv
<1> QED
  BY <1>1, InvHolds, PTL

(* However the signal, the goroutines and the requests interleave, the     *)
(* database is closed only after App's modules, and main returns only      *)
(* after the database (App.Run, DB.HandlerClose, main).                    *)
THEOREM StopOrder == Spec => []StopsInOrder
<1>1. Inv => StopsInOrder
  BY DEF Inv, AppEnds, ChannelsOrder, StopsInOrder, TypeOK
<1> QED
  BY <1>1, InvHolds, PTL

-----------------------------------------------------------------------------
(* The end comes nearer.                                                   *)

(* The converses of AppEnds and ChannelsOrder: who is done has closed the  *)
(* channel the next one waits for, and main waits only with the others     *)
(* running.                                                                *)
ChannelsClosed ==
    /\ at["main"] = "waiting" => at["stopper"] # "off" /\ at["closer"] # "off"
    /\ at["stopper"] = "done" => usersDB
    /\ at["closer"] = "done" => exit

(* Once the signal has come, somebody on the way to the end can go on:     *)
(* main before it waits or after Exit, App's goroutine until it has closed *)
(* UsersDB, DB's goroutine unless it waits for UsersDB.                    *)
SomebodyGoesOn ==
    cancelled /\ Running =>
       \/ at["main"] \in {"connecting", "building", "built"}
       \/ at["main"] = "waiting" /\ exit
       \/ at["stopper"] \in {"waiting", "shutdown"}
       \/ at["closer"] \in {"waiting", "closed"}
       \/ at["closer"] = "users" /\ usersDB

LEMMA ChannelsClosedHolds == Spec => []ChannelsClosed
<1>1. Init => ChannelsClosed
  <2> SUFFICES ASSUME Init PROVE ChannelsClosed
    OBVIOUS
  <2>1. at["main"] = "connecting" /\ at["stopper"] = "off" /\ at["closer"] = "off"
    BY DEF Init, Goroutines
  <2> QED  BY <2>1 DEF ChannelsClosed
<1>2. Inv /\ ChannelsClosed /\ [Next]_vars => ChannelsClosed'
  <2> SUFFICES ASSUME Inv, ChannelsClosed, [Next]_vars PROVE ChannelsClosed'
    OBVIOUS
  <2>0. /\ TypeOK
        /\ {"main", "server", "stopper", "closer", "cleaner"} = Goroutines
        /\ {"building", "built", "returned", "fatal"} \subseteq Places["main"]
        /\ "listening" \in Places["server"]
        /\ {"shutdown", "done"} \subseteq Places["stopper"]
        /\ {"users", "closed", "done"} \subseteq Places["closer"]
        /\ {"statement", "waiting", "stopped"} \subseteq Places["cleaner"]
    BY DEF Inv, Goroutines, Places
  <2> USE DEF ChannelsClosed
  <2>1. CASE Signal
    BY <2>1 DEF Signal
  <2>2. CASE Connect \/ ConnectFails \/ Build \/ Return
    BY <2>0, <2>2, Moved DEF Connect, ConnectFails, Build, Return
  <2>3. CASE Run
    BY <2>3 DEF Run
  <2>4. CASE Stopper
    BY <2>0, <2>4, Moved DEF Stopper, Shutdown, CloseUsersDB
  <2>5. CASE Closer
    BY <2>0, <2>5, Moved DEF Closer, SeeCancel, CloseDatabase, CloseExit
  <2>6. CASE Cleaner
    BY <2>0, <2>6, Moved DEF Cleaner, CleanupDone, CleanupTick, CleanupStops
  <2>7. CASE Server
    BY <2>0, <2>7, Moved DEF Server, Listen, ListenFails
  <2>8. CASE \E r \in Requests : Accept(r) \/ Serve(r)
    BY <2>8 DEF Accept, Serve, ReadDone, RemoteDone, WriteDone, Begin, Goto
  <2>9. CASE UNCHANGED vars
    BY <2>9 DEF vars
  <2> QED
    BY <2>1, <2>2, <2>3, <2>4, <2>5, <2>6, <2>7, <2>8, <2>9 DEF Next, Main
<1> QED  BY <1>1, <1>2, InvHolds, PTL DEF Spec

(* No goroutine waits for a channel that nobody will close: from the       *)
(* signal to the end of the process one of those that order the end can    *)
(* take its next step (App.Run, DB.HandlerClose, main).                    *)
THEOREM NobodyStuck == Spec => []SomebodyGoesOn
<1>1. Inv /\ ChannelsClosed => SomebodyGoesOn
  BY DEF Inv, TypeOK, Goroutines, Places, ChannelsClosed, SomebodyGoesOn, Running
<1> QED  BY <1>1, InvHolds, ChannelsClosedHolds, PTL

(* How many steps main, App's goroutine and DB's goroutine have left.      *)
MainLeft ==
    CASE at["main"] = "connecting" -> 4
      [] at["main"] = "building"   -> 3
      [] at["main"] = "built"      -> 2
      [] at["main"] = "waiting"    -> 1
      [] OTHER                     -> 0

StopperLeft ==
    CASE at["stopper"] \in {"off", "waiting"} -> 2
      [] at["stopper"] = "shutdown"           -> 1
      [] OTHER                                -> 0

CloserLeft ==
    CASE at["closer"] \in {"off", "waiting"} -> 3
      [] at["closer"] = "users"              -> 2
      [] at["closer"] = "closed"             -> 1
      [] OTHER                               -> 0

EndLeft == MainLeft + StopperLeft + CloserLeft

(* The process ends after at most nine steps of these three, however many  *)
(* requests, statements and clean-ups come in between: each brings the end *)
(* nearer, and nothing else moves it away.                                 *)
THEOREM EndComesNearer ==
    /\ Init => EndLeft = 9
    /\ Spec => [](EndLeft \in 0 .. 9)
    /\ Spec => [][/\ Main \/ Stopper \/ Closer => EndLeft' < EndLeft
                  /\ EndLeft' <= EndLeft]_vars
<1> USE DEF EndLeft, MainLeft, StopperLeft, CloserLeft
<1>1. Init => EndLeft = 9
  <2>1. Init => /\ at["main"] = "connecting"
                /\ at["stopper"] = "off" /\ at["closer"] = "off"
    BY DEF Init, Goroutines
  <2> QED  BY <2>1
<1>2. EndLeft \in 0 .. 9
  OBVIOUS
<1>3. Inv /\ [Next]_vars
      => [/\ Main \/ Stopper \/ Closer => EndLeft' < EndLeft
          /\ EndLeft' <= EndLeft]_vars
  <2> SUFFICES ASSUME Inv, Next
               PROVE  /\ Main \/ Stopper \/ Closer => EndLeft' < EndLeft
                      /\ EndLeft' <= EndLeft
    OBVIOUS
  <2>0. /\ TypeOK
        /\ {"main", "server", "stopper", "closer", "cleaner"} = Goroutines
        /\ {"building", "built", "returned", "fatal"} \subseteq Places["main"]
        /\ "listening" \in Places["server"]
        /\ {"shutdown", "done"} \subseteq Places["stopper"]
        /\ {"users", "closed", "done"} \subseteq Places["closer"]
        /\ {"statement", "waiting", "stopped"} \subseteq Places["cleaner"]
    BY DEF Inv, Goroutines, Places
  <2>1. CASE Connect \/ ConnectFails \/ Build \/ Return
    <3>1. at'["stopper"] = at["stopper"] /\ at'["closer"] = at["closer"]
      BY <2>0, <2>1, Moved DEF Connect, ConnectFails, Build, Return
    <3>2. MainLeft' < MainLeft
      BY <2>0, <2>1, Moved DEF Connect, ConnectFails, Build, Return
    <3> QED  BY <3>1, <3>2
  <2>2. CASE Run
    <3>1. at["main"] = "built" /\ at["stopper"] = "off" /\ at["closer"] = "off"
      BY <2>2 DEF Run, Inv, Started, Goroutines
    <3> QED  BY <2>2, <3>1 DEF Run
  <2>3. CASE Stopper
    <3>1. at'["main"] = at["main"] /\ at'["closer"] = at["closer"]
      BY <2>0, <2>3, Moved DEF Stopper, Shutdown, CloseUsersDB
    <3>2. StopperLeft' < StopperLeft
      BY <2>0, <2>3, Moved DEF Stopper, Shutdown, CloseUsersDB
    <3> QED  BY <3>1, <3>2
  <2>4. CASE Closer
    <3>1. at'["main"] = at["main"] /\ at'["stopper"] = at["stopper"]
      BY <2>0, <2>4, Moved DEF Closer, SeeCancel, CloseDatabase, CloseExit
    <3>2. CloserLeft' < CloserLeft
      BY <2>0, <2>4, Moved DEF Closer, SeeCancel, CloseDatabase, CloseExit
    <3> QED  BY <3>1, <3>2
  <2>5. CASE ~(Main \/ Stopper \/ Closer)
    <3> DEFINE Stays == /\ at'["stopper"] = at["stopper"]
                        /\ at'["closer"] = at["closer"]
                        /\ at'["main"] = at["main"] \/ at'["main"] = "fatal"
    <3>1. CASE Signal
      <4>1. Stays  BY <3>1 DEF Signal
      <4> QED  BY <2>5, <4>1
    <3>2. CASE Cleaner
      <4>1. Stays
        BY <2>0, <3>2, Moved DEF Cleaner, CleanupDone, CleanupTick, CleanupStops
      <4> QED  BY <2>5, <4>1
    <3>3. CASE Server
      <4>1. Stays  BY <2>0, <3>3, Moved DEF Server, Listen, ListenFails
      <4> QED  BY <2>5, <4>1
    <3>4. CASE \E r \in Requests : Accept(r) \/ Serve(r)
      <4>1. Stays
        BY <3>4 DEF Accept, Serve, ReadDone, RemoteDone, WriteDone, Begin, Goto
      <4> QED  BY <2>5, <4>1
    <3> QED  BY <2>5, <3>1, <3>2, <3>3, <3>4 DEF Next
  <2> QED  BY <2>1, <2>2, <2>3, <2>4, <2>5 DEF Main
<1> QED  BY <1>1, <1>2, <1>3, InvHolds, PTL DEF Spec
=============================================================================
