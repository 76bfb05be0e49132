---------------------------- MODULE TcpConnector ----------------------------
(***************************************************************************)
(* The tcp_connector program (main.cpp): processes of a SingleApplication, *)
(* and the windows of one of them, This.  The others are any processes     *)
(* whose exec() may return at any time.                                    *)
(***************************************************************************)
EXTENDS SingleApplication, MainWindow

CONSTANT This

ASSUME ThisAssumption == This \in Processes

vars == <<singleVars, windowVars>>

TypeOK == SingleTypeOK /\ WindowTypeOK

Init == SingleInit /\ WindowInit

(* main() makes the main window and setWidget shows it. *)
OpenWindows == Open(This) /\ Fresh("shown")

(* Mutant: the window is only raised. *)
NewLocalConnectRaises(q) == Accept(This, q) /\ UNCHANGED windowVars

(* newLocalConnect shows w_.  Of the outcomes of using a main window that *)
(* has been deleted, one is that nothing happens; Crash is the other.     *)
NewLocalConnect(q) == Accept(This, q) /\ ShowNormal

(* exec returns. *)
Quit == at[This] = "exec" /\ quitting /\ Exit(This) /\ Fresh("none")

Leave == at[This] = "main" /\ Exit(This) /\ UNCHANGED windowVars

CrashThis == Crash(This) /\ Fresh("none")

UseWindows == at[This] = "exec" /\ WindowNext /\ UNCHANGED singleVars

(* Everything that does not touch the windows of This. *)
Elsewhere ==
  /\ \/ Constructor(This) \/ Destructor(This)
     \/ \E p \in Processes \ {This} :
          \/ Constructor(p) \/ Destructor(p) \/ Open(p) \/ Exit(p) \/ Crash(p)
          \/ \E q \in Processes : Accept(p, q)
  /\ UNCHANGED windowVars

Next ==
  \/ OpenWindows \/ Quit \/ Leave \/ CrashThis \/ UseWindows \/ Elsewhere
  \/ \E q \in Processes : NewLocalConnect(q)

(* The event loop of the process gets to what is posted to it; users and  *)
(* other processes may do nothing.                                        *)
Fairness ==
  /\ WF_vars(Quit)
  /\ WF_vars(UseWindows /\ DeleteMain)
  /\ \A q \in Processes : WF_vars(NewLocalConnect(q))

Spec == Init /\ [][Next]_vars /\ Fairness

-----------------------------------------------------------------------------
(* A start that finds this instance brings its main window back, unless   *)
(* the window or the process ends first (SingleApplication.h:106).        *)
ActivationShows ==
  \A q \in Processes :
    q \in pending[This] /\ at[This] = "exec"
      ~> main \in {"shown", "deleted"} \/ at[This] # "exec"

(* Closing the main window ends the program if no more than one connector *)
(* is open, unless the window is shown again before it is deleted: with   *)
(* two or more the destructor may pass one over, which goes on without a  *)
(* main window and lets no new instance start (Mainwindow.cpp:45).        *)
CloseEnds ==
  main = "hidden" /\ Cardinality(connections) <= 1 ~>
    main \in OnScreen \/ at[This] # "exec"
=============================================================================
