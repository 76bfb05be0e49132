----------------------------- MODULE MainWindow -----------------------------
(***************************************************************************)
(* The windows of a process: MainWindow (Mainwindow.cpp), the connectors   *)
(* it makes (Connector.cpp) and the EventBus between them.  Qt is          *)
(* modelled by what the code asks of it: close() hides and calls           *)
(* closeEvent, deleteLater() deletes at some later moment, before which    *)
(* the window may be shown again, and exec() is told to return when a      *)
(* window is closed and none is visible any more.                          *)
(***************************************************************************)
EXTENDS Naturals, FiniteSets

CONSTANT Connectors  \* connectors that may exist at one time

VARIABLES
  main,         \* the main window
  closing,      \* it has been closed, and is to be deleted
  connector,    \* what became of each connector
  connections,  \* connections_
  link,         \* socket_
  boxes,        \* message boxes whose end emits closeAllErrBox
  quitting      \* exec has been told to return

windowVars == <<main, closing, connector, connections, link, boxes, quitting>>

WindowTypeOK ==
  /\ main \in {"none", "shown", "minimized", "hidden", "deleted"}
  /\ closing \in BOOLEAN
  /\ connector \in [Connectors -> {"none", "open", "closed", "orphan", "kept"}]
  /\ connections \in SUBSET Connectors
  /\ link \in [Connectors -> {"connecting", "up", "failed", "down"}]
  /\ boxes \in [Connectors -> 0 .. 2]
  /\ quitting \in BOOLEAN

WindowInit ==
  /\ main = "none" /\ closing = FALSE /\ connections = {} /\ quitting = FALSE
  /\ connector = [c \in Connectors |-> "none"]
  /\ link = [c \in Connectors |-> "connecting"]
  /\ boxes = [c \in Connectors |-> 0]

(* A process has ended ("none"), or has just made its main window.        *)
Fresh(m) ==
  /\ main' = m /\ closing' = FALSE /\ connections' = {} /\ quitting' = FALSE
  /\ connector' = [c \in Connectors |-> "none"]
  /\ link' = [c \in Connectors |-> "connecting"]
  /\ boxes' = [c \in Connectors |-> 0]

Exists(c) == connector[c] # "none"
OnScreen == {"shown", "minimized"}

-----------------------------------------------------------------------------
(* The main window. *)

(* createConnections, of no, one or more connectors.                      *)
CreateConnections ==
  /\ main = "shown"
  /\ \E new \in SUBSET {c \in Connectors : ~Exists(c)} :
       /\ connector' = [c \in Connectors |-> IF c \in new THEN "open" ELSE connector[c]]
       /\ connections' = connections \cup new
  /\ main' = "minimized"
  /\ UNCHANGED <<closing, link, boxes, quitting>>

Minimize ==
  /\ main = "shown"
  /\ main' = "minimized"
  /\ UNCHANGED <<closing, connector, connections, link, boxes, quitting>>

(* showNormal, also of a window that is to be deleted, which is deleted   *)
(* all the same.                                                          *)
ShowNormal ==
  /\ main' = IF main \in {"minimized", "hidden"} THEN "shown" ELSE main
  /\ UNCHANGED <<closing, connector, connections, link, boxes, quitting>>

(* The tray icon: its menu, or a double click while there is no connector. *)
TrayIconActive == main \in {"minimized", "hidden"} /\ ShowNormal

(* lastWindowClosed, after a close: m is the main window by then.         *)
QuitIfLast(m) ==
  quitting' = (quitting \/ (m \notin OnScreen
                            /\ \A c \in Connectors : connector'[c] \notin {"open", "orphan"}))

CloseMain ==
  /\ main \in OnScreen
  /\ main' = "hidden" /\ closing' = TRUE
  /\ UNCHANGED <<connector, connections, link, boxes>>
  /\ QuitIfLast(main')

(* Mutant: nothing is closed. *)
DeleteMainAlone ==
  /\ closing /\ main # "deleted"
  /\ main' = "deleted"
  /\ connector' = [c \in Connectors |-> IF c \in connections THEN "orphan" ELSE connector[c]]
  /\ connections' = {}
  /\ QuitIfLast(main)
  /\ UNCHANGED <<closing, link, boxes>>

(* ~MainWindow closes the connectors while it iterates over connections_, *)
(* from which each close removes one: any but the first that it comes to  *)
(* may be passed over.  The main window itself is not closed once more:   *)
(* one that has been shown again is visible until all this is done, and   *)
(* whether its deletion counts as a close is left open.                   *)
DeleteMain ==
  /\ closing /\ main # "deleted"
  /\ main' = "deleted"
  /\ \E missed \in SUBSET connections :
       /\ connections # {} => missed # connections
       /\ connector' = [c \in Connectors |->
            IF c \in missed THEN "orphan"
            ELSE IF c \in connections THEN "closed" ELSE connector[c]]
  /\ connections' = {}
  /\ QuitIfLast(main) \/ QuitIfLast(main')
  /\ UNCHANGED <<closing, link, boxes>>

-----------------------------------------------------------------------------
(* A connector. *)

(* Mutant: windowClosed does not remove the connector.                    *)
CloseUnremoved(S) ==
  /\ connector' = [c \in Connectors |->
       IF c \in S /\ connector[c] = "open" THEN "closed"
       ELSE IF c \in S /\ connector[c] = "orphan" THEN "kept" ELSE connector[c]]
  /\ UNCHANGED <<main, closing, connections, link>>
  /\ QuitIfLast(main)

(* closeEvent of the connectors S: windowClosed has a receiver, which     *)
(* removes and deletes them, only while the main window lives.            *)
Close(S) ==
  /\ connector' = [c \in Connectors |->
       IF c \in S /\ connector[c] = "open" THEN "closed"
       ELSE IF c \in S /\ connector[c] = "orphan" THEN "kept" ELSE connector[c]]
  /\ connections' = connections \ S
  /\ UNCHANGED <<main, closing, link>>
  /\ QuitIfLast(main)

CloseConnector(c) ==
  /\ connector[c] \in {"open", "orphan"}
  /\ Close({c})
  /\ UNCHANGED boxes

(* Its socket and its boxes, which are children of it, go with it.        *)
DeleteConnector(c) ==
  /\ connector[c] = "closed"
  /\ connector' = [connector EXCEPT ![c] = "none"]
  /\ link' = [link EXCEPT ![c] = "connecting"]
  /\ boxes' = [boxes EXCEPT ![c] = 0]
  /\ UNCHANGED <<main, closing, connections, quitting>>

OnConnected(c) ==
  /\ Exists(c) /\ link[c] = "connecting"
  /\ link' = [link EXCEPT ![c] = "up"]
  /\ UNCHANGED <<main, closing, connector, connections, boxes, quitting>>

(* onError, and onDisconnected, which may follow it. *)
OnError(c) ==
  /\ Exists(c) /\ link[c] \in {"connecting", "up"}
  /\ link' = [link EXCEPT ![c] = "failed"]
  /\ boxes' = [boxes EXCEPT ![c] = @ + 1]
  /\ UNCHANGED <<main, closing, connector, connections, quitting>>

(* Mutant: a disconnected socket may report it again. *)
OnDisconnectedAgain(c) ==
  /\ Exists(c) /\ link[c] \in {"up", "failed", "down"}
  /\ link' = [link EXCEPT ![c] = "down"]
  /\ boxes' = [boxes EXCEPT ![c] = @ + 1]
  /\ UNCHANGED <<main, closing, connector, connections, quitting>>

OnDisconnected(c) ==
  /\ Exists(c) /\ link[c] \in {"up", "failed"}
  /\ link' = [link EXCEPT ![c] = "down"]
  /\ boxes' = [boxes EXCEPT ![c] = @ + 1]
  /\ UNCHANGED <<main, closing, connector, connections, quitting>>

(* A box is finished: closeAllErrBox closes every connector there is,     *)
(* also those whose connection is up.                                     *)
CloseAllErrBox(c) ==
  /\ Exists(c) /\ boxes[c] > 0
  /\ boxes' = [boxes EXCEPT ![c] = @ - 1]
  /\ Close(Connectors)

WindowNext ==
  \/ CreateConnections \/ Minimize \/ TrayIconActive \/ CloseMain \/ DeleteMain
  \/ \E c \in Connectors :
       \/ CloseConnector(c) \/ DeleteConnector(c) \/ CloseAllErrBox(c)
       \/ OnConnected(c) \/ OnError(c) \/ OnDisconnected(c)

-----------------------------------------------------------------------------
(* connections_ never holds a connector that has been closed or deleted,  *)
(* so that neither the tray icon nor the destructor follows a dead        *)
(* pointer, and misses none that is open (Mainwindow.cpp:46, 71, 122).    *)
RegistryIsOpen ==
  main # "deleted" => connections = {c \in Connectors : connector[c] = "open"}
=============================================================================
