------------------------- MODULE TcpConnectorProofs -------------------------
(***************************************************************************)
(* Proofs about TcpConnector: that a program has one instance, whatever    *)
(* the number of processes, and that the registry of a main window is      *)
(* exact, whatever the number of connectors.                               *)
(***************************************************************************)
EXTENDS TcpConnector, TLAPS

(* The inductive invariant of the single instance: while start-ups and    *)
(* exits do not overlap, one process at most is changing, a starting one  *)
(* finds no server, and a server belongs to a primary or to one that is   *)
(* closing it.                                                            *)
OneChanges ==
  \A p, q \in Processes : at[p] \in Changing /\ at[q] \in Changing => p = q

ServerHasOwner ==
  \A p \in listening : Primary(p) \/ at[p] = "unlisten"

StartFindsNone ==
  \A p \in Processes :
    /\ at[p] \in {"listen", "remove", "relisten"} => p \notin isRunning /\ listening = {}
    /\ at[p] = "relisten" => bound = {}

ExitKeepsName ==
  \A p \in Processes :
    /\ at[p] = "unlisten" => bound = {p} /\ listening = {p}
    /\ at[p] = "unname" => listening = {}

LockFileIsSimple ==
  kind = "lockfile" =>
    /\ ~disturbed /\ listening = {}
    /\ \A p \in Processes : at[p] \notin Changing

Undisturbed ==
  /\ OneChanges /\ ServerHasOwner /\ StartFindsNone /\ ExitKeepsName
  /\ kind = "pipe" => bound = listening

SingleInv ==
  /\ SingleTypeOK /\ LockFileIsSimple
  /\ OneInstance
  /\ ~disturbed => Undisturbed

USE DEF SingleInv, SingleTypeOK, LockFileIsSimple, OneInstance, Undisturbed, OneChanges,
  ServerHasOwner, StartFindsNone, ExitKeepsName, Primary, Changing, Goes

LEMMA SingleInitInv == SingleInit => SingleInv
BY DEF SingleInit

(* The constructor. *)
LEMMA ConstructorInv ==
  ASSUME SingleInv, NEW p \in Processes, Constructor(p)
  PROVE  SingleInv'
<1>1. CASE TryLock(p)
  BY <1>1 DEF TryLock
<1>2. CASE Connect(p)
  BY <1>2 DEF Connect
<1>3. CASE ConnectFails(p)
  <2>1. CASE Overlaps(p)
    BY <1>3, <2>1 DEF ConnectFails, Disturbs
  <2>2. CASE ~Overlaps(p)
    <3>1. ~disturbed => listening = {}
      BY <1>3, <2>2 DEF ConnectFails, Overlaps
    <3> QED
      BY <1>3, <2>2, <3>1 DEF ConnectFails, Disturbs, Overlaps
  <2> QED
    BY <2>1, <2>2
<1>4. CASE Listen(p)
  BY <1>4 DEF Listen
<1>5. CASE AddressInUse(p)
  BY <1>5 DEF AddressInUse
<1>6. CASE ListenFails(p)
  BY <1>6 DEF ListenFails
<1>7. CASE Remove(p)
  BY <1>7 DEF Remove
<1>8. CASE Relisten(p)
  BY <1>8 DEF Relisten
<1>9. CASE ConnectTimesOut(p)
  BY <1>9 DEF ConnectTimesOut
<1> QED
  BY <1>1, <1>2, <1>3, <1>4, <1>5, <1>6, <1>7, <1>8, <1>9 DEF Constructor

(* main() and the destructor. *)
LEMMA OpenInv ==
  ASSUME SingleInv, NEW p \in Processes, Open(p)
  PROVE  SingleInv'
BY DEF Open

LEMMA AcceptInv ==
  ASSUME SingleInv, NEW p \in Processes, NEW q \in Processes, Accept(p, q)
  PROVE  SingleInv'
BY DEF Accept

LEMMA ExitInv ==
  ASSUME SingleInv, NEW p \in Processes, Exit(p)
  PROVE  SingleInv'
BY DEF Exit, Disturbs, Overlaps

LEMMA DestructorInv ==
  ASSUME SingleInv, NEW p \in Processes, Destructor(p)
  PROVE  SingleInv'
<1>1. CASE Unlisten(p)
  BY <1>1 DEF Unlisten
<1>2. CASE Unname(p)
  BY <1>2 DEF Unname
<1> QED
  BY <1>1, <1>2 DEF Destructor

LEMMA CrashInv ==
  ASSUME SingleInv, NEW p \in Processes, Crash(p)
  PROVE  SingleInv'
BY DEF Crash

LEMMA SingleNextInv == SingleInv /\ [SingleNext]_singleVars => SingleInv'
<1> SUFFICES ASSUME SingleInv, [SingleNext]_singleVars PROVE SingleInv'
  OBVIOUS
<1>1. ASSUME NEW p \in Processes, Constructor(p) PROVE SingleInv'
  BY <1>1, ConstructorInv
<1>2. ASSUME NEW p \in Processes, Open(p) PROVE SingleInv'
  BY <1>2, OpenInv
<1>3. ASSUME NEW p \in Processes, Exit(p) PROVE SingleInv'
  BY <1>3, ExitInv
<1>4. ASSUME NEW p \in Processes, Destructor(p) PROVE SingleInv'
  BY <1>4, DestructorInv
<1>5. ASSUME NEW p \in Processes, Crash(p) PROVE SingleInv'
  BY <1>5, CrashInv
<1>6. ASSUME NEW p \in Processes, NEW q \in Processes, Accept(p, q) PROVE SingleInv'
  BY <1>6, AcceptInv
<1>7. CASE UNCHANGED singleVars
  BY <1>7 DEF singleVars
<1> HIDE DEF SingleInv
<1> QED
  BY <1>1, <1>2, <1>3, <1>4, <1>5, <1>6, <1>7 DEF SingleNext

HIDE DEF SingleInv, SingleTypeOK, LockFileIsSimple, OneInstance, Undisturbed, OneChanges,
  ServerHasOwner, StartFindsNone, ExitKeepsName, Primary, Changing, Goes

(* While no start-up or exit falls into another, every server that runs   *)
(* answers in time and listen() fails for no reason but a name in use,    *)
(* there is one primary instance, and the name leads to it: for any       *)
(* number of processes that start, quit and are killed (SingleApplication.h, *)
(* initLocalServer to newLocalServer, and the destructor).                *)
THEOREM SingleCorrect == SingleSpec => []OneInstance
<1>1. SingleInv => OneInstance
  BY DEF SingleInv
<1> QED
  BY SingleInitInv, SingleNextInv, <1>1, PTL DEF SingleSpec

-----------------------------------------------------------------------------
(* The windows: a connector's boxes are bounded by what its socket has    *)
(* reported.                                                              *)
BoxesOfLink ==
  \A c \in Connectors :
    /\ link[c] \in {"connecting", "up"} => boxes[c] = 0
    /\ link[c] = "failed" => boxes[c] <= 1

WindowInv == WindowTypeOK /\ BoxesOfLink /\ RegistryIsOpen

USE DEF WindowInv, WindowTypeOK, BoxesOfLink, RegistryIsOpen

LEMMA WindowInitInv == WindowInit => WindowInv
<1> SUFFICES ASSUME WindowInit PROVE WindowInv
  OBVIOUS
<1>1. WindowTypeOK
  <2>1. quitting \in BOOLEAN /\ closing \in BOOLEAN
    BY Zenon DEF WindowInit
  <2>2. /\ connector \in [Connectors -> {"none", "open", "closed", "orphan", "kept"}]
        /\ link \in [Connectors -> {"connecting", "up", "failed", "down"}]
        /\ boxes \in [Connectors -> 0 .. 2]
    BY DEF WindowInit
  <2>3. main = "none" /\ connections = {}
    BY DEF WindowInit
  <2> QED
    BY <2>1, <2>2, <2>3
<1>2. BoxesOfLink
  BY DEF WindowInit
<1>3. RegistryIsOpen
  BY DEF WindowInit
<1> QED
  BY <1>1, <1>2, <1>3

LEMMA FreshInv ==
  ASSUME NEW m \in {"none", "shown"}, Fresh(m)
  PROVE  WindowInv'
<1>1. WindowTypeOK'
  <2>1. quitting' \in BOOLEAN /\ closing' \in BOOLEAN
    BY Zenon DEF Fresh
  <2>2. /\ connector' \in [Connectors -> {"none", "open", "closed", "orphan", "kept"}]
        /\ link' \in [Connectors -> {"connecting", "up", "failed", "down"}]
        /\ boxes' \in [Connectors -> 0 .. 2]
    BY DEF Fresh
  <2>3. main' = m /\ connections' = {}
    BY DEF Fresh
  <2> QED
    BY <2>1, <2>2, <2>3
<1>2. BoxesOfLink'
  BY DEF Fresh
<1>3. RegistryIsOpen'
  BY DEF Fresh
<1> QED
  BY <1>1, <1>2, <1>3

LEMMA MainWindowInv ==
  ASSUME WindowInv,
         CreateConnections \/ Minimize \/ ShowNormal \/ CloseMain \/ DeleteMain
  PROVE  WindowInv'
<1>1. CASE CreateConnections
  BY <1>1 DEF CreateConnections, Exists
<1>2. CASE Minimize
  BY <1>2 DEF Minimize
<1>3. CASE ShowNormal
  BY <1>3 DEF ShowNormal
<1>4. CASE CloseMain
  <2>1. quitting' \in BOOLEAN
    BY <1>4 DEF CloseMain, QuitIfLast
  <2>2. closing' \in BOOLEAN
    BY <1>4, Zenon DEF CloseMain
  <2>3. main' = "hidden" /\ main # "deleted" /\ UNCHANGED <<connector, connections, link, boxes>>
    BY <1>4 DEF CloseMain, OnScreen
  <2> QED
    BY <2>1, <2>2, <2>3
<1>5. CASE DeleteMain
  <2>1. quitting' \in BOOLEAN
    <3>1. QuitIfLast(main) \/ QuitIfLast(main')
      BY <1>5 DEF DeleteMain
    <3> QED
      BY <3>1 DEF QuitIfLast
  <2>2. closing' = closing /\ main' = "deleted" /\ UNCHANGED <<link, boxes>> /\ connections' = {}
    BY <1>5 DEF DeleteMain
  <2>3. connector' \in [Connectors -> {"none", "open", "closed", "orphan", "kept"}]
    BY <1>5 DEF DeleteMain
  <2> QED
    BY <2>1, <2>2, <2>3
<1> QED
  BY <1>1, <1>2, <1>3, <1>4, <1>5

LEMMA ConnectorInv ==
  ASSUME WindowInv, NEW c \in Connectors,
         \/ CloseConnector(c) \/ DeleteConnector(c) \/ CloseAllErrBox(c)
         \/ OnConnected(c) \/ OnError(c) \/ OnDisconnected(c)
  PROVE  WindowInv'
<1>1. CASE CloseConnector(c)
  BY <1>1 DEF CloseConnector, Close, QuitIfLast
<1>2. CASE DeleteConnector(c)
  BY <1>2 DEF DeleteConnector
<1>3. CASE CloseAllErrBox(c)
  BY <1>3 DEF CloseAllErrBox, Close, QuitIfLast
<1>4. CASE OnConnected(c)
  BY <1>4 DEF OnConnected
<1>5. CASE OnError(c)
  BY <1>5 DEF OnError
<1>6. CASE OnDisconnected(c)
  BY <1>6 DEF OnDisconnected
<1> QED
  BY <1>1, <1>2, <1>3, <1>4, <1>5, <1>6

HIDE DEF WindowInv, WindowTypeOK, BoxesOfLink, RegistryIsOpen

LEMMA WindowUnchanged == WindowInv /\ UNCHANGED windowVars => WindowInv'
BY DEF windowVars, WindowInv, WindowTypeOK, BoxesOfLink, RegistryIsOpen

LEMMA WindowNextInv == WindowInv /\ WindowNext => WindowInv'
BY MainWindowInv, ConnectorInv DEF WindowNext, TrayIconActive

-----------------------------------------------------------------------------
(* The program: each of its steps is one of the single instance and one   *)
(* of the windows.                                                        *)
LEMMA StepOfBoth ==
  ASSUME Next
  PROVE  /\ [SingleNext]_singleVars
         /\ \/ WindowNext \/ ShowNormal \/ UNCHANGED windowVars
            \/ \E m \in {"none", "shown"} : Fresh(m)
<1> USE ThisAssumption
<1>1. CASE OpenWindows
  BY <1>1 DEF OpenWindows, SingleNext
<1>2. CASE Quit
  BY <1>2 DEF Quit, SingleNext
<1>3. CASE Leave
  BY <1>3 DEF Leave, SingleNext
<1>4. CASE CrashThis
  BY <1>4 DEF CrashThis, SingleNext
<1>5. CASE UseWindows
  BY <1>5 DEF UseWindows
<1>6. CASE Elsewhere
  BY <1>6 DEF Elsewhere, SingleNext
<1>7. CASE \E q \in Processes : NewLocalConnect(q)
  BY <1>7 DEF NewLocalConnect, SingleNext
<1> QED
  BY <1>1, <1>2, <1>3, <1>4, <1>5, <1>6, <1>7 DEF Next

LEMMA ProgramInv == SingleInv /\ WindowInv /\ [Next]_vars => (SingleInv /\ WindowInv)'
<1> SUFFICES ASSUME SingleInv, WindowInv, [Next]_vars PROVE SingleInv' /\ WindowInv'
  OBVIOUS
<1>1. CASE Next
  <2>1. SingleInv'
    BY <1>1, StepOfBoth, SingleNextInv
  <2>2. WindowInv'
    BY <1>1, StepOfBoth, WindowNextInv, WindowUnchanged, MainWindowInv, FreshInv
  <2> QED
    BY <2>1, <2>2
<1>2. CASE UNCHANGED vars
  BY <1>2, SingleNextInv, WindowUnchanged DEF vars
<1> QED
  BY <1>1, <1>2

LEMMA ProgramCorrect == Spec => [](SingleInv /\ WindowInv)
<1>1. Init => SingleInv /\ WindowInv
  BY SingleInitInv, WindowInitInv DEF Init
<1> QED
  BY <1>1, ProgramInv, PTL DEF Spec

(* The program implements the single instance alone: the windows only     *)
(* decide when its processes answer and exit (main.cpp).                  *)
THEOREM ImplementsSingle == Spec => SingleSpec
<1>1. Init => SingleInit
  BY DEF Init
<1>2. [Next]_vars => [SingleNext]_singleVars
  BY StepOfBoth DEF vars
<1> QED
  BY <1>1, <1>2, PTL DEF Spec, SingleSpec

(* The same, under the same conditions, of the whole program, whose       *)
(* windows decide when a process quits (main.cpp, SingleApplication.h).   *)
THEOREM InstanceCorrect == Spec => []OneInstance
<1>1. SingleInv => OneInstance
  BY DEF SingleInv
<1> QED
  BY ProgramCorrect, <1>1, PTL

(* connections_ is exactly the connectors that are open, for any number   *)
(* of them (Mainwindow.cpp, createConnections).                           *)
THEOREM RegistryCorrect == Spec => []RegistryIsOpen
<1>1. WindowInv => RegistryIsOpen
  BY DEF WindowInv
<1> QED
  BY ProgramCorrect, <1>1, PTL

(* Every state is well typed: a connector never shows more than the two   *)
(* boxes of an error and of the disconnection after it (Connector.cpp,    *)
(* onError, onDisconnected).                                              *)
THEOREM ProgramTypeCorrect == Spec => []TypeOK
<1>1. SingleInv /\ WindowInv => TypeOK
  BY DEF SingleInv, WindowInv, TypeOK
<1> QED
  BY ProgramCorrect, <1>1, PTL
=============================================================================
