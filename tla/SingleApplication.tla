-------------------------- MODULE SingleApplication --------------------------
(***************************************************************************)
(* SingleApplication (SingleApplication.h) in processes that are started,  *)
(* quit and killed in any order: how a start finds out whether an instance *)
(* runs already.  QLocalServer is modelled by its three relevant kinds of  *)
(* name: a socket file, which outlives a killed process and which one      *)
(* server at a time can bind; a pipe, which several servers may share and  *)
(* which goes with its process; and BY_LOCK_FILE, a QLockFile.             *)
(***************************************************************************)
EXTENDS FiniteSets

CONSTANT Processes

VARIABLES
  kind,       \* of name: "socket", "pipe" or "lockfile"
  at,         \* what a process does
  isRunning,  \* processes whose isRunning_ is set
  listening,  \* processes whose localServer_ listens
  bound,      \* processes to whose server (or lock) NAME leads
  pending,    \* for each server the processes that it has not yet answered
  disturbed   \* start-ups and exits have overlapped, a server has answered
              \* too late, or listen() has failed

singleVars == <<kind, at, isRunning, listening, bound, pending, disturbed>>

(* Between connectToServer and the end of newLocalServer, and in close(). *)
Changing == {"listen", "remove", "relisten", "unlisten", "unname"}

SingleTypeOK ==
  /\ kind \in {"socket", "pipe", "lockfile"}
  /\ at \in [Processes -> Changing \cup {"off", "main", "exec"}]
  /\ isRunning \in SUBSET Processes
  /\ listening \in SUBSET Processes
  /\ bound \in SUBSET Processes
  /\ pending \in [Processes -> SUBSET Processes]
  /\ disturbed \in BOOLEAN

SingleInit ==
  /\ kind \in {"socket", "pipe", "lockfile"}
  /\ at = [p \in Processes |-> "off"]
  /\ isRunning = {} /\ listening = {} /\ bound = {}
  /\ disturbed = FALSE
  /\ pending = [p \in Processes |-> {}]

Goes(p, from, to) == at[p] = from /\ at' = [at EXCEPT ![p] = to]

Overlaps(p) == \E q \in Processes \ {p} : at[q] \in Changing

Disturbs(p) == disturbed' = (disturbed \/ Overlaps(p))

-----------------------------------------------------------------------------
(* The constructor. *)

(* initLockFile *)
TryLock(p) ==
  /\ kind = "lockfile"
  /\ Goes(p, "off", "main")
  /\ bound' = IF bound = {} THEN {p} ELSE bound
  /\ isRunning' = IF bound = {} THEN isRunning \ {p} ELSE isRunning \cup {p}
  /\ UNCHANGED <<kind, listening, pending, disturbed>>

(* initLocalServer: a server answers, *)
Connect(p) ==
  /\ kind # "lockfile"
  /\ Goes(p, "off", "main")
  /\ \E q \in bound \cap listening : pending' = [pending EXCEPT ![q] = @ \cup {p}]
  /\ isRunning' = isRunning \cup {p}
  /\ UNCHANGED <<kind, listening, bound, disturbed>>

(* nobody has the name, *)
ConnectFails(p) ==
  /\ kind # "lockfile"
  /\ Goes(p, "off", "listen")
  /\ bound \cap listening = {}
  /\ isRunning' = isRunning \ {p}
  /\ Disturbs(p)
  /\ UNCHANGED <<kind, listening, bound, pending>>

(* or the server that has it does not answer within 100 ms.               *)
ConnectTimesOut(p) ==
  /\ kind # "lockfile"
  /\ Goes(p, "off", "listen")
  /\ bound \cap listening # {}
  /\ isRunning' = isRunning \ {p}
  /\ disturbed' = TRUE
  /\ UNCHANGED <<kind, listening, bound, pending>>

(* newLocalServer *)
Listen(p) ==
  /\ Goes(p, "listen", "main")
  /\ kind = "pipe" \/ bound = {}
  /\ bound' = bound \cup {p}
  /\ listening' = listening \cup {p}
  /\ UNCHANGED <<kind, isRunning, pending, disturbed>>

AddressInUse(p) ==
  /\ Goes(p, "listen", "remove")
  /\ kind = "socket" /\ bound # {}
  /\ UNCHANGED <<kind, isRunning, listening, bound, pending, disturbed>>

(* Any other error is shown to the user, and the program goes on.         *)
ListenFails(p) ==
  /\ Goes(p, "listen", "main")
  /\ disturbed' = TRUE
  /\ UNCHANGED <<kind, isRunning, listening, bound, pending>>

(* Mutant: the second listen() is tried without removeServer().           *)
RemoveNothing(p) ==
  /\ Goes(p, "remove", "relisten")
  /\ UNCHANGED <<kind, isRunning, listening, bound, pending, disturbed>>

(* removeServer, of whatever server has the name.                         *)
Remove(p) ==
  /\ Goes(p, "remove", "relisten")
  /\ bound' = {}
  /\ UNCHANGED <<kind, isRunning, listening, pending, disturbed>>

(* The result of the second listen() is ignored. *)
Relisten(p) ==
  /\ Goes(p, "relisten", "main")
  /\ IF bound = {} THEN bound' = {p} /\ listening' = listening \cup {p}
     ELSE UNCHANGED <<bound, listening>>
  /\ UNCHANGED <<kind, isRunning, pending, disturbed>>

-----------------------------------------------------------------------------
(* main() and the destructor. *)

(* setWidget and exec. *)
Open(p) ==
  /\ Goes(p, "main", "exec")
  /\ p \notin isRunning
  /\ UNCHANGED <<kind, isRunning, listening, bound, pending, disturbed>>

(* newLocalConnect *)
Accept(p, q) ==
  /\ at[p] = "exec" /\ p \in listening
  /\ q \in pending[p]
  /\ pending' = [pending EXCEPT ![p] = @ \ {q}]
  /\ UNCHANGED <<kind, at, isRunning, listening, bound, disturbed>>

(* main returns: an instance runs, the translation cannot be loaded, or   *)
(* exec has returned.  A process without a server has none to close.      *)
Exit(p) ==
  /\ at[p] \in {"main", "exec"}
  /\ IF p \in listening
     THEN /\ at' = [at EXCEPT ![p] = "unlisten"]
          /\ Disturbs(p)
          /\ UNCHANGED bound
     ELSE /\ at' = [at EXCEPT ![p] = "off"]
          /\ bound' = IF kind = "lockfile" THEN bound \ {p} ELSE bound
          /\ UNCHANGED disturbed
  /\ UNCHANGED <<kind, isRunning, listening, pending>>

(* QLocalServer::close ends the server, *)
Unlisten(p) ==
  /\ Goes(p, "unlisten", IF kind = "socket" THEN "unname" ELSE "off")
  /\ listening' = listening \ {p}
  /\ pending' = [pending EXCEPT ![p] = {}]
  /\ bound' = IF kind = "socket" THEN bound ELSE bound \ {p}
  /\ UNCHANGED <<kind, isRunning, disturbed>>

(* and then removes the file that has the name, whosever it is.           *)
Unname(p) ==
  /\ Goes(p, "unname", "off")
  /\ bound' = {}
  /\ UNCHANGED <<kind, isRunning, listening, pending, disturbed>>

(* The process is killed: a socket file stays. *)
Crash(p) ==
  /\ at[p] # "off"
  /\ at' = [at EXCEPT ![p] = "off"]
  /\ listening' = listening \ {p}
  /\ pending' = [pending EXCEPT ![p] = {}]
  /\ bound' = IF kind = "socket" THEN bound ELSE bound \ {p}
  /\ UNCHANGED <<kind, isRunning, disturbed>>

Constructor(p) ==
  \/ TryLock(p) \/ Connect(p) \/ ConnectFails(p) \/ ConnectTimesOut(p)
  \/ Listen(p) \/ AddressInUse(p) \/ ListenFails(p) \/ Remove(p) \/ Relisten(p)

Destructor(p) == Unlisten(p) \/ Unname(p)

SingleNext ==
  \E p \in Processes :
    \/ Constructor(p) \/ Open(p) \/ Exit(p) \/ Destructor(p) \/ Crash(p)
    \/ \E q \in Processes : Accept(p, q)

SingleSpec == SingleInit /\ [][SingleNext]_singleVars

-----------------------------------------------------------------------------
Primary(p) == at[p] \in {"main", "exec"} /\ p \notin isRunning

(* There is one primary instance at most, and whoever connects by the     *)
(* name reaches it: whatever is killed at whatever moment, a file that is *)
(* left behind included (SingleApplication.h:96).  This is so only as long *)
(* as no start-up or exit falls into another, a server that runs answers  *)
(* in time, and listen() fails for no other reason: otherwise two may run *)
(* (SingleApplication.h:69, 72).                                          *)
OneInstance ==
  ~disturbed => \A p \in Processes :
    Primary(p) => bound = {p} /\ (kind = "lockfile" \/ p \in listening)
=============================================================================
