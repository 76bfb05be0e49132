------------------------------ MODULE Sessions ------------------------------
(***************************************************************************)
(* What the WebSocket server promises main.cpp and its peers, without      *)
(* epoll, events, buffers and timers: each connection is a session that    *)
(* waits to be accepted, is upgraded once, joins the members that are      *)
(* greeted whenever one joins, has what it writes delivered in order and   *)
(* echoed, and is over for good.  WebsocketServer implements it.           *)
(***************************************************************************)
EXTENDS Naturals, Sequences

CONSTANT Conns  \* the connections that peers may open

VARIABLES
  arrivals,   \* connections that wait to be accepted, in their order
  phase,      \* where a session is; while it is here, its is_connected_
  members,    \* sessions that main.cpp has in wb_clients
  written,    \* number of units that the peer has written
  delivered,  \* the last of them that the receive callback has been given
  outbox      \* what has been said to the peer and not yet sent

vars == <<arrivals, phase, members, written, delivered, outbox>>

Here(c) == phase[c] \in {"NONE", "WAIT_SHAKE", "CONNECTED"}

Init ==
  /\ arrivals = <<>>
  /\ phase = [c \in Conns |-> "idle"]
  /\ members = {}
  /\ written = [c \in Conns |-> 0]
  /\ delivered = [c \in Conns |-> 0]
  /\ outbox = [c \in Conns |-> <<>>]

Becomes(c, p) == phase' = [phase EXCEPT ![c] = p]
Say(c, msg) == outbox' = [outbox EXCEPT ![c] = Append(outbox[c], msg)]

-----------------------------------------------------------------------------
(* The peers. *)

Arrive(c) ==
  /\ phase[c] = "idle"
  /\ Becomes(c, "pending")
  /\ arrivals' = Append(arrivals, c)
  /\ UNCHANGED <<members, written, delivered, outbox>>

Write(c) ==
  /\ phase[c] = "pending" \/ Here(c)
  /\ written' = [written EXCEPT ![c] = written[c] + 1]
  /\ UNCHANGED <<arrivals, phase, members, delivered, outbox>>

-----------------------------------------------------------------------------
(* The server. *)

(* In the order of their arrival. *)
Accept ==
  /\ arrivals # <<>>
  /\ Becomes(Head(arrivals), "NONE")
  /\ arrivals' = Tail(arrivals)
  /\ UNCHANGED <<members, written, delivered, outbox>>

(* A request to upgrade is answered, once. *)
Shake(c) ==
  /\ phase[c] = "NONE"
  /\ Becomes(c, "WAIT_SHAKE")
  /\ Say(c, "101")
  /\ UNCHANGED <<arrivals, members, written, delivered>>

(* The answer has been sent: the session joins, and all are greeted.      *)
Join(c) ==
  /\ phase[c] = "WAIT_SHAKE"
  /\ Becomes(c, "CONNECTED")
  /\ members' = members \cup {c}
  /\ outbox' = [d \in Conns |->
       IF d = c THEN <<"hello">>
       ELSE IF d \in members THEN Append(outbox[d], "hello") ELSE outbox[d]]
  /\ UNCHANGED <<arrivals, written, delivered>>

(* The callback gets what was written up to n, all of it or a part, none  *)
(* of it twice, and echoes it.                                            *)
Deliver(c) ==
  /\ phase[c] = "CONNECTED"
  /\ \E n \in delivered[c] + 1 .. written[c] : delivered' = [delivered EXCEPT ![c] = n]
  /\ Say(c, "echo")
  /\ UNCHANGED <<arrivals, phase, members, written>>

(* A frame without a payload: nothing is delivered, and it is echoed.     *)
DeliverNothing(c) ==
  /\ phase[c] = "CONNECTED"
  /\ Say(c, "echo")
  /\ UNCHANGED <<arrivals, phase, members, written, delivered>>

(* The answers of the protocol: to what is in error, and to a PING.       *)
Answer(c) ==
  /\ \/ Here(c) /\ Say(c, "close")
     \/ phase[c] \in {"WAIT_SHAKE", "CONNECTED"} /\ Say(c, "pong")
  /\ UNCHANGED <<arrivals, phase, members, written, delivered>>

(* All that was said is sent, or dropped when the kernel has no room.     *)
Flush(c) ==
  /\ phase[c] \in {"NONE", "CONNECTED"}
  /\ outbox' = [outbox EXCEPT ![c] = <<>>]
  /\ UNCHANGED <<arrivals, phase, members, written, delivered>>

(* A session is over for itself, for main.cpp and for the peer at once.   *)
End(c) ==
  /\ Here(c)
  /\ Becomes(c, "closed")
  /\ members' = members \ {c}
  /\ outbox' = [outbox EXCEPT ![c] = <<>>]
  /\ UNCHANGED <<arrivals, written, delivered>>

Next ==
  \/ Accept
  \/ \E c \in Conns :
       \/ Arrive(c) \/ Write(c)
       \/ Shake(c) \/ Join(c) \/ Deliver(c) \/ DeliverNothing(c)
       \/ Answer(c) \/ Flush(c) \/ End(c)

Spec == Init /\ [][Next]_vars
=============================================================================
