---------------------------- MODULE EpollSockets ----------------------------
(***************************************************************************)
(* The world outside the server's event loop, external to src/: the        *)
(* kernel's sockets, its epoll instance, and the peers at the other end.   *)
(* It is modelled from how tcp_server.cpp uses it: a non-blocking socket   *)
(* per accepted connection, registered edge triggered (EPOLLET) with the   *)
(* interest sets that tcp_server.cpp passes to epoll_ctl.                  *)
(*                                                                         *)
(* A descriptor is named by its connection.  The loop closes only the      *)
(* connection whose event it handles and epoll_wait reports a descriptor   *)
(* at most once per batch, so the reuse of a closed number cannot be       *)
(* observed by the single-threaded server.                                 *)
(*                                                                         *)
(* The bytes a peer writes are units: an HTTP request, a whole WebSocket   *)
(* frame, or a fragment of one that arrives on its own.                    *)
(***************************************************************************)
EXTENDS Naturals, SequencesExt

CONSTANTS
  Conns,      \* the connections that peers may open
  Listener,   \* the listening descriptor (listen_fd_)
  Kinds,      \* the units that peers write in this instance
  Faults,     \* what may go wrong in this instance: a peer ends its side
              \* ("fin", "rst"), a send buffer has no room ("full"), the
              \* kernel refuses accept() ("accept") or send() ("send")
  MaxUnits    \* bound: units that a peer writes on one connection

HttpKinds == {"hs", "nohs", "badhs"}
FrameKinds == {"text", "badutf", "frag", "cont", "bad", "ping", "pong",
               "close", "short", "other"}

ASSUME SocketAssumption ==
  /\ Listener \notin Conns
  /\ Kinds \subseteq HttpKinds \cup FrameKinds
  /\ Faults \subseteq {"fin", "rst", "full", "accept", "send"}
  /\ MaxUnits \in Nat

VARIABLES
  sock,       \* a connection in the server's kernel: unused, in the accept
              \* queue, accepted, or closed by the server
  backlog,    \* the accept queue of the listening socket
  inbuf,      \* units received and not yet read
  peer,       \* the peer has its side open, has sent FIN, or has reset
  full,       \* the socket's send buffer has no room
  sent,       \* number of units the peer has written
  interest,   \* the epoll registration of each descriptor ({}: none)
  ready       \* epoll's ready list

sockVars == <<sock, backlog, inbuf, peer, full, sent, interest, ready>>

Fds == Conns \cup {Listener}
Events == {"IN", "OUT", "RDHUP", "HUP"}
Unit == [kind : Kinds, n : 1 .. MaxUnits]

Open(c) == sock[c] = "open"

(* What poll() of a descriptor reports, whatever the registration. *)
Pollable(f) ==
  IF f = Listener
  THEN {e \in {"IN"} : backlog # <<>>}
  ELSE {e \in Events : \/ e = "IN" /\ (inbuf[f] # <<>> \/ peer[f] # "up")
                       \/ e = "OUT" /\ ~full[f]
                       \/ e = "RDHUP" /\ peer[f] # "up"
                       \/ e = "HUP" /\ peer[f] = "rst"}

(* The events epoll_wait would report; EPOLLHUP and EPOLLERR are reported *)
(* for every registered descriptor, asked for or not.                     *)
Revents(f) ==
  {e \in Pollable(f) : e \in interest[f] \/ (e = "HUP" /\ interest[f] # {})}

SockTypeOK ==
  /\ sock \in [Conns -> {"idle", "pending", "open", "closed"}]
  /\ backlog \in Seq(Conns)
  /\ inbuf \in [Conns -> Seq(Unit)]
  /\ peer \in [Conns -> {"up", "fin", "rst"}]
  /\ full \in [Conns -> BOOLEAN]
  /\ sent \in [Conns -> 0 .. MaxUnits]
  /\ interest \in [Fds -> SUBSET Events]
  /\ ready \in SUBSET Fds

(* init_tcp_server and init_epoll: the listening socket is registered. *)
SockInit ==
  /\ sock = [c \in Conns |-> "idle"]
  /\ backlog = <<>>
  /\ inbuf = [c \in Conns |-> <<>>]
  /\ peer = [c \in Conns |-> "up"]
  /\ full = [c \in Conns |-> FALSE]
  /\ sent = [c \in Conns |-> 0]
  /\ interest = [f \in Fds |-> IF f = Listener THEN {"IN", "RDHUP"} ELSE {}]
  /\ ready = {}

(* An edge: the kernel puts a registered descriptor on the ready list. *)
Wake(f) == ready' = IF interest[f] # {} THEN ready \cup {f} ELSE ready

(* close(): the descriptor leaves the epoll set and unread input is lost. *)
CloseSocket(c) ==
  /\ sock' = [sock EXCEPT ![c] = "closed"]
  /\ interest' = [interest EXCEPT ![c] = {}]
  /\ ready' = ready \ {c}
  /\ inbuf' = [inbuf EXCEPT ![c] = <<>>]
  /\ full' = [full EXCEPT ![c] = FALSE]
  /\ UNCHANGED <<backlog, peer, sent>>

-----------------------------------------------------------------------------
(* The peers. *)

PeerConnect(c) ==
  /\ sock[c] = "idle"
  /\ sock' = [sock EXCEPT ![c] = "pending"]
  /\ backlog' = Append(backlog, c)
  /\ Wake(Listener)
  /\ UNCHANGED <<inbuf, peer, full, sent, interest>>

(* A "short" unit (a lone first byte of a frame) is read on its own, and  *)
(* no HTTP request is written behind frames that are still unread.        *)
MayFollow(c, k) ==
  LET unread == {u.kind : u \in ToSet(inbuf[c])}
  IN /\ "short" \notin unread
     /\ k = "short" => unread = {}
     /\ k \in HttpKinds => unread \subseteq HttpKinds

PeerSend(c, k) ==
  /\ sock[c] \in {"pending", "open"}
  /\ peer[c] = "up"
  /\ sent[c] < MaxUnits
  /\ MayFollow(c, k)
  /\ sent' = [sent EXCEPT ![c] = @ + 1]
  /\ inbuf' = [inbuf EXCEPT ![c] = Append(@, [kind |-> k, n |-> sent[c] + 1])]
  /\ Wake(c)
  /\ UNCHANGED <<sock, backlog, peer, full, interest>>

PeerFin(c) ==
  /\ "fin" \in Faults
  /\ sock[c] \in {"pending", "open"}
  /\ peer[c] = "up"
  /\ peer' = [peer EXCEPT ![c] = "fin"]
  /\ Wake(c)
  /\ UNCHANGED <<sock, backlog, inbuf, full, sent, interest>>

PeerRst(c) ==
  /\ "rst" \in Faults
  /\ sock[c] \in {"pending", "open"}
  /\ peer[c] # "rst"
  /\ peer' = [peer EXCEPT ![c] = "rst"]
  /\ Wake(c)
  /\ UNCHANGED <<sock, backlog, inbuf, full, sent, interest>>

(* The peer reads: a full send buffer drains, an edge for EPOLLOUT only. *)
PeerDrain(c) ==
  /\ sock[c] = "open"
  /\ full[c]
  /\ full' = [full EXCEPT ![c] = FALSE]
  /\ ready' = IF "OUT" \in interest[c] THEN ready \cup {c} ELSE ready
  /\ UNCHANGED <<sock, backlog, inbuf, peer, sent, interest>>

Peers ==
  \E c \in Conns :
    \/ PeerConnect(c)
    \/ \E k \in Kinds : PeerSend(c, k)
    \/ PeerFin(c)
    \/ PeerRst(c)
    \/ PeerDrain(c)
=============================================================================
