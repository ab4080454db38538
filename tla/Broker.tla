------------------------------- MODULE Broker -------------------------------
(***************************************************************************)
(* The connection broker of the login server: the two listeners, the pool *)
(* of mio tokens, the two token -> connection maps (src/socket/server.rs), *)
(* the readiness dispatcher poll_events, and the lifecycle of the TLS      *)
(* client connection (src/socket/client.rs, process / tls_read /           *)
(* close_socket).  Peers are the outside world: they connect, send TLS     *)
(* records or framed bytes, and close.                                     *)
(*                                                                         *)
(* mio registers sockets edge-triggered: armed[t] is an undelivered        *)
(* readiness edge of token t.  A new edge appears when bytes or a FIN      *)
(* arrive at a socket registered for Read; reregister re-arms the edge     *)
(* when readiness is still present.                                        *)
(***************************************************************************)
EXTENDS Integers, Sequences, FiniteSets, Functions, TLC

CONSTANTS
  MaxConnections,  \* config.maxconnections: tokens 2 .. MaxConnections-1
  Clients,         \* player clients connecting to the TLS listener
  GameServers,     \* game servers connecting to the plaintext listener
  MaxChunks        \* bound: chunks a game server writes to its socket

ASSUME MaxConnections \in Nat /\ MaxConnections >= 3
ASSUME Clients \cap GameServers = {}
ASSUME MaxChunks \in Nat

Peers == Clients \cup GameServers

\* Server::new: "for i in 2..max { tokens.push_back(mio::Token(i)) }"
TokenIds == 2 .. (MaxConnections - 1)

SocketStates == {"Open", "Closing", "Closed"}
SocketPollStates == {"None", "Read", "Write", "ReadWrite"}
PeerStates == {"Idle", "Pending", "Connected", "Dropped", "Released"}

VARIABLES
  tokens,       \* Server.tokens, the VecDeque of free tokens
  clients,      \* Server.clients: token -> client connection
  gameServers,  \* Server.game_servers: token -> game-server connection
  registry,     \* mio registry: token -> registered interest
  armed,        \* token -> an undelivered readiness edge
  backlog,      \* listener kind -> accept queue of peers (kernel backlog)
  pstate,       \* peer -> where the peer is in its connection
  inflight,     \* peer -> chunks in the socket not yet read by the broker
  sent,         \* peer -> chunks written so far
  fin           \* peer -> the peer has closed its side

vars == <<tokens, clients, gameServers, registry, armed, backlog,
          pstate, inflight, sent, fin>>

Kind(p) == IF p \in Clients THEN "client" ELSE "server"

\* The interest a SocketPollState registers (event_set).
WantsRead(s) == s \in {"Read", "ReadWrite"}
WantsWrite(s) == s \in {"Write", "ReadWrite"}

\* A peer socket is readable while it holds bytes or an unread FIN.
Readable(p) == inflight[p] > 0 \/ fin[p]

Conns == clients @@ gameServers

MinOf(a, b) == IF a <= b THEN a ELSE b

(***************************************************************************)
(* Mutants: plausible slips in the code, each replacing one definition.   *)
(***************************************************************************)
RemoveUnguarded(t) ==
  /\ clients' = Restrict(clients, DOMAIN clients \ {t})
  /\ tokens' = <<t>> \o tokens

ReregisterForgotten(t, s, p) ==
  /\ registry' = [registry EXCEPT ![t] = s]
  /\ armed' = [armed EXCEPT ![t] = FALSE]

AdmittedOffByOne(q, pool) == MinOf(Len(q), IF Len(pool) > 0 THEN Len(pool) - 1 ELSE 0)

EofIgnored(c) == c
NewConnAlwaysTls(k, p) == [peer |-> p, state |-> "Open", tlsWants |-> FALSE]

(***************************************************************************)
(* Server::remove: only a token of the clients map goes back to the pool, *)
(* at its front.                                                           *)
(***************************************************************************)
Remove(t) ==
  IF t \in DOMAIN clients
  THEN /\ clients' = Restrict(clients, DOMAIN clients \ {t})
       /\ tokens' = <<t>> \o tokens
  ELSE UNCHANGED <<clients, tokens>>

\* Client::reregister: the interest becomes event_set(poll_state); mio
\* reports the readiness that is still present as a new edge.
Reregister(t, s, p) ==
  /\ registry' = [registry EXCEPT ![t] = s]
  /\ armed' = [armed EXCEPT ![t] = WantsRead(s) /\ Readable(p)']

\* The accept loop hands out the front tokens while the pool lasts.
Admitted(q, pool) == MinOf(Len(q), Len(pool))

Init ==
  /\ tokens = [i \in 1 .. Cardinality(TokenIds) |-> i + 1]
  /\ clients = <<>>
  /\ gameServers = <<>>
  /\ registry = <<>>
  /\ armed = <<>>
  /\ backlog = [k \in {"client", "server"} |-> <<>>]
  /\ pstate = [p \in Peers |-> "Idle"]
  /\ inflight = [p \in Peers |-> 0]
  /\ sent = [p \in Peers |-> 0]
  /\ fin = [p \in Peers |-> FALSE]

(***************************************************************************)
(* The peers.                                                              *)
(***************************************************************************)
Connect(p) ==
  /\ pstate[p] = "Idle"
  /\ pstate' = [pstate EXCEPT ![p] = "Pending"]
  /\ backlog' = [backlog EXCEPT ![Kind(p)] = Append(@, p)]
  /\ UNCHANGED <<tokens, clients, gameServers, registry, armed,
                 inflight, sent, fin>>

\* A new edge for the connection of p, if it is registered for Read.
EdgeFor(p) ==
  armed' = [t \in DOMAIN armed |->
              armed[t] \/ (Conns[t].peer = p /\ WantsRead(registry[t]))]

\* A client writes its TLS ClientHello; it can send nothing more before
\* the server's handshake flight reaches it.  A game server writes frames.
PeerSend(p) ==
  /\ pstate[p] \in {"Pending", "Connected"}
  /\ ~fin[p]
  /\ sent[p] < (IF p \in Clients THEN 1 ELSE MaxChunks)
  /\ inflight' = [inflight EXCEPT ![p] = @ + 1]
  /\ sent' = [sent EXCEPT ![p] = @ + 1]
  /\ EdgeFor(p)
  /\ UNCHANGED <<tokens, clients, gameServers, registry, backlog, pstate, fin>>

PeerClose(p) ==
  /\ pstate[p] \in {"Pending", "Connected"}
  /\ ~fin[p]
  /\ fin' = [fin EXCEPT ![p] = TRUE]
  /\ EdgeFor(p)
  /\ UNCHANGED <<tokens, clients, gameServers, registry, backlog, pstate,
                 inflight, sent>>

(***************************************************************************)
(* Server::accept_client / accept_server, with the listener re-armed by   *)
(* poll_events afterwards: accept until WouldBlock; a peer gets the token *)
(* popped from the front of the pool, or is dropped when none is left.    *)
(* A socket registered while bytes or a FIN wait in it reports an edge.   *)
(***************************************************************************)
NewConn(k, p) ==
  IF k = "client"
  THEN [peer |-> p, state |-> "Open", tlsWants |-> FALSE]
  ELSE [peer |-> p, state |-> "Open"]

Accept(k) ==
  LET q     == backlog[k]
      n     == Admitted(q, tokens)
      given == {tokens[i] : i \in 1 .. n}
      peer  == [t \in given |-> q[CHOOSE i \in 1 .. n : tokens[i] = t]]
      fresh == [t \in given |-> NewConn(k, peer[t])]
  IN
  /\ q /= <<>>
  /\ tokens' = SubSeq(tokens, n + 1, Len(tokens))
  /\ IF k = "client"
     THEN clients' = fresh @@ clients /\ UNCHANGED gameServers
     ELSE gameServers' = fresh @@ gameServers /\ UNCHANGED clients
  /\ registry' = [t \in given |-> "Read"] @@ registry
  /\ armed' = [t \in given |-> Readable(peer[t])] @@ armed
  /\ pstate' = [p \in Peers |->
                  CASE \E i \in 1 .. n : q[i] = p           -> "Connected"
                    [] \E i \in n + 1 .. Len(q) : q[i] = p  -> "Dropped"
                    [] OTHER                                -> pstate[p]]
  /\ backlog' = [backlog EXCEPT ![k] = <<>>]
  /\ UNCHANGED <<inflight, sent, fin>>

(***************************************************************************)
(* Client::tls_read, one readable event: the loop ends after one read_tls *)
(* whatever it returns.  Ok(0) is end of stream; otherwise one TLS record *)
(* is read and process_new_packets either fails or accepts it (the        *)
(* ClientHello, after which the session wants to write its flight).       *)
(***************************************************************************)
ReadEof(c) == [c EXCEPT !.state = "Closing"]

TlsRead(c, p) ==
  IF inflight[p] = 0
  THEN {[conn |-> ReadEof(c), used |-> 0]}
  ELSE {[conn |-> [c EXCEPT !.tlsWants = TRUE], used |-> 1],
        [conn |-> [c EXCEPT !.state = "Closing"], used |-> 1]}

\* Client::tls_write: with nothing queued, write_tls drains the session.
TlsWrite(c) == [c EXCEPT !.tlsWants = FALSE]

(***************************************************************************)
(* poll_events for the token of a client: Client::process (poll state set *)
(* to Read, tls_read if readable, tls_write if writable, Write added only *)
(* when frames are queued), then close_socket (deregister, shutdown,      *)
(* Closed) and Server::remove, or else reregister.                        *)
(***************************************************************************)
ClientEvent(t) ==
  /\ t \in DOMAIN clients
  /\ armed[t]
  /\ UNCHANGED <<gameServers, backlog, sent, fin>>
  /\ LET c == clients[t]
         p == c.peer
     IN \E r \in TlsRead(c, p) :
          LET c2 == IF WantsWrite(registry[t]) THEN TlsWrite(r.conn) ELSE r.conn
          IN
          /\ inflight' = [inflight EXCEPT ![p] = @ - r.used]
          /\ IF c2.state = "Closing"
             THEN /\ registry' = Restrict(registry, DOMAIN registry \ {t})
                  /\ armed' = Restrict(armed, DOMAIN armed \ {t})
                  /\ pstate' = [pstate EXCEPT ![p] = "Released"]
                  /\ Remove(t)
             ELSE /\ clients' = [clients EXCEPT ![t] = c2]
                  /\ Reregister(t, "Read", p)
                  /\ UNCHANGED <<tokens, pstate>>

(***************************************************************************)
(* poll_events for the token of a game server: the token is looked up in  *)
(* Server.clients only, so the event counts as a Closed socket and        *)
(* Server::remove is called; GameServer::process is never run.            *)
(***************************************************************************)
GameServerEvent(t) ==
  /\ t \in DOMAIN gameServers
  /\ armed[t]
  /\ armed' = [armed EXCEPT ![t] = FALSE]
  /\ Remove(t)
  /\ UNCHANGED <<gameServers, registry, backlog, pstate, inflight, sent, fin>>

\* Every peer is done and the broker has no event left: the driver loop
\* keeps polling and finds nothing.
Quiescent ==
  /\ \A p \in Peers : pstate[p] \in {"Dropped", "Released"} \/ fin[p]
  /\ \A k \in DOMAIN backlog : backlog[k] = <<>>
  /\ \A t \in DOMAIN armed : ~armed[t]
  /\ UNCHANGED vars

Next ==
  \/ \E p \in Peers : Connect(p) \/ PeerSend(p) \/ PeerClose(p)
  \/ \E k \in {"client", "server"} : Accept(k)
  \/ \E t \in TokenIds : ClientEvent(t) \/ GameServerEvent(t)
  \/ Quiescent

\* The driver loop polls every millisecond and handles every event of a
\* poll, so each enabled broker step is eventually taken; peers may stall.
Fairness ==
  /\ \A k \in {"client", "server"} : WF_vars(Accept(k))
  /\ \A t \in TokenIds : WF_vars(ClientEvent(t)) /\ WF_vars(GameServerEvent(t))

Spec == Init /\ [][Next]_vars /\ Fairness

(***************************************************************************)
(* Properties.                                                             *)
(***************************************************************************)
TypeOK ==
  /\ tokens \in Seq(TokenIds)
  /\ DOMAIN clients \subseteq TokenIds
  /\ \A t \in DOMAIN clients :
       clients[t] \in [peer : Clients, state : SocketStates, tlsWants : BOOLEAN]
  /\ DOMAIN gameServers \subseteq TokenIds
  /\ \A t \in DOMAIN gameServers :
       gameServers[t] \in [peer : GameServers, state : SocketStates]
  /\ DOMAIN registry = DOMAIN armed
  /\ \A t \in DOMAIN registry : registry[t] \in SocketPollStates /\ armed[t] \in BOOLEAN
  /\ backlog \in [{"client", "server"} -> Seq(Peers)]
  /\ pstate \in [Peers -> PeerStates]
  /\ inflight \in [Peers -> Nat] /\ sent \in [Peers -> Nat]
  /\ fin \in [Peers -> BOOLEAN]

\* Spec 3 and 8.2: every token is either free, exactly once, or held by
\* exactly one live connection, client or game server.  Server::remove is
\* reached from poll_events for any non-listener token, including the
\* tokens of game servers; only its contains_key guard keeps a game
\* server's token out of the pool.
TokenPartition ==
  LET pool == Range(tokens) IN
  /\ IsInjective(tokens)
  /\ pool \cap DOMAIN clients = {}
  /\ pool \cap DOMAIN gameServers = {}
  /\ DOMAIN clients \cap DOMAIN gameServers = {}
  /\ pool \cup DOMAIN clients \cup DOMAIN gameServers = TokenIds

\* No lost wakeup: tls_read reads a single TLS record per event, so a client
\* whose socket still holds bytes or a FIN after process() must have its
\* edge re-armed by reregister, or it is never read again.
NoLostWakeup ==
  \A t \in DOMAIN clients :
    clients[t].state = "Open" /\ Readable(clients[t].peer) => armed[t]

\* Admission control (accept_client / accept_server): a connecting peer is
\* dropped only in a step after which every token is held by a connection.
DropOnlyWhenFull ==
  [][\A p \in Peers :
       pstate[p] = "Pending" /\ pstate'[p] = "Dropped" =>
         DOMAIN clients' \cup DOMAIN gameServers' = TokenIds]_vars

\* A client that closes its socket is eventually seen by tls_read (Ok(0)),
\* closed and removed, which returns its token to the pool.
ClientCloseReleases ==
  \A p \in Clients : (pstate[p] = "Connected" /\ fin[p]) ~> pstate[p] = "Released"

\* Spec 3 and 5: a connection identifier returns to the pool on disconnect.
\* For a game server this needs poll_events to run GameServer::process and
\* Server::remove to release game-server tokens.
GameServerCloseReleases ==
  \A p \in GameServers :
    (pstate[p] = "Connected" /\ fin[p]) ~>
      \A t \in DOMAIN gameServers : gameServers[t].peer /= p

\* Spec 4.4: the poll interest includes Write while the TLS session wants
\* to write, so the server's handshake flight written after the ClientHello
\* eventually leaves, unless the connection goes away first.
HandshakeFlushed ==
  \A t \in TokenIds :
    (t \in DOMAIN clients /\ clients[t].tlsWants) ~>
      (t \notin DOMAIN clients \/ ~clients[t].tlsWants)

=============================================================================
