--------------------------- MODULE GameServerConn ---------------------------
(***************************************************************************)
(* One game-server connection and its length-prefixed frame pipeline      *)
(* (src/socket/game_server.rs): GameServer::process (read, write,         *)
(* close_socket, reregister), get_length, process_packets, socket_update  *)
(* and send, driven by the two phases of the game loop                    *)
(* (src/gameloop/mainloop.rs): poll_events, then process_packets.         *)
(*                                                                         *)
(* The peer builds a wire of frames [len, need, reply]: len is the length *)
(* header, need the bytes its handler reads, reply whether the handler    *)
(* answers (Verification does; UpdateInfo, UpdateCount, OnlineCheck do    *)
(* not).  The peer writes the wire in pieces that end inside a header,    *)
(* after a header, or after a frame.                                       *)
(***************************************************************************)
EXTENDS Integers, Sequences, FiniteSets, TLC

CONSTANTS
  FrameKinds,     \* frames the peer may write: [len, need, reply]
  MaxFrames,      \* bound: frames on the wire
  MaxFrameLen,    \* 8192: get_length accepts 1 ..= MaxFrameLen
  MaxProcessed,   \* MAX_PROCESSED_PACKETS (25) frames per connection per tick
  MaxWrites       \* 25: frames GameServer::write sends per call

ASSUME MaxFrames \in Nat /\ MaxFrameLen \in Nat \ {0}
ASSUME MaxProcessed \in Nat \ {0} /\ MaxWrites \in Nat \ {0}
ASSUME FrameKinds \subseteq [len : Nat, need : Nat, reply : BOOLEAN]

Header == 8   \* the u64 length header

VARIABLES
  wire,        \* frames the peer has produced
  wpos,        \* bytes of the wire written into the socket
  fin,         \* the peer has closed its side
  blen,        \* buffer.length(): bytes read into the receive buffer
  cursor,      \* buffer.cursor()
  state,       \* SocketState
  poll,        \* poll_state (SocketPollState)
  reg,         \* interest registered with mio, "Gone" once deregistered
  armed,       \* an undelivered readiness edge
  ids,         \* the token is in storage.servers_ids
  sends,       \* frames in the sends queue
  delivered,   \* frames written to the peer, as write counts them
  received,    \* the reply bytes the peer got, in order, each [frame, at]
  handled,     \* indices of frames whose handler returned Ok
  phase,       \* game_loop: "poll" (poll_events) or "dispatch" (process_packets)
  crashed      \* process_packets returned Err: game_loop unwraps and panics

vars == <<wire, wpos, fin, blen, cursor, state, poll, reg, armed, ids,
          sends, delivered, received, handled, phase, crashed>>

(***************************************************************************)
(* The wire as bytes.                                                      *)
(***************************************************************************)
RECURSIVE StartOf(_, _)
\* Byte offset of frame k of wire w.
StartOf(w, k) == IF k = 1 THEN 0 ELSE StartOf(w, k - 1) + Header + w[k - 1].len

Boundaries == {StartOf(wire, k) : k \in 1 .. Len(wire) + 1}

WriteTargets ==
  UNION {{StartOf(wire, k) + Header \div 2, StartOf(wire, k) + Header,
          StartOf(wire, k + 1)} : k \in 1 .. Len(wire)}

\* The frame whose header starts at byte c.
FrameAt(c) == CHOOSE k \in 1 .. Len(wire) : StartOf(wire, k) = c

\* buffer.read::<u64>() at c: a header, or payload bytes read as one.
HeaderAt(c) == IF c \in Boundaries THEN wire[FrameAt(c)].len ELSE MaxFrameLen + 1

(***************************************************************************)
(* SocketPollState (add, contains) and the interest it registers.         *)
(***************************************************************************)
PollAdd(s, a) ==
  CASE s = "None"                  -> a
    [] s = "Read" /\ a = "Write"   -> "ReadWrite"
    [] s = "Write" /\ a = "Read"   -> "ReadWrite"
    [] OTHER                       -> s

WantsRead(s) == s \in {"Read", "ReadWrite"}
WantsWrite(s) == s \in {"Write", "ReadWrite"}

MaxOf(a, b) == IF a >= b THEN a ELSE b
MinOf(a, b) == IF a <= b THEN a ELSE b

\* The readiness mio reports for interest s with b bytes read (edge-triggered).
ReadyFor(s, b) == (WantsRead(s) /\ (wpos > b \/ fin)) \/ WantsWrite(s)

(***************************************************************************)
(* Mutants: plausible slips in the code, each replacing one definition.   *)
(***************************************************************************)
RewindMissing(c) == c
RestoreToStart(g, pos) == [g EXCEPT !.cursor = 0]
MarkForgotten(g) == [g EXCEPT !.poll = PollAdd(@, "Read")]
CapOffByOne(n) == n = MaxProcessed + 1
WriteOverrun(g) ==
  {[g EXCEPT !.sends = @ - n, !.delivered = @ + n] : n \in 0 .. MaxWrites}

(***************************************************************************)
(* GameServer::read: remember the cursor, move it to the end, read until  *)
(* WouldBlock (every byte in the socket), then put the cursor back and    *)
(* mark the token in servers_ids, or add Read when nothing is buffered.   *)
(* Ok(0) or an error sets Closing and returns before the cursor is put    *)
(* back.                                                                   *)
(***************************************************************************)
RestoreCursor(g, pos) == [g EXCEPT !.cursor = pos]

MarkReady(g) ==
  IF g.blen > 0 THEN [g EXCEPT !.ids = TRUE] ELSE [g EXCEPT !.poll = PollAdd(@, "Read")]

Read(g) ==
  LET g1 == [g EXCEPT !.blen = wpos, !.cursor = wpos] IN
  IF fin THEN [g1 EXCEPT !.state = "Closing"]
  ELSE MarkReady(RestoreCursor(g1, g.cursor))

(***************************************************************************)
(* GameServer::write: up to MaxWrites frames leave; an error sets Closing *)
(* and returns.  write_all on the non-blocking stream loops over write:   *)
(* when the socket takes p bytes of a frame and then would block, it      *)
(* returns WouldBlock with those p bytes already sent, and the whole      *)
(* frame is pushed back to the front of sends.                            *)
(*                                                                         *)
(* A reply is ReplyLen bytes (the Verification frame, scaled); byte at of *)
(* the k-th reply written is [frame |-> k, at |-> at].                    *)
(***************************************************************************)
ReplyLen == 2

\* bound: a partial write is taken only while the peer holds fewer bytes
\* than this (each one is a write that would block, and may repeat).
MaxReceived == ReplyLen * MaxFrames

\* The first p bytes of the replies from reply a on.
ReplyBytes(a, p) ==
  [i \in 1 .. p |-> [frame |-> a + (i - 1) \div ReplyLen, at |-> ((i - 1) % ReplyLen) + 1]]

\* n whole frames written, then p bytes of the next.
Written(g, n, p) ==
  [g EXCEPT !.sends = @ - n, !.delivered = @ + n,
            !.received = @ \o ReplyBytes(g.delivered + 1, n * ReplyLen + p)]

WriteOutcomes(g) ==
  LET m == MinOf(g.sends, MaxWrites) IN
  {Written(g, m, 0)}
  \cup {Written(g, n, p) : n \in 0 .. m - 1,
                           p \in {q \in 0 .. ReplyLen - 1 :
                                  q = 0 \/ Len(g.received) < MaxReceived}}
  \cup {[Written(g, n, 0) EXCEPT !.state = "Closing"] : n \in 0 .. m - 1}

(***************************************************************************)
(* The pieces of process_packets, on a record d of the connection.        *)
(* reregister fails once close_socket has deregistered the socket; the    *)
(* error travels up through process_packets to game_loop's unwrap.        *)
(***************************************************************************)
Reregister(d) ==
  IF d.reg = "Gone" THEN [d EXCEPT !.crashed = TRUE]
  ELSE [d EXCEPT !.reg = d.poll, !.rr = TRUE]

SetToClosing(d) ==
  Reregister([d EXCEPT !.state = "Closing", !.poll = PollAdd(@, "Write")])

\* GameServer::send and add_write_state.
Send(d) ==
  LET d1 == [d EXCEPT !.sends = @ + 1] IN
  IF WantsWrite(d1.poll) THEN d1
  ELSE Reregister([d1 EXCEPT !.poll = PollAdd(@, "Write")])

SocketUpdate(d, close) ==
  LET d1 == [d EXCEPT !.ids = FALSE] IN
  IF close THEN SetToClosing(d1) ELSE d1

\* get_length: [d, len], len = 0 standing for None.
GetLength(d) ==
  IF blen - d.cursor >= Header
  THEN LET len == HeaderAt(d.cursor)
           d1  == [d EXCEPT !.cursor = @ + Header]
       IN IF len < 1 \/ len > MaxFrameLen
          THEN [d |-> SetToClosing(d1), len |-> 0]
          ELSE [d |-> d1, len |-> len]
  ELSE [d |-> Reregister([d EXCEPT !.poll = PollAdd(@, "Read")]), len |-> 0]

\* game_server_handle_data: the handler reads need bytes of the scratch
\* packet; a read past its length is an Err.
HandleData(d, k) ==
  IF wire[k].need > d.plen THEN [d EXCEPT !.err = TRUE]
  ELSE LET d1 == [d EXCEPT !.handled = Append(@, k)] IN
       IF wire[k].reply THEN Send(d1) ELSE d1

Rewind(c) == c - Header

CapReached(n) == n = MaxProcessed

\* The loop of process_packets for this token.  The call makes one fresh
\* scratch packet (plen 0), and read_slice copies each frame into it at
\* offset 0, so within the call its length only grows.
RECURSIVE ProcessLoop(_)
\* A handled frame: stop on a handler error or the cap, or loop.
AfterHandle(h) ==
  IF h.crashed THEN h
  ELSE IF h.err THEN SocketUpdate([h EXCEPT !.err = FALSE], TRUE)
  ELSE IF CapReached(h.count + 1) THEN [h EXCEPT !.count = @ + 1]
  ELSE ProcessLoop([h EXCEPT !.count = @ + 1])

\* After get_length returned g for the frame whose header is at c.
AfterLength(g, c) ==
  IF g.d.crashed THEN g.d
  ELSE IF g.len = 0 THEN SocketUpdate(g.d, FALSE)
  ELSE IF g.len <= blen - g.d.cursor
  THEN CHOOSE r \in {AfterHandle(h) :
                     h \in {HandleData([g.d EXCEPT !.cursor = @ + g.len,
                                                  !.plen = MaxOf(@, g.len)],
                                       FrameAt(c))}} : TRUE
  ELSE SocketUpdate([g.d EXCEPT !.cursor = Rewind(@)], FALSE)

\* Intermediate results are bound as elements of one-element sets rather
\* than by LET, so that TLC computes each once when it evaluates ENABLED.
ProcessLoop(d) ==
  CHOOSE r \in {AfterLength(g, d.cursor) : g \in {GetLength(d)}} : TRUE

Init ==
  /\ wire = <<>>
  /\ wpos = 0
  /\ fin = FALSE
  /\ blen = 0
  /\ cursor = 0
  /\ state = "Open"
  /\ poll = "Read"
  /\ reg = "Read"
  /\ armed = FALSE
  /\ ids = FALSE
  /\ sends = 0
  /\ delivered = 0
  /\ received = <<>>
  /\ handled = <<>>
  /\ phase = "poll"
  /\ crashed = FALSE

(***************************************************************************)
(* The peer: it composes frames, writes the wire in pieces, and closes.   *)
(* Bytes or a FIN arriving make an edge if Read is registered.            *)
(***************************************************************************)
Edge == armed' = (armed \/ (reg /= "Gone" /\ WantsRead(reg)))

PeerFrame(f) ==
  /\ Len(wire) < MaxFrames
  /\ ~fin
  /\ wire' = Append(wire, f)
  /\ UNCHANGED <<wpos, fin, blen, cursor, state, poll, reg, armed, ids,
                 sends, delivered, received, handled, phase, crashed>>

PeerWrite(o) ==
  /\ ~fin
  /\ o > wpos
  /\ wpos' = o
  /\ Edge
  /\ UNCHANGED <<wire, fin, blen, cursor, state, poll, reg, ids,
                 sends, delivered, received, handled, phase, crashed>>

PeerClose ==
  /\ ~fin
  /\ fin' = TRUE
  /\ Edge
  /\ UNCHANGED <<wire, wpos, blen, cursor, state, poll, reg, ids,
                 sends, delivered, received, handled, phase, crashed>>

(***************************************************************************)
(* poll_events delivers the edge: GameServer::process sets the poll state *)
(* to Read, reads if readable, writes if writable, adds Write while frames *)
(* are queued, then close_socket (deregister, Closed) if Closing, or else *)
(* reregister, which reports the readiness still present as a new edge.   *)
(***************************************************************************)
Process ==
  /\ phase = "poll"
  /\ armed
  /\ phase' = "dispatch"
  /\ LET rd == WantsRead(reg) /\ (wpos > blen \/ fin)
         g0 == [blen |-> blen, cursor |-> cursor, state |-> state,
                poll |-> "Read", ids |-> ids, sends |-> sends,
                delivered |-> delivered, received |-> received]
         g1 == IF rd THEN Read(g0) ELSE g0
     IN \E g2 \in (IF WantsWrite(reg) THEN WriteOutcomes(g1) ELSE {g1}) :
          LET g3 == IF g2.sends > 0 THEN [g2 EXCEPT !.poll = PollAdd(@, "Write")]
                    ELSE g2
          IN
          /\ blen' = g3.blen
          /\ cursor' = g3.cursor
          /\ ids' = g3.ids
          /\ sends' = g3.sends
          /\ delivered' = g3.delivered
          /\ received' = g3.received
          /\ poll' = g3.poll
          /\ IF g3.state = "Closing"
             THEN /\ state' = "Closed"
                  /\ reg' = "Gone"
                  /\ armed' = FALSE
             ELSE /\ state' = g3.state
                  /\ reg' = g3.poll
                  /\ armed' = ReadyFor(g3.poll, g3.blen)
  /\ UNCHANGED <<wire, wpos, fin, handled, crashed>>

NoEvent ==
  /\ phase = "poll"
  /\ ~armed
  /\ phase' = "dispatch"
  /\ UNCHANGED <<wire, wpos, fin, blen, cursor, state, poll, reg, armed,
                 ids, sends, delivered, received, handled, crashed>>

(***************************************************************************)
(* process_packets: a token of servers_ids is looked up in game_servers,  *)
(* which never loses it, and its frames are handled.                      *)
(***************************************************************************)
ProcessPackets ==
  /\ phase = "dispatch"
  /\ ids
  /\ phase' = "poll"
  /\ \E d \in {ProcessLoop([cursor |-> cursor, plen |-> 0, state |-> state,
                             poll |-> poll, reg |-> reg, ids |-> ids,
                             sends |-> sends, handled |-> handled, count |-> 0,
                             err |-> FALSE, rr |-> FALSE, crashed |-> FALSE])} :
     /\ cursor' = d.cursor
     /\ state' = d.state
     /\ poll' = d.poll
     /\ reg' = d.reg
     /\ ids' = d.ids
     /\ sends' = d.sends
     /\ handled' = d.handled
     /\ crashed' = d.crashed
     /\ armed' = (armed \/ (d.rr /\ ReadyFor(d.reg, blen)))
  /\ UNCHANGED <<wire, wpos, fin, blen, delivered, received>>

NoPackets ==
  /\ phase = "dispatch"
  /\ ~ids
  /\ phase' = "poll"
  /\ UNCHANGED <<wire, wpos, fin, blen, cursor, state, poll, reg, armed,
                 ids, sends, delivered, received, handled, crashed>>

\* One phase of game_loop; after a panic the process is gone.
Tick == ~crashed /\ (Process \/ NoEvent \/ ProcessPackets \/ NoPackets)

Halted == crashed /\ UNCHANGED vars

Next ==
  \/ \E f \in FrameKinds : PeerFrame(f)
  \/ \E o \in WriteTargets : PeerWrite(o)
  \/ PeerClose
  \/ Tick
  \/ Halted

\* game_loop runs poll_events and process_packets forever, one tick per
\* millisecond; the peer may stall at any point.
Fairness == WF_vars(Tick)

Spec == Init /\ [][Next]_vars /\ Fairness

(***************************************************************************)
(* Properties.                                                             *)
(***************************************************************************)
TypeOK ==
  /\ wire \in Seq(FrameKinds) /\ Len(wire) <= MaxFrames
  /\ wpos \in Nat /\ blen \in 0 .. wpos /\ cursor \in 0 .. blen
  /\ fin \in BOOLEAN
  /\ state \in {"Open", "Closing", "Closed"}
  /\ poll \in {"None", "Read", "Write", "ReadWrite"}
  /\ reg \in {"None", "Read", "Write", "ReadWrite", "Gone"}
  /\ armed \in BOOLEAN /\ ids \in BOOLEAN
  /\ sends \in Nat /\ delivered \in Nat
  /\ received \in Seq([frame : Nat, at : 1 .. ReplyLen])
  /\ handled \in Seq(1 .. MaxFrames)
  /\ phase \in {"poll", "dispatch"} /\ crashed \in BOOLEAN

\* Spec 4.1 and 4.7: between ticks the cursor of an open connection sits on
\* a frame header, whatever pieces the bytes arrived in: read puts it back
\* where it was, and a frame not yet complete rewinds it over the header.
CursorOnFrame == state = "Open" => cursor \in Boundaries

\* While the connection is open, the frames handled are exactly the first
\* frames of the wire, in order, each once: none is skipped by a cursor
\* left at the end of the buffer or repeated by a rewind.
HandledInOrder == state = "Open" => handled = [i \in 1 .. Len(handled) |-> i]

\* Spec 4.4 and 4.7: once a connection is closing (a bad length header, a
\* handler error, or the peer gone) no further frame of it is handled.
HandledOnlyWhileOpen == [][Len(handled') > Len(handled) => state = "Open"]_vars

\* Spec 4.7: at most MAX_PROCESSED_PACKETS frames per connection per tick.
BoundedPerTick == [][Len(handled') - Len(handled) <= MaxProcessed]_vars

\* Every frame the peer has fully written while the connection is open is
\* eventually handled, unless the connection stops being open or the
\* process panics: read must put the token into servers_ids.
FramesHandled ==
  \A k \in 1 .. MaxFrames :
    (k <= Len(wire) /\ StartOf(wire, k + 1) <= wpos /\ state = "Open") ~>
      (Len(handled) >= k \/ state /= "Open" \/ crashed)

\* Spec 4.7: the handler of a frame reads exactly the frame copied for it;
\* a frame shorter than its fields fails instead of being completed with
\* bytes from elsewhere.
NoStaleRead ==
  \A i \in 1 .. Len(handled) : wire[handled[i]].need <= wire[handled[i]].len

\* Spec 4.4: a Closed connection is deregistered and leaves the registry, so
\* the frame dispatcher never touches it again; the peer or a write error
\* closing a connection never makes process_packets return Err, which
\* game_loop unwraps.
NoPanic == ~crashed

\* Spec 5 (ordering): frames sent on one connection reach the peer in the
\* order they were queued.  Byte i the peer receives is byte i of the
\* concatenated replies: none is repeated, none skipped.  A write_all
\* that sent part of a frame before WouldBlock must not send that part again.
RepliesIntact ==
  received = ReplyBytes(1, Len(received))

=============================================================================
