---------------------------- MODULE VsockEndpoint ----------------------------
(***************************************************************************)
(* The guest's VirtIO-vsock stream endpoint (kernel/vsock/protocol.go): it *)
(* accepts streams opened by the host on one guest port, collects one HTTP *)
(* request header per stream, and sends the handler's answer within the    *)
(* credit the host advertises.                                             *)
(*                                                                         *)
(* Handle and Drain are single calls of a single-threaded loop.  Handle    *)
(* takes the packet at the head of toGuest; Drain runs one packet per step *)
(* (todo, visiting and room are the locals of its loops), and every action *)
(* outside Drain waits for Quiet, so no step can fall inside a call.       *)
(*                                                                         *)
(* Payloads are counted in abstract units and identified by their place in *)
(* the stream: a data packet carries the offset and length of its chunk.   *)
(***************************************************************************)
EXTENDS Integers, FiniteSets, Sequences

CONSTANTS
  Ports,             \* the streams: a host CID and port, each used once
  BufferLen,         \* Endpoint.BufferLen, in units
  MaxConns,          \* Endpoint.MaxConns
  MaxPacketPayload,  \* largest chunk of one data packet, in units
  DrainLimit,        \* the packets of one Drain; the code's 8
  AnswerLens         \* lengths of the answers Handler may return

ASSUME EndpointAssumption ==
  /\ BufferLen \in Nat \ {0}
  /\ MaxConns \in Nat \ {0}
  /\ MaxPacketPayload \in Nat \ {0}
  /\ DrainLimit \in Nat \ {0}
  /\ AnswerLens \subseteq Nat \ {0}

VARIABLES
  connections,  \* keys of Endpoint.connections
  conn,         \* their connection records
  todo,         \* Drain: keys its range loop has not visited
  visiting,     \* Drain: the key of the current iteration, at most one
  room,         \* Drain: limit - len(out)
  toGuest,      \* packets on their way to the guest, oldest first
  toHost,       \* packets on their way to the host, oldest first
  answer        \* history: length Handler returned for the stream, 0 before

drainVars == <<todo, visiting, room>>
guestVars == <<connections, conn, todo, visiting, room, answer>>

GuestOps == {"RESPONSE", "RST", "SHUTDOWN", "RW", "CREDIT_UPDATE"}
HostOps  == {"REQUEST", "RST", "SHUTDOWN", "RW", "CREDIT_UPDATE",
             "CREDIT_REQUEST", "UNKNOWN"}

\* request counts the bytes collected; answered is response # nil, and
\* response the length of the answer.
Connection ==
  [peerAlloc : Nat, peerFwd : Nat, txCount : Nat, rxFwd : Nat, request : Nat,
   answered : BOOLEAN, response : Nat, sent : Nat, closing : BOOLEAN]

NoConnection ==
  [peerAlloc |-> 0, peerFwd |-> 0, txCount |-> 0, rxFwd |-> 0, request |-> 0,
   answered |-> FALSE, response |-> 0, sent |-> 0, closing |-> FALSE]

\* A header and its payload.  off and len place the payload in the stream;
\* fin says that the request collected with this payload holds the blank line.
GuestPacket == [op : GuestOps, port : Ports, off : Nat, len : Nat, fwd : Nat]
HostPacket  == [op : HostOps, port : Ports, here : BOOLEAN, len : Nat,
                fin : BOOLEAN, alloc : Nat, fwd : Nat]

------------------------------------------------------------------------------
Smaller(a, b) == IF a < b THEN a ELSE b

Reply(k, op) ==
  [op |-> op, port |-> k, off |-> 0, len |-> 0, fwd |-> conn[k].rxFwd]

ResetFor(k) == [op |-> "RST", port |-> k, off |-> 0, len |-> 0, fwd |-> 0]

\* Mutant: fwd_cnt is not noted.
UpdatePeerAlloc(c, m) == [c EXCEPT !.peerAlloc = m.alloc]

UpdatePeer(c, m) == [c EXCEPT !.peerAlloc = m.alloc, !.peerFwd = m.fwd]

\* Mutant: what is in flight is not subtracted.
SendSpaceWindow(c) == Smaller(c.peerAlloc, BufferLen)

SendSpace(c) ==
  LET limit == Smaller(c.peerAlloc, BufferLen)
      inFlight == c.txCount - c.peerFwd
  IN  IF c.peerFwd > c.txCount THEN limit
      ELSE IF inFlight >= limit THEN 0 ELSE limit - inFlight

ChunkLen(c) ==
  Smaller(c.response - c.sent, Smaller(SendSpace(c), MaxPacketPayload))

\* No call of Handle or Drain is running.
Quiet == todo = {} /\ visiting = {}

Emit(m) == toHost' = Append(toHost, m)

Forget(k) ==
  /\ connections' = connections \ {k}
  /\ conn' = [conn EXCEPT ![k] = NoConnection]

\* Enter Drain with the given map; its loop then has to run to the end.
StartDrain(keys) == todo' = keys /\ UNCHANGED <<visiting, room>>

------------------------------------------------------------------------------
packet == Head(toGuest)

\* Handle begins with the next packet of the receive queue.
Take == Quiet /\ toGuest # <<>> /\ toGuest' = Tail(toGuest)

\* The three early returns that answer RST and touch nothing.
Refuse ==
  /\ Emit(ResetFor(packet.port))
  /\ UNCHANGED guestVars

HandleMismatch == Take /\ ~packet.here /\ Refuse

HandleRefused ==
  /\ Take /\ packet.here /\ packet.op = "REQUEST"
  /\ packet.port \in connections \/ Cardinality(connections) >= MaxConns
  /\ Refuse

HandleStray ==
  /\ Take /\ packet.here /\ packet.op # "REQUEST"
  /\ packet.port \notin connections
  /\ Refuse

HandleRequest ==
  LET k == packet.port IN
  /\ Take /\ packet.here /\ packet.op = "REQUEST"
  /\ k \notin connections /\ Cardinality(connections) < MaxConns
  /\ connections' = connections \cup {k}
  /\ conn' = [conn EXCEPT ![k] = UpdatePeer(NoConnection, packet)]
  /\ Emit([op |-> "RESPONSE", port |-> k, off |-> 0, len |-> 0, fwd |-> 0])
  /\ StartDrain(connections')
  /\ UNCHANGED answer

\* A packet of a known stream, whose credit fields are noted before the switch.
TakeKnown(op) ==
  Take /\ packet.here /\ packet.op = op /\ packet.port \in connections

Fits == conn[packet.port].request + packet.len <= BufferLen

\* Mutant: the stream is dropped without telling the host.
HandleOverflowSilent ==
  /\ TakeKnown("RW") /\ ~Fits
  /\ Forget(packet.port)
  /\ UNCHANGED <<todo, visiting, room, toHost, answer>>

HandleOverflow ==
  /\ TakeKnown("RW") /\ ~Fits
  /\ Forget(packet.port)
  /\ Emit(ResetFor(packet.port))
  /\ UNCHANGED <<todo, visiting, room, answer>>

\* The record once the payload is appended to the request.
Collected ==
  LET c == UpdatePeer(conn[packet.port], packet) IN
  [c EXCEPT !.request = @ + packet.len, !.rxFwd = @ + packet.len]

\* Mutant: no credit update for a fragment.
HandleFragmentUncredited ==
  LET k == packet.port IN
  /\ TakeKnown("RW") /\ Fits /\ ~conn[k].answered /\ ~packet.fin
  /\ conn' = [conn EXCEPT ![k] = Collected]
  /\ StartDrain(connections)
  /\ UNCHANGED <<connections, toHost, answer>>

HandleFragment ==
  LET k == packet.port IN
  /\ TakeKnown("RW") /\ Fits /\ ~conn[k].answered /\ ~packet.fin
  /\ conn' = [conn EXCEPT ![k] = Collected]
  /\ Emit([Reply(k, "CREDIT_UPDATE") EXCEPT !.fwd = Collected.rxFwd])
  /\ StartDrain(connections)
  /\ UNCHANGED <<connections, answer>>

\* The handler's answer to the request collected.
Answers(k) ==
  \E n \in AnswerLens :
    /\ conn' = [conn EXCEPT ![k] =
                  [Collected EXCEPT !.answered = TRUE, !.response = n]]
    /\ answer' = [answer EXCEPT ![k] = n]

\* Mutant: the handler is called again for what follows the request.
HandleHeaderAgain ==
  /\ TakeKnown("RW") /\ Fits /\ packet.fin
  /\ Answers(packet.port)
  /\ StartDrain(connections)
  /\ UNCHANGED <<connections, toHost>>

HandleHeader ==
  LET k == packet.port IN
  /\ TakeKnown("RW") /\ Fits /\ ~conn[k].answered /\ packet.fin
  /\ Answers(k)
  /\ StartDrain(connections)
  /\ UNCHANGED <<connections, toHost>>

HandleExtra ==
  LET k == packet.port IN
  /\ TakeKnown("RW") /\ Fits /\ conn[k].answered
  /\ conn' = [conn EXCEPT ![k] = Collected]
  /\ StartDrain(connections)
  /\ UNCHANGED <<connections, toHost, answer>>

HandleCreditRequest ==
  LET k == packet.port IN
  /\ TakeKnown("CREDIT_REQUEST")
  /\ conn' = [conn EXCEPT ![k] = UpdatePeer(@, packet)]
  /\ Emit(Reply(k, "CREDIT_UPDATE"))
  /\ StartDrain(connections)
  /\ UNCHANGED <<connections, answer>>

HandleCreditUpdate ==
  LET k == packet.port IN
  /\ TakeKnown("CREDIT_UPDATE")
  /\ conn' = [conn EXCEPT ![k] = UpdatePeer(@, packet)]
  /\ StartDrain(connections)
  /\ UNCHANGED <<connections, toHost, answer>>

HandleShutdown ==
  LET k == packet.port IN
  /\ TakeKnown("SHUTDOWN")
  /\ conn' = [conn EXCEPT ![k] = [UpdatePeer(@, packet) EXCEPT !.closing = TRUE]]
  /\ StartDrain(connections)
  /\ UNCHANGED <<connections, toHost, answer>>

\* Mutant: the entry of a stream the host reset stays in the map.
HandleResetKept ==
  TakeKnown("RST") /\ UNCHANGED <<guestVars, toHost>>

HandleReset ==
  /\ TakeKnown("RST")
  /\ Forget(packet.port)
  /\ UNCHANGED <<todo, visiting, room, toHost, answer>>

HandleUnknown ==
  /\ TakeKnown("UNKNOWN")
  /\ Forget(packet.port)
  /\ Emit(ResetFor(packet.port))
  /\ UNCHANGED <<todo, visiting, room, answer>>

Handle ==
  \/ HandleMismatch \/ HandleRefused \/ HandleStray \/ HandleRequest
  \/ HandleOverflow \/ HandleFragment \/ HandleHeader \/ HandleExtra
  \/ HandleCreditRequest \/ HandleCreditUpdate \/ HandleShutdown
  \/ HandleReset \/ HandleUnknown

------------------------------------------------------------------------------
\* The range loop of Drain is at key k; Go picks the next key in any order.
At(k) == k \in visiting \/ (visiting = {} /\ k \in todo)

MayChunk(c) == c.sent < c.response /\ SendSpace(c) > 0

\* Mutant: c.sent is not moved past the chunk.
AdvanceCount(c, n) == [c EXCEPT !.txCount = @ + n]

Advance(c, n) == [c EXCEPT !.sent = @ + n, !.txCount = @ + n]

DrainChunk(k) ==
  LET c == conn[k] n == ChunkLen(c) IN
  /\ At(k) /\ room > 0 /\ MayChunk(c)
  /\ Emit([Reply(k, "RW") EXCEPT !.off = c.sent, !.len = n])
  /\ conn' = [conn EXCEPT ![k] = Advance(c, n)]
  /\ visiting' = {k}
  /\ todo' = todo \ {k}
  /\ room' = room - 1
  /\ UNCHANGED <<connections, toGuest, answer>>

\* The range loop goes on with the next key, or ends with the call.
Onward(k, left) ==
  LET rest == IF left = 0 THEN {} ELSE todo \ {k} IN
  /\ todo' = rest
  /\ visiting' = {}
  /\ room' = IF rest = {} THEN DrainLimit ELSE left

\* Mutant: the limit is not tested after the chunks.
ChunksDoneUnlimited(k) == At(k) /\ ~MayChunk(conn[k])

\* The chunk loop of k is over and the first limit test passed.
ChunksDone(k) == At(k) /\ room > 0 /\ ~MayChunk(conn[k])

DrainFull(k) ==
  /\ At(k) /\ room = 0
  /\ Onward(k, 0)
  /\ UNCHANGED <<connections, conn, toGuest, toHost, answer>>

\* Mutants: SHUTDOWN before the last chunk; an answered stream abandoned.
FinishedEarly(c) == c.answered /\ ~c.closing
AbandonedAnyway(c) == c.closing

Finished(c) == c.answered /\ c.sent = c.response /\ ~c.closing
Abandoned(c) == c.closing /\ ~c.answered

DrainShutdown(k) ==
  /\ ChunksDone(k) /\ Finished(conn[k])
  /\ Emit(Reply(k, "SHUTDOWN"))
  /\ conn' = [conn EXCEPT ![k].closing = TRUE]
  /\ Onward(k, room - 1)
  /\ UNCHANGED <<connections, toGuest, answer>>

DrainReset(k) ==
  /\ ChunksDone(k) /\ Abandoned(conn[k])
  /\ Emit(Reply(k, "RST"))
  /\ Forget(k)
  /\ Onward(k, room - 1)
  /\ UNCHANGED <<toGuest, answer>>

DrainSkip(k) ==
  /\ ChunksDone(k) /\ ~Finished(conn[k]) /\ ~Abandoned(conn[k])
  /\ Onward(k, room)
  /\ UNCHANGED <<connections, conn, toGuest, toHost, answer>>

Drain ==
  \E k \in Ports :
    \/ DrainChunk(k) \/ DrainFull(k) \/ DrainShutdown(k)
    \/ DrainReset(k) \/ DrainSkip(k)

\* The Drain of every round of Serve.  It does nothing unless some stream has
\* something to send, and is then left out.
DrainHasWork ==
  \E k \in connections :
    MayChunk(conn[k]) \/ Finished(conn[k]) \/ Abandoned(conn[k])

PollDrain ==
  /\ Quiet /\ DrainHasWork
  /\ StartDrain(connections)
  /\ UNCHANGED <<connections, conn, toGuest, toHost, answer>>

\* Endpoint.Reset, called for a transport reset event.
ResetAll ==
  /\ Quiet
  /\ connections' = {}
  /\ conn' = [k \in Ports |-> NoConnection]
  /\ UNCHANGED <<todo, visiting, room, toGuest, toHost, answer>>

------------------------------------------------------------------------------
EndpointInit ==
  /\ connections = {}
  /\ conn = [k \in Ports |-> NoConnection]
  /\ todo = {} /\ visiting = {} /\ room = DrainLimit
  /\ toGuest = <<>> /\ toHost = <<>>
  /\ answer = [k \in Ports |-> 0]

EndpointTypeOK ==
  /\ connections \in SUBSET Ports
  /\ conn \in [Ports -> Connection]
  /\ todo \in SUBSET connections
  /\ visiting \in SUBSET connections
  /\ room \in 0 .. DrainLimit
  /\ toGuest \in Seq(HostPacket)
  /\ toHost \in Seq(GuestPacket)
  /\ answer \in [Ports -> Nat]
=============================================================================
