-------------------------- MODULE VsockStreamProofs --------------------------
(***************************************************************************)
(* For every number of streams, buffer size and queue depth: the types of  *)
(* the endpoint and its host, and the credit protocol between them.        *)
(***************************************************************************)
EXTENDS VsockStream, SequenceTheorems, TLAPS

USE EndpointAssumption, StreamAssumption

------------------------------------------------------------------------------
(* Types. *)

LEMMA HeadTyped ==
  ASSUME NEW S, NEW s \in Seq(S), s # <<>>
  PROVE  Head(s) \in S /\ Tail(s) \in Seq(S)
BY HeadTailProperties

LEMMA ChunkLenIsPositive ==
  ASSUME NEW c \in Connection, MayChunk(c)
  PROVE  /\ ChunkLen(c) \in Nat \ {0}
         /\ ChunkLen(c) <= SendSpace(c)
         /\ ChunkLen(c) <= c.response - c.sent
         /\ SendSpace(c) \in Nat
BY DEF Connection, MayChunk, ChunkLen, SendSpace, Smaller

LEMMA HandleTakes ==
  ASSUME Handle
  PROVE  Take
BY DEF Handle, TakeKnown, HandleMismatch, HandleRefused, HandleStray,
   HandleRequest, HandleOverflow, HandleFragment, HandleHeader, HandleExtra,
   HandleCreditRequest, HandleCreditUpdate, HandleShutdown, HandleReset,
   HandleUnknown

LEMMA CollectedTyped ==
  ASSUME NEW c \in Connection, NEW n \in Nat
  PROVE  [c EXCEPT !.request = @ + n, !.rxFwd = @ + n] \in Connection
<1>1. c.request + n \in Nat /\ c.rxFwd + n \in Nat
  BY DEF Connection
<1>2. [c EXCEPT !.request = c.request + n] \in Connection
  BY <1>1 DEF Connection
<1> QED BY <1>1, <1>2 DEF Connection

LEMMA HandleTyped ==
  ASSUME TypeOK, Handle, UNCHANGED hostVars
  PROVE  TypeOK'
<1> USE DEF TypeOK, EndpointTypeOK, hostVars, StartDrain, Emit, Refuse, Take,
            TakeKnown, ResetFor, Reply, Forget, guestVars, Quiet
<1>1. /\ packet \in HostPacket
      /\ toGuest' \in Seq(HostPacket)
  <2>1. Take
    BY HandleTakes
  <2>2. toGuest \in Seq(HostPacket) /\ toGuest # <<>> /\ toGuest' = Tail(toGuest)
    BY <2>1
  <2> QED BY <2>2, HeadTyped DEF packet
<1>2. /\ packet.port \in Ports /\ packet.len \in Nat
      /\ packet.alloc \in Nat /\ packet.fwd \in Nat
  BY <1>1 DEF HostPacket
<1>3. NoConnection \in Connection
  BY DEF NoConnection, Connection
<1>4. ASSUME NEW c \in Connection
      PROVE  UpdatePeer(c, packet) \in Connection
  BY <1>2 DEF UpdatePeer, Connection
<1>5. Collected \in Connection
  <2>1. UpdatePeer(conn[packet.port], packet) \in Connection
    BY <1>2, <1>4
  <2> QED BY <2>1, <1>2, CollectedTyped DEF Collected
<1>6. ASSUME NEW k \in Ports, NEW op \in GuestOps, NEW f \in Nat
      PROVE  [op |-> op, port |-> k, off |-> 0, len |-> 0, fwd |-> f]
                \in GuestPacket
  BY DEF GuestPacket
<1>7. conn[packet.port].rxFwd \in Nat /\ Collected.rxFwd \in Nat
  BY <1>2, <1>5 DEF Connection
<1>8. CASE HandleMismatch
  BY <1>1, <1>2, <1>6, <1>8 DEF HandleMismatch, GuestOps
<1>9. CASE HandleRefused
  BY <1>1, <1>2, <1>6, <1>9 DEF HandleRefused, GuestOps
<1>10. CASE HandleStray
  BY <1>1, <1>2, <1>6, <1>10 DEF HandleStray, GuestOps
<1>11. CASE HandleRequest
  BY <1>1, <1>2, <1>3, <1>4, <1>6, <1>11 DEF HandleRequest, GuestOps
<1>12. CASE HandleOverflow
  BY <1>1, <1>2, <1>3, <1>6, <1>12 DEF HandleOverflow, GuestOps
<1>13. CASE HandleFragment
  <2>1. [Reply(packet.port, "CREDIT_UPDATE") EXCEPT !.fwd = Collected.rxFwd]
          \in GuestPacket
    BY <1>2, <1>7 DEF GuestPacket, GuestOps
  <2>2. /\ conn' = [conn EXCEPT ![packet.port] = Collected]
        /\ toHost' = Append(toHost, [Reply(packet.port, "CREDIT_UPDATE")
                                       EXCEPT !.fwd = Collected.rxFwd])
        /\ todo' = connections
        /\ UNCHANGED <<visiting, room, connections, answer, hostVars>>
    BY <1>13 DEF HandleFragment
  <2>3. toHost' \in Seq(GuestPacket)
    BY <2>1, <2>2, AppendProperties
  <2>4. conn' \in [Ports -> Connection]
    BY <1>2, <1>5, <2>2
  <2> QED BY <1>1, <2>2, <2>3, <2>4
<1>14. CASE HandleHeader
  <2>1. PICK n \in AnswerLens :
          /\ conn' = [conn EXCEPT ![packet.port] =
                        [Collected EXCEPT !.answered = TRUE, !.response = n]]
          /\ answer' = [answer EXCEPT ![packet.port] = n]
    BY <1>14 DEF HandleHeader, Answers
  <2>2. [Collected EXCEPT !.answered = TRUE, !.response = n] \in Connection
    BY <1>5 DEF Connection
  <2> QED BY <1>1, <1>2, <1>14, <2>1, <2>2 DEF HandleHeader
<1>15. CASE HandleExtra
  BY <1>1, <1>2, <1>5, <1>15 DEF HandleExtra
<1>16. CASE HandleCreditRequest
  BY <1>1, <1>2, <1>4, <1>6, <1>7, <1>16 DEF HandleCreditRequest, GuestOps
<1>17. CASE HandleCreditUpdate
  BY <1>1, <1>2, <1>4, <1>17 DEF HandleCreditUpdate
<1>18. CASE HandleShutdown
  <2>1. UpdatePeer(conn[packet.port], packet) \in Connection
    BY <1>2, <1>4
  <2>2. [UpdatePeer(conn[packet.port], packet) EXCEPT !.closing = TRUE]
          \in Connection
    BY <2>1 DEF Connection
  <2> QED BY <1>1, <1>2, <2>2, <1>18 DEF HandleShutdown
<1>19. CASE HandleReset
  BY <1>1, <1>2, <1>3, <1>19 DEF HandleReset
<1>20. CASE HandleUnknown
  BY <1>1, <1>2, <1>3, <1>6, <1>20 DEF HandleUnknown, GuestOps
<1> QED
  BY <1>8, <1>9, <1>10, <1>11, <1>12, <1>13, <1>14, <1>15, <1>16, <1>17,
     <1>18, <1>19, <1>20 DEF Handle

LEMMA DrainTyped ==
  ASSUME TypeOK, Drain, UNCHANGED hostVars
  PROVE  TypeOK'
<1> USE DEF TypeOK, EndpointTypeOK, hostVars, Emit
<1>1. PICK k \in Ports :
        \/ DrainChunk(k) \/ DrainFull(k) \/ DrainShutdown(k)
        \/ DrainReset(k) \/ DrainSkip(k)
  BY DEF Drain
<1>2. k \in connections
  BY <1>1 DEF DrainChunk, DrainFull, DrainShutdown, DrainReset, DrainSkip,
     ChunksDone, At
<1>3. conn[k] \in Connection /\ conn[k].rxFwd \in Nat /\ conn[k].sent \in Nat
  BY DEF Connection
<1>4. ASSUME NEW op \in GuestOps, NEW off \in Nat, NEW n \in Nat
      PROVE  [[Reply(k, op) EXCEPT !.off = off] EXCEPT !.len = n] \in GuestPacket
  BY <1>3, <1>4 DEF Reply, GuestPacket
<1>5. ASSUME NEW op \in GuestOps
      PROVE  Reply(k, op) \in GuestPacket
  BY <1>3, <1>5 DEF Reply, GuestPacket
<1>6. ASSUME NEW left \in Nat, left <= DrainLimit, Onward(k, left),
             connections' = connections \/ connections' = connections \ {k}
      PROVE  /\ todo' \in SUBSET connections' /\ visiting' \in SUBSET connections'
             /\ room' \in 0 .. DrainLimit
  BY <1>6 DEF Onward
<1>7. CASE DrainChunk(k)
  <2> DEFINE n == ChunkLen(conn[k])
  <2>1. n \in Nat
    BY <1>3, <1>7, ChunkLenIsPositive DEF DrainChunk
  <2>2. toHost' \in Seq(GuestPacket)
    <3>1. [Reply(k, "RW") EXCEPT !.off = conn[k].sent, !.len = n] \in GuestPacket
      <4> HIDE DEF n
      <4> QED BY <1>3, <2>1 DEF Reply, GuestPacket, GuestOps
    <3> QED BY <1>7, <3>1, AppendProperties DEF DrainChunk
  <2>3. conn' \in [Ports -> Connection]
    <3>1. conn' = [conn EXCEPT ![k] =
                     [conn[k] EXCEPT !.sent = conn[k].sent + n,
                                     !.txCount = conn[k].txCount + n]]
      BY <1>7 DEF DrainChunk, Advance
    <3>2. [conn[k] EXCEPT !.sent = conn[k].sent + n,
                          !.txCount = conn[k].txCount + n] \in Connection
      <4> HIDE DEF n
      <4>1. conn[k].sent + n \in Nat /\ conn[k].txCount + n \in Nat
        BY <1>3, <2>1 DEF Connection
      <4> QED BY <1>3, <4>1 DEF Connection
    <3> QED BY <3>1, <3>2
  <2>4. /\ todo' \in SUBSET connections' /\ visiting' \in SUBSET connections'
        /\ room' \in 0 .. DrainLimit
    BY <1>2, <1>7 DEF DrainChunk
  <2> QED BY <1>7, <2>2, <2>3, <2>4 DEF DrainChunk
<1>8. CASE DrainFull(k)
  BY <1>6, <1>8 DEF DrainFull
<1>9. CASE DrainShutdown(k)
  <2>1. [conn[k] EXCEPT !.closing = TRUE] \in Connection
    BY <1>3 DEF Connection
  <2>2. conn' = [conn EXCEPT ![k] = [conn[k] EXCEPT !.closing = TRUE]]
    BY <1>9 DEF DrainShutdown
  <2>3. toHost' \in Seq(GuestPacket)
    BY <1>5, <1>9, AppendProperties DEF DrainShutdown, GuestOps
  <2>4. conn' \in [Ports -> Connection]
    BY <2>1, <2>2
  <2>5. /\ todo' \in SUBSET connections' /\ visiting' \in SUBSET connections'
        /\ room' \in 0 .. DrainLimit
    <3>1. /\ room - 1 \in Nat /\ room - 1 <= DrainLimit
          /\ Onward(k, room - 1) /\ connections' = connections
      BY <1>9 DEF DrainShutdown, ChunksDone
    <3> QED BY <1>6, <3>1
  <2> QED BY <1>9, <2>3, <2>4, <2>5 DEF DrainShutdown
<1>10. CASE DrainReset(k)
  <2>1. toHost' \in Seq(GuestPacket)
    BY <1>5, <1>10, AppendProperties DEF DrainReset, GuestOps
  <2>2. conn' \in [Ports -> Connection]
    BY <1>10 DEF DrainReset, Forget, NoConnection, Connection
  <2> QED BY <1>6, <1>10, <2>1, <2>2 DEF DrainReset, ChunksDone, Forget
<1>11. CASE DrainSkip(k)
  BY <1>6, <1>11 DEF DrainSkip, ChunksDone
<1> QED BY <1>1, <1>7, <1>8, <1>9, <1>10, <1>11

LEMMA HostSendsTyped ==
  ASSUME TypeOK, NEW p \in Ports, NEW m \in HostPacket, m.port = p,
         NEW end \in HostEnd, HostSends(m, end)
  PROVE  TypeOK'
<1>1. [end EXCEPT !.told = m.fwd] \in HostEnd
  BY DEF HostEnd, HostPacket
<1>2. toGuest' \in Seq(HostPacket)
  BY AppendProperties DEF HostSends, TypeOK, EndpointTypeOK
<1>3. host' \in [Ports -> HostEnd]
  BY <1>1 DEF HostSends, TypeOK
<1> QED BY <1>2, <1>3 DEF HostSends, TypeOK, EndpointTypeOK, guestVars

LEMMA HostMessageTyped ==
  ASSUME TypeOK, NEW p \in Ports, NEW op \in HostOps
  PROVE  /\ HostMessage(p, op) \in HostPacket
         /\ HostMessage(p, op).port = p
BY DEF TypeOK, HostMessage, HostPacket, HostEnd

LEMMA HostTyped ==
  ASSUME TypeOK, Host
  PROVE  TypeOK'
<1> USE DEF HostOps
<1>1. ASSUME NEW p \in Ports, HostConnect(p)
      PROVE  TypeOK'
  <2>1. PICK right \in BOOLEAN :
          HostSends([HostMessage(p, "REQUEST") EXCEPT !.here = right],
                    [host[p] EXCEPT !.st = "connecting", !.right = right])
    BY <1>1 DEF HostConnect
  <2>2. [HostMessage(p, "REQUEST") EXCEPT !.here = right] \in HostPacket
    BY HostMessageTyped DEF HostPacket
  <2>3. [host[p] EXCEPT !.st = "connecting", !.right = right] \in HostEnd
    BY DEF TypeOK, HostEnd
  <2>4. [HostMessage(p, "REQUEST") EXCEPT !.here = right].port = p
    BY DEF HostMessage
  <2> QED BY <2>1, <2>2, <2>3, <2>4, HostSendsTyped
<1>2. ASSUME NEW p \in Ports, HostWrite(p)
      PROVE  TypeOK'
  <2>1. PICK n \in 1 .. MaxRequest, ends \in BOOLEAN :
          HostSends([HostMessage(p, "RW") EXCEPT !.len = n, !.fin = ends],
                    [host[p] EXCEPT !.sent = @ + n, !.fin = ends])
    BY <1>2 DEF HostWrite
  <2>2. [HostMessage(p, "RW") EXCEPT !.len = n, !.fin = ends] \in HostPacket
    <3>1. HostMessage(p, "RW") \in HostPacket /\ n \in Nat
      BY HostMessageTyped
    <3> QED BY <3>1 DEF HostPacket
  <2>3. [host[p] EXCEPT !.sent = @ + n, !.fin = ends] \in HostEnd
    <3>1. host[p] \in HostEnd /\ host[p].sent + n \in Nat
      BY DEF TypeOK, HostEnd
    <3> QED BY <3>1 DEF HostEnd
  <2>4. [HostMessage(p, "RW") EXCEPT !.len = n, !.fin = ends].port = p
    BY DEF HostMessage
  <2> QED BY <2>1, <2>2, <2>3, <2>4, HostSendsTyped
<1>3. ASSUME NEW p \in Ports, HostRead(p)
      PROVE  TypeOK'
  <2>1. PICK n \in (host[p].used + 1) .. host[p].rcvd :
          host' = [host EXCEPT ![p].used = n]
    BY <1>3 DEF HostRead
  <2>2. host[p] \in HostEnd /\ n \in Nat
    BY DEF TypeOK, HostEnd
  <2>3. [host[p] EXCEPT !.used = n] \in HostEnd
    BY <2>2 DEF HostEnd
  <2> QED BY <1>3, <2>1, <2>3 DEF HostRead, TypeOK, EndpointTypeOK, guestVars
<1>4. ASSUME NEW p \in Ports, HostCredit(p)
      PROVE  TypeOK'
  BY <1>4, HostSendsTyped, HostMessageTyped DEF HostCredit, TypeOK
<1>5. ASSUME NEW p \in Ports, HostControl(p)
      PROVE  TypeOK'
  <2>1. PICK op \in {"CREDIT_REQUEST", "UNKNOWN"} :
          HostSends(HostMessage(p, op), [host[p] EXCEPT !.control = @ + 1])
    BY <1>5 DEF HostControl
  <2>2. [host[p] EXCEPT !.control = @ + 1] \in HostEnd
    <3>1. host[p] \in HostEnd /\ host[p].control + 1 \in Nat
      BY DEF TypeOK, HostEnd
    <3> QED BY <3>1 DEF HostEnd
  <2> QED BY <2>1, <2>2, HostSendsTyped, HostMessageTyped
<1>6. ASSUME NEW p \in Ports, HostShutdown(p)
      PROVE  TypeOK'
  <2>1. PICK kind \in Shutdowns :
          HostSends(HostMessage(p, "SHUTDOWN"), [host[p] EXCEPT !.shut = kind])
    BY <1>6 DEF HostShutdown
  <2>2. [host[p] EXCEPT !.shut = kind] \in HostEnd
    BY DEF TypeOK, HostEnd
  <2> QED BY <2>1, <2>2, HostSendsTyped, HostMessageTyped
<1>7. ASSUME NEW p \in Ports, HostAbort(p) \/ HostFinish(p)
      PROVE  TypeOK'
  <2>1. HostSends(HostMessage(p, "RST"), [host[p] EXCEPT !.st = "gone"])
    BY <1>7 DEF HostAbort, HostFinish
  <2>2. [host[p] EXCEPT !.st = "gone"] \in HostEnd
    BY DEF TypeOK, HostEnd
  <2> QED BY <2>1, <2>2, HostSendsTyped, HostMessageTyped
<1>8. ASSUME Arrival, TypeOK
      PROVE  /\ incoming \in GuestPacket /\ incoming.port \in Ports
             /\ incoming.len \in Nat /\ incoming.fwd \in Nat
             /\ host[incoming.port] \in HostEnd
             /\ toHost' \in Seq(GuestPacket)
  <2>1. incoming \in GuestPacket /\ toHost' \in Seq(GuestPacket)
    BY <1>8, HeadTyped DEF Arrival, incoming, TypeOK, EndpointTypeOK
  <2> QED BY <2>1 DEF GuestPacket, TypeOK
<1>9. CASE HostIgnores
  BY <1>8, <1>9 DEF HostIgnores, TypeOK, EndpointTypeOK, guestVars, hostVars
<1>10. CASE HostRejects
  <2>1. [host[incoming.port] EXCEPT !.st = "gone"] \in HostEnd
    BY <1>8, <1>10 DEF HostRejects, HostEnd
  <2>2. toGuest' \in Seq(HostPacket)
    BY <1>8, <1>10, HostMessageTyped, AppendProperties
       DEF HostRejects, TypeOK, EndpointTypeOK
  <2>3. host' \in [Ports -> HostEnd]
    BY <2>1, <1>10 DEF HostRejects, TypeOK
  <2> QED BY <1>8, <1>10, <2>2, <2>3
       DEF HostRejects, TypeOK, EndpointTypeOK, guestVars
<1>11. CASE HostAccepts
  <2> DEFINE e == host[incoming.port]
             r == IF incoming.op = "RW" THEN e.rcvd + incoming.len ELSE e.rcvd
             h == IF incoming.op = "RST" THEN e.heard ELSE incoming.fwd
  <2>1. e \in HostEnd /\ r \in Nat /\ h \in Nat
    <3>1. Arrival
      BY <1>11 DEF HostAccepts
    <3>2. e \in HostEnd /\ incoming.len \in Nat /\ incoming.fwd \in Nat
      BY <1>8, <3>1
    <3>3. e.rcvd \in Nat /\ e.heard \in Nat
      <4> HIDE DEF e
      <4> QED BY <3>2 DEF HostEnd
    <3> QED BY <3>2, <3>3
  <2>2. host' = [host EXCEPT ![incoming.port] =
          [e EXCEPT !.st = IF incoming.op = "RST" THEN "gone" ELSE "open",
                    !.heard = h, !.rcvd = r,
                    !.eof = e.eof \/ incoming.op = "SHUTDOWN"]]
    BY <1>11 DEF HostAccepts
  <2>3. [e EXCEPT !.st = IF incoming.op = "RST" THEN "gone" ELSE "open",
                  !.heard = h, !.rcvd = r,
                  !.eof = e.eof \/ incoming.op = "SHUTDOWN"] \in HostEnd
    <3> HIDE DEF e, r, h
    <3> QED BY <2>1 DEF HostEnd
  <2>4. host' \in [Ports -> HostEnd]
    <3> HIDE DEF e, r, h
    <3> QED BY <2>2, <2>3 DEF TypeOK
  <2> QED BY <1>8, <1>11, <2>4
       DEF HostAccepts, TypeOK, EndpointTypeOK, guestVars
<1>12. CASE TransportReset
  <2>1. ASSUME NEW p \in Ports
        PROVE  [host[p] EXCEPT !.st = "gone"] \in HostEnd /\ host[p] \in HostEnd
    BY DEF TypeOK, HostEnd
  <2>2. host' \in [Ports -> HostEnd]
    BY <1>12, <2>1 DEF TransportReset
  <2>3. resets' \in Nat /\ events' \in Nat
    BY <1>12 DEF TransportReset, TypeOK
  <2>4. UNCHANGED <<guestVars, toGuest, toHost>>
    BY <1>12 DEF TransportReset
  <2> QED BY <2>2, <2>3, <2>4 DEF TypeOK, EndpointTypeOK, guestVars
<1> QED
  BY <1>1, <1>2, <1>3, <1>4, <1>5, <1>6, <1>7, <1>9, <1>10, <1>11, <1>12
     DEF Host, HostActs, HostReceive

\* Every variable keeps its type; Drain only ever visits entries of the map.
THEOREM TypesHold == Spec => []TypeOK
<1>1. Init => TypeOK
  <2> SUFFICES ASSUME Init PROVE TypeOK
    OBVIOUS
  <2>1. NoConnection \in Connection /\ NewEnd \in HostEnd
    BY DEF NoConnection, Connection, NewEnd, HostEnd
  <2> QED BY <2>1 DEF Init, EndpointInit, TypeOK, EndpointTypeOK
<1>2. ASSUME TypeOK, [Next]_vars
      PROVE  TypeOK'
  <2>1. CASE Handle /\ UNCHANGED hostVars
    BY <1>2, <2>1, HandleTyped
  <2>2. CASE Drain /\ UNCHANGED hostVars
    BY <1>2, <2>2, DrainTyped
  <2>3. CASE PollDrain /\ UNCHANGED hostVars
    BY <1>2, <2>3
       DEF PollDrain, StartDrain, TypeOK, EndpointTypeOK, hostVars
  <2>4. CASE GuestEvent
    BY <1>2, <2>4 DEF GuestEvent, ResetAll, Quiet, TypeOK, EndpointTypeOK,
       NoConnection, Connection
  <2>5. CASE Host
    BY <1>2, <2>5, HostTyped
  <2>6. CASE UNCHANGED vars
    BY <1>2, <2>6 DEF vars, guestVars, hostVars, TypeOK, EndpointTypeOK
  <2> QED BY <1>2, <2>1, <2>2, <2>3, <2>4, <2>5, <2>6 DEF Next, Guest
<1> QED BY <1>1, <1>2, PTL DEF Spec

------------------------------------------------------------------------------
(* Credit.  The guest works with a stale fwd_cnt, so the bound on what the *)
(* host holds is not inductive: it needs where the data in flight lies,    *)
(* what the guest has counted as sent, and that a stream starts afresh.    *)

\* Whatever the guest knows or will learn of the host's buffer is no more than
\* the host has.
PeerKnown ==
  /\ \A i \in DOMAIN toGuest :
       /\ toGuest[i].alloc = PeerBuf
       /\ toGuest[i].fwd <= host[toGuest[i].port].used
  /\ \A k \in connections :
       conn[k].peerAlloc = PeerBuf /\ conn[k].peerFwd <= host[k].used

Untouched(p) ==
  /\ p \notin connections
  /\ host[p].rcvd = 0
  /\ \A i \in DOMAIN toHost : toHost[i].op = "RW" => toHost[i].port # p

\* A stream is requested once, and untouched until the request is handled.
RequestedOnce ==
  /\ \A i \in DOMAIN toGuest : host[toGuest[i].port].st # "idle"
  /\ \A i, j \in DOMAIN toGuest :
       /\ toGuest[i].op = "REQUEST" /\ toGuest[j].op = "REQUEST"
       /\ toGuest[i].port = toGuest[j].port
       => i = j
  /\ \A p \in Ports : host[p].st = "idle" => Untouched(p)
  /\ \A p \in Ports, i \in DOMAIN toGuest :
       toGuest[i].op = "REQUEST" /\ toGuest[i].port = p => Untouched(p)

\* The guest has counted all it sent, and sent no more than it may.
GuestCount ==
  \A k \in connections :
    /\ conn[k].sent = conn[k].txCount
    /\ conn[k].txCount <= host[k].used + PeerBuf
    /\ host[k].rcvd <= conn[k].txCount
    /\ \A i \in DOMAIN toHost :
         toHost[i].op = "RW" /\ toHost[i].port = k =>
           toHost[i].off + toHost[i].len <= conn[k].txCount

\* The data in flight lies between what was received and the credit, in order.
DataInFlight ==
  /\ \A i \in DOMAIN toHost : toHost[i].op = "RW" =>
       /\ host[toHost[i].port].rcvd <= toHost[i].off
       /\ toHost[i].off + toHost[i].len <= host[toHost[i].port].used + PeerBuf
  /\ \A i, j \in DOMAIN toHost :
       /\ i < j /\ toHost[i].op = "RW" /\ toHost[j].op = "RW"
       /\ toHost[i].port = toHost[j].port
       => toHost[i].off + toHost[i].len <= toHost[j].off

CreditInv ==
  /\ TypeOK /\ PeerKnown /\ RequestedOnce /\ GuestCount /\ DataInFlight
  /\ HostBufferNeverOverruns

LEMMA TailElements ==
  ASSUME NEW S, NEW s \in Seq(S), s # <<>>
  PROVE  \A i \in DOMAIN Tail(s) : i + 1 \in DOMAIN s /\ Tail(s)[i] = s[i + 1]
BY HeadTailProperties

LEMMA AppendElements ==
  ASSUME NEW S, NEW s \in Seq(S), NEW m \in S
  PROVE  \A i \in DOMAIN Append(s, m) :
           \/ i \in DOMAIN s /\ Append(s, m)[i] = s[i]
           \/ i = Len(s) + 1 /\ Append(s, m)[i] = m
BY AppendProperties

\* What a step leaves of the data in flight to the host, after taking d packets.
DataKept(d) ==
  \A i \in DOMAIN toHost' : toHost'[i].op = "RW" =>
    i + d \in DOMAIN toHost /\ toHost'[i] = toHost[i + d]

\* What a step leaves in flight to the guest, after taking d packets: it may
\* add packets that request nothing and tell the credit as it is.
PacketsKept(d) ==
  \A i \in DOMAIN toGuest' :
    \/ i + d \in DOMAIN toGuest /\ toGuest'[i] = toGuest[i + d]
    \/ /\ toGuest'[i].op # "REQUEST"
       /\ toGuest'[i].alloc = PeerBuf
       /\ toGuest'[i].fwd <= host[toGuest'[i].port].used
       /\ host[toGuest'[i].port].st # "idle"

\* The guest opens nothing, sends no data and keeps what it knows of the host.
StreamsKept ==
  /\ connections' \subseteq connections
  /\ \A k \in connections' :
       /\ conn'[k].sent = conn[k].sent /\ conn'[k].txCount = conn[k].txCount
       /\ conn'[k].peerAlloc = PeerBuf
       /\ conn'[k].peerFwd <= host[k].used

\* The host receives nothing; it may read.
HostKept ==
  \A p \in Ports :
    /\ host'[p].rcvd = host[p].rcvd
    /\ host'[p].used >= host[p].used
    /\ host'[p].st = "idle" => host[p].st = "idle"

LEMMA CreditKept ==
  ASSUME CreditInv, TypeOK', NEW d \in Nat, NEW e \in Nat,
         DataKept(d), PacketsKept(e), StreamsKept, HostKept
  PROVE  CreditInv'
<1>1. ASSUME NEW p \in Ports
      PROVE  /\ host[p].used \in Nat /\ host[p].rcvd \in Nat
             /\ host'[p].used \in Nat /\ host'[p].rcvd \in Nat
  BY DEF CreditInv, TypeOK, HostEnd
<1>2. ASSUME NEW i \in DOMAIN toHost
      PROVE  /\ toHost[i].port \in Ports
             /\ toHost[i].off \in Nat /\ toHost[i].len \in Nat
  <2>1. toHost[i] \in GuestPacket
    BY DEF CreditInv, TypeOK, EndpointTypeOK
  <2> QED BY <2>1 DEF GuestPacket
<1>3. ASSUME NEW i \in DOMAIN toGuest'
      PROVE  toGuest'[i].port \in Ports /\ toGuest'[i].fwd \in Nat
  <2>1. toGuest'[i] \in HostPacket
    BY DEF TypeOK, EndpointTypeOK
  <2> QED BY <2>1 DEF HostPacket
<1>4. /\ DOMAIN toHost \subseteq Nat /\ DOMAIN toHost' \subseteq Nat
      /\ DOMAIN toGuest \subseteq Nat /\ DOMAIN toGuest' \subseteq Nat
  BY DEF CreditInv, TypeOK, EndpointTypeOK
<1>5. connections' \subseteq Ports /\ connections \subseteq Ports
  BY DEF CreditInv, TypeOK, EndpointTypeOK
<1>6. ASSUME NEW k \in connections
      PROVE  conn[k].txCount \in Nat /\ conn[k].peerFwd \in Nat
  BY <1>5 DEF CreditInv, TypeOK, EndpointTypeOK, Connection
<1>7. PeerKnown'
  <2>1. ASSUME NEW i \in DOMAIN toGuest'
        PROVE  /\ toGuest'[i].alloc = PeerBuf
               /\ toGuest'[i].fwd <= host[toGuest'[i].port].used
    BY <1>3 DEF PacketsKept, CreditInv, PeerKnown
  <2>2. ASSUME NEW i \in DOMAIN toGuest'
        PROVE  toGuest'[i].fwd <= host'[toGuest'[i].port].used
    BY <1>1, <1>3, <2>1 DEF HostKept
  <2>3. ASSUME NEW k \in connections'
        PROVE  conn'[k].peerFwd <= host'[k].used
    <3>1. conn'[k].peerFwd \in Nat
      BY <1>5 DEF TypeOK, EndpointTypeOK, Connection
    <3>2. conn'[k].peerFwd <= host[k].used
      BY DEF StreamsKept
    <3> QED BY <1>1, <1>5, <3>1, <3>2 DEF HostKept
  <2> QED BY <2>1, <2>2, <2>3 DEF PeerKnown, StreamsKept
<1>8. ASSUME NEW p \in Ports, Untouched(p)
      PROVE  Untouched(p)'
  BY <1>8, <1>2 DEF Untouched, StreamsKept, HostKept, DataKept
<1>9. RequestedOnce'
  <2>1. ASSUME NEW i \in DOMAIN toGuest'
        PROVE  host'[toGuest'[i].port].st # "idle"
    BY <1>3 DEF PacketsKept, HostKept, CreditInv, RequestedOnce
  <2>2. ASSUME NEW i \in DOMAIN toGuest', toGuest'[i].op = "REQUEST"
        PROVE  i + e \in DOMAIN toGuest /\ toGuest'[i] = toGuest[i + e]
    BY <2>2 DEF PacketsKept
  <2>3. ASSUME NEW i \in DOMAIN toGuest', NEW j \in DOMAIN toGuest',
               toGuest'[i].op = "REQUEST", toGuest'[j].op = "REQUEST",
               toGuest'[i].port = toGuest'[j].port
        PROVE  i = j
    <3>1. i + e = j + e
      BY <2>2, <2>3 DEF CreditInv, RequestedOnce
    <3> QED BY <1>4, <3>1
  <2>4. ASSUME NEW p \in Ports, NEW i \in DOMAIN toGuest',
               toGuest'[i].op = "REQUEST", toGuest'[i].port = p
        PROVE  Untouched(p)'
    <3>1. Untouched(p)
      BY <2>2, <2>4 DEF CreditInv, RequestedOnce
    <3> QED BY <1>8, <3>1
  <2>5. ASSUME NEW p \in Ports, host'[p].st = "idle"
        PROVE  Untouched(p)'
    BY <1>8, <2>5 DEF HostKept, CreditInv, RequestedOnce
  <2> QED BY <2>1, <2>3, <2>4, <2>5 DEF RequestedOnce
<1>10. GuestCount'
  <2> SUFFICES ASSUME NEW k \in connections'
               PROVE  /\ conn'[k].sent = conn'[k].txCount
                      /\ conn'[k].txCount <= host'[k].used + PeerBuf
                      /\ host'[k].rcvd <= conn'[k].txCount
                      /\ \A i \in DOMAIN toHost' :
                           toHost'[i].op = "RW" /\ toHost'[i].port = k =>
                             toHost'[i].off + toHost'[i].len <= conn'[k].txCount
    BY DEF GuestCount
  <2>1. /\ k \in connections /\ k \in Ports
        /\ conn'[k].txCount = conn[k].txCount /\ conn'[k].sent = conn[k].sent
    BY <1>5 DEF StreamsKept
  <2>2. /\ conn[k].sent = conn[k].txCount
        /\ conn[k].txCount <= host[k].used + PeerBuf
        /\ host[k].rcvd <= conn[k].txCount
    BY <2>1 DEF CreditInv, GuestCount
  <2>3. conn'[k].txCount <= host'[k].used + PeerBuf
    BY <1>1, <1>6, <2>1, <2>2 DEF HostKept
  <2>4. host'[k].rcvd <= conn'[k].txCount
    BY <1>1, <2>1, <2>2 DEF HostKept
  <2>5. ASSUME NEW i \in DOMAIN toHost', toHost'[i].op = "RW",
               toHost'[i].port = k
        PROVE  toHost'[i].off + toHost'[i].len <= conn'[k].txCount
    BY <2>1, <2>5 DEF DataKept, CreditInv, GuestCount
  <2> QED BY <2>1, <2>2, <2>3, <2>4, <2>5
<1>11. DataInFlight'
  <2>1. ASSUME NEW i \in DOMAIN toHost', toHost'[i].op = "RW"
        PROVE  /\ host'[toHost'[i].port].rcvd <= toHost'[i].off
               /\ toHost'[i].off + toHost'[i].len
                    <= host'[toHost'[i].port].used + PeerBuf
    <3>1. PICK j \in DOMAIN toHost : toHost'[i] = toHost[j]
      BY <2>1 DEF DataKept
    <3>2. /\ host[toHost[j].port].rcvd <= toHost[j].off
          /\ toHost[j].off + toHost[j].len
               <= host[toHost[j].port].used + PeerBuf
      BY <2>1, <3>1 DEF CreditInv, DataInFlight
    <3> QED BY <1>1, <1>2, <3>1, <3>2 DEF HostKept
  <2>2. ASSUME NEW i \in DOMAIN toHost', NEW j \in DOMAIN toHost', i < j,
               toHost'[i].op = "RW", toHost'[j].op = "RW",
               toHost'[i].port = toHost'[j].port
        PROVE  toHost'[i].off + toHost'[i].len <= toHost'[j].off
    <3>1. /\ i + d \in DOMAIN toHost /\ toHost'[i] = toHost[i + d]
          /\ j + d \in DOMAIN toHost /\ toHost'[j] = toHost[j + d]
      BY <2>2 DEF DataKept
    <3>2. i + d < j + d
      BY <1>4, <2>2
    <3> QED BY <2>2, <3>1, <3>2 DEF CreditInv, DataInFlight
  <2> QED BY <2>1, <2>2 DEF DataInFlight
<1>12. HostBufferNeverOverruns'
  BY <1>1 DEF HostKept, CreditInv, HostBufferNeverOverruns
<1> QED BY <1>7, <1>9, <1>10, <1>11, <1>12 DEF CreditInv

LEMMA NoDataSent ==
  ASSUME TypeOK, NEW m \in GuestPacket, m.op # "RW",
         toHost' = toHost \/ toHost' = Append(toHost, m)
  PROVE  DataKept(0)
<1>1. toHost \in Seq(GuestPacket) /\ DOMAIN toHost \subseteq Nat
  BY DEF TypeOK, EndpointTypeOK
<1>2. CASE toHost' = toHost
  BY <1>1, <1>2 DEF DataKept
<1>3. CASE toHost' = Append(toHost, m)
  <2>1. ASSUME NEW i \in DOMAIN toHost', toHost'[i].op = "RW"
        PROVE  i \in DOMAIN toHost /\ toHost'[i] = toHost[i]
    BY <1>1, <1>3, <2>1, AppendElements
  <2> QED BY <1>1, <2>1 DEF DataKept
<1> QED BY <1>2, <1>3

LEMMA TakenPacket ==
  ASSUME CreditInv, Take
  PROVE  /\ PacketsKept(1)
         /\ packet \in HostPacket
         /\ packet.port \in Ports
         /\ packet.alloc = PeerBuf
         /\ packet.fwd <= host[packet.port].used
<1>1. toGuest \in Seq(HostPacket) /\ toGuest # <<>> /\ toGuest' = Tail(toGuest)
  BY DEF CreditInv, TypeOK, EndpointTypeOK, Take
<1>2. PacketsKept(1)
  BY <1>1, TailElements DEF PacketsKept
<1>3. 1 \in DOMAIN toGuest /\ packet = toGuest[1] /\ packet \in HostPacket
  BY <1>1, HeadTailProperties DEF packet
<1> QED BY <1>2, <1>3 DEF CreditInv, PeerKnown, HostPacket

LEMMA PeerUpdated ==
  ASSUME NEW c \in Connection, NEW m \in HostPacket
  PROVE  LET u == UpdatePeer(c, m)
         IN  /\ u.peerAlloc = m.alloc /\ u.peerFwd = m.fwd
             /\ u.sent = c.sent /\ u.txCount = c.txCount
             /\ u \in Connection
BY DEF UpdatePeer, Connection, HostPacket

LEMMA HandleKeeps ==
  ASSUME CreditInv, Handle, ~HandleRequest, UNCHANGED hostVars
  PROVE  DataKept(0) /\ StreamsKept /\ HostKept
<1>1. Take
  BY HandleTakes
<1>2. /\ packet \in HostPacket /\ packet.port \in Ports
      /\ packet.alloc = PeerBuf /\ packet.fwd <= host[packet.port].used
  BY <1>1, TakenPacket
<1>3. /\ TypeOK /\ connections \subseteq Ports
      /\ \A k \in Ports : conn[k] \in Connection
  BY DEF CreditInv, TypeOK, EndpointTypeOK
<1>4. HostKept
  BY DEF HostKept, hostVars, CreditInv, TypeOK, HostEnd
<1> DEFINE k == packet.port
           u == UpdatePeer(conn[k], packet)
<1>5. /\ u.peerAlloc = PeerBuf /\ u.peerFwd <= host[k].used
      /\ u.sent = conn[k].sent /\ u.txCount = conn[k].txCount
      /\ u \in Connection
  BY <1>2, <1>3, PeerUpdated
<1>6. /\ Collected.peerAlloc = PeerBuf /\ Collected.peerFwd <= host[k].used
      /\ Collected.sent = conn[k].sent /\ Collected.txCount = conn[k].txCount
      /\ Collected \in Connection
  <2>1. Collected = [u EXCEPT !.request = @ + packet.len, !.rxFwd = @ + packet.len]
    BY DEF Collected
  <2>2. packet.len \in Nat
    BY <1>2 DEF HostPacket
  <2>3. Collected \in Connection
    BY <1>5, <2>1, <2>2, CollectedTyped
  <2> HIDE DEF u
  <2> QED BY <1>5, <2>1, <2>3 DEF Connection
<1>7. /\ ResetFor(k) \in GuestPacket /\ ResetFor(k).op # "RW"
      /\ Reply(k, "CREDIT_UPDATE") \in GuestPacket
      /\ Reply(k, "CREDIT_UPDATE").op # "RW"
      /\ [Reply(k, "CREDIT_UPDATE") EXCEPT !.fwd = Collected.rxFwd] \in GuestPacket
      /\ [Reply(k, "CREDIT_UPDATE") EXCEPT !.fwd = Collected.rxFwd].op # "RW"
  <2>1. conn[k].rxFwd \in Nat /\ Collected.rxFwd \in Nat
    BY <1>2, <1>3, <1>6 DEF Connection
  <2> QED BY <1>2, <2>1 DEF ResetFor, Reply, GuestPacket, GuestOps
<1>8. DataKept(0)
  <2> HIDE DEF k, u
  <2>1. \/ toHost' = toHost
        \/ toHost' = Append(toHost, ResetFor(k))
        \/ toHost' = Append(toHost, Reply(k, "CREDIT_UPDATE"))
        \/ toHost' = Append(toHost, [Reply(k, "CREDIT_UPDATE")
                                       EXCEPT !.fwd = Collected.rxFwd])
    BY DEF k, Handle, Emit, Refuse, HandleMismatch, HandleRefused, HandleStray,
       HandleOverflow, HandleFragment, HandleHeader, HandleExtra,
       HandleCreditRequest, HandleCreditUpdate, HandleShutdown, HandleReset,
       HandleUnknown
  <2> QED BY <1>3, <1>7, <2>1, NoDataSent
<1>9. ASSUME UNCHANGED <<connections, conn>>
      PROVE  StreamsKept
  BY <1>9 DEF StreamsKept, CreditInv, PeerKnown
<1>10. ASSUME Forget(k)
       PROVE  StreamsKept
  BY <1>3, <1>10 DEF Forget, StreamsKept, CreditInv, PeerKnown
<1>11. ASSUME NEW c \in Connection, connections' = connections,
              conn' = [conn EXCEPT ![k] = c],
              c.sent = conn[k].sent, c.txCount = conn[k].txCount,
              c.peerAlloc = PeerBuf, c.peerFwd <= host[k].used
       PROVE  StreamsKept
  <2> HIDE DEF k
  <2> QED BY <1>3, <1>11 DEF StreamsKept, CreditInv, PeerKnown, TypeOK,
          EndpointTypeOK
<1>12. CASE HandleMismatch \/ HandleRefused \/ HandleStray
  BY <1>4, <1>8, <1>9, <1>12
     DEF HandleMismatch, HandleRefused, HandleStray, Refuse, guestVars
<1>13. CASE HandleOverflow \/ HandleReset \/ HandleUnknown
  BY <1>4, <1>8, <1>10, <1>13 DEF HandleOverflow, HandleReset, HandleUnknown
<1>14. CASE HandleFragment \/ HandleExtra
  BY <1>4, <1>6, <1>8, <1>11, <1>14 DEF HandleFragment, HandleExtra
<1>15. CASE HandleHeader
  <2>1. PICK n \in AnswerLens :
          conn' = [conn EXCEPT ![k] =
                     [Collected EXCEPT !.answered = TRUE, !.response = n]]
    BY <1>15 DEF HandleHeader, Answers
  <2> DEFINE c == [Collected EXCEPT !.answered = TRUE, !.response = n]
  <2>2. /\ c \in Connection
        /\ c.sent = conn[k].sent /\ c.txCount = conn[k].txCount
        /\ c.peerAlloc = PeerBuf /\ c.peerFwd <= host[k].used
    <3> HIDE DEF k
    <3> QED BY <1>6 DEF Connection
  <2> QED BY <1>4, <1>8, <1>11, <1>15, <2>1, <2>2 DEF HandleHeader
<1>16. CASE HandleCreditRequest \/ HandleCreditUpdate
  BY <1>4, <1>5, <1>8, <1>11, <1>16 DEF HandleCreditRequest, HandleCreditUpdate
<1>17. CASE HandleShutdown
  <2> DEFINE c == [u EXCEPT !.closing = TRUE]
  <2>1. conn' = [conn EXCEPT ![k] = c] /\ connections' = connections
    BY <1>17 DEF HandleShutdown
  <2>2. /\ c \in Connection
        /\ c.sent = conn[k].sent /\ c.txCount = conn[k].txCount
        /\ c.peerAlloc = PeerBuf /\ c.peerFwd <= host[k].used
    <3> HIDE DEF k, u
    <3> QED BY <1>5 DEF Connection
  <2> QED BY <1>4, <1>8, <1>11, <2>1, <2>2
<1> QED
  BY <1>12, <1>13, <1>14, <1>15, <1>16, <1>17 DEF Handle

\* The facts about the state that the steps below take numbers from.
LEMMA StateTyped ==
  ASSUME TypeOK
  PROVE  /\ connections \subseteq Ports
         /\ \A k \in Ports : conn[k] \in Connection /\ host[k] \in HostEnd
         /\ \A p \in Ports : host[p].used \in Nat /\ host[p].rcvd \in Nat
         /\ \A i \in DOMAIN toHost :
              /\ i \in Nat /\ toHost[i] \in GuestPacket
              /\ toHost[i].port \in Ports
              /\ toHost[i].off \in Nat /\ toHost[i].len \in Nat
         /\ \A i \in DOMAIN toGuest :
              /\ i \in Nat /\ toGuest[i] \in HostPacket
              /\ toGuest[i].port \in Ports
<1>1. /\ toHost \in Seq(GuestPacket) /\ toGuest \in Seq(HostPacket)
      /\ conn \in [Ports -> Connection] /\ host \in [Ports -> HostEnd]
      /\ connections \subseteq Ports
  BY DEF TypeOK, EndpointTypeOK
<1>2. \A i \in DOMAIN toHost : i \in Nat /\ toHost[i] \in GuestPacket
  BY <1>1
<1>3. \A i \in DOMAIN toGuest : i \in Nat /\ toGuest[i] \in HostPacket
  BY <1>1
<1>4. \A p \in Ports : host[p].used \in Nat /\ host[p].rcvd \in Nat
  BY <1>1 DEF HostEnd
<1>5. \A m \in GuestPacket : m.port \in Ports /\ m.off \in Nat /\ m.len \in Nat
  BY DEF GuestPacket
<1>6. \A m \in HostPacket : m.port \in Ports
  BY DEF HostPacket
<1> QED BY <1>1, <1>2, <1>3, <1>4, <1>5, <1>6

\* A request is handled: the stream it opens starts at zero on both sides.
LEMMA RequestKeepsCredit ==
  ASSUME CreditInv, TypeOK', HandleRequest, UNCHANGED hostVars
  PROVE  CreditInv'
<1> DEFINE k == packet.port
<1>1. Take /\ packet.op = "REQUEST"
  BY DEF HandleRequest
<1>2. /\ packet \in HostPacket /\ k \in Ports
      /\ packet.alloc = PeerBuf /\ packet.fwd <= host[k].used
  BY <1>1, TakenPacket
<1>3. /\ toGuest \in Seq(HostPacket) /\ toGuest # <<>>
      /\ toGuest' = Tail(toGuest)
      /\ 1 \in DOMAIN toGuest /\ packet = toGuest[1]
      /\ DOMAIN toGuest' \subseteq Nat \ {0}
  BY <1>1, HeadTailProperties
     DEF CreditInv, TypeOK, EndpointTypeOK, Take, packet
<1>4. \A i \in DOMAIN toGuest' :
        i + 1 \in DOMAIN toGuest /\ toGuest'[i] = toGuest[i + 1]
  BY <1>3, TailElements
<1>5. DataKept(0)
  <2>1. toHost' = Append(toHost, [op |-> "RESPONSE", port |-> k, off |-> 0,
                                  len |-> 0, fwd |-> 0])
    BY DEF HandleRequest, Emit
  <2>2. [op |-> "RESPONSE", port |-> k, off |-> 0, len |-> 0, fwd |-> 0]
           \in GuestPacket
    BY <1>2 DEF GuestPacket, GuestOps
  <2> QED BY <2>1, <2>2, NoDataSent DEF CreditInv
<1>6. \A i \in DOMAIN toHost' : toHost'[i].op = "RW" =>
        i \in DOMAIN toHost /\ toHost'[i] = toHost[i]
  BY <1>5 DEF DataKept, TypeOK, EndpointTypeOK
<1>7. Untouched(k)
  BY <1>1, <1>2, <1>3 DEF CreditInv, RequestedOnce
<1> DEFINE c == UpdatePeer(NoConnection, packet)
<1>8. /\ c.sent = 0 /\ c.txCount = 0
      /\ c.peerAlloc = PeerBuf /\ c.peerFwd <= host[k].used
  <2>1. NoConnection \in Connection
    BY DEF NoConnection, Connection
  <2> QED BY <1>2, <2>1, PeerUpdated DEF NoConnection
<1>9. /\ connections' = connections \cup {k}
      /\ conn'[k] = c
      /\ \A q \in connections : conn'[q] = conn[q]
      /\ host' = host
  <2> HIDE DEF c
  <2>1. /\ connections' = connections \cup {k} /\ host' = host
        /\ conn' = [conn EXCEPT ![k] = c]
    BY DEF HandleRequest, hostVars, c
  <2>2. k \notin connections /\ connections \subseteq Ports
        /\ conn \in [Ports -> Connection]
    BY <1>7 DEF Untouched, CreditInv, TypeOK, EndpointTypeOK
  <2> HIDE DEF k
  <2> QED BY <1>2, <2>1, <2>2
<1> HIDE DEF k, c
<1>10. PeerKnown'
  BY <1>4, <1>8, <1>9 DEF PeerKnown, CreditInv
<1>11. RequestedOnce'
  <2>1. ASSUME NEW i \in DOMAIN toGuest'
        PROVE  ~(toGuest'[i].op = "REQUEST" /\ toGuest'[i].port = k)
    <3>1. i + 1 # 1
      BY <1>3
    <3> QED BY <1>1, <1>3, <1>4, <3>1 DEF k, CreditInv, RequestedOnce
  <2>2. host[k].st # "idle"
    BY <1>3 DEF k, CreditInv, RequestedOnce
  <2>3. ASSUME NEW p \in Ports, p # k, Untouched(p)
        PROVE  Untouched(p)'
    BY <1>6, <1>9, <2>3 DEF Untouched
  <2>4. ASSUME NEW i \in DOMAIN toGuest'
        PROVE  host'[toGuest'[i].port].st # "idle"
    BY <1>4, <1>9 DEF CreditInv, RequestedOnce
  <2>5. ASSUME NEW i \in DOMAIN toGuest', NEW j \in DOMAIN toGuest',
               toGuest'[i].op = "REQUEST", toGuest'[j].op = "REQUEST",
               toGuest'[i].port = toGuest'[j].port
        PROVE  i = j
    <3>1. i + 1 = j + 1
      BY <1>4, <2>5 DEF CreditInv, RequestedOnce
    <3> QED BY <1>3, <3>1
  <2>6. ASSUME NEW p \in Ports, host'[p].st = "idle"
        PROVE  Untouched(p)'
    BY <1>9, <2>2, <2>3, <2>6 DEF CreditInv, RequestedOnce
  <2>7. ASSUME NEW p \in Ports, NEW i \in DOMAIN toGuest',
               toGuest'[i].op = "REQUEST", toGuest'[i].port = p
        PROVE  Untouched(p)'
    <3>1. p # k /\ Untouched(p)
      BY <1>4, <2>1, <2>7 DEF CreditInv, RequestedOnce
    <3> QED BY <2>3, <3>1
  <2> QED BY <2>4, <2>5, <2>6, <2>7 DEF RequestedOnce
<1>12. GuestCount'
  <2>1. host[k].used \in Nat /\ 0 <= host[k].used + PeerBuf
    BY <1>2, StateTyped DEF k, CreditInv
  <2>2. host[k].rcvd = 0 /\ \A i \in DOMAIN toHost' :
          toHost'[i].op = "RW" => toHost'[i].port # k
    BY <1>6, <1>7 DEF Untouched
  <2>3. ASSUME NEW q \in connections
        PROVE  /\ conn'[q].sent = conn'[q].txCount
               /\ conn'[q].txCount <= host'[q].used + PeerBuf
               /\ host'[q].rcvd <= conn'[q].txCount
               /\ \A i \in DOMAIN toHost' :
                    toHost'[i].op = "RW" /\ toHost'[i].port = q =>
                      toHost'[i].off + toHost'[i].len <= conn'[q].txCount
    BY <1>6, <1>9 DEF CreditInv, GuestCount
  <2> QED BY <1>8, <1>9, <2>1, <2>2, <2>3 DEF GuestCount
<1>13. DataInFlight'
  BY <1>6, <1>9 DEF CreditInv, DataInFlight
<1>14. HostBufferNeverOverruns'
  BY <1>9 DEF CreditInv, HostBufferNeverOverruns
<1> QED BY <1>10, <1>11, <1>12, <1>13, <1>14 DEF CreditInv

\* Drain sends a chunk: sendSpace bounds it by the credit, however old.
LEMMA ChunkKeepsCredit ==
  ASSUME CreditInv, TypeOK', NEW k \in Ports, DrainChunk(k), UNCHANGED hostVars
  PROVE  CreditInv'
<1> DEFINE n == ChunkLen(conn[k])
           m == [Reply(k, "RW") EXCEPT !.off = conn[k].sent, !.len = n]
<1>1. /\ k \in connections /\ conn[k] \in Connection /\ MayChunk(conn[k])
      /\ toHost \in Seq(GuestPacket)
  BY StateTyped DEF CreditInv, TypeOK, EndpointTypeOK, DrainChunk, At
<1>2. /\ conn[k].sent \in Nat /\ conn[k].txCount \in Nat /\ conn[k].peerFwd \in Nat
      /\ host[k].used \in Nat /\ host[k].rcvd \in Nat
  BY <1>1, StateTyped DEF Connection, CreditInv
<1>3. n \in Nat \ {0} /\ n <= SendSpace(conn[k]) /\ SendSpace(conn[k]) \in Nat
  BY <1>1, ChunkLenIsPositive
<1>4. /\ conn[k].peerAlloc = PeerBuf /\ conn[k].peerFwd <= host[k].used
      /\ conn[k].sent = conn[k].txCount
      /\ conn[k].txCount <= host[k].used + PeerBuf
      /\ host[k].rcvd <= conn[k].txCount
  BY <1>1 DEF CreditInv, PeerKnown, GuestCount
<1>5. conn[k].txCount + n <= host[k].used + PeerBuf
  <2> HIDE DEF n
  <2> QED BY <1>2, <1>3, <1>4 DEF SendSpace, Smaller
<1>6. /\ m.op = "RW" /\ m.port = k /\ m.off = conn[k].sent /\ m.len = n
      /\ m \in GuestPacket
  <2> HIDE DEF n
  <2>1. conn[k].rxFwd \in Nat
    BY <1>1 DEF Connection
  <2> QED BY <1>2, <1>3, <2>1 DEF Reply, GuestPacket, GuestOps
<1>7. /\ toHost' = Append(toHost, m) /\ toGuest' = toGuest /\ host' = host
      /\ connections' = connections
      /\ conn' = [conn EXCEPT ![k] = Advance(conn[k], n)]
  BY DEF DrainChunk, Emit, hostVars
<1> HIDE DEF m, n
<1>8. \A i \in DOMAIN toHost' :
        \/ i \in DOMAIN toHost /\ toHost'[i] = toHost[i]
        \/ i = Len(toHost) + 1 /\ toHost'[i] = m
  BY <1>1, <1>6, <1>7, AppendElements
<1>9. /\ conn'[k].sent = conn[k].sent + n
      /\ conn'[k].txCount = conn[k].txCount + n
      /\ conn'[k].peerAlloc = conn[k].peerAlloc
      /\ conn'[k].peerFwd = conn[k].peerFwd
      /\ \A q \in Ports \ {k} : conn'[q] = conn[q]
  BY <1>1, <1>7 DEF Advance, CreditInv, TypeOK, EndpointTypeOK, Connection
<1>10. PeerKnown'
  BY <1>7, <1>9, StateTyped DEF CreditInv, PeerKnown
<1>11. RequestedOnce'
  <2>1. ASSUME NEW p \in Ports, Untouched(p)
        PROVE  Untouched(p)'
    BY <1>1, <1>6, <1>7, <1>8, <2>1 DEF Untouched
  <2> QED BY <1>7, <2>1 DEF CreditInv, RequestedOnce
<1>12. GuestCount'
  <2>1. ASSUME NEW q \in connections, q # k
        PROVE  /\ conn'[q].sent = conn'[q].txCount
               /\ conn'[q].txCount <= host'[q].used + PeerBuf
               /\ host'[q].rcvd <= conn'[q].txCount
               /\ \A i \in DOMAIN toHost' :
                    toHost'[i].op = "RW" /\ toHost'[i].port = q =>
                      toHost'[i].off + toHost'[i].len <= conn'[q].txCount
    BY <1>6, <1>7, <1>8, <1>9, <2>1, StateTyped DEF CreditInv, GuestCount
  <2>2. \A i \in DOMAIN toHost' :
          toHost'[i].op = "RW" /\ toHost'[i].port = k =>
            toHost'[i].off + toHost'[i].len <= conn[k].txCount + n
    <3> TAKE i \in DOMAIN toHost'
    <3> HAVE toHost'[i].op = "RW" /\ toHost'[i].port = k
    <3>1. CASE i \in DOMAIN toHost /\ toHost'[i] = toHost[i]
      <4>1. toHost[i].off + toHost[i].len <= conn[k].txCount
        BY <1>1, <3>1 DEF CreditInv, GuestCount
      <4> QED BY <1>2, <1>3, <3>1, <4>1, StateTyped DEF CreditInv
    <3>2. CASE toHost'[i] = m
      BY <1>2, <1>3, <1>4, <1>6, <3>2
    <3> QED BY <1>8, <3>1, <3>2
  <2>3. host[k].rcvd <= conn[k].txCount + n
    BY <1>2, <1>3, <1>4
  <2>4. /\ conn'[k].sent = conn'[k].txCount
        /\ conn'[k].txCount <= host'[k].used + PeerBuf
        /\ host'[k].rcvd <= conn'[k].txCount
        /\ \A i \in DOMAIN toHost' :
             toHost'[i].op = "RW" /\ toHost'[i].port = k =>
               toHost'[i].off + toHost'[i].len <= conn'[k].txCount
    BY <1>4, <1>5, <1>7, <1>9, <2>2, <2>3
  <2> QED BY <1>7, <2>1, <2>4 DEF GuestCount
<1>13. DataInFlight'
  <2>1. ASSUME NEW i \in DOMAIN toHost', toHost'[i].op = "RW"
        PROVE  /\ host[toHost'[i].port].rcvd <= toHost'[i].off
               /\ toHost'[i].off + toHost'[i].len
                    <= host[toHost'[i].port].used + PeerBuf
    BY <1>4, <1>5, <1>6, <1>8, <2>1 DEF CreditInv, DataInFlight
  <2>2. ASSUME NEW i \in DOMAIN toHost', NEW j \in DOMAIN toHost', i < j,
               toHost'[i].op = "RW", toHost'[j].op = "RW",
               toHost'[i].port = toHost'[j].port
        PROVE  toHost'[i].off + toHost'[i].len <= toHost'[j].off
    <3>1. i \in DOMAIN toHost /\ toHost'[i] = toHost[i]
      <4>1. DOMAIN toHost' = 1 .. Len(toHost) + 1 /\ Len(toHost) \in Nat
            /\ DOMAIN toHost = 1 .. Len(toHost)
        BY <1>1, <1>6, <1>7, AppendProperties
      <4> QED BY <1>8, <2>2, <4>1
    <3>2. CASE j \in DOMAIN toHost /\ toHost'[j] = toHost[j]
      BY <2>2, <3>1, <3>2 DEF CreditInv, DataInFlight
    <3>3. CASE toHost'[j] = m
      <4>1. toHost[i].off + toHost[i].len <= conn[k].txCount
        BY <1>1, <1>6, <2>2, <3>1, <3>3 DEF CreditInv, GuestCount
      <4> QED BY <1>4, <1>6, <3>1, <3>3, <4>1
    <3> QED BY <1>8, <3>2, <3>3
  <2> QED BY <1>7, <2>1, <2>2 DEF DataInFlight
<1>14. HostBufferNeverOverruns'
  BY <1>7 DEF CreditInv, HostBufferNeverOverruns
<1> QED BY <1>10, <1>11, <1>12, <1>13, <1>14 DEF CreditInv

\* A stream is opened: the port was idle, so nothing of it is in flight.
LEMMA ConnectKeepsCredit ==
  ASSUME CreditInv, TypeOK', NEW p \in Ports, HostConnect(p)
  PROVE  CreditInv'
<1>1. PICK right \in BOOLEAN :
        HostSends([HostMessage(p, "REQUEST") EXCEPT !.here = right],
                  [host[p] EXCEPT !.st = "connecting", !.right = right])
  BY DEF HostConnect
<1> DEFINE m == [HostMessage(p, "REQUEST") EXCEPT !.here = right]
           end == [[host[p] EXCEPT !.st = "connecting", !.right = right]
                     EXCEPT !.told = m.fwd]
<1>2. /\ m \in HostPacket /\ m.op = "REQUEST" /\ m.port = p
      /\ m.alloc = PeerBuf /\ m.fwd = host[p].used
  <2>1. HostMessage(p, "REQUEST") \in HostPacket
    BY HostMessageTyped DEF HostOps, CreditInv
  <2> QED BY <2>1 DEF HostMessage, HostPacket
<1>3. end.st = "connecting" /\ end.rcvd = host[p].rcvd /\ end.used = host[p].used
  BY StateTyped DEF CreditInv, HostEnd
<1>4. /\ toGuest' = Append(toGuest, m) /\ host' = [host EXCEPT ![p] = end]
      /\ UNCHANGED <<connections, conn, toHost>>
  BY <1>1, <1>2 DEF HostSends, guestVars
<1>5. host[p].st = "idle"
  BY DEF HostConnect
<1> HIDE DEF m, end
<1>6. /\ \A i \in DOMAIN toGuest' :
           \/ i \in DOMAIN toGuest /\ toGuest'[i] = toGuest[i]
           \/ i = Len(toGuest) + 1 /\ toGuest'[i] = m
      /\ \A i \in DOMAIN toGuest' : i \in Nat
  BY <1>2, <1>4, AppendElements DEF CreditInv, TypeOK, EndpointTypeOK
<1>7. /\ host'[p] = end /\ \A q \in Ports \ {p} : host'[q] = host[q]
      /\ \A q \in Ports : /\ host'[q].rcvd = host[q].rcvd
                          /\ host'[q].used = host[q].used
  BY <1>3, <1>4 DEF CreditInv, TypeOK
<1>8. PeerKnown'
  <2>1. ASSUME NEW i \in DOMAIN toGuest'
        PROVE  /\ toGuest'[i].alloc = PeerBuf
               /\ toGuest'[i].fwd <= host'[toGuest'[i].port].used
    <3>1. CASE i \in DOMAIN toGuest /\ toGuest'[i] = toGuest[i]
      BY <1>7, <3>1, StateTyped DEF CreditInv, PeerKnown
    <3>2. CASE toGuest'[i] = m
      BY <1>2, <1>7, <3>2, StateTyped DEF CreditInv
    <3> QED BY <1>6, <3>1, <3>2
  <2>2. ASSUME NEW k \in connections'
        PROVE  conn'[k].peerAlloc = PeerBuf /\ conn'[k].peerFwd <= host'[k].used
    BY <1>4, <1>7, StateTyped DEF CreditInv, PeerKnown
  <2> QED BY <2>1, <2>2 DEF PeerKnown
<1>9. \A q \in Ports : Untouched(q) => Untouched(q)'
  BY <1>4, <1>7 DEF Untouched
<1>10. RequestedOnce'
  <2>1. ASSUME NEW i \in DOMAIN toGuest
        PROVE  toGuest[i].port \in Ports \ {p}
    BY <1>5, StateTyped DEF CreditInv, RequestedOnce
  <2>2. ASSUME NEW i \in DOMAIN toGuest'
        PROVE  host'[toGuest'[i].port].st # "idle"
    <3>1. CASE i \in DOMAIN toGuest /\ toGuest'[i] = toGuest[i]
      BY <1>7, <2>1, <3>1 DEF CreditInv, RequestedOnce
    <3>2. CASE toGuest'[i] = m
      BY <1>2, <1>3, <1>7, <3>2
    <3> QED BY <1>6, <3>1, <3>2
  <2>3. ASSUME NEW i \in DOMAIN toGuest', NEW j \in DOMAIN toGuest',
               toGuest'[i].op = "REQUEST", toGuest'[j].op = "REQUEST",
               toGuest'[i].port = toGuest'[j].port
        PROVE  i = j
    BY <1>2, <1>6, <2>1, <2>3 DEF CreditInv, RequestedOnce
  <2>4. ASSUME NEW q \in Ports, host'[q].st = "idle"
        PROVE  Untouched(q)'
    BY <1>3, <1>7, <1>9, <2>4 DEF CreditInv, RequestedOnce
  <2>5. ASSUME NEW q \in Ports, NEW i \in DOMAIN toGuest',
               toGuest'[i].op = "REQUEST", toGuest'[i].port = q
        PROVE  Untouched(q)'
    <3>1. CASE i \in DOMAIN toGuest /\ toGuest'[i] = toGuest[i]
      BY <1>9, <2>5, <3>1 DEF CreditInv, RequestedOnce
    <3>2. CASE toGuest'[i] = m
      BY <1>2, <1>5, <1>9, <2>5, <3>2 DEF CreditInv, RequestedOnce
    <3> QED BY <1>6, <3>1, <3>2
  <2> QED BY <2>2, <2>3, <2>4, <2>5 DEF RequestedOnce
<1>11. GuestCount'
  BY <1>4, <1>7, StateTyped DEF CreditInv, GuestCount
<1>12. DataInFlight'
  BY <1>4, <1>7, StateTyped DEF CreditInv, DataInFlight
<1>13. HostBufferNeverOverruns'
  BY <1>7 DEF CreditInv, HostBufferNeverOverruns
<1> QED BY <1>8, <1>10, <1>11, <1>12, <1>13 DEF CreditInv

\* The host takes data: what it then holds still ends below the credit.
LEMMA ArrivalKeepsCredit ==
  ASSUME CreditInv, TypeOK', HostAccepts, incoming.op = "RW"
  PROVE  CreditInv'
<1> DEFINE p == incoming.port
           r == host[p].rcvd + incoming.len
<1>1. /\ toHost \in Seq(GuestPacket) /\ toHost # <<>> /\ toHost' = Tail(toHost)
      /\ 1 \in DOMAIN toHost /\ incoming = toHost[1]
      /\ incoming \in GuestPacket /\ p \in Ports
      /\ incoming.len \in Nat /\ incoming.off \in Nat
  <2>1. toHost \in Seq(GuestPacket) /\ toHost # <<>> /\ toHost' = Tail(toHost)
    BY DEF CreditInv, TypeOK, EndpointTypeOK, HostAccepts, Arrival
  <2>2. 1 \in DOMAIN toHost /\ incoming = toHost[1]
    BY <2>1, HeadTailProperties DEF incoming
  <2> QED BY <2>1, <2>2, StateTyped DEF CreditInv
<1>2. /\ \A i \in DOMAIN toHost' :
           i + 1 \in DOMAIN toHost /\ toHost'[i] = toHost[i + 1]
      /\ \A i \in DOMAIN toHost' : i \in Nat /\ 1 < i + 1
  BY <1>1, TailElements, HeadTailProperties
<1>3. /\ host'[p].rcvd = r /\ host'[p].used = host[p].used
      /\ host'[p].st # "idle"
      /\ \A q \in Ports \ {p} : host'[q] = host[q]
      /\ UNCHANGED <<connections, conn, toGuest>>
  <2> DEFINE e == [host[p] EXCEPT !.st = "open", !.heard = incoming.fwd, !.rcvd = r,
                     !.eof = host[p].eof \/ incoming.op = "SHUTDOWN"]
  <2>1. host' = [host EXCEPT ![p] = e] /\ UNCHANGED guestVars /\ toGuest' = toGuest
    BY DEF HostAccepts
  <2>2. e.rcvd = r /\ e.used = host[p].used /\ e.st = "open"
    <3>1. host[p] \in HostEnd
      BY <1>1, StateTyped DEF CreditInv
    <3> HIDE DEF p, r
    <3> QED BY <3>1 DEF HostEnd
  <2>3. host \in [Ports -> HostEnd]
    BY DEF CreditInv, TypeOK
  <2> HIDE DEF p, r, e
  <2> QED BY <1>1, <2>1, <2>2, <2>3 DEF guestVars
<1>4. /\ host[p].rcvd \in Nat /\ host[p].used \in Nat /\ r \in Nat
      /\ host[p].rcvd <= r
  BY <1>1, StateTyped DEF CreditInv
<1>5. /\ host[p].rcvd <= incoming.off
      /\ incoming.off + incoming.len <= host[p].used + PeerBuf
  BY <1>1 DEF CreditInv, DataInFlight
<1>6. r <= incoming.off + incoming.len /\ r <= host[p].used + PeerBuf
  <2>1. \A x, y, l, u \in Nat : x <= y /\ y + l <= u => x + l <= y + l /\ x + l <= u
    OBVIOUS
  <2>2. host[p].used + PeerBuf \in Nat
    BY <1>4
  <2> HIDE DEF p
  <2> QED BY <1>1, <1>4, <1>5, <2>1, <2>2
<1>7. ~Untouched(p)
  BY <1>1 DEF Untouched
<1> HIDE DEF p, r
<1>8. PeerKnown'
  <2>1. ASSUME NEW q \in Ports
        PROVE  host'[q].used = host[q].used
    BY <1>3
  <2> QED BY <1>3, <2>1, StateTyped DEF CreditInv, PeerKnown
<1>9. RequestedOnce'
  <2>1. ASSUME NEW q \in Ports, Untouched(q)
        PROVE  Untouched(q)'
    BY <1>2, <1>3, <1>7, <2>1 DEF Untouched
  <2>2. ASSUME NEW q \in Ports, host'[q].st = "idle"
        PROVE  Untouched(q)'
    BY <1>3, <2>1, <2>2 DEF CreditInv, RequestedOnce
  <2>3. \A i \in DOMAIN toGuest' : host'[toGuest'[i].port].st # "idle"
    BY <1>3, StateTyped DEF CreditInv, RequestedOnce
  <2> QED BY <1>3, <2>1, <2>2, <2>3 DEF CreditInv, RequestedOnce
<1>10. GuestCount'
  <2>1. ASSUME NEW k \in connections, NEW i \in DOMAIN toHost',
               toHost'[i].op = "RW", toHost'[i].port = k
        PROVE  toHost'[i].off + toHost'[i].len <= conn[k].txCount
    BY <1>2, <2>1 DEF CreditInv, GuestCount
  <2>2. ASSUME NEW k \in connections
        PROVE  /\ conn[k].sent = conn[k].txCount
               /\ conn[k].txCount <= host[k].used + PeerBuf
               /\ host[k].rcvd <= conn[k].txCount
    BY DEF CreditInv, GuestCount
  <2>3. ASSUME p \in connections
        PROVE  r <= conn[p].txCount
    <3>1. incoming.off + incoming.len <= conn[p].txCount
      BY <1>1, <2>3 DEF p, CreditInv, GuestCount
    <3>2. conn[p].txCount \in Nat
      BY <2>3, StateTyped DEF CreditInv, Connection
    <3> QED BY <1>1, <1>4, <1>6, <3>1, <3>2
  <2>4. ASSUME NEW k \in connections
        PROVE  /\ host'[k].used = host[k].used
               /\ host'[k].rcvd <= conn[k].txCount
    BY <1>3, <2>2, <2>3, StateTyped DEF CreditInv
  <2> QED BY <1>3, <2>1, <2>2, <2>4 DEF GuestCount
<1>11. DataInFlight'
  <2>1. ASSUME NEW i \in DOMAIN toHost', toHost'[i].op = "RW"
        PROVE  /\ host'[toHost'[i].port].rcvd <= toHost'[i].off
               /\ toHost'[i].off + toHost'[i].len
                    <= host'[toHost'[i].port].used + PeerBuf
    <3> DEFINE j == i + 1
    <3>1. j \in DOMAIN toHost /\ 1 < j /\ toHost'[i] = toHost[j]
          /\ toHost[j].op = "RW"
      BY <1>2, <2>1
    <3> HIDE DEF j
    <3>2. /\ host[toHost[j].port].rcvd <= toHost[j].off
          /\ toHost[j].off + toHost[j].len
               <= host[toHost[j].port].used + PeerBuf
          /\ toHost[j].port \in Ports /\ toHost[j].off \in Nat
      BY <3>1, StateTyped DEF CreditInv, DataInFlight
    <3>3. CASE toHost[j].port # p
      BY <1>3, <3>1, <3>2, <3>3
    <3>4. CASE toHost[j].port = p
      <4>1. incoming.off + incoming.len <= toHost[j].off
        BY <1>1, <3>1, <3>4 DEF p, CreditInv, DataInFlight
      <4>2. r <= toHost[j].off
        BY <1>1, <1>4, <1>6, <3>2, <4>1
      <4> QED BY <1>3, <3>1, <3>2, <3>4, <4>2
    <3> QED BY <3>3, <3>4
  <2>2. ASSUME NEW i \in DOMAIN toHost', NEW j \in DOMAIN toHost', i < j,
               toHost'[i].op = "RW", toHost'[j].op = "RW",
               toHost'[i].port = toHost'[j].port
        PROVE  toHost'[i].off + toHost'[i].len <= toHost'[j].off
    <3>1. /\ i + 1 \in DOMAIN toHost /\ toHost'[i] = toHost[i + 1]
          /\ j + 1 \in DOMAIN toHost /\ toHost'[j] = toHost[j + 1]
          /\ i + 1 < j + 1
      BY <1>2, <2>2
    <3> QED BY <2>2, <3>1 DEF CreditInv, DataInFlight
  <2> QED BY <2>1, <2>2 DEF DataInFlight
<1>12. HostBufferNeverOverruns'
  <2>1. r - host[p].used <= PeerBuf
    BY <1>4, <1>6
  <2> QED BY <1>3, <2>1 DEF CreditInv, HostBufferNeverOverruns
<1> QED BY <1>8, <1>9, <1>10, <1>11, <1>12 DEF CreditInv

\* Every other step of the host leaves the data where it is.
LEMMA SendingKeeps ==
  ASSUME CreditInv, NEW p \in Ports, NEW m \in HostPacket, NEW end \in HostEnd,
         HostSends(m, end), m.port = p, m.op # "REQUEST", m.alloc = PeerBuf,
         m.fwd = host[p].used, host[p].st # "idle", end.st # "idle",
         end.rcvd = host[p].rcvd, end.used = host[p].used
  PROVE  DataKept(0) /\ PacketsKept(0) /\ StreamsKept /\ HostKept
<1> DEFINE new == [end EXCEPT !.told = m.fwd]
<1>1. /\ toGuest' = Append(toGuest, m) /\ host' = [host EXCEPT ![p] = new]
      /\ UNCHANGED <<connections, conn, toHost>>
  BY DEF HostSends, guestVars
<1>2. new.st # "idle" /\ new.rcvd = host[p].rcvd /\ new.used = host[p].used
  BY DEF HostEnd
<1> HIDE DEF new
<1>3. HostKept
  BY <1>1, <1>2, StateTyped DEF HostKept, CreditInv, TypeOK
<1>4. DataKept(0)
  BY <1>1, StateTyped DEF DataKept, CreditInv
<1>5. StreamsKept
  BY <1>1 DEF StreamsKept, CreditInv, PeerKnown
<1>6. PacketsKept(0)
  <2>1. \A i \in DOMAIN toGuest' :
          \/ i \in DOMAIN toGuest /\ toGuest'[i] = toGuest[i]
          \/ i = Len(toGuest) + 1 /\ toGuest'[i] = m
    BY <1>1, AppendElements DEF CreditInv, TypeOK, EndpointTypeOK
  <2>2. m.fwd <= host[m.port].used
    BY StateTyped DEF CreditInv
  <2> QED BY <2>1, <2>2, StateTyped DEF PacketsKept, CreditInv
<1> QED BY <1>3, <1>4, <1>5, <1>6

LEMMA HostKeepsCredit ==
  ASSUME CreditInv, TypeOK', Host
  PROVE  CreditInv'
<1> USE DEF HostOps
<1>1. TypeOK /\ \A p \in Ports : host[p] \in HostEnd
  BY StateTyped DEF CreditInv
<1>2. ASSUME NEW p \in Ports, NEW op \in HostOps \ {"REQUEST"}
      PROVE  /\ HostMessage(p, op) \in HostPacket
             /\ HostMessage(p, op).port = p /\ HostMessage(p, op).op = op
             /\ HostMessage(p, op).alloc = PeerBuf
             /\ HostMessage(p, op).fwd = host[p].used
  BY <1>1, HostMessageTyped DEF HostMessage
<1>3. ASSUME NEW p \in Ports, NEW m \in HostPacket, NEW end \in HostEnd,
             HostSends(m, end), m.port = p, m.op # "REQUEST", m.alloc = PeerBuf,
             m.fwd = host[p].used, host[p].st # "idle", end.st # "idle",
             end.rcvd = host[p].rcvd, end.used = host[p].used
      PROVE  CreditInv'
  BY <1>3, SendingKeeps, CreditKept
<1>4. ASSUME NEW p \in Ports, HostConnect(p)
      PROVE  CreditInv'
  BY <1>4, ConnectKeepsCredit
<1>5. ASSUME NEW p \in Ports, HostWrite(p)
      PROVE  CreditInv'
  <2>1. PICK n \in 1 .. MaxRequest, ends \in BOOLEAN :
          HostSends([HostMessage(p, "RW") EXCEPT !.len = n, !.fin = ends],
                    [host[p] EXCEPT !.sent = @ + n, !.fin = ends])
    BY <1>5 DEF HostWrite
  <2> DEFINE m == [HostMessage(p, "RW") EXCEPT !.len = n, !.fin = ends]
             end == [host[p] EXCEPT !.sent = @ + n, !.fin = ends]
  <2>2. /\ m \in HostPacket /\ m.port = p /\ m.op = "RW"
        /\ m.alloc = PeerBuf /\ m.fwd = host[p].used
    <3>1. HostMessage(p, "RW") \in HostPacket /\ n \in Nat
      BY <1>2
    <3> QED BY <3>1 DEF HostPacket, HostMessage
  <2>3. host[p].st = "open"
    BY <1>5 DEF HostWrite
  <2>4. /\ end \in HostEnd /\ end.st = "open"
        /\ end.rcvd = host[p].rcvd /\ end.used = host[p].used
    <3>1. host[p] \in HostEnd /\ host[p].sent + n \in Nat
      BY <1>1 DEF HostEnd
    <3> QED BY <2>3, <3>1 DEF HostEnd
  <2> HIDE DEF m, end
  <2>5. HostSends(m, end)
    BY <2>1 DEF m, end
  <2> QED BY <1>3, <2>2, <2>3, <2>4, <2>5
<1>6. ASSUME NEW p \in Ports, HostRead(p)
      PROVE  CreditInv'
  <2>1. PICK n \in (host[p].used + 1) .. host[p].rcvd :
          /\ host' = [host EXCEPT ![p].used = n]
          /\ UNCHANGED <<connections, conn, toGuest, toHost>>
    BY <1>6 DEF HostRead, guestVars
  <2>2. host[p].used \in Nat /\ host[p].rcvd \in Nat /\ n >= host[p].used
    BY <1>1, StateTyped
  <2>3. HostKept
    BY <1>1, <2>1, <2>2, StateTyped DEF HostKept, TypeOK, HostEnd
  <2>4. DataKept(0) /\ PacketsKept(0) /\ StreamsKept
    BY <1>1, <2>1, StateTyped
       DEF DataKept, PacketsKept, StreamsKept, CreditInv, PeerKnown
  <2> QED BY <2>3, <2>4, CreditKept
<1>7. ASSUME NEW p \in Ports, HostCredit(p)
      PROVE  CreditInv'
  BY <1>1, <1>2, <1>3, <1>7 DEF HostCredit
<1>8. ASSUME NEW p \in Ports, HostControl(p)
      PROVE  CreditInv'
  <2>1. PICK op \in {"CREDIT_REQUEST", "UNKNOWN"} :
          HostSends(HostMessage(p, op), [host[p] EXCEPT !.control = @ + 1])
    BY <1>8 DEF HostControl
  <2> DEFINE end == [host[p] EXCEPT !.control = @ + 1]
  <2>2. /\ end \in HostEnd /\ end.st = host[p].st
        /\ end.rcvd = host[p].rcvd /\ end.used = host[p].used
    <3>1. host[p] \in HostEnd /\ host[p].control + 1 \in Nat
      BY <1>1 DEF HostEnd
    <3> QED BY <3>1 DEF HostEnd
  <2>3. host[p].st = "open"
    BY <1>8 DEF HostControl
  <2> HIDE DEF end
  <2>4. HostSends(HostMessage(p, op), end)
    BY <2>1 DEF end
  <2> QED BY <1>2, <1>3, <2>2, <2>3, <2>4
<1>9. ASSUME NEW p \in Ports, HostShutdown(p)
      PROVE  CreditInv'
  <2>1. PICK kind \in Shutdowns :
          HostSends(HostMessage(p, "SHUTDOWN"), [host[p] EXCEPT !.shut = kind])
    BY <1>9 DEF HostShutdown
  <2> DEFINE end == [host[p] EXCEPT !.shut = kind]
  <2>2. /\ end \in HostEnd /\ end.st = host[p].st
        /\ end.rcvd = host[p].rcvd /\ end.used = host[p].used
    BY <1>1 DEF HostEnd
  <2>3. host[p].st = "open"
    BY <1>9 DEF HostShutdown
  <2> HIDE DEF end
  <2>4. HostSends(HostMessage(p, "SHUTDOWN"), end)
    BY <2>1 DEF end
  <2> QED BY <1>2, <1>3, <2>2, <2>3, <2>4
<1>10. ASSUME NEW p \in Ports, HostAbort(p) \/ HostFinish(p)
       PROVE  CreditInv'
  <2> DEFINE end == [host[p] EXCEPT !.st = "gone"]
  <2>1. /\ end \in HostEnd /\ end.st = "gone"
        /\ end.rcvd = host[p].rcvd /\ end.used = host[p].used
    BY <1>1 DEF HostEnd
  <2>2. HostSends(HostMessage(p, "RST"), end) /\ host[p].st # "idle"
    BY <1>10 DEF HostAbort, HostFinish, Live
  <2> HIDE DEF end
  <2> QED BY <1>2, <1>3, <2>1, <2>2
<1>11. ASSUME Arrival
       PROVE  DataKept(1) /\ incoming.port \in Ports /\ incoming = toHost[1]
                /\ 1 \in DOMAIN toHost
  <2>1. toHost \in Seq(GuestPacket) /\ toHost # <<>> /\ toHost' = Tail(toHost)
    BY <1>1, <1>11 DEF TypeOK, EndpointTypeOK, Arrival
  <2>2. 1 \in DOMAIN toHost /\ incoming = toHost[1]
    BY <2>1, HeadTailProperties DEF incoming
  <2> QED BY <1>1, <2>1, <2>2, TailElements, StateTyped DEF DataKept
<1>12. ASSUME UNCHANGED <<connections, conn, toGuest>>
       PROVE  PacketsKept(0) /\ StreamsKept
  BY <1>1, <1>12, StateTyped
     DEF PacketsKept, StreamsKept, CreditInv, PeerKnown
<1>13. CASE HostIgnores
  <2>1. Arrival /\ host' = host /\ UNCHANGED <<connections, conn, toGuest>>
    BY <1>13 DEF HostIgnores, guestVars, hostVars
  <2>2. HostKept
    BY <2>1, <1>1, StateTyped DEF HostKept
  <2> QED BY <1>11, <1>12, <2>1, <2>2, CreditKept
<1>14. CASE HostRejects
  <2> DEFINE p == incoming.port
             m == HostMessage(p, "RST")
             end == [host[p] EXCEPT !.st = "gone"]
  <2>1. /\ Arrival /\ toGuest' = Append(toGuest, m)
        /\ host' = [host EXCEPT ![p] = end]
        /\ UNCHANGED <<connections, conn>>
    BY <1>14 DEF HostRejects, guestVars
  <2>2. p \in Ports /\ DataKept(1)
    BY <1>11, <2>1
  <2>3. /\ end.st = "gone" /\ end.rcvd = host[p].rcvd
        /\ end.used = host[p].used
    BY <1>1, <2>2 DEF HostEnd
  <2>4. /\ m \in HostPacket /\ m.port = p /\ m.op = "RST"
        /\ m.alloc = PeerBuf /\ m.fwd = host[p].used
    BY <1>2, <2>2
  <2>5. host[p].st # "idle"
    BY <1>14 DEF HostRejects
  <2> HIDE DEF p, m, end
  <2>6. HostKept
    BY <1>1, <2>1, <2>2, <2>3, StateTyped DEF HostKept, TypeOK
  <2>7. PacketsKept(0)
    <3>1. \A i \in DOMAIN toGuest' :
            \/ i \in DOMAIN toGuest /\ toGuest'[i] = toGuest[i]
            \/ i = Len(toGuest) + 1 /\ toGuest'[i] = m
      BY <1>1, <2>1, <2>4, AppendElements DEF TypeOK, EndpointTypeOK
    <3>2. m.fwd <= host[m.port].used
      BY <1>1, <2>2, <2>4, StateTyped
    <3> QED BY <1>1, <2>4, <2>5, <3>1, <3>2, StateTyped DEF PacketsKept
  <2>8. StreamsKept
    BY <2>1 DEF StreamsKept, CreditInv, PeerKnown
  <2> QED BY <2>2, <2>6, <2>7, <2>8, CreditKept
<1>15. CASE HostAccepts
  <2>1. CASE incoming.op = "RW"
    BY <1>15, <2>1, ArrivalKeepsCredit
  <2>2. CASE incoming.op # "RW"
    <3> DEFINE p == incoming.port
    <3>1. Arrival /\ UNCHANGED <<connections, conn, toGuest>>
      BY <1>15 DEF HostAccepts, guestVars
    <3>2. p \in Ports /\ host[p] \in HostEnd /\ DataKept(1)
      BY <1>1, <1>11, <3>1
    <3>3. PICK st \in {"gone", "open"}, h \in Nat, f \in BOOLEAN :
            host' = [host EXCEPT ![p] = [host[p] EXCEPT
                       !.st = st, !.heard = h, !.rcvd = host[p].rcvd, !.eof = f]]
      <4>1. /\ host[p].heard \in Nat /\ host[p].eof \in BOOLEAN
            /\ incoming.fwd \in Nat
        <5>1. incoming \in GuestPacket
          BY <1>1, <1>11, <3>1, StateTyped
        <5> HIDE DEF p
        <5> QED BY <3>2, <5>1 DEF HostEnd, GuestPacket
      <4> DEFINE st == IF incoming.op = "RST" THEN "gone" ELSE "open"
                 h == IF incoming.op = "RST" THEN host[p].heard ELSE incoming.fwd
                 f == host[p].eof \/ incoming.op = "SHUTDOWN"
      <4>2. st \in {"gone", "open"} /\ h \in Nat /\ f \in BOOLEAN
        BY <4>1
      <4>3. host' = [host EXCEPT ![p] = [host[p] EXCEPT
                       !.st = st, !.heard = h, !.rcvd = host[p].rcvd, !.eof = f]]
        BY <1>15, <2>2 DEF HostAccepts
      <4> HIDE DEF st, h, f, p
      <4> QED BY <4>2, <4>3
    <3> HIDE DEF p
    <3>4. HostKept
      BY <1>1, <3>2, <3>3, StateTyped DEF HostKept, TypeOK, HostEnd
    <3> QED BY <1>12, <3>1, <3>2, <3>4, CreditKept
  <2> QED BY <2>1, <2>2
<1>16. CASE TransportReset
  <2>1. UNCHANGED <<connections, conn, toGuest, toHost>>
    BY <1>16 DEF TransportReset, guestVars
  <2>2. HostKept
    BY <1>1, <1>16, StateTyped DEF TransportReset, HostKept, Live, HostEnd
  <2>3. DataKept(0)
    BY <1>1, <2>1, StateTyped DEF DataKept
  <2> QED BY <1>12, <2>1, <2>2, <2>3, CreditKept
<1> QED
  BY <1>4, <1>5, <1>6, <1>7, <1>8, <1>9, <1>10, <1>13, <1>14, <1>15, <1>16
     DEF Host, HostActs, HostReceive

LEMMA GuestKeepsCredit ==
  ASSUME CreditInv, TypeOK', Guest
  PROVE  CreditInv'
<1>1. TypeOK /\ connections \subseteq Ports
  BY StateTyped DEF CreditInv
<1>2. ASSUME UNCHANGED hostVars
      PROVE  HostKept
  BY <1>1, <1>2, StateTyped DEF HostKept, hostVars
<1>3. ASSUME UNCHANGED toGuest
      PROVE  PacketsKept(0)
  BY <1>1, <1>3, StateTyped DEF PacketsKept
<1>4. ASSUME UNCHANGED toHost
      PROVE  DataKept(0)
  BY <1>1, <1>4, StateTyped DEF DataKept
<1>5. ASSUME UNCHANGED <<connections, conn>>
      PROVE  StreamsKept
  BY <1>5 DEF StreamsKept, CreditInv, PeerKnown
<1>6. CASE Handle /\ UNCHANGED hostVars
  <2>1. CASE HandleRequest
    BY <1>6, <2>1, RequestKeepsCredit
  <2>2. CASE ~HandleRequest
    <3>1. PacketsKept(1)
      BY <1>6, HandleTakes, TakenPacket
    <3>2. DataKept(0) /\ StreamsKept /\ HostKept
      BY <1>6, <2>2, HandleKeeps
    <3> QED BY <3>1, <3>2, CreditKept
  <2> QED BY <2>1, <2>2
<1>7. CASE Drain /\ UNCHANGED hostVars
  <2>1. PICK k \in Ports :
          \/ DrainChunk(k) \/ DrainFull(k) \/ DrainShutdown(k)
          \/ DrainReset(k) \/ DrainSkip(k)
    BY <1>7 DEF Drain
  <2>2. conn[k] \in Connection /\ conn[k].rxFwd \in Nat
    BY <1>1, StateTyped DEF Connection
  <2>3. HostKept
    BY <1>2, <1>7
  <2>4. CASE DrainChunk(k)
    BY <1>7, <2>4, ChunkKeepsCredit
  <2>5. CASE DrainFull(k) \/ DrainSkip(k)
    BY <1>3, <1>4, <1>5, <2>3, <2>5, CreditKept DEF DrainFull, DrainSkip
  <2>6. CASE DrainShutdown(k)
    <3>1. Reply(k, "SHUTDOWN") \in GuestPacket /\ Reply(k, "SHUTDOWN").op # "RW"
      BY <2>2 DEF Reply, GuestPacket, GuestOps
    <3>2. DataKept(0)
      BY <1>1, <2>6, <3>1, NoDataSent DEF DrainShutdown, Emit
    <3>3. /\ conn' = [conn EXCEPT ![k].closing = TRUE]
          /\ UNCHANGED <<connections, toGuest>>
      BY <2>6 DEF DrainShutdown
    <3>4. /\ conn \in [Ports -> Connection]
          /\ \A q \in connections :
               conn[q].peerAlloc = PeerBuf /\ conn[q].peerFwd <= host[q].used
      BY DEF CreditInv, TypeOK, EndpointTypeOK, PeerKnown
    <3>5. StreamsKept
      BY <2>2, <3>3, <3>4 DEF StreamsKept, Connection
    <3> QED BY <1>3, <2>3, <3>2, <3>3, <3>5, CreditKept
  <2>7. CASE DrainReset(k)
    <3>1. Reply(k, "RST") \in GuestPacket /\ Reply(k, "RST").op # "RW"
      BY <2>2 DEF Reply, GuestPacket, GuestOps
    <3>2. DataKept(0)
      BY <1>1, <2>7, <3>1, NoDataSent DEF DrainReset, Emit
    <3>3. /\ connections' = connections \ {k}
          /\ conn' = [conn EXCEPT ![k] = NoConnection]
          /\ UNCHANGED toGuest
      BY <2>7 DEF DrainReset, Forget
    <3>4. StreamsKept
      BY <1>1, <3>3 DEF StreamsKept, CreditInv, PeerKnown
    <3> QED BY <1>3, <2>3, <3>2, <3>3, <3>4, CreditKept
  <2> QED BY <2>1, <2>4, <2>5, <2>6, <2>7
<1>8. CASE PollDrain /\ UNCHANGED hostVars
  BY <1>2, <1>3, <1>4, <1>5, <1>8, CreditKept DEF PollDrain
<1>9. CASE GuestEvent
  <2>1. connections' = {} /\ UNCHANGED <<toGuest, toHost, host>>
    BY <1>9 DEF GuestEvent, ResetAll
  <2>2. StreamsKept /\ HostKept
    BY <1>1, <2>1, StateTyped DEF StreamsKept, HostKept
  <2> QED BY <1>3, <1>4, <2>1, <2>2, CreditKept
<1> QED BY <1>6, <1>7, <1>8, <1>9 DEF Guest

\* The credit protocol: what the host buffers never exceeds what it advertised,
\* for every number of streams, limit of Drain and age of the credit in use.
THEOREM CreditIsRespected == Spec => []HostBufferNeverOverruns
<1>1. Init => CreditInv
  <2> SUFFICES ASSUME Init PROVE CreditInv
    OBVIOUS
  <2>1. TypeOK
    <3>1. NoConnection \in Connection /\ NewEnd \in HostEnd
      BY DEF NoConnection, Connection, NewEnd, HostEnd
    <3> QED BY <3>1 DEF Init, EndpointInit, TypeOK, EndpointTypeOK
  <2>2. \A p \in Ports : host[p] = NewEnd
    BY DEF Init
  <2>3. /\ connections = {} /\ toGuest = << >> /\ toHost = << >>
        /\ \A p \in Ports : Untouched(p)
    BY <2>2 DEF Init, EndpointInit, Untouched, NewEnd
  <2>4. HostBufferNeverOverruns
    BY <2>2 DEF HostBufferNeverOverruns, NewEnd
  <2> QED BY <2>1, <2>3, <2>4
       DEF CreditInv, PeerKnown, RequestedOnce, GuestCount, DataInFlight
<1>2. ASSUME CreditInv, [Next]_vars, TypeOK'
      PROVE  CreditInv'
  <2>1. CASE Guest
    BY <1>2, <2>1, GuestKeepsCredit
  <2>2. CASE Host
    BY <1>2, <2>2, HostKeepsCredit
  <2>3. CASE UNCHANGED vars
    <3>1. UNCHANGED <<connections, conn, toGuest, toHost, host>>
      BY <2>3 DEF vars, guestVars, hostVars
    <3>2. DataKept(0) /\ PacketsKept(0) /\ StreamsKept /\ HostKept
      BY <1>2, <3>1, StateTyped DEF DataKept, PacketsKept, StreamsKept,
         HostKept, CreditInv, PeerKnown
    <3> QED BY <1>2, <3>2, CreditKept
  <2> QED BY <1>2, <2>1, <2>2, <2>3 DEF Next
<1>3. CreditInv => HostBufferNeverOverruns
  BY DEF CreditInv
<1>4. Spec => []TypeOK
  BY TypesHold
<1> QED BY <1>1, <1>2, <1>3, <1>4, PTL DEF Spec
=============================================================================
