----------------------------- MODULE VsockStream -----------------------------
(***************************************************************************)
(* The endpoint and the host at the two ends of the VirtIO queues.  The    *)
(* host (the VMM's vsock device and the HTTP client behind it) is not part *)
(* of this repository: it is modelled from the packets Endpoint.Handle     *)
(* accepts and those protocol_test.go sends and expects.  It opens a       *)
(* stream from a port it has not used before, respects the credit the      *)
(* guest advertises, may stop, shut down or abort at any time, and answers *)
(* RST to a packet of a stream it no longer has.                           *)
(***************************************************************************)
EXTENDS VsockEndpoint

CONSTANTS
  PeerBuf,     \* the host's receive buffer, the buf_alloc it advertises
  MaxRequest,  \* bound: units the host sends on one stream
  MaxControl,  \* bound: credit requests and unknown operations per stream
  MaxEvents,   \* bound: transport resets
  RxDepth,     \* bound: packets in the receive queue and its buffers
  Shutdowns    \* the shutdowns the host sends: "half" (send side), "full"

ASSUME StreamAssumption ==
  /\ PeerBuf \in Nat \ {0}
  /\ MaxRequest \in Nat
  /\ MaxControl \in Nat
  /\ MaxEvents \in Nat
  /\ RxDepth \in Nat \ {0}
  /\ Shutdowns \subseteq {"half", "full"}

VARIABLES
  host,    \* the host's end of every stream
  events,  \* transport reset events the guest has not read
  resets   \* transport resets so far

hostVars == <<host, events, resets>>
vars == <<guestVars, toGuest, toHost, hostVars>>

\* right says that the stream is for the guest's port; sent counts units of
\* the request, fin whether its header is complete,
\* heard the guest's last fwd_cnt; rcvd and used the units of the answer
\* received and read by the client, told the last fwd_cnt sent; shut is the
\* host's shutdown, eof the guest's.
HostEnd ==
  [st : {"idle", "connecting", "open", "gone"}, right : BOOLEAN,
   sent : Nat, fin : BOOLEAN, heard : Nat, rcvd : Nat, used : Nat, told : Nat,
   shut : {"no"} \cup Shutdowns, eof : BOOLEAN, control : Nat]

NewEnd ==
  [st |-> "idle", right |-> TRUE, sent |-> 0, fin |-> FALSE, heard |-> 0,
   rcvd |-> 0, used |-> 0, told |-> 0, shut |-> "no", eof |-> FALSE,
   control |-> 0]

Live(p) == host[p].st \in {"connecting", "open"}

------------------------------------------------------------------------------
(* The host.  A step of the host never falls inside a call of the guest,   *)
(* which sees the host only through the packet it took and whose packets   *)
(* leave when it returns.                                                  *)

HostMessage(p, op) ==
  [op |-> op, port |-> p, here |-> host[p].right, len |-> 0, fin |-> host[p].fin,
   alloc |-> PeerBuf, fwd |-> host[p].used]

\* Every packet carries fwd_cnt, so the host has told all it used.
HostSends(m, end) ==
  /\ Quiet /\ Len(toGuest) < RxDepth
  /\ toGuest' = Append(toGuest, m)
  /\ host' = [host EXCEPT ![m.port] = [end EXCEPT !.told = m.fwd]]
  /\ UNCHANGED <<guestVars, toHost, events, resets>>

\* A stream to a guest port nobody listens on is here = FALSE.
HostConnect(p) ==
  /\ host[p].st = "idle"
  /\ \E right \in BOOLEAN :
       HostSends([HostMessage(p, "REQUEST") EXCEPT !.here = right],
                 [host[p] EXCEPT !.st = "connecting", !.right = right])

HostWrite(p) ==
  /\ host[p].st = "open" /\ host[p].shut = "no"
  /\ \E n \in 1 .. MaxRequest, ends \in BOOLEAN :
       /\ host[p].sent + n <= MaxRequest
       /\ host[p].sent + n - host[p].heard <= BufferLen
       /\ host[p].fin => ends
       /\ HostSends([HostMessage(p, "RW") EXCEPT !.len = n, !.fin = ends],
                    [host[p] EXCEPT !.sent = @ + n, !.fin = ends])

HostRead(p) ==
  /\ Quiet /\ host[p].st = "open"
  /\ \E n \in (host[p].used + 1) .. host[p].rcvd :
       host' = [host EXCEPT ![p].used = n]
  /\ UNCHANGED <<guestVars, toGuest, toHost, events, resets>>

HostCredit(p) ==
  /\ host[p].st = "open" /\ host[p].told < host[p].used
  /\ HostSends(HostMessage(p, "CREDIT_UPDATE"), host[p])

HostControl(p) ==
  /\ host[p].st = "open" /\ host[p].control < MaxControl
  /\ \E op \in {"CREDIT_REQUEST", "UNKNOWN"} :
       HostSends(HostMessage(p, op), [host[p] EXCEPT !.control = @ + 1])

HostShutdown(p) ==
  /\ host[p].st = "open"
  /\ \E kind \in Shutdowns :
       /\ host[p].shut = "no" \/ (host[p].shut = "half" /\ kind = "full")
       /\ HostSends(HostMessage(p, "SHUTDOWN"), [host[p] EXCEPT !.shut = kind])

\* The client is killed, or gives up on the connection.
HostAbort(p) ==
  /\ Live(p)
  /\ HostSends(HostMessage(p, "RST"), [host[p] EXCEPT !.st = "gone"])

\* The stream ended in both directions: the host releases it.
HostFinish(p) ==
  /\ host[p].st = "open"
  /\ (host[p].eof /\ host[p].used = host[p].rcvd) \/ host[p].shut = "full"
  /\ HostSends(HostMessage(p, "RST"), [host[p] EXCEPT !.st = "gone"])

incoming == Head(toHost)
Arrival == Quiet /\ toHost # <<>> /\ toHost' = Tail(toHost)

HostIgnores ==
  /\ Arrival /\ incoming.op = "RST" /\ ~Live(incoming.port)
  /\ UNCHANGED <<guestVars, toGuest, hostVars>>

\* A packet of a stream that is gone, or anything but the two answers to a
\* REQUEST.
HostRejects ==
  LET p == incoming.port IN
  /\ Arrival /\ incoming.op # "RST"
  /\ \/ host[p].st = "gone"
     \/ host[p].st = "connecting" /\ incoming.op # "RESPONSE"
  /\ Len(toGuest) < RxDepth
  /\ toGuest' = Append(toGuest, HostMessage(p, "RST"))
  /\ host' = [host EXCEPT ![p].st = "gone"]
  /\ UNCHANGED <<guestVars, events, resets>>

HostAccepts ==
  LET p == incoming.port e == host[p] IN
  /\ Arrival
  /\ \/ e.st = "open"
     \/ e.st = "connecting" /\ incoming.op \in {"RESPONSE", "RST"}
  /\ host' = [host EXCEPT ![p] =
       [e EXCEPT
          !.st = IF incoming.op = "RST" THEN "gone" ELSE "open",
          !.heard = IF incoming.op = "RST" THEN e.heard ELSE incoming.fwd,
          !.rcvd = IF incoming.op = "RW" THEN e.rcvd + incoming.len ELSE e.rcvd,
          !.eof = e.eof \/ incoming.op = "SHUTDOWN"]]
  /\ UNCHANGED <<guestVars, toGuest, events, resets>>

\* The transport is interrupted: the host forgets its streams and says so on
\* the event queue only.
TransportReset ==
  /\ Quiet /\ resets < MaxEvents
  /\ resets' = resets + 1 /\ events' = events + 1
  /\ host' = [p \in Ports |->
                IF Live(p) THEN [host[p] EXCEPT !.st = "gone"] ELSE host[p]]
  /\ UNCHANGED <<guestVars, toGuest, toHost>>

------------------------------------------------------------------------------
\* The guest side of the event queue: Serve reads one event.
GuestEvent ==
  /\ events > 0 /\ events' = events - 1
  /\ ResetAll
  /\ UNCHANGED <<host, resets>>

Guest ==
  \/ (Handle \/ Drain \/ PollDrain) /\ UNCHANGED hostVars
  \/ GuestEvent

HostReceive == HostIgnores \/ HostRejects \/ HostAccepts

HostActs ==
  \/ \E p \in Ports :
       \/ HostConnect(p) \/ HostWrite(p) \/ HostRead(p) \/ HostCredit(p)
       \/ HostControl(p) \/ HostShutdown(p) \/ HostAbort(p) \/ HostFinish(p)
  \/ TransportReset

Host == HostActs \/ HostReceive

Init ==
  /\ EndpointInit
  /\ host = [p \in Ports |-> NewEnd]
  /\ events = 0 /\ resets = 0

Next == Guest \/ Host

Spec == Init /\ [][Next]_vars

\* Serve never stops polling; the host's device keeps taking packets, and its
\* client keeps reading, telling what it read and closing what has ended.
\* Nobody has to connect, write, shut down or abort.
Fairness ==
  /\ WF_vars(Guest)
  /\ WF_vars(HostReceive)
  /\ \A p \in Ports :
       WF_vars(HostRead(p)) /\ WF_vars(HostCredit(p)) /\ WF_vars(HostFinish(p))

FairSpec == Spec /\ Fairness

------------------------------------------------------------------------------
\* The promise to the client, read off the host's end and the handler's answer.
Phase(p) ==
  IF host[p].st \in {"idle", "connecting"} THEN "closed"
  ELSE IF host[p].st = "gone" THEN "over"
  ELSE IF host[p].eof THEN "ended" ELSE "open"

Service ==
  INSTANCE StreamService WITH
    Streams <- Ports,
    phase <- [p \in Ports |-> Phase(p)],
    total <- answer,
    got <- [p \in Ports |-> host[p].rcvd]

\* The endpoint with its host implements the stream service: an answer is
\* produced once, delivered in order, and ended only when complete.
ImplementsService == Service!Spec

------------------------------------------------------------------------------
TypeOK ==
  /\ EndpointTypeOK
  /\ host \in [Ports -> HostEnd]
  /\ events \in Nat /\ resets \in Nat

\* The packets of stream p in flight to the host, and those carrying data.
ToHost(p) == SelectSeq(toHost, LAMBDA m : m.port = p)
DataToHost(p) == SelectSeq(toHost, LAMBDA m : m.port = p /\ m.op = "RW")
ToGuest(p) == SelectSeq(toGuest, LAMBDA m : m.port = p)

Has(packets, op) == \E i \in DOMAIN packets : packets[i].op = op

\* The host's receive buffer never overflows: however stale the fwd_cnt
\* sendSpace works with, what is sent is at most what was advertised.
HostBufferNeverOverruns ==
  \A p \in Ports : host[p].rcvd - host[p].used <= PeerBuf

\* The data in flight continues what the host received, with no gap and no
\* repetition across the limits of Drain and the stalls for credit, and none
\* of it comes after the guest's SHUTDOWN.
StreamIntact ==
  \A p \in Ports : host[p].st = "open" =>
    LET d == DataToHost(p) IN
    /\ \A i \in DOMAIN d :
         d[i].off = IF i = 1 THEN host[p].rcvd ELSE d[i-1].off + d[i-1].len
    /\ host[p].eof => d = <<>>
    /\ \A i, j \in DOMAIN ToHost(p) :
         /\ ToHost(p)[i].op = "SHUTDOWN" /\ i < j
         => ToHost(p)[j].op \notin {"RW", "SHUTDOWN"}

\* The host takes the guest's SHUTDOWN for the end of the answer: where the
\* stream ends, everything Handler returned has been sent.
EndMeansComplete ==
  \A p \in Ports :
    LET d == DataToHost(p) IN
    /\ host[p].eof => answer[p] > 0 /\ host[p].rcvd = answer[p]
    /\ Has(ToHost(p), "SHUTDOWN") /\ host[p].st = "open" =>
         /\ answer[p] > 0
         /\ answer[p] = IF d = <<>> THEN host[p].rcvd
                        ELSE d[Len(d)].off + d[Len(d)].len

\* A map entry, one of MaxConns, whose host end is gone is on its way out: the
\* guest will take a RST of it, or a packet of it will make the host send one,
\* or a transport reset is pending.
NoOrphan ==
  \A k \in connections :
    \/ Live(k)
    \/ Has(ToGuest(k), "RST")
    \/ ToHost(k) # <<>>
    \/ events > 0

\* The host is never left waiting on a stream the guest has dropped: the
\* guest's RST is on its way to it.  (Endpoint.Reset tells nobody.)
ForgottenHostIsTold ==
  resets = 0 =>
    \A p \in Ports \ connections :
      Live(p) => Has(ToHost(p), "RST") \/ Has(ToGuest(p), "REQUEST")
                   \/ Has(ToGuest(p), "RST")

\* While a request is incomplete every unit of it is credited back, so a client
\* that writes in pieces regains its whole window once the queues are empty.
RequestCreditReturns ==
  \A k \in connections :
    (/\ host[k].st = "open" /\ ~conn[k].answered
     /\ ToHost(k) = <<>> /\ ToGuest(k) = <<>>)
    => host[k].heard = host[k].sent

\* An answer not fully sent is given up only when the stream is torn down by
\* the packet just taken (its RST, an operation the endpoint does not know,
\* more request than fits) or by a transport reset: Drain never drops it, and
\* neither does a host that merely shuts down.
AnswerIsKept ==
  [][\A k \in connections :
       (conn[k].answered /\ conn[k].sent < conn[k].response
          /\ k \notin connections') =>
         \/ events' < events
         \/ /\ Len(toGuest') < Len(toGuest) /\ packet.port = k
            /\ \/ packet.op \in {"RST", "UNKNOWN"}
               \/ host[k].sent > BufferLen]_vars

\* A host end that has gone gives its place in the map back.
PlacesComeBack ==
  \A p \in Ports : host[p].st = "gone" ~> p \notin connections

\* A complete request on a stream nobody interrupts is answered in full and the
\* stream is ended, whatever the credit stalls on the way.
RequestsAreAnswered ==
  \A p \in Ports :
    (host[p].st = "open" /\ host[p].fin) ~>
      (host[p].eof \/ host[p].st = "gone" \/ host[p].shut # "no")

\* The answers carry "Connection: close": a client that read the whole answer
\* sees the stream end, also when it shut down its own direction first.
ConnectionCloses ==
  \A p \in Ports :
    (host[p].st = "open" /\ answer[p] > 0 /\ host[p].rcvd = answer[p]) ~>
      (host[p].eof \/ host[p].st = "gone" \/ host[p].shut = "full")
=============================================================================
