------------------------------ MODULE DhcpClient ------------------------------
(***************************************************************************)
(* Client.Acquire (kernel/sprnet/dhcp.go): up to four attempts to get a    *)
(* lease over raw Ethernet, each DISCOVER, OFFER, REQUEST, ACK, all with   *)
(* one transaction id and under one deadline.                              *)
(*                                                                         *)
(* The servers and the link are external.  The link is prompt, so time (in *)
(* seconds) passes only when nobody has anything to do; whatever goes      *)
(* wrong on it is a fault, and faults are bounded by MaxFaults: a frame    *)
(* lost or delayed, a refusal, an error of the device.                     *)
(***************************************************************************)
EXTENDS Integers, FiniteSets, Sequences

CONSTANTS
  Servers,     \* DHCP servers on the link, each with an address to give out
  Timeout,     \* Client.Timeout; startInternetNetworking passes 30
  MaxFaults,   \* bound
  MaxForeign,  \* bound: replies to other clients or to other transactions
  Omitted,     \* what a server may leave out: subset of {"id", "mask"}
  Unspecified, \* 0.0.0.0, what the parser returns for an address left out
  Broken       \* a mask that is not a prefix

ASSUME DhcpAssumption ==
  /\ Timeout \in Nat \ {0}
  /\ MaxFaults \in Nat /\ MaxForeign \in Nat
  /\ Omitted \subseteq {"id", "mask"}
  /\ Unspecified \notin Servers /\ Broken \notin Servers
  /\ Broken # Unspecified

VARIABLES
  pc,       \* where Acquire is: see Places
  attempt,  \* attempts begun and given up
  until,    \* deadline of the current waitFor
  offer,    \* the OFFER of this attempt
  lease,    \* the Lease returned
  inbox,    \* frames in the receive queue
  wire,     \* client frames the servers have not handled
  delayed,  \* server frames held up by the link
  bound,    \* history: servers that have bound their address to this client
  now, faults, foreign

clientVars == <<pc, attempt, until, offer, lease>>
linkVars == <<wire, delayed, bound, now, faults, foreign>>
vars == <<clientVars, inbox, linkVars>>

Places == {"discover", "offer", "request", "ack", "leased", "failed"}
Done == pc \in {"leased", "failed"}

\* A server names its own address, the address it gives out and its mask.
Addresses == Servers \cup {Unspecified}
Masks == Addresses \cup {Broken}

\* parseServerFrame: ours says that transaction and MAC are this client's.
Packet == [kind : {"OFFER", "ACK", "NAK"}, ours : BOOLEAN, address : Addresses,
           server : Addresses, mask : Masks]

NoPacket == [kind |-> "OFFER", ours |-> FALSE, address |-> Unspecified,
             server |-> Unspecified, mask |-> Unspecified]

Lease == [address : Addresses, server : Addresses, mask : Masks]

\* The broadcast frames of buildClientFrame, one for each server that hears it.
ClientFrame == [to : Servers, kind : {"DISCOVER", "REQUEST"},
                address : Addresses, server : Addresses]

Broadcast(kind, address, server) ==
  {[to |-> s, kind |-> kind, address |-> address, server |-> server] : s \in Servers}

------------------------------------------------------------------------------
\* Mutant: one attempt fewer.
AttemptsThree == 3
Attempts == 4
OfferWait == 2 ^ (attempt + 1)
RequestWait == 4

\* Mutant: the overall deadline does not cap a wait.
boundedDeadlineUncapped(wait) == now + wait
boundedDeadline(wait) == IF now + wait > Timeout THEN Timeout ELSE now + wait

Fault == faults < MaxFaults /\ faults' = faults + 1

\* `continue`: the next round of Acquire's loop.
GiveUp == pc' = "discover" /\ attempt' = attempt + 1 /\ UNCHANGED <<until, offer, lease>>

MayAttempt == attempt < Attempts /\ now < Timeout

Discover ==
  /\ pc = "discover" /\ MayAttempt
  /\ wire' = wire \cup Broadcast("DISCOVER", Unspecified, Unspecified)
  /\ until' = boundedDeadline(OfferWait)
  /\ pc' = "offer"
  /\ UNCHANGED <<attempt, offer, lease, inbox, delayed, bound, now, faults, foreign>>

Request ==
  /\ pc = "request"
  /\ wire' = wire \cup Broadcast("REQUEST", offer.address, offer.server)
  /\ until' = boundedDeadline(RequestWait)
  /\ pc' = "ack"
  /\ UNCHANGED <<attempt, offer, lease, inbox, delayed, bound, now, faults, foreign>>

TransmitFails ==
  /\ pc = "request" \/ (pc = "discover" /\ MayAttempt)
  /\ Fault /\ GiveUp
  /\ UNCHANGED <<inbox, wire, delayed, bound, now, foreign>>

NoMoreAttempts ==
  /\ pc = "discover" /\ ~MayAttempt
  /\ pc' = "failed"
  /\ UNCHANGED <<attempt, until, offer, lease, inbox, linkVars>>

\* waitFor, called for an OFFER and for an ACK.
Waiting == pc \in {"offer", "ack"}
Wanted == IF pc = "offer" THEN "OFFER" ELSE "ACK"

WaitExpires ==
  /\ Waiting /\ now >= until
  /\ GiveUp
  /\ UNCHANGED <<inbox, linkVars>>

ReceiveFails ==
  /\ Waiting /\ now < until
  /\ Fault /\ GiveUp
  /\ UNCHANGED <<inbox, wire, delayed, bound, now, foreign>>

\* waitFor takes the next frame of the queue.
Receive == Waiting /\ now < until /\ inbox # <<>> /\ inbox' = Tail(inbox)

frame == Head(inbox)

SkipFrame ==
  /\ Receive
  /\ ~frame.ours \/ frame.kind \notin {"NAK", Wanted}
  /\ UNCHANGED <<clientVars, linkVars>>

Rejected ==
  /\ Receive /\ frame.ours /\ frame.kind = "NAK"
  /\ GiveUp
  /\ UNCHANGED linkVars

\* The server field of an OFFER is siaddr or option 54, and a netip.Addr of
\* four bytes is valid whatever they are: the test for it never fails.
TakeOffer ==
  /\ pc = "offer" /\ Receive /\ frame.ours /\ frame.kind = "OFFER"
  /\ offer' = frame
  /\ pc' = "request"
  /\ UNCHANGED <<attempt, until, lease, linkVars>>

\* Mutant: the address of the OFFER is kept.
mergeLeaseOffer(ack) ==
  [address |-> offer.address, server |-> ack.server,
   mask |-> IF ack.mask = Unspecified THEN offer.mask ELSE ack.mask]

mergeLease(ack) ==
  [address |-> IF ack.address = Unspecified THEN offer.address ELSE ack.address,
   server |-> ack.server,
   mask |-> IF ack.mask = Unspecified THEN offer.mask ELSE ack.mask]

\* IPMask.Size of 0.0.0.0 is a prefix of no bits, so only Broken is refused.
TakeAck ==
  /\ pc = "ack" /\ Receive /\ frame.ours /\ frame.kind = "ACK"
  /\ IF mergeLease(frame).mask = Broken
     THEN GiveUp
     ELSE /\ lease' = mergeLease(frame) /\ pc' = "leased"
          /\ UNCHANGED <<attempt, until, offer>>
  /\ UNCHANGED linkVars

Acquire ==
  \/ Discover \/ Request \/ NoMoreAttempts \/ WaitExpires
  \/ SkipFrame \/ Rejected \/ TakeOffer \/ TakeAck

DeviceFails == TransmitFails \/ ReceiveFails

------------------------------------------------------------------------------
(* The servers, the link and the clock.                                    *)

Reply(s, kind) ==
  {[kind |-> kind, ours |-> TRUE, address |-> s, server |-> id, mask |-> m] :
     id \in {s} \cup {Unspecified : x \in Omitted \cap {"id"}},
     m \in {s} \cup {Unspecified : x \in Omitted \cap {"mask"}}}

Deliver(packet) ==
  \/ /\ inbox' = Append(inbox, packet)
     /\ UNCHANGED <<delayed, faults>>
  \/ /\ Fault
     /\ delayed' = delayed \cup {packet}
     /\ UNCHANGED inbox

Takes(s, f) == f \in wire /\ f.to = s /\ wire' = wire \ {f}

ServerOffers(s) ==
  /\ \E f \in wire : Takes(s, f) /\ f.kind = "DISCOVER"
  /\ \E packet \in Reply(s, "OFFER") : Deliver(packet)
  /\ UNCHANGED <<clientVars, bound, now, foreign>>

ServerAcks(s) ==
  /\ \E f \in wire : Takes(s, f) /\ f.kind = "REQUEST" /\ f.server = s
  /\ bound' = bound \cup {s}
  /\ \E packet \in Reply(s, "ACK") : Deliver(packet)
  /\ UNCHANGED <<clientVars, now, foreign>>

\* A refusal, or an ACK whose mask is no prefix; one that is late as well
\* counts as two faults.
ServerErrs(s) ==
  /\ \E f \in wire : Takes(s, f) /\ f.kind = "REQUEST" /\ f.server = s
  /\ \E packet \in Reply(s, "ACK") :
       \E bad \in {[NoPacket EXCEPT !.kind = "NAK", !.ours = TRUE],
                   [packet EXCEPT !.mask = Broken]} :
         /\ bound' = IF bad.kind = "ACK" THEN bound \cup {s} ELSE bound
         /\ \/ /\ faults + 1 <= MaxFaults /\ faults' = faults + 1
               /\ inbox' = Append(inbox, bad) /\ UNCHANGED delayed
            \/ /\ faults + 2 <= MaxFaults /\ faults' = faults + 2
               /\ delayed' = delayed \cup {bad} /\ UNCHANGED inbox
  /\ UNCHANGED <<clientVars, now, foreign>>

\* A server leaves a REQUEST for another server alone.
ServerIgnores(s) ==
  /\ \E f \in wire : Takes(s, f) /\ f.kind = "REQUEST" /\ f.server # s
  /\ UNCHANGED <<clientVars, inbox, delayed, bound, now, faults, foreign>>

Server(s) == ServerOffers(s) \/ ServerAcks(s) \/ ServerErrs(s) \/ ServerIgnores(s)

Lose ==
  /\ Fault
  /\ \E f \in wire : wire' = wire \ {f}
  /\ UNCHANGED <<clientVars, inbox, delayed, bound, now, foreign>>

Release ==
  /\ \E packet \in delayed :
       inbox' = Append(inbox, packet) /\ delayed' = delayed \ {packet}
  /\ UNCHANGED <<clientVars, wire, bound, now, faults, foreign>>

\* An OFFER or an ACK to somebody else's transaction.
ForeignFrame ==
  /\ ~Done /\ foreign < MaxForeign /\ foreign' = foreign + 1
  /\ \E s \in Servers, kind \in {"OFFER", "ACK", "NAK"} :
       \E packet \in Reply(s, kind) :
         inbox' = Append(inbox, [packet EXCEPT !.ours = FALSE])
  /\ UNCHANGED <<clientVars, wire, delayed, bound, now, faults>>

Link == Lose \/ Release \/ ForeignFrame

\* The 2 ms naps of waitFor, seen from the clock.
Tick ==
  /\ Waiting /\ now < until
  /\ inbox = <<>> /\ wire = {}
  /\ now' = now + 1
  /\ UNCHANGED <<clientVars, inbox, wire, delayed, bound, faults, foreign>>

Init ==
  /\ pc = "discover" /\ attempt = 0 /\ until = 0
  /\ offer = NoPacket
  /\ lease = [address |-> Unspecified, server |-> Unspecified, mask |-> Unspecified]
  /\ inbox = <<>> /\ wire = {} /\ delayed = {} /\ bound = {}
  /\ now = 0 /\ faults = 0 /\ foreign = 0

Next == Acquire \/ DeviceFails \/ (\E s \in Servers : Server(s)) \/ Link \/ Tick

Spec == Init /\ [][Next]_vars

\* Acquire's goroutine runs, servers that hear a frame handle it, time passes.
FairSpec ==
  /\ Spec
  /\ WF_vars(Acquire) /\ WF_vars(Tick)
  /\ \A s \in Servers : WF_vars(Server(s))

------------------------------------------------------------------------------
DhcpTypeOK ==
  /\ pc \in Places
  /\ attempt \in 0 .. Attempts
  /\ until \in 0 .. Timeout /\ now \in 0 .. Timeout
  /\ offer \in Packet /\ lease \in Lease
  /\ inbox \in Seq(Packet)
  /\ wire \subseteq ClientFrame /\ delayed \subseteq Packet
  /\ bound \subseteq Servers
  /\ faults \in 0 .. MaxFaults /\ foreign \in 0 .. MaxForeign

\* Every attempt uses one transaction id, so an ACK may answer the REQUEST of
\* an earlier attempt to another server: whatever the client configures is
\* still an address some server has bound to it, with that server's mask.
LeaseIsBound ==
  pc = "leased" => lease.address \in bound /\ lease.mask = lease.address

\* Three faults, of whatever kind and wherever they fall, cost at most three of
\* the four attempts and leave time for the last.
AcquireSucceeds == <>(pc = "leased")

\* "DHCP lease has no valid IPv4 address or subnet mask" (dhcp.go:170): a lease
\* whose mask both the OFFER and the ACK left out is refused.
LeaseHasMask == pc = "leased" => lease.mask # Unspecified
=============================================================================
