-------------------------- MODULE DhcpClientProofs --------------------------
(***************************************************************************)
(* Whatever is lost, late or refused, and however many servers answer, the *)
(* address Acquire returns is one a server has bound to this client.       *)
(***************************************************************************)
EXTENDS DhcpClient, TLAPS

\* An ACK to this client, wherever it is, comes from a server that has bound
\* the address it carries.
Backed(packet) ==
  packet.ours /\ packet.kind = "ACK" =>
    packet.address \in bound /\ packet.mask \in {packet.address, Broken}

\* LeaseIsBound alone is not inductive: TakeAck needs to know of the frame at
\* the head of the queue what Backed says of every frame.
LeaseInv ==
  /\ inbox \in Seq(Packet) /\ delayed \subseteq Packet /\ bound \subseteq Servers
  /\ \A i \in 1 .. Len(inbox) : Backed(inbox[i])
  /\ \A packet \in delayed : Backed(packet)
  /\ LeaseIsBound

\* What a server that sends masks says is one of its packets.
LEMMA ReplyIsPacket ==
  ASSUME NEW s \in Servers, NEW kind \in {"OFFER", "ACK", "NAK"},
         NEW p \in Reply(s, kind), "mask" \notin Omitted
  PROVE  /\ p \in Packet
         /\ p.kind = kind /\ p.address = s /\ p.mask = s
<1>1. PICK id \in {s} \cup {Unspecified : x \in Omitted \cap {"id"}},
           m \in {s} \cup {Unspecified : x \in Omitted \cap {"mask"}} :
        p = [kind |-> kind, ours |-> TRUE, address |-> s, server |-> id, mask |-> m]
  BY DEF Reply
<1>2. id \in Addresses /\ m = s
  BY DEF Addresses
<1>3. QED BY <1>1, <1>2 DEF Packet, Addresses, Masks

\* A frame that joins the queue joins at its end; bound only grows.
LEMMA AppendKeeps ==
  ASSUME LeaseInv, NEW p \in Packet, inbox' = Append(inbox, p),
         bound \subseteq bound', Backed(p)'
  PROVE  /\ inbox' \in Seq(Packet)
         /\ (\A i \in 1 .. Len(inbox) : Backed(inbox[i]))'
<1>1. /\ inbox' \in Seq(Packet) /\ Len(inbox') = Len(inbox) + 1
      /\ Len(inbox) \in Nat
      /\ \A i \in 1 .. Len(inbox) : inbox'[i] = inbox[i]
      /\ inbox'[Len(inbox) + 1] = p
  BY DEF LeaseInv
<1>2. ASSUME NEW i \in 1 .. Len(inbox')
      PROVE  Backed(inbox[i])'
  <2>1. CASE i \in 1 .. Len(inbox)
    BY <1>1, <2>1 DEF Backed, LeaseInv
  <2>2. CASE i = Len(inbox) + 1
    BY <1>1, <2>2 DEF Backed
  <2>3. QED BY <1>1, <1>2, <2>1, <2>2
<1>3. QED BY <1>1, <1>2

\* Taking a frame off the queue leaves the others as they were.
LEMMA TailKeeps ==
  ASSUME LeaseInv, inbox # <<>>, inbox' = Tail(inbox), UNCHANGED bound
  PROVE  /\ inbox' \in Seq(Packet)
         /\ (\A i \in 1 .. Len(inbox) : Backed(inbox[i]))'
         /\ Head(inbox) \in Packet /\ Backed(Head(inbox))
<1>1. /\ inbox' \in Seq(Packet) /\ Len(inbox) \in Nat \ {0}
      /\ Len(inbox') = Len(inbox) - 1
      /\ \A i \in 1 .. Len(inbox') : inbox'[i] = inbox[i + 1]
      /\ Head(inbox) = inbox[1] /\ inbox[1] \in Packet
  BY DEF LeaseInv
<1>2. (\A i \in 1 .. Len(inbox) : Backed(inbox[i]))'
  BY <1>1 DEF Backed, LeaseInv
<1>3. QED BY <1>1, <1>2 DEF LeaseInv

LEMMA LeaseInvInit == Init => LeaseInv
BY DEF Init, LeaseInv, LeaseIsBound, Packet

LEMMA LeaseInvNext ==
  ASSUME "mask" \notin Omitted, LeaseInv, [Next]_vars
  PROVE  LeaseInv'
<1> USE DEF clientVars, linkVars
<1>1. CASE UNCHANGED vars
  BY <1>1 DEF vars, LeaseInv, LeaseIsBound, Backed
<1>2. CASE Discover \/ Request \/ NoMoreAttempts \/ WaitExpires \/ DeviceFails
  BY <1>2 DEF Discover, Request, NoMoreAttempts, WaitExpires, DeviceFails,
     TransmitFails, ReceiveFails, GiveUp, LeaseInv, LeaseIsBound, Backed
<1>3. CASE SkipFrame \/ Rejected \/ TakeOffer
  <2>1. /\ inbox # <<>> /\ inbox' = Tail(inbox) /\ UNCHANGED <<bound, delayed, lease>>
        /\ pc' = "leased" => pc = "leased"
    BY <1>3 DEF SkipFrame, Rejected, TakeOffer, Receive, GiveUp
  <2>2. QED BY <2>1, TailKeeps DEF LeaseInv, LeaseIsBound, Backed
<1>4. CASE TakeAck
  <2>1. /\ inbox # <<>> /\ inbox' = Tail(inbox) /\ UNCHANGED <<bound, delayed>>
    BY <1>4 DEF TakeAck, Receive
  <2>2. LeaseIsBound'
    <3>1. CASE mergeLease(frame).mask = Broken
      BY <1>4, <3>1 DEF TakeAck, GiveUp, LeaseIsBound
    <3>2. CASE mergeLease(frame).mask # Broken
      <4>1. lease' = mergeLease(frame) /\ frame.ours /\ frame.kind = "ACK"
        BY <1>4, <3>2 DEF TakeAck
      <4>2. frame.address \in bound /\ frame.mask \in {frame.address, Broken}
        BY <2>1, <4>1, TailKeeps DEF Backed, frame
      <4>3. frame.address # Unspecified /\ frame.mask # Unspecified
        BY <4>2, DhcpAssumption DEF LeaseInv
      <4>4. QED BY <2>1, <3>2, <4>1, <4>2, <4>3 DEF mergeLease, LeaseIsBound
    <3>3. QED BY <3>1, <3>2
  <2>3. QED BY <2>1, <2>2, TailKeeps DEF LeaseInv, Backed
<1>5. ASSUME NEW s \in Servers, ServerOffers(s)
      PROVE  LeaseInv'
  <2>1. PICK p \in Reply(s, "OFFER") : Deliver(p)
    BY <1>5 DEF ServerOffers
  <2>2. p \in Packet /\ p.kind = "OFFER"
    BY ReplyIsPacket
  <2>3. UNCHANGED <<bound, pc, lease>>
    BY <1>5 DEF ServerOffers
  <2>4. Backed(p)' /\ LeaseIsBound'
    BY <2>2, <2>3 DEF Backed, LeaseInv, LeaseIsBound
  <2>5. CASE inbox' = Append(inbox, p) /\ UNCHANGED delayed
    BY <2>2, <2>3, <2>4, <2>5, AppendKeeps DEF LeaseInv, Backed
  <2>6. CASE delayed' = delayed \cup {p} /\ UNCHANGED inbox
    BY <2>2, <2>3, <2>4, <2>6 DEF LeaseInv, Backed
  <2>7. QED BY <2>1, <2>5, <2>6 DEF Deliver
<1>6. ASSUME NEW s \in Servers, ServerAcks(s)
      PROVE  LeaseInv'
  <2>1. PICK p \in Reply(s, "ACK") : Deliver(p)
    BY <1>6 DEF ServerAcks
  <2>2. p \in Packet /\ p.address = s /\ p.mask = s
    BY ReplyIsPacket
  <2>3. bound' = bound \cup {s} /\ UNCHANGED <<pc, lease>>
    BY <1>6 DEF ServerAcks
  <2>4. Backed(p)' /\ LeaseIsBound'
    BY <2>2, <2>3 DEF Backed, LeaseInv, LeaseIsBound
  <2>5. CASE inbox' = Append(inbox, p) /\ UNCHANGED delayed
    BY <2>2, <2>3, <2>4, <2>5, AppendKeeps DEF LeaseInv, Backed
  <2>6. CASE delayed' = delayed \cup {p} /\ UNCHANGED inbox
    BY <2>2, <2>3, <2>4, <2>6 DEF LeaseInv, Backed
  <2>7. QED BY <2>1, <2>5, <2>6 DEF Deliver
<1>7. ASSUME NEW s \in Servers, ServerErrs(s)
      PROVE  LeaseInv'
  <2> DEFINE nak == [NoPacket EXCEPT !.kind = "NAK", !.ours = TRUE]
             Sent(b) ==
               /\ bound' = IF b.kind = "ACK" THEN bound \cup {s} ELSE bound
               /\ \/ inbox' = Append(inbox, b) /\ UNCHANGED delayed
                  \/ delayed' = delayed \cup {b} /\ UNCHANGED inbox
  <2>1. PICK p \in Reply(s, "ACK") :
          \E bad \in {nak, [p EXCEPT !.mask = Broken]} : Sent(bad)
    BY <1>7 DEF ServerErrs
  <2>1a. PICK bad \in {nak, [p EXCEPT !.mask = Broken]} : Sent(bad)
    BY <2>1
  <2>2. p \in Packet /\ p.kind = "ACK" /\ p.address = s
    BY ReplyIsPacket
  <2>3. bad \in Packet /\ (bad.kind = "ACK" => bad.address = s /\ bad.mask = Broken)
    BY <2>2 DEF Packet, NoPacket, Addresses, Masks
  <2>4. bound \subseteq bound' /\ bound' \subseteq Servers /\ UNCHANGED <<pc, lease>>
    BY <1>7, <2>1a DEF ServerErrs, LeaseInv
  <2>5. Backed(bad)' /\ LeaseIsBound'
    BY <2>1a, <2>3, <2>4 DEF Backed, LeaseInv, LeaseIsBound
  <2>6. CASE inbox' = Append(inbox, bad) /\ UNCHANGED delayed
    BY <2>3, <2>4, <2>5, <2>6, AppendKeeps DEF LeaseInv, Backed
  <2>7. CASE delayed' = delayed \cup {bad} /\ UNCHANGED inbox
    BY <2>3, <2>4, <2>5, <2>7 DEF LeaseInv, Backed
  <2>8. QED BY <2>1a, <2>6, <2>7
<1>8. CASE Lose \/ Tick \/ (\E s \in Servers : ServerIgnores(s))
  BY <1>8 DEF Lose, Fault, Tick, ServerIgnores, LeaseInv, LeaseIsBound, Backed
<1>9. CASE Release
  <2>1. PICK p \in delayed : inbox' = Append(inbox, p) /\ delayed' = delayed \ {p}
    BY <1>9 DEF Release
  <2>2. p \in Packet /\ UNCHANGED <<bound, pc, lease>>
    BY <1>9 DEF Release, LeaseInv
  <2>3. Backed(p)' /\ LeaseIsBound'
    BY <2>2 DEF Backed, LeaseInv, LeaseIsBound
  <2>4. QED BY <2>1, <2>2, <2>3, AppendKeeps DEF LeaseInv, Backed
<1>10. CASE ForeignFrame
  <2>1. PICK s \in Servers, kind \in {"OFFER", "ACK", "NAK"} :
          \E q \in Reply(s, kind) : inbox' = Append(inbox, [q EXCEPT !.ours = FALSE])
    BY <1>10 DEF ForeignFrame
  <2>2. PICK q \in Reply(s, kind) : inbox' = Append(inbox, [q EXCEPT !.ours = FALSE])
    BY <2>1
  <2> DEFINE p == [q EXCEPT !.ours = FALSE]
  <2>3. p \in Packet /\ ~p.ours
    <3>1. q \in Packet
      BY ReplyIsPacket
    <3>2. QED BY <3>1 DEF Packet
  <2>4. UNCHANGED <<bound, delayed, pc, lease>>
    BY <1>10 DEF ForeignFrame
  <2>5. Backed(p)' /\ LeaseIsBound'
    BY <2>3, <2>4 DEF Backed, LeaseInv, LeaseIsBound
  <2>6. QED BY <2>2, <2>3, <2>4, <2>5, AppendKeeps DEF LeaseInv, Backed
<1>11. QED
  BY <1>1, <1>2, <1>3, <1>4, <1>5, <1>6, <1>7, <1>8, <1>9, <1>10
  DEF Next, Acquire, Server, Link

\* The lease is one that was granted: when the servers send the mask, the
\* address Acquire returns is bound to this client and the mask is its own,
\* for any number of servers and any faults (Acquire, dhcp.go:64-113).
THEOREM LeaseIsGranted ==
  ASSUME "mask" \notin Omitted
  PROVE  Spec => []LeaseIsBound
<1>1. LeaseInv /\ [Next]_vars => LeaseInv'
  BY LeaseInvNext
<1>2. LeaseInv => LeaseIsBound
  BY DEF LeaseInv
<1>3. QED BY <1>1, <1>2, LeaseInvInit, PTL DEF Spec
=============================================================================
