----------------------------- MODULE VsockDevice -----------------------------
(***************************************************************************)
(* Device.Serve (kernel/vsock/device_tamago.go): the loop that polls the   *)
(* receive and event queues, hands packets to the endpoint, and pushes its *)
(* packets into the transmit ring as the ring has room.  toHost is cut in  *)
(* two: its first `pushed` packets are in the ring, the rest is the slice  *)
(* Serve calls pending.  The ring itself (tamago's virtio.VirtualQueue) is *)
(* external: Push adds a packet, and the used index counts what the host   *)
(* has taken.  Both counters are uint16 in the code, modulo Wrap here.     *)
(***************************************************************************)
EXTENDS VsockStream

CONSTANTS
  TxDepth,  \* size of the transmit queue: queueDepth or what the device offers
  Wrap      \* the counters' modulus, 2^16 in the code

ASSUME DeviceAssumption ==
  /\ TxDepth \in Nat \ {0}
  /\ Wrap \in Nat /\ TxDepth < Wrap

VARIABLES
  pc,      \* the inner loop of Serve that runs: "rx", "event", "drain", "tx"
  pushed,  \* packets in the transmit ring
  txSent,  \* Device.txSent
  txUsed   \* the ring's used index

deviceVars == <<pc, pushed, txSent, txUsed>>

\* Mutants: the difference is not cut to sixteen bits; the used index ignored.
txAvailableWide == txSent - txUsed < TxDepth
txAvailableSent == txSent < TxDepth

txAvailable == (txSent - txUsed) % Wrap < TxDepth

\* An inner loop goes round again, or finds nothing and gives way to the next.
Round(loop) == pc = loop /\ UNCHANGED deviceVars
Leaves(loop, next) ==
  pc = loop /\ Quiet /\ pc' = next /\ UNCHANGED <<pushed, txSent, txUsed>>

ServeRx == Round("rx") /\ Handle /\ UNCHANGED hostVars
ServeRxEmpty == Leaves("rx", "event") /\ toGuest = <<>> /\ UNCHANGED vars

ServeEvent == Round("event") /\ GuestEvent
ServeEventEmpty == Leaves("event", "drain") /\ events = 0 /\ UNCHANGED vars

\* The loops of Drain, called from Handle or from Serve.
ServeDraining == Drain /\ UNCHANGED <<hostVars, deviceVars>>

ServeDrain ==
  /\ Leaves("drain", "tx")
  /\ IF DrainHasWork THEN PollDrain /\ UNCHANGED hostVars
                     ELSE UNCHANGED vars

\* Mutant: the count of what was sent is wider than the used index.
ServePushWide ==
  /\ pc = "tx" /\ Quiet
  /\ pushed < Len(toHost) /\ txAvailable
  /\ pushed' = pushed + 1
  /\ txSent' = txSent + 1
  /\ UNCHANGED <<vars, pc, txUsed>>

ServePush ==
  /\ pc = "tx" /\ Quiet
  /\ pushed < Len(toHost) /\ txAvailable
  /\ pushed' = pushed + 1
  /\ txSent' = (txSent + 1) % Wrap
  /\ UNCHANGED <<vars, pc, txUsed>>

ServePushed ==
  /\ Leaves("tx", "rx")
  /\ pushed = Len(toHost) \/ ~txAvailable
  /\ UNCHANGED vars

Serve ==
  \/ ServeRx \/ ServeRxEmpty \/ ServeEvent \/ ServeEventEmpty
  \/ ServeDraining \/ ServeDrain \/ ServePush \/ ServePushed

\* The host takes packets from the ring only, and returns their buffers.
RingReceive ==
  /\ pushed > 0 /\ HostReceive
  /\ pushed' = pushed - 1
  /\ txUsed' = (txUsed + 1) % Wrap
  /\ UNCHANGED <<pc, txSent>>

------------------------------------------------------------------------------
DeviceInit ==
  /\ Init
  /\ pc = "rx" /\ pushed = 0 /\ txSent = 0 /\ txUsed = 0

DeviceNext ==
  \/ Serve
  \/ HostActs /\ UNCHANGED deviceVars
  \/ RingReceive

\* Serve polls for ever; the device takes what is in the ring, and the client
\* reads, tells and closes as in FairSpec.
DeviceSpec ==
  /\ DeviceInit /\ [][DeviceNext]_<<vars, deviceVars>>
  /\ WF_<<vars, deviceVars>>(Serve)
  /\ WF_<<vars, deviceVars>>(RingReceive)
  /\ \A p \in Ports :
       WF_vars(HostRead(p)) /\ WF_vars(HostCredit(p)) /\ WF_vars(HostFinish(p))

------------------------------------------------------------------------------
DeviceTypeOK ==
  /\ TypeOK
  /\ pc \in {"rx", "event", "drain", "tx"}
  /\ pushed \in 0 .. Len(toHost)
  /\ txSent \in 0 .. (Wrap - 1) /\ txUsed \in 0 .. (Wrap - 1)

\* The ring never holds more packets than it has descriptors, also once the
\* sixteen-bit counters txAvailable compares have wrapped.
RingNeverOverfull == pushed <= TxDepth

\* Through the ring the guest and the host are as fair to each other as
\* FairSpec says: what is pending reaches the host, and no poll is skipped.
ImplementsStream == FairSpec
=============================================================================
