------------------------------ MODULE VirtioScan ------------------------------
(***************************************************************************)
(* The search for the two VirtIO devices, as operators on the slots of the *)
(* MMIO window: findVsockDevice (kernel/main.go) with Device.Init          *)
(* (kernel/vsock/device_tamago.go), and FindVirtioNet                      *)
(* (kernel/sprnet/virtio_tamago.go).  A slot is what its registers answer: *)
(* starts stands for the outcome of the transport's or go-net's own        *)
(* initialisation, which is external.                                      *)
(***************************************************************************)
EXTENDS Naturals, SequencesExt

NetID == 1
VsockID == 19
queueDepth == 32
Queues == 1..3   \* receive, transmit, event

NotFound == [ok |-> FALSE, slot |-> 0, depth |-> <<>>, mac |-> <<>>]

\* The slot of the first device with the identifier, 0 if there is none.
FirstSlot(slots, id) ==
  LET found == {i \in DOMAIN slots : slots[i].id = id}
  IN IF found = {} THEN 0 ELSE Min(found)


initQueue(size) == [ok |-> size > 0, depth |-> Min({size, queueDepth})]

\* Device.Init: what it refuses, in its order, and the depths of the queues.
InitDevice(device) ==
  LET queues == [q \in Queues |-> initQueue(device.sizes[q])]
  IN [ok |-> /\ device.starts /\ device.version1
             /\ \A q \in Queues : ~device.busy[q]
             /\ device.configLen = 8 /\ device.cid # 0
             /\ \A q \in Queues : queues[q].ok,
      depth |-> [q \in Queues |-> queues[q].depth]]

\* The first vsock device, or no device at all if that one is refused.
findVsockDevice(slots) ==
  LET slot == FirstSlot(slots, VsockID)
      device == InitDevice(slots[slot])
  IN IF slot = 0 THEN NotFound
     ELSE IF ~device.ok THEN [NotFound EXCEPT !.slot = slot]
     ELSE [ok |-> TRUE, slot |-> slot, depth |-> device.depth, mac |-> <<>>]

\* Mutant: a group address is taken.
invalidMACZero(mac) == Len(mac) # 6 \/ \A i \in DOMAIN mac : mac[i] = 0

invalidMAC(mac) ==
  Len(mac) # 6 \/ mac[1] % 2 # 0 \/ \A i \in DOMAIN mac : mac[i] = 0

\* The device's own address if it offers a valid one, else the fallback.
FindVirtioNet(slots, fallback) ==
  LET slot == FirstSlot(slots, NetID)
      device == slots[slot]
      mac == IF device.hasMac THEN device.mac ELSE fallback
  IN IF slot = 0 THEN NotFound
     ELSE IF ~device.starts \/ (device.hasMac /\ device.configLen # 6)
     THEN [NotFound EXCEPT !.slot = slot]
     ELSE [ok |-> TRUE, slot |-> slot, depth |-> <<>>,
           mac |-> IF invalidMAC(mac) THEN fallback ELSE mac]
=============================================================================
