------------------------------- MODULE Formats -------------------------------
(***************************************************************************)
(* The repository's pure algorithms, each applied once to an input: DHCP   *)
(* options and frames, the IPv4 checksum, the raw kernel image, the        *)
(* programs run at EL0 and the search for devices.  The properties compare *)
(* what they compute with what it is for.                                  *)
(***************************************************************************)
EXTENDS DhcpFrame, RawImage, EL0Program, VirtioScan

CONSTANTS
  HostLens,    \* bound: lengths of the host name
  OptionBytes, \* bound: bytes of the option data to parse ...
  OptionMax,   \* bound: ... and how many
  FrameLens,   \* bound: lengths of a frame
  UdpLens,     \* bound: UDP lengths a frame may claim
  Words,       \* bound: 16-bit words to sum up ...
  WordsMax,    \* bound: ... and how many
  Addresses,   \* bound: addresses of segments, 0 among them
  Sizes,       \* bound: sizes of segments
  Base,        \* where the image begins
  Entries,     \* bound: entry points
  MessageLens, \* bound: lengths of the hello message
  QueueSizes   \* bound: queue sizes a device offers

VARIABLES input, done, result

vars == <<input, done, result>>

UpTo(S, n) == UNION {[1..k -> S] : k \in 0..n}

Mac == <<2, 83, 80, 82, 84, 1>>
Address == <<10, 20, 30, 40>>
Filled(n) == [i \in 1..n |-> i]

\* Two bytes per word, and an odd byte behind them or none.
Bytes(words, odd) ==
  [i \in 1..(2 * Len(words)) |->
     IF i % 2 = 1 THEN words[(i + 1) \div 2] \div 256 ELSE words[i \div 2] % 256]
  \o odd

ClientInput ==
  [of : {"client"}, type : {1, 3}, requested : {<<>>, Address},
   server : {<<>>, Address}, host : HostLens]
OptionInput == [of : {"options"}, data : UpTo(OptionBytes, OptionMax)]
ServerInput ==
  [of : {"server"}, type : 0..2, server : 3..4, mask : 3..4, router : {0, 3, 4, 8},
   dns : {0, 3, 4, 7, 8, 9}]
FrameInput ==
  [of : {"frame"}, len : FrameLens, ihl : 0..15, udpLen : UdpLens, ip : BOOLEAN,
   ports : BOOLEAN, bootp : BOOLEAN]
ChecksumInput ==
  [of : {"checksum"}, words : UpTo(Words, WordsMax), odd : {<<>>, <<1>>, <<255>>}]
Segment ==
  [paddr : Addresses, vaddr : {Base}, filesz : Sizes, load : {TRUE},
   readable : {TRUE}]
OddSegments ==
  {[paddr |-> Base, vaddr |-> 0, filesz |-> 1, load |-> FALSE, readable |-> TRUE],
   [paddr |-> Base + 4, vaddr |-> 0, filesz |-> 1, load |-> TRUE, readable |-> FALSE]}
ImageInput ==
  [of : {"image"}, aarch64 : BOOLEAN, entry : Entries,
   segments : {<<s, t>> : s \in Segment, t \in Segment \cup OddSegments}]
ProgramInput == [of : {"program"}, length : MessageLens]

VsockSlot ==
  [id : {VsockID}, starts : BOOLEAN, version1 : BOOLEAN,
   busy : {[q \in Queues |-> q = b] : b \in 0..3}, configLen : {4, 8},
   cid : {0, 3}, sizes : [Queues -> QueueSizes]]
NetSlot ==
  [id : {NetID}, starts : BOOLEAN, hasMac : BOOLEAN, configLen : {5, 6},
   mac : {Mac, <<1, 83, 80, 82, 84, 1>>, Zeros(6)}]
Empty == [id |-> 0]
Fallback == <<2, 83, 80, 82, 84, 9>>
ScanInput ==
  [of : {"scan"}, slots : {<<a, b>> : a \in NetSlot \cup {Empty}, b \in NetSlot}
                          \cup {<<Empty, v>> : v \in VsockSlot}]

ServerList(i) ==
  << <<53, Filled(i.type)>>, <<54, Filled(i.server)>>, <<1, Filled(i.mask)>>,
     <<3, Filled(i.router)>>, <<6, Filled(i.dns)>> >>

-----------------------------------------------------------------------------
Given(kind) == input.of = kind /\ ~done /\ done' = TRUE /\ UNCHANGED input

BuildOptions ==
  /\ Given("client")
  /\ result' = Options(ClientList(input.type, Mac, input.requested, input.server,
                                  Filled(input.host)))
ParseOptions == Given("options") /\ result' = parseOptions(input.data)
ParseServer ==
  /\ Given("server")
  /\ result' = ServerPacket(parseOptions(Options(ServerList(input)).bytes).value,
                            Address)
ParseFrame == Given("frame") /\ result' = parseServerFrame(input)
Checksum == Given("checksum")
            /\ result' = [sum |-> internetChecksum(Bytes(input.words, input.odd))]
Convert == Given("image") /\ result' = convert(input, Base)
RunPrograms ==
  /\ Given("program")
  /\ LET elf == linuxHelloELF(input.length)
     IN result' = [elf |-> elf, calls |-> Calls(elf.code, elf.entry),
                   smoke |-> RunEL0Smoke(Calls(smokeEntry, loadAddr))]
ScanBus ==
  /\ Given("scan")
  /\ result' = [vsock |-> findVsockDevice(input.slots),
                net |-> FindVirtioNet(input.slots, Fallback)]

Init ==
  /\ input \in ClientInput \cup OptionInput \cup ServerInput \cup FrameInput
               \cup ChecksumInput \cup ImageInput \cup ProgramInput \cup ScanInput
  /\ done = FALSE
  /\ result = [sum |-> 0]

Next ==
  \/ BuildOptions \/ ParseOptions \/ ParseServer \/ ParseFrame \/ Checksum
  \/ Convert \/ RunPrograms \/ ScanBus

Spec == Init /\ [][Next]_vars

Did(kind) == done /\ input.of = kind

-----------------------------------------------------------------------------
\* Whatever the host name, the options buildClientFrame writes are ended inside
\* their area and parse back to options it meant to send, and the message type,
\* the client and the addresses a REQUEST confirms are among them.
ClientOptionsArrive ==
  Did("client") =>
    LET list == ClientList(input.type, Mac, input.requested, input.server,
                           Filled(input.host))
        parsed == parseOptions(result.bytes)
        needed == {o \in ToSet(list) : o[1] \in {53, 61, 50, 54}}
    IN /\ result.end < OptionsLength /\ result.bytes[result.end + 1] = 255
       /\ parsed.ok
       /\ needed \subseteq parsed.value /\ parsed.value \subseteq ToSet(list)

\* The places of option codes: the steps from the first one, over padding and
\* over values, up to an end.
CodeAt(data, q) ==
  \E steps \in SUBSET (1..q) :
    /\ {1, q} \subseteq steps
    /\ \A p \in steps \ {q} :
         LET next == Min({r \in steps : r > p})
         IN IF data[p] = 0 THEN next = p + 1
            ELSE data[p] # 255 /\ p < Len(data) /\ next = p + 2 + data[p + 1]

\* parseOptions returns, for every code, the value that comes last before the
\* end, and fails exactly if a length or a value is cut off.
OptionsParsed ==
  Did("options") =>
    LET data == input.data
        places == {q \in 1..Len(data) : CodeAt(data, q) /\ data[q] \notin {0, 255}}
        Whole(q) == q < Len(data) /\ q + 1 + data[q + 1] <= Len(data)
        Latest(q) == ~\E p \in places : p > q /\ data[p] = data[q]
    IN /\ result.ok = \A q \in places : Whole(q)
       /\ result.ok => result.value =
            {<<data[q], SubSeq(data, q + 2, q + 1 + data[q + 1])>> :
               q \in {p \in places : Latest(p)}}

\* A field of the wrong size is as good as left out, a router is the first of a
\* list, and of the name servers every whole address is kept.
ServerFieldsArrive ==
  Did("server") =>
    /\ (result.type # <<0>>) = (input.type = 1)
    /\ result.server = (IF input.server = 4 THEN Filled(4) ELSE Address)
    /\ result.mask = (IF input.mask = 4 THEN Filled(4) ELSE Zeros(4))
    /\ result.router = (IF input.router >= 4 THEN Filled(4) ELSE <<>>)
    /\ FlattenSeq(result.dns) = Filled(input.dns - (input.dns % 4))

\* Whatever header and UDP lengths a frame claims, parseServerFrame reads
\* inside the frame, and the fields of BOOTP and the options inside the datagram.
ReadsStayInside ==
  Did("frame") =>
    /\ \A s \in result.reads : s.from <= s.to /\ s.to <= input.len
    /\ result.ok =>
         /\ result.payload.to <= input.len
         /\ result.payload.to - result.payload.from >= bootpFixedLength + 4

\* The checksum is the complement of the sum modulo 65535, the odd byte being
\* the high one of a word, however often the carries carry again; and data that
\* carries its checksum leaves no "IPv4 checksum residual" (dhcp_test.go:66).
ChecksumCancels ==
  Did("checksum") =>
    LET total == FoldLeft(+, 0, input.words)
                 + (IF input.odd = <<>> THEN 0 ELSE 256 * input.odd[1])
        carried == Bytes(Append(input.words, result.sum), <<>>)
    IN /\ (total + result.sum) % 65535 = 0
       /\ result.sum = 65535 => total = 0
       /\ input.odd = <<>> => internetChecksum(carried) = 0

\* The image holds every byte of every segment that no later one covers, and
\* nothing else but the first word, which branches to the entry point.
ImageFaithful ==
  Did("image") /\ result.ok =>
    LET segments == input.segments
        Covers(i, o) ==
          LET at == programAddress(segments[i]) - Base
          IN IsLoaded(segments[i]) /\ at <= o /\ o < at + segments[i].filesz
        Source(o) == {i \in DOMAIN segments : Covers(i, o)}
    IN /\ \A i \in DOMAIN segments : IsLoaded(segments[i]) =>
            programAddress(segments[i]) + segments[i].filesz
              <= Base + Cardinality(DOMAIN result.image)
       /\ \A o \in DOMAIN result.image : o >= 4 =>
            result.image[o] =
              IF Source(o) = {} THEN Blank
              ELSE LET i == Max(Source(o))
                   IN <<i, o - (programAddress(segments[i]) - Base)>>

\* The processor, which takes the immediate as a signed count of words, goes
\* from the first byte of the image to the entry point.
EntryReached ==
  Did("image") /\ result.ok =>
    LET words == IF result.imm26 >= Reach \div 4 THEN result.imm26 - Reach \div 2
                 ELSE result.imm26
    IN Base + 4 * words = input.entry

\* smokeEntry and RunEL0Smoke, kept in two files, agree on the message; the
\* hello program writes the message that linuxHelloELF places behind it, inside
\* the one segment that is loaded, and ends.
ProgramsSayTheirMessage ==
  Did("program") =>
    LET elf == result.elf
        Call(nr, x0, x1, x2) == [nr |-> nr, args |-> <<x0, x1, x2>>]
        message == elf.segment.vaddr + elf.messageOff - elf.segment.offset
    IN /\ result.smoke.state = "exited"
       /\ result.smoke.output = [k \in 1..32 |-> k]
       /\ result.calls =
            <<Call(64, 1, message, input.length), Call(93, 0, message, input.length)>>
       /\ phdrOff + phdrSize <= elf.codeOff
       /\ elf.codeOff + 4 * Len(elf.code) <= elf.messageOff
       /\ elf.messageOff + input.length <= elf.segment.filesz
       /\ elf.entry - elf.segment.vaddr + elf.segment.offset = elf.codeOff


\* The interface gets an address of one station whatever the device offers, and
\* the device's own if it is one.
MacUsable ==
  Did("scan") /\ result.net.ok =>
    LET device == input.slots[result.net.slot]
    IN /\ result.net.mac[1] % 2 = 0 /\ result.net.mac # Zeros(6)
       /\ device.hasMac /\ device.mac = Mac => result.net.mac = Mac
=============================================================================
