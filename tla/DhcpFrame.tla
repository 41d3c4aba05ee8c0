------------------------------ MODULE DhcpFrame ------------------------------
(***************************************************************************)
(* The byte formats of kernel/sprnet/dhcp.go as operators: DHCP options    *)
(* are built and parsed, a server's frame is taken apart, the IPv4 header  *)
(* is given its checksum.  Byte strings are sequences; positions count     *)
(* from 0 as in the code, so position pos is element pos + 1.              *)
(***************************************************************************)
EXTENDS Naturals, SequencesExt

bootpFixedLength == 236
dhcpMinLength == 300
OptionsLength == dhcpMinLength - bootpFixedLength - 4

Zeros(n) == [i \in 1..n |-> 0]

-----------------------------------------------------------------------------
(* Building options.  An option area is its bytes and how many are in use. *)

Put(bytes, pos, value) ==
  [i \in DOMAIN bytes |->
     IF i \in (pos + 1)..(pos + Len(value)) THEN value[i - pos] ELSE bytes[i]]

\* Mutant: no byte is kept for the end.
appendOptionFull(area, code, value) ==
  IF Len(value) > 255 \/ area.pos + 2 + Len(value) > Len(area.bytes) THEN area
  ELSE [bytes |-> Put(area.bytes, area.pos, <<code, Len(value)>> \o value),
        pos |-> area.pos + 2 + Len(value)]

\* An option that does not fit is left out.
appendOption(area, code, value) ==
  IF Len(value) > 255 \/ area.pos + 2 + Len(value) >= Len(area.bytes) THEN area
  ELSE [bytes |-> Put(area.bytes, area.pos, <<code, Len(value)>> \o value),
        pos |-> area.pos + 2 + Len(value)]

\* A list of options, each a code and a value, and the end after them.
Options(list) ==
  LET Append1(area, option) == appendOption(area, option[1], option[2])
      area == FoldLeft(Append1, [bytes |-> Zeros(OptionsLength), pos |-> 0], list)
  IN [bytes |-> Put(area.bytes, area.pos, <<255>>), end |-> area.pos]

\* What buildClientFrame puts in, in its order; an address that is not IPv4
\* is empty.
ClientList(type, mac, requested, server, hostname) ==
  LET Given(code, value) ==
        IF type = 3 /\ value # <<>> THEN << <<code, value>> >> ELSE <<>>
      name == IF Len(hostname) > 63 THEN SubSeq(hostname, 1, 63) ELSE hostname
  IN << <<53, <<type>>>>, <<61, <<1>> \o mac>> >>
       \o Given(50, requested) \o Given(54, server)
       \o (IF hostname = <<>> THEN <<>> ELSE << <<12, name>> >>)
       \o << <<55, <<1, 3, 6, 15, 51, 54>>>>, <<57, <<5, 220>>>> >>

-----------------------------------------------------------------------------
(* Parsing options. *)

Failed == [ok |-> FALSE, value |-> {}]
Parsed(options) == [ok |-> TRUE, value |-> options]

\* Options as a set of code and value, one per code; of two options with one
\* code the later is kept.
With(rest, code, value) ==
  IF ~rest.ok THEN Failed
  ELSE Parsed(rest.value \cup
              (IF \E o \in rest.value : o[1] = code THEN {} ELSE {<<code, value>>}))

\* Mutant: a value may end one byte after the data.
parseOptionsLoose(data) ==
  LET From[pos \in 0..(Len(data) + 300)] ==
        CASE pos >= Len(data) -> Parsed({})
          [] pos < Len(data) /\ data[pos + 1] = 0 -> From[pos + 1]
          [] pos < Len(data) /\ data[pos + 1] = 255 -> Parsed({})
          [] OTHER ->
               IF pos + 1 >= Len(data) THEN Failed
               ELSE LET next == pos + 2 + data[pos + 2]
                    IN IF next > Len(data) + 1 THEN Failed
                       ELSE With(From[next], data[pos + 1],
                                 SubSeq(data, pos + 3, Min({next, Len(data)})))
  IN From[0]

parseOptions(data) ==
  LET From[pos \in 0..Len(data)] ==
        CASE pos = Len(data) -> Parsed({})
          [] pos < Len(data) /\ data[pos + 1] = 0 -> From[pos + 1]
          [] pos < Len(data) /\ data[pos + 1] = 255 -> Parsed({})
          [] OTHER ->
               IF pos + 1 >= Len(data) THEN Failed
               ELSE LET next == pos + 2 + data[pos + 2]
                    IN IF next > Len(data) THEN Failed
                       ELSE With(From[next], data[pos + 1],
                                 SubSeq(data, pos + 3, next))
  IN From[0]

Option(options, code) ==
  IF \E o \in options : o[1] = code
  THEN (CHOOSE o \in options : o[1] = code)[2] ELSE <<>>

\* Mutant: an incomplete address at the end of a list is taken.
Addresses4All(v) ==
  [i \in 1..((Len(v) + 3) \div 4) |-> SubSeq(v, 4 * i - 3, Min({4 * i, Len(v)}))]

Addresses4(v) == [i \in 1..(Len(v) \div 4) |-> SubSeq(v, 4 * i - 3, 4 * i)]

\* The fields parseServerFrame takes from the options; siaddr is the BOOTP
\* field that stands in for a server identifier.
ServerPacket(options, siaddr) ==
  LET Exactly(code, n, default) ==
        LET v == Option(options, code) IN IF Len(v) = n THEN v ELSE default
      Router == Option(options, 3)
  IN [type |-> Exactly(53, 1, <<0>>),
      server |-> Exactly(54, 4, siaddr),
      mask |-> Exactly(1, 4, Zeros(4)),
      router |-> IF Len(Router) >= 4 THEN SubSeq(Router, 1, 4) ELSE <<>>,
      dns |-> Addresses4(Option(options, 6)),
      lease |-> Exactly(51, 4, Zeros(4))]

-----------------------------------------------------------------------------
(* The headers of a server's frame, as far as they place what is read.     *)
(* A frame is its length, ip[0] & 15, the UDP length it claims and whether  *)
(* the other fields that are compared have the values a reply has.  A slice *)
(* is a first byte, and the byte after the last.                            *)

Slice(from, to) == [from |-> from, to |-> to]

headersFit(frame) ==
  frame.ip /\ frame.ihl * 4 >= 20 /\ frame.len - 14 >= frame.ihl * 4 + 8

\* Mutant: the UDP length is compared with the frame's, not the datagram's.
lengthFitsFrame(frame, udp) ==
  frame.udpLen >= 8 + bootpFixedLength + 4 /\ frame.udpLen <= frame.len

lengthFits(frame, udp) ==
  frame.udpLen >= 8 + bootpFixedLength + 4 /\ frame.udpLen <= frame.len - udp

\* The slices parseServerFrame reads before its first error, in its order.
parseServerFrame(frame) ==
  LET udp == 14 + frame.ihl * 4
      payload == udp + 8
      Within(a, b) == Slice(payload + a, payload + b)
      none == [ok |-> FALSE, payload |-> Slice(0, 0), reads |-> {}]
      headers == {Slice(12, 14), Slice(14, 15), Slice(23, 24)}
      ports == headers \cup {Slice(udp, udp + 2), Slice(udp + 2, udp + 4)}
      length == ports \cup {Slice(udp + 4, udp + 6)}
      fields == {Within(0, 3), Within(4, 8), Within(16, 20), Within(20, 24),
                 Within(28, 34), Within(bootpFixedLength, bootpFixedLength + 4)}
  IN IF frame.len < 14 + 20 + 8 + bootpFixedLength + 4 THEN none
     ELSE IF ~headersFit(frame) THEN [none EXCEPT !.reads = headers]
     ELSE IF ~frame.ports THEN [none EXCEPT !.reads = ports]
     ELSE IF ~lengthFits(frame, udp) THEN [none EXCEPT !.reads = length]
     ELSE [ok |-> frame.bootp, payload |-> Slice(payload, udp + frame.udpLen),
           reads |-> length \cup fields]

-----------------------------------------------------------------------------
(* The checksum of the IPv4 header. *)

Word16(data, i) == data[i] * 256 + (IF i = Len(data) THEN 0 ELSE data[i + 1])

\* Mutant: the carry is dropped.
EndAroundDropped(sum) == sum % 65536

\* The carries of a 32-bit sum are added back in until none is left.
EndAround(sum) ==
  LET Folded[s \in Nat] ==
        IF s < 65536 THEN s ELSE Folded[(s % 65536) + (s \div 65536)]
  IN Folded[sum]

internetChecksum(data) ==
  LET Sum[i \in Nat] == IF i > Len(data) THEN 0 ELSE Word16(data, i) + Sum[i + 2]
  IN 65535 - EndAround(Sum[1])
=============================================================================
