------------------------------- MODULE RawImage -------------------------------
(***************************************************************************)
(* tools/elf2raw.go as operators: the load segments of the kernel's ELF    *)
(* file become a flat image that libkrun starts at its first byte.         *)
(* Addresses are taken modulo Space as the code's are modulo 2^64; Reach   *)
(* is the range of an AArch64 branch in either direction, 128 MiB.  A byte *)
(* of the image is the segment it was read from and its place in it.       *)
(***************************************************************************)
EXTENDS Integers, SequencesExt

CONSTANTS Space, Reach, maxImageSize

ASSUME RawImageAssumption ==
  /\ Space \in Nat /\ Reach \in Nat /\ maxImageSize \in Nat
  /\ Reach % 4 = 0 /\ Reach < Space

Blank == <<0, 0>>
BranchByte(i) == <<0, i>>

\* Mutant: the range of a branch is not checked.
branchInstructionFar(from, to) ==
  [ok |-> from % 4 = 0 /\ to % 4 = 0,
   imm26 |-> ((to - from) \div 4) % (Reach \div 2)]

\* The immediate counts words, in as many bits as span Reach both ways.
branchInstruction(from, to) ==
  [ok |-> /\ from % 4 = 0 /\ to % 4 = 0
          /\ to - from >= -Reach /\ to - from < Reach,
   imm26 |-> ((to - from) \div 4) % (Reach \div 2)]

programAddress(segment) ==
  IF segment.paddr # 0 THEN segment.paddr ELSE segment.vaddr

IsLoaded(segment) == segment.load /\ segment.filesz # 0

Outside(segment, base) ==
  \/ programAddress(segment) < base
  \/ (programAddress(segment) + segment.filesz) % Space < programAddress(segment)

\* Where the image ends: after its last segment, and after the branch.
End(segments, base) ==
  LET Further(end, segment) ==
        IF ~IsLoaded(segment) THEN end
        ELSE Max({end, (programAddress(segment) + segment.filesz) % Space})
  IN FoldLeft(Further, base + 4, segments)

\* Mutant: the segments are copied last to first.
CopySegmentsReversed(segments, base, size) ==
  LET Copy(image, i) ==
        LET at == programAddress(segments[i]) - base
        IN [o \in DOMAIN image |->
              IF IsLoaded(segments[i]) /\ o \in at..(at + segments[i].filesz - 1)
              THEN <<i, o - at>> ELSE image[o]]
  IN FoldLeft(Copy, [o \in 0..(size - 1) |-> Blank],
              Reverse([i \in 1..Len(segments) |-> i]))

CopySegments(segments, base, size) ==
  LET Copy(image, i) ==
        LET at == programAddress(segments[i]) - base
        IN [o \in DOMAIN image |->
              IF IsLoaded(segments[i]) /\ o \in at..(at + segments[i].filesz - 1)
              THEN <<i, o - at>> ELSE image[o]]
  IN FoldLeft(Copy, [o \in 0..(size - 1) |-> Blank],
              [i \in 1..Len(segments) |-> i])

\* The branch to the entry point replaces the first word.
convert(elf, base) ==
  LET segments == elf.segments
      loaded == {s \in ToSet(segments) : IsLoaded(s)}
      size == End(segments, base) - base
      branch == branchInstruction(base, elf.entry)
      image == CopySegments(segments, base, size)
  IN IF \/ ~elf.aarch64
        \/ \E s \in loaded : Outside(s, base)
        \/ size > maxImageSize
        \/ \E s \in loaded : ~s.readable
        \/ ~branch.ok
     THEN [ok |-> FALSE, imm26 |-> 0, image |-> <<>>]
     ELSE [ok |-> TRUE, imm26 |-> branch.imm26,
           image |-> [o \in DOMAIN image |->
                        IF o < 4 THEN BranchByte(o + 1) ELSE image[o]]]
=============================================================================
