------------------------------ MODULE EL0Program ------------------------------
(***************************************************************************)
(* The two programs the kernel runs at EL0: smokeEntry of                  *)
(* kernel/gvisorplatform/registers_arm64.s, with RunEL0Smoke that serves   *)
(* its system calls, and the ELF file linuxHelloELF assembles for the      *)
(* Sentry.  An instruction keeps the fields of its encoding; StepAt, the   *)
(* processor, decodes them.                                                *)
(***************************************************************************)
EXTENDS Integers, SequencesExt

PageSize == 4096
loadAddr == 4194304   \* 0x400000, also userBase of the smoke test
dataBase == 5242880   \* 0x500000
entryOff == 128
phdrOff == 64
phdrSize == 56

-----------------------------------------------------------------------------
(* Encoding. *)

movz(reg, imm) == [op |-> "movz", reg |-> reg, lo |-> imm % 65536, hi |-> 0]
movkHigh(reg, imm) == [op |-> "movk", reg |-> reg, lo |-> 0, hi |-> imm]
svc == [op |-> "svc", reg |-> 0, lo |-> 0, hi |-> 0]

\* Mutant: the two low bits are not moved out of the immediate.
adrWhole(reg, delta) ==
  [op |-> "adr", reg |-> reg, lo |-> (delta % 2097152) % 4,
   hi |-> (delta % 2097152) % 524288]

adr(reg, delta) ==
  [op |-> "adr", reg |-> reg, lo |-> (delta % 2097152) % 4,
   hi |-> ((delta % 2097152) \div 4) % 524288]

-----------------------------------------------------------------------------
(* The processor: registers x0-x8 and the address of the next instruction. *)

SignExtend21(imm) == IF imm >= 1048576 THEN imm - 2097152 ELSE imm

StepAt(m, i) ==
  LET value == CASE i.op = "movz" -> i.lo
                 [] i.op = "movk" -> (m.x[i.reg] % 65536) + i.hi * 65536
                 [] i.op = "adr"  -> m.pc + SignExtend21(i.hi * 4 + i.lo)
                 [] OTHER         -> m.x[i.reg]
      call == [nr |-> m.x[8], args |-> <<m.x[0], m.x[1], m.x[2]>>]
  IN [pc |-> m.pc + 4,
      x |-> [m.x EXCEPT ![i.reg] = value],
      calls |-> IF i.op = "svc" THEN Append(m.calls, call) ELSE m.calls]

\* The system calls a straight-line program makes.  None of the registers is
\* read after a call before it is set again, so their results do not matter.
Calls(code, entry) ==
  FoldLeft(StepAt, [pc |-> entry, x |-> [r \in 0..8 |-> 0], calls |-> <<>>], code).calls

-----------------------------------------------------------------------------
(* The smoke test. *)

smokeEntry ==
  <<movz(0, 1), movz(1, 0), movkHigh(1, 80), movz(2, 32), movz(8, 64), svc,
    movz(0, 0), movz(8, 93), svc>>

\* What RunEL0Smoke returns for these system calls and for a message of the
\* given length at the beginning of the data page, or that it fails; output
\* is a sequence of positions in the page.
RunEL0Smoke(calls) ==
  LET Serve(r, call) ==
        LET addr == call.args[2]
            length == call.args[3]
            valid == /\ call.args[1] = 1 /\ addr >= dataBase
                     /\ addr + length <= dataBase + PageSize
        IN CASE r.state # "running" -> r
             [] r.state = "running" /\ call.nr = 93 -> [r EXCEPT !.state = "exited"]
             [] r.state = "running" /\ call.nr = 64 /\ valid ->
                  [state |-> IF r.exits = 3 THEN "failed" ELSE "running",
                   exits |-> r.exits + 1,
                   output |-> r.output \o [k \in 1..length |-> addr - dataBase + k]]
             [] OTHER -> [r EXCEPT !.state = "failed"]
  IN FoldLeft(Serve, [state |-> "running", exits |-> 0, output |-> <<>>], calls)

-----------------------------------------------------------------------------
(* The hello program. *)

CodeWords(length, delta) ==
  <<movz(0, 1), adr(1, delta), movz(2, length), movz(8, 64), svc,
    movz(0, 0), movz(8, 93), svc>>

\* The file for a message of the given length: one load segment, from the ELF
\* header to the end of the message.
linuxHelloELF(length) ==
  LET messageOff == entryOff + 4 * 8
  IN [entry |-> loadAddr + entryOff,
      code |-> CodeWords(length, messageOff - (entryOff + 4)),
      codeOff |-> entryOff, messageOff |-> messageOff,
      segment |-> [offset |-> 0, vaddr |-> loadAddr, filesz |-> messageOff + length,
                   memsz |-> messageOff + length, align |-> PageSize],
      size |-> messageOff + length]
=============================================================================
