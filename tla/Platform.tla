------------------------------- MODULE Platform -------------------------------
(***************************************************************************)
(* The EL0 platform (kernel/gvisorplatform): Switch and switchToUser run   *)
(* the task of a Sentry goroutine at EL0 until its next synchronous        *)
(* exception, through the shared switchState and the assembly of runUser   *)
(* and lowerSync; MapFile, Unmap and Release change a task's page tables.  *)
(*                                                                         *)
(* There is one vCPU, external interrupts are masked and TamaGo does not   *)
(* preempt goroutines, so another goroutine runs only while every task is  *)
(* in Sentry code: p.mu is never contended, and Locked says where it is    *)
(* held.  The assembly is kept instruction by instruction over one         *)
(* register of each kind: R0 stands for x0-x15 and R20 for x20-x30, which  *)
(* the code moves alike.  Every word is tagged with whose it is.           *)
(*                                                                         *)
(* The TLB holds translations some access has used; it may drop one at any *)
(* time, and loses all of them only in FlushTlbAll.  The high half (TTBR1) *)
(* is mapped under every table: switchState and lowerSync are always       *)
(* reachable, while runUser itself executes at a low address.              *)
(***************************************************************************)
EXTENDS Naturals, FiniteSets, SequencesExt

CONSTANTS
  Tasks,     \* Sentry tasks, each with an address space of its own
  Kernel,    \* the kernel: owner of words, of a table, of identity mappings
  Pages,     \* low virtual pages
  Text,      \* the page runUser is executed from
  Frames,    \* memory a MapFile may be given
  NoFrame,   \* not mapped
  MaxTraps,  \* bound: exceptions per task
  MaxDrops   \* bound: translations the TLB drops of itself

ASSUME PlatformAssumption ==
  /\ Kernel \notin Tasks /\ Text \in Pages
  /\ Kernel \notin Frames /\ NoFrame \notin Frames \cup {Kernel}
  /\ MaxTraps \in Nat /\ MaxDrops \in Nat

VARIABLES
  pc,      \* where each task's goroutine is: see Places
  ac,      \* arch.Context64 of each task
  cpu,     \* registers, switchState and the exception stack: see Locations
  ttbr0,   \* whose table TTBR0_EL1 holds
  appTTBR, \* switcher.AppTTBR
  table,   \* each address space's page table
  tlb,     \* cached translations
  vector,  \* what switchToUser has returned
  fault,   \* the address Switch has reported with a fault
  own,     \* history: the registers the task is to see when it runs again
  cause,   \* history: the page of the task's last abort
  traps, drops

vars == <<pc, ac, cpu, ttbr0, appTTBR, table, tlb, vector, fault,
          own, cause, traps, drops>>

Places == {"sentry", "loaded", "entering", "el0", "trapped", "unlocked",
           "syscall", "faulted", "parked", "dead"}
Waiting == {"sentry", "syscall", "faulted"}
Locked == {"loaded", "entering", "el0", "trapped"}

-----------------------------------------------------------------------------
(* Words and where they are kept. *)

Word(owner, what, n) == <<owner, what, n>>
State == Word(Kernel, "state", 0)
ExStack == Word(Kernel, "exStack", 0)
Zero == Word(Kernel, "zero", 0)
Stray == Word(Kernel, "stray", 0)
Address(page) == Word(page, "address", 0)

\* ESR >> 26: SVC64, instruction and data aborts of EL0, and one of the others.
Syndrome(class) == Word(Kernel, "class", class)
Aborts == {32, 36}
Classes == {0, 21} \cup Aborts

\* The registers of a task, with the field of switchState each is kept in.
FieldOf ==
  [R0 |-> "U_R0", R16 |-> "U_R16", R17 |-> "U_R17", R18 |-> "U_R18",
   R19 |-> "U_R19", R20 |-> "U_R20", SP_EL0 |-> "U_SP", ELR_EL1 |-> "U_PC",
   SPSR_EL1 |-> "U_PSTATE", TPIDR_EL0 |-> "U_TLS"]
UserRegs == DOMAIN FieldOf
KernelRegs == {"RSP", "R19", "R20"}
Fields == {FieldOf[r] : r \in UserRegs}
          \cup {"K_SP", "K_R19", "K_R20", "EX_SP", "S_ESR", "S_FAR"}
Slots == {"X_R18", "X_R19"}
Locations == UserRegs \cup KernelRegs \cup Fields \cup Slots
             \cup {"state", "TPIDR_EL1", "ESR_EL1", "FAR_EL1"}

UserImage(t, n) == [r \in UserRegs |-> Word(t, r, n)]
KernelImage(t) == [r \in KernelRegs |-> Word(t, r, MaxTraps + 1)]

-----------------------------------------------------------------------------
(* The assembly: each instruction loads its destinations together.  A field *)
(* is addressed through R18, a slot of the exception stack through RSP.     *)

Reachable(m, l) ==
  (l \in Fields => m["R18"] = State) /\ (l \in Slots => m["RSP"] = ExStack)

Execute(m, instruction) ==
  [l \in Locations |->
     IF l \in DOMAIN instruction /\ Reachable(m, l)
     THEN IF Reachable(m, instruction[l]) THEN m[instruction[l]] ELSE Stray
     ELSE m[l]]

Run(m, code) == FoldLeft(Execute, m, code)

\* runUser up to the write of TTBR0_EL1 ...
runUserSave ==
  <<[R18 |-> "state"], [R16 |-> "RSP"], [K_SP |-> "R16"],
    [K_R19 |-> "R19", K_R20 |-> "R20"], [TPIDR_EL1 |-> "R18"],
    [R16 |-> "U_SP"], [SP_EL0 |-> "R16"], [R16 |-> "U_PC"], [ELR_EL1 |-> "R16"],
    [R16 |-> "U_PSTATE"], [SPSR_EL1 |-> "R16"],
    [R16 |-> "U_TLS"], [TPIDR_EL0 |-> "R16"], [R16 |-> "EX_SP"], [RSP |-> "R16"]>>

\* Mutant: R18, through which the rest is loaded, is given its value first.
runUserLoadInOrder ==
  <<[R0 |-> "U_R0"], [R16 |-> "U_R16", R17 |-> "U_R17"],
    [R18 |-> "U_R18", R19 |-> "U_R19"], [R20 |-> "U_R20"]>>

\* ... and from there to eret.
runUserLoad ==
  <<[R0 |-> "U_R0"], [R16 |-> "U_R16", R17 |-> "U_R17"], [R20 |-> "U_R20"],
    [R18 |-> "U_R18", R19 |-> "U_R19"]>>

\* Mutant: x18 and x19 are moved through x16 and x17 before those are saved.
SaveX16ToX19Late ==
  <<[R16 |-> "X_R18", R17 |-> "X_R19"], [U_R18 |-> "R16", U_R19 |-> "R17"],
    [U_R16 |-> "R16", U_R17 |-> "R17"]>>

SaveX16ToX19 ==
  <<[U_R16 |-> "R16", U_R17 |-> "R17"], [R16 |-> "X_R18", R17 |-> "X_R19"],
    [U_R18 |-> "R16", U_R19 |-> "R17"]>>

\* lowerSync up to the write of TTBR0_EL1 ...
lowerSyncSave ==
  <<[X_R18 |-> "R18", X_R19 |-> "R19"], [R18 |-> "TPIDR_EL1"], [U_R0 |-> "R0"]>>
  \o SaveX16ToX19
  \o <<[U_R20 |-> "R20"], [R16 |-> "SP_EL0"], [U_SP |-> "R16"],
       [R16 |-> "ELR_EL1"], [U_PC |-> "R16"], [R16 |-> "SPSR_EL1"], [U_PSTATE |-> "R16"],
       [R16 |-> "TPIDR_EL0"], [U_TLS |-> "R16"],
       [R16 |-> "ESR_EL1"], [S_ESR |-> "R16"], [R16 |-> "FAR_EL1"], [S_FAR |-> "R16"]>>

\* Mutant: the goroutine is resumed on the exception stack.
lowerSyncReturnExStack == <<[R19 |-> "K_R19", R20 |-> "K_R20"]>>

\* ... and from there to its return.
lowerSyncReturn ==
  <<[R16 |-> "K_SP"], [RSP |-> "R16"], [R19 |-> "K_R19", R20 |-> "K_R20"]>>

-----------------------------------------------------------------------------
(* Translation. *)

Global == 0
KernelAsid == 1

\* Mutant: the applications have the kernel's ASID.
AppAsidShared == KernelAsid

AppAsid == 2

\* TTBR0_EL1(false, asid): all applications share one ASID.
Asid(space) == IF space = Kernel THEN KernelAsid ELSE AppAsid

\* New: every low page is identity mapped for the kernel, globally and not
\* for EL0.
KernelEntry(page) == [page |-> page, asid |-> Global, frame |-> Kernel]
AppEntry(t, page) == [page |-> page, asid |-> AppAsid, frame |-> table[t][page]]

Matching(space, page) ==
  {e \in tlb : e.page = page /\ e.asid \in {Global, Asid(space)}}

\* The TLB once the kernel has used a page, under its own table.
Touched(page) ==
  tlb \cup (IF Matching(Kernel, page) = {} THEN {KernelEntry(page)} ELSE {})

FlushTlbAll == {}


\* Nobody is between the locking of p.mu and the return of Switch.
Free == \A t \in Tasks : pc[t] \in Waiting \cup {"dead"}

-----------------------------------------------------------------------------
(* Switch, switchToUser and the assembly they run. *)

\* What switchToUser stores into switchState for the task.
Loaded(t) ==
  LET saved == [l \in Locations |->
                  IF \E r \in UserRegs : FieldOf[r] = l
                  THEN ac[t][CHOOSE r \in UserRegs : FieldOf[r] = l]
                  ELSE IF l \in KernelRegs THEN KernelImage(t)[l] ELSE cpu[l]]
  IN [saved EXCEPT !["EX_SP"] = ExStack, !["S_ESR"] = Zero, !["S_FAR"] = Zero]


\* The page of runUser is used again right after the flush.
LoadedTlb == FlushTlbAll \cup {KernelEntry(Text)}

\* switchToUser up to runUser.
Load(t) ==
  /\ pc[t] = "sentry" /\ Free
  /\ cpu' = Loaded(t)
  /\ appTTBR' = t
  /\ tlb' = LoadedTlb
  /\ pc' = [pc EXCEPT ![t] = "loaded"]
  /\ UNCHANGED <<ac, ttbr0, table, vector, fault, own, cause, traps, drops>>

\* Mutant: the TLB is flushed again, behind the write of TTBR0_EL1.
EnteringTlbFlushed == FlushTlbAll

EnteringTlb == Touched(Text)

\* runUser saves the goroutine's registers and writes TTBR0_EL1.
SaveKernel(t) ==
  /\ pc[t] = "loaded"
  /\ cpu' = Run(cpu, runUserSave)
  /\ ttbr0' = appTTBR
  /\ tlb' = EnteringTlb
  /\ pc' = [pc EXCEPT ![t] = "entering"]
  /\ UNCHANGED <<ac, appTTBR, table, vector, fault, own, cause, traps, drops>>

\* The rest of runUser, at a low address under the application's table.
EnterUser(t) ==
  /\ pc[t] = "entering"
  /\ Matching(ttbr0, Text) # {}
  /\ cpu' = Run(cpu, runUserLoad)
  /\ pc' = [pc EXCEPT ![t] = "el0"]
  /\ UNCHANGED <<ac, ttbr0, appTTBR, table, tlb, vector, fault, own, cause,
                 traps, drops>>

\* Without a translation for it the next instruction is an abort of EL1, which
\* unexpectedVector answers by parking the vCPU.  (If the application has a
\* mapping there it is not runUser, and counts as parked too.)
unexpectedVector(t) ==
  /\ pc[t] = "entering"
  /\ Matching(ttbr0, Text) = {}
  /\ pc' = [pc EXCEPT ![t] = "parked"]
  /\ UNCHANGED <<ac, cpu, ttbr0, appTTBR, table, tlb, vector, fault, own, cause,
                 traps, drops>>

\* A task at EL0 uses a page it may use.
Access(t, page) ==
  /\ pc[t] = "el0"
  /\ Matching(ttbr0, page) = {} /\ table[ttbr0][page] # NoFrame
  /\ tlb' = tlb \cup {AppEntry(ttbr0, page)}
  /\ UNCHANGED <<pc, ac, cpu, ttbr0, appTTBR, table, vector, fault, own, cause,
                 traps, drops>>

\* The exception of a task that has meanwhile changed every register, and
\* lowerSync, which ends at a low address of the kernel.
lowerSync(t, class, far) ==
  LET atEL0 == [l \in Locations |->
                  IF l \in UserRegs THEN UserImage(t, traps[t] + 1)[l] ELSE cpu[l]]
      taken == [atEL0 EXCEPT !["ESR_EL1"] = Syndrome(class), !["FAR_EL1"] = far]
  IN /\ pc[t] = "el0" /\ traps[t] < MaxTraps
     /\ cpu' = Run(Run(taken, lowerSyncSave), lowerSyncReturn)
     /\ ttbr0' = Kernel
     /\ tlb' = Touched(Text)
     /\ own' = [own EXCEPT ![t] = UserImage(t, traps[t] + 1)]
     /\ traps' = [traps EXCEPT ![t] = @ + 1]
     /\ pc' = [pc EXCEPT ![t] = "trapped"]
     /\ UNCHANGED <<ac, appTTBR, table, vector, fault, drops>>

\* SVC, or an exception of another class: FAR_EL1 keeps its last value.
Except(t, class) ==
  /\ lowerSync(t, class, cpu["FAR_EL1"])
  /\ UNCHANGED cause

\* A page that is not mapped, or whose translation is the kernel's.
Abort(t, class, page) ==
  /\ pc[t] = "el0"
  /\ \/ \E e \in Matching(ttbr0, page) : e.frame = Kernel
     \/ Matching(ttbr0, page) = {} /\ table[ttbr0][page] = NoFrame
  /\ lowerSync(t, class, Address(page))
  /\ cause' = [cause EXCEPT ![t] = Address(page)]

\* The rest of switchToUser, to the release of p.mu.
CopyBack(t) ==
  /\ pc[t] = "trapped"
  /\ ac' = [ac EXCEPT ![t] = [r \in UserRegs |-> cpu[FieldOf[r]]]]
  /\ vector' = [vector EXCEPT ![t] =
                  CASE cpu["S_ESR"] = Syndrome(21) -> "Syscall"
                    [] cpu["S_ESR"] \in {Syndrome(c) : c \in Aborts} -> "PageFault"
                    [] OTHER -> "El0SyncInv"]
  /\ pc' = [pc EXCEPT ![t] = "unlocked"]
  /\ UNCHANGED <<cpu, ttbr0, appTTBR, table, tlb, fault, own, cause, traps, drops>>

\* The rest of Switch; the Sentry ends a task whose Switch fails.
SwitchReturns(t) ==
  /\ pc[t] = "unlocked"
  /\ pc' = [pc EXCEPT ![t] =
              CASE vector[t] = "Syscall" -> "syscall"
                [] vector[t] = "PageFault" -> "faulted"
                [] OTHER -> "dead"]
  /\ fault' = [fault EXCEPT ![t] =
                 IF vector[t] = "PageFault" THEN cpu["S_FAR"] ELSE Zero]
  /\ vector' = [vector EXCEPT ![t] = "none"]
  /\ UNCHANGED <<ac, cpu, ttbr0, appTTBR, table, tlb, own, cause, traps, drops>>

-----------------------------------------------------------------------------
(* What the Sentry and the rest of the kernel do meanwhile. *)

\* The Sentry dispatches a system call and sets its result.
SetReturn(t) ==
  /\ pc[t] = "syscall" /\ Free
  /\ ac' = [ac EXCEPT ![t]["R0"] = Word(t, "result", traps[t])]
  /\ own' = [own EXCEPT ![t]["R0"] = Word(t, "result", traps[t])]
  /\ pc' = [pc EXCEPT ![t] = "sentry"]
  /\ UNCHANGED <<cpu, ttbr0, appTTBR, table, tlb, vector, fault, cause, traps,
                 drops>>

\* The Sentry has handled a fault: Switch's result is used up.
HandleFault(t) ==
  /\ pc[t] = "faulted" /\ Free
  /\ fault' = [fault EXCEPT ![t] = Zero]
  /\ cause' = [cause EXCEPT ![t] = Zero]
  /\ pc' = [pc EXCEPT ![t] = "sentry"]
  /\ UNCHANGED <<ac, cpu, ttbr0, appTTBR, table, tlb, vector, own, traps,
                 drops>>

\* MapFile: an error after some of the blocks leaves them mapped and returns
\* before the flush.
MapFile(t, blocks, mapped, frame) ==
  /\ pc[t] \in Waiting /\ Free
  /\ table' = [table EXCEPT ![t] =
                 [p \in Pages |->
                    IF \E i \in 1..mapped : blocks[i] = p THEN frame ELSE @[p]]]
  /\ tlb' = IF mapped = Len(blocks) THEN FlushTlbAll ELSE tlb
  /\ UNCHANGED <<pc, ac, cpu, ttbr0, appTTBR, vector, fault, own, cause, traps,
                 drops>>

Unmap(t, pages) ==
  /\ pc[t] \in Waiting /\ Free
  /\ table' = [table EXCEPT ![t] =
                 [p \in Pages |-> IF p \in pages THEN NoFrame ELSE @[p]]]
  /\ tlb' = FlushTlbAll
  /\ UNCHANGED <<pc, ac, cpu, ttbr0, appTTBR, vector, fault, own, cause, traps,
                 drops>>

\* The address space of a task that is gone.
Release(t) ==
  /\ pc[t] = "dead" /\ Free
  /\ table' = [table EXCEPT ![t] = [p \in Pages |-> NoFrame]]
  /\ tlb' = FlushTlbAll
  /\ UNCHANGED <<pc, ac, cpu, ttbr0, appTTBR, vector, fault, own, cause, traps,
                 drops>>

\* Another goroutine, such as Serve at its device, uses a low page.
KernelUses(page) ==
  /\ Free
  /\ tlb' = Touched(page)
  /\ UNCHANGED <<pc, ac, cpu, ttbr0, appTTBR, table, vector, fault, own, cause,
                 traps, drops>>

\* The TLB makes room.
Drop(e) ==
  /\ drops < MaxDrops
  /\ tlb' = tlb \ {e}
  /\ drops' = drops + 1
  /\ UNCHANGED <<pc, ac, cpu, ttbr0, appTTBR, table, vector, fault, own, cause,
                 traps>>

-----------------------------------------------------------------------------
Init ==
  /\ pc = [t \in Tasks |-> "sentry"]
  /\ ac = [t \in Tasks |-> UserImage(t, 0)]
  /\ cpu = [l \in Locations |-> IF l = "state" THEN State ELSE Zero]
  /\ ttbr0 = Kernel
  /\ appTTBR = Kernel
  /\ table = [t \in Tasks |-> [p \in Pages |-> NoFrame]]
  /\ tlb = {}
  /\ vector = [t \in Tasks |-> "none"]
  /\ fault = [t \in Tasks |-> Zero]
  /\ own = [t \in Tasks |-> UserImage(t, 0)]
  /\ cause = [t \in Tasks |-> Zero]
  /\ traps = [t \in Tasks |-> 0]
  /\ drops = 0

Switch(t) ==
  \/ Load(t) \/ SaveKernel(t) \/ EnterUser(t) \/ unexpectedVector(t)
  \/ CopyBack(t) \/ SwitchReturns(t)

Application(t) ==
  \/ \E p \in Pages : Access(t, p)
  \/ \E c \in Classes \ Aborts : Except(t, c)
  \/ \E c \in Aborts, p \in Pages : Abort(t, c, p)

Sentry(t) ==
  \/ SetReturn(t) \/ HandleFault(t) \/ Release(t)
  \/ \E blocks \in {<<p>> : p \in Pages} \cup {<<p, q>> : p \in Pages, q \in Pages} :
       \E n \in 0..Len(blocks), f \in Frames : MapFile(t, blocks, n, f)
  \/ \E pages \in SUBSET Pages : Unmap(t, pages)

Next ==
  \/ \E t \in Tasks : Switch(t) \/ Application(t) \/ Sentry(t)
  \/ \E p \in Pages : KernelUses(p)
  \/ \E e \in tlb : Drop(e)

Spec == Init /\ [][Next]_vars

-----------------------------------------------------------------------------
Entry == [page : Pages, asid : {Global, KernelAsid, AppAsid},
          frame : Frames \cup {Kernel}]

\* Every variable keeps its type, and no instruction of runUser or lowerSync
\* reads through a register that does not hold its base.
PlatformTypeOK ==
  /\ pc \in [Tasks -> Places]
  /\ \A t \in Tasks : DOMAIN ac[t] = UserRegs /\ DOMAIN own[t] = UserRegs
  /\ DOMAIN cpu = Locations /\ \A l \in Locations : cpu[l] # Stray
  /\ ttbr0 \in Tasks \cup {Kernel} /\ appTTBR \in Tasks \cup {Kernel}
  /\ table \in [Tasks -> [Pages -> Frames \cup {NoFrame}]]
  /\ tlb \subseteq Entry
  /\ vector \in [Tasks -> {"none", "Syscall", "PageFault", "El0SyncInv"}]
  /\ traps \in [Tasks -> 0..MaxTraps] /\ drops \in 0..MaxDrops
  /\ Cardinality({t \in Tasks : pc[t] \in Locked}) <= 1

\* A task that runs at EL0 sees the registers it had at its last exception,
\* with the result of its system call, whatever ran in between: runUser and
\* lowerSync lose none, although two of them serve as scratch and as the base.
RegistersSurvive ==
  \A t \in Tasks : pc[t] = "el0" => \A r \in UserRegs : cpu[r] = own[t][r]

\* runUser returns to its goroutine with the stack, the callee's registers and
\* the table it was called with.
KernelSurvives ==
  \A t \in Tasks : pc[t] = "trapped" =>
    ttbr0 = Kernel /\ \A r \in KernelRegs : cpu[r] = KernelImage(t)[r]


\* The way back to the kernel flushes nothing: what an application has used
\* must not translate the kernel's own accesses to the same addresses.
KernelTranslations ==
  ttbr0 = Kernel => \A p \in Pages : \A e \in Matching(Kernel, p) : e.frame = Kernel


\* Between the write of TTBR0_EL1 and eret, runUser is executed at an address
\* the application's table does not map.  It gets through on the translation
\* cached before, and hangs only if the TLB has dropped it.
EntersUnlessDropped == \A t \in Tasks : pc[t] = "parked" => drops > 0
=============================================================================
