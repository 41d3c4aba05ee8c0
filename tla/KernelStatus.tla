----------------------------- MODULE KernelStatus -----------------------------
(***************************************************************************)
(* What the kernel says of itself: the boot in main (kernel/main.go), the  *)
(* goroutine that starts Sentry and runs the hello task (gvisor_probe.go,  *)
(* gvisor_sentry.go), the one that brings the network up and probes it     *)
(* (network_tamago.go), and the /status handler that snapshots the two     *)
(* reports one after the other.                                            *)
(*                                                                         *)
(* An action ends at the lock that publishes its result, so everything     *)
(* /status can see of an interleaving is a state here.                     *)
(***************************************************************************)
EXTENDS Naturals, Sequences, FiniteSets

CONSTANTS
  MaxStackErrs,  \* bound: errors the running interface reports
  MaxPolicy      \* bound: changes of the host's policy

ASSUME StatusAssumption == MaxStackErrs \in Nat /\ MaxPolicy \in Nat

VARIABLES
  main,       \* main's goroutine: "probe", "find", "serving" or "halted"
  reply,      \* what the /status handler has read and sent
  sentry,     \* startGVisorSentry's goroutine
  gvisor,     \* gvisorStage, gvisorSentryError, gvisorEL0Output
  ipStack,    \* sentryIPStack is set
  taskRan,    \* history: the hello task exited with status 0
  internet,   \* startInternetNetworking's goroutine
  network,    \* networkReport
  policy,     \* the host lets this lease reach DNS and the Internet
  errs, changes

sentryVars == <<sentry, gvisor, ipStack, taskRan>>
internetVars == <<internet, network>>
servingVars == <<main, reply>>
worldVars == <<policy, errs, changes>>
vars == <<sentryVars, internetVars, servingVars, worldVars>>

\* The stages runSentryHello reports, in order.
Stages == <<"memory-file", "vdso", "timekeeper", "kernel-init", "rootfs",
            "stdio", "elf-load", "task-running", "task-exited">>

GVisor == [stage : {"platform", "sentry-starting", "ready", "failed"}
                     \cup {Stages[i] : i \in DOMAIN Stages},
           error : {"", "error"}, output : {"", "hello", "wrong"}]

Network == [phase : {"waiting-for-sentry", "discovering-virtio-net", "dhcp",
                     "failed", "online", "degraded"},
            leased : BOOLEAN, probed : BOOLEAN,
            error : {"", "no stack", "no device", "no lease", "no interface",
                     "stack", "probe"}]

\* A reply of /status, sent or half made: the two snapshots.
Reply == [at : {"half", "sent"}, gvisor : GVisor, network : Network]

Boot ==
  [gvisor |-> [stage |-> "platform", error |-> "", output |-> ""],
   network |-> [phase |-> "waiting-for-sentry", leased |-> FALSE,
                probed |-> FALSE, error |-> ""]]

Running == main # "halted"

------------------------------------------------------------------------------
(* main: log.Fatal ends in terminate, which stops the virtual machine.     *)

\* gvisorKernelProbe keeps the output of RunEL0Smoke.
KernelProbe ==
  /\ main = "probe"
  /\ \E output \in {"", "hello", "wrong"} :
       /\ gvisor' = [gvisor EXCEPT !.output = output]
       /\ main' = IF output = "hello" THEN "find" ELSE "halted"
  /\ UNCHANGED <<reply, sentry, ipStack, taskRan, internetVars, worldVars>>

FindVsock ==
  /\ main = "find"
  /\ \/ main' = "halted" /\ UNCHANGED sentry
     \/ main' = "serving" /\ sentry' = "go"
  /\ UNCHANGED <<reply, gvisor, ipStack, taskRan, internetVars, worldVars>>

ServeFails ==
  /\ main = "serving" /\ main' = "halted"
  /\ UNCHANGED <<reply, sentryVars, internetVars, worldVars>>

\* handleRequest for /status, called by Serve: one snapshot after the other,
\* each under its own lock, and the reply made of both.
SnapshotGVisor ==
  /\ main = "serving" /\ reply.at = "sent"
  /\ reply' = [at |-> "half", gvisor |-> gvisor, network |-> Boot.network]
  /\ UNCHANGED <<main, sentryVars, internetVars, worldVars>>

SnapshotNetwork ==
  /\ main = "serving" /\ reply.at = "half"
  /\ reply' = [reply EXCEPT !.at = "sent", !.network = network]
  /\ UNCHANGED <<main, sentryVars, internetVars, worldVars>>

Main == KernelProbe \/ FindVsock

Serve == SnapshotGVisor \/ SnapshotNetwork

------------------------------------------------------------------------------
(* startGVisorSentry and runSentryHello.                                   *)

Stage(i) ==
  /\ sentry' = Stages[i] /\ gvisor' = [gvisor EXCEPT !.stage = Stages[i]]

StartSentry ==
  /\ Running /\ sentry = "go"
  /\ sentry' = "starting" /\ gvisor' = [gvisor EXCEPT !.stage = "sentry-starting"]
  /\ UNCHANGED <<ipStack, taskRan, internetVars, servingVars, worldVars>>

\* newSentryNetworkNamespace sets sentryIPStack between the third stage and
\* the fourth; the task has exited when the last stage is entered.
EnterStage ==
  /\ Running
  /\ \E i \in DOMAIN Stages :
       /\ IF i = 1 THEN sentry = "starting"
          ELSE IF Stages[i] = "rootfs" THEN sentry = "kernel-up"
          ELSE sentry = Stages[i-1]
       /\ Stage(i)
       /\ ipStack' = (ipStack \/ Stages[i] = "kernel-init")
  /\ UNCHANGED <<taskRan, internetVars, servingVars, worldVars>>

\* Mutant: it starts before the namespace is made.
KernelUpEarly ==
  \/ /\ Running /\ sentry = "kernel-init"
     /\ sentry' = "kernel-up"
     /\ UNCHANGED <<gvisor, ipStack, taskRan, internetVars, servingVars, worldVars>>
  \/ /\ Running /\ sentry = "timekeeper" /\ internet = "none"
     /\ internet' = "go"
     /\ UNCHANGED <<sentryVars, network, servingVars, worldVars>>

\* The network's goroutine starts as soon as the kernel is initialised.
KernelUp ==
  /\ Running /\ sentry = "kernel-init"
  /\ sentry' = "kernel-up" /\ internet' = "go"
  /\ UNCHANGED <<gvisor, ipStack, taskRan, network, servingVars, worldVars>>

\* The stages whose work returns errors; "task-exited" also stands for a task
\* that exits with another status and for a pipe that cannot be read.
Fallible == {"vdso", "kernel-init", "rootfs", "stdio", "elf-load",
             "task-running", "task-exited"}

\* Mutant: setGVisorFailure swaps the stage and the error.
SentryFailsSwapped ==
  /\ Running /\ sentry \in Fallible
  /\ sentry' = "done"
  /\ gvisor' = [gvisor EXCEPT !.error = "failed", !.stage = "error"]
  /\ UNCHANGED <<ipStack, taskRan, internetVars, servingVars, worldVars>>

SentryFails ==
  /\ Running /\ sentry \in Fallible
  /\ sentry' = "done"
  /\ gvisor' = [gvisor EXCEPT !.error = "error", !.stage = "failed"]
  /\ UNCHANGED <<ipStack, taskRan, internetVars, servingVars, worldVars>>

\* The output runSentryHello read from the task's pipe.
ReportOutput ==
  /\ Running /\ sentry = "task-exited"
  /\ taskRan' = TRUE
  /\ \E output \in {"hello", "wrong"} : gvisor' = [gvisor EXCEPT !.output = output]
  /\ sentry' = "reported"
  /\ UNCHANGED <<ipStack, internetVars, servingVars, worldVars>>

\* Mutant: ready, whatever the task wrote.
ReportResultBlind ==
  /\ Running /\ sentry = "reported"
  /\ sentry' = "done" /\ gvisor' = [gvisor EXCEPT !.stage = "ready"]
  /\ UNCHANGED <<ipStack, taskRan, internetVars, servingVars, worldVars>>

\* GlobalInit cannot be nil after CreateProcess, so the output decides.
ReportResult ==
  /\ Running /\ sentry = "reported"
  /\ sentry' = "done"
  /\ gvisor' = IF gvisor.output = "hello" THEN [gvisor EXCEPT !.stage = "ready"]
               ELSE [gvisor EXCEPT !.error = "error", !.stage = "failed"]
  /\ UNCHANGED <<ipStack, taskRan, internetVars, servingVars, worldVars>>

Sentry == StartSentry \/ EnterStage \/ KernelUp \/ SentryFails \/ ReportOutput \/ ReportResult

------------------------------------------------------------------------------
(* startInternetNetworking and probeInternetUntilReady.                    *)

NetworkStep(from, to, update) ==
  /\ Running /\ internet = from /\ internet' = to
  /\ network' = update
  /\ UNCHANGED <<sentryVars, servingVars, worldVars>>

Failed(why) == [network EXCEPT !.phase = "failed", !.error = why]

StartNetworking ==
  IF ipStack
  THEN NetworkStep("go", "find", [network EXCEPT !.phase = "discovering-virtio-net"])
  ELSE NetworkStep("go", "done", Failed("no stack"))

FindVirtioNet ==
  \/ NetworkStep("find", "acquire", [network EXCEPT !.phase = "dhcp"])
  \/ NetworkStep("find", "done", Failed("no device"))

\* Client.Acquire, the DhcpClient module.
AcquireLease ==
  \/ NetworkStep("acquire", "configure", network)
  \/ NetworkStep("acquire", "done", Failed("no lease"))

\* From here on the interface runs and may call HandleStackErr.
ConfigureInterface ==
  \/ NetworkStep("configure", "report", network)
  \/ NetworkStep("configure", "done", Failed("no interface"))

ReportOnline ==
  NetworkStep("report", "probe",
              [network EXCEPT !.phase = "online", !.leased = TRUE, !.error = ""])

\* Mutant: one probe.
probeInternetOnce ==
  IF policy
  THEN NetworkStep("probe", "up",
                   [network EXCEPT !.phase = "online", !.probed = TRUE, !.error = ""])
  ELSE NetworkStep("probe", "done", [network EXCEPT !.phase = "degraded", !.error = "probe"])

probeInternet ==
  IF policy
  THEN NetworkStep("probe", "up",
                   [network EXCEPT !.phase = "online", !.probed = TRUE, !.error = ""])
  ELSE NetworkStep("probe", "wait",
                   [network EXCEPT !.phase = "degraded", !.probed = FALSE, !.error = "probe"])

RetryProbe == NetworkStep("wait", "probe", network)

Internet ==
  \/ StartNetworking \/ FindVirtioNet \/ AcquireLease \/ ConfigureInterface
  \/ ReportOnline \/ probeInternet \/ RetryProbe

HandleStackErr ==
  /\ Running /\ internet \in {"report", "probe", "wait", "up"}
  /\ errs < MaxStackErrs /\ errs' = errs + 1
  /\ network' = [network EXCEPT !.error = "stack"]
  /\ UNCHANGED <<internet, sentryVars, servingVars, policy, changes>>

\* The host grants the lease its way out, or takes it back.
HostPolicy ==
  /\ changes < MaxPolicy /\ changes' = changes + 1
  /\ policy' = ~policy
  /\ UNCHANGED <<sentryVars, internetVars, servingVars, errs>>

------------------------------------------------------------------------------
Init ==
  /\ main = "probe"
  /\ reply = [at |-> "sent", gvisor |-> Boot.gvisor, network |-> Boot.network]
  /\ sentry = "none" /\ gvisor = Boot.gvisor /\ ipStack = FALSE /\ taskRan = FALSE
  /\ internet = "none" /\ network = Boot.network
  /\ policy \in BOOLEAN /\ errs = 0 /\ changes = 0

Next ==
  Main \/ ServeFails \/ Serve \/ Sentry \/ Internet \/ HandleStackErr \/ HostPolicy

Spec == Init /\ [][Next]_vars

\* Serve sleeps in a round that finds nothing to do, and the host has finitely
\* much to say before such a round: every goroutine runs.
FairSpec == Spec /\ WF_vars(Main) /\ WF_vars(Sentry) /\ WF_vars(Internet)

------------------------------------------------------------------------------
StatusTypeOK ==
  /\ main \in {"probe", "find", "serving", "halted"} /\ reply \in Reply
  /\ sentry \in {"none", "go", "starting", "kernel-up", "reported", "done"}
                 \cup {Stages[i] : i \in DOMAIN Stages}
  /\ gvisor \in GVisor /\ ipStack \in BOOLEAN /\ taskRan \in BOOLEAN
  /\ internet \in {"none", "go", "find", "acquire", "configure", "report",
                   "probe", "wait", "up", "done"}
  /\ network \in Network
  /\ policy \in BOOLEAN /\ errs \in 0 .. MaxStackErrs /\ changes \in 0 .. MaxPolicy

\* No reply claims more than happened, whenever the goroutines ran between and
\* during its two snapshots: "ready" follows the task's own output, a failure
\* says why, and an online or degraded network has a lease and shows the
\* probe's result only while it is online.
StatusIsEarned ==
  LET g == reply.gvisor n == reply.network IN
  reply.at = "sent" =>
    /\ g.stage = "ready" => taskRan /\ g.output = "hello" /\ g.error = ""
    /\ g.stage = "failed" => g.error # ""
    /\ n.phase \in {"failed", "degraded"} => n.error # ""
    /\ n.phase \in {"online", "degraded"} => n.leased
    /\ n.probed => n.phase = "online"

\* The network's goroutine finds the stack that runSentryHello made for it:
\* the failure startInternetNetworking provides for never happens.
StackBeforeNetwork == network.error # "no stack"

\* A degraded boot result does not last (network_tamago.go:124-127): once the
\* host's policy lets the lease out for good, the probe succeeds.
ProbeRecovers ==
  <>[]policy =>
    (internet = "probe" ~> [](main = "halted" \/ (network.phase = "online" /\ network.probed)))

\* "Captured from the embedded Linux/AArch64 task running inside gVisor Sentry"
\* (Plugin.js:88): the output the page shows is the task's.
OutputIsTheTasks == reply.at = "sent" /\ reply.gvisor.output # "" => taskRan
=============================================================================
