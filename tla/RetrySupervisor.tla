-------------------------- MODULE RetrySupervisor --------------------------
(***************************************************************************)
(* The supervisor of the retry handler's DaemonSet (pkg/retryhandler): one *)
(* goroutine per CXI device keeps a cxi_rh process running for it, and     *)
(* Stop, called on SIGTERM, closes stopCh, cancels the handlers' contexts  *)
(* and waits for the goroutines.                                           *)
(*                                                                         *)
(* A step of a goroutine is what it does between two points where another  *)
(* one can see it: the critical sections of a handler's mutex, the selects *)
(* on stopCh, and the start and end of the process.  The duration of the   *)
(* backoff is left out: the timer fires some time.                         *)
(*                                                                         *)
(* An operator introduced as a slip is a variant of the next one, as a     *)
(* plausible bug would have it: a property it breaks rests on the code.    *)
(***************************************************************************)
EXTENDS Naturals, FiniteSets

CONSTANTS
    Devices,   \* the devices DiscoverDevices found at Start
    MaxExits   \* bound: exits with an error, of one device's process

ASSUME BoundAssumption == MaxExits \in Nat

VARIABLES
    pc,         \* where each runHandler goroutine is
    proc,       \* its cxi_rh process, or how it ended
    cancelled,  \* the context of the present run has been cancelled
    running,    \* handlerProcess.running
    restarts,   \* handlerProcess.restartCount
    stop,       \* how far Stop has come
    todo,       \* handlers Stop has not cancelled yet
    health,     \* the goroutine of the health server runs
    late        \* processes each goroutine started after stopCh was closed

handlers == <<pc, proc, cancelled, running, restarts, late>>
vars == <<pc, proc, cancelled, running, restarts, stop, todo, health, late>>

Labels == {"check", "arm", "launch", "mark", "run", "exited", "wait", "done"}
Processes == {"none", "alive", "clean", "failed"}
Phases == {"none", "cancelling", "waiting", "done"}

TypeOK ==
    /\ pc \in [Devices -> Labels]
    /\ proc \in [Devices -> Processes]
    /\ cancelled \in [Devices -> BOOLEAN]
    /\ running \in [Devices -> BOOLEAN]
    /\ restarts \in [Devices -> Nat]
    /\ stop \in Phases
    /\ todo \subseteq Devices
    /\ health \in BOOLEAN
    /\ late \in [Devices -> Nat]

\* Start has discovered the devices and begun a goroutine for each.
Init ==
    /\ pc = [d \in Devices |-> "check"]
    /\ proc = [d \in Devices |-> "none"]
    /\ cancelled = [d \in Devices |-> FALSE]
    /\ running = [d \in Devices |-> FALSE]
    /\ restarts = [d \in Devices |-> 0]
    /\ stop = "none"
    /\ todo = {}
    /\ health = TRUE
    /\ late = [d \in Devices |-> 0]

\* stopCh is closed.
Stopped == stop # "none"

Goto(d, label) == pc' = [pc EXCEPT ![d] = label]

-----------------------------------------------------------------------------
(***************************************************************************)
(* runHandler and runCXIRH.                                                *)
(***************************************************************************)

Check(d) ==
    /\ pc[d] = "check"
    /\ Goto(d, IF Stopped THEN "done" ELSE "arm")
    /\ UNCHANGED <<proc, cancelled, running, restarts, stop, todo, health, late>>

\* A new context, and its cancel function in h.cancel.
Arm(d) ==
    /\ pc[d] = "arm"
    /\ cancelled' = [cancelled EXCEPT ![d] = FALSE]
    /\ Goto(d, "launch")
    /\ UNCHANGED <<proc, running, restarts, stop, todo, health, late>>

\* cmd.Start, which refuses a cancelled context, after the look for the binary.
Launch(d) ==
    /\ pc[d] = "launch"
    /\ \/ /\ ~cancelled[d]
          /\ proc' = [proc EXCEPT ![d] = "alive"]
          /\ late' = [late EXCEPT ![d] = IF Stopped THEN @ + 1 ELSE @]
          /\ Goto(d, "mark")
       \/ /\ cancelled[d] \/ restarts[d] < MaxExits
          /\ proc' = [proc EXCEPT ![d] = "failed"]
          /\ Goto(d, "run")
          /\ UNCHANGED late
    /\ UNCHANGED <<cancelled, running, restarts, stop, todo, health>>

Mark(d) ==
    /\ pc[d] = "mark"
    /\ running' = [running EXCEPT ![d] = TRUE]
    /\ Goto(d, "run")
    /\ UNCHANGED <<proc, cancelled, restarts, stop, todo, health, late>>

\* Slip: a run that ends well takes a restart back.
ReapTakingBack(d) ==
    /\ pc[d] = "run"
    /\ proc[d] \in {"clean", "failed"}
    /\ proc' = [proc EXCEPT ![d] = "none"]
    /\ running' = [running EXCEPT ![d] = FALSE]
    /\ restarts' = [restarts EXCEPT ![d] = IF proc[d] = "failed" THEN @ + 1 ELSE @ - 1]
    /\ Goto(d, "exited")
    /\ UNCHANGED <<cancelled, stop, todo, health, late>>

\* Slip: h.running is reset beside h.lastError, for an exit with an error.
ReapKeepingRunning(d) ==
    /\ pc[d] = "run"
    /\ proc[d] \in {"clean", "failed"}
    /\ proc' = [proc EXCEPT ![d] = "none"]
    /\ running' = [running EXCEPT ![d] = @ /\ proc[d] = "clean"]
    /\ restarts' = [restarts EXCEPT ![d] = IF proc[d] = "failed" THEN @ + 1 ELSE @]
    /\ Goto(d, "exited")
    /\ UNCHANGED <<cancelled, stop, todo, health, late>>

\* cmd.Wait returns and the handler is brought up to date: only an exit with
\* an error counts.
Reap(d) ==
    /\ pc[d] = "run"
    /\ proc[d] \in {"clean", "failed"}
    /\ proc' = [proc EXCEPT ![d] = "none"]
    /\ running' = [running EXCEPT ![d] = FALSE]
    /\ restarts' = [restarts EXCEPT ![d] = IF proc[d] = "failed" THEN @ + 1 ELSE @]
    /\ Goto(d, "exited")
    /\ UNCHANGED <<cancelled, stop, todo, health, late>>

\* Slip: the first restart is immediate, and looks at stopCh no more.
RecheckNever(d) ==
    /\ pc[d] = "exited"
    /\ Goto(d, "arm")
    /\ UNCHANGED <<proc, cancelled, running, restarts, stop, todo, health, late>>

\* Slip: a handler that failed is left alone.
RecheckGivingUp(d) ==
    /\ pc[d] = "exited"
    /\ Goto(d, IF Stopped \/ restarts[d] > 0 THEN "done" ELSE "wait")
    /\ UNCHANGED <<proc, cancelled, running, restarts, stop, todo, health, late>>

Recheck(d) ==
    /\ pc[d] = "exited"
    /\ Goto(d, IF Stopped THEN "done" ELSE "wait")
    /\ UNCHANGED <<proc, cancelled, running, restarts, stop, todo, health, late>>

\* The select takes either case when the timer fires after stopCh is closed.
Wait(d) ==
    /\ pc[d] = "wait"
    /\ \/ Goto(d, "check")
       \/ Stopped /\ Goto(d, "done")
    /\ UNCHANGED <<proc, cancelled, running, restarts, stop, todo, health, late>>

Handler(d) ==
    Check(d) \/ Arm(d) \/ Launch(d) \/ Mark(d) \/ Reap(d) \/ Recheck(d) \/ Wait(d)

-----------------------------------------------------------------------------
(***************************************************************************)
(* The cxi_rh process, which may run for ever, and CommandContext, which   *)
(* kills it when its context is cancelled.                                 *)
(***************************************************************************)

ProcessExits(d) ==
    /\ proc[d] = "alive"
    /\ \/ proc' = [proc EXCEPT ![d] = "clean"]
       \/ restarts[d] < MaxExits /\ proc' = [proc EXCEPT ![d] = "failed"]
    /\ UNCHANGED <<pc, cancelled, running, restarts, stop, todo, health, late>>

Kill(d) ==
    /\ proc[d] = "alive"
    /\ cancelled[d]
    /\ proc' = [proc EXCEPT ![d] = "failed"]
    /\ UNCHANGED <<pc, cancelled, running, restarts, stop, todo, health, late>>

-----------------------------------------------------------------------------
(***************************************************************************)
(* Stop.                                                                   *)
(***************************************************************************)

CloseStopCh ==
    /\ stop = "none"
    /\ stop' = "cancelling"
    /\ todo' = Devices
    /\ UNCHANGED <<handlers, health>>

\* h.cancel is of the run that is under way, or it is nil or of an earlier
\* run, and calling it changes nothing.
InRun(d) == pc[d] \in {"launch", "mark", "run"}

\* Slip: Stop cancels the handlers that are marked as running.
CancelRunning(d) ==
    /\ stop = "cancelling"
    /\ d \in todo
    /\ todo' = todo \ {d}
    /\ cancelled' = [cancelled EXCEPT ![d] = @ \/ running[d]]
    /\ UNCHANGED <<pc, proc, running, restarts, stop, health, late>>

Cancel(d) ==
    /\ stop = "cancelling"
    /\ d \in todo
    /\ todo' = todo \ {d}
    /\ cancelled' = [cancelled EXCEPT ![d] = @ \/ InRun(d)]
    /\ UNCHANGED <<pc, proc, running, restarts, stop, health, late>>

AwaitHandlers ==
    /\ stop = "cancelling"
    /\ todo = {}
    /\ stop' = "waiting"
    /\ UNCHANGED <<handlers, todo, health>>

\* ListenAndServe fails, or stopCh is closed and the server is shut down.
HealthServerExits ==
    /\ health
    /\ health' = FALSE
    /\ UNCHANGED <<handlers, stop, todo>>

\* Slip: the wait group counts the health server alone.
StopReturnsEarly ==
    /\ stop = "waiting"
    /\ ~health
    /\ stop' = "done"
    /\ UNCHANGED <<handlers, todo, health>>

StopReturns ==
    /\ stop = "waiting"
    /\ ~health
    /\ \A d \in Devices : pc[d] = "done"
    /\ stop' = "done"
    /\ UNCHANGED <<handlers, todo, health>>

Stop == CloseStopCh \/ (\E d \in Devices : Cancel(d)) \/ AwaitHandlers \/ StopReturns

Next ==
    \/ \E d \in Devices : Handler(d) \/ ProcessExits(d) \/ Kill(d)
    \/ Stop \/ HealthServerExits

Spec == Init /\ [][Next]_vars

\* Goroutines run, timers fire, a cancelled context kills; nothing makes the
\* SIGTERM come, a process end by itself or the health server fail.
Fairness ==
    /\ \A d \in Devices : WF_vars(Handler(d)) /\ WF_vars(Kill(d)) /\ WF_vars(Cancel(d))
    /\ WF_vars(AwaitHandlers) /\ WF_vars(StopReturns)
    /\ WF_vars(Stopped /\ HealthServerExits)

FairSpec == Spec /\ Fairness

-----------------------------------------------------------------------------
(***************************************************************************)
(* Properties.                                                             *)
(***************************************************************************)

\* Once stopCh is closed a goroutine starts at most one more process: the one
\* whose loop had passed the select before.
LateLaunchOnce == \A d \in Devices : late[d] <= 1

\* When Stop returns nothing is left running and nothing is reported to run.
StopLeavesNothing ==
    stop = "done" => \A d \in Devices : proc[d] # "alive" /\ ~running[d]

\* /healthz and /status report a device as running only while its goroutine
\* is waiting for a process it started.
RunningIsLaunched == \A d \in Devices : running[d] => pc[d] = "run" /\ proc[d] # "none"

(***************************************************************************)
(* The supervisor keeps the promise of ProcessSupervisor: a process that   *)
(* cmd.Start began is one of its device's, one that ended is noticed when  *)
(* the goroutine is brought up to date, /healthz and /status report what   *)
(* h.running says, and Stop closes the supervisor.                         *)
(***************************************************************************)
Promise == INSTANCE ProcessSupervisor WITH
    process <- [d \in Devices |-> IF proc[d] \in {"clean", "failed"} THEN "ended" ELSE proc[d]],
    reported <- {d \in Devices : running[d]},
    phase <- IF stop = "none" THEN "open" ELSE IF stop = "done" THEN "closed" ELSE "closing",
    spare <- {d \in Devices : late[d] = 0}

KeepsPromise == Promise!Spec

\* A handler whose process ended is started again, unless it is stopped.
KeepsTrying == \A d \in Devices : pc[d] = "exited" ~> (InRun(d) \/ Stopped)

\* Only a process started after stopCh was closed can keep Stop from returning.
StopCompletesUnlessLate ==
    [](\A d \in Devices : late[d] = 0) => (Stopped ~> stop = "done")

\* Stop returns (the test of Stop gives it a few seconds).
StopCompletes == Stopped ~> stop = "done"
=============================================================================
