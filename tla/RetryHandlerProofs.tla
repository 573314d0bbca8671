------------------------- MODULE RetryHandlerProofs -------------------------
(***************************************************************************)
(* Proofs of the safety properties of RetrySupervisor and RetryMetrics,    *)
(* for every set of devices and every bound.                               *)
(***************************************************************************)
EXTENDS RetryMetrics, TLAPS

(***************************************************************************)
(* The supervisor.                                                         *)
(*                                                                         *)
(* The inductive invariant relates each goroutine's label to what it holds *)
(* there: a process only between Launch and Reap, h.running only between   *)
(* Mark and Reap, and a process started late only until stopCh is looked   *)
(* at again.                                                               *)
(***************************************************************************)

\* A process exists only while its goroutine is about to wait for it.
ProcessIsOwned ==
    \A d \in Devices : proc[d] # "none" => pc[d] \in {"mark", "run"}

\* A goroutine that waits for a process has one.
WaiterHasProcess ==
    \A d \in Devices : pc[d] \in {"mark", "run"} => proc[d] # "none"

RunningIsMarked ==
    \A d \in Devices : running[d] => pc[d] = "run"

\* A late process was started after the last look at stopCh, and the next look ends
\* the goroutine.
LateIsLast ==
    \A d \in Devices :
        \/ late[d] = 0
        \/ late[d] = 1 /\ Stopped /\ pc[d] \in {"mark", "run", "exited", "done"}

DoneIsDone ==
    stop = "done" => \A d \in Devices : pc[d] = "done"

IInv ==
    /\ TypeOK
    /\ ProcessIsOwned
    /\ WaiterHasProcess
    /\ RunningIsMarked
    /\ LateIsLast
    /\ DoneIsDone

-----------------------------------------------------------------------------

\* The supervisor has just started and satisfies the invariant.
LEMMA InitIInv == Init => IInv
  BY SMT DEF Init, IInv, TypeOK, Labels, Processes, Phases, ProcessIsOwned,
    WaiterHasProcess, RunningIsMarked, LateIsLast, DoneIsDone, Stopped

\* Types are kept by every step of a goroutine, a process or Stop.
LEMMA TypeStep == TypeOK /\ [Next]_vars => TypeOK'
<1> SUFFICES ASSUME TypeOK, [Next]_vars PROVE TypeOK'
  OBVIOUS
<1> USE DEF TypeOK, Labels, Processes, Phases
<1>1. ASSUME NEW d \in Devices, Check(d) \/ Arm(d) PROVE TypeOK'
  BY <1>1 DEF Check, Arm, Goto
<1>2. ASSUME NEW d \in Devices, Launch(d) PROVE TypeOK'
  <2>1. CASE pc' = [pc EXCEPT ![d] = "mark"] /\ proc' = [proc EXCEPT ![d] = "alive"]
             /\ late' = [late EXCEPT ![d] = IF Stopped THEN @ + 1 ELSE @]
    BY <1>2, <2>1 DEF Launch
  <2>2. CASE pc' = [pc EXCEPT ![d] = "run"] /\ proc' = [proc EXCEPT ![d] = "failed"]
             /\ UNCHANGED late
    BY <1>2, <2>2 DEF Launch
  <2> QED
    BY <1>2, <2>1, <2>2 DEF Launch, Goto
<1>3. ASSUME NEW d \in Devices, Mark(d) PROVE TypeOK'
  BY <1>3 DEF Mark, Goto
<1>4. ASSUME NEW d \in Devices, Reap(d) PROVE TypeOK'
  BY <1>4 DEF Reap, Goto
<1>5. ASSUME NEW d \in Devices, Recheck(d) \/ Wait(d) PROVE TypeOK'
  BY <1>5 DEF Recheck, Wait, Goto
<1>6. ASSUME NEW d \in Devices, ProcessExits(d) \/ Kill(d) PROVE TypeOK'
  BY <1>6 DEF ProcessExits, Kill
<1>7. CASE CloseStopCh \/ AwaitHandlers \/ StopReturns \/ HealthServerExits
  BY <1>7 DEF CloseStopCh, AwaitHandlers, StopReturns, HealthServerExits, handlers
<1>8. ASSUME NEW d \in Devices, Cancel(d) PROVE TypeOK'
  BY <1>8 DEF Cancel, InRun
<1>9. CASE UNCHANGED vars
  BY <1>9 DEF vars
<1> QED
  BY <1>1, <1>2, <1>3, <1>4, <1>5, <1>6, <1>7, <1>8, <1>9 DEF Next, Handler, Stop

\* A goroutine has a process exactly between its start and its Wait.
LEMMA ProcessStep ==
    IInv /\ [Next]_vars => ProcessIsOwned' /\ WaiterHasProcess' /\ RunningIsMarked'
<1> SUFFICES ASSUME IInv, [Next]_vars
             PROVE  ProcessIsOwned' /\ WaiterHasProcess' /\ RunningIsMarked'
  OBVIOUS
<1> USE DEF IInv, TypeOK, ProcessIsOwned, WaiterHasProcess, RunningIsMarked
<1>1. ASSUME NEW d \in Devices, Check(d) \/ Arm(d) \/ Recheck(d) \/ Wait(d)
      PROVE ProcessIsOwned' /\ WaiterHasProcess' /\ RunningIsMarked'
  BY <1>1 DEF Check, Arm, Recheck, Wait, Goto
<1>2. ASSUME NEW d \in Devices, Launch(d)
      PROVE ProcessIsOwned' /\ WaiterHasProcess' /\ RunningIsMarked'
  BY <1>2 DEF Launch, Goto
<1>3. ASSUME NEW d \in Devices, Mark(d) \/ Reap(d)
      PROVE ProcessIsOwned' /\ WaiterHasProcess' /\ RunningIsMarked'
  BY <1>3 DEF Mark, Reap, Goto
<1>4. ASSUME NEW d \in Devices, ProcessExits(d) \/ Kill(d) \/ Cancel(d)
      PROVE ProcessIsOwned' /\ WaiterHasProcess' /\ RunningIsMarked'
  BY <1>4 DEF ProcessExits, Kill, Cancel
<1>5. CASE CloseStopCh \/ AwaitHandlers \/ StopReturns \/ HealthServerExits \/ UNCHANGED vars
  BY <1>5 DEF CloseStopCh, AwaitHandlers, StopReturns, HealthServerExits, handlers, vars
<1> QED
  BY <1>1, <1>2, <1>3, <1>4, <1>5 DEF Next, Handler, Stop

\* A second late process would need a look at stopCh that misses it.
LEMMA LateStep == IInv /\ [Next]_vars => LateIsLast'
<1> SUFFICES ASSUME IInv, [Next]_vars PROVE LateIsLast'
  OBVIOUS
<1> USE DEF IInv, TypeOK, LateIsLast, Stopped
<1>1. ASSUME NEW d \in Devices, Check(d) \/ Arm(d) \/ Recheck(d) \/ Wait(d) PROVE LateIsLast'
  BY <1>1 DEF Check, Arm, Recheck, Wait, Goto
<1>2. ASSUME NEW d \in Devices, Launch(d) PROVE LateIsLast'
  BY <1>2 DEF Launch, Goto
<1>3. ASSUME NEW d \in Devices, Mark(d) \/ Reap(d) PROVE LateIsLast'
  BY <1>3 DEF Mark, Reap, Goto
<1>4. ASSUME NEW d \in Devices, ProcessExits(d) \/ Kill(d) \/ Cancel(d) PROVE LateIsLast'
  BY <1>4 DEF ProcessExits, Kill, Cancel
<1>5. CASE CloseStopCh \/ AwaitHandlers \/ StopReturns \/ HealthServerExits \/ UNCHANGED vars
  BY <1>5 DEF CloseStopCh, AwaitHandlers, StopReturns, HealthServerExits, handlers, vars
<1> QED
  BY <1>1, <1>2, <1>3, <1>4, <1>5 DEF Next, Handler, Stop

\* Stop returns after the goroutines, and none of them comes back.
LEMMA DoneStep == IInv /\ [Next]_vars => DoneIsDone'
<1> SUFFICES ASSUME IInv, [Next]_vars PROVE DoneIsDone'
  OBVIOUS
<1> USE DEF IInv, TypeOK, DoneIsDone
<1>1. ASSUME NEW d \in Devices, Handler(d) PROVE DoneIsDone'
  BY <1>1 DEF Handler, Check, Arm, Launch, Mark, Reap, Recheck, Wait
<1>2. ASSUME NEW d \in Devices, ProcessExits(d) \/ Kill(d) \/ Cancel(d) PROVE DoneIsDone'
  BY <1>2 DEF ProcessExits, Kill, Cancel
<1>3. CASE CloseStopCh \/ AwaitHandlers \/ HealthServerExits \/ UNCHANGED vars
  BY <1>3 DEF CloseStopCh, AwaitHandlers, HealthServerExits, handlers, vars
<1>4. CASE StopReturns
  BY <1>4 DEF StopReturns, handlers
<1> QED
  BY <1>1, <1>2, <1>3, <1>4 DEF Next, Stop

\* The invariant is inductive.
LEMMA StepIInv == IInv /\ [Next]_vars => IInv'
  BY TypeStep, ProcessStep, LateStep, DoneStep DEF IInv

\* Every reachable state satisfies the invariant.
THEOREM Invariance == Spec => []IInv
  BY InitIInv, StepIInv, PTL DEF Spec

\* Every state of the supervisor is of its declared type.
THEOREM SupervisorTypeCorrect == Spec => []TypeOK
<1>1. IInv => TypeOK
  BY DEF IInv
<1> QED
  BY <1>1, Invariance, PTL

\* Stop cannot be made to wait for more than one process of a goroutine: whatever the
\* scheduling, runHandler starts at most one after stopCh is closed.
THEOREM OneLateProcess == Spec => []LateLaunchOnce
<1>1. IInv => LateLaunchOnce
  BY DEF IInv, TypeOK, LateIsLast, LateLaunchOnce
<1> QED
  BY <1>1, Invariance, PTL

\* When Stop has returned no cxi_rh process runs and /status reports none.
THEOREM StoppedMeansStopped == Spec => []StopLeavesNothing
<1>1. IInv => StopLeavesNothing
  BY DEF IInv, ProcessIsOwned, RunningIsMarked, DoneIsDone, StopLeavesNothing
<1> QED
  BY <1>1, Invariance, PTL

\* A device reported as running has a process its goroutine has yet to reap.
THEOREM RunningHasProcess == Spec => []RunningIsLaunched
<1>1. IInv => RunningIsLaunched
  BY DEF IInv, RunningIsMarked, WaiterHasProcess, RunningIsLaunched
<1> QED
  BY <1>1, Invariance, PTL

-----------------------------------------------------------------------------
(***************************************************************************)
(* The supervisor implements ProcessSupervisor.                            *)
(***************************************************************************)

\* A supervisor that has just started has no process, reports none and is open.
LEMMA PromiseInit == Init => Promise!Init
  BY SMT DEF Init, Promise!Init

\* Every step of a goroutine, a process or Stop is a step of the promise, or none.
LEMMA PromiseStep == IInv /\ [Next]_vars => [Promise!Next]_(Promise!vars)
<1> SUFFICES ASSUME IInv, [Next]_vars PROVE [Promise!Next]_(Promise!vars)
  OBVIOUS
<1> USE DEF IInv, TypeOK, Labels, Processes, Phases
<1>1. ASSUME NEW d \in Devices, Check(d) \/ Arm(d) \/ Recheck(d) \/ Wait(d) \/ Cancel(d)
      PROVE UNCHANGED Promise!vars
  BY <1>1 DEF Check, Arm, Recheck, Wait, Cancel, Promise!vars
<1>2. ASSUME NEW d \in Devices, Launch(d) PROVE Promise!Start(d) \/ Promise!FailToStart(d)
  <2>1. proc[d] = "none" /\ stop # "done" /\ late[d] = 0
    BY <1>2 DEF Launch, ProcessIsOwned, DoneIsDone, LateIsLast
  <2>2. CASE proc' = [proc EXCEPT ![d] = "alive"]
             /\ late' = [late EXCEPT ![d] = IF Stopped THEN @ + 1 ELSE @]
    <3>1. {e \in Devices : late'[e] = 0} =
            IF stop = "none" THEN {e \in Devices : late[e] = 0}
                             ELSE {e \in Devices : late[e] = 0} \ {d}
      BY <2>1, <2>2 DEF Stopped
    <3> QED
      BY <1>2, <2>1, <2>2, <3>1 DEF Launch, Promise!Start, Promise!MayStart
  <2>3. CASE proc' = [proc EXCEPT ![d] = "failed"] /\ UNCHANGED late
    BY <1>2, <2>1, <2>3 DEF Launch, Promise!FailToStart
  <2> QED
    BY <1>2, <2>2, <2>3 DEF Launch
<1>3. ASSUME NEW d \in Devices, Mark(d) PROVE Promise!Report(d)
  BY <1>3 DEF Mark, WaiterHasProcess, Promise!Report
<1>4. ASSUME NEW d \in Devices, Reap(d) PROVE Promise!Notice(d)
  BY <1>4 DEF Reap, Promise!Notice
<1>5. ASSUME NEW d \in Devices, ProcessExits(d) \/ Kill(d) PROVE Promise!End(d)
  BY <1>5 DEF ProcessExits, Kill, Promise!End
<1>6. CASE CloseStopCh
  BY <1>6 DEF CloseStopCh, handlers, Promise!Next, Promise!Close
<1>7. CASE AwaitHandlers \/ HealthServerExits \/ UNCHANGED vars
  BY <1>7 DEF AwaitHandlers, HealthServerExits, handlers, vars, Promise!vars
<1>8. CASE StopReturns
  <2>1. \A d \in Devices : proc[d] = "none" /\ ~running[d]
    BY <1>8 DEF StopReturns, ProcessIsOwned, RunningIsMarked
  <2> QED
    BY <1>8, <2>1 DEF StopReturns, handlers, Promise!Next, Promise!Closed
<1> QED
  BY <1>1, <1>2, <1>3, <1>4, <1>5, <1>6, <1>7, <1>8 DEF Next, Handler, Stop, Promise!Next

\* Whatever the scheduling, who starts, stops and watches the retry handler's supervisor
\* sees what ProcessSupervisor promises.
THEOREM SupervisorKeepsPromise == Spec => KeepsPromise
  BY PromiseInit, PromiseStep, Invariance, PTL DEF Spec, KeepsPromise, Promise!Spec

(***************************************************************************)
(* The restart counter of the metrics exporter.                            *)
(*                                                                         *)
(* Neither lastRestartCounts nor an answer in flight says which supervisor *)
(* it is from.  The invariant says it for them: what the counter has, and  *)
(* what it is about to get, either was counted before the present          *)
(* supervisor started, or agrees with the present one's count.             *)
(***************************************************************************)

\* The counter holds failures of earlier supervisors only.
CountedBefore(d) == metric[d] + restarts[d] <= failures[d]

\* lastRestartCounts is of the present supervisor, and the counter may get the rest.
CountedNow(d) ==
    /\ seen[d] # Unseen
    /\ seen[d] <= restarts[d]
    /\ metric[d] + restarts[d] <= failures[d] + seen[d]

\* The answer is of an earlier supervisor: what it adds was counted before.
AnswerBefore(d) == metric[d] + Gain(d) + restarts[d] <= failures[d]

\* The answer is of the present supervisor, taken after what lastRestartCounts has of it.
AnswerNow(d) ==
    /\ count[d] <= restarts[d]
    /\ CountedBefore(d) \/ (CountedNow(d) /\ seen[d] <= count[d])

CounterInv ==
    /\ \A d \in Devices : restarts[d] <= failures[d]
    /\ \A d \in Devices : CountedBefore(d) \/ CountedNow(d)
    /\ asking => \A d \in Devices : AnswerBefore(d) \/ AnswerNow(d)

MetricsInv == MetricsTypeOK /\ CounterInv

-----------------------------------------------------------------------------

\* Both pods have just started and satisfy the invariant.
LEMMA MetricsInitInv == MetricsInit => MetricsInv
<1> SUFFICES ASSUME MetricsInit PROVE MetricsInv
  OBVIOUS
<1>1. TypeOK
  BY InitIInv DEF MetricsInit, IInv
<1>2. MetricsTypeOK
  BY <1>1 DEF MetricsInit, MetricsTypeOK, Unseen
<1>3. CounterInv
  BY DEF MetricsInit, Init, CounterInv, CountedBefore
<1> QED
  BY <1>2, <1>3 DEF MetricsInv

\* An answer adds at least nothing, and at most all it counts.
LEMMA GainBound ==
    ASSUME MetricsTypeOK, NEW d \in Devices
    PROVE  /\ Gain(d) \in Nat
           /\ Gain(d) <= count[d]
           /\ seen[d] # Unseen /\ seen[d] <= count[d] => Gain(d) + seen[d] = count[d]
<1>1. count[d] \in Nat /\ seen[d] \in Nat \cup {Unseen}
  BY DEF MetricsTypeOK
<1> QED
  BY <1>1 DEF Gain, Unseen

\* Every step of either pod is of the declared types.
LEMMA MetricsTypeStep == MetricsTypeOK /\ [MetricsNext]_mvars => MetricsTypeOK'
<1> SUFFICES ASSUME MetricsTypeOK, [MetricsNext]_mvars PROVE MetricsTypeOK'
  OBVIOUS
<1> USE DEF MetricsTypeOK
<1>1. CASE Supervise
  <2>1. TypeOK'
    BY <1>1, TypeStep DEF Supervise
  <2>2. failures' \in [Devices -> Nat]
    BY <1>1 DEF Supervise
  <2> QED
    BY <1>1, <2>1, <2>2 DEF Supervise, exporter
<1>2. CASE RestartSupervisor
  <2>1. TypeOK'
    BY <1>2 DEF RestartSupervisor, TypeOK, Labels, Processes, Phases
  <2>2. pods' \in [supervisor : Nat, exporter : Nat]
    BY <1>2 DEF RestartSupervisor
  <2> QED
    BY <1>2, <2>1, <2>2 DEF RestartSupervisor, exporter
<1>3. CASE Ask
  BY <1>3 DEF Ask, vars, TypeOK
<1>4. CASE AskInVain
  BY <1>4 DEF AskInVain, vars, TypeOK, exporter
<1>5. CASE Apply
  <2>1. metric' \in [Devices -> Nat]
    <3>1. \A d \in Devices : metric[d] + Gain(d) \in Nat
      BY GainBound
    <3> QED
      BY <1>5, <3>1 DEF Apply
  <2> QED
    BY <1>5, <2>1 DEF Apply, vars, TypeOK
<1>6. CASE RestartExporter
  <2>1. pods' \in [supervisor : Nat, exporter : Nat]
    BY <1>6 DEF RestartExporter
  <2> QED
    BY <1>6, <2>1 DEF RestartExporter, vars, TypeOK, Unseen
<1>7. CASE UNCHANGED mvars
  BY <1>7 DEF mvars, vars, TypeOK, exporter
<1> QED
  BY <1>1, <1>2, <1>3, <1>4, <1>5, <1>6, <1>7 DEF MetricsNext

\* A step of the supervisor counts a failure, or none.
LEMMA SupervisorCounts ==
    ASSUME TypeOK, Next
    PROVE  \A d \in Devices : restarts'[d] = restarts[d] \/ restarts'[d] = restarts[d] + 1
<1> USE DEF TypeOK
<1>1. ASSUME NEW e \in Devices, Reap(e)
      PROVE \A d \in Devices : restarts'[d] = restarts[d] \/ restarts'[d] = restarts[d] + 1
  BY <1>1 DEF Reap
<1>2. ASSUME NEW e \in Devices,
             \/ Check(e) \/ Arm(e) \/ Launch(e) \/ Mark(e) \/ Recheck(e) \/ Wait(e)
             \/ ProcessExits(e) \/ Kill(e) \/ Cancel(e)
      PROVE restarts' = restarts
  BY <1>2 DEF Check, Arm, Launch, Mark, Recheck, Wait, ProcessExits, Kill, Cancel
<1>3. CASE CloseStopCh \/ AwaitHandlers \/ StopReturns \/ HealthServerExits
  BY <1>3 DEF CloseStopCh, AwaitHandlers, StopReturns, HealthServerExits, handlers
<1> QED
  BY <1>1, <1>2, <1>3 DEF Next, Handler, Stop

\* Counting a failure leaves room for it in the counter.
LEMMA SuperviseInv == MetricsInv /\ Supervise => CounterInv'
<1> SUFFICES ASSUME MetricsInv, Supervise PROVE CounterInv'
  OBVIOUS
<1>1. ASSUME NEW d \in Devices
      PROVE  \/ restarts'[d] = restarts[d] /\ failures'[d] = failures[d]
             \/ restarts'[d] = restarts[d] + 1 /\ failures'[d] = failures[d] + 1
  <2>1. restarts[d] \in Nat /\ failures[d] \in Nat
    BY DEF MetricsInv, MetricsTypeOK, TypeOK
  <2>2. restarts'[d] = restarts[d] \/ restarts'[d] = restarts[d] + 1
    BY SupervisorCounts DEF MetricsInv, MetricsTypeOK, Supervise
  <2>3. failures'[d] = failures[d] + (IF restarts'[d] > restarts[d] THEN 1 ELSE 0)
    BY DEF Supervise
  <2> QED
    BY <2>1, <2>2, <2>3
<1>2. ASSUME NEW d \in Devices
      PROVE  /\ CountedBefore(d) => CountedBefore(d)'
             /\ CountedNow(d) => CountedNow(d)'
             /\ AnswerBefore(d) => AnswerBefore(d)'
             /\ AnswerNow(d) => AnswerNow(d)'
  <2>1. UNCHANGED <<seen, count, metric>>
    BY DEF Supervise, exporter
  <2>2. /\ restarts[d] \in Nat /\ failures[d] \in Nat /\ metric[d] \in Nat
        /\ count[d] \in Nat /\ seen[d] \in Nat \cup {Unseen}
    BY DEF MetricsInv, MetricsTypeOK, TypeOK
  <2>3. Gain(d) \in Nat /\ Gain(d)' = Gain(d)
    BY <2>1, GainBound DEF MetricsInv, Gain
  <2>4. CountedBefore(d) => CountedBefore(d)'
    BY <1>1, <2>1, <2>2 DEF CountedBefore
  <2>5. CountedNow(d) => CountedNow(d)'
    BY <1>1, <2>1, <2>2 DEF CountedNow, Unseen
  <2>6. AnswerBefore(d) => AnswerBefore(d)'
    BY <1>1, <2>1, <2>2, <2>3 DEF AnswerBefore
  <2>7. AnswerNow(d) => AnswerNow(d)'
    BY <1>1, <2>1, <2>2, <2>4, <2>5 DEF AnswerNow
  <2> QED
    BY <2>4, <2>5, <2>6, <2>7
<1>3. \A d \in Devices : restarts'[d] <= failures'[d]
  BY <1>1 DEF MetricsInv, MetricsTypeOK, TypeOK, CounterInv
<1> QED
  BY <1>2, <1>3 DEF Supervise, exporter, MetricsInv, CounterInv

\* What was counted of a supervisor that is replaced was counted before its successor.
LEMMA RestartSupervisorInv == MetricsInv /\ RestartSupervisor => CounterInv'
<1> SUFFICES ASSUME MetricsInv, RestartSupervisor PROVE CounterInv'
  OBVIOUS
<1>1. ASSUME NEW d \in Devices
      PROVE  /\ CountedBefore(d)'
             /\ asking => AnswerBefore(d)'
  <2>1. UNCHANGED <<seen, count, metric, failures, asking>> /\ restarts'[d] = 0
    BY DEF RestartSupervisor, exporter
  <2>2. /\ restarts[d] \in Nat /\ failures[d] \in Nat /\ metric[d] \in Nat
        /\ count[d] \in Nat /\ seen[d] \in Nat \cup {Unseen}
    BY DEF MetricsInv, MetricsTypeOK, TypeOK
  <2>3. /\ Gain(d) \in Nat /\ Gain(d)' = Gain(d)
        /\ Gain(d) <= count[d]
        /\ seen[d] # Unseen /\ seen[d] <= count[d] => Gain(d) + seen[d] = count[d]
    BY <2>1, GainBound DEF MetricsInv, Gain
  <2>4. CountedBefore(d)'
    BY <2>1, <2>2 DEF MetricsInv, CounterInv, CountedBefore, CountedNow, Unseen
  <2>5. AnswerBefore(d) => AnswerBefore(d)'
    BY <2>1, <2>2, <2>3 DEF AnswerBefore
  <2>6. AnswerNow(d) => AnswerBefore(d)'
    BY <2>1, <2>2, <2>3 DEF AnswerBefore, AnswerNow, CountedBefore, CountedNow
  <2> QED
    BY <2>4, <2>5, <2>6 DEF MetricsInv, CounterInv
<1>2. \A d \in Devices : restarts'[d] <= failures'[d]
  BY DEF RestartSupervisor, MetricsInv, MetricsTypeOK
<1> QED
  BY <1>1, <1>2 DEF RestartSupervisor, exporter, CounterInv

\* A fresh answer is of the present supervisor.
LEMMA AskInv == MetricsInv /\ Ask => CounterInv'
<1> SUFFICES ASSUME MetricsInv, Ask PROVE CounterInv'
  OBVIOUS
<1>1. ASSUME NEW d \in Devices
      PROVE (CountedBefore(d) \/ CountedNow(d))' /\ AnswerNow(d)'
  <2>1. UNCHANGED <<restarts, seen, metric, failures>> /\ count' = restarts
    BY DEF Ask, vars
  <2>2. restarts[d] \in Nat
    BY DEF MetricsInv, MetricsTypeOK, TypeOK
  <2> QED
    BY <2>1, <2>2 DEF MetricsInv, CounterInv, CountedBefore, CountedNow, AnswerNow
<1> QED
  BY <1>1 DEF Ask, vars, MetricsInv, CounterInv

\* An answer applied leaves the counter where the invariant allows it, whichever
\* supervisor the answer and the last count are of.
LEMMA ApplyInv == MetricsInv /\ Apply => CounterInv'
<1> SUFFICES ASSUME MetricsInv, Apply PROVE CounterInv'
  OBVIOUS
<1>1. ASSUME NEW d \in Devices
      PROVE (CountedBefore(d) \/ CountedNow(d))'
  <2>1. /\ restarts' = restarts /\ failures' = failures
        /\ metric'[d] = metric[d] + Gain(d) /\ seen'[d] = count[d]
    BY DEF Apply, vars
  <2>2. /\ restarts[d] \in Nat /\ failures[d] \in Nat /\ metric[d] \in Nat
        /\ count[d] \in Nat /\ seen[d] \in Nat \cup {Unseen}
    BY DEF MetricsInv, MetricsTypeOK, TypeOK
  <2>3. /\ Gain(d) \in Nat
        /\ Gain(d) <= count[d]
        /\ seen[d] # Unseen /\ seen[d] <= count[d] => Gain(d) + seen[d] = count[d]
    BY GainBound DEF MetricsInv
  <2>4. CASE AnswerBefore(d)
    BY <2>1, <2>2, <2>3, <2>4 DEF AnswerBefore, CountedBefore
  <2>5. CASE AnswerNow(d)
    BY <2>1, <2>2, <2>3, <2>5 DEF AnswerNow, CountedBefore, CountedNow, Unseen
  <2> QED
    BY <2>4, <2>5 DEF Apply, MetricsInv, CounterInv
<1> QED
  BY <1>1 DEF Apply, vars, MetricsInv, CounterInv

\* A new exporter has counted nothing, and the present supervisor no more than happened.
LEMMA RestartExporterInv == MetricsInv /\ RestartExporter => CounterInv'
<1> SUFFICES ASSUME MetricsInv, RestartExporter PROVE CounterInv'
  OBVIOUS
<1>1. ASSUME NEW d \in Devices PROVE CountedBefore(d)'
  <2>1. restarts' = restarts /\ failures' = failures /\ metric'[d] = 0
    BY DEF RestartExporter, vars
  <2>2. restarts[d] \in Nat /\ failures[d] \in Nat
    BY DEF MetricsInv, MetricsTypeOK, TypeOK
  <2> QED
    BY <2>1, <2>2 DEF CountedBefore, MetricsInv, CounterInv
<1>2. \A d \in Devices : restarts'[d] <= failures'[d]
  BY DEF RestartExporter, vars, MetricsInv, CounterInv
<1> QED
  BY <1>1, <1>2 DEF RestartExporter, CounterInv

\* The invariant is inductive.
LEMMA MetricsStepInv == MetricsInv /\ [MetricsNext]_mvars => MetricsInv'
<1> SUFFICES ASSUME MetricsInv, [MetricsNext]_mvars PROVE MetricsInv'
  OBVIOUS
<1>1. MetricsTypeOK'
  BY MetricsTypeStep DEF MetricsInv
<1> SUFFICES CounterInv'
  BY <1>1 DEF MetricsInv
<1>2. CASE AskInVain \/ UNCHANGED mvars
  BY <1>2 DEF AskInVain, mvars, vars, exporter, MetricsInv, CounterInv, CountedBefore,
    CountedNow, AnswerBefore, AnswerNow, Gain
<1>3. CASE Supervise
  BY <1>3, SuperviseInv
<1>4. CASE RestartSupervisor
  BY <1>4, RestartSupervisorInv
<1>5. CASE Ask
  BY <1>5, AskInv
<1>6. CASE Apply
  BY <1>6, ApplyInv
<1>7. CASE RestartExporter
  BY <1>7, RestartExporterInv
<1> QED
  BY <1>2, <1>3, <1>4, <1>5, <1>6, <1>7 DEF MetricsNext

\* Every reachable state satisfies the invariant.
THEOREM MetricsInvariance == MetricsSpec => []MetricsInv
  BY MetricsInitInv, MetricsStepInv, PTL DEF MetricsSpec

\* Every state of the supervisor and its exporter is of its declared type.
THEOREM MetricsTypeCorrect == MetricsSpec => []MetricsTypeOK
<1>1. MetricsInv => MetricsTypeOK
  BY DEF MetricsInv
<1> QED
  BY <1>1, MetricsInvariance, PTL

\* cxi_retry_handler_restarts_total never exceeds the failures there were: no restart of
\* the supervisor between two scrapes, or between an answer and its application, makes
\* the exporter count one twice.
THEOREM CounterNeverAhead == MetricsSpec => []MetricIsBehind
<1>1. ASSUME MetricsInv PROVE MetricIsBehind
  <2> SUFFICES ASSUME NEW d \in Devices PROVE metric[d] <= failures[d]
    BY DEF MetricIsBehind
  <2>1. /\ restarts[d] \in Nat /\ failures[d] \in Nat /\ metric[d] \in Nat
        /\ seen[d] \in Nat \cup {Unseen}
    BY <1>1 DEF MetricsInv, MetricsTypeOK, TypeOK
  <2>2. CountedBefore(d) \/ CountedNow(d)
    BY <1>1 DEF MetricsInv, CounterInv
  <2> QED
    BY <2>1, <2>2 DEF CountedBefore, CountedNow, Unseen
<1> QED
  BY <1>1, MetricsInvariance, PTL

\* The counter is never given a negative amount, which a Prometheus counter refuses with
\* a panic: it falls only with its exporter.
THEOREM CounterOnlyGrows == MetricsSpec => MetricOnlyGrows
<1> DEFINE Grows == \/ pods'.exporter # pods.exporter
                    \/ \A d \in Devices : metric'[d] >= metric[d]
<1>1. ASSUME MetricsInv, [MetricsNext]_mvars PROVE [Grows]_mvars
  <2>1. metric \in [Devices -> Nat]
    BY <1>1 DEF MetricsInv, MetricsTypeOK
  <2>2. CASE Apply
    <3>1. \A d \in Devices : metric'[d] >= metric[d]
      BY <1>1, <2>1, <2>2, GainBound DEF Apply, MetricsInv
    <3> QED
      BY <3>1
  <2>3. CASE RestartExporter
    <3>1. pods'.exporter = pods.exporter + 1 /\ pods.exporter \in Nat
      BY <1>1, <2>3 DEF RestartExporter, MetricsInv, MetricsTypeOK
    <3> QED
      BY <3>1
  <2>4. CASE Supervise \/ RestartSupervisor \/ Ask \/ AskInVain
    <3>1. metric' = metric
      BY <2>4 DEF Supervise, RestartSupervisor, Ask, AskInVain, exporter
    <3> QED
      BY <2>1, <3>1
  <2> QED
    BY <1>1, <2>2, <2>3, <2>4 DEF MetricsNext
<1> QED
  BY <1>1, MetricsInvariance, PTL DEF MetricsSpec, MetricOnlyGrows
=============================================================================
