---------------------------- MODULE RetryMetrics ----------------------------
(***************************************************************************)
(* The metrics exporter (pkg/metrics) next to the retry handler it reads:  *)
(* every scrape asks the supervisor's /status and brings two metrics up to *)
(* date from the answer, the gauge cxi_retry_handler_running and the       *)
(* counter cxi_retry_handler_restarts_total.                               *)
(*                                                                         *)
(* The supervisor is that of RetrySupervisor.  Its pod may be killed and   *)
(* started again, which resets the counts it serves; so may the exporter's,*)
(* which resets the metrics.  The supervisor goes on between the answer    *)
(* and its application, and may be another one by then.                    *)
(*                                                                         *)
(* GetStatus locks one handler at a time; each device's part of the answer *)
(* is consistent, and nothing here relates two devices, so an answer is    *)
(* taken in one step.                                                      *)
(***************************************************************************)
EXTENDS RetrySupervisor, Integers

CONSTANTS
    MaxRestarts,  \* bound: restarts of the pods, the supervisor's and the exporter's
    MaxLost       \* bound: scrapes that get no answer

ASSUME MetricsBoundAssumption == MaxRestarts \in Nat /\ MaxLost \in Nat

VARIABLES
    asking,     \* a scrape has its answer and is to apply it
    up, count,  \* that answer: Running and RestartCount of each device
    seen,       \* lastRestartCounts
    gauge,      \* cxi_retry_handler_running
    metric,     \* cxi_retry_handler_restarts_total
    failures,   \* error exits so far, of all the supervisors
    pods,       \* restarts of the two pods
    lost        \* scrapes without an answer

exporter == <<asking, up, count, seen, gauge, metric>>
mvars == <<vars, exporter, failures, pods, lost>>

\* The device has no entry in lastRestartCounts.
Unseen == -1

MetricsTypeOK ==
    /\ TypeOK
    /\ asking \in BOOLEAN
    /\ up \in [Devices -> BOOLEAN]
    /\ count \in [Devices -> Nat]
    /\ seen \in [Devices -> Nat \cup {Unseen}]
    /\ gauge \in [Devices -> BOOLEAN]
    /\ metric \in [Devices -> Nat]
    /\ failures \in [Devices -> Nat]
    /\ pods \in [supervisor : Nat, exporter : Nat]
    /\ lost \in Nat

MetricsInit ==
    /\ Init
    /\ asking = FALSE
    /\ up = [d \in Devices |-> FALSE]
    /\ count = [d \in Devices |-> 0]
    /\ seen = [d \in Devices |-> Unseen]
    /\ gauge = [d \in Devices |-> FALSE]
    /\ metric = [d \in Devices |-> 0]
    /\ failures = [d \in Devices |-> 0]
    /\ pods = [supervisor |-> 0, exporter |-> 0]
    /\ lost = 0

-----------------------------------------------------------------------------
(***************************************************************************)
(* The supervisor, and its pod.                                            *)
(***************************************************************************)

Supervise ==
    /\ Next
    /\ failures' =
         [d \in Devices |-> failures[d] + (IF restarts'[d] > restarts[d] THEN 1 ELSE 0)]
    /\ UNCHANGED <<exporter, pods, lost>>

\* The container ends, asked to or killed, and the kubelet starts it again.
RestartSupervisor ==
    /\ pods.supervisor < MaxRestarts
    /\ pods' = [pods EXCEPT !.supervisor = @ + 1]
    /\ pc' = [d \in Devices |-> "check"]
    /\ proc' = [d \in Devices |-> "none"]
    /\ cancelled' = [d \in Devices |-> FALSE]
    /\ running' = [d \in Devices |-> FALSE]
    /\ restarts' = [d \in Devices |-> 0]
    /\ stop' = "none"
    /\ todo' = {}
    /\ health' = TRUE
    /\ late' = [d \in Devices |-> 0]
    /\ UNCHANGED <<exporter, failures, lost>>

-----------------------------------------------------------------------------
(***************************************************************************)
(* scrapeRetryHandlerStatus.                                               *)
(***************************************************************************)

Ask ==
    /\ ~asking
    /\ health
    /\ asking' = TRUE
    /\ up' = running
    /\ count' = restarts
    /\ UNCHANGED <<vars, seen, gauge, metric, failures, pods, lost>>

\* The request fails, or nobody listens any more: scrape_errors_total counts it.
AskInVain ==
    /\ ~asking
    /\ lost < MaxLost
    /\ lost' = lost + 1
    /\ UNCHANGED <<vars, exporter, failures, pods>>

\* What the answer adds to the counter: nothing the first time.
Gain(d) == IF seen[d] # Unseen /\ count[d] > seen[d] THEN count[d] - seen[d] ELSE 0

\* Slip: the count is added, where what is new of it should be.
ApplyWhole ==
    /\ asking
    /\ asking' = FALSE
    /\ gauge' = up
    /\ metric' = [d \in Devices |-> metric[d] + count[d]]
    /\ seen' = count
    /\ UNCHANGED <<vars, up, count, failures, pods, lost>>

\* Slip: a count that went down is added like one that went up.
ApplyAnyChange ==
    /\ asking
    /\ asking' = FALSE
    /\ gauge' = up
    /\ metric' = [d \in Devices |->
                    metric[d] + (IF seen[d] # Unseen THEN count[d] - seen[d] ELSE 0)]
    /\ seen' = count
    /\ UNCHANGED <<vars, up, count, failures, pods, lost>>

\* Slip: lastRestartCounts is written where the counter is, so never at first.
ApplyKnown ==
    /\ asking
    /\ asking' = FALSE
    /\ gauge' = up
    /\ metric' = [d \in Devices |-> metric[d] + Gain(d)]
    /\ seen' = [d \in Devices |-> IF Gain(d) > 0 THEN count[d] ELSE seen[d]]
    /\ UNCHANGED <<vars, up, count, failures, pods, lost>>

Apply ==
    /\ asking
    /\ asking' = FALSE
    /\ gauge' = up
    /\ metric' = [d \in Devices |-> metric[d] + Gain(d)]
    /\ seen' = count
    /\ UNCHANGED <<vars, up, count, failures, pods, lost>>

\* The exporter's process ends, and with it its registry and its memory.
RestartExporter ==
    /\ pods.exporter < MaxRestarts
    /\ pods' = [pods EXCEPT !.exporter = @ + 1]
    /\ asking' = FALSE
    /\ up' = [d \in Devices |-> FALSE]
    /\ count' = [d \in Devices |-> 0]
    /\ seen' = [d \in Devices |-> Unseen]
    /\ gauge' = [d \in Devices |-> FALSE]
    /\ metric' = [d \in Devices |-> 0]
    /\ UNCHANGED <<vars, failures, lost>>

MetricsNext ==
    Supervise \/ RestartSupervisor \/ Ask \/ AskInVain \/ Apply \/ RestartExporter

MetricsSpec == MetricsInit /\ [][MetricsNext]_mvars

\* The ticker fires, and a request to a server that listens is answered but for
\* MaxLost times.
MetricsFairSpec == MetricsSpec /\ WF_mvars(Ask) /\ WF_mvars(Apply)

-----------------------------------------------------------------------------
(***************************************************************************)
(* Properties.                                                             *)
(***************************************************************************)

\* The counter never runs ahead of what happened, whichever supervisor the answers are
\* from and whenever they are applied.
MetricIsBehind == \A d \in Devices : metric[d] <= failures[d]

\* A Prometheus counter refuses a negative amount: the counter falls only with its
\* exporter, also when a restarted supervisor counts from zero.
MetricOnlyGrows ==
    [][\/ pods'.exporter # pods.exporter
       \/ \A d \in Devices : metric'[d] >= metric[d]]_mvars

\* What the supervisor has counted the exporter comes to know, while there is one to ask.
ScrapesCatchUp ==
    \A d \in Devices : seen[d] # restarts[d] ~> (seen[d] = restarts[d] \/ ~health)

\* "Total number of retry handler restarts": an exporter that is up to date with a
\* supervisor, neither having been restarted, has counted all of them.
MetricIsTotal ==
    \A d \in Devices :
        seen[d] = restarts[d] /\ pods.supervisor = 0 /\ pods.exporter = 0
            => metric[d] = failures[d]

\* "1=running, 0=stopped": the gauge of a supervisor that has stopped falls.
GaugeFalls ==
    \A d \in Devices : stop = "done" ~> (gauge[d] = FALSE \/ stop # "done")
=============================================================================
