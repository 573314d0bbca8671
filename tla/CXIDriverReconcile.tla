------------------------- MODULE CXIDriverReconcile -------------------------
(***************************************************************************)
(* Reconcile of the active CXIDriver: finalizer, components, status and    *)
(* cleanup.  The module takes up where CXIDriverSingleton decides that the *)
(* driver is the active one: there is one name and one operator, and what  *)
(* that module keeps as "managed" is here the spec, the four components'   *)
(* DaemonSets, the webhook configuration and the status conditions.        *)
(*                                                                         *)
(* Reads come from informer caches that lag behind the API server, writes  *)
(* go to the API server and fail on an outdated copy; a user edits, deletes *)
(* and recreates the driver between any two steps.                         *)
(***************************************************************************)
EXTENDS Naturals, FiniteSets

CONSTANTS
    Components, \* the components, or some of them to keep an instance small
    PodReports, \* what the DaemonSet controller reports of the driver agent
    Specs,      \* the specs users give the driver
    Seconds,    \* the times of conditions, told apart from one status to the next
    Now,        \* the second in which the pass under way will write its status
    MaxUid,     \* bound: incarnations of the driver
    MaxGen,     \* bound: users edit generations below it
    MaxFaults   \* bound: failed API calls and operator crashes

Modes == {"daemonset", "sidecar", "kernel", "none"}

\* What decides which components are deployed: the three Enabled fields and
\* the retry handler's Mode.
DriverSpec == [plugin : BOOLEAN, retry : BOOLEAN, metrics : BOOLEAN, mode : Modes]

ASSUME ComponentsAssumption ==
    "agent" \in Components /\ Components \subseteq {"agent", "plugin", "retry", "metrics"}
ASSUME PodReportsAssumption == PodReports \subseteq {"unavailable", "ready"}
ASSUME SpecsAssumption == Specs \subseteq DriverSpec /\ Specs # {}
ASSUME SecondsAssumption == Seconds # {} /\ Now \notin Seconds
\* An instance that leaves out components keeps the one a mode of its specs deploys.
ASSUME SidecarAssumption == (\E s \in Specs : s.mode = "sidecar") => "retry" \in Components
ASSUME BoundsAssumption ==
    MaxUid \in Nat /\ MaxGen \in Nat /\ MaxFaults \in Nat

VARIABLES
    obj,     \* API server: the CXIDriver
    ds,      \* API server: the DaemonSet of each component
    wh,      \* API server: the MutatingWebhookConfiguration exists
    cobj,    \* informer cache of CXIDrivers
    cds,     \* informer cache of DaemonSets
    cwh,     \* informer cache of MutatingWebhookConfigurations
    queued,  \* the driver is in the work queue
    work,    \* the reconcile in progress: its next step and its copy
    asked,   \* the spec the user last applied
    faults   \* failures still to come

api == <<obj, ds, wh>>
watches == <<cobj, cds, cwh>>
vars == <<obj, ds, wh, cobj, cds, cwh, queued, work, asked, faults>>

-----------------------------------------------------------------------------
\* The order in which Reconcile takes the components.
Rank == [agent |-> 1, plugin |-> 2, retry |-> 3, metrics |-> 4]
Later(c) == {e \in Components : Rank[c] < Rank[e]}
\* Slip: the last component leads to a step that is none of Reconcile's.
AfterNowhere(c) ==
    IF Later(c) = {} THEN "done"
    ELSE CHOOSE e \in Later(c) : \A f \in Later(c) : Rank[e] <= Rank[f]
After(c) ==
    IF Later(c) = {} THEN "count"
    ELSE CHOOSE e \in Later(c) : \A f \in Later(c) : Rank[e] <= Rank[f]

Pods == {"unreported"} \cup PodReports

\* The owner's uid, the generation of the spec the template was built from,
\* and the DaemonSet's own status, which only the driver agent's is asked for.
DaemonSet == [uid : Nat, gen : Nat, pods : Pods]
NoDaemonSet == [uid |-> 0, gen |-> 0, pods |-> "unreported"]

\* The conditions, their LastTransitionTimes in one, and ObservedGeneration.
Status == [observed : Nat, available : BOOLEAN, degraded : BOOLEAN, progressing : BOOLEAN,
           ready : SUBSET Components, failed : SUBSET Components, times : Seconds \cup {Now}]
NoStatus == [observed |-> 0, available |-> FALSE, degraded |-> FALSE, progressing |-> FALSE,
             ready |-> {}, failed |-> {}, times |-> CHOOSE t \in Seconds : TRUE]

\* meta.SetStatusCondition: a condition that is another than in s is stamped anew.
Stamped(s, r) ==
    IF [r EXCEPT !.observed = s.observed] = s THEN r ELSE [r EXCEPT !.times = Now]

\* As it is written: what was stamped has the second of the last status, or another.
Written(s) == {[s EXCEPT !.times = t] : t \in IF s.times = Now THEN Seconds ELSE {s.times}}

\* Stands for the spec where there is no object.
SomeSpec == CHOOSE s \in Specs : TRUE

CXIDriver == [uid : Nat, live : BOOLEAN, deleting : BOOLEAN, fin : BOOLEAN,
              gen : Nat, spec : DriverSpec, status : Status]

Gone(uid) == [uid |-> uid, live |-> FALSE, deleting |-> FALSE, fin |-> FALSE,
              gen |-> 0, spec |-> SomeSpec, status |-> NoStatus]

Born(uid, spec) == [Gone(uid) EXCEPT !.live = TRUE, !.gen = 1, !.spec = spec]

Deploying == Components \cup {"count", "write", "fail"}
Steps == {"idle", "cleanup", "unfinalize", "admit"} \cup Deploying

Idle == [pc |-> "idle", obj |-> Gone(0)]

TypeOK ==
    /\ obj \in CXIDriver /\ cobj \in CXIDriver
    /\ ds \in [Components -> DaemonSet] /\ cds \in [Components -> DaemonSet]
    /\ wh \in BOOLEAN /\ cwh \in BOOLEAN
    /\ queued \in BOOLEAN
    /\ work \in [pc : Steps, obj : CXIDriver]
    /\ asked \in DriverSpec
    /\ faults \in Nat

Init ==
    /\ obj = Gone(0) /\ cobj = obj
    /\ ds = [c \in Components |-> NoDaemonSet] /\ cds = ds
    /\ wh = FALSE /\ cwh = FALSE
    /\ queued = FALSE
    /\ work = Idle
    /\ asked = SomeSpec
    /\ faults = MaxFaults

-----------------------------------------------------------------------------
(***************************************************************************)
(* Users, the DaemonSet controller, the garbage collector, the watches.    *)
(***************************************************************************)

CreateDriver(spec) ==
    /\ ~obj.live
    /\ obj.uid < MaxUid
    /\ obj' = Born(obj.uid + 1, spec)
    /\ asked' = spec
    /\ UNCHANGED <<ds, wh, watches, queued, work, faults>>

EditSpec(spec) ==
    /\ obj.live
    /\ obj.gen < MaxGen
    /\ spec # obj.spec
    /\ obj' = [obj EXCEPT !.spec = spec, !.gen = @ + 1]
    /\ asked' = spec
    /\ UNCHANGED <<ds, wh, watches, queued, work, faults>>

DeleteDriver ==
    /\ obj.live /\ ~obj.deleting
    /\ obj' = IF obj.fin THEN [obj EXCEPT !.deleting = TRUE] ELSE Gone(obj.uid)
    /\ UNCHANGED <<ds, wh, watches, queued, work, asked, faults>>

\* The DaemonSet controller reports on the driver agent's pods.
ReportPods(p) ==
    /\ ds["agent"].uid # 0
    /\ p # ds["agent"].pods
    /\ ds' = [ds EXCEPT !["agent"].pods = p]
    /\ UNCHANGED <<obj, wh, watches, queued, work, asked, faults>>

Garbage(c) == ds[c].uid # 0 /\ ~(obj.live /\ obj.uid = ds[c].uid)

CollectGarbage(c) ==
    /\ Garbage(c)
    /\ ds' = [ds EXCEPT ![c] = NoDaemonSet]
    /\ UNCHANGED <<obj, wh, watches, queued, work, asked, faults>>

SyncDriver ==
    /\ cobj # obj
    /\ cobj' = obj
    /\ queued' = TRUE
    /\ UNCHANGED <<api, cds, cwh, work, asked, faults>>

SyncDaemonSet(c) ==
    /\ cds[c] # ds[c]
    /\ cds' = [cds EXCEPT ![c] = ds[c]]
    /\ queued' = TRUE
    /\ UNCHANGED <<api, cobj, cwh, work, asked, faults>>

\* The webhook configuration has no owner and is not watched.
SyncWebhook ==
    /\ cwh # wh
    /\ cwh' = wh
    /\ UNCHANGED <<api, cobj, cds, queued, work, asked, faults>>

Crash ==
    /\ faults > 0
    /\ faults' = faults - 1
    /\ cobj' = obj /\ cds' = ds /\ cwh' = wh
    /\ queued' = obj.live
    /\ work' = Idle
    /\ UNCHANGED <<api, asked>>

-----------------------------------------------------------------------------
(***************************************************************************)
(* How a step ends.                                                        *)
(***************************************************************************)

Fault == faults > 0 /\ faults' = faults - 1

Goto(pc) == work' = [work EXCEPT !.pc = pc] /\ UNCHANGED queued

Finish == work' = Idle /\ UNCHANGED queued

\* Requeue, RequeueAfter and errors: the key comes back some time.
Requeue == work' = Idle /\ queued' = TRUE

-----------------------------------------------------------------------------
(***************************************************************************)
(* Reconcile.                                                              *)
(***************************************************************************)

\* An object that is gone, or is being deleted without our finalizer, needs
\* nothing more.  A pass that deploys first sets the Progressing condition.
Dequeue ==
    /\ work.pc = "idle"
    /\ queued
    /\ queued' = FALSE
    /\ \/ /\ ~cobj.live \/ (cobj.deleting /\ ~cobj.fin)
          /\ UNCHANGED work
       \/ /\ cobj.live /\ cobj.deleting /\ cobj.fin
          /\ work' = [pc |-> "cleanup", obj |-> cobj]
       \/ /\ cobj.live /\ ~cobj.deleting /\ ~cobj.fin
          /\ work' = [pc |-> "admit", obj |-> cobj]
       \/ /\ cobj.live /\ ~cobj.deleting /\ cobj.fin
          /\ work' = [pc  |-> "agent",
                      obj |-> [cobj EXCEPT !.status =
                                  Stamped(@, [@ EXCEPT !.progressing = TRUE])]]
    /\ UNCHANGED <<api, watches, asked, faults>>

\* Slip: a webhook configuration that is not there is an error.
CleanupMustFind ==
    /\ work.pc = "cleanup"
    /\ \/ work.obj.spec.mode = "sidecar" /\ cwh /\ wh' = FALSE /\ Goto("unfinalize")
       \/ work.obj.spec.mode = "sidecar" /\ ~cwh /\ UNCHANGED wh /\ Requeue
       \/ work.obj.spec.mode # "sidecar" /\ UNCHANGED wh /\ Goto("unfinalize")
    /\ UNCHANGED <<obj, ds, watches, asked, faults>>

\* cleanupResources: the webhook goes if the spec's present mode is sidecar
\* and the cache knows it.
Cleanup ==
    /\ work.pc = "cleanup"
    /\ \/ /\ work.obj.spec.mode = "sidecar" /\ cwh
          /\ \/ wh' = FALSE /\ Goto("unfinalize") /\ UNCHANGED faults
             \/ wh' \in {wh, FALSE} /\ Requeue /\ Fault
       \/ /\ ~(work.obj.spec.mode = "sidecar" /\ cwh)
          /\ Goto("unfinalize")
          /\ UNCHANGED <<wh, faults>>
    /\ UNCHANGED <<obj, ds, watches, asked>>

\* The Update without the finalizer removes an object being deleted.
RemoveFinalizer ==
    /\ work.pc = "unfinalize"
    /\ \/ /\ work.obj = obj
          /\ obj' = Gone(obj.uid)
          /\ \/ Finish /\ UNCHANGED faults
             \/ Requeue /\ Fault
       \/ work.obj # obj /\ UNCHANGED <<obj, faults>> /\ Requeue
       \/ UNCHANGED obj /\ Fault /\ Requeue
    /\ UNCHANGED <<ds, wh, watches, asked>>

\* An object written by the operator has lost every "enabled: false": the
\* field is a bool with omitempty, so that false is not sent, and the CRD's
\* default of true takes its place.
Stored(spec) == [spec EXCEPT !.plugin = TRUE, !.retry = TRUE, !.metrics = TRUE]

\* Slip: the pass goes on, whatever becomes of the Update.
AddFinalizerUnchecked ==
    /\ work.pc = "admit"
    /\ \/ work.obj = obj /\ obj' = [obj EXCEPT !.fin = TRUE]
       \/ work.obj # obj /\ UNCHANGED obj
    /\ Goto("agent")
    /\ UNCHANGED <<ds, wh, watches, asked, faults>>

AddFinalizer ==
    /\ work.pc = "admit"
    /\ \/ /\ work.obj = obj
          /\ obj' = [obj EXCEPT !.fin = TRUE, !.spec = Stored(@),
                                !.gen = IF Stored(obj.spec) = obj.spec THEN @ ELSE @ + 1]
          /\ UNCHANGED faults \/ Fault
       \/ work.obj # obj /\ UNCHANGED <<obj, faults>>
       \/ UNCHANGED obj /\ Fault
    /\ Requeue
    /\ UNCHANGED <<ds, wh, watches, asked>>

\* A component that gets a DaemonSet, and one whose reconcile function is
\* called at all: the sidecar mode has a webhook instead, kernel and none
\* have nothing.
HasDaemonSet(c, spec) ==
    \/ c = "agent"
    \/ c = "plugin" /\ spec.plugin
    \/ c = "retry" /\ spec.retry /\ spec.mode = "daemonset"
    \/ c = "metrics" /\ spec.metrics

HasWebhook(spec) == spec.retry /\ spec.mode = "sidecar"

Enabled(c, spec) ==
    \/ c = "agent"
    \/ c = "plugin" /\ spec.plugin
    \/ c = "retry" /\ spec.retry
    \/ c = "metrics" /\ spec.metrics

\* The component's condition, and the next step.
Proceed(c) ==
    LET s == work.obj.status
        ready == IF Enabled(c, work.obj.spec) THEN s.ready \cup {c} ELSE s.ready \ {c}
    IN
    /\ work' = [work EXCEPT
                  !.pc = After(c),
                  !.obj.status = Stamped(s, [s EXCEPT !.ready = ready, !.failed = @ \ {c}])]
    /\ UNCHANGED queued

ComponentFailed(c) ==
    LET s == work.obj.status
        r == [s EXCEPT !.observed = work.obj.gen, !.available = FALSE, !.degraded = TRUE,
                       !.ready = @ \ {c}, !.failed = @ \cup {c}]
    IN
    /\ work' = [work EXCEPT !.pc = "fail", !.obj.status = Stamped(s, r)]
    /\ UNCHANGED queued

\* Slip: the error of a failed call is logged and dropped.
ApplyDaemonSetAnyway(c) ==
    LET built == IF cds[c].uid = 0
                 THEN [uid |-> work.obj.uid, gen |-> work.obj.gen, pods |-> "unreported"]
                 ELSE [cds[c] EXCEPT !.gen = work.obj.gen]
    IN
    /\ work.pc = c
    /\ HasDaemonSet(c, work.obj.spec)
    /\ Proceed(c)
    /\ \/ cds[c] = ds[c] /\ ds' = [ds EXCEPT ![c] = built] /\ UNCHANGED faults
       \/ cds[c] # ds[c] /\ UNCHANGED <<ds, faults>>
       \/ Fault /\ UNCHANGED ds
    /\ UNCHANGED <<obj, wh, watches, asked>>

\* Get from the cache, then Create with the driver as owner, or Update of the
\* Spec alone: a DaemonSet that is found keeps the owner it has.
ApplyDaemonSet(c) ==
    LET built == IF cds[c].uid = 0
                 THEN [uid |-> work.obj.uid, gen |-> work.obj.gen, pods |-> "unreported"]
                 ELSE [cds[c] EXCEPT !.gen = work.obj.gen]
    IN
    /\ work.pc = c
    /\ HasDaemonSet(c, work.obj.spec)
    /\ \/ /\ cds[c] = ds[c]
          /\ ds' = [ds EXCEPT ![c] = built]
          /\ \/ Proceed(c) /\ UNCHANGED faults
             \/ ComponentFailed(c) /\ Fault
       \/ cds[c] # ds[c] /\ ComponentFailed(c) /\ UNCHANGED <<ds, faults>>
       \/ ComponentFailed(c) /\ Fault /\ UNCHANGED ds
    /\ UNCHANGED <<obj, wh, watches, asked>>

\* reconcileSidecarWebhook.
ApplyWebhook ==
    /\ work.pc = "retry"
    /\ HasWebhook(work.obj.spec)
    /\ \/ /\ cwh = wh
          /\ wh' = TRUE
          /\ \/ Proceed("retry") /\ UNCHANGED faults
             \/ ComponentFailed("retry") /\ Fault
       \/ cwh # wh /\ ComponentFailed("retry") /\ UNCHANGED <<wh, faults>>
       \/ ComponentFailed("retry") /\ Fault /\ UNCHANGED wh
    /\ UNCHANGED <<obj, ds, watches, asked>>

\* A disabled component, and the kernel and none modes: what was deployed
\* before is left as it is.
SkipComponent(c) ==
    /\ work.pc = c
    /\ ~HasDaemonSet(c, work.obj.spec)
    /\ c = "retry" => ~HasWebhook(work.obj.spec)
    /\ Proceed(c)
    /\ UNCHANGED <<api, watches, asked, faults>>

\* Slip: a node that recovers does not clear the Degraded condition.
NodesCountedKeepingDegraded(s, p) ==
    [s EXCEPT !.observed = work.obj.gen,
              !.available = (p = "ready"),
              !.degraded = @ \/ p = "unavailable",
              !.progressing = @ /\ p # "ready"]

\* What updateStatus makes of the conditions, p being what is reported of the pods.
NodesCounted(s, p) ==
    [s EXCEPT !.observed = work.obj.gen,
              !.available = (p = "ready"),
              !.degraded = p = "unavailable" \/ (p # "ready" /\ s.degraded),
              !.progressing = @ /\ p # "ready"]

\* updateStatus: the driver agent's DaemonSet, as the cache has it, decides.
CountNodes ==
    LET s == work.obj.status IN
    /\ work.pc = "count"
    /\ work' = [work EXCEPT
                  !.pc = "write",
                  !.obj.status = Stamped(s, NodesCounted(s, cds["agent"].pods))]
    /\ UNCHANGED <<api, watches, queued, asked, faults>>

\* Slip: a pass that succeeded asks for another one.
WriteStatusAndRequeue ==
    /\ work.pc \in {"write", "fail"}
    /\ \/ /\ cobj.live /\ cobj = obj
          /\ \E s \in Written(work.obj.status) : obj' = [obj EXCEPT !.status = s]
       \/ ~(cobj.live /\ cobj = obj) /\ UNCHANGED obj
    /\ Requeue
    /\ UNCHANGED <<ds, wh, watches, asked, faults>>

\* updateStatusRetryOnConflict: the new status goes to the object that the
\* cache now has under the name; after a failure the key comes back anyway.
WriteStatus ==
    LET fresh == cobj.live /\ cobj = obj IN
    /\ work.pc \in {"write", "fail"}
    /\ \/ /\ fresh
          /\ \E s \in Written(work.obj.status) : obj' = [obj EXCEPT !.status = s]
          /\ \/ work.pc = "write" /\ Finish /\ UNCHANGED faults
             \/ work.pc = "fail" /\ Requeue /\ UNCHANGED faults
             \/ Requeue /\ Fault
       \/ ~fresh /\ Requeue /\ UNCHANGED <<obj, faults>>
       \/ Requeue /\ Fault /\ UNCHANGED obj
    /\ UNCHANGED <<ds, wh, watches, asked>>

-----------------------------------------------------------------------------
Users ==
    \/ \E spec \in Specs : CreateDriver(spec) \/ EditSpec(spec)
    \/ DeleteDriver

Cluster ==
    \/ \E p \in PodReports : ReportPods(p)
    \/ \E c \in Components : CollectGarbage(c) \/ SyncDaemonSet(c)
    \/ SyncDriver \/ SyncWebhook \/ Crash

Reconcile ==
    \/ Cleanup \/ RemoveFinalizer \/ AddFinalizer
    \/ \E c \in Components : ApplyDaemonSet(c) \/ SkipComponent(c)
    \/ ApplyWebhook \/ CountNodes \/ WriteStatus

Next == Users \/ Cluster \/ Dequeue \/ Reconcile

Spec == Init /\ [][Next]_vars

\* The worker runs, watches deliver and the garbage collector works.
FairSpec ==
    /\ Spec
    /\ WF_vars(Dequeue) /\ WF_vars(Reconcile)
    /\ WF_vars(SyncDriver) /\ WF_vars(SyncWebhook)
    /\ \A c \in Components : WF_vars(SyncDaemonSet(c)) /\ WF_vars(CollectGarbage(c))

-----------------------------------------------------------------------------
(***************************************************************************)
(* Properties.                                                             *)
(***************************************************************************)

\* A pass that deploys components works for the CXIDriver that exists: its
\* copy may be outdated, but the finalizer keeps the object until this same
\* worker lets it go.  So no DaemonSet is created for a driver that is gone,
\* and no status of an old incarnation reaches a new one.
PassIsOnLiveDriver ==
    work.pc \in Deploying =>
        obj.live /\ obj.fin /\ obj.uid = work.obj.uid /\ work.obj.gen <= obj.gen

\* Nothing is left to do and nothing is under way.
Settled ==
    /\ ~queued /\ work.pc = "idle"
    /\ cobj = obj /\ cds = ds /\ cwh = wh
    /\ ~\E c \in Components : Garbage(c)

Usable == obj.live /\ ~obj.deleting

\* No wakeup is lost: when the operator has come to rest, the components the
\* spec asks for are deployed from its last generation and owned by the driver.
SettledIsDeployed ==
    Settled /\ Usable =>
        /\ \A c \in Components : HasDaemonSet(c, obj.spec) =>
              ds[c].uid = obj.uid /\ ds[c].gen = obj.gen
        /\ HasWebhook(obj.spec) => wh

\* ... and the status tells the truth about it.
SettledIsReported ==
    Settled /\ Usable =>
        /\ obj.status.observed = obj.gen
        /\ obj.status.available <=> ds["agent"].pods = "ready"
        /\ ds["agent"].pods = "ready" => ~obj.status.degraded
        /\ ds["agent"].pods = "unavailable" => obj.status.degraded
        /\ obj.status.progressing <=> ds["agent"].pods # "ready"
        /\ obj.status.ready = {c \in Components : Enabled(c, obj.spec)}

\* "Clean up webhook if sidecar mode was used": no webhook configuration
\* survives its driver.
WebhookIsCleanedUp == ~obj.live => ~wh

\* "Enabled specifies whether the device plugin is enabled": what the user
\* asked for is what is stored.
SpecIsAsked == obj.live => obj.spec = asked

\* ... and at rest nothing runs that the spec does not ask for.
NothingLeftOver ==
    Settled /\ Usable =>
        \A c \in Components : ds[c].uid # 0 => HasDaemonSet(c, obj.spec)

\* A deleted driver goes away.
DeletionCompletes == obj.deleting ~> ~obj.deleting

\* Users and pods leave the operator alone.  The driver agent's pods must have been
\* reported by then: before that updateStatus keeps the Degraded condition of its own
\* copy, and passes that always start from the last but one status write it back and
\* forth for ever.
PodsReported == Usable => ds["agent"].pods # "unreported"
Undisturbed ==
    <>[][~(Users \/ \E p \in PodReports : ReportPods(p))]_vars /\ <>[]PodsReported

TimesChange == obj'.status.times # obj.status.times
OnlyTimesChange == obj'.status = [obj.status EXCEPT !.times = obj'.status.times]

\* Left alone, the operator settles on one status but for the times of its conditions.
\* It comes to rest unless these change for ever: each pass takes Progressing to true and
\* back, and a write that does not fall into the second of the last wakes another pass.
Converges ==
    Undisturbed => /\ <>[][OnlyTimesChange]_vars
                   /\ <>[]Settled \/ []<><<TimesChange>>_vars

\* Left alone, the operator comes to rest.
ComesToRest == Undisturbed => <>[]Settled
=============================================================================
