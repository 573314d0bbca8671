------------------------- MODULE CXIDriverSingleton -------------------------
(***************************************************************************)
(* The singleton protocol of the operator: of all the CXIDriver resources  *)
(* in the cluster one is "active", its name is kept in the ConfigMap       *)
(* cxidriver-singleton, and only the active one gets a finalizer and the   *)
(* DaemonSets.  The module models the front half of Reconcile and the      *)
(* functions it calls to read, take and clear the singleton, one action    *)
(* per read of the informer cache or write to the API server, so that      *)
(* watch events, user requests, the garbage collector and crashes come in  *)
(* between any two of them.                                                *)
(*                                                                         *)
(* The manager's client (cmd/main.go) reads from informer caches, one per  *)
(* kind, each with its own lag, and writes to the API server, which        *)
(* refuses a write made from an outdated copy.  A cache holds a past state *)
(* of the object, and an Update succeeds when the copy it was made from is *)
(* still the stored one; a resourceVersion is not needed to say so, since  *)
(* a copy equal to the stored object is one the cache could have just      *)
(* read.                                                                   *)
(***************************************************************************)
EXTENDS Naturals

CONSTANTS
    Drivers,    \* names of CXIDriver resources
    Operators,  \* running manager processes
    None,       \* no driver: the empty active-driver entry
    MaxUid,     \* bound: incarnations the users create of each name
    MaxFaults   \* bound: failed API calls and operator crashes

ASSUME NoneAssumption == None \notin Drivers
ASSUME BoundsAssumption == MaxUid \in [Drivers -> Nat] /\ MaxFaults \in Nat

VARIABLES
    drv,     \* API server: the CXIDriver of each name
    cm,      \* API server: active-driver in the singleton ConfigMap
    report,  \* API server: what the status conditions of each CXIDriver say
    ds,      \* API server: uid owning the name's DaemonSets, 0 without any
    cache,   \* CXIDriver informer cache of each operator
    ccm,     \* ConfigMap informer cache of each operator
    cds,     \* DaemonSet informer cache of each operator
    queue,   \* work queue of each operator
    work,    \* the reconcile its one worker is in the middle of
    faults   \* failures still to come

api == <<drv, cm, report, ds>>
watches == <<cache, ccm, cds>>
vars == <<drv, cm, report, ds, cache, ccm, cds, queue, work, faults>>

-----------------------------------------------------------------------------
Reports == {"none", "ignored", "failed", "managed"}

Steps == {"idle", "gone", "clear", "cleanup", "decide", "lookup", "claim",
          "ignore", "admit", "fail", "report"}

\* A CXIDriver: uid numbers the incarnations of a name, fin is the
\* operator's finalizer.  Its status is in the variable report: a copy whose
\* status alone is outdated is refused too, which counts as a failed call.
CXIDriver == [uid : Nat, live : BOOLEAN, deleting : BOOLEAN, fin : BOOLEAN]

Gone(uid) == [uid |-> uid, live |-> FALSE, deleting |-> FALSE, fin |-> FALSE]

Born(uid) == [Gone(uid) EXCEPT !.live = TRUE]

\* act is the entry the reconcile read from the ConfigMap and judged.
Idle == [pc |-> "idle", d |-> None, obj |-> Gone(0), act |-> None]

TypeOK ==
    /\ drv \in [Drivers -> CXIDriver]
    /\ cm \in Drivers \cup {None}
    /\ report \in [Drivers -> Reports]
    /\ ds \in [Drivers -> Nat]
    /\ cache \in [Operators -> [Drivers -> CXIDriver]]
    /\ ccm \in [Operators -> Drivers \cup {None}]
    /\ cds \in [Operators -> [Drivers -> Nat]]
    /\ queue \in [Operators -> SUBSET Drivers]
    /\ work \in [Operators -> [pc : Steps, d : Drivers \cup {None},
                               obj : CXIDriver, act : Drivers \cup {None}]]
    /\ \A o \in Operators : work[o].pc # "idle" => work[o].d \in Drivers
    /\ \A o \in Operators : work[o].pc = "lookup" => work[o].act # None
    /\ faults \in Nat

Init ==
    /\ drv = [d \in Drivers |-> Gone(0)]
    /\ cm = None
    /\ report = [d \in Drivers |-> "none"]
    /\ ds = [d \in Drivers |-> 0]
    /\ cache = [o \in Operators |-> drv]
    /\ ccm = [o \in Operators |-> None]
    /\ cds = [o \in Operators |-> ds]
    /\ queue = [o \in Operators |-> {}]
    /\ work = [o \in Operators |-> Idle]
    /\ faults = MaxFaults

-----------------------------------------------------------------------------
(***************************************************************************)
(* Users, the garbage collector and the watches.                           *)
(***************************************************************************)

CreateDriver(d) ==
    /\ ~drv[d].live
    /\ drv[d].uid < MaxUid[d]
    /\ drv' = [drv EXCEPT ![d] = Born(@.uid + 1)]
    /\ report' = [report EXCEPT ![d] = "none"]
    /\ UNCHANGED <<cm, ds, watches, queue, work, faults>>

\* An object without finalizers disappears at once, one with the operator's
\* finalizer gets a deletion timestamp.
DeleteDriver(d) ==
    /\ drv[d].live
    /\ ~drv[d].deleting
    /\ drv' = [drv EXCEPT ![d] = IF @.fin THEN [@ EXCEPT !.deleting = TRUE]
                                          ELSE Gone(@.uid)]
    /\ UNCHANGED <<cm, report, ds, watches, queue, work, faults>>

\* DaemonSets go with the CXIDriver that owns them.
CollectGarbage(d) ==
    /\ ds[d] # 0
    /\ ~(drv[d].live /\ drv[d].uid = ds[d])
    /\ ds' = [ds EXCEPT ![d] = 0]
    /\ UNCHANGED <<drv, cm, report, watches, queue, work, faults>>

SyncDriver(o, d) ==
    /\ cache[o][d] # drv[d]
    /\ cache' = [cache EXCEPT ![o][d] = drv[d]]
    /\ queue' = [queue EXCEPT ![o] = @ \cup {d}]
    /\ UNCHANGED <<api, ccm, cds, work, faults>>

\* The Owns watch enqueues the owner by its name.
SyncDaemonSets(o, d) ==
    /\ cds[o][d] # ds[d]
    /\ cds' = [cds EXCEPT ![o][d] = ds[d]]
    /\ queue' = [queue EXCEPT ![o] = @ \cup {d}]
    /\ UNCHANGED <<api, cache, ccm, work, faults>>

\* The ConfigMap is read through a cache and is not watched by the
\* controller: a change of it enqueues nothing.
SyncConfigMap(o) ==
    /\ ccm[o] # cm
    /\ ccm' = [ccm EXCEPT ![o] = cm]
    /\ UNCHANGED <<api, cache, cds, queue, work, faults>>

\* The periodic resync of the informer, and any event (an edit of the spec,
\* a DaemonSet's status) that enqueues a driver without changing what this
\* module keeps of it.
Resync(o, d) ==
    /\ cache[o][d].live
    /\ queue' = [queue EXCEPT ![o] = @ \cup {d}]
    /\ UNCHANGED <<api, watches, work, faults>>

\* A restarted operator lists everything before its controller starts.
Crash(o) ==
    /\ faults > 0
    /\ faults' = faults - 1
    /\ cache' = [cache EXCEPT ![o] = drv]
    /\ ccm' = [ccm EXCEPT ![o] = cm]
    /\ cds' = [cds EXCEPT ![o] = ds]
    /\ queue' = [queue EXCEPT ![o] = {d \in Drivers : drv[d].live}]
    /\ work' = [work EXCEPT ![o] = Idle]
    /\ UNCHANGED api

-----------------------------------------------------------------------------
(***************************************************************************)
(* How a step of Reconcile ends.                                           *)
(***************************************************************************)

Goto(o, pc) ==
    /\ work' = [work EXCEPT ![o].pc = pc]
    /\ UNCHANGED <<queue, faults>>

\* The entry read from the ConfigMap decides the next step.
Judge(o, pc) ==
    /\ work' = [work EXCEPT ![o] = [@ EXCEPT !.pc = pc, !.act = ccm[o]]]
    /\ UNCHANGED <<queue, faults>>

Done(o) ==
    /\ work' = [work EXCEPT ![o] = Idle]
    /\ UNCHANGED <<queue, faults>>

\* Requeue or RequeueAfter: the key comes back, the delay is left out.
Requeue(o) ==
    /\ work' = [work EXCEPT ![o] = Idle]
    /\ queue' = [queue EXCEPT ![o] = @ \cup {work[o].d}]

Fail(o) ==
    /\ work' = [work EXCEPT ![o].pc = "fail"]
    /\ UNCHANGED queue

Retry(o) == Requeue(o) /\ UNCHANGED faults

Fault == faults > 0 /\ faults' = faults - 1

\* The call fails, or is carried out and its answer is lost.
Failed(o) == Requeue(o) /\ Fault

-----------------------------------------------------------------------------
(***************************************************************************)
(* Reconcile.                                                              *)
(***************************************************************************)

FirstStep(obj) ==
    CASE ~obj.live -> "gone"
      [] obj.live /\ obj.deleting -> "cleanup"
      [] OTHER -> "decide"

Dequeue(o, d) ==
    /\ work[o].pc = "idle"
    /\ d \in queue[o]
    /\ queue' = [queue EXCEPT ![o] = @ \ {d}]
    /\ work' = [work EXCEPT ![o] = [pc |-> FirstStep(cache[o][d]), d |-> d,
                                    obj |-> cache[o][d], act |-> None]]
    /\ UNCHANGED <<api, watches, faults>>

\* getActiveCXIDriver of a driver that is gone.
ReadActiveOfGone(o) ==
    /\ work[o].pc = "gone"
    /\ \/ ccm[o] = work[o].d /\ Judge(o, "clear")
       \/ ccm[o] # work[o].d /\ Done(o)
    /\ UNCHANGED <<api, watches>>

\* setActiveCXIDriver(""): it reads the ConfigMap again and removes the entry
\* whatever name it now holds.  Every error is logged and dropped.
ClearActive(o) ==
    /\ work[o].pc = "clear"
    /\ \/ ccm[o] = cm /\ cm' = None /\ Done(o)
       \/ ccm[o] # cm /\ UNCHANGED cm /\ Done(o)
       \/ UNCHANGED <<cm, queue>> /\ Fault /\ work' = [work EXCEPT ![o] = Idle]
    /\ UNCHANGED <<drv, report, ds, watches>>

\* cleanupResources, then the Update that drops the finalizer, which removes
\* an object being deleted.
RemoveFinalizer(o) ==
    LET w == work[o] IN
    /\ w.pc = "cleanup"
    /\ \/ /\ w.obj = drv[w.d]
          /\ drv' = [drv EXCEPT ![w.d] = Gone(w.obj.uid)]
          /\ Goto(o, "gone") \/ Failed(o)
       \/ w.obj # drv[w.d] /\ UNCHANGED drv /\ Retry(o)
       \/ UNCHANGED drv /\ Failed(o)
    /\ UNCHANGED <<cm, report, ds, watches>>

\* Slip: an empty entry is looked up like a name.
ReadActiveUnchecked(o) ==
    LET w == work[o] IN
    /\ w.pc = "decide"
    /\ \/ ccm[o] = w.d /\ Judge(o, "admit")
       \/ ccm[o] # w.d /\ Judge(o, "lookup")
    /\ UNCHANGED <<api, watches>>

\* Slip: whoever finds an entry takes it for its own.
ReadActiveOfAnyone(o) ==
    LET w == work[o] IN
    /\ w.pc = "decide"
    /\ \/ ccm[o] = None /\ Judge(o, "claim")
       \/ ccm[o] # None /\ Judge(o, "admit")
    /\ UNCHANGED <<api, watches>>

\* isActiveCXIDriver: the first read of the ConfigMap.
ReadActive(o) ==
    LET w == work[o] IN
    /\ w.pc = "decide"
    /\ \/ ccm[o] = None /\ Judge(o, "claim")
       \/ ccm[o] = w.d /\ Judge(o, "admit")
       \/ ccm[o] \notin {None, w.d} /\ Judge(o, "lookup")
    /\ UNCHANGED <<api, watches>>

\* Slip: an active driver that is being deleted counts as gone.
LookupActiveUndeleted(o) ==
    LET a == cache[o][work[o].act] IN
    /\ work[o].pc = "lookup"
    /\ \/ a.live /\ ~a.deleting /\ Goto(o, "ignore")
       \/ ~(a.live /\ ~a.deleting) /\ Goto(o, "claim")
    /\ UNCHANGED <<api, watches>>

\* Slip: a name in the entry is believed without looking the driver up.
LookupActiveBelieved(o) ==
    work[o].pc = "lookup" /\ Goto(o, "ignore") /\ UNCHANGED <<api, watches>>

\* isActiveCXIDriver: does the active driver still exist?
LookupActive(o) ==
    /\ work[o].pc = "lookup"
    /\ \/ cache[o][work[o].act].live /\ Goto(o, "ignore")
       \/ ~cache[o][work[o].act].live /\ Goto(o, "claim")
    /\ UNCHANGED <<api, watches>>

\* setActiveCXIDriver(name): a second read of the ConfigMap, of which only
\* the version matters, and the Create or Update that stores the name.
Claim(o) ==
    LET w == work[o] IN
    /\ w.pc = "claim"
    /\ \/ ccm[o] = cm /\ cm' = w.d /\ (Goto(o, "admit") \/ Failed(o))
       \/ ccm[o] # cm /\ UNCHANGED cm /\ Retry(o)
       \/ UNCHANGED cm /\ Failed(o)
    /\ UNCHANGED <<drv, report, ds, watches>>

\* The active driver gets the finalizer in a reconcile of its own.
AddFinalizer(o) ==
    LET w == work[o] IN
    /\ w.pc = "admit"
    /\ ~w.obj.fin
    /\ \/ /\ w.obj = drv[w.d]
          /\ drv' = [drv EXCEPT ![w.d].fin = TRUE]
          /\ Retry(o) \/ Failed(o)
       \/ w.obj # drv[w.d] /\ UNCHANGED drv /\ Retry(o)
       \/ UNCHANGED drv /\ Failed(o)
    /\ UNCHANGED <<cm, report, ds, watches>>

\* Slip: the first reconcile goes on to the DaemonSets without the finalizer.
DeployUnguarded(o) ==
    LET w == work[o]
        known == cds[o][w.d]
    IN
    /\ w.pc = "admit"
    /\ known = ds[w.d]
    /\ ds' = [ds EXCEPT ![w.d] = IF known = 0 THEN w.obj.uid ELSE known]
    /\ Goto(o, "report")
    /\ UNCHANGED <<drv, cm, report, watches>>

\* The component reconcilers create the DaemonSets with the driver as owner;
\* DaemonSets the cache knows under the same names only get a new Spec and
\* keep their owner.  The API server refuses a Create or an Update that the
\* cache is too old for.
Deploy(o) ==
    LET w == work[o]
        known == cds[o][w.d]
    IN
    /\ w.pc = "admit"
    /\ w.obj.fin
    /\ \/ /\ known = ds[w.d]
          /\ ds' = [ds EXCEPT ![w.d] = IF known = 0 THEN w.obj.uid ELSE known]
          /\ Goto(o, "report") \/ (Fault /\ Fail(o))
       \/ UNCHANGED <<ds, faults>> /\ known # ds[w.d] /\ Fail(o)
       \/ UNCHANGED ds /\ Fault /\ Fail(o)
    /\ UNCHANGED <<drv, cm, report, watches>>

\* updateStatusRetryOnConflict: the status goes to the object the cache now
\* holds under the name, be it the one that was reconciled or not.  After a
\* failed deployment the key comes back whatever becomes of the status.
Verdict(pc) ==
    CASE pc = "ignore" -> "ignored"
      [] pc = "fail"   -> "failed"
      [] pc = "report" -> "managed"

WriteStatus(o) ==
    LET w == work[o]
        latest == cache[o][w.d]
        fresh == latest.live /\ latest = drv[w.d]
    IN
    /\ w.pc \in {"ignore", "fail", "report"}
    /\ \/ /\ fresh
          /\ report' = [report EXCEPT ![w.d] = Verdict(w.pc)]
          /\ \/ w.pc = "fail" /\ Retry(o)
             \/ w.pc # "fail" /\ Done(o)
             \/ Failed(o)
       \/ ~fresh /\ UNCHANGED report /\ Retry(o)
       \/ UNCHANGED report /\ Failed(o)
    /\ UNCHANGED <<drv, cm, ds, watches>>

-----------------------------------------------------------------------------
Reconcile(o) ==
    \/ ReadActiveOfGone(o) \/ ClearActive(o) \/ RemoveFinalizer(o)
    \/ ReadActive(o) \/ LookupActive(o) \/ Claim(o)
    \/ AddFinalizer(o) \/ Deploy(o) \/ WriteStatus(o)

Environment ==
    \/ \E d \in Drivers : CreateDriver(d) \/ DeleteDriver(d) \/ CollectGarbage(d)
    \/ \E o \in Operators : Crash(o) \/ SyncConfigMap(o)
    \/ \E o \in Operators, d \in Drivers :
          SyncDriver(o, d) \/ SyncDaemonSets(o, d) \/ Resync(o, d)

Next ==
    \/ Environment
    \/ \E o \in Operators : Reconcile(o) \/ \E d \in Drivers : Dequeue(o, d)

Spec == Init /\ [][Next]_vars

\* The worker runs, the queue is first-in first-out, watches deliver and the
\* garbage collector works.
Fairness ==
    /\ \A o \in Operators :
          /\ WF_vars(Reconcile(o))
          /\ \A d \in Drivers : SF_vars(Dequeue(o, d))
          /\ WF_vars(\/ SyncConfigMap(o)
                     \/ \E d \in Drivers : SyncDriver(o, d) \/ SyncDaemonSets(o, d))
    /\ WF_vars(\E d \in Drivers : CollectGarbage(d))

FairSpec == Spec /\ Fairness

\* The informers resync, if seldom: without that nothing wakes a driver that
\* was ignored when the one it was ignored for goes away.
ResyncSpec ==
    FairSpec /\ \A o \in Operators, d \in Drivers : WF_vars(Resync(o, d))

-----------------------------------------------------------------------------
(***************************************************************************)
(* Properties.                                                             *)
(***************************************************************************)

\* The DaemonSets of d belong to the CXIDriver that now has that name.
Deployed(d) == drv[d].live /\ ds[d] = drv[d].uid

\* Deletion of a driver with DaemonSets always goes through the cleanup of
\* Reconcile: whoever owns DaemonSets carries the finalizer, however stale
\* the copy was from which Reconcile admitted it.
DeployedHasFinalizer == \A d \in Drivers : Deployed(d) => drv[d].fin

\* A driver whose stored object carries the finalizer.
Managed(d) == drv[d].live /\ drv[d].fin

\* With one operator, the entry a reconcile read and decided to take over or
\* to clear is of no managed driver up to the moment it writes, although the
\* entry and the driver's absence come from two stale caches.
JudgedEntryIsFree ==
    \A o \in Operators :
        work[o].pc \in {"claim", "clear"} /\ work[o].act # None
            => ~Managed(work[o].act)

\* "Only one CXIDriver can be active" (README.md): two drivers never have
\* DaemonSets at the same time.
SingleManager == \A d, e \in Drivers : Deployed(d) /\ Deployed(e) => d = e

\* What the informer cache does not grant: the entry a reconcile is going to judge is
\* the one that is stored, and not what it was before the operator's last write.
ReadsAreFresh ==
    \A o \in Operators : work[o].pc \in {"decide", "gone"} => ccm[o] = cm

\* With that, and one operator, a driver gets its finalizer only when no other has it.
Holder == INSTANCE SingleHolder WITH holders <- {d \in Drivers : Managed(d)}

KeepsSingleton == Holder!Spec

\* A driver the user deletes does disappear, whatever conflicts, crashes and
\* stale reads its cleanup meets.
DeletionCompletes ==
    \A d \in Drivers : drv[d].deleting ~> ~drv[d].deleting

\* While there are drivers that are not being deleted, one of them comes to
\* hold the singleton, to be deployed and to be reported so: the entry of a
\* deleted driver does not block the others for ever.
Usable(d) == drv[d].live /\ ~drv[d].deleting
EntryIsUsable == cm # None /\ Usable(cm)
EntryIsServed == EntryIsUsable /\ Deployed(cm) /\ report[cm] = "managed"
SingletonIsServed ==
    <>[](\E d \in Drivers : Usable(d)) => <>[]EntryIsServed

\* The holder of the singleton ends up with DaemonSets of its own, also when
\* those of an earlier driver of that name were still being collected.
HolderDeploys ==
    \A d \in Drivers :
        <>[](cm = d /\ Usable(d)) => <>[](Deployed(d) /\ report[d] = "managed")

\* "Additional resources will show Degraded condition" (README).
OthersAreReported ==
    \A d \in Drivers :
        <>[](EntryIsUsable /\ cm # d /\ Usable(d)) => <>[](report[d] = "ignored")
=============================================================================
