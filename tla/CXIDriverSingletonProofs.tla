---------------------- MODULE CXIDriverSingletonProofs ----------------------
(***************************************************************************)
(* What holds of CXIDriverSingleton for every set of drivers and of        *)
(* operators and for every bound.                                          *)
(***************************************************************************)
EXTENDS CXIDriverSingleton, TLAPS

(***************************************************************************)
(* Type correctness.                                                       *)
(***************************************************************************)
LEMMA GoneType == \A n \in Nat : Gone(n) \in CXIDriver /\ Born(n) \in CXIDriver
BY DEF Gone, Born, CXIDriver

Work == [pc : Steps, d : Drivers \cup {None}, obj : CXIDriver,
         act : Drivers \cup {None}]

LEMMA DriverFields ==
    \A r \in CXIDriver : /\ [r EXCEPT !.deleting = TRUE] \in CXIDriver
                         /\ [r EXCEPT !.fin = TRUE] \in CXIDriver
BY DEF CXIDriver

LEMMA WorkFields ==
    \A w \in Work, pc \in Steps, e \in Drivers \cup {None} :
        /\ [w EXCEPT !.pc = pc] \in Work
        /\ [w EXCEPT !.pc = pc, !.act = e] \in Work
BY DEF Work

LEMMA IdleType == Idle \in Work
BY GoneType DEF Idle, Work, Steps

LEMMA InitType == Init => TypeOK
<1> SUFFICES ASSUME Init PROVE TypeOK
  OBVIOUS
<1>1. drv \in [Drivers -> CXIDriver]
  BY GoneType DEF Init
<1>2. work \in [Operators -> Work]
  BY IdleType DEF Init
<1>3. \A o \in Operators : work[o].pc = "idle"
  BY DEF Init, Idle
<1> QED
  BY <1>1, <1>2, <1>3, BoundsAssumption DEF Init, TypeOK, Work, Reports

LEMMA EnvironmentType == ASSUME TypeOK, Environment PROVE TypeOK'
<1> USE DEF TypeOK, api, watches
<1>1. ASSUME NEW d \in Drivers, CreateDriver(d) PROVE TypeOK'
  <2>1. drv[d].uid + 1 \in Nat
    BY DEF CXIDriver
  <2>2. drv' \in [Drivers -> CXIDriver]
    BY <1>1, <2>1, GoneType DEF CreateDriver
  <2> QED
    BY <1>1, <2>2 DEF CreateDriver, Reports
<1>2. ASSUME NEW d \in Drivers, DeleteDriver(d) PROVE TypeOK'
  <2>1. drv[d] \in CXIDriver /\ Gone(drv[d].uid) \in CXIDriver
    BY GoneType DEF CXIDriver
  <2>2. [drv[d] EXCEPT !.deleting = TRUE] \in CXIDriver
    BY <2>1, DriverFields
  <2>3. drv' \in [Drivers -> CXIDriver]
    BY <1>2, <2>1, <2>2 DEF DeleteDriver
  <2> QED
    BY <1>2, <2>3 DEF DeleteDriver
<1>3. ASSUME NEW d \in Drivers, CollectGarbage(d) PROVE TypeOK'
  BY <1>3 DEF CollectGarbage
<1>4. ASSUME NEW o \in Operators, Crash(o) PROVE TypeOK'
  <2>1. work' \in [Operators -> Work]
    BY <1>4, IdleType DEF Crash, Work
  <2>2. \A p \in Operators : work'[p] = Idle \/ work'[p] = work[p]
    BY <1>4 DEF Crash
  <2> QED
    BY <1>4, <2>1, <2>2 DEF Crash, Work, Idle
<1>5. ASSUME NEW o \in Operators, SyncConfigMap(o) PROVE TypeOK'
  BY <1>5 DEF SyncConfigMap
<1>6. ASSUME NEW o \in Operators, NEW d \in Drivers, SyncDriver(o, d) PROVE TypeOK'
  BY <1>6 DEF SyncDriver
<1>7. ASSUME NEW o \in Operators, NEW d \in Drivers, SyncDaemonSets(o, d) PROVE TypeOK'
  BY <1>7 DEF SyncDaemonSets
<1>8. ASSUME NEW o \in Operators, NEW d \in Drivers, Resync(o, d) PROVE TypeOK'
  BY <1>8 DEF Resync
<1> QED
  BY <1>1, <1>2, <1>3, <1>4, <1>5, <1>6, <1>7, <1>8 DEF Environment

\* However a step of Reconcile ends, it leaves work, queue and faults typed.
LEMMA EndingType ==
    ASSUME TypeOK, NEW o \in Operators, work[o].pc # "idle",
           \/ Done(o) \/ Retry(o) \/ Failed(o)
           \/ \E pc \in Steps \ {"idle", "lookup"} : Goto(o, pc) \/ Judge(o, pc)
           \/ Judge(o, "lookup") /\ ccm[o] # None
           \/ Fail(o) /\ (Fault \/ UNCHANGED faults)
           \/ Fault /\ work' = [work EXCEPT ![o] = Idle] /\ UNCHANGED queue
    PROVE  /\ work' \in [Operators -> Work]
           /\ \A p \in Operators : work'[p].pc # "idle" => work'[p].d \in Drivers
           /\ \A p \in Operators : work'[p].pc = "lookup" => work'[p].act # None
           /\ queue' \in [Operators -> SUBSET Drivers]
           /\ faults' \in Nat
<1> DEFINE Ends == work' = [work EXCEPT ![o] = Idle]
           Moves(r) == work' = [work EXCEPT ![o] = r]
<1>1. /\ work \in [Operators -> Work]
      /\ \A p \in Operators : work[p].pc # "idle" => work[p].d \in Drivers
      /\ \A p \in Operators : work[p].pc = "lookup" => work[p].act # None
      /\ ccm[o] \in Drivers \cup {None}
  BY DEF TypeOK, Work
<1>2. queue' \in [Operators -> SUBSET Drivers]
  <2>1. queue' = queue \/ queue' = [queue EXCEPT ![o] = queue[o] \cup {work[o].d}]
    BY DEF Done, Retry, Failed, Requeue, Goto, Judge, Fail
  <2>2. work[o].d \in Drivers /\ queue \in [Operators -> SUBSET Drivers]
    BY <1>1 DEF TypeOK
  <2> QED
    BY <2>1, <2>2
<1>3. faults' \in Nat
  <2>1. faults \in Nat /\ (faults' = faults \/ (faults > 0 /\ faults' = faults - 1))
    BY DEF TypeOK, Done, Retry, Failed, Requeue, Goto, Judge, Fail, Fault
  <2> QED
    BY <2>1
<1>4. CASE Ends
  BY <1>1, <1>2, <1>3, <1>4, IdleType DEF Idle
<1>5. ASSUME NEW pc \in Steps \ {"idle", "lookup"}, Moves([work[o] EXCEPT !.pc = pc])
      PROVE  /\ work' \in [Operators -> Work]
             /\ \A p \in Operators : work'[p].pc # "idle" => work'[p].d \in Drivers
             /\ \A p \in Operators : work'[p].pc = "lookup" => work'[p].act # None
  <2>1. [work[o] EXCEPT !.pc = pc] \in Work
    BY <1>1, WorkFields
  <2>2. [work[o] EXCEPT !.pc = pc].d = work[o].d /\ [work[o] EXCEPT !.pc = pc].pc = pc
    BY <1>1 DEF Work
  <2> QED
    BY <1>1, <1>5, <2>1, <2>2
<1>6. ASSUME NEW pc \in Steps \ {"idle"}, Judge(o, pc), pc = "lookup" => ccm[o] # None
      PROVE  /\ work' \in [Operators -> Work]
             /\ \A p \in Operators : work'[p].pc # "idle" => work'[p].d \in Drivers
             /\ \A p \in Operators : work'[p].pc = "lookup" => work'[p].act # None
  <2> DEFINE r == [work[o] EXCEPT !.pc = pc, !.act = ccm[o]]
  <2>1. r \in Work
    BY <1>1, WorkFields
  <2>2. r.d = work[o].d /\ r.pc = pc /\ r.act = ccm[o]
    BY <1>1 DEF Work
  <2>3. work' = [work EXCEPT ![o] = r]
    BY <1>6 DEF Judge
  <2> QED
    BY <1>1, <1>6, <2>1, <2>2, <2>3
<1>7. \A pc : Goto(o, pc) => Moves([work[o] EXCEPT !.pc = pc])
  BY DEF Goto
<1>8. Fail(o) => Moves([work[o] EXCEPT !.pc = "fail"])
  BY DEF Fail
<1>9. Done(o) \/ Retry(o) \/ Failed(o) => Ends
  BY DEF Done, Retry, Failed, Requeue
<1>10. "fail" \in Steps \ {"idle", "lookup"} /\ "lookup" \in Steps \ {"idle"}
  BY DEF Steps
<1> QED
  BY <1>2, <1>3, <1>4, <1>5, <1>6, <1>7, <1>8, <1>9, <1>10

LEMMA DequeueType ==
    ASSUME TypeOK, NEW o \in Operators, NEW d \in Drivers, Dequeue(o, d)
    PROVE  TypeOK'
<1>1. FirstStep(cache[o][d]) \in Steps \ {"idle", "lookup"}
  BY DEF FirstStep, Steps
<1>2. cache[o][d] \in CXIDriver
  BY DEF TypeOK
<1> QED
  BY <1>1, <1>2 DEF Dequeue, TypeOK, api, watches

LEMMA ReconcileType == ASSUME TypeOK, NEW o \in Operators, Reconcile(o) PROVE TypeOK'
<1> USE DEF TypeOK, api, watches, Work
<1>1. CASE ReadActiveOfGone(o)
  BY <1>1, EndingType DEF ReadActiveOfGone, Steps
<1>2. CASE ClearActive(o)
  BY <1>2, EndingType DEF ClearActive
<1>3. CASE RemoveFinalizer(o)
  <2>1. Gone(work[o].obj.uid) \in CXIDriver
    BY GoneType DEF CXIDriver
  <2>2. drv' \in [Drivers -> CXIDriver]
    BY <1>3, <2>1 DEF RemoveFinalizer
  <2> QED
    BY <1>3, <2>2, EndingType DEF RemoveFinalizer, Steps
<1>4. CASE ReadActive(o)
  BY <1>4, EndingType DEF ReadActive, Steps
<1>5. CASE LookupActive(o)
  BY <1>5, EndingType DEF LookupActive, Steps
<1>6. CASE Claim(o)
  BY <1>6, EndingType DEF Claim, Steps
<1>7. CASE AddFinalizer(o)
  <2>1. work[o].d \in Drivers
    BY <1>7 DEF AddFinalizer
  <2>2. [drv[work[o].d] EXCEPT !.fin = TRUE] \in CXIDriver
    BY <2>1, DriverFields
  <2>3. drv' \in [Drivers -> CXIDriver]
    <3>1. drv' = drv \/ drv' = [drv EXCEPT ![work[o].d] = [drv[work[o].d] EXCEPT !.fin = TRUE]]
      BY <1>7 DEF AddFinalizer
    <3> QED
      BY <2>2, <3>1
  <2> QED
    BY <1>7, <2>3, EndingType DEF AddFinalizer
<1>8. CASE Deploy(o)
  <2>1. work[o].obj.uid \in Nat
    BY DEF CXIDriver
  <2> QED
    BY <1>8, <2>1, EndingType DEF Deploy, Steps
<1>9. CASE WriteStatus(o)
  <2>1. Verdict(work[o].pc) \in Reports
    BY <1>9 DEF WriteStatus, Verdict, Reports
  <2> QED
    BY <1>9, <2>1, EndingType DEF WriteStatus
<1> QED
  BY <1>1, <1>2, <1>3, <1>4, <1>5, <1>6, <1>7, <1>8, <1>9 DEF Reconcile

LEMMA TypeStep == TypeOK /\ [Next]_vars => TypeOK'
<1> SUFFICES ASSUME TypeOK, [Next]_vars PROVE TypeOK'
  OBVIOUS
<1>1. CASE UNCHANGED vars
  BY <1>1 DEF TypeOK, vars
<1>2. CASE Next
  BY <1>2, EnvironmentType, DequeueType, ReconcileType DEF Next
<1> QED
  BY <1>1, <1>2

\* Every variable keeps its type: the singleton protocol never follows an
\* entry of the ConfigMap that names no driver.
THEOREM TypeCorrect == Spec => []TypeOK
BY InitType, TypeStep, PTL DEF Spec

-----------------------------------------------------------------------------
(***************************************************************************)
(* How a step changes the objects, the copies of them, and the DaemonSets. *)
(***************************************************************************)
DriverStep(d) ==
    /\ drv[d].uid <= drv'[d].uid
    /\ (drv'[d].live /\ drv'[d].uid = drv[d].uid)
          => drv[d].live /\ (drv[d].fin => drv'[d].fin)
    /\ drv[d].uid < drv'[d].uid => ~drv'[d].fin

CacheStep(o, d) ==
    \/ cache'[o][d] = cache[o][d]
    \/ cache'[o][d] = drv[d] /\ drv' = drv

WorkStep(o) ==
    \/ work'[o].pc = "idle"
    \/ /\ work[o].pc # "idle"
       /\ work'[o].d = work[o].d
       /\ work'[o].obj = work[o].obj
    \/ /\ work'[o].d \in Drivers
       /\ work'[o].obj = cache[o][work'[o].d]
       /\ cache' = cache /\ drv' = drv

DaemonSetStep(d) ==
    \/ ds'[d] = ds[d]
    \/ ds'[d] = 0
    \/ /\ drv' = drv
       /\ \E o \in Operators : /\ work[o].pc = "admit" /\ work[o].obj.fin
                               /\ work[o].d = d /\ ds'[d] = work[o].obj.uid

LEMMA DriverSteps ==
    ASSUME TypeOK, [Next]_vars, NEW d \in Drivers PROVE DriverStep(d)
<1>1. drv[d] \in CXIDriver /\ drv[d].uid \in Nat
  BY DEF TypeOK, CXIDriver
<1>2. CASE drv'[d] = drv[d]
  BY <1>1, <1>2 DEF DriverStep
<1>3. CASE ~drv[d].live /\ drv'[d] = Born(drv[d].uid + 1)
  BY <1>1, <1>3 DEF DriverStep, Born, Gone
<1>4. CASE drv'[d] = Gone(drv[d].uid)
  BY <1>1, <1>4 DEF DriverStep, Gone
<1>5. CASE drv'[d] = [drv[d] EXCEPT !.deleting = TRUE]
  BY <1>1, <1>5 DEF DriverStep, CXIDriver
<1>6. CASE drv'[d] = [drv[d] EXCEPT !.fin = TRUE]
  BY <1>1, <1>6 DEF DriverStep, CXIDriver
<1>7. ASSUME NEW e \in Drivers, CreateDriver(e) \/ DeleteDriver(e) PROVE DriverStep(d)
  <2>1. CASE CreateDriver(e)
    BY <1>2, <1>3, <2>1 DEF CreateDriver, TypeOK
  <2>2. CASE DeleteDriver(e)
    <3>1. \/ drv' = [drv EXCEPT ![e] = [drv[e] EXCEPT !.deleting = TRUE]]
          \/ drv' = [drv EXCEPT ![e] = Gone(drv[e].uid)]
      BY <2>2 DEF DeleteDriver
    <3> QED
      BY <1>2, <1>4, <1>5, <3>1 DEF TypeOK
  <2> QED
    BY <1>7, <2>1, <2>2
<1>8. ASSUME NEW o \in Operators, RemoveFinalizer(o) PROVE DriverStep(d)
  <2>1. work[o].obj = drv[work[o].d] => work[o].obj.uid = drv[work[o].d].uid
    OBVIOUS
  <2> QED
    BY <1>2, <1>4, <1>8, <2>1 DEF RemoveFinalizer, TypeOK
<1>9. ASSUME NEW o \in Operators, AddFinalizer(o) PROVE DriverStep(d)
  <2>1. \/ drv' = drv
        \/ drv' = [drv EXCEPT ![work[o].d] = [drv[work[o].d] EXCEPT !.fin = TRUE]]
    BY <1>9 DEF AddFinalizer
  <2> QED
    BY <1>2, <1>6, <2>1 DEF TypeOK
<1>10. CASE UNCHANGED drv
  BY <1>2, <1>10
<1>11. CASE Environment
  BY <1>7, <1>10, <1>11 DEF Environment, CollectGarbage, Crash, SyncConfigMap,
       SyncDriver, SyncDaemonSets, Resync, api
<1>12. ASSUME NEW o \in Operators, Reconcile(o) PROVE DriverStep(d)
  BY <1>8, <1>9, <1>10, <1>12 DEF Reconcile, ReadActiveOfGone, ClearActive,
       ReadActive, LookupActive, Claim, Deploy, WriteStatus, api
<1>13. ASSUME NEW o \in Operators, NEW e \in Drivers, Dequeue(o, e) PROVE DriverStep(d)
  BY <1>10, <1>13 DEF Dequeue, api
<1> QED
  BY <1>10, <1>11, <1>12, <1>13 DEF Next, vars

LEMMA CacheSteps ==
    ASSUME TypeOK, [Next]_vars, NEW o \in Operators, NEW d \in Drivers
    PROVE  CacheStep(o, d)
<1>1. CASE UNCHANGED cache
  BY <1>1 DEF CacheStep
<1>2. ASSUME NEW p \in Operators, NEW e \in Drivers, SyncDriver(p, e) PROVE CacheStep(o, d)
  BY <1>2 DEF SyncDriver, CacheStep, TypeOK, api
<1>3. ASSUME NEW p \in Operators, Crash(p) PROVE CacheStep(o, d)
  BY <1>3 DEF Crash, CacheStep, TypeOK, api
<1>4. CASE Environment
  BY <1>1, <1>2, <1>3, <1>4 DEF Environment, CreateDriver, DeleteDriver,
       CollectGarbage, SyncConfigMap, SyncDaemonSets, Resync, watches
<1>5. ASSUME NEW p \in Operators, Reconcile(p) PROVE UNCHANGED watches
  BY <1>5 DEF Reconcile, ReadActiveOfGone, ClearActive, RemoveFinalizer,
       ReadActive, LookupActive, Claim, AddFinalizer, Deploy, WriteStatus
<1> QED
  BY <1>1, <1>4, <1>5 DEF Next, vars, Dequeue, watches

LEMMA WorkSteps ==
    ASSUME TypeOK, [Next]_vars, NEW o \in Operators PROVE WorkStep(o)
<1>1. CASE work'[o] = work[o]
  BY <1>1 DEF WorkStep
<1>2. CASE UNCHANGED work
  BY <1>1, <1>2
<1>3. CASE Environment
  <2>1. ASSUME NEW p \in Operators, Crash(p) PROVE WorkStep(o)
    <3>1. work' = [work EXCEPT ![p] = Idle] /\ Idle.pc = "idle"
      BY <2>1 DEF Crash, Idle
    <3> QED
      BY <1>1, <3>1 DEF TypeOK, WorkStep
  <2> QED
    BY <1>2, <1>3, <2>1 DEF Environment, CreateDriver, DeleteDriver, CollectGarbage,
         SyncConfigMap, SyncDriver, SyncDaemonSets, Resync
<1>4. ASSUME NEW p \in Operators, NEW d \in Drivers, Dequeue(p, d) PROVE WorkStep(o)
  BY <1>1, <1>4 DEF Dequeue, WorkStep, TypeOK, api, watches
<1>5. ASSUME NEW p \in Operators, Reconcile(p) PROVE WorkStep(o)
  <2>1. \/ work' = [work EXCEPT ![p] = Idle]
        \/ \E pc \in Steps : Goto(p, pc) \/ Judge(p, pc)
        \/ Fail(p)
    BY <1>5 DEF Reconcile, ReadActiveOfGone, ClearActive, RemoveFinalizer,
         ReadActive, LookupActive, Claim, AddFinalizer, Deploy, WriteStatus,
         Done, Retry, Failed, Requeue, Steps
  <2>2. work[p].pc # "idle"
    BY <1>5 DEF Reconcile, ReadActiveOfGone, ClearActive, RemoveFinalizer,
         ReadActive, LookupActive, Claim, AddFinalizer, Deploy, WriteStatus
  <2>3. work \in [Operators -> Work]
    BY DEF TypeOK, Work
  <2>4. ASSUME NEW r \in Work, work' = [work EXCEPT ![p] = r], r.d = work[p].d, r.obj = work[p].obj
        PROVE  WorkStep(o)
    BY <1>1, <2>2, <2>3, <2>4 DEF WorkStep
  <2>5. CASE work' = [work EXCEPT ![p] = Idle]
    BY <1>1, <2>3, <2>5 DEF WorkStep, Idle
  <2>6. ASSUME NEW pc \in Steps, Goto(p, pc) PROVE WorkStep(o)
    <3> DEFINE r == [work[p] EXCEPT !.pc = pc]
    <3>1. r \in Work
      BY <2>3, WorkFields
    <3>2. r.d = work[p].d /\ r.obj = work[p].obj
      BY <2>3 DEF Work
    <3>3. work' = [work EXCEPT ![p] = r]
      BY <2>6 DEF Goto
    <3> QED
      BY <2>4, <3>1, <3>2, <3>3
  <2>7. ASSUME NEW pc \in Steps, Judge(p, pc) PROVE WorkStep(o)
    <3> DEFINE r == [work[p] EXCEPT !.pc = pc, !.act = ccm[p]]
    <3>1. r \in Work
      BY <2>3, WorkFields DEF TypeOK
    <3>2. r.d = work[p].d /\ r.obj = work[p].obj
      BY <2>3 DEF Work
    <3>3. work' = [work EXCEPT ![p] = r]
      BY <2>7 DEF Judge
    <3> QED
      BY <2>4, <3>1, <3>2, <3>3
  <2>8. CASE Fail(p)
    <3> DEFINE r == [work[p] EXCEPT !.pc = "fail"]
    <3>1. r \in Work
      BY <2>3, WorkFields DEF Steps
    <3>2. r.d = work[p].d /\ r.obj = work[p].obj
      BY <2>3 DEF Work
    <3>3. work' = [work EXCEPT ![p] = r]
      BY <2>8 DEF Fail
    <3> QED
      BY <2>4, <3>1, <3>2, <3>3
  <2> QED
    BY <2>1, <2>5, <2>6, <2>7, <2>8
<1> QED
  BY <1>2, <1>3, <1>4, <1>5 DEF Next, vars

LEMMA DaemonSetSteps ==
    ASSUME TypeOK, [Next]_vars, NEW d \in Drivers PROVE DaemonSetStep(d)
<1>1. CASE UNCHANGED ds
  BY <1>1 DEF DaemonSetStep
<1>2. ASSUME NEW e \in Drivers, CollectGarbage(e) PROVE DaemonSetStep(d)
  BY <1>2 DEF CollectGarbage, DaemonSetStep, TypeOK
<1>3. ASSUME NEW o \in Operators, Deploy(o) PROVE DaemonSetStep(d)
  BY <1>3 DEF Deploy, DaemonSetStep, TypeOK
<1>4. CASE Environment
  BY <1>1, <1>2, <1>4 DEF Environment, CreateDriver, DeleteDriver, Crash,
       SyncConfigMap, SyncDriver, SyncDaemonSets, Resync, api
<1>5. ASSUME NEW o \in Operators, Reconcile(o) PROVE DaemonSetStep(d)
  BY <1>1, <1>3, <1>5 DEF Reconcile, ReadActiveOfGone, ClearActive,
       RemoveFinalizer, ReadActive, LookupActive, Claim, AddFinalizer,
       WriteStatus, api
<1> QED
  BY <1>1, <1>4, <1>5 DEF Next, vars, Dequeue, api

-----------------------------------------------------------------------------
(***************************************************************************)
(* Whoever owns DaemonSets carries the finalizer.  A copy of an object in  *)
(* a cache or in the hands of Reconcile says that the finalizer is there:  *)
(* that is still true if the object is the same incarnation, because only  *)
(* its removal takes the finalizer away.                                   *)
(***************************************************************************)
Vouches(copy, obj) ==
    copy.fin /\ obj.live /\ copy.uid = obj.uid => obj.fin

CopiesVouch ==
    /\ \A o \in Operators, d \in Drivers :
          cache[o][d].uid <= drv[d].uid /\ Vouches(cache[o][d], drv[d])
    /\ \A o \in Operators : work[o].pc # "idle" =>
          /\ work[o].obj.uid <= drv[work[o].d].uid
          /\ Vouches(work[o].obj, drv[work[o].d])

OwnersAreOld ==
    \A d \in Drivers : ds[d] <= drv[d].uid /\ (drv[d].live => drv[d].uid > 0)

FinalizerInv == TypeOK /\ CopiesVouch /\ OwnersAreOld /\ DeployedHasFinalizer

LEMMA FinalizerInit == Init => FinalizerInv
<1> SUFFICES ASSUME Init PROVE FinalizerInv
  OBVIOUS
<1>1. /\ \A d \in Drivers : drv[d] = Gone(0) /\ ds[d] = 0
      /\ \A o \in Operators : work[o].pc = "idle"
      /\ \A o \in Operators, d \in Drivers : cache[o][d] = Gone(0)
  BY DEF Init, Idle
<1> QED
  BY <1>1, InitType DEF FinalizerInv, CopiesVouch, Vouches, OwnersAreOld,
     DeployedHasFinalizer, Deployed, Gone

\* An older copy goes on vouching for what its object becomes.
LEMMA VouchesStep ==
    ASSUME TypeOK, NEW d \in Drivers, DriverStep(d), drv'[d] \in CXIDriver,
           NEW copy \in CXIDriver, copy.uid <= drv[d].uid, Vouches(copy, drv[d])
    PROVE  copy.uid <= drv'[d].uid /\ Vouches(copy, drv'[d])
<1>1. drv[d] \in CXIDriver
  BY DEF TypeOK
<1>2. copy.uid \in Nat /\ drv[d].uid \in Nat /\ drv'[d].uid \in Nat
  BY <1>1 DEF CXIDriver
<1>3. copy.uid <= drv'[d].uid
  BY <1>2 DEF DriverStep
<1>4. copy.uid = drv'[d].uid => drv'[d].uid = drv[d].uid
  BY <1>2 DEF DriverStep
<1> QED
  BY <1>1, <1>2, <1>3, <1>4, Zenon DEF DriverStep, Vouches

LEMMA FinalizerStep == FinalizerInv /\ [Next]_vars => FinalizerInv'
<1> SUFFICES ASSUME FinalizerInv, [Next]_vars PROVE FinalizerInv'
  OBVIOUS
<1>1. TypeOK /\ TypeOK'
  BY TypeStep DEF FinalizerInv
<1>2. \A d \in Drivers : drv[d] \in CXIDriver /\ drv'[d] \in CXIDriver
                          /\ ds[d] \in Nat /\ ds'[d] \in Nat
  BY <1>1 DEF TypeOK
<1>3. \A o \in Operators, d \in Drivers : cache[o][d] \in CXIDriver
  BY <1>1 DEF TypeOK
<1>4. \A o \in Operators : /\ work[o].obj \in CXIDriver
                           /\ work[o].pc # "idle" => work[o].d \in Drivers
                           /\ work'[o].pc # "idle" => work'[o].d \in Drivers
  BY <1>1 DEF TypeOK
<1>5. \A d \in Drivers : DriverStep(d)
  BY <1>1, DriverSteps
<1>6. ASSUME NEW o \in Operators, NEW d \in Drivers
      PROVE  cache'[o][d].uid <= drv'[d].uid /\ Vouches(cache'[o][d], drv'[d])
  <2>1. CASE cache'[o][d] = cache[o][d]
    BY <1>1, <1>2, <1>3, <1>5, <2>1, VouchesStep DEF FinalizerInv, CopiesVouch
  <2>2. CASE cache'[o][d] = drv[d] /\ drv' = drv
    BY <1>2, <2>2 DEF Vouches, CXIDriver
  <2> QED
    BY <1>1, <2>1, <2>2, CacheSteps DEF CacheStep
<1>7. ASSUME NEW o \in Operators, work'[o].pc # "idle"
      PROVE  /\ work'[o].obj.uid <= drv'[work'[o].d].uid
             /\ Vouches(work'[o].obj, drv'[work'[o].d])
  <2>1. CASE work[o].pc # "idle" /\ work'[o].d = work[o].d /\ work'[o].obj = work[o].obj
    BY <1>1, <1>2, <1>4, <1>5, <2>1, VouchesStep DEF FinalizerInv, CopiesVouch
  <2>2. CASE /\ work'[o].d \in Drivers /\ work'[o].obj = cache[o][work'[o].d]
             /\ cache' = cache /\ drv' = drv
    BY <1>6, <2>2
  <2> QED
    BY <1>1, <1>7, <2>1, <2>2, WorkSteps DEF WorkStep
<1>8. CopiesVouch'
  BY <1>6, <1>7 DEF CopiesVouch
<1>9. ASSUME NEW d \in Drivers
      PROVE  /\ ds'[d] <= drv'[d].uid
             /\ drv'[d].live => drv'[d].uid > 0
             /\ drv'[d].live /\ ds'[d] = drv'[d].uid => drv'[d].fin
  <2>1. /\ ds[d] <= drv[d].uid
        /\ drv[d].live => drv[d].uid > 0
        /\ drv[d].live /\ ds[d] = drv[d].uid => drv[d].fin
    BY DEF FinalizerInv, OwnersAreOld, DeployedHasFinalizer, Deployed
  <2>2. drv'[d].live => drv'[d].uid > 0
    BY <1>2, <1>5, <2>1 DEF DriverStep, CXIDriver
  <2>3. CASE ds'[d] = ds[d]
    BY <1>2, <1>5, <2>1, <2>2, <2>3 DEF DriverStep, CXIDriver
  <2>4. CASE ds'[d] = 0
    BY <1>2, <2>2, <2>4 DEF CXIDriver
  <2>5. ASSUME NEW o \in Operators, drv' = drv, work[o].pc = "admit",
               work[o].obj.fin, work[o].d = d, ds'[d] = work[o].obj.uid
        PROVE  /\ ds'[d] <= drv'[d].uid
               /\ drv'[d].live /\ ds'[d] = drv'[d].uid => drv'[d].fin
    BY <2>5 DEF FinalizerInv, CopiesVouch, Vouches
  <2> QED
    BY <1>1, <2>2, <2>3, <2>4, <2>5, DaemonSetSteps DEF DaemonSetStep
<1> QED
  BY <1>1, <1>8, <1>9 DEF FinalizerInv, OwnersAreOld, DeployedHasFinalizer, Deployed

\* Reconcile creates DaemonSets only for drivers whose finalizer is stored, so
\* their deletion goes through its cleanup: for any number of drivers, of
\* operators (several run when leader election is off) and of failures.
THEOREM DeployedDriversAreCleanedUp == Spec => []DeployedHasFinalizer
<1>1. FinalizerInv => DeployedHasFinalizer
  BY DEF FinalizerInv
<1> QED
  BY <1>1, FinalizerInit, FinalizerStep, PTL DEF Spec

-----------------------------------------------------------------------------
(***************************************************************************)
(* One operator judges rightly.  Only its own reconcile adds finalizers,   *)
(* and from a copy that is up to date, so that its cache knows every       *)
(* driver it manages; while it is about to take over or clear an entry it  *)
(* adds none.                                                              *)
(***************************************************************************)
CacheKnowsManaged ==
    \A o \in Operators, d \in Drivers :
        /\ Managed(d) => cache[o][d].live /\ cache[o][d].uid = drv[d].uid
        /\ drv[d].live /\ cache[o][d].uid = drv[d].uid => cache[o][d].live

WorkIsOlder ==
    \A o \in Operators :
        work[o].pc # "idle" => work[o].obj.uid <= cache[o][work[o].d].uid

GoneIsFree ==
    \A o \in Operators : work[o].pc = "gone" => ~Managed(work[o].d)

JudgementInv ==
    FinalizerInv /\ CacheKnowsManaged /\ WorkIsOlder /\ GoneIsFree /\ JudgedEntryIsFree

\* How a driver comes to be managed.
AdmittedBy(o, d) ==
    /\ work[o].pc = "admit" /\ work'[o].pc = "idle"
    /\ work[o].d = d /\ work[o].obj = drv[d]
    /\ drv[d].live /\ drv'[d].uid = drv[d].uid
    /\ cache' = cache

\* How a reconcile comes to the steps that write the entry.
JudgementStep(o) ==
    \/ work'[o].pc \notin {"gone", "clear", "claim"}
    \/ work'[o] = work[o]
    \/ work'[o].pc = "gone" /\ ~cache[o][work'[o].d].live /\ drv' = drv
    \/ work'[o].pc = "gone" /\ ~drv'[work'[o].d].live
    \/ /\ work[o].pc = "gone" /\ work'[o].pc = "clear"
       /\ work'[o].act = work[o].d /\ drv' = drv
    \/ work'[o].pc = "claim" /\ work'[o].act = None
    \/ /\ work[o].pc = "lookup" /\ work'[o].pc = "claim" /\ drv' = drv
       /\ work'[o].act = work[o].act /\ ~cache[o][work[o].act].live

LEMMA AdmittedSteps ==
    ASSUME TypeOK, [Next]_vars, NEW d \in Drivers, ~Managed(d), Managed(d)'
    PROVE  \E o \in Operators : AdmittedBy(o, d)
<1>1. drv'[d] # drv[d]
  BY DEF Managed
<1>2. ASSUME NEW e \in Drivers, CreateDriver(e) \/ DeleteDriver(e) PROVE FALSE
  <2>1. CASE CreateDriver(e)
    BY <1>1, <2>1 DEF CreateDriver, TypeOK, Managed, Born, Gone
  <2>2. CASE DeleteDriver(e)
    <3>1. \/ drv' = [drv EXCEPT ![e] = [drv[e] EXCEPT !.deleting = TRUE]]
          \/ drv' = [drv EXCEPT ![e] = Gone(drv[e].uid)]
      BY <2>2 DEF DeleteDriver
    <3>2. \/ drv'[d] = [drv[d] EXCEPT !.deleting = TRUE]
          \/ drv'[d] = Gone(drv[d].uid)
      BY <1>1, <3>1 DEF TypeOK
    <3>3. drv[d] \in CXIDriver
      BY DEF TypeOK
    <3> QED
      BY <3>2, <3>3 DEF Managed, Gone, CXIDriver
  <2> QED
    BY <1>2, <2>1, <2>2
<1>3. ASSUME NEW o \in Operators, RemoveFinalizer(o) PROVE FALSE
  BY <1>1, <1>3 DEF RemoveFinalizer, TypeOK, Managed, Gone
<1>4. ASSUME NEW o \in Operators, AddFinalizer(o) PROVE AdmittedBy(o, d)
  <2>1. /\ work[o].obj = drv[work[o].d]
        /\ drv' = [drv EXCEPT ![work[o].d] = [drv[work[o].d] EXCEPT !.fin = TRUE]]
        /\ work' = [work EXCEPT ![o] = Idle]
    BY <1>1, <1>4 DEF AddFinalizer, Retry, Failed, Requeue
  <2>2. work[o].d = d
    BY <1>1, <2>1 DEF TypeOK
  <2>3. drv[d] \in CXIDriver /\ drv'[d] = [drv[d] EXCEPT !.fin = TRUE]
    BY <2>1, <2>2 DEF TypeOK
  <2>4. drv[d].live /\ drv'[d].uid = drv[d].uid
    BY <2>3 DEF CXIDriver, Managed
  <2>5. work'[o].pc = "idle"
    BY <2>1 DEF TypeOK, Idle
  <2> QED
    BY <1>4, <2>1, <2>2, <2>4, <2>5 DEF AdmittedBy, AddFinalizer, watches
<1>5. CASE Environment
  BY <1>1, <1>2, <1>5 DEF Environment, CollectGarbage, Crash, SyncConfigMap,
       SyncDriver, SyncDaemonSets, Resync, api
<1>6. ASSUME NEW o \in Operators, Reconcile(o) PROVE AdmittedBy(o, d)
  BY <1>1, <1>3, <1>4, <1>6 DEF Reconcile, ReadActiveOfGone, ClearActive,
       ReadActive, LookupActive, Claim, Deploy, WriteStatus, api
<1> QED
  BY <1>1, <1>5, <1>6 DEF Next, vars, Dequeue, api

LEMMA JudgementSteps ==
    ASSUME TypeOK, [Next]_vars, NEW o \in Operators PROVE JudgementStep(o)
<1>1. CASE work'[o] = work[o]
  BY <1>1 DEF JudgementStep
<1>2. CASE work'[o].pc \notin {"gone", "clear", "claim"}
  BY <1>2 DEF JudgementStep
<1>3. CASE UNCHANGED work
  BY <1>1, <1>3
<1>4. ASSUME NEW p \in Operators, work' = [work EXCEPT ![p] = Idle] PROVE JudgementStep(o)
  BY <1>1, <1>2, <1>4 DEF TypeOK, Idle
<1>5. ASSUME NEW p \in Operators, NEW pc \in Steps,
             work' = [work EXCEPT ![p] = [work[p] EXCEPT !.pc = pc]]
      PROVE  /\ p # o => work'[o] = work[o]
             /\ work'[p].pc = pc /\ work'[p].d = work[p].d /\ work'[p].act = work[p].act
  BY <1>5 DEF TypeOK
<1>6. ASSUME NEW p \in Operators, NEW pc \in Steps, Judge(p, pc)
      PROVE  /\ p # o => work'[o] = work[o]
             /\ work'[p].pc = pc /\ work'[p].d = work[p].d /\ work'[p].act = ccm[p]
  BY <1>6 DEF TypeOK, Judge
<1>7. CASE Environment
  BY <1>3, <1>4, <1>7 DEF Environment, CreateDriver, DeleteDriver, CollectGarbage,
       Crash, SyncConfigMap, SyncDriver, SyncDaemonSets, Resync
<1>8. ASSUME NEW p \in Operators, NEW d \in Drivers, Dequeue(p, d) PROVE JudgementStep(o)
  BY <1>1, <1>8 DEF Dequeue, FirstStep, JudgementStep, TypeOK, api
<1>9. ASSUME NEW p \in Operators, ReadActiveOfGone(p) PROVE JudgementStep(o)
  <2>1. CASE Judge(p, "clear") /\ ccm[p] = work[p].d
    BY <1>1, <1>6, <1>9, <2>1 DEF ReadActiveOfGone, JudgementStep, Steps, api
  <2> QED
    BY <1>4, <1>9, <2>1 DEF ReadActiveOfGone, Done
<1>10. ASSUME NEW p \in Operators, ClearActive(p) PROVE JudgementStep(o)
  BY <1>4, <1>10 DEF ClearActive, Done
<1>11. ASSUME NEW p \in Operators, RemoveFinalizer(p) PROVE JudgementStep(o)
  <2>1. CASE Goto(p, "gone") /\ drv' = [drv EXCEPT ![work[p].d] = Gone(work[p].obj.uid)]
    <3>1. work[p].d \in Drivers
      BY <1>11 DEF RemoveFinalizer, TypeOK
    <3>2. ~drv'[work[p].d].live
      BY <2>1, <3>1 DEF TypeOK, Gone
    <3> QED
      BY <1>1, <1>5, <2>1, <3>2 DEF Goto, JudgementStep, Steps
  <2> QED
    BY <1>4, <1>11, <2>1 DEF RemoveFinalizer, Retry, Failed, Requeue
<1>12. ASSUME NEW p \in Operators, ReadActive(p) PROVE JudgementStep(o)
  BY <1>1, <1>6, <1>12 DEF ReadActive, JudgementStep, Steps
<1>13. ASSUME NEW p \in Operators, LookupActive(p) PROVE JudgementStep(o)
  BY <1>1, <1>5, <1>13 DEF LookupActive, Goto, JudgementStep, Steps, api
<1>14. ASSUME NEW p \in Operators,
              Claim(p) \/ AddFinalizer(p) \/ Deploy(p) \/ WriteStatus(p)
       PROVE  JudgementStep(o)
  <2>1. \/ work' = [work EXCEPT ![p] = Idle]
        \/ \E pc \in Steps \ {"gone", "clear", "claim"} :
              work' = [work EXCEPT ![p] = [work[p] EXCEPT !.pc = pc]]
    BY <1>14 DEF Claim, AddFinalizer, Deploy, WriteStatus, Goto, Done, Retry,
         Failed, Requeue, Fail, Steps
  <2> QED
    BY <1>1, <1>2, <1>4, <1>5, <2>1
<1> QED
  BY <1>3, <1>7, <1>8, <1>9, <1>10, <1>11, <1>12, <1>13, <1>14
     DEF Next, Reconcile, vars

LEMMA JudgementInit == Init => JudgementInv
<1> SUFFICES ASSUME Init PROVE JudgementInv
  OBVIOUS
<1>1. /\ \A d \in Drivers : drv[d] = Gone(0)
      /\ \A o \in Operators : work[o].pc = "idle"
  BY DEF Init, Idle
<1> QED
  BY <1>1, FinalizerInit DEF JudgementInv, CacheKnowsManaged, WorkIsOlder,
     GoneIsFree, JudgedEntryIsFree, Managed, Gone

LEMMA JudgementPreserved ==
    ASSUME \A o, p \in Operators : o = p
    PROVE  JudgementInv /\ [Next]_vars => JudgementInv'
<1> SUFFICES ASSUME JudgementInv, [Next]_vars PROVE JudgementInv'
  OBVIOUS
<1>1. TypeOK /\ TypeOK' /\ FinalizerInv /\ FinalizerInv'
  BY TypeStep, FinalizerStep DEF JudgementInv, FinalizerInv
<1>2. \A d \in Drivers : /\ drv[d] \in CXIDriver /\ drv'[d] \in CXIDriver
                         /\ drv[d].uid \in Nat /\ drv'[d].uid \in Nat
  BY <1>1 DEF TypeOK, CXIDriver
<1>3. \A o \in Operators, d \in Drivers :
          /\ cache[o][d].uid \in Nat /\ cache'[o][d].uid \in Nat
          /\ cache[o][d].uid <= drv[d].uid
  BY <1>1 DEF TypeOK, CXIDriver, FinalizerInv, CopiesVouch
<1>4. \A o \in Operators :
          /\ work[o].obj.uid \in Nat
          /\ work[o].pc # "idle" => work[o].d \in Drivers
          /\ work'[o].pc # "idle" => work'[o].d \in Drivers
          /\ work[o].act \in Drivers \cup {None} /\ work'[o].act \in Drivers \cup {None}
          /\ work[o].pc = "lookup" => work[o].act \in Drivers
  BY <1>1 DEF TypeOK, CXIDriver
<1>5. \A d \in Drivers : DriverStep(d)
  BY <1>1, DriverSteps
<1>6. ASSUME NEW o \in Operators, NEW d \in Drivers PROVE CacheStep(o, d)
  BY <1>1, CacheSteps
<1>7. ASSUME NEW d \in Drivers, ~Managed(d), Managed(d)'
      PROVE  \E o \in Operators : AdmittedBy(o, d)
  BY <1>1, <1>7, AdmittedSteps
<1>8. ASSUME NEW o \in Operators, NEW d \in Drivers, Managed(d)'
      PROVE  cache'[o][d].live /\ cache'[o][d].uid = drv'[d].uid
  <2>1. CASE cache'[o][d] = drv[d] /\ drv' = drv
    BY <1>8, <2>1 DEF Managed
  <2>2. CASE cache'[o][d] = cache[o][d] /\ Managed(d)
    <3>1. cache[o][d].live /\ cache[o][d].uid = drv[d].uid
      BY <2>2 DEF JudgementInv, CacheKnowsManaged
    <3>2. drv'[d].uid = drv[d].uid
      BY <1>2, <1>5, <1>8 DEF DriverStep, Managed
    <3> QED
      BY <2>2, <3>1, <3>2
  <2>3. CASE cache'[o][d] = cache[o][d] /\ ~Managed(d)
    <3>1. AdmittedBy(o, d)
      BY <1>7, <1>8, <2>3
    <3>2. work[o].obj.uid = drv[d].uid /\ work[o].obj.uid <= cache[o][d].uid
      BY <3>1 DEF AdmittedBy, JudgementInv, WorkIsOlder
    <3>3. cache[o][d].uid = drv[d].uid
      BY <1>2, <1>3, <3>2
    <3> QED
      BY <2>3, <3>1, <3>3 DEF AdmittedBy, JudgementInv, CacheKnowsManaged
  <2> QED
    BY <1>6, <2>1, <2>2, <2>3 DEF CacheStep
<1>9. ASSUME NEW o \in Operators, NEW d \in Drivers,
             drv'[d].live, cache'[o][d].uid = drv'[d].uid
      PROVE  cache'[o][d].live
  <2>1. CASE cache'[o][d] = drv[d] /\ drv' = drv
    BY <1>9, <2>1
  <2>2. CASE cache'[o][d] = cache[o][d]
    <3>1. drv'[d].uid = drv[d].uid
      BY <1>2, <1>3, <1>5, <1>9, <2>2 DEF DriverStep
    <3>2. drv[d].live
      BY <1>5, <1>9, <3>1 DEF DriverStep
    <3> QED
      BY <1>9, <2>2, <3>1, <3>2 DEF JudgementInv, CacheKnowsManaged
  <2> QED
    BY <1>6, <2>1, <2>2 DEF CacheStep
<1>10. CacheKnowsManaged'
  BY <1>8, <1>9 DEF CacheKnowsManaged
<1>11. ASSUME NEW o \in Operators, work'[o].pc # "idle"
       PROVE  work'[o].obj.uid <= cache'[o][work'[o].d].uid
  <2>1. CASE work[o].pc # "idle" /\ work'[o].d = work[o].d /\ work'[o].obj = work[o].obj
    <3> DEFINE d == work[o].d
    <3>1. d \in Drivers /\ work[o].obj.uid <= cache[o][d].uid
      BY <1>4, <2>1 DEF JudgementInv, WorkIsOlder
    <3>2. cache[o][d].uid <= cache'[o][d].uid
      BY <1>3, <1>6, <3>1 DEF CacheStep
    <3> QED
      BY <1>3, <1>4, <2>1, <3>1, <3>2
  <2>2. CASE /\ work'[o].d \in Drivers /\ work'[o].obj = cache[o][work'[o].d]
             /\ cache' = cache /\ drv' = drv
    BY <1>3, <2>2
  <2> QED
    BY <1>1, <1>11, <2>1, <2>2, WorkSteps DEF WorkStep
<1>12. WorkIsOlder'
  BY <1>11 DEF WorkIsOlder
<1>13. ASSUME NEW o \in Operators, work'[o].pc # "idle", NEW d \in Drivers, ~Managed(d)
       PROVE  ~Managed(d)'
  BY <1>7, <1>13 DEF AdmittedBy
<1>14. GoneIsFree' /\ JudgedEntryIsFree'
  <2> SUFFICES ASSUME NEW o \in Operators, work'[o].pc \in {"gone", "clear", "claim"}
               PROVE  /\ work'[o].pc = "gone" => ~Managed(work[o].d)'
                      /\ work'[o].pc \in {"clear", "claim"} /\ work'[o].act # None
                            => ~Managed(work[o].act)'
    BY DEF GoneIsFree, JudgedEntryIsFree
  <2>1. work'[o].d \in Drivers
    BY <1>4
  <2>2. \A d \in Drivers : ~Managed(d) => ~Managed(d)'
    BY <1>13
  <2>3. \A d \in Drivers : ~cache[o][d].live => ~Managed(d)
    BY DEF JudgementInv, CacheKnowsManaged
  <2>4. CASE work'[o] = work[o]
    BY <1>4, <2>2, <2>4 DEF JudgementInv, GoneIsFree, JudgedEntryIsFree, Managed
  <2>5. CASE work'[o].pc = "gone" /\ ~cache[o][work'[o].d].live /\ drv' = drv
    BY <2>1, <2>3, <2>5 DEF Managed
  <2>6. CASE work'[o].pc = "gone" /\ ~drv'[work'[o].d].live
    BY <2>6 DEF Managed
  <2>7. CASE /\ work[o].pc = "gone" /\ work'[o].pc = "clear"
             /\ work'[o].act = work[o].d /\ drv' = drv
    BY <2>7 DEF JudgementInv, GoneIsFree, Managed
  <2>8. CASE work'[o].pc = "claim" /\ work'[o].act = None
    BY <2>8
  <2>9. CASE /\ work[o].pc = "lookup" /\ work'[o].pc = "claim" /\ drv' = drv
             /\ work'[o].act = work[o].act /\ ~cache[o][work[o].act].live
    BY <1>4, <2>3, <2>9 DEF Managed
  <2> QED
    BY <1>1, <2>4, <2>5, <2>6, <2>7, <2>8, <2>9, JudgementSteps DEF JudgementStep
<1> QED
  BY <1>1, <1>10, <1>12, <1>14 DEF JudgementInv

\* A single operator, however stale its caches and whatever fails, takes over
\* or clears an entry only when it read there a driver that is not managed:
\* what remains of the race is that the write does not look at the entry it
\* replaces.
THEOREM OneOperatorJudgesRightly ==
    ASSUME \A o, p \in Operators : o = p
    PROVE  Spec => []JudgedEntryIsFree
<1>1. JudgementInv => JudgedEntryIsFree
  BY DEF JudgementInv
<1>2. JudgementInv /\ [Next]_vars => JudgementInv'
  BY JudgementPreserved
<1> QED
  BY <1>1, <1>2, JudgementInit, PTL DEF Spec
-----------------------------------------------------------------------------
(***************************************************************************)
(* One operator that reads the entry fresh keeps the singleton.  A managed *)
(* driver has the entry; a reconcile that has read the entry goes on with  *)
(* what is stored, since nobody else writes it.                            *)
(***************************************************************************)
EntryNamesManaged == \A d \in Drivers : Managed(d) => cm = d

WorkHoldsEntry ==
    \A o \in Operators :
        /\ work[o].pc \in {"lookup", "claim", "clear"} => cm = work[o].act
        /\ work[o].pc = "admit" => cm = work[o].d

FreshInv == JudgementInv /\ EntryNamesManaged /\ WorkHoldsEntry

HoldingSteps == {"lookup", "claim", "clear", "admit"}

\* How a reconcile and the entry change together.
EntryStep(o) ==
    \/ cm' = cm /\ (work'[o] = work[o] \/ work'[o].pc \notin HoldingSteps)
    \/ /\ cm' = cm /\ work[o].pc \in {"decide", "gone"}
       /\ work'[o].act = ccm[o]
       /\ work'[o].pc = "admit" => work'[o].d = ccm[o]
    \/ /\ cm' = cm /\ work[o].pc = "lookup"
       /\ work'[o].pc = "claim" /\ work'[o].act = work[o].act
    \/ /\ work[o].pc \in {"claim", "clear"} /\ drv' = drv
       /\ \/ work'[o].pc \notin HoldingSteps
          \/ work'[o].pc = "admit" /\ cm' = work'[o].d

LEMMA EntrySteps ==
    ASSUME TypeOK, [Next]_vars, NEW o \in Operators, \A p \in Operators : p = o
    PROVE  EntryStep(o)
<1>1. work[o] \in Work /\ work \in [Operators -> Work]
  BY DEF TypeOK, Work
<1>2. ASSUME NEW pc, work' = [work EXCEPT ![o].pc = pc]
      PROVE  work'[o].pc = pc /\ work'[o].d = work[o].d /\ work'[o].act = work[o].act
  BY <1>1, <1>2 DEF Work
<1>3. ASSUME NEW pc, Judge(o, pc)
      PROVE  work'[o].pc = pc /\ work'[o].d = work[o].d /\ work'[o].act = ccm[o]
  BY <1>1, <1>3 DEF Judge, Work
<1>4. ASSUME work' = [work EXCEPT ![o] = Idle] PROVE work'[o].pc \notin HoldingSteps
  BY <1>1, <1>4 DEF Idle, HoldingSteps
<1>5. ASSUME Done(o) \/ Requeue(o) \/ Failed(o) \/ Retry(o) PROVE work'[o].pc \notin HoldingSteps
  BY <1>4, <1>5 DEF Done, Requeue, Failed, Retry
<1>6. ASSUME Fail(o) \/ Goto(o, "report") \/ Goto(o, "gone") \/ Goto(o, "ignore")
      PROVE  work'[o].pc \notin HoldingSteps
  BY <1>2, <1>6 DEF Fail, Goto, HoldingSteps
<1>7. CASE UNCHANGED vars
  BY <1>7 DEF vars, api, EntryStep
<1>8. CASE Environment
  <2>1. ASSUME NEW p \in Operators, Crash(p) PROVE EntryStep(o)
    BY <1>4, <2>1 DEF Crash, api, EntryStep
  <2> QED
    BY <1>8, <2>1 DEF Environment, CreateDriver, DeleteDriver, CollectGarbage, SyncConfigMap,
       SyncDriver, SyncDaemonSets, Resync, api, EntryStep
<1>9. ASSUME NEW d \in Drivers, Dequeue(o, d) PROVE EntryStep(o)
  <2>1. work'[o].pc = FirstStep(cache[o][d])
    BY <1>1, <1>9 DEF Dequeue
  <2>2. FirstStep(cache[o][d]) \notin HoldingSteps
    BY DEF FirstStep, HoldingSteps
  <2> QED
    BY <1>9, <2>1, <2>2 DEF Dequeue, api, EntryStep
<1>10. CASE ReadActiveOfGone(o)
  <2>1. CASE Judge(o, "clear")
    BY <1>3, <1>10, <2>1 DEF ReadActiveOfGone, api, EntryStep
  <2>2. CASE Done(o)
    BY <1>5, <1>10, <2>2 DEF ReadActiveOfGone, api, EntryStep
  <2> QED
    BY <1>10, <2>1, <2>2 DEF ReadActiveOfGone
<1>11. CASE ClearActive(o)
  BY <1>4, <1>5, <1>11 DEF ClearActive, EntryStep
<1>12. CASE RemoveFinalizer(o)
  <2>1. Goto(o, "gone") \/ Failed(o) \/ Retry(o)
    BY <1>12 DEF RemoveFinalizer
  <2> QED
    BY <1>5, <1>6, <1>12, <2>1 DEF RemoveFinalizer, EntryStep
<1>13. CASE ReadActive(o)
  <2>1. cm' = cm /\ work[o].pc = "decide"
    BY <1>13 DEF ReadActive, api
  <2>2. \/ Judge(o, "claim") \/ Judge(o, "lookup")
        \/ Judge(o, "admit") /\ ccm[o] = work[o].d
    BY <1>13 DEF ReadActive
  <2> QED
    BY <1>3, <2>1, <2>2 DEF EntryStep
<1>14. CASE LookupActive(o)
  <2>1. cm' = cm /\ work[o].pc = "lookup"
    BY <1>14 DEF LookupActive, api
  <2>2. CASE Goto(o, "claim")
    BY <1>2, <2>1, <2>2 DEF Goto, EntryStep
  <2> QED
    BY <1>6, <1>14, <2>1, <2>2 DEF LookupActive, EntryStep
<1>15. CASE Claim(o)
  <2>1. work[o].pc = "claim" /\ drv' = drv
    BY <1>15 DEF Claim
  <2>2. CASE cm' = work[o].d /\ Goto(o, "admit")
    BY <1>2, <2>1, <2>2 DEF Goto, EntryStep
  <2>3. CASE Retry(o) \/ Failed(o)
    BY <1>5, <2>1, <2>3 DEF EntryStep
  <2> QED
    BY <1>15, <2>2, <2>3 DEF Claim
<1>16. CASE AddFinalizer(o)
  <2>1. cm' = cm /\ (Retry(o) \/ Failed(o))
    BY <1>16 DEF AddFinalizer
  <2> QED
    BY <1>5, <2>1 DEF EntryStep
<1>17. CASE Deploy(o)
  <2>1. cm' = cm /\ (Goto(o, "report") \/ Fail(o))
    BY <1>17 DEF Deploy
  <2> QED
    BY <1>6, <2>1 DEF EntryStep
<1>18. CASE WriteStatus(o)
  <2>1. cm' = cm /\ (Retry(o) \/ Done(o) \/ Failed(o))
    BY <1>18 DEF WriteStatus
  <2> QED
    BY <1>5, <2>1 DEF EntryStep
<1> QED
  BY <1>7, <1>8, <1>9, <1>10, <1>11, <1>12, <1>13, <1>14, <1>15, <1>16, <1>17, <1>18
     DEF Next, Reconcile

\* Only a reconcile that has judged the entry writes it.
LEMMA EntryChanges ==
    ASSUME TypeOK, [Next]_vars, cm' # cm
    PROVE  \E o \in Operators : work[o].pc \in {"claim", "clear"}
<1>1. ASSUME NEW o \in Operators, Reconcile(o) PROVE work[o].pc \in {"claim", "clear"}
  BY <1>1 DEF Reconcile, ReadActiveOfGone, ClearActive, RemoveFinalizer, ReadActive, LookupActive,
     Claim, AddFinalizer, Deploy, WriteStatus, api
<1>2. ~Environment /\ ~UNCHANGED vars /\ \A o \in Operators, d \in Drivers : ~Dequeue(o, d)
  BY DEF Environment, CreateDriver, DeleteDriver, CollectGarbage, SyncConfigMap, Crash,
     SyncDriver, SyncDaemonSets, Resync, Dequeue, vars, api
<1> QED
  BY <1>1, <1>2 DEF Next

LEMMA FreshInit == Init => FreshInv
BY JudgementInit DEF FreshInv, EntryNamesManaged, WorkHoldsEntry, Init, Idle, Managed, Gone

\* Nobody is managed while the entry is about to be written.
LEMMA WriterIsAlone ==
    ASSUME FreshInv, NEW o \in Operators, work[o].pc \in {"claim", "clear"}
    PROVE  \A d \in Drivers : ~Managed(d)
<1>1. cm = work[o].act
  BY DEF FreshInv, WorkHoldsEntry
<1>2. work[o].act # None => ~Managed(work[o].act)
  BY DEF FreshInv, JudgementInv, JudgedEntryIsFree
<1> QED
  BY <1>1, <1>2, NoneAssumption DEF FreshInv, EntryNamesManaged

LEMMA FreshPreserved ==
    ASSUME \A o, p \in Operators : o = p
    PROVE  FreshInv /\ ReadsAreFresh /\ [Next]_vars => FreshInv'
<1> SUFFICES ASSUME FreshInv, ReadsAreFresh, [Next]_vars PROVE FreshInv'
  OBVIOUS
<1>1. JudgementInv' /\ TypeOK
  BY JudgementPreserved DEF FreshInv, JudgementInv, FinalizerInv
<1>2. ASSUME NEW o \in Operators PROVE EntryStep(o)
  BY <1>1, EntrySteps
<1>3. ASSUME NEW o \in Operators
      PROVE  /\ work'[o].pc \in {"lookup", "claim", "clear"} => cm' = work'[o].act
             /\ work'[o].pc = "admit" => cm' = work'[o].d
  <2>1. CASE cm' = cm /\ (work'[o] = work[o] \/ work'[o].pc \notin HoldingSteps)
    BY <2>1 DEF FreshInv, WorkHoldsEntry, HoldingSteps
  <2>2. CASE /\ cm' = cm /\ work[o].pc \in {"decide", "gone"}
             /\ work'[o].act = ccm[o]
             /\ work'[o].pc = "admit" => work'[o].d = ccm[o]
    BY <2>2 DEF ReadsAreFresh
  <2>3. CASE /\ cm' = cm /\ work[o].pc = "lookup"
             /\ work'[o].pc = "claim" /\ work'[o].act = work[o].act
    BY <2>3 DEF FreshInv, WorkHoldsEntry
  <2>4. CASE \/ work'[o].pc \notin HoldingSteps
             \/ work'[o].pc = "admit" /\ cm' = work'[o].d
    BY <2>4 DEF HoldingSteps
  <2> QED
    BY <1>2, <2>1, <2>2, <2>3, <2>4 DEF EntryStep
<1>4. ASSUME NEW d \in Drivers, Managed(d)' PROVE cm' = d
  <2>1. CASE ~Managed(d)
    <3>1. PICK o \in Operators : AdmittedBy(o, d)
      BY <1>1, <1>4, <2>1, AdmittedSteps
    <3>2. work[o].pc = "admit" /\ cm = d
      BY <3>1 DEF AdmittedBy, FreshInv, WorkHoldsEntry
    <3>3. cm' = cm
      BY <1>2, <3>2 DEF EntryStep
    <3> QED
      BY <3>2, <3>3
  <2>2. CASE Managed(d) /\ cm' # cm
    <3>1. PICK o \in Operators : work[o].pc \in {"claim", "clear"}
      BY <1>1, <2>2, EntryChanges
    <3> QED
      BY <2>2, <3>1, WriterIsAlone
  <2> QED
    BY <2>1, <2>2 DEF FreshInv, EntryNamesManaged
<1> QED
  BY <1>1, <1>3, <1>4 DEF FreshInv, EntryNamesManaged, WorkHoldsEntry

LEMMA FreshInvariant ==
    ASSUME \A o, p \in Operators : o = p
    PROVE  Spec /\ []ReadsAreFresh => []FreshInv
<1>1. FreshInv /\ ReadsAreFresh /\ [Next]_vars => FreshInv'
  BY FreshPreserved
<1> QED
  BY <1>1, FreshInit, PTL DEF Spec

\* What the stale read of the entry costs is all that the protocol lacks: one operator
\* whose reconciles find the stored entry never has two drivers deployed, whatever the
\* other caches hold, and whatever fails.
THEOREM FreshReadsKeepOneManager ==
    ASSUME \A o, p \in Operators : o = p
    PROVE  Spec /\ []ReadsAreFresh => []SingleManager
<1>1. FreshInv => SingleManager
  BY DEF FreshInv, JudgementInv, FinalizerInv, DeployedHasFinalizer, EntryNamesManaged,
     SingleManager, Deployed, Managed
<1> QED
  BY <1>1, FreshInvariant, PTL

\* ... and implements the abstract singleton, with the driver that has the finalizer as
\* its holder: none gets the finalizer before the last one has lost it.
THEOREM FreshReadsKeepTheSingleton ==
    ASSUME \A o, p \in Operators : o = p
    PROVE  Spec /\ []ReadsAreFresh => KeepsSingleton
<1> DEFINE holders == {d \in Drivers : Managed(d)}
<1>1. Init => Holder!Init
  BY DEF Init, Holder!Init, Managed, Gone
<1>2. ASSUME FreshInv, FreshInv', [Next]_vars PROVE Holder!Next \/ holders' = holders
  <2>1. holders \subseteq {cm} /\ holders' \subseteq {cm'}
    BY <1>2 DEF FreshInv, EntryNamesManaged
  <2>2. holders # {} => cm' = cm
    BY <1>2, EntryChanges, WriterIsAlone DEF FreshInv, JudgementInv, FinalizerInv
  <2>3. ASSUME holders = {}, holders' # {} PROVE Holder!Next
    <3>1. PICK d \in Drivers : holders' = {d}
      BY <2>1, <2>3
    <3>2. Holder!Acquire(d)
      BY <2>3, <3>1 DEF Holder!Acquire
    <3> QED
      BY <3>2 DEF Holder!Next
  <2>4. ASSUME holders # {}, holders' = {} PROVE Holder!Next
    <3>1. PICK d \in Drivers : holders = {d}
      BY <2>1, <2>4
    <3>2. Holder!Release(d)
      BY <2>4, <3>1 DEF Holder!Release
    <3> QED
      BY <3>2 DEF Holder!Next
  <2>5. CASE holders # {} /\ holders' # {}
    BY <2>1, <2>2, <2>5
  <2> QED
    BY <2>3, <2>4, <2>5
<1>3. FreshInv /\ FreshInv' /\ [Next]_vars => [Holder!Next]_holders
  BY <1>2
<1> QED
  BY <1>1, <1>3, FreshInvariant, PTL DEF Spec, KeepsSingleton, Holder!Spec
=============================================================================
