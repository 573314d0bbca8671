----------------------- MODULE CXIDriverReconcileProofs -----------------------
(***************************************************************************)
(* What holds of CXIDriverReconcile for any components, specs and reports, *)
(* and for every bound.                                                    *)
(***************************************************************************)
EXTENDS CXIDriverReconcile, TLAPS

(***************************************************************************)
(* The order of the components.                                            *)
(***************************************************************************)
\* Reconcile has come past component c.
Past(c, pc) == pc \in {"count", "write"} \/ (pc \in Components /\ Rank[c] < Rank[pc])

LEMMA RankValues ==
    Rank["agent"] = 1 /\ Rank["plugin"] = 2 /\ Rank["retry"] = 3 /\ Rank["metrics"] = 4
BY DEF Rank

LEMMA RanksDiffer ==
    \A c, e \in Components : Rank[c] \in 1..4 /\ (Rank[c] = Rank[e] => c = e)
BY RankValues, ComponentsAssumption

\* The next component is the one of the lowest rank among the later ones.
LEMMA NextComponent ==
    ASSUME NEW c \in Components, Later(c) # {}
    PROVE  After(c) \in Later(c) /\ \A f \in Later(c) : Rank[After(c)] <= Rank[f]
<1> DEFINE Least(e) == \A f \in Later(c) : Rank[e] <= Rank[f]
<1>1. \E e \in Later(c) : Least(e)
  <2>1. Later(c) \subseteq {"plugin", "retry", "metrics"}
    <3>1. ASSUME NEW e \in Later(c) PROVE e # "agent"
      <4>1. Rank[c] \in 1..4 /\ Rank[c] < Rank[e]
        BY RanksDiffer DEF Later
      <4> QED
        BY <4>1, RankValues
    <3> QED
      BY <3>1, ComponentsAssumption DEF Later
  <2>2. CASE "plugin" \in Later(c)
    BY <2>1, <2>2, RankValues
  <2>3. CASE "plugin" \notin Later(c) /\ "retry" \in Later(c)
    BY <2>1, <2>3, RankValues
  <2>4. CASE "plugin" \notin Later(c) /\ "retry" \notin Later(c)
    BY <2>1, <2>4, RankValues
  <2> QED
    BY <2>2, <2>3, <2>4
<1>2. After(c) = CHOOSE e \in Later(c) : Least(e)
  BY DEF After
<1> QED
  BY <1>1, <1>2

LEMMA AfterType == \A c \in Components : After(c) \in Components \cup {"count"}
<1> SUFFICES ASSUME NEW c \in Components PROVE After(c) \in Components \cup {"count"}
  OBVIOUS
<1>1. CASE Later(c) = {}
  BY <1>1 DEF After
<1>2. CASE Later(c) # {}
  BY <1>2, NextComponent DEF Later
<1> QED
  BY <1>1, <1>2

\* Past the next component are those that were past before, and this one.
LEMMA AfterIsNext ==
    ASSUME NEW c \in Components, NEW e \in Components, Past(e, After(c))
    PROVE  e = c \/ Past(e, c)
<1>1. CASE Later(c) = {}
  <2>1. ~(Rank[c] < Rank[e])
    BY <1>1 DEF Later
  <2> QED
    BY <2>1, RanksDiffer DEF Past
<1>2. CASE Later(c) # {}
  <2>1. After(c) \in Components /\ (e \in Later(c) => Rank[After(c)] <= Rank[e])
    BY <1>2, NextComponent DEF Later
  <2>2. "count" \notin Components /\ "write" \notin Components
    BY ComponentsAssumption
  <2>3. Rank[e] < Rank[After(c)]
    BY <2>1, <2>2 DEF Past
  <2>4. e \notin Later(c)
    BY <2>1, <2>3, RanksDiffer
  <2> QED
    BY <2>4, RanksDiffer DEF Later, Past
<1> QED
  BY <1>1, <1>2

(***************************************************************************)
(* The data.                                                               *)
(***************************************************************************)
Work == [pc : Steps, obj : CXIDriver]

LEMMA SpecType == SomeSpec \in DriverSpec /\ \A s \in DriverSpec : Stored(s) \in DriverSpec
<1>1. SomeSpec \in DriverSpec
  BY SpecsAssumption DEF SomeSpec
<1>2. \A s \in DriverSpec : Stored(s) \in DriverSpec
  BY DEF Stored, DriverSpec
<1> QED
  BY <1>1, <1>2

LEMMA StatusType == NoStatus \in Status
BY SecondsAssumption DEF NoStatus, Status

\* Two statuses that say the same, whenever their conditions came to be so.
SameConditions(r, s) ==
    /\ r.observed = s.observed /\ r.available = s.available /\ r.degraded = s.degraded
    /\ r.progressing = s.progressing /\ r.ready = s.ready /\ r.failed = s.failed

LEMMA TimesOnly ==
    ASSUME NEW r \in Status, NEW t \in Seconds \cup {Now}
    PROVE  [r EXCEPT !.times = t] \in Status /\ SameConditions([r EXCEPT !.times = t], r)
BY DEF Status, SameConditions

\* Stamping and writing are about the times alone.
LEMMA StampedType ==
    ASSUME NEW s \in Status, NEW r \in Status
    PROVE  Stamped(s, r) \in Status /\ SameConditions(Stamped(s, r), r)
<1>1. Stamped(s, r) = r \/ Stamped(s, r) = [r EXCEPT !.times = Now]
  BY DEF Stamped
<1>2. CASE Stamped(s, r) = r
  BY <1>2 DEF SameConditions
<1>3. CASE Stamped(s, r) = [r EXCEPT !.times = Now]
  BY <1>3, TimesOnly
<1> QED
  BY <1>1, <1>2, <1>3

LEMMA WrittenType ==
    ASSUME NEW r \in Status, NEW s \in Written(r)
    PROVE  s \in Status /\ SameConditions(s, r)
<1>1. PICK t \in Seconds \cup {Now} : s = [r EXCEPT !.times = t]
  BY DEF Written, Status
<1> QED
  BY <1>1, TimesOnly

LEMMA GoneType ==
    ASSUME NEW n \in Nat
    PROVE  /\ Gone(n) \in CXIDriver
           /\ Gone(n).uid = n /\ Gone(n).live = FALSE /\ Gone(n).deleting = FALSE
           /\ Gone(n).fin = FALSE /\ Gone(n).gen = 0 /\ Gone(n).spec = SomeSpec
BY SpecType, StatusType DEF Gone, CXIDriver

LEMMA BornType ==
    ASSUME NEW n \in Nat, NEW s \in DriverSpec
    PROVE  /\ Born(n, s) \in CXIDriver
           /\ Born(n, s).uid = n /\ Born(n, s).live = TRUE /\ Born(n, s).deleting = FALSE
           /\ Born(n, s).fin = FALSE /\ Born(n, s).spec = s
<1>1. Gone(n) \in CXIDriver /\ 1 \in Nat
  BY GoneType
<1> QED
  BY <1>1, GoneType DEF Born, CXIDriver

LEMMA IdleType == Idle \in Work /\ Idle.pc = "idle" /\ Idle.obj.uid = 0
BY GoneType DEF Idle, Work, Steps

LEMMA DaemonSetType ==
    /\ NoDaemonSet \in DaemonSet /\ NoDaemonSet.uid = 0
    /\ \A d \in DaemonSet, p \in PodReports : [d EXCEPT !.pods = p] \in DaemonSet
    /\ \A d \in DaemonSet, g \in Nat : [d EXCEPT !.gen = g] \in DaemonSet
    /\ \A u, g \in Nat : [uid |-> u, gen |-> g, pods |-> "unreported"] \in DaemonSet
BY DEF NoDaemonSet, DaemonSet, Pods

\* A driver whose status alone is another.
LEMMA StatusOnly ==
    ASSUME NEW r \in CXIDriver, NEW s \in Status
    PROVE  /\ [r EXCEPT !.status = s] \in CXIDriver
           /\ [r EXCEPT !.status = s].status = s
           /\ [r EXCEPT !.status = s].uid = r.uid /\ [r EXCEPT !.status = s].gen = r.gen
           /\ [r EXCEPT !.status = s].spec = r.spec /\ [r EXCEPT !.status = s].live = r.live
           /\ [r EXCEPT !.status = s].fin = r.fin
           /\ [r EXCEPT !.status = s].deleting = r.deleting
BY DEF CXIDriver

(***************************************************************************)
(* How a step of the pass leaves the pass.                                 *)
(***************************************************************************)
\* The pass goes on, or ends, with the driver it took up: its copy changes in the
\* status alone.
SameDriver ==
    /\ work'.obj \in CXIDriver
    /\ work'.obj.uid = work.obj.uid /\ work'.obj.gen = work.obj.gen
    /\ work'.obj.spec = work.obj.spec /\ work'.obj.deleting = work.obj.deleting

LEMMA GotoSteps ==
    ASSUME TypeOK, NEW pc \in Steps, Goto(pc)
    PROVE  work' \in Work /\ work'.pc = pc /\ work'.obj = work.obj /\ SameDriver
<1>1. work \in Work
  BY DEF TypeOK, Work
<1>2. work' = [work EXCEPT !.pc = pc]
  BY DEF Goto
<1>3. work' \in Work /\ work'.pc = pc /\ work'.obj = work.obj
  BY <1>1, <1>2 DEF Work
<1> QED
  BY <1>1, <1>3 DEF SameDriver, Work

\* The pass with another pc and status.
LEMMA StatusSteps ==
    ASSUME TypeOK, NEW pc \in Steps, NEW s \in Status,
           work' = [work EXCEPT !.pc = pc, !.obj = [work.obj EXCEPT !.status = s]]
    PROVE  work' \in Work /\ work'.pc = pc /\ work'.obj.status = s /\ SameDriver
<1> DEFINE r == [work.obj EXCEPT !.status = s]
<1>1. work \in Work /\ work.obj \in CXIDriver
  BY DEF TypeOK, Work
<1>2. /\ r \in CXIDriver /\ r.status = s
      /\ r.uid = work.obj.uid /\ r.gen = work.obj.gen
      /\ r.spec = work.obj.spec /\ r.deleting = work.obj.deleting
  BY <1>1, StatusOnly
<1> HIDE DEF r
<1>3. work' \in Work /\ work'.pc = pc /\ work'.obj = r
  BY <1>1, <1>2 DEF Work, r
<1> QED
  BY <1>2, <1>3 DEF SameDriver

LEMMA ProceedSteps ==
    ASSUME TypeOK, NEW c \in Components, Proceed(c)
    PROVE  /\ work' \in Work /\ work'.pc = After(c) /\ SameDriver /\ UNCHANGED queued
           /\ \A e \in Components :
                 e \in work'.obj.status.ready <=>
                     IF e = c THEN Enabled(c, work.obj.spec) ELSE e \in work.obj.status.ready
           /\ work'.obj.status.progressing = work.obj.status.progressing
<1> DEFINE st == work.obj.status
           ready == IF Enabled(c, work.obj.spec) THEN st.ready \cup {c} ELSE st.ready \ {c}
           r == [st EXCEPT !.ready = ready, !.failed = st.failed \ {c}]
           s == Stamped(st, r)
<1>1. st \in Status /\ work \in Work
  BY DEF TypeOK, CXIDriver, Work
<1>2. ready \in SUBSET Components /\ st.failed \ {c} \in SUBSET Components
  BY <1>1 DEF Status
<1>r. r \in Status /\ r.ready = ready /\ r.progressing = st.progressing
  BY <1>1, <1>2 DEF Status
<1>3. s \in Status /\ s.ready = ready /\ s.progressing = st.progressing
  BY <1>1, <1>r, StampedType DEF SameConditions
<1>4. work' = [work EXCEPT !.pc = After(c), !.obj = [work.obj EXCEPT !.status = s]]
  <2>1. work' = [work EXCEPT !.pc = After(c), !.obj.status = s]
    BY DEF Proceed
  <2> HIDE DEF s
  <2> QED
    BY <1>1, <2>1 DEF Work, CXIDriver
<1>5. After(c) \in Steps
  BY AfterType DEF Steps, Deploying
<1> HIDE DEF s
<1>6. work' \in Work /\ work'.pc = After(c) /\ work'.obj.status = s /\ SameDriver
  BY <1>1, <1>3, <1>4, <1>5, StatusSteps
<1> QED
  BY <1>3, <1>6 DEF Proceed

LEMMA FailedSteps ==
    ASSUME TypeOK, NEW c \in Components, ComponentFailed(c)
    PROVE  work' \in Work /\ work'.pc = "fail" /\ SameDriver /\ UNCHANGED queued
<1> DEFINE st == work.obj.status
           r == [st EXCEPT !.observed = work.obj.gen, !.available = FALSE, !.degraded = TRUE,
                           !.ready = st.ready \ {c}, !.failed = st.failed \cup {c}]
           s == Stamped(st, r)
<1>1. st \in Status /\ work \in Work /\ work.obj.gen \in Nat
  BY DEF TypeOK, CXIDriver, Work
<1>2. st.ready \ {c} \in SUBSET Components /\ st.failed \cup {c} \in SUBSET Components
  BY <1>1 DEF Status
<1>r. r \in Status
  BY <1>1, <1>2 DEF Status
<1>3. s \in Status
  BY <1>1, <1>r, StampedType
<1>4. work' = [work EXCEPT !.pc = "fail", !.obj = [work.obj EXCEPT !.status = s]]
  <2>1. work' = [work EXCEPT !.pc = "fail", !.obj.status = s]
    BY DEF ComponentFailed
  <2> HIDE DEF s
  <2> QED
    BY <1>1, <2>1 DEF Work, CXIDriver
<1>5. "fail" \in Steps
  BY DEF Steps, Deploying
<1> HIDE DEF s
<1> QED
  BY <1>1, <1>3, <1>4, <1>5, StatusSteps DEF ComponentFailed

LEMMA CountSteps ==
    ASSUME TypeOK, CountNodes
    PROVE  /\ work' \in Work /\ work'.pc = "write" /\ SameDriver
           /\ work'.obj.status.ready = work.obj.status.ready
           /\ work'.obj.status.observed = work.obj.gen
           /\ work'.obj.status.available <=> cds["agent"].pods = "ready"
           /\ cds["agent"].pods = "ready" => ~work'.obj.status.degraded
           /\ cds["agent"].pods = "unavailable" => work'.obj.status.degraded
           /\ work.obj.status.progressing =>
                 (work'.obj.status.progressing <=> cds["agent"].pods # "ready")
<1> DEFINE st == work.obj.status
           p == cds["agent"].pods
           degraded == p = "unavailable" \/ (p # "ready" /\ st.degraded)
           progressing == st.progressing /\ p # "ready"
           r == [st EXCEPT !.observed = work.obj.gen, !.available = (p = "ready"),
                           !.degraded = degraded, !.progressing = progressing]
           s == Stamped(st, r)
<1>1. st \in Status /\ work \in Work /\ work.obj.gen \in Nat
  BY DEF TypeOK, CXIDriver, Work
<1>2. (p = "ready") \in BOOLEAN
  OBVIOUS
<1>3. /\ degraded \in BOOLEAN
      /\ p = "ready" => degraded = FALSE
      /\ p = "unavailable" => degraded = TRUE
      /\ progressing \in BOOLEAN
      /\ st.progressing => (progressing <=> p # "ready")
  OBVIOUS
<1>4. work' = [work EXCEPT !.pc = "write", !.obj = [work.obj EXCEPT !.status = s]]
  <2>1. work' = [work EXCEPT !.pc = "write", !.obj.status = s]
    BY DEF CountNodes, NodesCounted
  <2> HIDE DEF s
  <2> QED
    BY <1>1, <2>1 DEF Work, CXIDriver
<1> HIDE DEF degraded, progressing
<1>r. /\ r \in Status
      /\ r.ready = st.ready /\ r.observed = work.obj.gen
      /\ r.available = (p = "ready") /\ r.degraded = degraded /\ r.progressing = progressing
  BY <1>1, <1>2, <1>3 DEF Status
<1>5. /\ s \in Status
      /\ s.ready = st.ready /\ s.observed = work.obj.gen
      /\ s.available = (p = "ready") /\ s.degraded = degraded /\ s.progressing = progressing
  <2> HIDE DEF r
  <2> QED
    BY <1>1, <1>r, StampedType DEF SameConditions
<1>6. "write" \in Steps
  BY DEF Steps, Deploying
<1> HIDE DEF s
<1>7. work' \in Work /\ work'.pc = "write" /\ work'.obj.status = s /\ SameDriver
  BY <1>1, <1>4, <1>5, <1>6, StatusSteps
<1> QED
  BY <1>3, <1>5, <1>7

(***************************************************************************)
(* Type correctness.                                                       *)
(***************************************************************************)
LEMMA InitType == Init => TypeOK
<1> SUFFICES ASSUME Init PROVE TypeOK
  OBVIOUS
<1>1. obj \in CXIDriver /\ cobj \in CXIDriver
  BY GoneType DEF Init
<1>2. ds \in [Components -> DaemonSet] /\ cds \in [Components -> DaemonSet]
  BY DaemonSetType DEF Init
<1> QED
  BY <1>1, <1>2, IdleType, SpecType, BoundsAssumption DEF Init, TypeOK, Work

LEMMA UsersType == ASSUME TypeOK, Users PROVE TypeOK'
<1>a. obj \in CXIDriver /\ obj.uid \in Nat /\ obj.gen \in Nat
  BY DEF TypeOK, CXIDriver
<1>1. ASSUME NEW s \in Specs, CreateDriver(s) PROVE TypeOK'
  <2>1. s \in DriverSpec /\ obj.uid + 1 \in Nat
    BY <1>a, SpecsAssumption
  <2>2. obj' \in CXIDriver
    BY <1>1, <2>1, BornType DEF CreateDriver
  <2> QED
    BY <1>1, <2>1, <2>2 DEF CreateDriver, TypeOK, watches
<1>2. ASSUME NEW s \in Specs, EditSpec(s) PROVE TypeOK'
  <2>1. s \in DriverSpec /\ obj.gen + 1 \in Nat
    BY <1>a, SpecsAssumption
  <2>2. [obj EXCEPT !.spec = s, !.gen = obj.gen + 1] \in CXIDriver
    BY <1>a, <2>1 DEF CXIDriver
  <2> QED
    BY <1>2, <2>1, <2>2 DEF EditSpec, TypeOK, watches
<1>3. CASE DeleteDriver
  <2>1. [obj EXCEPT !.deleting = TRUE] \in CXIDriver /\ Gone(obj.uid) \in CXIDriver
    BY <1>a, GoneType DEF CXIDriver
  <2> QED
    BY <1>3, <2>1 DEF DeleteDriver, TypeOK, watches
<1> QED
  BY <1>1, <1>2, <1>3 DEF Users

LEMMA FaultType == ASSUME TypeOK, Fault \/ UNCHANGED faults PROVE faults' \in Nat
BY DEF TypeOK, Fault

LEMMA ClusterType == ASSUME TypeOK, Cluster PROVE TypeOK'
<1>1. ASSUME NEW p \in PodReports, ReportPods(p) PROVE TypeOK'
  <2>1. "agent" \in Components /\ ds["agent"] \in DaemonSet
    BY ComponentsAssumption DEF TypeOK
  <2>2. [ds["agent"] EXCEPT !.pods = p] \in DaemonSet
    BY <2>1, DaemonSetType
  <2>3. ds' = [ds EXCEPT !["agent"] = [ds["agent"] EXCEPT !.pods = p]]
    BY <1>1, <2>1 DEF ReportPods, TypeOK
  <2>4. ds' \in [Components -> DaemonSet]
    BY <2>1, <2>2, <2>3 DEF TypeOK
  <2> QED
    BY <1>1, <2>4 DEF ReportPods, TypeOK, watches
<1>2. ASSUME NEW c \in Components, CollectGarbage(c) PROVE TypeOK'
  BY <1>2, DaemonSetType DEF CollectGarbage, TypeOK, watches
<1>3. ASSUME NEW c \in Components, SyncDaemonSet(c) PROVE TypeOK'
  BY <1>3 DEF SyncDaemonSet, TypeOK, api
<1>4. CASE SyncDriver
  BY <1>4 DEF SyncDriver, TypeOK, api
<1>5. CASE SyncWebhook
  BY <1>5 DEF SyncWebhook, TypeOK, api
<1>6. CASE Crash
  <2>1. faults' \in Nat /\ queued' \in BOOLEAN
    BY <1>6 DEF Crash, TypeOK, CXIDriver
  <2> QED
    BY <1>6, <2>1, IdleType DEF Crash, TypeOK, api, Work
<1> QED
  BY <1>1, <1>2, <1>3, <1>4, <1>5, <1>6 DEF Cluster

LEMMA DequeueSteps ==
    ASSUME TypeOK, Dequeue
    PROVE  /\ work' \in Work /\ queued' = FALSE /\ work.pc = "idle"
           /\ \/ /\ UNCHANGED work
                 /\ ~cobj.live \/ (cobj.deleting /\ ~cobj.fin)
              \/ /\ work'.obj.uid = cobj.uid /\ work'.obj.gen = cobj.gen
                 /\ work'.obj.spec = cobj.spec /\ work'.obj.deleting = cobj.deleting
                 /\ cobj.live
                 /\ \/ cobj.deleting /\ cobj.fin /\ work'.pc = "cleanup"
                    \/ ~cobj.deleting /\ ~cobj.fin /\ work'.pc = "admit"
                    \/ /\ ~cobj.deleting /\ cobj.fin /\ work'.pc = "agent"
                       /\ work'.obj.status.progressing
<1>1. /\ cobj \in CXIDriver /\ work \in Work
      /\ cobj.live \in BOOLEAN /\ cobj.deleting \in BOOLEAN /\ cobj.fin \in BOOLEAN
  BY DEF TypeOK, CXIDriver, Work
<1>2. CASE UNCHANGED work /\ (~cobj.live \/ (cobj.deleting /\ ~cobj.fin))
  BY <1>1, <1>2 DEF Dequeue
<1>3. CASE cobj.live /\ cobj.deleting /\ cobj.fin
  <2>1. work' = [pc |-> "cleanup", obj |-> cobj]
    BY <1>3 DEF Dequeue
  <2> QED
    BY <1>1, <1>3, <2>1 DEF Dequeue, Work, Steps
<1>4. CASE cobj.live /\ ~cobj.deleting /\ ~cobj.fin
  <2>1. work' = [pc |-> "admit", obj |-> cobj]
    BY <1>4 DEF Dequeue
  <2> QED
    BY <1>1, <1>4, <2>1 DEF Dequeue, Work, Steps
<1>5. CASE cobj.live /\ ~cobj.deleting /\ cobj.fin
  <2> DEFINE st == cobj.status
             r == [st EXCEPT !.progressing = TRUE]
             s == Stamped(st, r)
  <2>1. work' = [pc |-> "agent", obj |-> [cobj EXCEPT !.status = s]]
    BY <1>5 DEF Dequeue
  <2>2. st \in Status /\ r \in Status /\ r.progressing = TRUE
    BY <1>1 DEF CXIDriver, Status
  <2>3. s \in Status /\ s.progressing = TRUE
    <3> HIDE DEF r
    <3> QED
      BY <2>2, StampedType DEF SameConditions
  <2> HIDE DEF s
  <2>4. "agent" \in Steps
    BY ComponentsAssumption DEF Steps, Deploying
  <2>5. queued' = FALSE /\ work.pc = "idle"
    BY DEF Dequeue
  <2> QED
    BY <1>1, <1>5, <2>1, <2>3, <2>4, <2>5, StatusOnly DEF Work
<1> QED
  BY <1>1, <1>2, <1>3, <1>4, <1>5 DEF Dequeue

\* What every step of the pass keeps, whatever it writes.
LEMMA PassStepType ==
    ASSUME TypeOK, UNCHANGED <<watches, asked>>, Fault \/ UNCHANGED faults,
           work' \in Work, queued' \in BOOLEAN,
           obj' \in CXIDriver, ds' \in [Components -> DaemonSet], wh' \in BOOLEAN
    PROVE  TypeOK'
BY FaultType DEF TypeOK, watches, Work

LEMMA EndSteps ==
    ASSUME TypeOK, Finish \/ Requeue
    PROVE  work' = Idle /\ work' \in Work /\ queued' \in BOOLEAN
BY IdleType DEF Finish, Requeue, TypeOK

\* However a component's step goes on: with its conditions, or as failed.
Goes(c) == Proceed(c) \/ ComponentFailed(c)

LEMMA GoesSteps ==
    ASSUME TypeOK, NEW c \in Components, Goes(c)
    PROVE  /\ work' \in Work /\ SameDriver /\ UNCHANGED queued
           /\ work'.pc = "fail" \/ work'.pc = After(c)
BY ProceedSteps, FailedSteps DEF Goes

\* The DaemonSet ApplyDaemonSet writes.
Built(c) ==
    IF cds[c].uid = 0
    THEN [uid |-> work.obj.uid, gen |-> work.obj.gen, pods |-> "unreported"]
    ELSE [cds[c] EXCEPT !.gen = work.obj.gen]

LEMMA BuiltType ==
    ASSUME TypeOK, NEW c \in Components
    PROVE  /\ Built(c) \in DaemonSet /\ Built(c).gen = work.obj.gen
           /\ Built(c).uid = IF cds[c].uid = 0 THEN work.obj.uid ELSE cds[c].uid
<1>1. cds[c] \in DaemonSet /\ work.obj.uid \in Nat /\ work.obj.gen \in Nat
  BY DEF TypeOK, CXIDriver
<1>2. CASE cds[c].uid = 0
  BY <1>1, <1>2, DaemonSetType DEF Built
<1>3. CASE cds[c].uid # 0
  BY <1>1, <1>3 DEF Built, DaemonSet
<1> QED
  BY <1>2, <1>3

LEMMA ApplySteps ==
    ASSUME TypeOK, NEW c \in Components, ApplyDaemonSet(c)
    PROVE  /\ UNCHANGED <<obj, wh, watches, asked>> /\ (Fault \/ UNCHANGED faults)
           /\ work.pc = c /\ HasDaemonSet(c, work.obj.spec)
           /\ \/ UNCHANGED ds /\ ComponentFailed(c)
              \/ /\ cds[c] = ds[c] /\ ds' = [ds EXCEPT ![c] = Built(c)]
                 /\ Goes(c)
<1> QED
  BY DEF ApplyDaemonSet, Built, Goes

LEMMA ReconcileType == ASSUME TypeOK, Reconcile PROVE TypeOK'
<1>a. /\ obj \in CXIDriver /\ obj.uid \in Nat /\ obj.gen \in Nat /\ work \in Work
      /\ ds \in [Components -> DaemonSet] /\ wh \in BOOLEAN /\ queued \in BOOLEAN
  BY DEF TypeOK, CXIDriver, Work
<1>1. CASE Cleanup
  <2>1. work' \in Work /\ queued' \in BOOLEAN
    <3>1. CASE Goto("unfinalize")
      BY <1>a, <3>1, GotoSteps DEF Goto, Steps
    <3>2. CASE Requeue
      BY <3>2, EndSteps
    <3> QED
      BY <1>1, <3>1, <3>2 DEF Cleanup
  <2>2. /\ UNCHANGED <<watches, asked>> /\ (Fault \/ UNCHANGED faults)
        /\ UNCHANGED <<obj, ds>> /\ wh' \in BOOLEAN
    BY <1>1, <1>a DEF Cleanup
  <2> QED
    BY <1>a, <2>1, <2>2, PassStepType
<1>2. CASE RemoveFinalizer
  <2>1. work' \in Work /\ queued' \in BOOLEAN
    BY <1>2, EndSteps DEF RemoveFinalizer
  <2>2. obj' \in CXIDriver
    BY <1>2, <1>a, GoneType DEF RemoveFinalizer
  <2>3. /\ UNCHANGED <<watches, asked>> /\ (Fault \/ UNCHANGED faults) /\ UNCHANGED <<ds, wh>>
    BY <1>2 DEF RemoveFinalizer
  <2> QED
    BY <1>a, <2>1, <2>2, <2>3, PassStepType
<1>3. CASE AddFinalizer
  <2>1. work' \in Work /\ queued' \in BOOLEAN
    BY <1>3, EndSteps DEF AddFinalizer
  <2>2. obj' \in CXIDriver
    <3>1. Stored(obj.spec) \in DriverSpec
      BY <1>a, SpecType DEF CXIDriver
    <3>2. \A g \in Nat : [obj EXCEPT !.fin = TRUE, !.spec = Stored(obj.spec), !.gen = g]
                           \in CXIDriver
      BY <1>a, <3>1 DEF CXIDriver
    <3>3. (IF Stored(obj.spec) = obj.spec THEN obj.gen ELSE obj.gen + 1) \in Nat
      BY <1>a
    <3> QED
      BY <1>3, <1>a, <3>2, <3>3 DEF AddFinalizer
  <2>3. /\ UNCHANGED <<watches, asked>> /\ (Fault \/ UNCHANGED faults) /\ UNCHANGED <<ds, wh>>
    BY <1>3 DEF AddFinalizer
  <2> QED
    BY <1>a, <2>1, <2>2, <2>3, PassStepType
<1>4. ASSUME NEW c \in Components, ApplyDaemonSet(c) PROVE TypeOK'
  <2>1. ds' \in [Components -> DaemonSet]
    BY <1>4, <1>a, ApplySteps, BuiltType
  <2>2. work' \in Work /\ queued' \in BOOLEAN
    BY <1>4, <1>a, ApplySteps, GoesSteps DEF Goes
  <2> QED
    BY <1>4, <1>a, <2>1, <2>2, ApplySteps, PassStepType
<1>5. ASSUME NEW c \in Components, SkipComponent(c) PROVE TypeOK'
  <2>1. work' \in Work /\ UNCHANGED queued
    BY <1>5, ProceedSteps DEF SkipComponent
  <2> QED
    BY <1>5, <1>a, <2>1, PassStepType DEF SkipComponent, api
<1>6. CASE ApplyWebhook
  <2>1. "retry" \in Components /\ Goes("retry")
    <3>1. work.pc = "retry" /\ work.pc \in Steps
      BY <1>6, <1>a DEF ApplyWebhook, Work
    <3> QED
      BY <1>6, <3>1 DEF ApplyWebhook, Steps, Deploying, Goes
  <2>2. work' \in Work /\ UNCHANGED queued
    BY <2>1, GoesSteps
  <2>3. /\ UNCHANGED <<watches, asked>> /\ (Fault \/ UNCHANGED faults)
        /\ UNCHANGED <<obj, ds>> /\ wh' \in BOOLEAN
    BY <1>6, <1>a DEF ApplyWebhook
  <2> QED
    BY <1>a, <2>2, <2>3, PassStepType
<1>7. CASE CountNodes
  <2>1. work' \in Work /\ UNCHANGED queued
    BY <1>7, CountSteps DEF CountNodes
  <2> QED
    BY <1>7, <1>a, <2>1, PassStepType DEF CountNodes, api
<1>8. CASE WriteStatus
  <2>1. work' \in Work /\ queued' \in BOOLEAN
    BY <1>8, EndSteps DEF WriteStatus
  <2>2. obj' \in CXIDriver
    <3>1. work.obj.status \in Status
      BY <1>a DEF Work, CXIDriver
    <3> QED
      BY <1>8, <1>a, <3>1, WrittenType, StatusOnly DEF WriteStatus
  <2>3. /\ UNCHANGED <<watches, asked>> /\ (Fault \/ UNCHANGED faults) /\ UNCHANGED <<ds, wh>>
    BY <1>8 DEF WriteStatus
  <2> QED
    BY <1>a, <2>1, <2>2, <2>3, PassStepType
<1> QED
  BY <1>1, <1>2, <1>3, <1>4, <1>5, <1>6, <1>7, <1>8 DEF Reconcile

\* Every variable keeps its type: Reconcile is always at a step it has, with a copy
\* that is a CXIDriver.
THEOREM ReconcileTypeCorrect == Spec => []TypeOK
<1>1. ASSUME TypeOK, Dequeue PROVE TypeOK'
  BY <1>1, DequeueSteps DEF Dequeue, TypeOK, api, watches, Work
<1>2. TypeOK /\ UNCHANGED vars => TypeOK'
  BY DEF TypeOK, vars
<1>3. TypeOK /\ [Next]_vars => TypeOK'
  BY <1>1, <1>2, UsersType, ClusterType, ReconcileType DEF Next
<1> QED
  BY <1>3, InitType, PTL DEF Spec

(***************************************************************************)
(* A pass works for the driver that exists.                                *)
(***************************************************************************)
\* The copies are of the past, and of no incarnation that is yet to come.
CopiesAreOld ==
    /\ cobj.uid <= obj.uid /\ work.obj.uid <= obj.uid
    /\ obj.live => obj.uid > 0

\* An incarnation that was seen deleting is deleting until it is gone; and the cache
\* is not behind a pass that took the driver for deleting.
DeletionIsFinal ==
    /\ cobj.deleting /\ cobj.uid = obj.uid /\ obj.live => obj.deleting
    /\ work.pc \in {"cleanup", "unfinalize"} =>
          /\ work.obj.deleting
          /\ work.obj.uid = obj.uid /\ obj.live => obj.deleting
          /\ work.obj.uid = cobj.uid /\ cobj.live => cobj.deleting

\* What the cache shows with the finalizer, and not deleting, exists and has it still:
\* only the worker removes it, and only from what it has seen deleting.
FinalizerHolds ==
    cobj.live /\ cobj.fin /\ ~cobj.deleting =>
        obj.live /\ obj.fin /\ obj.uid = cobj.uid /\ cobj.gen <= obj.gen

PassInv == CopiesAreOld /\ DeletionIsFinal /\ FinalizerHolds /\ PassIsOnLiveDriver

LEMMA Numbers ==
    ASSUME TypeOK
    PROVE  /\ obj.uid \in Nat /\ cobj.uid \in Nat /\ work.obj.uid \in Nat
           /\ obj.gen \in Nat /\ cobj.gen \in Nat /\ work.obj.gen \in Nat
BY DEF TypeOK, CXIDriver

LEMMA InitPass == Init => PassInv
<1>1. Gone(0).uid = 0 /\ Gone(0).live = FALSE /\ Gone(0).deleting = FALSE /\ Gone(0).fin = FALSE
  BY GoneType
<1>2. "idle" \notin Deploying
  BY ComponentsAssumption DEF Deploying
<1> QED
  BY <1>1, <1>2, IdleType DEF Init, PassInv, CopiesAreOld, DeletionIsFinal, FinalizerHolds,
     PassIsOnLiveDriver

\* The pass ends, or goes on with its driver without coming to deploy or to delete.
WorkGoesOn ==
    \/ work' = Idle
    \/ /\ SameDriver
       /\ work'.pc \in Deploying => work.pc \in Deploying
       /\ work'.pc \in {"cleanup", "unfinalize"} => work.pc \in {"cleanup", "unfinalize"}

\* The driver stays the one it is: neither its deletion nor its finalizer is undone.
DriverStays ==
    /\ obj' \in CXIDriver
    /\ obj'.uid = obj.uid /\ obj'.live = obj.live /\ obj'.gen >= obj.gen
    /\ obj.deleting => obj'.deleting
    /\ obj.fin => obj'.fin

LEMMA IdleIsElsewhere ==
    Idle.pc \notin Deploying /\ Idle.pc \notin {"cleanup", "unfinalize"}
BY IdleType, ComponentsAssumption DEF Deploying

LEMMA DriverStaysPass ==
    ASSUME TypeOK, PassInv, UNCHANGED cobj, WorkGoesOn, DriverStays
    PROVE  PassInv'
<1>1. /\ obj.uid \in Nat /\ cobj.uid \in Nat /\ work.obj.uid \in Nat
      /\ obj.gen \in Nat /\ cobj.gen \in Nat /\ work.obj.gen \in Nat /\ obj'.gen \in Nat
  BY Numbers DEF DriverStays, CXIDriver
<1>2. /\ cobj.uid <= obj'.uid
      /\ obj'.live => obj'.uid > 0
      /\ cobj.deleting /\ cobj.uid = obj'.uid /\ obj'.live => obj'.deleting
      /\ cobj.live /\ cobj.fin /\ ~cobj.deleting =>
            obj'.live /\ obj'.fin /\ obj'.uid = cobj.uid /\ cobj.gen <= obj'.gen
  BY <1>1 DEF PassInv, CopiesAreOld, DeletionIsFinal, FinalizerHolds, DriverStays
<1>3. CASE work' = Idle
  BY <1>1, <1>2, <1>3, IdleType, IdleIsElsewhere
     DEF PassInv, CopiesAreOld, DeletionIsFinal, FinalizerHolds, PassIsOnLiveDriver, DriverStays
<1>4. CASE WorkGoesOn /\ work' # Idle
  <2>1. CopiesAreOld'
    BY <1>1, <1>2, <1>4 DEF PassInv, CopiesAreOld, WorkGoesOn, SameDriver, DriverStays
  <2>2. DeletionIsFinal'
    BY <1>2, <1>4 DEF PassInv, DeletionIsFinal, WorkGoesOn, SameDriver, DriverStays
  <2>3. FinalizerHolds'
    BY <1>2 DEF FinalizerHolds
  <2>4. PassIsOnLiveDriver'
    BY <1>1, <1>4 DEF PassInv, PassIsOnLiveDriver, WorkGoesOn, SameDriver, DriverStays
  <2> QED
    BY <2>1, <2>2, <2>3, <2>4 DEF PassInv
<1> QED
  BY <1>3, <1>4

LEMMA Unmoved ==
    ASSUME TypeOK
    PROVE  /\ UNCHANGED work => WorkGoesOn
           /\ UNCHANGED obj => DriverStays
BY DEF TypeOK, WorkGoesOn, SameDriver, DriverStays, CXIDriver

LEMMA UsersPass == ASSUME TypeOK, PassInv, Users PROVE PassInv'
<1>a. UNCHANGED <<cobj, work>> /\ obj \in CXIDriver
  BY DEF Users, CreateDriver, EditSpec, DeleteDriver, watches, TypeOK
<1>1. ASSUME NEW s \in Specs, CreateDriver(s) PROVE PassInv'
  <2>1. obj'.uid = obj.uid + 1 /\ obj'.live /\ ~obj.live
    <3>1. s \in DriverSpec /\ obj.uid + 1 \in Nat
      BY Numbers, SpecsAssumption
    <3> QED
      BY <1>1, <3>1, BornType DEF CreateDriver
  <2>2. ~(cobj.live /\ cobj.fin /\ ~cobj.deleting) /\ work.pc \notin Deploying
    BY <2>1 DEF PassInv, FinalizerHolds, PassIsOnLiveDriver
  <2>3. cobj.uid < obj'.uid /\ work.obj.uid < obj'.uid /\ obj'.uid > 0
    BY <2>1, Numbers DEF PassInv, CopiesAreOld
  <2>4. CopiesAreOld'
    BY <1>a, <2>1, <2>3, Numbers DEF CopiesAreOld
  <2>5. DeletionIsFinal'
    BY <1>a, <2>3, Numbers DEF PassInv, DeletionIsFinal
  <2> QED
    BY <1>a, <2>2, <2>4, <2>5 DEF PassInv, FinalizerHolds, PassIsOnLiveDriver
<1>2. ASSUME NEW s \in Specs, EditSpec(s) PROVE PassInv'
  <2>1. DriverStays
    <3>1. s \in DriverSpec /\ obj.gen + 1 \in Nat /\ obj.gen + 1 >= obj.gen
      BY Numbers, SpecsAssumption
    <3>2. obj' = [obj EXCEPT !.spec = s, !.gen = obj.gen + 1]
      BY <1>2 DEF EditSpec
    <3> QED
      BY <1>a, <3>1, <3>2 DEF DriverStays, CXIDriver
  <2> QED
    BY <1>a, <2>1, Unmoved, DriverStaysPass
<1>3. CASE DeleteDriver /\ obj.fin
  <2>1. DriverStays
    <3>1. obj' = [obj EXCEPT !.deleting = TRUE]
      BY <1>3 DEF DeleteDriver
    <3>2. obj.gen >= obj.gen
      BY Numbers
    <3> QED
      BY <1>a, <3>1, <3>2 DEF DriverStays, CXIDriver
  <2> QED
    BY <1>a, <2>1, Unmoved, DriverStaysPass
<1>4. CASE DeleteDriver /\ ~obj.fin
  <2>1. obj'.uid = obj.uid /\ ~obj'.live
    BY <1>4, Numbers, GoneType DEF DeleteDriver
  <2>2. ~(cobj.live /\ cobj.fin /\ ~cobj.deleting) /\ work.pc \notin Deploying
    BY <1>4 DEF PassInv, FinalizerHolds, PassIsOnLiveDriver
  <2> QED
    BY <1>a, <2>1, <2>2 DEF PassInv, CopiesAreOld, DeletionIsFinal, FinalizerHolds,
       PassIsOnLiveDriver
<1> QED
  BY <1>1, <1>2, <1>3, <1>4 DEF Users

LEMMA ClusterPass == ASSUME TypeOK, PassInv, Cluster PROVE PassInv'
<1>1. CASE UNCHANGED <<obj, cobj, work>>
  BY <1>1, Unmoved, DriverStaysPass
<1>2. CASE UNCHANGED obj /\ cobj' = obj /\ (UNCHANGED work \/ work' = Idle)
  <2>1. CASE UNCHANGED work
    BY <1>2, <2>1, Numbers
       DEF PassInv, CopiesAreOld, DeletionIsFinal, FinalizerHolds, PassIsOnLiveDriver
  <2>2. CASE work' = Idle
    BY <1>2, <2>2, Numbers, IdleType, IdleIsElsewhere
       DEF PassInv, CopiesAreOld, DeletionIsFinal, FinalizerHolds, PassIsOnLiveDriver
  <2> QED
    BY <1>2, <2>1, <2>2
<1> QED
  BY <1>1, <1>2 DEF Cluster, ReportPods, CollectGarbage, SyncDaemonSet, SyncDriver, SyncWebhook,
     Crash, watches, api

LEMMA DequeuePass == ASSUME TypeOK, PassInv, Dequeue PROVE PassInv'
<1>a. UNCHANGED <<obj, cobj>>
  BY DEF Dequeue, api, watches
<1>1. CASE UNCHANGED work
  BY <1>a, <1>1, Unmoved, DriverStaysPass
<1>b. "cleanup" \notin Deploying /\ "admit" \notin Deploying
  BY ComponentsAssumption DEF Deploying
<1>2. CASE work'.obj.uid = cobj.uid /\ work'.obj.deleting = cobj.deleting
           /\ cobj.live /\ cobj.deleting /\ cobj.fin /\ work'.pc = "cleanup"
  BY <1>a, <1>b, <1>2, Numbers
     DEF PassInv, CopiesAreOld, DeletionIsFinal, FinalizerHolds, PassIsOnLiveDriver
<1>3. CASE work'.obj.uid = cobj.uid /\ work'.pc = "admit"
  BY <1>a, <1>b, <1>3, Numbers
     DEF PassInv, CopiesAreOld, DeletionIsFinal, FinalizerHolds, PassIsOnLiveDriver
<1>4. CASE /\ work'.obj.uid = cobj.uid /\ work'.obj.gen = cobj.gen
           /\ cobj.live /\ ~cobj.deleting /\ cobj.fin
           /\ work'.pc = "agent"
  BY <1>a, <1>4, Numbers
     DEF PassInv, CopiesAreOld, DeletionIsFinal, FinalizerHolds, PassIsOnLiveDriver
<1> QED
  BY <1>1, <1>2, <1>3, <1>4, DequeueSteps

LEMMA ReconcilePass == ASSUME TypeOK, PassInv, Reconcile PROVE PassInv'
<1>a. /\ UNCHANGED cobj /\ obj \in CXIDriver /\ work \in Work
      /\ work.obj \in CXIDriver /\ work.pc \in Steps
  BY DEF Reconcile, Cleanup, RemoveFinalizer, AddFinalizer, ApplyDaemonSet, SkipComponent,
     ApplyWebhook, CountNodes, WriteStatus, watches, TypeOK, Work
<1>b. \A c \in Components : c \in Deploying /\ After(c) \in Deploying
                            /\ After(c) \notin {"cleanup", "unfinalize"}
  BY AfterType, ComponentsAssumption DEF Deploying
<1>c. {"count", "write", "fail"} \subseteq Deploying
  BY DEF Deploying
<1>d. "unfinalize" \notin Deploying /\ "unfinalize" \in Steps
  BY ComponentsAssumption DEF Deploying, Steps
<1>1. CASE Cleanup
  <2>1. ASSUME Goto("unfinalize") PROVE WorkGoesOn
    BY <1>1, <1>d, <2>1, GotoSteps DEF Cleanup, WorkGoesOn
  <2>2. ASSUME Requeue PROVE WorkGoesOn
    BY <2>2 DEF Requeue, WorkGoesOn
  <2>3. WorkGoesOn /\ UNCHANGED obj
    BY <1>1, <2>1, <2>2 DEF Cleanup
  <2> QED
    BY <1>a, <2>3, Unmoved, DriverStaysPass
<1>2. CASE RemoveFinalizer
  <2>1. work' = Idle /\ work.pc = "unfinalize"
    BY <1>2, EndSteps DEF RemoveFinalizer
  <2>2. CASE UNCHANGED obj
    BY <1>a, <2>1, <2>2, Unmoved, DriverStaysPass DEF WorkGoesOn
  <2>3. CASE work.obj = obj /\ obj' = Gone(obj.uid)
    <3>1. obj'.uid = obj.uid /\ ~obj'.live
      BY <2>3, Numbers, GoneType
    <3>2. ~(cobj.live /\ cobj.fin /\ ~cobj.deleting)
      BY <2>1, <2>3 DEF PassInv, DeletionIsFinal, FinalizerHolds
    <3> QED
      BY <1>a, <2>1, <3>1, <3>2, Numbers, IdleType, IdleIsElsewhere
         DEF PassInv, CopiesAreOld, DeletionIsFinal, FinalizerHolds, PassIsOnLiveDriver
  <2> QED
    BY <1>2, <2>2, <2>3 DEF RemoveFinalizer
<1>3. CASE AddFinalizer
  <2>1. WorkGoesOn
    BY <1>3, EndSteps DEF AddFinalizer, WorkGoesOn
  <2>2. DriverStays
    <3>1. CASE UNCHANGED obj
      BY <3>1, Unmoved
    <3>2. CASE obj' # obj
      <4> DEFINE g == IF Stored(obj.spec) = obj.spec THEN obj.gen ELSE obj.gen + 1
      <4>1. g \in Nat /\ g >= obj.gen
        BY Numbers
      <4>2. obj' = [obj EXCEPT !.fin = TRUE, !.spec = Stored(obj.spec), !.gen = g]
        BY <1>3, <3>2 DEF AddFinalizer
      <4>3. Stored(obj.spec) \in DriverSpec
        BY <1>a, SpecType DEF CXIDriver
      <4> HIDE DEF g
      <4> QED
        BY <1>a, <4>1, <4>2, <4>3 DEF DriverStays, CXIDriver
    <3> QED
      BY <3>1, <3>2
  <2> QED
    BY <1>a, <2>1, <2>2, DriverStaysPass
<1>4. ASSUME NEW c \in Components, ApplyDaemonSet(c) PROVE PassInv'
  <2>1. /\ UNCHANGED obj /\ work.pc \in Deploying
        /\ SameDriver /\ (work'.pc = "fail" \/ work'.pc = After(c))
    BY <1>4, <1>b, ApplySteps, GoesSteps DEF Goes
  <2> QED
    BY <1>a, <1>b, <2>1, Unmoved, DriverStaysPass DEF WorkGoesOn
<1>5. ASSUME NEW c \in Components, SkipComponent(c) PROVE PassInv'
  <2>1. UNCHANGED obj /\ work.pc \in Deploying /\ SameDriver /\ work'.pc = After(c)
    BY <1>5, <1>b, ProceedSteps DEF SkipComponent, api
  <2> QED
    BY <1>a, <1>b, <2>1, Unmoved, DriverStaysPass DEF WorkGoesOn
<1>6. CASE ApplyWebhook
  <2>1. "retry" \in Components /\ Goes("retry") /\ UNCHANGED obj /\ work.pc = "retry"
    BY <1>6, <1>a DEF ApplyWebhook, Steps, Deploying, Goes
  <2>2. SameDriver /\ (work'.pc = "fail" \/ work'.pc = After("retry"))
    BY <2>1, GoesSteps
  <2> QED
    BY <1>a, <1>b, <2>1, <2>2, Unmoved, DriverStaysPass DEF WorkGoesOn
<1>7. CASE CountNodes
  <2>1. UNCHANGED obj /\ work.pc = "count" /\ work'.pc = "write" /\ SameDriver
    BY <1>7, CountSteps DEF CountNodes, api
  <2> QED
    BY <1>a, <1>c, <2>1, Unmoved, DriverStaysPass DEF WorkGoesOn
<1>8. CASE WriteStatus
  <2>1. WorkGoesOn
    BY <1>8, EndSteps DEF WriteStatus, WorkGoesOn
  <2>2. DriverStays
    <3>1. CASE UNCHANGED obj
      BY <3>1, Unmoved
    <3>2. ASSUME NEW s \in Written(work.obj.status), obj' = [obj EXCEPT !.status = s]
          PROVE  DriverStays
      <4>1. s \in Status
        BY <1>a, WrittenType DEF CXIDriver
      <4> QED
        BY <1>a, <3>2, <4>1, StatusOnly, Numbers DEF DriverStays
    <3> QED
      BY <1>8, <3>1, <3>2 DEF WriteStatus
  <2> QED
    BY <1>a, <2>1, <2>2, DriverStaysPass
<1> QED
  BY <1>1, <1>2, <1>3, <1>4, <1>5, <1>6, <1>7, <1>8 DEF Reconcile

LEMMA PassInvariant == Spec => []PassInv
<1>1. ASSUME TypeOK, PassInv, UNCHANGED vars PROVE PassInv'
  BY <1>1, Unmoved, DriverStaysPass DEF vars
<1>2. TypeOK /\ PassInv /\ [Next]_vars => PassInv'
  BY <1>1, UsersPass, ClusterPass, DequeuePass, ReconcilePass DEF Next
<1> QED
  BY <1>2, InitPass, ReconcileTypeCorrect, PTL DEF Spec

\* Reconcile deploys and reports for the CXIDriver that exists, however old the copy in
\* its hands: the finalizer holds the object until the worker itself lets it go.
THEOREM PassesAreForLiveDrivers == Spec => []PassIsOnLiveDriver
BY PassInvariant, PTL DEF PassInv

(***************************************************************************)
(* At rest everything is applied and reported.                             *)
(***************************************************************************)
\* What is to be seen of component c, applied for the driver as the cache has it to the
\* DaemonSet the cache has: one was created, or the one found has the generation and may
\* have been collected since as another driver's.
Applied(c) ==
    /\ HasDaemonSet(c, cobj.spec) =>
          IF cds[c].uid = 0 THEN ds[c].uid = cobj.uid
          ELSE ds[c].uid = 0 \/ ds[c].gen = cobj.gen
    /\ c = "retry" /\ HasWebhook(cobj.spec) => wh

\* The component's condition, and what the agent's DaemonSet says of the whole.
Conditions(status, c) == c \in status.ready <=> Enabled(c, cobj.spec)
Counted(status) ==
    /\ status.observed = cobj.gen
    /\ status.available <=> cds["agent"].pods = "ready"
    /\ cds["agent"].pods = "ready" => ~status.degraded
    /\ cds["agent"].pods = "unavailable" => status.degraded
    /\ status.progressing <=> cds["agent"].pods # "ready"

\* Where nothing has come from the watches since the pass began, it works from what the
\* caches have, and what it has come past is applied.
UndisturbedPass ==
    ~queued /\ work.pc \in Deploying =>
        /\ cobj.live /\ cobj.fin /\ ~cobj.deleting
        /\ work.obj.uid = cobj.uid /\ work.obj.gen = cobj.gen /\ work.obj.spec = cobj.spec
        /\ \A c \in Components :
              Past(c, work.pc) => Applied(c) /\ Conditions(work.obj.status, c)
        /\ work.pc \in Components \cup {"count"} => work.obj.status.progressing
        /\ work.pc = "write" => Counted(work.obj.status)

UndisturbedDeletion ==
    ~queued /\ work.pc \in {"cleanup", "unfinalize"} => cobj.deleting \/ ~cobj.live

\* ... and nothing since it ended: everything is applied and reported.
AtRest ==
    ~queued /\ work.pc = "idle" /\ cobj.live /\ ~cobj.deleting =>
        /\ cobj.fin
        /\ \A c \in Components : Applied(c) /\ Conditions(obj.status, c)
        /\ Counted(obj.status)

\* A spec is one a user gave, or what became of one when it was stored.
SpecOfUser == obj.spec.mode = "sidecar" => "retry" \in Components

RestInv == UndisturbedPass /\ UndisturbedDeletion /\ AtRest /\ SpecOfUser

LEMMA SpecsOfUsers == \A s \in Specs \cup {SomeSpec} : s.mode = "sidecar" => "retry" \in Components
BY SpecsAssumption, SidecarAssumption DEF SomeSpec

LEMMA StepsDiffer ==
    /\ \A pc \in Deploying : pc \notin {"idle", "cleanup", "unfinalize", "admit"}
    /\ Components \cup {"count", "write", "fail"} = Deploying
    /\ Components \cap {"count", "write", "fail"} = {}
BY ComponentsAssumption DEF Deploying

LEMMA InitRest == Init => RestInv
<1>1. Gone(0).live = FALSE /\ Gone(0).spec = SomeSpec
  BY GoneType
<1> QED
  BY <1>1, SpecsOfUsers, IdleType, StepsDiffer
     DEF Init, RestInv, UndisturbedPass, UndisturbedDeletion, AtRest, SpecOfUser

\* With the key in the queue there is nothing to say.
LEMMA QueuedRest == ASSUME queued', SpecOfUser' PROVE RestInv'
BY DEF RestInv, UndisturbedPass, UndisturbedDeletion, AtRest

LEMMA AppliedStays ==
    ASSUME NEW c \in Components, Applied(c), UNCHANGED <<cobj, cds>>, wh => wh',
           \/ ds'[c].uid = ds[c].uid /\ ds'[c].gen = ds[c].gen
           \/ ds'[c].uid = 0 /\ ds[c].uid # cobj.uid
    PROVE  Applied(c)'
BY DEF Applied

\* Steps of others that leave caches, queue and worker alone, and of the driver its
\* spec and, while it is there, its status.
LEMMA OthersRest ==
    ASSUME TypeOK, PassInv, RestInv, UNCHANGED <<cobj, cds, queued, work, wh>>, SpecOfUser',
           obj.live /\ obj.fin => obj'.status = obj.status,
           \A c \in Components :
              \/ ds'[c].uid = ds[c].uid /\ ds'[c].gen = ds[c].gen
              \/ ds'[c].uid = 0 /\ ~(obj.live /\ ds[c].uid = obj.uid)
    PROVE  RestInv'
<1>1. ASSUME cobj.live, cobj.fin, ~cobj.deleting, NEW c \in Components, Applied(c)
      PROVE  Applied(c)'
  <2>1. obj.live /\ obj.uid = cobj.uid
    BY <1>1 DEF PassInv, FinalizerHolds
  <2> QED
    BY <1>1, <2>1, AppliedStays
<1>2. UndisturbedPass'
  BY <1>1 DEF RestInv, UndisturbedPass, Conditions, Counted
<1>3. AtRest'
  <2>1. ASSUME ~queued, work.pc = "idle", cobj.live, ~cobj.deleting
        PROVE  cobj.fin /\ obj'.status = obj.status
    BY <2>1 DEF RestInv, AtRest, PassInv, FinalizerHolds
  <2> QED
    BY <1>1, <2>1 DEF RestInv, AtRest, Conditions, Counted
<1> QED
  BY <1>2, <1>3 DEF RestInv, UndisturbedDeletion

LEMMA UsersRest == ASSUME TypeOK, PassInv, RestInv, Users PROVE RestInv'
<1>a. UNCHANGED <<cobj, cds, queued, work, wh, ds>> /\ obj \in CXIDriver
  BY DEF Users, CreateDriver, EditSpec, DeleteDriver, watches, TypeOK
<1>1. ASSUME NEW s \in Specs, CreateDriver(s) PROVE RestInv'
  <2>1. obj.uid + 1 \in Nat /\ s \in DriverSpec
    BY Numbers, SpecsAssumption
  <2>2. obj'.spec = s /\ ~obj.live
    BY <1>1, <2>1, BornType DEF CreateDriver
  <2> QED
    BY <1>a, <2>2, SpecsOfUsers, OthersRest DEF SpecOfUser
<1>2. ASSUME NEW s \in Specs, EditSpec(s) PROVE RestInv'
  <2>1. obj'.spec = s /\ obj'.status = obj.status
    BY <1>2, <1>a DEF EditSpec, CXIDriver
  <2> QED
    BY <1>a, <2>1, SpecsOfUsers, OthersRest DEF SpecOfUser
<1>3. CASE DeleteDriver
  <2>1. \/ obj' = [obj EXCEPT !.deleting = TRUE]
        \/ ~obj.fin /\ obj' = Gone(obj.uid)
    BY <1>3 DEF DeleteDriver
  <2>2. /\ obj'.spec = obj.spec \/ obj'.spec = SomeSpec
        /\ obj.fin => obj'.status = obj.status
    BY <1>a, <2>1, Numbers, GoneType DEF CXIDriver
  <2>3. SpecOfUser'
    BY <2>2, SpecsOfUsers DEF RestInv, SpecOfUser
  <2> QED
    BY <1>a, <2>2, <2>3, OthersRest
<1> QED
  BY <1>1, <1>2, <1>3 DEF Users

LEMMA ClusterRest == ASSUME TypeOK, PassInv, RestInv, Cluster PROVE RestInv'
<1>a. UNCHANGED obj
  BY DEF Cluster, ReportPods, CollectGarbage, SyncDaemonSet, SyncDriver, SyncWebhook, Crash, api
<1>b. SpecOfUser'
  BY <1>a DEF RestInv, SpecOfUser
<1>1. ASSUME NEW p \in PodReports, ReportPods(p) PROVE RestInv'
  <2>1. ds["agent"] \in DaemonSet /\ "agent" \in Components /\ ds \in [Components -> DaemonSet]
    BY ComponentsAssumption DEF TypeOK
  <2>2. ds' = [ds EXCEPT !["agent"] = [ds["agent"] EXCEPT !.pods = p]]
    BY <1>1, <2>1 DEF ReportPods
  <2>3. \A c \in Components : ds'[c].uid = ds[c].uid /\ ds'[c].gen = ds[c].gen
    BY <2>1, <2>2 DEF DaemonSet
  <2> QED
    BY <1>1, <1>a, <1>b, <2>3, OthersRest DEF ReportPods, watches
<1>2. ASSUME NEW c \in Components, CollectGarbage(c) PROVE RestInv'
  <2>1. ds' = [ds EXCEPT ![c] = NoDaemonSet] /\ ~(obj.live /\ ds[c].uid = obj.uid)
    BY <1>2 DEF CollectGarbage, Garbage
  <2>2. \A e \in Components : ds'[e] = ds[e] \/ (e = c /\ ds'[e].uid = 0)
    BY <2>1, DaemonSetType DEF TypeOK
  <2> QED
    BY <1>2, <1>a, <1>b, <2>1, <2>2, OthersRest DEF CollectGarbage, watches
<1>3. CASE SyncWebhook
  BY <1>3, <1>a, <1>b, OthersRest DEF SyncWebhook, api
<1>4. CASE SyncDriver \/ \E c \in Components : SyncDaemonSet(c)
  BY <1>4, <1>b, QueuedRest DEF SyncDriver, SyncDaemonSet
<1>5. CASE Crash
  <2>1. work'.pc = "idle" /\ (queued' \/ ~cobj'.live)
    BY <1>5, IdleType DEF Crash
  <2> QED
    BY <1>b, <2>1, StepsDiffer
       DEF RestInv, UndisturbedPass, UndisturbedDeletion, AtRest
<1> QED
  BY <1>1, <1>2, <1>3, <1>4, <1>5 DEF Cluster

LEMMA NothingPastAgent == \A c \in Components : ~Past(c, "agent")
BY RankValues, RanksDiffer DEF Past

LEMMA DequeueRest == ASSUME TypeOK, PassInv, RestInv, Dequeue PROVE RestInv'
<1>a. UNCHANGED <<obj, cobj>> /\ SpecOfUser'
  BY DEF Dequeue, api, watches, RestInv, SpecOfUser
<1>1. CASE /\ UNCHANGED work /\ work.pc = "idle"
           /\ ~cobj.live \/ (cobj.deleting /\ ~cobj.fin)
  BY <1>a, <1>1, StepsDiffer DEF RestInv, UndisturbedPass, UndisturbedDeletion, AtRest
<1>2. CASE work'.pc = "cleanup" /\ cobj.deleting
  BY <1>a, <1>2, StepsDiffer DEF RestInv, UndisturbedPass, UndisturbedDeletion, AtRest
<1>3. CASE work'.pc = "admit"
  BY <1>a, <1>3, StepsDiffer DEF RestInv, UndisturbedPass, UndisturbedDeletion, AtRest
<1>4. CASE /\ work'.obj.uid = cobj.uid /\ work'.obj.gen = cobj.gen
           /\ work'.obj.spec = cobj.spec /\ work'.obj.status.progressing
           /\ cobj.live /\ ~cobj.deleting /\ cobj.fin
           /\ work'.pc = "agent"
  BY <1>a, <1>4, NothingPastAgent, StepsDiffer
     DEF RestInv, UndisturbedPass, UndisturbedDeletion, AtRest
<1> QED
  BY <1>1, <1>2, <1>3, <1>4, DequeueSteps

\* A pass that failed is written down and taken up again.
LEMMA FailRest ==
    ASSUME TypeOK, RestInv, NEW c \in Components, work.pc = c, ComponentFailed(c),
           UNCHANGED <<obj, watches>>
    PROVE  RestInv'
<1>1. work'.pc = "fail" /\ SameDriver /\ UNCHANGED queued
  BY FailedSteps
<1>2. work.pc \in Deploying /\ "fail" \in Deploying /\ \A e \in Components : ~Past(e, "fail")
  BY StepsDiffer DEF Past
<1>3. UndisturbedPass'
  BY <1>1, <1>2, StepsDiffer DEF RestInv, UndisturbedPass, SameDriver, watches
<1> QED
  BY <1>1, <1>3 DEF RestInv, UndisturbedDeletion, AtRest, SpecOfUser

\* A component that was dealt with is past.
LEMMA ProceedRest ==
    ASSUME TypeOK, RestInv, NEW c \in Components, work.pc = c, Proceed(c),
           UNCHANGED <<obj, watches>>, wh => wh',
           \A e \in Components \ {c} : ds'[e] = ds[e],
           ~queued => Applied(c)'
    PROVE  RestInv'
<1>1. /\ work'.pc = After(c) /\ SameDriver /\ UNCHANGED queued
      /\ \A e \in Components :
            e \in work'.obj.status.ready <=>
                IF e = c THEN Enabled(c, work.obj.spec) ELSE e \in work.obj.status.ready
      /\ work'.obj.status.progressing = work.obj.status.progressing
  BY ProceedSteps
<1>2. After(c) \in Deploying /\ After(c) # "write"
  BY AfterType, StepsDiffer
<1>3. work.pc \in Deploying
  BY StepsDiffer
<1>4. UndisturbedPass'
  <2> SUFFICES ASSUME ~queued
               PROVE  UndisturbedPass'
    BY <1>1 DEF UndisturbedPass
  <2>1. /\ cobj.live /\ cobj.fin /\ ~cobj.deleting
        /\ work.obj.uid = cobj.uid /\ work.obj.gen = cobj.gen /\ work.obj.spec = cobj.spec
        /\ work.obj.status.progressing
        /\ \A e \in Components : Past(e, c) => Applied(e) /\ Conditions(work.obj.status, e)
    BY <1>3 DEF RestInv, UndisturbedPass
  <2>2. ASSUME NEW e \in Components, Past(e, After(c))
        PROVE  Applied(e)' /\ Conditions(work.obj.status, e)'
    <3>1. CASE e = c
      BY <1>1, <2>1, <3>1 DEF Conditions, watches
    <3>2. CASE e # c
      <4>1. Applied(e) /\ Conditions(work.obj.status, e)
        BY <2>1, <2>2, <3>2, AfterIsNext
      <4>2. Applied(e)'
        BY <3>2, <4>1, AppliedStays DEF watches
      <4> QED
        BY <1>1, <3>2, <4>1, <4>2 DEF Conditions, watches
    <3> QED
      BY <3>1, <3>2
  <2> QED
    BY <1>1, <1>2, <2>1, <2>2 DEF UndisturbedPass, SameDriver, watches
<1> QED
  BY <1>1, <1>2, <1>4, StepsDiffer DEF RestInv, UndisturbedDeletion, AtRest, SpecOfUser

LEMMA ReconcileRest == ASSUME TypeOK, PassInv, RestInv, Reconcile PROVE RestInv'
<1>a. /\ UNCHANGED watches /\ obj \in CXIDriver /\ work \in Work
      /\ work.obj \in CXIDriver /\ work.pc \in Steps /\ ds \in [Components -> DaemonSet]
  BY DEF Reconcile, Cleanup, RemoveFinalizer, AddFinalizer, ApplyDaemonSet, SkipComponent,
     ApplyWebhook, CountNodes, WriteStatus, TypeOK, Work
<1>b. UNCHANGED obj => SpecOfUser'
  BY DEF RestInv, SpecOfUser
<1>c. UNCHANGED <<obj, watches>> /\ ~queued /\ work.pc \in Deploying =>
        work.obj.uid = cobj.uid /\ work.obj.gen = cobj.gen /\ work.obj.spec = cobj.spec
  BY DEF RestInv, UndisturbedPass
<1>1. CASE Cleanup
  <2>1. ASSUME Goto("unfinalize") PROVE RestInv'
    <3>1. "unfinalize" \in Steps
      BY DEF Steps
    <3>2. work'.pc = "unfinalize" /\ UNCHANGED <<obj, queued>> /\ work.pc = "cleanup"
      BY <1>1, <2>1, <3>1, GotoSteps DEF Cleanup, Goto
    <3> QED
      BY <1>a, <1>b, <3>2, StepsDiffer
         DEF RestInv, UndisturbedPass, UndisturbedDeletion, AtRest, watches
  <2>2. ASSUME Requeue PROVE RestInv'
    BY <1>1, <1>b, <2>2, QueuedRest DEF Cleanup, Requeue
  <2> QED
    BY <1>1, <2>1, <2>2 DEF Cleanup
<1>2. CASE RemoveFinalizer
  <2>1. SpecOfUser'
    <3>1. UNCHANGED obj \/ obj'.spec = SomeSpec
      BY <1>2, Numbers, GoneType DEF RemoveFinalizer
    <3> QED
      BY <1>b, <3>1, SpecsOfUsers DEF SpecOfUser
  <2>2. ASSUME Requeue PROVE RestInv'
    BY <2>1, <2>2, QueuedRest DEF Requeue
  <2>3. ASSUME Finish PROVE RestInv'
    <3>1. work'.pc = "idle" /\ UNCHANGED queued /\ work.pc = "unfinalize"
      BY <1>2, <2>3, IdleType DEF RemoveFinalizer, Finish
    <3> QED
      BY <1>a, <2>1, <3>1, StepsDiffer
         DEF RestInv, UndisturbedPass, UndisturbedDeletion, AtRest, watches
  <2> QED
    BY <1>2, <2>2, <2>3 DEF RemoveFinalizer
<1>3. CASE AddFinalizer
  <2>1. obj'.spec = obj.spec \/ obj'.spec = Stored(obj.spec)
    BY <1>3, <1>a DEF AddFinalizer, CXIDriver
  <2>2. Stored(obj.spec).mode = obj.spec.mode
    BY <1>a DEF Stored, CXIDriver, DriverSpec
  <2>3. SpecOfUser'
    BY <2>1, <2>2 DEF RestInv, SpecOfUser
  <2> QED
    BY <1>3, <2>3, QueuedRest DEF AddFinalizer, Requeue
<1>4. ASSUME NEW c \in Components, ApplyDaemonSet(c) PROVE RestInv'
  <2>1. /\ UNCHANGED <<obj, wh>> /\ work.pc = c /\ HasDaemonSet(c, work.obj.spec)
        /\ \/ UNCHANGED ds /\ ComponentFailed(c)
           \/ cds[c] = ds[c] /\ ds' = [ds EXCEPT ![c] = Built(c)] /\ Goes(c)
    BY <1>4, ApplySteps
  <2>2. ASSUME ComponentFailed(c) PROVE RestInv'
    BY <1>a, <2>1, <2>2, FailRest
  <2>3. ASSUME Proceed(c), ds' = [ds EXCEPT ![c] = Built(c)] PROVE RestInv'
    <3>1. \A e \in Components : ds'[e] = IF e = c THEN Built(c) ELSE ds[e]
      BY <1>a, <2>3
    <3>2. ~queued => Applied(c)'
      <4>1. ~queued => work.obj.uid = cobj.uid /\ work.obj.gen = cobj.gen
                       /\ work.obj.spec = cobj.spec
        BY <1>a, <1>c, <2>1, StepsDiffer
      <4>2. c = "retry" => ~HasWebhook(work.obj.spec)
        BY <2>1 DEF HasDaemonSet, HasWebhook
      <4> QED
        BY <1>a, <3>1, <4>1, <4>2, BuiltType DEF Applied, watches
    <3> QED
      BY <1>a, <2>1, <2>3, <3>1, <3>2, ProceedRest
  <2> QED
    BY <2>1, <2>2, <2>3, ApplySteps, <1>4 DEF Goes, ApplyDaemonSet
<1>5. ASSUME NEW c \in Components, SkipComponent(c) PROVE RestInv'
  <2>1. /\ UNCHANGED <<obj, ds, wh>> /\ work.pc = c /\ Proceed(c)
        /\ ~HasDaemonSet(c, work.obj.spec) /\ (c = "retry" => ~HasWebhook(work.obj.spec))
    BY <1>5 DEF SkipComponent, api
  <2>2. ~queued => Applied(c)'
    BY <1>a, <1>c, <2>1, StepsDiffer DEF Applied, watches
  <2> QED
    BY <1>a, <2>1, <2>2, ProceedRest
<1>6. CASE ApplyWebhook
  <2>1. /\ "retry" \in Components /\ UNCHANGED <<obj, ds>> /\ work.pc = "retry"
        /\ HasWebhook(work.obj.spec)
        /\ ComponentFailed("retry") \/ (Proceed("retry") /\ wh' = TRUE)
    BY <1>6, <1>a DEF ApplyWebhook, Steps, Deploying
  <2>2. ASSUME ComponentFailed("retry") PROVE RestInv'
    BY <1>a, <2>1, <2>2, FailRest
  <2>3. ASSUME Proceed("retry"), wh' = TRUE PROVE RestInv'
    <3>1. ~HasDaemonSet("retry", work.obj.spec)
      BY <2>1 DEF HasDaemonSet, HasWebhook
    <3>2. ~queued => Applied("retry")'
      BY <1>a, <1>c, <2>1, <2>3, <3>1, StepsDiffer DEF Applied, watches
    <3> QED
      BY <1>a, <2>1, <2>3, <3>2, ProceedRest
  <2> QED
    BY <2>1, <2>2, <2>3
<1>7. CASE CountNodes
  <2>1. /\ UNCHANGED <<obj, ds, wh, queued>> /\ work.pc = "count" /\ work'.pc = "write"
        /\ SameDriver
        /\ work'.obj.status.ready = work.obj.status.ready
        /\ work'.obj.status.observed = work.obj.gen
        /\ work'.obj.status.available <=> cds["agent"].pods = "ready"
        /\ cds["agent"].pods = "ready" => ~work'.obj.status.degraded
        /\ cds["agent"].pods = "unavailable" => work'.obj.status.degraded
        /\ work.obj.status.progressing =>
              (work'.obj.status.progressing <=> cds["agent"].pods # "ready")
    BY <1>7, CountSteps DEF CountNodes, api
  <2>2. \A c \in Components : Past(c, "count")
    BY DEF Past
  <2>3. UndisturbedPass'
    BY <1>a, <2>1, <2>2, StepsDiffer
       DEF RestInv, UndisturbedPass, SameDriver, Applied, Conditions, Counted, watches
  <2> QED
    BY <1>a, <1>b, <2>1, <2>3, StepsDiffer DEF RestInv, UndisturbedDeletion, AtRest
<1>8. CASE WriteStatus
  <2>1. /\ UNCHANGED <<ds, wh>> /\ work.pc \in {"write", "fail"}
        /\ \/ obj' = obj
           \/ \E s \in Written(work.obj.status) : obj' = [obj EXCEPT !.status = s]
    BY <1>8 DEF WriteStatus
  <2>2. \A s \in Written(work.obj.status) :
           s \in Status /\ SameConditions(s, work.obj.status)
    BY <1>a, WrittenType DEF CXIDriver
  <2>3. obj'.spec = obj.spec
    <3>1. \A s \in Written(work.obj.status) : [obj EXCEPT !.status = s].spec = obj.spec
      BY <1>a, <2>2, StatusOnly
    <3> QED
      BY <2>1, <3>1
  <2>4. SpecOfUser'
    BY <2>3 DEF RestInv, SpecOfUser
  <2>5. ASSUME Requeue PROVE RestInv'
    BY <2>4, <2>5, QueuedRest DEF Requeue
  <2>6. ASSUME Finish, work.pc = "write",
               NEW s \in Written(work.obj.status), obj' = [obj EXCEPT !.status = s]
        PROVE  RestInv'
    <3>1. work'.pc = "idle" /\ UNCHANGED queued
      BY <2>6, IdleType DEF Finish
    <3>2. SameConditions(obj'.status, work.obj.status)
      BY <1>a, <2>2, <2>6, StatusOnly
    <3>3. \A c \in Components : Past(c, "write")
      BY DEF Past
    <3>4. AtRest'
      <4> SUFFICES ASSUME ~queued PROVE AtRest'
        BY <3>1 DEF AtRest
      <4>1. /\ cobj.live /\ cobj.fin /\ ~cobj.deleting
            /\ \A c \in Components : Applied(c) /\ Conditions(work.obj.status, c)
            /\ Counted(work.obj.status)
        BY <2>6, <3>3, StepsDiffer DEF RestInv, UndisturbedPass
      <4> QED
        BY <1>a, <2>1, <3>2, <4>1
           DEF AtRest, Applied, Conditions, Counted, SameConditions, watches
    <3> QED
      BY <2>4, <3>1, <3>4, StepsDiffer DEF RestInv, UndisturbedPass, UndisturbedDeletion
  <2> QED
    BY <1>8, <2>5, <2>6 DEF WriteStatus
<1> QED
  BY <1>1, <1>2, <1>3, <1>4, <1>5, <1>6, <1>7, <1>8 DEF Reconcile

LEMMA RestInvariant == Spec => []RestInv
<1>1. ASSUME TypeOK, PassInv, RestInv, UNCHANGED vars PROVE RestInv'
  BY <1>1 DEF vars, RestInv, UndisturbedPass, UndisturbedDeletion, AtRest, SpecOfUser, Applied,
     Conditions, Counted
<1>2. TypeOK /\ PassInv /\ RestInv /\ [Next]_vars => RestInv'
  BY <1>1, UsersRest, ClusterRest, DequeueRest, ReconcileRest DEF Next
<1> QED
  BY <1>2, InitRest, PassInvariant, ReconcileTypeCorrect, PTL DEF Spec

LEMMA SettledIsAtRest ==
    ASSUME RestInv, Settled, Usable
    PROVE  /\ obj.fin /\ cobj = obj /\ cds = ds
           /\ \A c \in Components : Applied(c) /\ Conditions(obj.status, c) /\ ~Garbage(c)
           /\ Counted(obj.status)
BY DEF RestInv, AtRest, Settled, Usable

\* No wakeup is lost: when queue, worker and caches have come to rest, the spec's last
\* generation is deployed, and by this incarnation of the CXIDriver.
THEOREM RestIsDeployed == Spec => []SettledIsDeployed
<1>1. ASSUME TypeOK, PassInv, RestInv, Settled, Usable
      PROVE  /\ \A c \in Components : HasDaemonSet(c, obj.spec) =>
                   ds[c].uid = obj.uid /\ ds[c].gen = obj.gen
             /\ HasWebhook(obj.spec) => wh
  <2>1. ASSUME NEW c \in Components, HasDaemonSet(c, obj.spec)
        PROVE  ds[c].uid = obj.uid /\ ds[c].gen = obj.gen
    <3>1. obj.live /\ obj.uid # 0
      BY <1>1, Numbers DEF Usable, PassInv, CopiesAreOld
    <3>2. IF ds[c].uid = 0 THEN ds[c].uid = obj.uid ELSE ds[c].uid = 0 \/ ds[c].gen = obj.gen
      BY <1>1, <2>1, SettledIsAtRest DEF Applied
    <3>3. ds[c].uid # 0 => ds[c].uid = obj.uid
      BY <1>1, <3>1, SettledIsAtRest DEF Garbage
    <3> QED
      BY <3>1, <3>2, <3>3
  <2>2. ASSUME HasWebhook(obj.spec) PROVE wh
    <3>1. "retry" \in Components
      BY <1>1, <2>2 DEF RestInv, SpecOfUser, HasWebhook
    <3> QED
      BY <1>1, <2>2, <3>1, SettledIsAtRest DEF Applied
  <2> QED
    BY <2>1, <2>2
<1>2. TypeOK /\ PassInv /\ RestInv => SettledIsDeployed
  BY <1>1 DEF SettledIsDeployed
<1> QED
  BY <1>2, RestInvariant, PassInvariant, ReconcileTypeCorrect, PTL

\* ... and the status that was written says what is so: of this generation, with the
\* conditions of the driver agent's pods and of every component.
THEOREM RestIsReported == Spec => []SettledIsReported
<1>1. ASSUME TypeOK, RestInv, Settled, Usable
      PROVE  /\ obj.status.observed = obj.gen
             /\ obj.status.available <=> ds["agent"].pods = "ready"
             /\ ds["agent"].pods = "ready" => ~obj.status.degraded
             /\ ds["agent"].pods = "unavailable" => obj.status.degraded
             /\ obj.status.progressing <=> ds["agent"].pods # "ready"
             /\ obj.status.ready = {c \in Components : Enabled(c, obj.spec)}
  <2>1. Counted(obj.status) /\ cobj = obj /\ cds = ds
        /\ \A c \in Components : Conditions(obj.status, c)
    BY <1>1, SettledIsAtRest
  <2>2. obj.status.ready \subseteq Components
    BY <1>1 DEF TypeOK, CXIDriver, Status
  <2>3. obj.status.ready = {c \in Components : Enabled(c, obj.spec)}
    BY <2>1, <2>2 DEF Conditions
  <2> QED
    BY <2>1, <2>3 DEF Counted
<1>2. TypeOK /\ RestInv => SettledIsReported
  BY <1>1 DEF SettledIsReported
<1> QED
  BY <1>2, RestInvariant, ReconcileTypeCorrect, PTL
=============================================================================
