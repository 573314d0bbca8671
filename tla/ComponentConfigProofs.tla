----------------------- MODULE ComponentConfigProofs -----------------------
(***************************************************************************)
(* Proofs about the admission of pods, for every set of pods, labels and   *)
(* manifests.                                                              *)
(*                                                                         *)
(* That one sidecar is enough has to hold of a pod before it is admitted:  *)
(* each call of the injector finds a pod with at most one, and adds one    *)
(* only to a pod without.                                                  *)
(***************************************************************************)
EXTENDS ComponentConfig, TLAPS

States == {"none", "asked", "admitted", "rejected"}
Hooks == {"installed", "driver"}

AskedPods ==
    [state : States, is : {p \in Pod : p.sidecars <= 1}, due : SUBSET Hooks, again : BOOLEAN]

PodOK == pod = NoPod \/ pod \in AskedPods

\* A call of the injector keeps a pod one, and leaves it at most one sidecar.
LEMMA HandleKeepsOne ==
    ASSUME NEW p \in Pod, p.sidecars <= 1
    PROVE  Handle(p) \in Pod /\ Handle(p).sidecars <= 1
<1>1. CASE ShouldInject(p) /\ ~AlreadyInjected(p)
  <2>1. p.sidecars = 0
    BY <1>1 DEF AlreadyInjected, Pod
  <2> DEFINE dev == IF p.dev = "absent" THEN "host" ELSE p.dev
             q == [p EXCEPT !.injected = TRUE, !.sidecars = 1, !.dev = dev,
                            !.device = FindCXIDevices(p) # {}]
  <2>2. InjectSidecar(p) = q
    BY <2>1 DEF InjectSidecar
  <2>3. dev \in {"absent", "host", "other"}
    BY DEF Pod
  <2>4. (FindCXIDevices(p) # {}) \in BOOLEAN
    OBVIOUS
  <2> HIDE DEF dev
  <2>5. 1 \in 0..2
    OBVIOUS
  <2>6. q \in Pod
    BY <2>3, <2>4, <2>5, Zenon DEF Pod
  <2>7. q.sidecars = 1
    BY Zenon DEF Pod
  <2> QED
    BY <1>1, <2>2, <2>6, <2>7 DEF Handle
<1>2. CASE ~(ShouldInject(p) /\ ~AlreadyInjected(p))
  BY <1>2 DEF Handle
<1> QED
  BY <1>1, <1>2

\* No pod has been created yet.
LEMMA InitPodOK == Init => PodOK
  BY DEF Init, PodOK

\* Admission keeps it; nothing else changes a pod.
LEMMA StepPodOK == PodOK /\ [Next]_vars => PodOK'
<1> SUFFICES ASSUME PodOK, [Next]_vars PROVE PodOK'
  OBVIOUS
<1> USE DEF PodOK
<1>0. pod.state = "asked" => pod \in AskedPods
  BY DEF NoPod
<1>1. CASE UNCHANGED pods
  BY <1>1 DEF pods
<1>2. ASSUME NEW p \in PodSpecs, NEW label \in Labels, CreatePod(p, label) PROVE PodOK'
  <2>1. p \in Pod /\ p.sidecars <= 1
    BY PodSpecsAssumption
  <2>2. Configurations(label) \subseteq {"installed", "driver"}
    BY DEF Configurations
  <2> QED
    BY <1>2, <2>1, <2>2 DEF CreatePod, AskedPods, States, Hooks
<1>3. ASSUME NEW c \in {"installed", "driver"}, CallInjector(c) PROVE PodOK'
  <2>1. pod \in AskedPods
    BY <1>0, <1>3 DEF CallInjector
  <2>2. pod.is \in Pod /\ pod.is.sidecars <= 1
    BY <2>1 DEF AskedPods
  <2>3. Handle(pod.is) \in {p \in Pod : p.sidecars <= 1}
    BY <2>2, HandleKeepsOne
  <2>4. CASE pod' = [pod EXCEPT !.is = Handle(pod.is), !.due = pod.due \ {c}]
    <3>1. pod.due \ {c} \in SUBSET Hooks
      BY <2>1 DEF AskedPods
    <3> QED
      BY <2>1, <2>3, <2>4, <3>1, Zenon DEF AskedPods
  <2>5. CASE pod' = [pod EXCEPT !.state = "rejected", !.due = {}]
    BY <2>1, <2>5 DEF AskedPods, States
  <2> QED
    BY <1>3, <2>4, <2>5 DEF CallInjector
<1>4. ASSUME NEW c \in {"installed", "driver"}, IgnoreFailure(c) PROVE PodOK'
  BY <1>0, <1>4 DEF IgnoreFailure, AskedPods
<1>5. CASE Reinvoke
  BY <1>0, <1>5 DEF Reinvoke, AskedPods, Hooks
<1>10. CASE AdmitPod
  BY <1>0, <1>10 DEF AdmitPod, AskedPods, States
<1>6. CASE InjectDecoder
  BY <1>6 DEF InjectDecoder
<1>7. ASSUME NEW s \in Manifests, Create(s) \/ EditSpec(s) PROVE UNCHANGED pods
  BY <1>7 DEF Create, EditSpec
<1>8. CASE Delete \/ RegisterValidator \/ AddFinalizer \/ ApplyWebhook \/ UpdateStatus \/ Finalize
  BY <1>1, <1>8 DEF Delete, RegisterValidator, AddFinalizer, ApplyWebhook, UpdateStatus, Finalize
<1>9. ASSUME NEW c \in Components, Apply(c) \/ RollOut(c) \/ Collect(c) PROVE UNCHANGED pods
  BY <1>9 DEF Apply, RollOut, Collect
<1> QED
  BY <1>1, <1>2, <1>3, <1>4, <1>5, <1>6, <1>7, <1>8, <1>9, <1>10 DEF Next, vars

\* Whatever pods are created, whichever configurations call the injector and however
\* often it is reinvoked, an admitted pod has at most one retry handler container.
THEOREM InjectedOnce == Spec => []OneSidecar
<1>1. PodOK => OneSidecar
  BY DEF PodOK, NoPod, AskedPods, OneSidecar
<1> QED
  BY <1>1, InitPodOK, StepPodOK, PTL DEF Spec
=============================================================================
