-------------------------- MODULE ComponentConfig --------------------------
(***************************************************************************)
(* What becomes of a CXIDriver's settings.  A spec passes admission, the   *)
(* operator writes it back with its finalizer, through admission again,    *)
(* its build functions put the settings into the templates of DaemonSets,  *)
(* as environment variables or arguments, the DaemonSet controller starts  *)
(* pods from these templates, and the component's main reads its flags.    *)
(* In sidecar mode a webhook configuration takes the place of the retry    *)
(* handler's DaemonSet, and the pods of users pass the injector.  The spec *)
(* is edited, and the driver deleted, while older pods still run.          *)
(*                                                                         *)
(* CXIDriverReconcile says when templates are written, with failing calls  *)
(* and stale caches; here every template follows the spec, one at a time.  *)
(***************************************************************************)
EXTENDS DriverValidator, SidecarInjector

CONSTANTS
    Components,  \* the components of the node that are looked at
    Manifests,   \* the specs that users write
    PodSpecs,    \* the pods that users create
    Labels,      \* the labels of their namespaces that ask for injection
    MaxEdits     \* bound: creations and edits of the driver, and its deletions

ASSUME ComponentsAssumption == Components \subseteq {"agent", "plugin", "handler", "exporter"}
ASSUME ManifestsAssumption == Manifests \subseteq CXIDriverSpec
\* Two containers of a pod never have the same name.
ASSUME PodSpecsAssumption == PodSpecs \subseteq {p \in Pod : p.sidecars <= 1}
ASSUME LabelsAssumption == Labels \subseteq {"true", "enabled"}
ASSUME MaxEditsAssumption == MaxEdits \in Nat

VARIABLES
    spec,        \* the CXIDriver's spec
    life,        \* the CXIDriver: none, new (without finalizer), managed or deleting
    checked,     \* the user's last write of the spec went through the validator
    validating,  \* the validating webhook is registered
    webhook,     \* the driver's MutatingWebhookConfiguration exists
    template,    \* the template of each component's DaemonSet
    process,     \* the configuration each component runs with on the node
    deployed,    \* status.driverVersion
    edits,       \* edits made so far
    install,     \* how the operator was installed: with kustomize or its chart
    decoder,     \* the injector has a decoder
    pod          \* a pod on its way through admission

driver == <<spec, life, checked, deployed>>
nodes == <<template, process>>
pods == <<install, decoder, pod>>
vars == <<driver, validating, webhook, nodes, edits, pods>>

-----------------------------------------------------------------------------
\* The component has no DaemonSet, or no process.
Absent == [state |-> "absent"]

(* The templates. *)

BuildDriverAgent(s) ==
    [state |-> "set", env |-> [CXI_DRIVER_VERSION |-> s.version,
                               DRIVER_SOURCE_TYPE |-> s.source,
                               DKMS_TAG |-> s.tag]]

BuildDevicePlugin(s) ==
    IF s.plugin THEN [state |-> "set", env |-> [SHARING_MODE |-> s.sharing]] ELSE Absent

\* The mode in which a retry handler runs on every node.
OnEveryNode(s) == s.mode \in {"daemonset", ""}

BuildRetryHandler(s) ==
    IF s.retry /\ OnEveryNode(s)
    THEN [state |-> "set", args |-> {"mode", "discover"}]
    ELSE Absent

\* Slip: the handler is asked whatever its mode is.
BuildMetricsExporterAsking(s) ==
    IF s.exporter THEN [state |-> "set", args |-> [port |-> s.port, url |-> "handler"]]
                  ELSE Absent

\* The exporter is told of the handler of its node, if that is its mode; without a
\* retry handler the argument is left out.
BuildMetricsExporter(s) ==
    IF s.exporter
    THEN [state |-> "set", args |-> [port |-> Default(s.port, 0, 9090),
                                     url |-> IF ~s.retry THEN "unset"
                                             ELSE IF OnEveryNode(s) THEN "handler" ELSE ""]]
    ELSE Absent

\* Build is what the spec makes of a component.
Build(c, s) ==
    CASE c = "agent" -> BuildDriverAgent(s)
      [] c = "plugin" -> BuildDevicePlugin(s)
      [] c = "handler" -> BuildRetryHandler(s)
      [] c = "exporter" -> BuildMetricsExporter(s)

(* The mains. *)

\* Of the environment only the tag is a flag's default; the version is not read.
DriverAgentMain(t) ==
    [state |-> "up", source |-> "preinstalled", tag |-> t.env.DKMS_TAG,
     version |-> t.env.CXI_DRIVER_VERSION]

\* The flags alone count, and the template has no arguments.
DevicePluginMain(t) == [state |-> "up", sharing |-> "shared"]

\* The flags main defines; the process ends at another one.
RetryHandlerFlags == {"mode", "device", "cxi-rh-path", "health-port"}
RetryHandlerMain(t) ==
    [state |-> IF t.args \subseteq RetryHandlerFlags THEN "up" ELSE "exited"]

\* The argument's default is the address of the handler.
MetricsExporterMain(t) == [state |-> "up", port |-> t.args.port, asks |-> t.args.url # ""]

Main(c, t) ==
    IF t = Absent THEN Absent
    ELSE CASE c = "agent" -> DriverAgentMain(t)
           [] c = "plugin" -> DevicePluginMain(t)
           [] c = "handler" -> RetryHandlerMain(t)
           [] c = "exporter" -> MetricsExporterMain(t)

-----------------------------------------------------------------------------
NoPod == [state |-> "none"]

\* A driver has been created, before or after the validator was registered.
Init ==
    /\ validating \in BOOLEAN /\ checked = validating
    /\ spec \in Manifests /\ (validating => Valid(spec))
    /\ life = "new" /\ deployed = NoVersion
    /\ webhook = FALSE
    /\ template = [c \in Components |-> Absent]
    /\ process = [c \in Components |-> Absent]
    /\ edits = 0
    /\ install \in {"kustomize", "chart"} /\ decoder = FALSE /\ pod = NoPod

-----------------------------------------------------------------------------
(* What users and administrators do. *)

\* A write of the driver passes the validator wherever it comes from.
Admits(s) == validating => Valid(s)

\* A new driver, once nothing is left of the last one.
Create(s) ==
    /\ life = "none" /\ edits < MaxEdits
    /\ template = [c \in Components |-> Absent]
    /\ Admits(s)
    /\ spec' = s /\ life' = "new" /\ checked' = validating
    /\ edits' = edits + 1
    /\ UNCHANGED <<deployed, validating, webhook, nodes, pods>>

EditSpec(s) ==
    /\ life # "none" /\ edits < MaxEdits
    /\ s # spec /\ Admits(s)
    /\ spec' = s /\ checked' = validating
    /\ edits' = edits + 1
    /\ UNCHANGED <<life, deployed, validating, webhook, nodes, pods>>

\* Only a finalizer keeps a deleted driver.
Delete ==
    /\ life \in {"new", "managed"} /\ edits < MaxEdits
    /\ life' = IF life = "new" THEN "none" ELSE "deleting"
    /\ edits' = edits + 1
    /\ UNCHANGED <<spec, checked, deployed, validating, webhook, nodes, pods>>

RegisterValidator ==
    /\ ~validating
    /\ validating' = TRUE
    /\ UNCHANGED <<driver, webhook, nodes, edits, pods>>

-----------------------------------------------------------------------------
(* The operator. *)

\* The update that adds the finalizer writes the whole driver; denied, it is retried.
AddFinalizer ==
    /\ life = "new"
    /\ Admits(Stored(spec))
    /\ spec' = Stored(spec) /\ life' = "managed"
    /\ UNCHANGED <<checked, deployed, validating, webhook, nodes, edits, pods>>

\* Slip: the template is created and never updated.
ApplyOnce(c) ==
    /\ life = "managed"
    /\ template[c] = Absent
    /\ Build(c, spec) # Absent
    /\ template' = [template EXCEPT ![c] = Build(c, spec)]
    /\ UNCHANGED <<driver, validating, webhook, process, edits, pods>>

\* A DaemonSet that the spec no longer asks for stays as it was.
Apply(c) ==
    /\ life = "managed"
    /\ Build(c, spec) \notin {Absent, template[c]}
    /\ template' = [template EXCEPT ![c] = Build(c, spec)]
    /\ UNCHANGED <<driver, validating, webhook, process, edits, pods>>

WantsWebhook(s) == s.retry /\ s.mode = "sidecar"

\* So does the webhook configuration.
ApplyWebhook ==
    /\ life = "managed"
    /\ WantsWebhook(spec) /\ ~webhook
    /\ webhook' = TRUE
    /\ UNCHANGED <<driver, validating, nodes, edits, pods>>

\* The end of a pass, with everything in place: the status names the spec's version.
UpdateStatus ==
    /\ life = "managed"
    /\ \A c \in Components : Build(c, spec) \in {Absent, template[c]}
    /\ WantsWebhook(spec) => webhook
    /\ deployed # spec.version
    /\ deployed' = spec.version
    /\ UNCHANGED <<spec, life, checked, validating, webhook, nodes, edits, pods>>

\* cleanupResources, which looks at the mode of the moment, and the update that
\* removes the finalizer, which writes the whole driver too.
Finalize ==
    /\ life = "deleting"
    /\ webhook' = (webhook /\ spec.mode # "sidecar")
    /\ IF Admits(Stored(spec))
       THEN life' = "none" /\ deployed' = NoVersion
       ELSE webhook # webhook' /\ UNCHANGED <<life, deployed>>
    /\ UNCHANGED <<spec, checked, validating, nodes, edits, pods>>

-----------------------------------------------------------------------------
(* The cluster. *)

\* The DaemonSets of a driver that is gone are collected.
Collect(c) ==
    /\ life = "none"
    /\ template[c] # Absent
    /\ template' = [template EXCEPT ![c] = Absent]
    /\ UNCHANGED <<driver, validating, webhook, process, edits, pods>>

\* A pod of the template replaces the one of an older template.
RollOut(c) ==
    /\ process[c] # Main(c, template[c])
    /\ process' = [process EXCEPT ![c] = Main(c, template[c])]
    /\ UNCHANGED <<driver, validating, webhook, template, edits, pods>>

-----------------------------------------------------------------------------
(* Admission of a pod. *)

\* A method of the injector that no program calls; it would be called before the first
\* request is served.
InjectDecoder ==
    /\ ~decoder /\ pod = NoPod
    /\ decoder' = TRUE
    /\ UNCHANGED <<driver, validating, webhook, nodes, edits, install, pod>>

\* The configurations that select a pod: one that is installed with the operator, for
\* one value of the label, and the driver's.
Configurations(label) ==
    {c \in {"installed", "driver"} : IF c = "installed" THEN label = "true" ELSE webhook}

CreatePod(p, label) ==
    /\ pod = NoPod
    /\ Configurations(label) # {}
    /\ pod' = [state |-> "asked", is |-> p, due |-> Configurations(label), again |-> FALSE]
    /\ UNCHANGED <<driver, validating, webhook, nodes, edits, install, decoder>>

(***************************************************************************)
(* A call of the injector.  Without a decoder it panics, which is answered *)
(* with an error, and an answer that is an error rejects the pod.  The     *)
(* driver's configuration names a service that the chart does not create.  *)
(***************************************************************************)
CallInjector(c) ==
    /\ pod.state = "asked" /\ c \in pod.due
    /\ c = "driver" => install = "kustomize"
    /\ pod' = IF decoder THEN [pod EXCEPT !.is = Handle(@), !.due = @ \ {c}]
                         ELSE [pod EXCEPT !.state = "rejected", !.due = {}]
    /\ UNCHANGED <<driver, validating, webhook, nodes, edits, install, decoder>>

\* A call that fails is ignored; so is one for a path without a handler.
IgnoreFailure(c) ==
    /\ pod.state = "asked" /\ c \in pod.due
    /\ pod' = [pod EXCEPT !.due = @ \ {c}]
    /\ UNCHANGED <<driver, validating, webhook, nodes, edits, install, decoder>>

\* Another webhook changed the pod: the chart's configuration is called once more.
Reinvoke ==
    /\ pod.state = "asked" /\ pod.due = {} /\ ~pod.again
    /\ install = "chart"
    /\ pod' = [pod EXCEPT !.due = {"installed"}, !.again = TRUE]
    /\ UNCHANGED <<driver, validating, webhook, nodes, edits, install, decoder>>

AdmitPod ==
    /\ pod.state = "asked" /\ pod.due = {}
    /\ pod' = [pod EXCEPT !.state = "admitted"]
    /\ UNCHANGED <<driver, validating, webhook, nodes, edits, install, decoder>>

-----------------------------------------------------------------------------
Next ==
    \/ \E s \in Manifests : Create(s) \/ EditSpec(s)
    \/ Delete \/ RegisterValidator
    \/ AddFinalizer \/ ApplyWebhook \/ UpdateStatus \/ Finalize
    \/ \E c \in Components : Apply(c) \/ RollOut(c) \/ Collect(c)
    \/ InjectDecoder
    \/ \E p \in PodSpecs, label \in Labels : CreatePod(p, label)
    \/ \E c \in {"installed", "driver"} : CallInjector(c) \/ IgnoreFailure(c)
    \/ Reinvoke \/ AdmitPod

Spec == Init /\ [][Next]_vars

\* A denied or failed pass is retried, a pass follows every edit, the cluster rolls
\* DaemonSets out and collects what has no owner.
FairSpec ==
    /\ Spec
    /\ WF_vars(AddFinalizer) /\ WF_vars(ApplyWebhook)
    /\ WF_vars(UpdateStatus) /\ WF_vars(Finalize)
    /\ \A c \in Components :
          WF_vars(Apply(c)) /\ WF_vars(RollOut(c)) /\ WF_vars(Collect(c))

-----------------------------------------------------------------------------
(***************************************************************************)
(* Properties: what becomes of a driver and its settings once users leave  *)
(* it as it is, and of a pod.                                              *)
(***************************************************************************)

\* What admission lets in, the operator can serve: its own writes of a driver that the
\* validator accepted are accepted too, so that the driver comes to be managed and,
\* deleted, to go.  A driver whose source section is left out is an exception: the
\* operator's write makes it one of type dkms without a repository.
AdmittedIsServed ==
    <>[](checked /\ spec.source # "") => <>[](life \in {"managed", "none"})

\* The same without the exception ("Source ... +optional").
AdmittedIsServedAlways == <>[]checked => <>[](life \in {"managed", "none"})

\* The release to build arrives at the driver agent.
ReleaseArrives ==
    <>[](life = "managed") =>
        <>[](process["agent"].state = "up" /\ process["agent"].tag = spec.tag)

\* "Only add retry handler URL if retry handler is in daemonset mode": the exporter
\* comes to ask for a handler in daemonset mode and in no other mode, at its port.
ExporterAsksItsHandler ==
    <>[](life = "managed" /\ spec.exporter /\ spec.retry) =>
        <>[](/\ process["exporter"].state = "up"
             /\ process["exporter"].port = Default(spec.port, 0, 9090)
             /\ process["exporter"].asks <=> OnEveryNode(spec))

\* A pod gets one sidecar, however many configurations and reinvocations ask the
\* injector about it and whatever a copied pod brings along.
OneSidecar == pod.state = "admitted" => pod.is.sidecars <= 1

\* "Inject retry handler into application pods": no pod is refused for it.
PodsAreAdmitted == pod.state # "rejected"

\* A sidecar that was injected serves a device.
SidecarServes ==
    pod.state = "admitted" /\ pod.is.injected /\ pod.is.sidecars > 0 => SidecarRuns(pod.is)

\* "Type specifies how the driver is installed": the source arrives at the agent.
SourceArrives ==
    <>[](life = "managed") =>
        <>[](process["agent"].state = "up" /\ process["agent"].source = spec.source)

\* "SharingMode defines how devices are shared among pods": it arrives at the plugin.
SharingArrives ==
    <>[](life = "managed" /\ spec.plugin) =>
        <>[](process["plugin"].state = "up" /\ process["plugin"].sharing = spec.sharing)

\* "One retry handler pod per node": in daemonset mode a handler comes to run.
HandlerRuns ==
    <>[](life = "managed" /\ spec.retry /\ spec.mode = "daemonset") =>
        <>[](process["handler"].state = "up")

\* "DriverVersion is the currently deployed driver version": the agent that runs was
\* started for it.
VersionIsDeployed ==
    deployed # NoVersion =>
        process["agent"].state = "up" /\ process["agent"].version = deployed
=============================================================================
