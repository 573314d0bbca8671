--------------------------- MODULE DriverInstall ---------------------------
(***************************************************************************)
(* How the driver agent brings the CXI driver up on its node: ensureDriver *)
(* in pkg/driveragent/agent.go with the commands of module.go and the      *)
(* downloads of download.go.  The agent goes through the steps of its      *)
(* driver source once, when it starts.  A step that fails ends the         *)
(* attempt; the agent runs on, not ready.                                  *)
(*                                                                         *)
(* The container is killed between any two steps; the DaemonSet is given   *)
(* another release; the node reboots.  What was downloaded and built in    *)
(* the container's /tmp is gone then.  What a step leaves on the host      *)
(* stays: module files in /lib/modules, and the modules the kernel has     *)
(* loaded.                                                                 *)
(***************************************************************************)
EXTENDS SourceArchive

CONSTANTS
    Archives,    \* what the servers of the sources answer with
    Releases,    \* releases of the driver
    None,        \* no release
    Sources,     \* the driver sources the agent may be given
    MaxFailures, \* bound: downloads and commands that fail without a cause
    MaxEdits,    \* bound: changes of the DaemonSet's template
    MaxCrashes   \* bound: deaths of the container and reboots of the node

ASSUME NoneAssumption == None \notin Releases
ASSUME SourcesAssumption == Sources \subseteq {"dkms", "legacy", "prebuilt", "preinstalled"}
ASSUME ArchivesAssumption ==
    \A a \in Archives : /\ a.format \in Formats /\ a.length \in BOOLEAN
                        /\ a.entries \in Seq([path : Seq(STRING), kind : Kinds])
ASSUME InstallBoundsAssumption == {MaxEdits, MaxCrashes, MaxFailures} \subseteq Nat

VARIABLES
    template,  \* the agent's flags: source and release
    agent,     \* the flags it started with, its next step, driverReady, the failure
    srcdir,    \* container: the driver's source directory, and the archive it is from
    file,      \* host: release of each module file
    loaded,    \* host: release of each module the kernel has
    edits, crashes, failures

vars == <<template, agent, srcdir, file, loaded, edits, crashes, failures>>

-----------------------------------------------------------------------------
Modules == {"cxi_ss1", "cxi"}

\* What os.Create leaves until the download is complete.
Partial == "partial"

\* A prebuilt driver is the module cxi.
Module(source) == IF source = "prebuilt" THEN "cxi" ELSE "cxi_ss1"

\* The steps of ensureDriver.  The dependencies are made before the driver is.
Steps(source) ==
    CASE source = "dkms" -> <<"headers", "sbl", "sl", "driver", "add", "build", "install", "load">>
      [] source = "legacy" -> <<"driver", "add", "build", "install", "load">>
      [] source = "prebuilt" -> <<"create", "copy", "depmod", "load">>
      [] source = "preinstalled" -> <<"load">>

\* The steps that begin with the download of an archive.
Downloads == {"headers", "sbl", "sl", "driver"}

NoSource == [archive |-> None]

Flags == [source : Sources, release : Releases]

Started(flags) == [flags |-> flags, next |-> 1, ready |-> FALSE, failed |-> FALSE]

TypeOK ==
    /\ template \in Flags
    /\ agent \in [flags : Flags, next : 1..8, ready : BOOLEAN, failed : BOOLEAN]
    /\ agent.next <= Len(Steps(agent.flags.source))
    /\ ~(agent.ready /\ agent.failed)
    /\ srcdir # NoSource => srcdir.archive \in Archives
    /\ file \in [Modules -> Releases \cup {None, Partial}]
    /\ loaded \in [Modules -> Releases \cup {None}]
    /\ edits \in 0..MaxEdits /\ crashes \in 0..MaxCrashes
    /\ failures \in 0..MaxFailures

\* The node's image may have the driver.
Init ==
    /\ template \in Flags
    /\ agent = Started(template)
    /\ srcdir = NoSource
    /\ \E r \in Releases \cup {None} :
          file = [m \in Modules |-> IF m = "cxi_ss1" THEN r ELSE None]
    /\ loaded = [m \in Modules |-> None]
    /\ edits = 0
    /\ crashes = 0
    /\ failures = 0

-----------------------------------------------------------------------------
(***************************************************************************)
(* The steps of the agent.                                                 *)
(***************************************************************************)

Step == Steps(agent.flags.source)[agent.next]
Release == agent.flags.release
Busy == ~agent.ready /\ ~agent.failed

Advance == agent' = [agent EXCEPT !.next = @ + 1]
Fail == agent' = [agent EXCEPT !.failed = TRUE]

\* The source directory, and for a dependency its build, are new in every attempt.
UseSource(archive, arrived) ==
    IF Prepares(arrived)
    THEN /\ srcdir' = IF Step = "driver"
                      THEN [archive |-> archive, tree |-> Prepared(arrived)] ELSE srcdir
         /\ Advance
    ELSE Fail /\ UNCHANGED srcdir

FetchSource ==
    /\ Busy /\ Step \in Downloads
    /\ \E a \in Archives : UseSource(a, a)
    /\ UNCHANGED <<template, file, loaded, edits, crashes, failures>>

\* The connection ends after some entries.
FetchBreaks ==
    /\ failures < MaxFailures
    /\ failures' = failures + 1
    /\ Busy /\ Step \in Downloads
    /\ \E a \in Archives : \E n \in 0..(Len(a.entries) - 1) :
          IF NoticesEnd(a) THEN Fail /\ UNCHANGED srcdir ELSE UseSource(a, Cut(a, n))
    /\ UNCHANGED <<template, file, loaded, edits, crashes>>

\* dkms add looks for dkms.conf.
AddSource ==
    /\ Busy /\ Step = "add"
    /\ IF <<"dkms.conf">> \in DOMAIN srcdir.tree THEN Advance ELSE Fail
    /\ UNCHANGED <<template, srcdir, file, loaded, edits, crashes, failures>>

\* dkms build, and depmod for a prebuilt module
RunCommand ==
    /\ Busy /\ Step \in {"build", "depmod"}
    /\ Advance
    /\ UNCHANGED <<template, srcdir, file, loaded, edits, crashes, failures>>

\* dkms install
InstallModule ==
    /\ Busy /\ Step = "install"
    /\ file' = [file EXCEPT !["cxi_ss1"] = Release]
    /\ Advance
    /\ UNCHANGED <<template, srcdir, loaded, edits, crashes, failures>>

\* Slip: a file that is there is not downloaded again.
CreateFileUnlessThere ==
    /\ Busy /\ Step = "create"
    /\ IF file["cxi"] = None
       THEN /\ file' = [file EXCEPT !["cxi"] = Partial]
            /\ Advance
       ELSE agent' = [agent EXCEPT !.next = @ + 2] /\ UNCHANGED file
    /\ UNCHANGED <<template, srcdir, loaded, edits, crashes, failures>>

\* downloadFile of the prebuilt module, over the one that is there
CreateFile ==
    /\ Busy /\ Step = "create"
    /\ file' = [file EXCEPT !["cxi"] = Partial]
    /\ Advance
    /\ UNCHANGED <<template, srcdir, loaded, edits, crashes, failures>>

CopyFile ==
    /\ Busy /\ Step = "copy"
    /\ file' = [file EXCEPT !["cxi"] = Release]
    /\ Advance
    /\ UNCHANGED <<template, srcdir, loaded, edits, crashes, failures>>

\* The body ends early, and without a length nobody notices.
CopyBreaks ==
    /\ failures < MaxFailures
    /\ failures' = failures + 1
    /\ Busy /\ Step = "copy"
    /\ Advance
    /\ UNCHANGED <<template, srcdir, file, loaded, edits, crashes>>

Loadable(m) == file[m] \notin {None, Partial}

\* Slip: the driver is ready when its module was built, loaded or not.
LoadModuleLater ==
    /\ Busy /\ Step = "load"
    /\ agent' = [agent EXCEPT !.ready = TRUE]
    /\ UNCHANGED <<template, srcdir, file, loaded, edits, crashes, failures>>

\* modprobe does nothing when the module is loaded, whatever its release.
LoadModule ==
    LET m == Module(agent.flags.source) IN
    /\ Busy /\ Step = "load"
    /\ \/ /\ loaded[m] # None
          /\ agent' = [agent EXCEPT !.ready = TRUE]
          /\ UNCHANGED loaded
       \/ /\ loaded[m] = None /\ Loadable(m)
          /\ loaded' = [loaded EXCEPT ![m] = file[m]]
          /\ agent' = [agent EXCEPT !.ready = TRUE]
       \/ loaded[m] = None /\ ~Loadable(m) /\ Fail /\ UNCHANGED loaded
    /\ UNCHANGED <<template, srcdir, file, edits, crashes, failures>>

\* Slip: a failure is noted of an agent that is ready, too.
StepFailsLate ==
    /\ failures < MaxFailures
    /\ failures' = failures + 1
    /\ Fail
    /\ UNCHANGED <<template, srcdir, file, loaded, edits, crashes>>

\* A download or a command fails: Start logs the error and goes on.
StepFails ==
    /\ failures < MaxFailures
    /\ failures' = failures + 1
    /\ Busy
    /\ Fail
    /\ UNCHANGED <<template, srcdir, file, loaded, edits, crashes>>

-----------------------------------------------------------------------------
(***************************************************************************)
(* The node.                                                               *)
(***************************************************************************)

Crash == crashes < MaxCrashes /\ crashes' = crashes + 1

\* The container starts again, as its template now is and with an empty /tmp.
StartContainer == agent' = Started(template) /\ srcdir' = NoSource

RestartAgent ==
    /\ Crash
    /\ StartContainer
    /\ UNCHANGED <<template, file, loaded, edits, failures>>

\* The module of the node's image may be loaded at boot.
Reboot ==
    /\ Crash
    /\ StartContainer
    /\ \E M \in SUBSET {m \in Modules : Loadable(m)} :
          loaded' = [m \in Modules |-> IF m \in M THEN file[m] ELSE None]
    /\ UNCHANGED <<template, file, edits, failures>>

EditTemplate(flags) ==
    /\ edits < MaxEdits
    /\ flags # template
    /\ template' = flags
    /\ edits' = edits + 1
    /\ UNCHANGED <<agent, srcdir, file, loaded, crashes, failures>>

\* The DaemonSet controller replaces the pod of an older template.
RollOut ==
    /\ agent.flags # template
    /\ StartContainer
    /\ UNCHANGED <<template, file, loaded, edits, crashes, failures>>

EnsureDriver ==
    \/ FetchSource \/ AddSource \/ RunCommand
    \/ InstallModule \/ CreateFile \/ CopyFile \/ LoadModule

Next ==
    \/ EnsureDriver \/ StepFails \/ FetchBreaks \/ CopyBreaks
    \/ RestartAgent \/ Reboot \/ RollOut
    \/ \E flags \in Flags : EditTemplate(flags)

Spec == Init /\ [][Next]_vars

\* The agent works through its steps, and the DaemonSet's pods are replaced.
FairSpec == Spec /\ WF_vars(EnsureDriver) /\ WF_vars(RollOut)

-----------------------------------------------------------------------------
(***************************************************************************)
(* Properties.                                                             *)
(***************************************************************************)

\* An agent that is ready has its driver in the kernel, through every failure, restart
\* and reboot.
ReadyMeansLoaded == agent.ready => loaded[Module(agent.flags.source)] # None

\* However often it is killed half way, the agent comes to be ready in the end, unless
\* the driver was to be on the node and is not.
DriverComesUp ==
    <>[](agent.ready \/ (agent.flags.source = "preinstalled" /\ file["cxi_ss1"] = None))

\* ... which only a step that fails without a cause can prevent: nothing tries again.
DriverComesUpUnlessAStepFails == [](failures = 0) => DriverComesUp

\* DKMS is never given a part of the sources: an archive that stops short, is cut between
\* two entries or lacks its directories ends the installation or is put together again.
AddedSourceIsWhole == srcdir # NoSource => srcdir.tree = Packed(srcdir.archive)

\* "Version is the driver version to install": the driver in the kernel is of
\* the release the agent was given, where it installs one itself.
ReadyIsConfigured ==
    agent.ready /\ agent.flags.source # "preinstalled"
        => loaded[Module(agent.flags.source)] = agent.flags.release
=============================================================================
