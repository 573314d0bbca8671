-------------------------- MODULE DriverValidator --------------------------
(***************************************************************************)
(* The CXIDriver as the API server keeps it, and the validating webhook    *)
(* that judges every creation and every update of it.  A section that a    *)
(* manifest leaves out reads as zero values; a section that it has went    *)
(* through the schema, which filled in its defaults and refused values     *)
(* that are not of its enumerations.                                       *)
(*                                                                         *)
(* Warnings, which deny nothing, are left out.                             *)
(***************************************************************************)
EXTENDS Naturals

CONSTANTS
    Versions,    \* driver versions
    Tags,        \* release tags to build
    Ports,       \* metrics ports
    NoVersion,   \* no version, as in an empty string
    NoTag        \* no release tag

ASSUME NoVersionAssumption == NoVersion \notin Versions
ASSUME NoTagAssumption == NoTag \notin Tags

-----------------------------------------------------------------------------
Sources == {"dkms", "prebuilt", "preinstalled"}
Sharing == {"shared", "exclusive"}
Modes == {"daemonset", "sidecar", "kernel", "none"}

\* "" and 0 are the zero values of a section that is left out.
CXIDriverSpec ==
    [version : Versions \cup {NoVersion},
     source : Sources \cup {""}, repository : BOOLEAN, prebuiltCache : BOOLEAN,
     tag : Tags \cup {NoTag},
     retry : BOOLEAN, mode : Modes \cup {""},
     plugin : BOOLEAN, sharing : Sharing \cup {""}, sharedCapacity : {0, 1, 100},
     exporter : BOOLEAN, port : Ports \cup {0},
     healthCheckTimeout : {"", "duration", "nonsense"}]

\* Slip: sidecar mode without a sidecar section is denied, not warned of.
ValidWithSidecarSection(s) == s.version # NoVersion /\ ~(s.retry /\ s.mode = "sidecar")

\* The validator's answer to a creation or an update.
Valid(s) ==
    /\ s.version # NoVersion
    /\ s.source = "dkms" => s.repository
    /\ s.source = "prebuilt" => s.prebuiltCache
    /\ s.plugin /\ s.sharing = "shared" => s.sharedCapacity >= 1
    /\ s.healthCheckTimeout # "nonsense"

\* A zero value is not sent, and the schema has a default for it.
Default(value, zero, default) == IF value = zero THEN default ELSE value

(***************************************************************************)
(* What is kept of a spec that the operator read and writes back: every    *)
(* section is sent, without its zero values.                               *)
(***************************************************************************)
Stored(s) ==
    [s EXCEPT !.source = Default(@, "", "dkms"),
              !.retry = TRUE, !.plugin = TRUE, !.exporter = TRUE,
              !.mode = Default(@, "", "daemonset"),
              !.sharing = Default(@, "", "shared"),
              !.sharedCapacity = Default(@, 0, 100),
              !.port = Default(@, 0, 9090),
              !.healthCheckTimeout = Default(@, "", "duration")]
=============================================================================
