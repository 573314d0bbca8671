------------------------ MODULE DriverInstallProofs ------------------------
(***************************************************************************)
(* Proofs about the installation of the driver, for every set of releases, *)
(* archives and sources and every bound.                                   *)
(*                                                                         *)
(* An agent becomes ready in LoadModule alone.  What the kernel has loaded *)
(* is taken from it by a reboot alone, which takes the agent along.        *)
(***************************************************************************)
EXTENDS DriverInstall, FiniteSetTheorems, FunctionTheorems, SequenceTheorems, TLAPS

(***************************************************************************)
(* The steps of a source.                                                  *)
(***************************************************************************)
\* What a driver is loaded as is one of the node's modules.
LEMMA ModuleIsKnown == \A s : Module(s) \in Modules
  BY DEF Module, Modules

LEMMA NextNumber ==
    \A n, k \in 1..8 : 1 <= k /\ (n < k => n + 1 \in 1..8 /\ n + 1 <= k)
  OBVIOUS

\* Every source has steps, no more than eight, and ends with the load.
LEMMA LoadIsLast ==
    ASSUME NEW s \in {"dkms", "legacy", "prebuilt", "preinstalled"}
    PROVE  /\ Len(Steps(s)) \in 1..8
           /\ \A n \in 1..8 : n <= Len(Steps(s)) /\ Steps(s)[n] # "load" => n < Len(Steps(s))
<1>1. CASE s = "dkms"
  <2>1. Steps(s) = <<"headers", "sbl", "sl", "driver", "add", "build", "install", "load">>
    BY <1>1 DEF Steps
  <2> QED
    BY <2>1
<1>2. CASE s = "legacy"
  <2>1. Steps(s) = <<"driver", "add", "build", "install", "load">>
    BY <1>2 DEF Steps
  <2> QED
    BY <2>1
<1>3. CASE s = "prebuilt"
  <2>1. Steps(s) = <<"create", "copy", "depmod", "load">>
    BY <1>3 DEF Steps
  <2> QED
    BY <2>1
<1>4. CASE s = "preinstalled"
  <2>1. Steps(s) = <<"load">>
    BY <1>4 DEF Steps
  <2> QED
    BY <2>1
<1> QED
  BY <1>1, <1>2, <1>3, <1>4

(***************************************************************************)
(* Type correctness.                                                       *)
(***************************************************************************)
Agents == [flags : Flags, next : 1..8, ready : BOOLEAN, failed : BOOLEAN]

\* The agent is at a step its source has, and has not both come up and failed.
AgentOK ==
    /\ agent \in Agents
    /\ agent.next <= Len(Steps(agent.flags.source))
    /\ ~(agent.ready /\ agent.failed)

\* The counters, and what the container has of sources.
RestOK ==
    /\ srcdir # NoSource => srcdir.archive \in Archives
    /\ edits \in 0..MaxEdits /\ crashes \in 0..MaxCrashes /\ failures \in 0..MaxFailures

\* The module files and what the kernel has of them.
HostOK ==
    /\ file \in [Modules -> Releases \cup {None, Partial}]
    /\ loaded \in [Modules -> Releases \cup {None}]

LEMMA StartedIsFresh ==
    ASSUME NEW flags \in Flags
    PROVE  /\ Started(flags) \in Agents /\ ~Started(flags).ready
           /\ agent' = Started(flags) => AgentOK'
<1>1. 1 \in 1..8
  OBVIOUS
<1>2. Started(flags) \in Agents /\ ~Started(flags).ready /\ Started(flags).flags = flags
      /\ Started(flags).next = 1
  BY <1>1 DEF Started, Agents
<1>3. flags.source \in {"dkms", "legacy", "prebuilt", "preinstalled"}
  BY SourcesAssumption DEF Flags
<1>4. Len(Steps(flags.source)) \in 1..8
  BY <1>3, LoadIsLast
<1>5. 1 <= Len(Steps(flags.source))
  BY <1>4, NextNumber
<1> QED
  BY <1>2, <1>5 DEF AgentOK

LEMMA InitType == Init => TypeOK
<1> SUFFICES ASSUME Init PROVE TypeOK
  OBVIOUS
<1>1. template \in Flags /\ agent = Started(template)
  BY DEF Init
<1>2. Started(template).next = 1 /\ Started(template).flags = template
      /\ ~Started(template).ready
  BY DEF Started
<1>3. 1 <= Len(Steps(template.source))
  <2>1. template.source \in {"dkms", "legacy", "prebuilt", "preinstalled"}
    BY <1>1, SourcesAssumption DEF Flags
  <2>2. Len(Steps(template.source)) \in 1..8
    BY <2>1, LoadIsLast
  <2> QED
    BY <2>2, NextNumber
<1>4. agent \in Agents
  BY <1>1, StartedIsFresh
<1>5. 0 \in 0..MaxEdits /\ 0 \in 0..MaxCrashes /\ 0 \in 0..MaxFailures
  BY InstallBoundsAssumption
<1> QED
  BY <1>1, <1>2, <1>3, <1>4, <1>5 DEF Init, TypeOK, Agents

LEMMA Parts == TypeOK => AgentOK /\ RestOK /\ HostOK /\ template \in Flags
BY DEF TypeOK, AgentOK, RestOK, HostOK, Agents

LEMMA Whole ==
    ASSUME AgentOK', RestOK', HostOK', (template \in Flags)' PROVE TypeOK'
BY DEF TypeOK, AgentOK, RestOK, HostOK, Agents

\* A step that ends without the driver in the kernel, and the last one.
LEMMA AgentSteps ==
    ASSUME AgentOK, Busy,
           \/ Advance /\ Step # "load"
           \/ Fail
           \/ agent' = [agent EXCEPT !.ready = TRUE]
    PROVE  AgentOK' /\ agent'.flags = agent.flags
<1>1. /\ agent \in Agents /\ agent.next \in 1..8 /\ ~agent.ready /\ ~agent.failed
      /\ agent.flags.source \in {"dkms", "legacy", "prebuilt", "preinstalled"}
  BY SourcesAssumption DEF AgentOK, Agents, Flags, Busy
<1>2. ASSUME Advance, Step # "load" PROVE AgentOK' /\ agent'.flags = agent.flags
  <2>1. /\ agent.next < Len(Steps(agent.flags.source))
        /\ Len(Steps(agent.flags.source)) \in 1..8
    BY <1>1, <1>2, LoadIsLast DEF AgentOK, Step
  <2>2. agent.next + 1 \in 1..8 /\ agent.next + 1 <= Len(Steps(agent.flags.source))
    BY <1>1, <2>1, NextNumber
  <2>3. agent' = [agent EXCEPT !.next = agent.next + 1]
    BY <1>2 DEF Advance
  <2>4. /\ agent' \in Agents /\ agent'.flags = agent.flags /\ agent'.next = agent.next + 1
        /\ ~agent'.ready
    BY <1>1, <2>2, <2>3 DEF Agents
  <2> QED
    BY <2>2, <2>4 DEF AgentOK
<1>3. ASSUME Fail \/ agent' = [agent EXCEPT !.ready = TRUE]
      PROVE  AgentOK' /\ agent'.flags = agent.flags
  <2>1. /\ agent' \in Agents /\ agent'.flags = agent.flags /\ agent'.next = agent.next
        /\ ~(agent'.ready /\ agent'.failed)
    BY <1>1, <1>3 DEF Fail, Agents
  <2> QED
    BY <2>1 DEF AgentOK
<1> QED
  BY <1>2, <1>3

\* The steps of the agent: how it goes on, and what they leave on the host.
LEMMA EnsureSteps ==
    ASSUME TypeOK, EnsureDriver \/ StepFails \/ FetchBreaks \/ CopyBreaks
    PROVE  /\ Busy /\ UNCHANGED <<template, edits, crashes>>
           /\ HostOK'
           /\ \/ (Advance \/ Fail) /\ UNCHANGED loaded
              \/ /\ agent' = [agent EXCEPT !.ready = TRUE]
                 /\ loaded'[Module(agent.flags.source)] # None
           /\ AgentOK' /\ agent'.flags = agent.flags
<1>a. /\ HostOK /\ AgentOK /\ Release \in Releases /\ agent \in Agents
  BY Parts DEF Release, AgentOK, Agents, Flags
<1>1. CASE FetchSource \/ FetchBreaks
  <2>1. /\ Busy /\ Step # "load" /\ (Advance \/ Fail)
        /\ UNCHANGED <<template, edits, crashes, file, loaded>>
    BY <1>1 DEF FetchSource, FetchBreaks, UseSource, Downloads
  <2> QED
    BY <1>a, <2>1, AgentSteps DEF HostOK
<1>2. CASE AddSource \/ RunCommand
  <2>1. /\ Busy /\ Step # "load" /\ (Advance \/ Fail)
        /\ UNCHANGED <<template, edits, crashes, file, loaded>>
    BY <1>2 DEF AddSource, RunCommand
  <2> QED
    BY <1>a, <2>1, AgentSteps DEF HostOK
<1>3. CASE InstallModule \/ CreateFile \/ CopyFile
  <2>1. Busy /\ Step # "load" /\ Advance /\ UNCHANGED <<template, edits, crashes, loaded>>
    BY <1>3 DEF InstallModule, CreateFile, CopyFile
  <2>2. file' \in [Modules -> Releases \cup {None, Partial}]
    BY <1>3, <1>a DEF InstallModule, CreateFile, CopyFile, HostOK
  <2> QED
    BY <1>a, <2>1, <2>2, AgentSteps DEF HostOK
<1>4. CASE LoadModule
  <2> DEFINE m == Module(agent.flags.source)
  <2>1. m \in Modules /\ Busy /\ UNCHANGED <<template, edits, crashes, file>>
    BY <1>4, ModuleIsKnown DEF LoadModule
  <2>2. CASE loaded[m] # None /\ agent' = [agent EXCEPT !.ready = TRUE] /\ UNCHANGED loaded
    BY <1>a, <2>1, <2>2, AgentSteps DEF HostOK
  <2>3. CASE /\ Loadable(m)
             /\ loaded' = [loaded EXCEPT ![m] = file[m]]
             /\ agent' = [agent EXCEPT !.ready = TRUE]
    <3>1. file[m] \in Releases /\ file[m] # None
      BY <1>a, <2>1, <2>3 DEF HostOK, Loadable
    <3>2. HostOK' /\ loaded'[m] # None
      BY <1>a, <2>1, <2>3, <3>1 DEF HostOK
    <3> QED
      BY <1>a, <2>1, <2>3, <3>2, AgentSteps
  <2>4. CASE Fail /\ UNCHANGED loaded
    BY <1>a, <2>1, <2>4, AgentSteps DEF HostOK
  <2> QED
    BY <1>4, <2>2, <2>3, <2>4 DEF LoadModule
<1>5. CASE StepFails \/ CopyBreaks
  <2>1. /\ Busy /\ UNCHANGED <<template, edits, crashes, file, loaded>>
        /\ Fail \/ (Step # "load" /\ Advance)
    BY <1>5 DEF StepFails, CopyBreaks
  <2> QED
    BY <1>a, <2>1, AgentSteps DEF HostOK
<1> QED
  BY <1>1, <1>2, <1>3, <1>4, <1>5 DEF EnsureDriver

LEMMA EnsureType ==
    ASSUME TypeOK, EnsureDriver \/ StepFails \/ FetchBreaks \/ CopyBreaks PROVE TypeOK'
<1>1. failures' \in 0..MaxFailures
  BY Parts, InstallBoundsAssumption
     DEF RestOK, EnsureDriver, FetchSource, FetchBreaks, CopyBreaks, StepFails, AddSource,
         RunCommand, InstallModule, CreateFile, CopyFile, LoadModule
<1>2. UNCHANGED srcdir \/ \E a \in Archives : \E tree : srcdir' = [archive |-> a, tree |-> tree]
  BY DEF EnsureDriver, FetchSource, FetchBreaks, CopyBreaks, StepFails, UseSource, AddSource,
         RunCommand, InstallModule, CreateFile, CopyFile, LoadModule
<1>3. srcdir' # NoSource => srcdir'.archive \in Archives
  BY <1>2, Parts DEF RestOK
<1> QED
  BY <1>1, <1>3, EnsureSteps, Parts, Whole DEF RestOK

\* Whatever starts the container anew.
LEMMA StartSteps ==
    ASSUME TypeOK, RestartAgent \/ Reboot \/ RollOut
    PROVE  TypeOK' /\ ~agent'.ready
<1>1. UNCHANGED <<template, file, edits, failures>> /\ StartContainer
  BY DEF RestartAgent, Reboot, RollOut
<1>2. AgentOK' /\ ~agent'.ready
  BY <1>1, Parts, StartedIsFresh DEF StartContainer
<1>3. crashes' \in 0..MaxCrashes
  BY Parts, InstallBoundsAssumption DEF RestOK, RestartAgent, Reboot, RollOut, Crash
<1>4. HostOK'
  BY <1>1, Parts DEF HostOK, RestartAgent, Reboot, RollOut, Loadable
<1> QED
  BY <1>1, <1>2, <1>3, <1>4, Parts, Whole DEF RestOK, StartContainer

LEMMA EditType ==
    ASSUME TypeOK, NEW flags \in Flags, EditTemplate(flags) PROVE TypeOK'
<1>1. edits' \in 0..MaxEdits
  BY Parts, InstallBoundsAssumption DEF RestOK, EditTemplate
<1> QED
  BY <1>1, Parts, Whole DEF EditTemplate, AgentOK, RestOK, HostOK

\* Every variable keeps its type: ensureDriver is always at a step that its source has,
\* and an agent that failed is not ready.
THEOREM InstallTypeCorrect == Spec => []TypeOK
<1>1. TypeOK /\ UNCHANGED vars => TypeOK'
  BY DEF TypeOK, vars
<1>2. TypeOK /\ [Next]_vars => TypeOK'
  BY <1>1, EnsureType, StartSteps, EditType DEF Next
<1> QED
  BY <1>2, InitType, PTL DEF Spec

(***************************************************************************)
(* Readiness.                                                              *)
(***************************************************************************)
\* An agent that says it is ready has its driver in the kernel, whatever failed, was
\* killed or was rebooted before.
THEOREM ReadyAgentHasDriver == Spec => []ReadyMeansLoaded
<1>1. Init => ReadyMeansLoaded
  BY DEF Init, Started, ReadyMeansLoaded
<1>2. TypeOK /\ ReadyMeansLoaded /\ [Next]_vars => ReadyMeansLoaded'
  <2> SUFFICES ASSUME TypeOK, ReadyMeansLoaded, [Next]_vars PROVE ReadyMeansLoaded'
    OBVIOUS
  <2>1. ASSUME EnsureDriver \/ StepFails \/ FetchBreaks \/ CopyBreaks PROVE ReadyMeansLoaded'
    <3>1. agent \in Agents /\ ~agent.ready
      BY <2>1, Parts, EnsureSteps DEF AgentOK, Busy
    <3>2. ASSUME Advance \/ Fail PROVE ~agent'.ready
      BY <3>1, <3>2 DEF Advance, Fail, Agents
    <3> QED
      BY <2>1, <3>2, EnsureSteps DEF ReadyMeansLoaded
  <2>2. ASSUME RestartAgent \/ Reboot \/ RollOut PROVE ReadyMeansLoaded'
    BY <2>2, StartSteps DEF ReadyMeansLoaded
  <2>3. ASSUME NEW flags \in Flags, EditTemplate(flags) PROVE ReadyMeansLoaded'
    BY <2>3 DEF EditTemplate, ReadyMeansLoaded
  <2>4. CASE UNCHANGED vars
    BY <2>4 DEF vars, ReadyMeansLoaded
  <2> QED
    BY <2>1, <2>2, <2>3, <2>4 DEF Next
<1> QED
  BY <1>1, <1>2, InstallTypeCorrect, PTL DEF Spec

(***************************************************************************)
(* What extraction and preparation make of one archive.                    *)
(*                                                                         *)
(* Extract is a recursive function of the number of entries.  That there   *)
(* is such a function, and what its values are, needs induction.  The      *)
(* prover has no rule for it, but the set of the numbers for which         *)
(* something holds is a set like others: AllNumbers says of sets what      *)
(* induction says of formulas, and follows from counting.                  *)
(***************************************************************************)
\* Induction, of a set: Nat has no proper subset that 0 is in and that n + 1 is in with n.
LEMMA AllNumbers ==
    ASSUME NEW S, 0 \in S, \A n \in Nat : n \in S => n + 1 \in S
    PROVE  \A n \in Nat : n \in S
<1> SUFFICES ASSUME NEW n \in Nat, n \notin S PROVE FALSE
  OBVIOUS
<1> DEFINE T == {m \in 0..n : m \in S}
           next == [m \in T |-> m + 1]
<1>1. IsFiniteSet(T) /\ Cardinality(T) \in Nat
  <2>1. IsFiniteSet(0..n)
    BY FS_Interval
  <2> QED
    BY <2>1, FS_Subset, FS_CardinalityType
<1>2. IsFiniteSet(T \ {0}) /\ Cardinality(T \ {0}) = Cardinality(T) - 1
  <2>1. 0 \in T
    OBVIOUS
  <2> HIDE DEF T
  <2> QED
    BY <1>1, <2>1, FS_RemoveElement
<1>3. \A m \in T : m + 1 \in T \ {0}
  OBVIOUS
<1>4. \A m, k \in T : m + 1 = k + 1 => m = k
  OBVIOUS
<1> HIDE DEF T
<1>5. next \in Injection(T, T \ {0})
  BY <1>3, <1>4 DEF Injection, IsInjective
<1> QED
  BY <1>1, <1>2, <1>5, FS_Injection

IsArchive(a) ==
    /\ a.format \in Formats
    /\ a.entries \in Seq([path : Seq(STRING), kind : Kinds])

\* The turns of the loop: extraction is the function that its recursion says.
LEMMA ExtractTurns ==
    ASSUME NEW a, IsArchive(a)
    PROVE  Extract(a) = [n \in 0..Len(a.entries) |->
               IF n = 0 THEN Empty
               ELSE ExtractEntry(a.format, Extract(a)[n - 1], a.entries[n])]
<1> DEFINE N == Len(a.entries)
           turn(tree, n) == ExtractEntry(a.format, tree, a.entries[n])
           Turns(f, n) == f = [m \in 0..n |-> IF m = 0 THEN Empty ELSE turn(f[m - 1], m)]
           S == {n \in Nat : \E f : Turns(f, n)}
<1>1. N \in Nat
  BY LenProperties DEF IsArchive
<1> HIDE DEF turn, N
<1>2. 0 \in S
  <2>1. Turns([m \in {0} |-> Empty], 0)
    OBVIOUS
  <2> QED
    BY <2>1
<1>3. ASSUME NEW n \in Nat, n \in S PROVE n + 1 \in S
  <2>1. PICK f : Turns(f, n)
    BY <1>3
  <2> DEFINE g == [m \in 0..(n + 1) |-> IF m <= n THEN f[m] ELSE turn(f[n], n + 1)]
  <2>2. \A m \in 0..(n + 1) :
            g[m] = IF m = 0 THEN Empty ELSE turn(g[m - 1], m)
    <3>1. g[0] = Empty
      BY <2>1
    <3>2. ASSUME NEW m \in 1..n PROVE g[m] = turn(g[m - 1], m)
      <4>1. m \in 0..(n + 1) /\ m - 1 \in 0..(n + 1) /\ m <= n /\ m - 1 <= n /\ m # 0 /\ m \in 0..n
        OBVIOUS
      <4>2. g[m] = f[m] /\ g[m - 1] = f[m - 1]
        BY <4>1
      <4>3. f[m] = turn(f[m - 1], m)
        BY <2>1, <4>1
      <4> QED
        BY <4>2, <4>3
    <3>3. g[n + 1] = turn(g[n], n + 1)
      OBVIOUS
    <3>4. \A m \in 0..(n + 1) : m = 0 \/ m \in 1..n \/ m = n + 1
      OBVIOUS
    <3>5. (n + 1) - 1 = n /\ n + 1 # 0
      OBVIOUS
    <3> HIDE DEF g
    <3> QED
      BY <3>1, <3>2, <3>3, <3>4, <3>5
  <2>3. g = [m \in 0..(n + 1) |-> g[m]]
    OBVIOUS
  <2> HIDE DEF g
  <2>4. Turns(g, n + 1)
    BY <2>2, <2>3
  <2> QED
    BY <2>4
<1> HIDE DEF S
<1>4. N \in S
  BY <1>1, <1>2, <1>3, AllNumbers
<1>5. \E f : Turns(f, N)
  BY <1>4 DEF S
<1>6. Turns(CHOOSE f : Turns(f, N), N)
  BY <1>5
<1> QED
  BY <1>6, Zenon DEF Extract, turn, N

\* Entries, their paths and the directories these are in.
LEMMA ParentsAre ==
    ASSUME NEW path \in Seq(STRING)
    PROVE  /\ Parents(path) \in SUBSET Seq(STRING)
           /\ Len(path) \in Nat
           /\ Len(path) > 1 => <<path[1]>> \in Parents(path)
           /\ \A p \in Parents(path) :
                 /\ Len(p) \in Nat \ {0} /\ p[1] = path[1]
                 /\ Parents(p) \subseteq Parents(path)
<1>1. Len(path) \in Nat /\ \A i \in 1..Len(path) : path[i] \in STRING
  BY LenProperties, ElementOfSeq
<1>2. ASSUME NEW n \in 1..(Len(path) - 1)
      PROVE  /\ SubSeq(path, 1, n) \in Seq(STRING)
             /\ Len(SubSeq(path, 1, n)) = n
             /\ \A i \in 1..n : SubSeq(path, 1, n)[i] = path[i]
  <2>1. \A i \in 1..n : path[i] \in STRING
    BY <1>1
  <2>2. 1 \in Int /\ n \in Int /\ 1 <= n /\ n - 1 + 1 = n /\ \A i \in 1..n : 1 + i - 1 = i
    BY <1>1
  <2> QED
    BY <2>1, <2>2, SubSeqProperties
<1>3. Len(path) > 1 => <<path[1]>> \in Parents(path)
  <2> SUFFICES ASSUME Len(path) > 1 PROVE <<path[1]>> \in Parents(path)
    OBVIOUS
  <2>1. 1 \in 1..(Len(path) - 1) /\ 1 \in 1..1
    BY <1>1
  <2>2. SubSeq(path, 1, 1) = <<path[1]>>
    <3>1. <<path[1]>> \in Seq(STRING) /\ Len(<<path[1]>>) = 1 /\ <<path[1]>>[1] = path[1]
      BY <1>1, <2>1
    <3>2. SubSeq(path, 1, 1) \in Seq(STRING) /\ Len(SubSeq(path, 1, 1)) = 1
          /\ SubSeq(path, 1, 1)[1] = path[1]
      BY <1>2, <2>1
    <3>3. \A i \in 1..1 : i = 1
      OBVIOUS
    <3> QED
      BY <3>1, <3>2, <3>3, SeqEqual
  <2> QED
    BY <2>1, <2>2 DEF Parents
<1>4. ASSUME NEW p \in Parents(path)
      PROVE  /\ Len(p) \in Nat \ {0} /\ p[1] = path[1]
             /\ Parents(p) \subseteq Parents(path)
  <2>1. PICK n \in 1..(Len(path) - 1) : p = SubSeq(path, 1, n)
    BY DEF Parents
  <2>2. n \in Nat \ {0} /\ 1 \in 1..n /\ n < Len(path)
    BY <1>1
  <2>3. p \in Seq(STRING) /\ Len(p) = n /\ \A i \in 1..n : p[i] = path[i]
    BY <1>2, <2>1
  <2>4. ASSUME NEW k \in 1..(n - 1)
        PROVE  SubSeq(p, 1, k) = SubSeq(path, 1, k)
    <3>1. k \in 1..(Len(path) - 1) /\ 1 \in Int /\ k \in Int /\ 1 <= k /\ k - 1 + 1 = k
          /\ \A i \in 1..k : i \in 1..n /\ 1 + i - 1 = i
      BY <1>1, <2>2
    <3>2. \A i \in 1..k : p[i] = path[i] /\ p[i] \in STRING
      BY <3>1, <2>3, <1>1, <2>2
    <3>3. SubSeq(p, 1, k) \in Seq(STRING) /\ Len(SubSeq(p, 1, k)) = k
          /\ \A i \in 1..k : SubSeq(p, 1, k)[i] = p[i]
      BY <3>1, <3>2, SubSeqProperties
    <3> QED
      BY <1>2, <3>1, <3>2, <3>3, SeqEqual
  <2>5. \A k \in 1..(n - 1) : k \in 1..(Len(path) - 1)
    BY <1>1, <2>2
  <2>6. Parents(p) \subseteq Parents(path)
    BY <2>3, <2>4, <2>5 DEF Parents
  <2> QED
    BY <2>2, <2>3, <2>6
<1>5. Parents(path) \in SUBSET Seq(STRING)
  BY <1>2 DEF Parents
<1> QED
  BY <1>1, <1>3, <1>4, <1>5

\* What a path's entry says is what was packed there, and its directories are directories.
LEMMA KindIsPacked ==
    ASSUME NEW a, PacksATree(a), NEW e \in Named(a)
    PROVE  /\ PackedKind(a, e.path) = e.kind
           /\ \A p \in Parents(e.path) : PackedKind(a, p) = "dir"
<1>1. \A f \in Named(a) : f.path = e.path => f.kind = e.kind
  BY DEF PacksATree
<1>2. PackedKind(a, e.path) = e.kind
  <2> DEFINE f == CHOOSE f \in Named(a) : f.path = e.path
  <2>1. f \in Named(a) /\ f.path = e.path
    OBVIOUS
  <2>2. f.kind = e.kind
    BY <1>1, <2>1
  <2> QED
    BY <1>1, <2>2 DEF PackedKind
<1>3. ASSUME NEW p \in Parents(e.path) PROVE PackedKind(a, p) = "dir"
  <2>1. \A f \in Named(a) : f.path = p => f.kind = "dir"
    BY DEF PacksATree
  <2> QED
    BY <2>1 DEF PackedKind
<1> QED
  BY <1>2, <1>3

\* The paths of the first n entries.
PathsOf(a, n) ==
    UNION {Parents(a.entries[m].path) \cup {a.entries[m].path} :
              m \in {k \in 1..n : a.entries[k].kind \notin Unextracted}}

\* Extraction makes what was packed.
LEMMA ExtractedIsPacked ==
    ASSUME NEW a, IsArchive(a), PacksATree(a), KeepsLinks(a)
    PROVE  Extract(a)[Len(a.entries)] = [p \in PackedPaths(a) |-> PackedKind(a, p)]
<1> DEFINE N == Len(a.entries)
           tree == Extract(a)
           packed(P) == [p \in P |-> PackedKind(a, p)]
           S == {n \in Nat : n <= N => tree[n] = packed(PathsOf(a, n))}
<1>1. N \in Nat
  BY LenProperties DEF IsArchive
<1>2. tree[0] = Empty /\ \A n \in 1..N : tree[n] = ExtractEntry(a.format, tree[n - 1], a.entries[n])
  <2>1. \A n \in 0..N :
            tree[n] = IF n = 0 THEN Empty ELSE ExtractEntry(a.format, tree[n - 1], a.entries[n])
    <3> HIDE DEF tree
    <3>1. tree = [n \in 0..N |->
               IF n = 0 THEN Empty ELSE ExtractEntry(a.format, tree[n - 1], a.entries[n])]
      BY ExtractTurns DEF tree
    <3> QED
      BY <3>1
  <2> HIDE DEF tree
  <2> QED
    BY <1>1, <2>1
<1> HIDE DEF tree
<1>3. 0 \in S
  <2>1. PathsOf(a, 0) = {}
    BY DEF PathsOf
  <2>2. packed({}) = Empty
    BY DEF Empty
  <2> QED
    BY <1>2, <2>1, <2>2
<1>4. ASSUME NEW n \in Nat, n \in S PROVE n + 1 \in S
  <2> SUFFICES ASSUME n + 1 <= N PROVE tree[n + 1] = packed(PathsOf(a, n + 1))
    OBVIOUS
  <2> DEFINE e == a.entries[n + 1]
  <2>1. n <= N /\ n + 1 \in 1..N /\ (n + 1) - 1 = n
    BY <1>1
  <2>2. tree[n] = packed(PathsOf(a, n))
    BY <1>4, <2>1
  <2>3. tree[n + 1] = ExtractEntry(a.format, tree[n], e)
    BY <1>2, <2>1
  <2>4. CASE e.kind \in Unextracted
    <3>1. {k \in 1..(n + 1) : a.entries[k].kind \notin Unextracted}
              = {k \in 1..n : a.entries[k].kind \notin Unextracted}
      BY <2>4
    <3>2. PathsOf(a, n + 1) = PathsOf(a, n)
      BY <3>1 DEF PathsOf
    <3> QED
      BY <2>2, <2>3, <2>4, <3>2 DEF ExtractEntry
  <2>5. CASE e.kind \notin Unextracted
    <3>1. e \in Named(a)
      BY <2>1, <2>5 DEF Named
    <3>2. PathsOf(a, n + 1) = PathsOf(a, n) \cup (Parents(e.path) \cup {e.path})
      <4>1. {k \in 1..(n + 1) : a.entries[k].kind \notin Unextracted}
                = {k \in 1..n : a.entries[k].kind \notin Unextracted} \cup {n + 1}
        BY <2>5
      <4> QED
        BY <4>1 DEF PathsOf
    <3>3. tree[n + 1] = With(tree[n], e.path, e.kind)
      BY <2>3, <2>5, <3>1 DEF ExtractEntry, KeepsLinks
    <3>4. PackedKind(a, e.path) = e.kind /\ \A p \in Parents(e.path) : PackedKind(a, p) = "dir"
      BY <3>1, KindIsPacked
    <3> HIDE DEF e
    <3>5. tree[n + 1] = [p \in PathsOf(a, n) \cup Parents(e.path) \cup {e.path} |->
                            IF p = e.path THEN e.kind
                            ELSE IF p \in PathsOf(a, n) THEN PackedKind(a, p) ELSE "dir"]
      BY <2>2, <3>3 DEF With
    <3>6. PathsOf(a, n + 1) = PathsOf(a, n) \cup Parents(e.path) \cup {e.path}
      BY <3>2
    <3> QED
      BY <3>4, <3>5, <3>6
  <2> QED
    BY <2>4, <2>5
<1>5. N \in S
  <2> HIDE DEF S
  <2> QED
    BY <1>1, <1>3, <1>4, AllNumbers
<1>6. PathsOf(a, N) = PackedPaths(a)
  <2>1. Named(a) = {a.entries[m] : m \in {k \in 1..N : a.entries[k].kind \notin Unextracted}}
    BY DEF Named
  <2> QED
    BY <2>1 DEF PathsOf, PackedPaths
<1>7. tree[N] = packed(PackedPaths(a))
  BY <1>1, <1>5, <1>6
<1> QED
  BY <1>7 DEF tree

LEMMA PathsArePacked ==
    ASSUME NEW a, IsArchive(a), PacksATree(a), NEW p \in PackedPaths(a)
    PROVE  /\ p \in Seq(STRING) /\ Len(p) \in Nat \ {0}
           /\ Len(p) = 1 => p = <<p[1]>>
           /\ Len(p) > 1 => <<p[1]>> \in PackedPaths(a) /\ PackedKind(a, <<p[1]>>) = "dir"
<1>1. PICK e \in Named(a) : p \in Parents(e.path) \cup {e.path}
  BY DEF PackedPaths
<1>2. e.path \in Seq(STRING) /\ e.path # <<>>
  <2>1. PICK n \in 1..Len(a.entries) : e = a.entries[n]
    BY <1>1 DEF Named
  <2>2. e \in [path : Seq(STRING), kind : Kinds]
    BY <2>1, ElementOfSeq DEF IsArchive
  <2> QED
    BY <1>1, <2>2 DEF PacksATree
<1>3. Len(e.path) \in Nat \ {0}
  BY <1>2, EmptySeq
<1> DEFINE path == e.path
<1>4. /\ path \in Seq(STRING) /\ Parents(path) \in SUBSET Seq(STRING)
      /\ p \in Seq(STRING) /\ Len(p) \in Nat \ {0}
      /\ Parents(p) \subseteq Parents(path)
  <2>1. path \in Seq(STRING) /\ Len(path) \in Nat \ {0} /\ p \in Parents(path) \cup {path}
    BY <1>1, <1>2, <1>3
  <2> HIDE DEF path
  <2> QED
    BY <2>1, ParentsAre
<1>5. Len(p) > 1 => <<p[1]>> \in Parents(p)
  BY <1>4, ParentsAre
<1>6. Len(p) = 1 => p = <<p[1]>>
  <2> SUFFICES ASSUME Len(p) = 1 PROVE p = <<p[1]>>
    OBVIOUS
  <2>1. 1 \in 1..Len(p)
    BY <1>4
  <2>2. p[1] \in STRING
    BY <1>4, <2>1, ElementOfSeq
  <2>3. <<p[1]>> \in Seq(STRING) /\ Len(<<p[1]>>) = 1 /\ \A i \in 1..1 : p[i] = <<p[1]>>[i]
    BY <2>2
  <2> QED
    BY <1>4, <2>3, SeqEqual
<1>7. Parents(path) \subseteq PackedPaths(a) /\ \A q \in Parents(path) : PackedKind(a, q) = "dir"
  BY <1>1, KindIsPacked DEF PackedPaths
<1> QED
  BY <1>4, <1>5, <1>6, <1>7

\* Some directory is all others' beginning if and only if one is all there is at the top.
LEMMA CommonIsNested ==
    ASSUME NEW a, IsArchive(a), PacksATree(a),
           NEW tree, tree = [p \in PackedPaths(a) |-> PackedKind(a, p)]
    PROVE  /\ IsNested(tree) <=>
                 \E t \in PackedPaths(a) :
                    PackedKind(a, t) = "dir" /\ \A p \in PackedPaths(a) : p[1] = t[1]
           /\ \A t \in PackedPaths(a) :
                 (\A p \in PackedPaths(a) : p[1] = t[1]) => Top(tree) = {<<t[1]>>}
           /\ \A p \in PackedPaths(a) : p \notin Top(tree) <=> Len(p) > 1
<1> DEFINE P == PackedPaths(a)
           K(p) == PackedKind(a, p)
<1>1. DOMAIN tree = P /\ \A p \in P : tree[p] = K(p)
  OBVIOUS
<1>2. Top(tree) = {p \in P : Len(p) = 1}
  BY <1>1 DEF Top
<1>3. \A p \in P : /\ Len(p) \in Nat \ {0}
                   /\ Len(p) = 1 => p = <<p[1]>>
                   /\ Len(p) > 1 => <<p[1]>> \in P /\ K(<<p[1]>>) = "dir"
  BY PathsArePacked
<1> HIDE DEF P, K
<1>4. \A p \in P : Len(p) = 1 \/ Len(p) > 1
  <2>1. \A n \in Nat \ {0} : n = 1 \/ n > 1
    OBVIOUS
  <2> QED
    BY <1>3, <2>1
<1>5. \A p \in P : <<p[1]>> \in Top(tree)
  <2>1. \A x : Len(<<x>>) = 1
    OBVIOUS
  <2> QED
    BY <1>2, <1>3, <1>4, <2>1
<1>6. ASSUME NEW t \in P, \A p \in P : p[1] = t[1]
      PROVE  Top(tree) = {<<t[1]>>}
  BY <1>2, <1>3, <1>5, <1>6
<1>7. ASSUME IsNested(tree) PROVE \E t \in P : K(t) = "dir" /\ \A p \in P : p[1] = t[1]
  <2>1. PICK t \in Top(tree) : Top(tree) = {t} /\ tree[t] = "dir"
    BY <1>7 DEF IsNested
  <2>2. t \in P /\ K(t) = "dir"
    BY <1>1, <1>2, <2>1
  <2>3. \A p \in P : <<p[1]>> = t
    BY <1>5, <2>1
  <2>4. \A p \in P : p[1] = t[1]
    <3>1. \A x : <<x>>[1] = x
      OBVIOUS
    <3> QED
      BY <2>3, <3>1
  <2> QED
    BY <2>2, <2>4
<1>8. ASSUME NEW t \in P, K(t) = "dir", \A p \in P : p[1] = t[1]
      PROVE  IsNested(tree)
  <2>1. Top(tree) = {<<t[1]>>}
    BY <1>6, <1>8
  <2>2. K(<<t[1]>>) = "dir"
    BY <1>3, <1>4, <1>8
  <2>3. tree[<<t[1]>>] = "dir"
    BY <1>1, <1>2, <2>1, <2>2
  <2> QED
    BY <2>1, <2>3 DEF IsNested
<1>9. \A p \in P : p \notin Top(tree) <=> Len(p) > 1
  <2>1. ~(1 > 1)
    OBVIOUS
  <2> QED
    BY <1>2, <1>4, <2>1
<1> QED
  BY <1>6, <1>7, <1>8, <1>9 DEF P, K

\* Below one directory a path is found again by what follows its name.
LEMMA UpAndDown ==
    ASSUME NEW S, NEW P \in SUBSET Seq(S), NEW name,
           \A q \in P : Len(q) \in Nat \ {0} /\ q[1] = name,
           NEW q \in P, Len(q) > 1
    PROVE  /\ (CHOOSE r \in P : Len(r) > 1 /\ Tail(r) = Tail(q)) = q
           /\ <<name>> \o Tail(q) = q
<1>1. ASSUME NEW r \in P, Len(r) > 1
      PROVE  <<name>> \o Tail(r) = r
  <2>1. r # <<>> /\ r \in Seq(S) /\ Len(r) \in Nat /\ name \in S /\ r[1] = name
    <3>1. r \in Seq(S) /\ Len(r) \in Nat /\ r[1] = name
      OBVIOUS
    <3>2. 1 \in 1..Len(r)
      BY <1>1, <3>1
    <3> QED
      BY <1>1, <3>1, <3>2, ElementOfSeq
  <2>2. /\ Tail(r) \in Seq(S) /\ Len(Tail(r)) = Len(r) - 1
        /\ \A i \in 1..Len(Tail(r)) : Tail(r)[i] = r[i + 1]
    BY <2>1, HeadTailProperties
  <2>3. <<name>> \in Seq(S) /\ Len(<<name>>) = 1 /\ <<name>>[1] = name
    BY <2>1
  <2> DEFINE s == <<name>>
             u == Tail(r)
  <2> HIDE DEF s, u
  <2>4. /\ s \o u \in Seq(S) /\ Len(s \o u) = Len(s) + Len(u)
        /\ \A i \in 1..Len(s) + Len(u) :
              (s \o u)[i] = IF i <= Len(s) THEN s[i] ELSE u[i - Len(s)]
    BY <2>2, <2>3, ConcatProperties DEF s, u
  <2>5. Len(s \o u) = Len(r)
    BY <2>1, <2>2, <2>3, <2>4 DEF s, u
  <2>6. ASSUME NEW i \in 1..Len(r) PROVE (s \o u)[i] = r[i]
    <3>1. CASE i = 1
      <4>1. (s \o u)[1] = s[1]
        BY <2>1, <2>2, <2>3, <2>4, <3>1 DEF s, u
      <4> QED
        BY <2>1, <2>3, <3>1, <4>1 DEF s
    <3>2. CASE i # 1
      <4>1. i - 1 \in 1..Len(u) /\ (i - 1) + 1 = i /\ ~(i <= 1)
        BY <2>1, <2>2, <3>2 DEF u
      <4>2. u[i - 1] = r[i]
        BY <2>2, <4>1 DEF u
      <4>3. (s \o u)[i] = u[i - 1]
        BY <2>1, <2>2, <2>3, <2>4, <4>1 DEF s, u
      <4> QED
        BY <4>2, <4>3
    <3> QED
      BY <3>1, <3>2
  <2> QED
    BY <2>1, <2>4, <2>5, <2>6, SeqEqual DEF s, u
<1> QED
  BY <1>1

\* Extraction and preparation make of a tree that was packed what its author packed.
THEOREM PreparedIsPacked ==
    ASSUME NEW a, IsArchive(a), PacksATree(a), KeepsLinks(a)
    PROVE  Prepared(a) = Packed(a)
<1> DEFINE P == PackedPaths(a)
           K(p) == PackedKind(a, p)
           tree == Extract(a)[Len(a.entries)]
           common == \E t \in P : K(t) = "dir" /\ \A p \in P : p[1] = t[1]
           up == IF common THEN {Tail(p) : p \in {q \in P : Len(q) > 1}} ELSE P
           down(p) == IF common THEN (CHOOSE q \in P : Len(q) > 1 /\ Tail(q) = p) ELSE p
           conf == IF <<"dkms.conf.in">> \in up THEN {<<"dkms.conf">>} ELSE {}
<1>1. Packed(a) = [p \in up \cup conf |-> IF p \in conf THEN "generated" ELSE K(down(p))]
  BY DEF Packed
<1>2. tree = [p \in P |-> K(p)]
  BY ExtractedIsPacked
<1>3. \A p \in P : p \in Seq(STRING) /\ Len(p) \in Nat \ {0}
  BY PathsArePacked
<1> HIDE DEF tree
<1>4. /\ IsNested(tree) <=> common
      /\ \A t \in P : (\A p \in P : p[1] = t[1]) => Top(tree) = {<<t[1]>>}
      /\ \A p \in P : p \notin Top(tree) <=> Len(p) > 1
  BY <1>2, CommonIsNested
<1> HIDE DEF P, K
<1>5. Flatten(tree) = [p \in up |-> K(down(p))]
  <2>1. CASE ~common
    <3>1. Flatten(tree) = tree
      BY <1>4, <2>1 DEF Flatten
    <3>2. up = P /\ \A p \in P : down(p) = p
      BY <2>1
    <3> HIDE DEF up, down
    <3> QED
      BY <1>2, <3>1, <3>2
  <2>2. CASE common
    <3>1. PICK t \in P : K(t) = "dir" /\ \A p \in P : p[1] = t[1]
      BY <2>2
    <3> DEFINE name == t[1]
               below == {q \in P : Len(q) > 1}
    <3>2. Top(tree) = {<<name>>} /\ (CHOOSE u \in Top(tree) : TRUE) = <<name>>
      BY <1>4, <3>1
    <3>3. DOMAIN tree = P /\ \A p \in P : tree[p] = K(p)
      BY <1>2
    <3>4. DOMAIN tree \ Top(tree) = below
      BY <1>4, <3>3
    <3>5. Flatten(tree) = [p \in {Tail(q) : q \in below} |-> tree[<<name>> \o p]]
      BY <1>4, <2>2, <3>2, <3>4 DEF Flatten
    <3>6. ASSUME NEW q \in below PROVE tree[<<name>> \o Tail(q)] = K(down(Tail(q)))
      <4>1. q \in P /\ Len(q) > 1 /\ P \in SUBSET Seq(STRING)
            /\ \A r \in P : Len(r) \in Nat \ {0} /\ r[1] = name
        BY <1>3, <3>1
      <4> HIDE DEF name
      <4>2. (CHOOSE r \in P : Len(r) > 1 /\ Tail(r) = Tail(q)) = q /\ <<name>> \o Tail(q) = q
        BY <4>1, UpAndDown
      <4>3. down(Tail(q)) = q
        BY <2>2, <4>2
      <4> QED
        BY <3>3, <4>1, <4>2, <4>3
    <3>7. up = {Tail(q) : q \in below}
      BY <2>2
    <3> HIDE DEF up, down, below, name
    <3> QED
      BY <3>5, <3>6, <3>7
  <2> QED
    BY <2>1, <2>2
<1> HIDE DEF common, up, down
<1>6. Prepared(a) = GenerateDKMSConf(Flatten(tree))
  BY DEF Prepared, tree
<1>7. GenerateDKMSConf(Flatten(tree))
          = [p \in up \cup conf |-> IF p \in conf THEN "generated" ELSE K(down(p))]
  <2> DEFINE flat == [p \in up |-> K(down(p))]
  <2>1. DOMAIN flat = up /\ \A p \in up : flat[p] = K(down(p))
    OBVIOUS
  <2>2. CASE <<"dkms.conf.in">> \notin up
    <3>1. GenerateDKMSConf(flat) = flat /\ conf = {}
      BY <2>1, <2>2 DEF GenerateDKMSConf
    <3> QED
      BY <1>5, <3>1
  <2>3. CASE <<"dkms.conf.in">> \in up
    <3>1. GenerateDKMSConf(flat) = With(flat, <<"dkms.conf">>, "generated")
      BY <2>1, <2>3 DEF GenerateDKMSConf
    <3>2. Parents(<<"dkms.conf">>) = {}
      BY DEF Parents
    <3>3. conf = {<<"dkms.conf">>}
      BY <2>3
    <3> DEFINE made == <<"dkms.conf">>
    <3> HIDE DEF flat, made, conf
    <3>4. With(flat, made, "generated") = [p \in DOMAIN flat \cup {} \cup {made} |->
              IF p = made THEN "generated" ELSE IF p \in DOMAIN flat THEN flat[p] ELSE "dir"]
      BY <3>2 DEF With, made
    <3>5. With(flat, made, "generated") = [p \in up \cup {made} |->
              IF p \in {made} THEN "generated" ELSE K(down(p))]
      BY <2>1, <3>4
    <3> QED
      BY <1>5, <3>1, <3>3, <3>5 DEF flat, made
  <2> QED
    BY <2>2, <2>3
<1> QED
  BY <1>1, <1>6, <1>7

(***************************************************************************)
(* The sources that DKMS is given.                                         *)
(*                                                                         *)
(* An attempt may break off, be killed and begin again anywhere.  What the *)
(* agent hands on is what extraction and preparation made of one archive,  *)
(* and that is what was packed (PreparedIsPacked).                         *)
(***************************************************************************)
\* The servers' archives are trees, a download of one that stops short is noticed, and
\* none is a zip with links.
ArchivesAreSound == \A a \in Archives : IsSound(a)

\* The source directory changes when a whole archive was prepared, or with the container.
LEMMA SourceSteps ==
    ASSUME ArchivesAreSound, [Next]_vars
    PROVE  \/ UNCHANGED srcdir
           \/ srcdir' = NoSource
           \/ \E a \in Archives : srcdir' = [archive |-> a, tree |-> Packed(a)]
<1>1. CASE FetchSource
  <2>1. PICK a \in Archives : UseSource(a, a)
    BY <1>1 DEF FetchSource
  <2>2. CASE Prepares(a)
    <3>1. Prepared(a) = Packed(a)
      BY PreparedIsPacked, ArchivesAssumption DEF ArchivesAreSound, IsSound, IsArchive
    <3>2. \/ srcdir' = [archive |-> a, tree |-> Prepared(a)]
          \/ UNCHANGED srcdir
      BY <2>1, <2>2 DEF UseSource
    <3> QED
      BY <3>1, <3>2
  <2>3. CASE ~Prepares(a)
    BY <2>1, <2>3 DEF UseSource
  <2> QED
    BY <2>2, <2>3
<1>2. CASE FetchBreaks
  <2>1. PICK a \in Archives : \E n \in 0..(Len(a.entries) - 1) :
            IF NoticesEnd(a) THEN Fail /\ UNCHANGED srcdir ELSE UseSource(a, Cut(a, n))
    BY <1>2 DEF FetchBreaks
  <2>2. NoticesEnd(a)
    BY DEF ArchivesAreSound, IsSound
  <2> QED
    BY <2>1, <2>2
<1>3. CASE AddSource \/ RunCommand \/ InstallModule \/ CreateFile \/ CopyFile \/ LoadModule
  BY <1>3 DEF AddSource, RunCommand, InstallModule, CreateFile, CopyFile, LoadModule
<1>4. CASE StepFails \/ CopyBreaks
  BY <1>4 DEF StepFails, CopyBreaks
<1>5. CASE RestartAgent \/ Reboot \/ RollOut
  BY <1>5 DEF RestartAgent, Reboot, RollOut, StartContainer
<1>6. CASE (\E flags \in Flags : EditTemplate(flags)) \/ UNCHANGED vars
  BY <1>6 DEF EditTemplate, vars
<1> QED
  BY <1>1, <1>2, <1>3, <1>4, <1>5, <1>6 DEF Next, EnsureDriver

\* From sound archives DKMS is given whole sources, whatever breaks off and begins anew:
\* no directory is left half written, or from an earlier attempt.
THEOREM WholeSourcesAreAdded ==
    ASSUME ArchivesAreSound PROVE Spec => []AddedSourceIsWhole
<1>1. Init => AddedSourceIsWhole
  BY DEF Init, AddedSourceIsWhole
<1>2. AddedSourceIsWhole /\ [Next]_vars => AddedSourceIsWhole'
  <2> SUFFICES ASSUME AddedSourceIsWhole, [Next]_vars PROVE AddedSourceIsWhole'
    OBVIOUS
  <2>1. CASE UNCHANGED srcdir \/ srcdir' = NoSource
    BY <2>1 DEF AddedSourceIsWhole
  <2>2. ASSUME NEW a \in Archives, srcdir' = [archive |-> a, tree |-> Packed(a)]
        PROVE  AddedSourceIsWhole'
    <3>1. srcdir'.archive = a /\ srcdir'.tree = Packed(a)
      BY <2>2, Zenon
    <3> QED
      BY <3>1 DEF AddedSourceIsWhole
  <2> QED
    BY <2>1, <2>2, SourceSteps
<1> QED
  BY <1>1, <1>2, PTL DEF Spec
=============================================================================
