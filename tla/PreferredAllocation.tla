------------------------ MODULE PreferredAllocation ------------------------
(***************************************************************************)
(* GetPreferredAllocation of the device plugin: which of the available     *)
(* devices a container should be given.  The request and the discovered    *)
(* devices are inputs; the answer is compared with what the comments and   *)
(* tests of selectPreferredDevices say of it.                              *)
(*                                                                         *)
(* The kubelet asks with distinct ids, and lists what must be included     *)
(* among the available ones.  An id may be unknown to the plugin: the      *)
(* kubelet still has the list of the plugin that ran before.               *)
(***************************************************************************)
EXTENDS Integers, FiniteSets, Sequences, SequencesExt, FiniteSetsExt

CONSTANTS
    Devices,  \* ids of devices, of virtual ones in shared mode
    Mode,     \* "shared" or "exclusive"
    MaxNode   \* bound: NUMA nodes are 0..MaxNode

ASSUME PreferredDevicesAssumption == IsFiniteSet(Devices)
ASSUME PreferredModeAssumption == Mode \in {"shared", "exclusive"}
ASSUME MaxNodeAssumption == MaxNode \in Nat

VARIABLES
    numa,    \* the NUMA node of each discovered device
    asked,   \* the request: available, must, count
    answer   \* the ids preferred, once it is answered

vars == <<numa, asked, answer>>

-----------------------------------------------------------------------------
NoNode == -1
Nodes == 0..MaxNode

Firsts(s, n) == SubSeq(s, 1, IF Len(s) < n THEN Len(s) ELSE n)

\* What a loop over s appends: its elements that are in S, in the order of s.
Kept(s, S) ==
    LET places == {n \in 1..Len(s) : s[n] \in S}
        before(n) == {m \in places : m < n}
    IN  [k \in 1..Cardinality(places) |->
            s[CHOOSE n \in places : Cardinality(before(n)) = k - 1]]

Known(id) == id \in DOMAIN numa /\ numa[id] # NoNode

\* A map of Go yields 0 for a key it does not have.
Node(id) == IF id \in DOMAIN numa THEN numa[id] ELSE 0

\* The node of the first device of s that has one.
FirstNode(s) ==
    LET known == {n \in 1..Len(s) : Known(s[n])}
    IN  IF known = {} THEN NoNode ELSE Node(s[Min(known)])

\* The required devices come before the others.
PreferredNode(available, must) == FirstNode(must \o available)

Near(available, must) == {id \in ToSet(available) : Node(id) = PreferredNode(available, must)}

\* Slip: the devices that must be included are not kept apart.
NearThenFarOfAll(available, must) ==
    LET near == Near(available, must)
    IN  Kept(available, near) \o Kept(available, ToSet(available) \ near)

\* Slip: the devices of other nodes come first.
FarThenNear(available, must) ==
    LET rest == ToSet(available) \ ToSet(must)
        near == rest \cap Near(available, must)
    IN  Kept(available, rest \ near) \o Kept(available, near)

NearThenFar(available, must) ==
    LET rest == ToSet(available) \ ToSet(must)
        near == rest \cap Near(available, must)
    IN  Kept(available, near) \o Kept(available, rest \ near)

\* Slip: what must be included comes last.
SelectRequiredLast(available, must, count) ==
    IF count <= 0 THEN <<>>
    ELSE Firsts(NearThenFar(available, must) \o must, count)

SelectPreferredDevices(available, must, count) ==
    IF count <= 0 THEN <<>>
    ELSE IF Mode = "shared" THEN Firsts(available, count)
    ELSE Firsts(must \o NearThenFar(available, must), count)

-----------------------------------------------------------------------------
Unanswered == <<"unanswered">>

Sequences(S) == UNION {SetToSeqs(T) : T \in SUBSET S}

Init ==
    /\ numa \in UNION {[D -> Nodes \cup {NoNode}] : D \in SUBSET Devices}
    /\ \E available \in Sequences(Devices) : \E must \in Sequences(ToSet(available)) :
          \E count \in -1..(Cardinality(Devices) + 1) :
              asked = [available |-> available, must |-> must, count |-> count]
    /\ answer = Unanswered

GetPreferredAllocation ==
    /\ answer = Unanswered
    /\ answer' = SelectPreferredDevices(asked.available, asked.must, asked.count)
    /\ UNCHANGED <<numa, asked>>

Next == GetPreferredAllocation

Spec == Init /\ [][Next]_vars

-----------------------------------------------------------------------------
(***************************************************************************)
(* Properties.                                                             *)
(***************************************************************************)

Answered == answer # Unanswered
Chosen == ToSet(answer)
Available == ToSet(asked.available)
Must == ToSet(asked.must)

\* As many distinct available devices as asked for, or all of them.
AnswersTheRequest ==
    Answered =>
        /\ Chosen \subseteq Available
        /\ Len(answer) = Cardinality(Chosen)
        /\ Len(answer) = LET n == Cardinality(Available)
                         IN  IF asked.count <= 0 THEN 0
                             ELSE IF asked.count < n THEN asked.count ELSE n

\* "It ensures mustInclude devices are always in the result", unless they are more than
\* are asked for.
MustIncludeIsKept ==
    Answered /\ Len(asked.must) <= asked.count => Must \subseteq Chosen

\* The remaining slots are filled with devices of the node of the first required device
\* that has one: none of these is left out for a device elsewhere.
NearIsPreferred ==
    (Answered /\ \E id \in Must : Known(id)) =>
        \A id \in Chosen \ Must, other \in Available \ Chosen :
            Known(id) /\ Known(other) /\ Node(other) = FirstNode(asked.must)
                => Node(id) = FirstNode(asked.must)

\* "It tries to allocate devices from the same NUMA node when possible": when one node
\* has enough of the available devices, and all are known, they are all of one node.
OneNodeWhenPossible ==
    LET enough(n) == \E D \in SUBSET {id \in Available : Known(id) /\ Node(id) = n} :
                         Cardinality(D) = asked.count /\ Must \subseteq D
    IN  Answered /\ asked.count > 0 /\ (\A id \in Available : Known(id)) /\ (\E n \in Nodes : enough(n))
            => \E n \in Nodes : \A id \in Chosen : Node(id) = n
=============================================================================
