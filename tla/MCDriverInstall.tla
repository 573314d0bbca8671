-------------------------- MODULE MCDriverInstall --------------------------
(***************************************************************************)
(* Instances of DriverInstall for TLC.                                     *)
(***************************************************************************)
EXTENDS DriverInstall

CONSTANTS r1, r2

Entry(path, kind) == [path |-> path, kind |-> kind]

\* GitHub's archive of a tag: everything below one directory.
Nested ==
    <<Entry(<<"repo">>, "dir"), Entry(<<"repo", "dkms.conf.in">>, "file"),
      Entry(<<"repo", "src">>, "dir"), Entry(<<"repo", "src", "cxi.c">>, "file")>>

\* A tar that has no entries for directories, with a global header and a link.
Flat ==
    <<Entry(<<"pax_global_header">>, "header"), Entry(<<"dkms.conf">>, "file"),
      Entry(<<"src", "cxi.c">>, "file"), Entry(<<"src", "ss1.c">>, "link")>>

\* The repository has a directory of its own name.
OwnName == Append(Nested, Entry(<<"repo", "repo">>, "dir"))

\* A link before what it is beside.
LinkFirst == <<Entry(<<"src", "ss1.c">>, "link")>> \o Flat

\* An entry that does not stay in the source directory.
Escaping == Append(Flat, Entry(<<"repo">>, "outside"))

Archive(format, length, entries) == [format |-> format, length |-> length, entries |-> entries]

GoodArchives == {Archive("zip", TRUE, Nested), Archive("tgz", FALSE, Flat)}

AllArchives ==
    {Archive(format, length, entries) :
        format \in Formats, length \in BOOLEAN,
        entries \in {Nested, Flat, OwnName, LinkFirst, Escaping}}

\* The hypotheses of the theorem about the sources are true of the first, but for a zip's
\* links of the others as well.
ASSUME GoodArchivesKeep == \A a \in GoodArchives : KeepsLinks(a)
ASSUME ArchivesAreTrees == \A a \in AllArchives : PacksATree(a)
=============================================================================
