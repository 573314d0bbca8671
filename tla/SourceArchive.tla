--------------------------- MODULE SourceArchive ---------------------------
(***************************************************************************)
(* The sources that are downloaded for DKMS: what downloadAndExtract and   *)
(* prepareDKMSSource of pkg/driveragent/download.go make of an archive.    *)
(*                                                                         *)
(* A path is the sequence of its names, an archive a sequence of entries,  *)
(* and a tree gives each path below the source directory its kind.  Of     *)
(* contents only dkms.conf matters, which is generated or not.             *)
(***************************************************************************)
EXTENDS Integers, Sequences

Formats == {"tar", "tgz", "zip"}
Kinds == {"dir", "file", "link", "header", "outside"}

\* A tar's header is not extracted, an entry whose path leads out of dest refused.
Unextracted == {"header", "outside"}

Parents(path) == {SubSeq(path, 1, n) : n \in 1..(Len(path) - 1)}

\* tree with path of the given kind, below directories that are made where missing
With(tree, path, kind) ==
    [p \in DOMAIN tree \cup Parents(path) \cup {path} |->
        IF p = path THEN kind ELSE IF p \in DOMAIN tree THEN tree[p] ELSE "dir"]

Empty == [p \in {} |-> "dir"]

\* One turn of the loop of extractTar or extractZip.  A zip's links are written as the
\* files they are stored as; what else a tar has is skipped.
ExtractEntry(format, tree, entry) ==
    IF entry.kind \in Unextracted THEN tree
    ELSE With(tree, entry.path,
              IF format = "zip" /\ entry.kind = "link" THEN "file" ELSE entry.kind)

\* The trees after each number of entries.
Extract(archive) ==
    LET tree[n \in 0..Len(archive.entries)] ==
            IF n = 0 THEN Empty
            ELSE ExtractEntry(archive.format, tree[n - 1], archive.entries[n])
    IN  tree

\* Extraction ends at an entry that leads out of dest, and at a link whose directory is
\* not there yet: os.Symlink, unlike the other two, needs it.
Extracts(archive) ==
    \A n \in 1..Len(archive.entries) :
        /\ archive.entries[n].kind # "outside"
        /\ archive.format # "zip" /\ archive.entries[n].kind = "link" =>
              Parents(archive.entries[n].path) \subseteq DOMAIN Extract(archive)[n - 1]

\* What is at the top of a tree.
Top(tree) == {p \in DOMAIN tree : Len(p) = 1}

\* Exactly one directory, as GitHub's archives have it.
IsNested(tree) == \E t \in Top(tree) : Top(tree) = {t} /\ tree[t] = "dir"

\* Its entries cannot be moved up when one of them has its name.
Flattens(tree) == IsNested(tree) => \A t \in Top(tree) : (t \o t) \notin DOMAIN tree

Flatten(tree) ==
    IF ~IsNested(tree) THEN tree
    ELSE [p \in {Tail(q) : q \in DOMAIN tree \ Top(tree)} |->
             tree[(CHOOSE t \in Top(tree) : TRUE) \o p]]

GenerateDKMSConf(tree) ==
    IF <<"dkms.conf.in">> \in DOMAIN tree THEN With(tree, <<"dkms.conf">>, "generated") ELSE tree

\* Extraction and prepareDKMSSource, and whether they go through.
Prepared(archive) == GenerateDKMSConf(Flatten(Extract(archive)[Len(archive.entries)]))
Prepares(archive) == Extracts(archive) /\ Flattens(Extract(archive)[Len(archive.entries)])

\* Slip: the end of the gzip stream is the end of the archive, however it ends.
NoticesEndOfZip(archive) == archive.format = "zip"

\* Whether a download that stops short is noticed: by the directory at the end of a zip,
\* by gzip's checksum, or by HTTP when the server gave the length.
NoticesEnd(archive) == archive.format \in {"zip", "tgz"} \/ archive.length

\* What has arrived of an archive after n entries.
Cut(archive, n) == [archive EXCEPT !.entries = SubSeq(@, 1, n)]

-----------------------------------------------------------------------------
(***************************************************************************)
(* The sources as their author packed them: every path that is named or on *)
(* the way to one, with its kind, below the one directory that all have in *)
(* common, and dkms.conf for this release if there is a template for it.   *)
(***************************************************************************)
Named(archive) ==
    {e \in {archive.entries[n] : n \in 1..Len(archive.entries)} : e.kind \notin Unextracted}

PackedPaths(archive) == UNION {Parents(e.path) \cup {e.path} : e \in Named(archive)}

PackedKind(archive, p) ==
    IF \E e \in Named(archive) : e.path = p /\ e.kind # "dir"
    THEN (CHOOSE e \in Named(archive) : e.path = p).kind ELSE "dir"

\* What is packed has one kind, and only a directory has something below it.  The
\* directory that everything is in has no entry.
PacksATree(archive) ==
    \A e, f \in Named(archive) :
        /\ e.path # <<>>
        /\ f.path = e.path => f.kind = e.kind
        /\ f.path \in Parents(e.path) => f.kind = "dir"

\* A link that a zip has comes out as a file.
KeepsLinks(archive) == archive.format = "zip" => \A e \in Named(archive) : e.kind # "link"

\* An archive the sources survive in.
IsSound(archive) == NoticesEnd(archive) /\ PacksATree(archive) /\ KeepsLinks(archive)

Packed(archive) ==
    LET paths == PackedPaths(archive)
        common == \E t \in paths :
                     PackedKind(archive, t) = "dir" /\ \A p \in paths : p[1] = t[1]
        up == IF common THEN {Tail(p) : p \in {q \in paths : Len(q) > 1}} ELSE paths
        down(p) == IF common THEN (CHOOSE q \in paths : Len(q) > 1 /\ Tail(q) = p) ELSE p
        conf == IF <<"dkms.conf.in">> \in up THEN {<<"dkms.conf">>} ELSE {}
    IN  [p \in up \cup conf |->
            IF p \in conf THEN "generated" ELSE PackedKind(archive, down(p))]
=============================================================================
