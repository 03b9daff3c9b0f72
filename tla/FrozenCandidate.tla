--------------------------- MODULE FrozenCandidate ---------------------------
(***************************************************************************)
(* A candidate is read three times: frozen against the listing of its base *)
(* tree, rebuilt in a Sandbox to be verified, and written to GitHub to be  *)
(* published.  Each reading has rules of its own; what was verified is     *)
(* what is published only if they agree.                                   *)
(*                                                                         *)
(* A path is a sequence of names.  A tree maps the paths of its leaves to  *)
(* a mode and a content, and a content is its length: only the difference  *)
(* and the size of two contents are ever looked at.                        *)
(***************************************************************************)
EXTENDS Integers, FiniteSets, SequencesExt, FiniteSetsExt

CONSTANTS
    Fold,              \* candidatePathKey of a name: its lower case
    Denied,            \* the names, folded, no segment may have
    Protected,         \* the names, folded, no file may have
    Workflows,         \* the folded path of the workflow directory
    Generated,         \* the first names of what a build may leave behind
    MaxPathDepth, MaxChangedFiles, MaxFileBytes, MaxTotalResultBytes

Absent == -1

CandidatePathKey(path) == [i \in DOMAIN path |-> Fold[path[i]]]

\* candidatePath does not throw.
CandidatePath(path) ==
    /\ Len(path) \in 1..MaxPathDepth
    /\ Range(CandidatePathKey(path)) \cap Denied = {}
    /\ Last(CandidatePathKey(path)) \notin Protected

PathsConflict(left, right) == IsStrictPrefix(left, right) \/ IsStrictPrefix(right, left)

Ancestors(path) == {SubSeq(path, 1, n) : n \in 1..(Len(path) - 1)}

\* A change of a proposal, and of a frozen candidate: base is the content the
\* change expects to find and result the one it leaves, Absent if none.
WellFormed(change) ==
    /\ change.operation \in {"add", "modify", "delete"}
    /\ (change.operation = "add") = (change.base = Absent)
    /\ (change.operation = "delete") = (change.result = Absent)
    /\ change.result = Absent \/ change.result \in 1..MaxFileBytes

TotalResultBytes(changes) ==
    FoldLeft(LAMBDA total, c : IF c.result = Absent THEN total ELSE total + c.result, 0, changes)

\* normalizeCandidateProposal accepts a proposal, and computeCandidateIdentity
\* what was frozen of it: both check the paths, the sizes and the collisions.
NormalizeCandidateProposal(changes) ==
    /\ Len(changes) \in 1..MaxChangedFiles
    /\ \A i \in DOMAIN changes : WellFormed(changes[i]) /\ CandidatePath(changes[i].path)
    /\ TotalResultBytes(changes) <= MaxTotalResultBytes
    /\ \A i, j \in DOMAIN changes : i < j =>
          LET left == CandidatePathKey(changes[i].path)
              right == CandidatePathKey(changes[j].path)
          IN  left # right /\ ~PathsConflict(left, right)

\* What is at each path once the changes are made; what they write has this mode.
Changed(leaves, changes, mode) ==
    LET At(path) == {c \in Range(changes) : c.path = path}
        kept == {p \in DOMAIN leaves : At(p) = {}}
        written == {c.path : c \in {d \in Range(changes) : d.operation # "delete"}}
    IN  [p \in kept \cup written |->
            IF p \in written THEN [mode |-> mode, content |-> (CHOOSE c \in At(p) : TRUE).result] ELSE leaves[p]]
----------------------------------------------------------------------------
\* First reading: the listing of the base tree, with its directories.

Directories(tree) == UNION {Ancestors(p) : p \in DOMAIN tree}
Listing(tree) == DOMAIN tree \cup Directories(tree)
FoldedCount(tree, path) ==
    Cardinality({p \in Listing(tree) : CandidatePathKey(p) = CandidatePathKey(path)})

Plain(content) == [mode |-> "100644", content |-> content]

\* validateBase finds no reason against one change.
Adds(tree, path) == FoldedCount(tree, path) = 0 /\ Ancestors(path) \cap DOMAIN tree = {}
Finds(tree, change) ==
    /\ change.path \in DOMAIN tree
    /\ FoldedCount(tree, change.path) = 1
    /\ tree[change.path] = Plain(change.base)
    /\ change.base <= MaxFileBytes
    /\ change.operation = "modify" => change.result # change.base

ValidateBase(tree, changes) ==
    \A c \in Range(changes) : IF c.operation = "add" THEN Adds(tree, c.path) ELSE Finds(tree, c)

\* freezeCandidate stores the changes, and refuses them if they have no identity.
Freezes(tree, changes) == NormalizeCandidateProposal(changes) /\ ValidateBase(tree, changes)
----------------------------------------------------------------------------
\* Second reading: the manifest of the extracted archive.  It has no directories,
\* and no submodules.

ManifestEntry == [m \in {"100644", "100755", "120000"} |->
    CASE m = "100644" -> 644 [] m = "100755" -> 755 [] m = "120000" -> 0]

Manifest(tree) ==
    [p \in {q \in DOMAIN tree : tree[q].mode \in DOMAIN ManifestEntry} |->
        [mode |-> ManifestEntry[tree[p].mode], content |-> tree[p].content]]

RegularFile(content) == [mode |-> 644, content |-> content]

\* expectedCandidateManifest does not throw.
Expectable(base, changes) ==
    \A c \in Range(changes) :
        IF c.operation = "add"
        THEN c.path \notin DOMAIN base /\ \A p \in DOMAIN base : ~PathsConflict(p, c.path)
        ELSE c.path \in DOMAIN base /\ base[c.path] = RegularFile(c.base)

ExpectedCandidateManifest(base, changes) == Changed(base, changes, 644)

\* applyCandidate: additions make their directories and deletions unlink, one after
\* the other in the order of the paths; then everything with a result is written.
\* A directory that loses its last file stays.
Disk(base) == [files |-> base, directories |-> Directories(base), failed |-> FALSE]

Lay(disk, change) ==
    LET p == change.path
        Add == [disk EXCEPT !.directories = @ \cup Ancestors(p),
                            !.failed = @ \/ p \in DOMAIN disk.files \cup disk.directories
                                         \/ Ancestors(p) \cap DOMAIN disk.files # {}]
        Delete == [disk EXCEPT !.files = [q \in DOMAIN @ \ {p} |-> @[q]],
                               !.failed = @ \/ p \notin DOMAIN disk.files \/ disk.files[p].mode = 0]
    IN  CASE change.operation = "add" -> Add
          [] change.operation = "delete" -> Delete
          [] OTHER -> disk

Write(disk, change) ==
    IF change.operation = "delete" THEN disk
    ELSE [disk EXCEPT !.files = [q \in DOMAIN @ \cup {change.path} |->
                                    IF q = change.path THEN RegularFile(change.result) ELSE @[q]]]

ApplyCandidate(base, changes) == FoldLeft(Write, FoldLeft(Lay, Disk(base), changes), changes)

\* captureRepositoryManifest looks at every path of the manifest it is given, and fails
\* at one that is gone; of the others it leaves out what a build generates.
Capturable(disk, given) == DOMAIN given \subseteq DOMAIN disk.files

CaptureRepositoryManifest(disk, given) ==
    [p \in {q \in DOMAIN disk.files : q \in DOMAIN given \/ Head(q) \notin Generated} |-> disk.files[p]]

\* candidateReconstruction is 'valid': the manifest after the change, captured against
\* the pristine one, is the expected one.
Reconstructs(base, changes) ==
    LET disk == ApplyCandidate(base, changes)
    IN  /\ Expectable(base, changes) /\ ~disk.failed
        /\ Capturable(disk, base)
        /\ CaptureRepositoryManifest(disk, base) = ExpectedCandidateManifest(base, changes)
----------------------------------------------------------------------------
\* Third reading: the Git objects of the publication.

RECURSIVE CalculateTree(_)

\* The object of a directory: its entries by name, and the objects of its subdirectories.
CalculateTree(leaves) ==
    LET below(name) == {p \in DOMAIN leaves : Len(p) > 1 /\ Head(p) = name}
        Subtree(name) == [q \in {Tail(p) : p \in below(name)} |-> leaves[<<name>> \o q]]
    IN  {<<Head(p), leaves[p].mode, leaves[p].content>> : p \in {q \in DOMAIN leaves : Len(q) = 1}}
        \cup {<<name, "40000", CalculateTree(Subtree(name))>> :
                name \in {Head(p) : p \in {q \in DOMAIN leaves : Len(q) > 1}}}

IsWorkflowPath(path) == IsStrictPrefix(Workflows, CandidatePathKey(path))

\* prepareGitPublication does not throw, for the base tree object and its listing.
Preparable(object, listed, changes) ==
    /\ CalculateTree(listed) = object
    /\ Len(changes) \in 1..MaxChangedFiles
    /\ TotalResultBytes(changes) <= MaxTotalResultBytes
    /\ \A i, j \in DOMAIN changes : i < j =>
          CandidatePathKey(changes[i].path) # CandidatePathKey(changes[j].path)
    /\ \A c \in Range(changes) :
          /\ WellFormed(c) /\ CandidatePath(c.path) /\ ~IsWorkflowPath(c.path)
          /\ IF c.operation = "add"
             THEN /\ FoldedCount(listed, c.path) = 0
                  /\ \A a \in Ancestors(c.path) : FoldedCount(listed, a) # 0 =>
                        FoldedCount(listed, a) = 1 /\ a \in Directories(listed)
             ELSE /\ c.path \in DOMAIN listed
                  /\ listed[c.path] = Plain(c.base) /\ FoldedCount(listed, c.path) = 1

PrepareGitPublication(listed, changes) == Changed(listed, changes, "100644")

\* verifyPreparedTree: what GitHub lists of the tree it made is what was prepared.
VerifyPreparedTree(prepared, listed) ==
    listed = prepared /\ CalculateTree(listed) = CalculateTree(prepared)
----------------------------------------------------------------------------
\* A new file below a directory that differs from an existing entry in case only:
\* freezing compares ancestors exactly, publishing compares them folded.
CaseVariantAncestor(tree, changes) ==
    \E c \in Range(changes) : c.operation = "add" /\
        \E a \in Ancestors(c.path), p \in Listing(tree) :
            CandidatePathKey(p) = CandidatePathKey(a) /\ (p # a \/ FoldedCount(tree, a) # 1)

\* What was frozen is applied as it is expected, but its manifest cannot be captured if
\* a path was deleted, and differs if one was added where builds leave files; a
\* publication changes what was verified and nothing else, and is refused for two
\* reasons only.
ReadingsAgree(tree, changes) ==
    LET base == Manifest(tree)
        expected == ExpectedCandidateManifest(base, changes)
        disk == ApplyCandidate(base, changes)
        published == PrepareGitPublication(tree, changes)
    IN  Freezes(tree, changes) =>
            /\ Expectable(base, changes) /\ ~disk.failed /\ disk.files = expected
            /\ Reconstructs(base, changes) <=>
                 \A c \in Range(changes) :
                    c.operation # "delete" /\ (c.operation = "add" => Head(c.path) \notin Generated)
            /\ Manifest(published) = expected
            /\ {p \in DOMAIN published : published[p].mode = "160000"}
                 = {p \in DOMAIN tree : tree[p].mode = "160000"}
            /\ VerifyPreparedTree(published, published)
            /\ CalculateTree(published) # CalculateTree(tree)
            /\ Preparable(CalculateTree(tree), tree, changes) <=>
                 ~ \/ \E c \in Range(changes) : IsWorkflowPath(c.path)
                   \/ CaseVariantAncestor(tree, changes)

\* A tree object names its leaves: a listing that lost or gained one is refused.
ObjectsDiffer(trees) == Cardinality({CalculateTree(t) : t \in trees}) = Cardinality(trees)
=============================================================================
