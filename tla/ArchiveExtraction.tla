-------------------------- MODULE ArchiveExtraction --------------------------
(***************************************************************************)
(* The trusted harness that unpacks the archive GitHub produced into the   *)
(* Sandbox (SAFE_ARCHIVE_EXTRACTION_SCRIPT): a machine that is fed the     *)
(* inflated stream chunk by chunk, wherever the chunks happen to end.      *)
(*                                                                         *)
(* A stream is a sequence of units, two to a block.  The first unit of a   *)
(* header is the entry it announces (its second "rest"), the unit of a     *)
(* body is "byte", or the commit a global header names.                    *)
(***************************************************************************)
EXTENDS Naturals, SequencesExt

CONSTANTS
    Expected,    \* expectedCommitSha
    MaxDepth,    \* maximumDepth
    MaxEntries,  \* maximumEntries
    MaxFile,     \* maximumFileBytes, in units
    MaxTotal,    \* maximumTotalFileBytes, in units
    MaxTar       \* maximumTarBytes, in units

BlockSize == 2
Zeros == <<"zero", "zero">>

\* An entry: its kind, its path from the root of the archive down, its size.
Entry(kind, path, size) == [kind |-> kind, path |-> path, size |-> size]
IsHeader(block) == "kind" \in DOMAIN block[1] /\ block[2].body = "rest"

Unit(body) == [body |-> body]
None == Unit("none")
----------------------------------------------------------------------------
Machine == [
    failed |-> FALSE, pending |-> << >>, current |-> None, read |-> 0,
    entries |-> 0, total |-> 0, zeroBlocks |-> 0, ended |-> FALSE,
    archiveRoot |-> << >>, rootSeen |-> FALSE, paxCommit |-> "none",
    paths |-> << >>,      \* paths: from the relative path to its kind
    open |-> 0]           \* descriptors that are open

Fail(x) == [x EXCEPT !.failed = TRUE]
Padding(size) == size % BlockSize

\* The global header comes first, once, and names the expected commit.
AcceptGlobalPax(x, body) ==
    IF x.paxCommit # "none" \/ x.entries # 0 \/ x.archiveRoot # << >> \/ body # <<Expected>>
    THEN Fail(x) ELSE [x EXCEPT !.paxCommit = body[1]]

Above(path) == {SubSeq(path, 1, n) : n \in 1..Len(path) - 1}
AddPath(x, path, kind) ==
    IF \/ path \in DOMAIN x.paths
       \/ \E up \in Above(path) \cap DOMAIN x.paths : x.paths[up] = "file"
       \/ kind = "file" /\ \E old \in DOMAIN x.paths : path \in Above(old)
       \/ x.entries >= MaxEntries
    THEN Fail(x)
    ELSE [x EXCEPT !.paths = (path :> kind) @@ @, !.entries = @ + 1]

Begun(x, entry) ==
    [x EXCEPT !.current = [kind |-> entry.kind, body |-> << >>, remaining |-> entry.size,
                           padding |-> Padding(entry.size)]]

Normal(path) ==
    path # << >> /\ Range(path) \cap {"", ".", ".."} = {} /\ Len(path) - 1 <= MaxDepth

BeginPath(x, entry) ==
    LET root == <<entry.path[1]>>
        path == Tail(entry.path)
        y == [x EXCEPT !.archiveRoot = IF @ = << >> THEN root ELSE @]
        added == AddPath(y, path, entry.kind)
    IN  IF \/ root # y.archiveRoot
           \/ entry.kind \notin {"file", "directory"}
           \/ entry.kind = "directory" /\ entry.size # 0
        THEN Fail(x)
        ELSE IF path = << >>
        THEN IF entry.kind # "directory" \/ x.rootSeen THEN Fail(x)
             ELSE Begun([y EXCEPT !.rootSeen = TRUE], entry)
        ELSE IF added.failed \/ entry.kind = "directory" THEN Begun(added, entry)
        ELSE IF entry.size > MaxFile \/ x.total + entry.size > MaxTotal THEN Fail(x)
        ELSE Begun([added EXCEPT !.total = @ + entry.size, !.open = @ + 1], entry)

BeginEntry(x, block) ==
    IF block = <<Unit("zero"), Unit("zero")>>
    THEN [x EXCEPT !.zeroBlocks = @ + 1, !.ended = x.zeroBlocks >= 1]
    ELSE IF x.zeroBlocks # 0 \/ ~IsHeader(block) THEN Fail(x)
    ELSE IF block[1].kind = "global" THEN Begun(x, block[1])
    ELSE IF Normal(block[1].path) THEN BeginPath(x, block[1]) ELSE Fail(x)
----------------------------------------------------------------------------
\* The body of the current entry, as far as the pending units go.
TakeBody(x) ==
    LET length == Min({x.current.remaining, Len(x.pending)})
        body == x.current.body \o SubSeq(x.pending, 1, length)
        y == [x EXCEPT !.pending = SubSeq(@, length + 1, Len(@)),
                       !.current.remaining = @ - length,
                       !.current.body = IF x.current.kind = "global" THEN body ELSE @]
    IN  IF y.current.remaining # 0 THEN y
        ELSE IF y.current.kind = "global" THEN AcceptGlobalPax(y, [i \in DOMAIN body |-> body[i].body])
        ELSE [y EXCEPT !.open = @ - 1]

RECURSIVE Consume(_)
Consume(x) ==
    IF x.failed THEN x
    ELSE IF x.ended
    THEN IF \E i \in DOMAIN x.pending : x.pending[i] # Unit("zero") THEN Fail(x)
         ELSE [x EXCEPT !.pending = << >>]
    ELSE IF x.current = None
    THEN IF Len(x.pending) < BlockSize THEN x
         ELSE Consume(BeginEntry([x EXCEPT !.pending = SubSeq(@, BlockSize + 1, Len(@))],
                                 SubSeq(x.pending, 1, BlockSize)))
    ELSE LET y == IF x.current.remaining > 0 THEN TakeBody(x) ELSE x
         IN  IF y.failed \/ y.current.remaining > 0 \/ Len(y.pending) < y.current.padding THEN y
             ELSE Consume([y EXCEPT !.pending = SubSeq(@, y.current.padding + 1, Len(@)),
                                    !.current = None])

Feed(x, chunk) ==
    LET y == [x EXCEPT !.read = @ + Len(chunk), !.pending = @ \o chunk]
    IN  IF x.failed \/ y.read > MaxTar THEN Fail(x) ELSE Consume(y)

\* Every chunk, then the verdict.
Extract(chunks) ==
    LET x == Consume(FoldLeft(Feed, Machine, chunks))
    IN  IF \/ ~x.ended \/ x.current # None \/ x.pending # << >> \/ x.archiveRoot = << >>
           \/ x.entries = 0 \/ x.paxCommit # Expected
        THEN Fail(x) ELSE x
----------------------------------------------------------------------------
\* The archive the entries make, followed by n zero blocks.
Block(entry, commit) ==
    LET bytes == [i \in 1..entry.size |-> IF entry.kind = "global" THEN Unit(commit) ELSE Unit("byte")]
        padding == [i \in 1..Padding(entry.size) |-> Unit("zero")]
    IN  <<entry @@ Unit("head"), Unit("rest")>> \o bytes \o padding

Archive(commit, entries, n) ==
    LET pax == Block(Entry("global", << >>, 1), commit)
        blocks == FlattenSeq([i \in DOMAIN entries |-> Block(entries[i], commit)])
    IN  pax \o blocks \o [i \in 1..n * BlockSize |-> Unit("zero")]

\* Where the chunks of a download end does not matter: in one piece, unit by
\* unit, or cut anywhere in two, the stream is accepted or refused alike.
CutsDoNotMatter(stream) ==
    LET whole == Extract(<<stream>>)
        Same(x) == x.failed = whole.failed /\ (~x.failed => x.paths = whole.paths)
    IN  /\ Same(Extract([i \in DOMAIN stream |-> <<stream[i]>>]))
        /\ \A i \in DOMAIN stream :
              Same(Extract(<<SubSeq(stream, 1, i), SubSeq(stream, i + 1, Len(stream))>>))

\* What a file tree is: one root, each path once, nothing below a file.
IsTree(entries) ==
    LET below == {i \in DOMAIN entries : Len(entries[i].path) > 1}
    IN  /\ \A i, j \in DOMAIN entries :
              /\ entries[i].path[1] = entries[j].path[1]
              /\ entries[i].path = entries[j].path => i = j
              /\ entries[i].path \in Above(entries[j].path) => entries[i].kind = "directory"
        /\ below # {} /\ Cardinality(below) <= MaxEntries
        /\ \A i \in DOMAIN entries :
              /\ Normal(entries[i].path)
              /\ entries[i].kind \in {"file", "directory"}
              /\ entries[i].size <= (IF entries[i].kind = "file" THEN MaxFile ELSE 0)
              /\ i \notin below => entries[i].kind = "directory"

\* An archive is unpacked exactly if it is a tree of the expected commit that is
\* ended as it should be, and then nothing is missing and nothing is added.
OnlyTreesAreUnpacked(commit, entries, n) ==
    LET x == Extract(<<Archive(commit, entries, n)>>)
    IN  /\ ~x.failed <=> commit = Expected /\ n >= 2 /\ IsTree(entries)
        /\ ~x.failed => x.paths = [path \in {Tail(e.path) : e \in {d \in Range(entries) : Len(d.path) > 1}} |->
                             (CHOOSE e \in Range(entries) : Tail(e.path) = path).kind]

\* A file is closed when its last byte is written: one that has none stays open
\* until the process ends.
EmptyFilesStayOpen(commit, entries, n) ==
    LET x == Extract(<<Archive(commit, entries, n)>>)
    IN  ~x.failed => x.open = Cardinality({i \in DOMAIN entries : entries[i].kind = "file" /\ entries[i].size = 0})
=============================================================================
