----------------------------- MODULE MCRepairRun -----------------------------
(* RepairRun on a small instance: two workers, two attempts.  The harness that *)
(* unpacks the source of a baseline is checked on small archives.              *)
EXTENDS RepairRun

CONSTANTS h1, h2

Harness == INSTANCE ArchiveExtraction WITH
    Expected <- "c1", MaxDepth <- 2, MaxEntries <- 2, MaxFile <- 2, MaxTotal <- 4, MaxTar <- 40

Directory(path) == Harness!Entry("directory", path, 0)
File(path, size) == Harness!Entry("file", path, size)
\* A tree's entries, and what no tree has: a file too large, one below a file, a second
\* root, a link, a path that climbs, a root that is a file, a late global header.
Entries == {Directory(<<"r">>), Directory(<<"r", "a">>),
            File(<<"r", "a">>, 0), File(<<"r", "a">>, 3), File(<<"r", "a", "b">>, 1),
            File(<<"q", "c">>, 2), File(<<"r", "c">>, 2), File(<<"r", "..", "b">>, 1),
            File(<<"r">>, 0), Harness!Entry("link", <<"r", "a">>, 0),
            Harness!Entry("global", <<"r">>, 1)}
Upto(n) == UNION {[1..k -> Entries] : k \in 0..n}

ASSUME TreesAreUnpacked ==
    \A entries \in Upto(3), commit \in {"c1", "c2"}, zeros \in 0..3 :
        /\ Harness!OnlyTreesAreUnpacked(commit, entries, zeros)
        /\ Harness!EmptyFilesStayOpen(commit, entries, zeros)
ASSUME StreamsMayBeCut ==
    \A entries \in Upto(2), commit \in {"c1", "c2"}, zeros \in 1..3 :
        Harness!CutsDoNotMatter(Harness!Archive(commit, entries, zeros))
=============================================================================
