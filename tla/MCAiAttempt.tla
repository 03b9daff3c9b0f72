---------------------------- MODULE MCAiAttempt ----------------------------
(* The AI jobs on a small instance: two workers, two attempts, two turns.   *)
(* What they are told of the source is checked on small indexes.            *)
EXTENDS AiAttempt, TLC

CONSTANTS h1, h2

Context == INSTANCE ContextReads WITH
    MaxListPaths <- 2, MaxFileBytes <- 3, MaxSearchCandidateFiles <- 2, MaxSearchMatches <- 2

\* Small, large, with matches or without, or not text; and entries that may be
\* searched, may not be read, are no blobs, or are answered with another file.
File(size, lines) == [size |-> size, text |-> TRUE, lines |-> lines]
Files == {File(n, l) : n \in {1, 4}, l \in {<<>>, <<1, 3>>}} \cup {[size |-> 2, text |-> FALSE, lines |-> <<>>]}
Indexed(file, answer, flags) ==
    [file |-> file, answer |-> answer, readable |-> "readable" \in flags,
     searchable |-> "searchable" \in flags, blob |-> "blob" \in flags]
Entry == {Indexed(f, f, {"readable", "blob"} \cup s) : f \in Files, s \in SUBSET {"searchable"}}
    \cup {Indexed(File(2, <<1, 3>>), File(1, <<2>>), {"readable", "searchable", "blob"}),
          Indexed(File(1, <<2>>), File(1, <<2>>), {"searchable", "blob"}),
          Indexed(File(1, <<2>>), File(1, <<2>>), {})}
Index(n) == {[i \in DOMAIN s |-> s[i] @@ [path |-> i]] : s \in UNION {[1..k -> Entry] : k \in 0..n}}

ASSUME ReadersAreHonest ==
    \A index \in Index(3), cut \in BOOLEAN :
        /\ \A reserved \in {0, 3, 5} : Context!SearchIsHonest(index, cut, reserved)
        /\ \A limit \in 0..3 : Context!ListIsHonest(index, cut, limit)
ASSUME FilesAreFrozen == \A index \in Index(2), i \in 0..3, answer \in Files : Context!ReadsAreFrozen(index, i, answer)
\* What a search leaves out it need not have left out.
ASSUME SomeSearchesAreCut ==
    /\ \E index \in Index(2) : Context!TruncationIsCautious(index, 5)
    /\ \E index \in Index(2) : Context!OneLargeFileHidesTheRest(index, 3)
============================================================================
