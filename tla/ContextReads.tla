---------------------------- MODULE ContextReads ----------------------------
(***************************************************************************)
(* What the AI jobs are told of the frozen source: the list of its paths,  *)
(* a file, the lines of its files that hold a query.  The index was taken  *)
(* at one commit; the bytes come from GitHub, later, file by file.         *)
(*                                                                         *)
(* An index is a sequence of entries in the order of their paths.  A file  *)
(* is [size, text, lines]: whether it is text, and which of its lines      *)
(* match.  An answer of GitHub is the file, or another one in its place.   *)
(***************************************************************************)
EXTENDS Naturals, SequencesExt

CONSTANTS
    MaxListPaths, MaxFileBytes, MaxSearchCandidateFiles, MaxSearchMatches

Failure(code) == [code |-> code]
IsFailure(result) == "code" \in DOMAIN result
----------------------------------------------------------------------------
\* listPaths
ListPaths(index, treeTruncated, limit) ==
    IF limit \notin 1..MaxListPaths THEN Failure("invalid_context_request")
    ELSE LET rows == SubSeq(index, 1, Min({Len(index), limit + 1}))
         IN  [paths |-> SubSeq(rows, 1, Min({Len(rows), limit})),
              truncated |-> treeTruncated \/ Len(rows) > limit]

\* scopedBlob: the bytes are those the index names, or none.
ScopedBlob(entry, answer) ==
    IF answer # entry.file THEN Failure("content_identity_mismatch") ELSE answer

\* readTextFile, of the path at place i of the index; 0 is a path it does not hold.
ReadTextFile(index, i, answer) ==
    IF i \notin DOMAIN index THEN Failure("path_not_found")
    ELSE LET entry == index[i]
         IN  IF ~entry.readable \/ ~entry.blob \/ entry.file.size > MaxFileBytes
             THEN Failure("path_not_readable")
             ELSE LET blob == ScopedBlob(entry, answer)
                  IN  IF IsFailure(blob) THEN blob
                      ELSE IF ~blob.text THEN Failure("binary_file_rejected") ELSE blob
----------------------------------------------------------------------------
\* searchText, within the bytes its operation reserved.
Eligible(index) == SelectSeq(index, LAMBDA entry : entry.readable /\ entry.searchable)

\* The lines of a file, until there are as many matches as may be given.
Matches(found, entry) ==
    LET lines == IF entry.file.text THEN entry.file.lines ELSE << >>
        room == Min({Len(lines), MaxSearchMatches - Len(found)})
    IN  found \o [i \in 1..room |-> <<entry.path, lines[i]>>]

SearchFile(search, entry) ==
    IF search.stopped THEN search
    ELSE IF search.scanned + entry.file.size > search.reserved
    THEN [search EXCEPT !.truncated = TRUE, !.stopped = TRUE]
    ELSE IF entry.answer # entry.file
    THEN [search EXCEPT !.mismatch = TRUE, !.stopped = TRUE]
    ELSE LET found == Matches(search.matches, entry)
             full == Len(found) > Len(search.matches) /\ Len(found) >= MaxSearchMatches
         IN  [search EXCEPT !.scanned = @ + entry.file.size, !.matches = found,
                            !.truncated = @ \/ full, !.stopped = full]

SearchText(index, treeTruncated, reserved) ==
    LET eligible == Eligible(index)
        candidates == SubSeq(eligible, 1, Min({Len(eligible), MaxSearchCandidateFiles}))
        search == FoldLeft(SearchFile,
            [matches |-> << >>, scanned |-> 0, reserved |-> reserved, stopped |-> FALSE, mismatch |-> FALSE,
             truncated |-> treeTruncated \/ Len(eligible) > Len(candidates)], candidates)
    IN  IF search.mismatch THEN Failure("content_identity_mismatch") ELSE search
----------------------------------------------------------------------------
\* Every match there is, in order.
AllMatches(index) ==
    FlattenSeq([i \in DOMAIN index |->
        IF index[i].readable /\ index[i].searchable /\ index[i].file.text
        THEN [l \in DOMAIN index[i].file.lines |-> <<index[i].path, index[i].file.lines[l]>>] ELSE << >>])

\* A search reports the first of the matches and nothing else, reads no more than it
\* reserved, and reports them all unless it says that it was cut short: what the model
\* is not told of, it is told that it may be missing.
SearchIsHonest(index, treeTruncated, reserved) ==
    LET search == SearchText(index, treeTruncated, reserved)
    IN  ~IsFailure(search) =>
            /\ IsPrefix(search.matches, AllMatches(index))
            /\ search.scanned <= reserved /\ Len(search.matches) <= MaxSearchMatches
            /\ ~search.truncated => search.matches = AllMatches(index) /\ ~treeTruncated

\* The same of the list of paths; and there the sign is exact.
ListIsHonest(index, treeTruncated, limit) ==
    LET list == ListPaths(index, treeTruncated, limit)
    IN  ~IsFailure(list) =>
            IsPrefix(list.paths, index) /\ (list.truncated <=> treeTruncated \/ list.paths # index)

\* A file is given as it was at the commit, whole, and only if the search may see it too.
ReadsAreFrozen(index, i, answer) ==
    LET blob == ReadTextFile(index, i, answer)
    IN  ~IsFailure(blob) => blob = index[i].file /\ blob.text /\ index[i].readable

\* A full answer may be complete, and is still called cut short.
TruncationIsCautious(index, reserved) ==
    LET search == SearchText(index, FALSE, reserved)
    IN  ~IsFailure(search) /\ search.truncated /\ search.matches = AllMatches(index)

\* One file that does not fit hides every later one, however small.
OneLargeFileHidesTheRest(index, reserved) ==
    LET search == SearchText(index, FALSE, reserved)
    IN  /\ ~IsFailure(search) /\ search.truncated /\ search.matches = << >>
        /\ \E i \in DOMAIN index : index[i].file.size <= reserved /\ AllMatches(<<index[i]>>) # << >>
=============================================================================
