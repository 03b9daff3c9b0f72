----------------------------- MODULE GitHubClient -----------------------------
(***************************************************************************)
(* What the GitHub client makes of GitHub's answers: it reads a bounded    *)
(* body, parses it, and refuses whatever it does not expect.  What it lets *)
(* through is compared with what its callers need of it: whole listings,   *)
(* tokens of exactly one repository, and the commit and the pull request   *)
(* the publication worker looks for.                                       *)
(***************************************************************************)
EXTENDS Naturals, FiniteSets, SequencesExt

CONSTANTS
    MaxBytes,   \* the bound on a body: MAX_RESPONSE_BYTES, MAX_ARCHIVE_BYTES
    PageSize,   \* per_page
    MaxPages,   \* how many pages are asked for
    MaxText     \* the longest text a parser lets through

Refused == [ok |-> FALSE]
Given(value) == [ok |-> TRUE, value |-> value]
----------------------------------------------------------------------------
\* Bodies.  An answer is [status, declared, chunks]: the sizes of the chunks in which
\* the body comes, and the length its header declares; 0 is none.
ReadBounded(answer) ==
    LET Read(length, chunk) == IF length > MaxBytes THEN length ELSE length + chunk
        length == FoldLeft(Read, 0, answer.chunks)
    IN  IF answer.status \notin 200..299 \/ length > MaxBytes THEN Refused ELSE Given(length)

\* An archive is behind one redirection, to GitHub's own host.
DownloadRepositoryArchive(redirect, answer) ==
    IF redirect.status # 302 \/ redirect.host # "codeload.github.com" \/ answer.declared > MaxBytes
    THEN Refused ELSE ReadBounded(answer)

\* A body is given whole or not at all, and never beyond the bound.
BodiesAreWhole(redirect, answer) ==
    LET archive == DownloadRepositoryArchive(redirect, answer)
        sum == FoldLeft(LAMBDA a, b : a + b, 0, answer.chunks)
    IN  /\ archive.ok => archive.value = sum
        /\ ReadBounded(answer).ok <=> answer.status \in 200..299 /\ sum <= MaxBytes
----------------------------------------------------------------------------
\* Listings.  GitHub cuts the list into pages as it is when the page is asked for.
Page(list, p) == SubSeq(list, (p - 1) * PageSize + 1, Min({Len(list), p * PageSize}))

\* listUserInstallationRepositories; lists[p] is the list when page p is asked for.
ListUserInstallationRepositories(lists) ==
    LET short == {p \in 1..MaxPages : Len(Page(lists[p], p)) < PageSize}
    IN  IF short = {} THEN Refused
        ELSE Given(FlattenSeq([p \in 1..Min(short) |-> Page(lists[p], p)]))

\* Only the first page of the installations is asked for.
ListAccessibleInstallationIds(list) == Given(Page(list, 1))

\* eligibleRepositories, of a repository the user may push to: none twice.
EligibleRepositories(listing) ==
    IF ~listing.ok \/ ~IsInjective(listing.value) THEN Refused ELSE Given(Range(listing.value))

\* A list that stays as it is is given whole, if it has not too many pages.
StillListsAreWhole(list) ==
    LET listing == ListUserInstallationRepositories([p \in 1..MaxPages |-> list])
    IN  IF Len(list) < PageSize * MaxPages THEN listing = Given(list) ELSE ~listing.ok

\* While the list changes, a repository that was there all the time is missing from the
\* answer only if another one went away meanwhile; what comes in between is refused
\* or told, never mistaken for an absence.
HiddenOnlyByRemoval(lists) ==
    LET eligible == EligibleRepositories(ListUserInstallationRepositories(lists))
        always == {r \in Range(lists[1]) : \A p \in 1..MaxPages : r \in Range(lists[p])}
    IN  eligible.ok /\ ~(always \subseteq eligible.value) =>
            \E p \in 2..MaxPages : ~(Range(lists[p - 1]) \subseteq Range(lists[p]))

\* And then it is missing: the repository that moved up to the page already read.
RemovalHides(lists) ==
    LET eligible == EligibleRepositories(ListUserInstallationRepositories(lists))
    IN  eligible.ok /\ \E r \in Range(lists[1]) \ eligible.value : \A p \in 1..MaxPages : r \in Range(lists[p])

\* An installation beyond the first page is as good as not installed.
LaterInstallationsAreUnseen(list) ==
    Len(list) > PageSize => \E i \in Range(list) : i \notin Range(ListAccessibleInstallationIds(list).value)
----------------------------------------------------------------------------
\* Tokens.  GitHub's grant is [repositories, permissions, seconds] in an answer that may
\* be lost, or garbled; a token that is not to be used is revoked, if that succeeds.
Wanted == [contents |-> "write", metadata |-> "read", pull_requests |-> "write"]

ReadTokenIsExact(asked, grant) == grant.repositories = <<asked>>

PublicationTokenIsExact(asked, grant) ==
    /\ grant.repositories = <<asked>> /\ grant.permissions = Wanted
    /\ grant.seconds > 0 /\ grant.seconds <= 3700

\* createInstallationAccessToken, createPublicationAccessToken: what the caller gets, and
\* whether a token that he did not get is still good.
CreateToken(exact, grant, answered, revoked) ==
    IF ~answered THEN [token |-> Refused, left |-> TRUE]
    ELSE IF exact THEN [token |-> Given(grant), left |-> FALSE]
    ELSE [token |-> Refused, left |-> ~revoked]

\* A token is handed out for the one repository that was asked for, and one that is not
\* handed out stays good only if the answer was lost or its revocation failed.
TokensAreNarrow(asked, grant, answered, revoked) ==
    LET read == CreateToken(ReadTokenIsExact(asked, grant), grant, answered, revoked)
        write == CreateToken(PublicationTokenIsExact(asked, grant), grant, answered, revoked)
    IN  /\ write.token.ok => read.token.ok /\ grant.permissions = Wanted
        /\ \A made \in {read, write} :
              /\ made.token.ok => Range(grant.repositories) = {asked}
              /\ made.left => ~answered \/ ~revoked
----------------------------------------------------------------------------
\* Objects.  A text is a sequence of characters: "a" is any letter, "\n" ends a line.
\* Names, hashes, and the head and the base of a pull request are left out.
NonemptyString(text) == Len(text) \in 1..MaxText /\ "\n" \notin Range(text)

ParsePublicationCommit(commit) == NonemptyString(commit.message) /\ Len(commit.parents) <= 8

GetCommit(sha, commit) ==
    IF ParsePublicationCommit(commit) /\ commit.sha = sha THEN Given(commit) ELSE Refused

ParsePublicationPullRequest(pr) ==
    /\ pr.state \in {"open", "closed"} /\ pr.draft \in BOOLEAN
    /\ NonemptyString(pr.title) /\ NonemptyString(pr.body)

CreateDraftPullRequest(opened) == IF ParsePublicationPullRequest(opened) THEN Given(opened) ELSE Refused

ListPullRequests(prs) ==
    IF Len(prs) > 100 \/ \E i \in DOMAIN prs : ~ParsePublicationPullRequest(prs[i])
    THEN Refused ELSE Given(prs)

\* What the worker asks GitHub to hold: the message of prepareGitPublication, and the
\* body of buildPullRequestMetadata, its lines joined.
Message(identity) == Append(identity, "\n")
Body(lines) ==
    FlattenSeq([i \in DOMAIN lines |-> IF i < Len(lines) THEN Append(lines[i], "\n") ELSE lines[i]])

\* What the worker takes for its own, of the commits and the pull requests it is given.
ExactCommit(commit, sha, identity) == commit.sha = sha /\ commit.message = Message(identity)
ExactPullRequest(pr, title, lines) ==
    pr.state = "open" /\ pr.draft /\ pr.title = title /\ pr.body = Body(lines)

\* No commit passes both: the client lets no line break through, and the worker's own
\* message ends with one.
NoCommitIsRecognised(commit, sha, identity) ==
    LET given == GetCommit(sha, commit)
    IN  ~(given.ok /\ ExactCommit(given.value, sha, identity))

\* No pull request passes both, since the worker's body has lines: the answer to its own
\* request, and every list that holds its own draft, are refused.
NoDraftIsRecognised(pr, title, lines) ==
    /\ ~(CreateDraftPullRequest(pr).ok /\ ExactPullRequest(pr, title, lines))
    /\ ExactPullRequest(pr, title, lines) => ~ListPullRequests(<<pr>>).ok
=============================================================================
