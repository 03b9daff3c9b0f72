------------------------ MODULE MCRepositoryAccess ------------------------
(* RepositoryAccess for TLC: what the commits hold; and the limit on requests. *)
EXTENDS RepositoryAccess, TLC

CONSTANTS good, cyclic

Permutation == Permutations(Workspace)

Call(s) == [run |-> s]
Vitest == [runner |-> "vitest"]
MCContent ==
    good   :> [flaws |-> {}, scripts |-> "test" :> <<Call("unit")>> @@ "unit" :> <<Vitest>>]
 @@ cyclic :> [flaws |-> {}, scripts |-> "test" :> <<Call("unit")>> @@ "unit" :> <<Vitest, Call("test")>>]

\* Every script graph of up to three scripts of up to two commands: the walk and
\* the reference agree on all of them.
Known == {"test", "unit", "lint"}
Command == {Call(s) : s \in Known} \cup {Vitest, [runner |-> "jest"], [unread |-> TRUE]}
Script == UNION {[1..n -> Command] : n \in 0..2}
ASSUME WalkIsReachability ==
    \A defined \in SUBSET Known : \A scripts \in [defined -> Script] :
        Agrees([flaws |-> {}, scripts |-> scripts])

\* Every script of up to five characters.
Shell == INSTANCE ShellScript
ASSUME ScriptsAreRead ==
    \A n \in 0..5 : \A script \in [1..n -> Shell!Alphabet] :
        Shell!TwoScansAreOne(script) /\ Shell!RefusedForCause(script)

Limits == INSTANCE RateLimit WITH Limit <- 2, WindowSeconds <- 3
Sorted(moments) == \A i \in 2..Len(moments) : moments[i - 1] <= moments[i]
ASSUME RequestsAreLimited ==
    \A n \in 1..5 : \A moments \in {m \in [1..n -> 0..7] : Sorted(m)} : Limits!LimitHolds(moments)
ASSUME ClientsCannotChoose ==
    \A n \in 0..2 : \A written \in [1..n -> {"x", "y"}], trusted \in 1..2 :
        Limits!SubjectIsNotWritten(written, <<"client", "proxy">>, trusted)
ASSUME ReadingIsCharged ==
    \A parts \in SUBSET {rule.part : rule \in Limits!Range(Limits!Rules)} : Limits!PollsAreApart(parts)

\* Pages of one repository each, at most three, of a list that may change in between.
Client == INSTANCE GitHubClient WITH MaxBytes <- 3, PageSize <- 1, MaxPages <- 3, MaxText <- 4
List == UNION {{l \in [1..n -> 1..4] : \A i, j \in 1..n : i < j => l[i] < l[j]} : n \in 0..4}
ASSUME ListingsAreRead ==
    /\ \A list \in List : Client!StillListsAreWhole(list) /\ Client!LaterInstallationsAreUnseen(list)
    /\ \A lists \in [1..3 -> List] : Client!HiddenOnlyByRemoval(lists)
    /\ \E lists \in [1..3 -> List] : Client!RemovalHides(lists)
ASSUME BodiesAreRead ==
    \A n \in 0..3 : \A chunks \in [1..n -> 0..4], first \in {200, 302}, status \in {200, 500}, declared \in 0..4 :
        Client!BodiesAreWhole([status |-> first, host |-> "codeload.github.com"],
                              [status |-> status, declared |-> declared, chunks |-> chunks])
ASSUME TokensAreChecked ==
    \A n \in 0..2 : \A repositories \in [1..n -> {"asked", "other"}],
       permissions \in {Client!Wanted, [Client!Wanted EXCEPT !.contents = "admin"], << >>},
       seconds \in {0, 3700, 3701}, answered, revoked \in BOOLEAN :
        Client!TokensAreNarrow("asked", [repositories |-> repositories, permissions |-> permissions,
                                         seconds |-> seconds], answered, revoked)

Texts(n) == UNION {[1..k -> {"a", "\n"}] : k \in 0..n}
ASSUME OwnObjectsAreRefused ==
    /\ \A message \in Texts(4), identity \in [1..2 -> {"a"}], sha \in 1..2 :
          Client!NoCommitIsRecognised([sha |-> sha, message |-> message, parents |-> <<1>>], 1, identity)
    /\ \A body \in Texts(4), lines \in [1..2 -> Texts(1)], draft \in BOOLEAN, state \in {"open", "closed"} :
          Client!NoDraftIsRecognised([state |-> state, draft |-> draft, title |-> <<"a">>, body |-> body],
                                     <<"a">>, lines)
===========================================================================
