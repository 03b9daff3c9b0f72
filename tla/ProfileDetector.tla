--------------------------- MODULE ProfileDetector ---------------------------
(***************************************************************************)
(* The execution-profile detector: from what a commit holds to "ready",    *)
(* with the test runner, or to the first reason it is unsupported.  The    *)
(* script graph is walked depth first from "test", with bounds on the      *)
(* depth and on the scripts visited.                                       *)
(***************************************************************************)
EXTENDS Naturals, FiniteSets, SequencesExt

CONSTANTS
    MaxDepth,     \* MAX_SCRIPT_DEPTH
    MaxScripts    \* MAX_REFERENCED_SCRIPTS

ASSUME LimitsAssumption == MaxDepth \in Nat /\ MaxScripts \in Nat

\* Every reason found before the scripts are walked, in the order they are tried.
Reasons == <<"conflicting_lockfiles", "unsupported_monorepo", "missing_package_json",
             "missing_package_lock", "malformed_package_json", "invalid_package_lock",
             "unsupported_package_manager", "unsupported_node_version", "missing_test_script">>

\* A script is a sequence of commands, as ShellScript reads them: "npm run s" is
\* [run |-> s], a call of a runner the manifest depends on is [runner |-> r], one
\* that cannot be read is [unread |-> TRUE], any other is [other |-> TRUE].
Runs(command) == "run" \in DOMAIN command
Tests(command) == "runner" \in DOMAIN command
Unread(command) == "unread" \in DOMAIN command

\* What the detector is given: the flaws of a commit, and of package.json finitely
\* many scripts, each a sequence of commands of one kind.
IsManifest(manifest) ==
    /\ manifest.flaws \subseteq Range(Reasons)
    /\ IsFiniteSet(DOMAIN manifest.scripts)
    /\ \A s \in DOMAIN manifest.scripts :
           /\ manifest.scripts[s] \in Seq(Range(manifest.scripts[s]))
           /\ \A c \in Range(manifest.scripts[s]) : ~(Runs(c) /\ Tests(c))
----------------------------------------------------------------------------
Callees(scripts, name) ==
    {scripts[name][i].run : i \in {j \in DOMAIN scripts[name] : Runs(scripts[name][j])}}

RunnersIn(scripts, names) ==
    {c.runner : c \in {d \in UNION {Range(scripts[s]) : s \in names} : Tests(d)}}

Names(scripts) == {"test"} \cup UNION {Callees(scripts, s) : s \in DOMAIN scripts}

\* What has been found so far: a walk that is not valid ends the detection.
Walks(scripts) ==
    [valid : BOOLEAN, seen : SUBSET Names(scripts), runners : SUBSET RunnersIn(scripts, DOMAIN scripts)]
Refused(walk) == [walk EXCEPT !.valid = FALSE]

\* One command; `deeper` is visit, one call further down.
Follow(deeper, active, walk, command) ==
    IF ~walk.valid THEN walk
    ELSE IF Unread(command) THEN Refused(walk)
    ELSE IF Runs(command) THEN deeper[<<command.run, active, walk>>]
    ELSE IF Tests(command) THEN [walk EXCEPT !.runners = @ \cup {command.runner}]
    ELSE walk

FollowAll(deeper, active, walk, script) ==
    LET After[i \in 0..Len(script)] == IF i = 0 THEN walk ELSE Follow(deeper, active, After[i - 1], script[i])
    IN  After[Len(script)]

\* A call of visit: the script, the chain of scripts that are being walked, and
\* the walk so far.
Calls(scripts) == Names(scripts) \X (SUBSET Names(scripts)) \X Walks(scripts)

Enter(scripts, left, deeper, name, active, walk) ==
    IF left = 0 \/ Cardinality(walk.seen) >= MaxScripts \/ name \in active THEN Refused(walk)
    ELSE IF name \in walk.seen THEN walk
    ELSE IF name \notin DOMAIN scripts THEN Refused(walk)
    ELSE FollowAll(deeper, active \cup {name}, [walk EXCEPT !.seen = @ \cup {name}], scripts[name])

\* visit, by the number of calls that the bound on the depth leaves.
Visit(scripts) ==
    LET From[left \in 0..MaxDepth + 1] ==
            [call \in Calls(scripts) |-> Enter(scripts, left, From[left - 1], call[1], call[2], call[3])]
    IN  From[MaxDepth + 1]

ClassifyTestRunner(scripts) ==
    Visit(scripts)[<<"test", {}, [valid |-> TRUE, seen |-> {}, runners |-> {}]>>]

FirstFlaw(manifest) == SelectInSeq(Reasons, LAMBDA reason : reason \in manifest.flaws)

DetectExecutionProfile(manifest) ==
    LET walk == ClassifyTestRunner(manifest.scripts)
    IN  IF FirstFlaw(manifest) # 0 THEN Reasons[FirstFlaw(manifest)]
        ELSE IF ~walk.valid THEN "invalid_script_graph"
        ELSE IF walk.runners = {} THEN "unsupported_test_runner"
        ELSE IF Cardinality(walk.runners) # 1 THEN "ambiguous_test_runner"
        ELSE "ready"
----------------------------------------------------------------------------
\* The reference: no walk, no order and no bounds.

\* What "npm test" runs: in every set that holds "test" and all that its members call.
Closed(scripts, names) ==
    "test" \in names /\ \A s \in names \cap DOMAIN scripts : Callees(scripts, s) \subseteq names

Reach(scripts) ==
    {s \in Names(scripts) : \A names \in SUBSET Names(scripts) : Closed(scripts, names) => s \in names}

\* "npm test" runs to the end: nothing is undefined or unreadable, and of any scripts
\* that it runs one calls none of the others, nor itself.
Terminates(scripts) ==
    /\ Reach(scripts) \subseteq DOMAIN scripts
    /\ \A s \in Reach(scripts) : \A i \in DOMAIN scripts[s] : ~Unread(scripts[s][i])
    /\ \A loop \in SUBSET Reach(scripts) : loop # {} => \E s \in loop : Callees(scripts, s) \cap loop = {}

RunnersOf(scripts) == RunnersIn(scripts, Reach(scripts) \cap DOMAIN scripts)

Runnable(manifest) ==
    /\ manifest.flaws = {}
    /\ Terminates(manifest.scripts)
    /\ Cardinality(RunnersOf(manifest.scripts)) = 1

\* The bounds, where they are generous enough for any order of the walk: a script
\* has a rank above those it calls.
Small(scripts) ==
    /\ Cardinality(Reach(scripts)) < MaxScripts
    /\ \E rank \in [Reach(scripts) -> 0..MaxDepth] :
           \A s \in Reach(scripts) : \A t \in Callees(scripts, s) \cap Reach(scripts) : rank[t] < rank[s]

\* The walk accepts what the reference does and, within the bounds, no less.
Agrees(manifest) ==
    LET ready == DetectExecutionProfile(manifest) = "ready"
    IN  /\ ready => Runnable(manifest)
        /\ Runnable(manifest) /\ Small(manifest.scripts) => ready
=============================================================================
