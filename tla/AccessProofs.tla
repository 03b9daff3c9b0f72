----------------------------- MODULE AccessProofs -----------------------------
(***************************************************************************)
(* What GitHub access of a workspace guarantees, for every number of        *)
(* workspaces, attempts and commits, and whatever GitHub does in between:   *)
(* the binding of an installation; and the execution-profile detector, for  *)
(* every manifest and every bound, and with it the stored profiles.         *)
(***************************************************************************)
EXTENDS RepositoryAccess, WellFoundedInduction, FiniteSetTheorems, SequenceTheorems, TLAPS

(* A workspace was told what is the case.                                   *)
Bindings == told \in [Workspace -> {"nothing", "connected", "conflict"}] /\ ConnectedIsBound

(* The first installation binds, and only the one it binds is told so.      *)
LEMMA BindKeeps ==
    ASSUME Bindings, NEW i \in DOMAIN attempts, Bind(i) PROVE Bindings'
<1>. DEFINE w == attempts[i].ws
<1>1. binding' = (IF binding = None THEN w ELSE binding) BY DEF Bind, Bound
<1>2. told' = [told EXCEPT ![w] = IF binding' = w THEN "connected" ELSE "conflict"]
    BY <1>1 DEF Bind, Answer, Bound
<1>3. told' \in [Workspace -> {"nothing", "connected", "conflict"}] BY <1>2 DEF Bindings
<1>4. ASSUME NEW v \in Workspace, told'[v] = "connected" PROVE binding' = v
  <2>1. CASE v = w BY <1>2, <1>4, <2>1 DEF Bindings
  <2>2. CASE v # w
    <3>1. told[v] = "connected" BY <1>2, <1>4, <2>2 DEF Bindings
    <3>2. binding = v BY <3>1 DEF Bindings, ConnectedIsBound
    <3>. QED BY <1>1, <3>2, NamesAssumption
  <2>. QED BY <2>1, <2>2
<1>. QED BY <1>3, <1>4 DEF Bindings, ConnectedIsBound

(* No other step touches the binding or what a workspace was told.          *)
LEMMA OnlyBindBinds ==
    ASSUME Step, ~\E i \in DOMAIN attempts : Bind(i) PROVE UNCHANGED <<binding, told>>
<1>. USE DEF OnlyAttempts, OnlySelection, OnlyDetection
<1>1. CASE Tick \/ GitHubChanges BY <1>1 DEF Tick, GitHubChanges
<1>2. CASE \E w \in Workspace :
             \/ BeginInstallation(w)
             \/ \E op \in Flow \ {"install"}, r \in Repo \cup {None} : BeginAuthorization(w, op, r)
    BY <1>2 DEF BeginInstallation, BeginAuthorization
<1>3. CASE \E i \in DOMAIN attempts :
             \/ ContinueInstallation(i) \/ Callback(i) \/ Consult(i) \/ Fails(i)
             \/ Reconcile(i) \/ Select(i)
    BY <1>3 DEF ContinueInstallation, Callback, Consult, Fails, Reconcile, Select
<1>4. CASE DetectBegin \/ DetectRead \/ DetectConfirm \/ DetectFails \/ DetectSave
    BY <1>4 DEF DetectBegin, DetectRead, DetectConfirm, DetectFails, DetectSave
<1>. QED BY <1>1, <1>2, <1>3, <1>4 DEF Step

(* A workspace that was told it is connected keeps the installation, however *)
(* many workspaces prove the same one at once (github-app/flow.ts).         *)
THEOREM ConnectionIsKept == Spec => []ConnectedIsBound
<1>1. Init => Bindings
    BY NamesAssumption DEF Init, InitAccess, Start, Bindings, ConnectedIsBound
<1>2. ASSUME Bindings, [Next]_vars PROVE Bindings'
  <2>1. CASE UNCHANGED <<binding, told>> BY <1>2, <2>1 DEF Bindings, ConnectedIsBound
  <2>2. CASE \E i \in DOMAIN attempts : Bind(i) BY <1>2, <2>2, BindKeeps
  <2>. QED BY <1>2, <2>1, <2>2, OnlyBindBinds DEF Next, WorkChanges, vars, accessVars
<1>3. Bindings => ConnectedIsBound BY DEF Bindings
<1>. QED BY <1>1, <1>2, <1>3, PTL DEF Spec
-----------------------------------------------------------------------------
(* Induction over the numbers, and functions defined by it.                 *)

(* Every set of numbers has a least one: the one fact about numbers that     *)
(* induction takes.                                                          *)
LEMMA LeastNumber ==
    ASSUME NEW S, S \subseteq Nat, S # {}
    PROVE  \E n \in S : \A m \in S : n <= m
<1>1. PICK x \in S : \A y \in S : ~(<<y, x>> \in OpToRel(<, Nat))
    BY NatLessThanWellFounded, WFMin, Zenon
<1>2. ASSUME NEW y \in S PROVE ~(y < x)
  <2>1. y < x => <<y, x>> \in OpToRel(<, Nat) BY DEF OpToRel
  <2>. QED BY <2>1, <1>1
<1>3. \A m \in S : x <= m BY <1>2
<1>. QED BY <1>3

(* Induction over the numbers, on a set of them.                             *)
LEMMA Induction ==
    ASSUME NEW S, S \subseteq Nat, 0 \in S, \A n \in S : n + 1 \in S
    PROVE  S = Nat
<1>. SUFFICES ASSUME Nat \ S # {} PROVE FALSE OBVIOUS
<1>1. PICK n \in Nat \ S : \A m \in Nat \ S : n <= m BY LeastNumber
<1>2. n # 0 /\ n - 1 \in Nat BY <1>1
<1>3. n - 1 \in S BY <1>1, <1>2
<1>. QED BY <1>3, <1>2, <1>1

(* What is defined by recursion over the numbers exists, the values being of *)
(* a set T and a step being a function on it.                                *)
Approximations(T, a, F, n) ==
    {g \in [0..n -> T] : g[0] = a /\ \A i \in 0..(n - 1) : g[i + 1] = F[<<i + 1, g[i]>>]}

(* Two approximations of one recursive function agree where both are defined. *)
LEMMA ApproximationsAgree ==
    ASSUME NEW T, NEW a, NEW F, NEW n \in Nat, NEW m \in Nat, n <= m,
           NEW g \in Approximations(T, a, F, n), NEW h \in Approximations(T, a, F, m)
    PROVE  \A i \in 0..n : g[i] = h[i]
<1>. DEFINE S == {i \in Nat : i <= n => g[i] = h[i]}
<1>1. 0 \in S BY DEF Approximations
<1>2. ASSUME NEW i \in S PROVE i + 1 \in S
  <2>1. SUFFICES ASSUME i + 1 <= n PROVE g[i + 1] = h[i + 1] BY <1>2
  <2>2. i \in Nat /\ i \in 0..(n - 1) /\ i \in 0..(m - 1) /\ g[i] = h[i] BY <1>2, <2>1
  <2>3. g[i + 1] = F[<<i + 1, g[i]>>] /\ h[i + 1] = F[<<i + 1, h[i]>>] BY <2>2 DEF Approximations
  <2>. QED BY <2>2, <2>3
<1>3. S = Nat
  <2>. HIDE DEF S
  <2>1. S \subseteq Nat BY DEF S
  <2>. QED BY <1>1, <1>2, <2>1, Induction
<1>. QED BY <1>3

Recurs(f, a, F) == f[0] = a /\ \A n \in Nat : f[n + 1] = F[<<n + 1, f[n]>>]

(* The function that the recursion describes.                                *)
LEMMA Recursion ==
    ASSUME NEW T, NEW a \in T, NEW F \in [Nat \X T -> T]
    PROVE  \E f \in [Nat -> T] : Recurs(f, a, F)
<1>. DEFINE Good(n) == Approximations(T, a, F, n)
            S == {n \in Nat : Good(n) # {}}
            G(n) == CHOOSE g \in Good(n) : TRUE
            f == [n \in Nat |-> G(n)[n]]
<1>1. 0 \in S
  <2>1. [i \in 0..0 |-> a] \in Good(0) BY DEF Approximations
  <2>. QED BY <2>1
<1>2. ASSUME NEW n \in S PROVE n + 1 \in S
  <2>1. PICK g \in Good(n) : TRUE OBVIOUS
  <2>2. n \in Nat /\ g \in [0..n -> T] /\ g[0] = a
        /\ \A i \in 0..(n - 1) : g[i + 1] = F[<<i + 1, g[i]>>] BY <2>1 DEF Approximations
  <2>. DEFINE h == [i \in 0..n + 1 |-> IF i = n + 1 THEN F[<<n + 1, g[n]>>] ELSE g[i]]
  <2>3. h \in [0..n + 1 -> T] BY <2>2
  <2>4. h[0] = a BY <2>2
  <2>5. ASSUME NEW i \in 0..((n + 1) - 1) PROVE h[i + 1] = F[<<i + 1, h[i]>>]
    <3>1. h[i] = g[i] BY <2>2
    <3>2. CASE i = n
      <4>1. h[n + 1] = F[<<n + 1, g[n]>>] BY <2>2
      <4>. QED BY <4>1, <3>1, <3>2
    <3>3. CASE i # n
      <4>1. i \in 0..(n - 1) /\ h[i + 1] = g[i + 1] BY <3>3, <2>2
      <4>. QED BY <4>1, <3>1, <2>2
    <3>. QED BY <3>2, <3>3
  <2>6. h \in Good(n + 1)
    <3>. HIDE DEF h
    <3>. QED BY <2>3, <2>4, <2>5 DEF Approximations
  <2>. QED BY <2>6, <2>2
<1>3. S = Nat
  <2>. HIDE DEF S
  <2>1. S \subseteq Nat BY DEF S
  <2>. QED BY <1>1, <1>2, <2>1, Induction
<1>4. ASSUME NEW n \in Nat PROVE G(n) \in Good(n)
  <2>1. n \in S BY <1>3
  <2>2. \E g : g \in Good(n) BY <2>1
  <2>. QED BY <2>2
<1>. HIDE DEF G
<1>5. f \in [Nat -> T] BY <1>4 DEF Approximations
<1>6. f[0] = a BY <1>4 DEF Approximations
<1>7. ASSUME NEW n \in Nat PROVE f[n + 1] = F[<<n + 1, f[n]>>]
  <2>1. G(n) \in Good(n) /\ G(n + 1) \in Good(n + 1) BY <1>4
  <2>. HIDE DEF Good
  <2>2. G(n)[n] = G(n + 1)[n] BY <2>1, ApproximationsAgree DEF Good
  <2>3. G(n + 1)[n + 1] = F[<<n + 1, G(n + 1)[n]>>] BY <2>1 DEF Approximations, Good
  <2>. QED BY <2>2, <2>3
<1>. QED BY <1>5, <1>6, <1>7 DEF Recurs
-----------------------------------------------------------------------------
(* The detector's walk is well defined.                                      *)

(* A command leads to a name and to a runner that are counted.              *)
Known(scripts, script) ==
    /\ script \in Seq(Range(script))
    /\ \A i \in DOMAIN script :
           /\ Runs(script[i]) => script[i].run \in Names(scripts)
           /\ Tests(script[i]) => script[i].runner \in RunnersIn(scripts, DOMAIN scripts)

(* The scripts of a manifest are made of known commands.                     *)
LEMMA ScriptsAreKnown ==
    ASSUME NEW manifest, IsManifest(manifest), NEW s \in DOMAIN manifest.scripts
    PROVE  Known(manifest.scripts, manifest.scripts[s])
<1>. DEFINE scripts == manifest.scripts
            script == scripts[s]
<1>1. script \in Seq(Range(script)) BY DEF IsManifest
<1>2. ASSUME NEW i \in DOMAIN script, Runs(script[i]) PROVE script[i].run \in Names(scripts)
  <2>1. script[i].run \in Callees(scripts, s) BY <1>2 DEF Callees
  <2>. QED BY <2>1 DEF Names
<1>3. ASSUME NEW i \in DOMAIN script, Tests(script[i])
      PROVE  script[i].runner \in RunnersIn(scripts, DOMAIN scripts)
  <2>1. script[i] \in Range(script) BY DEF Range
  <2>2. script[i] \in UNION {Range(scripts[t]) : t \in DOMAIN scripts} BY <2>1
  <2>. QED BY <2>2, <1>3 DEF RunnersIn
<1>. QED BY <1>1, <1>2, <1>3 DEF Known

(* One command leads from a walk to a walk.                                  *)
LEMMA FollowType ==
    ASSUME NEW scripts, NEW script, Known(scripts, script), NEW i \in DOMAIN script,
           NEW deeper \in [Calls(scripts) -> Walks(scripts)],
           NEW active \in SUBSET Names(scripts), NEW walk \in Walks(scripts)
    PROVE  Follow(deeper, active, walk, script[i]) \in Walks(scripts)
<1>. DEFINE c == script[i]
<1>1. Refused(walk) \in Walks(scripts) BY DEF Refused, Walks
<1>2. CASE Runs(c)
  <2>1. <<c.run, active, walk>> \in Calls(scripts) BY <1>2 DEF Known, Calls
  <2>. QED BY <2>1, <1>1, <1>2 DEF Follow
<1>3. CASE ~Runs(c) /\ Tests(c)
  <2>1. [walk EXCEPT !.runners = @ \cup {c.runner}] \in Walks(scripts) BY <1>3 DEF Known, Walks
  <2>. QED BY <2>1, <1>1, <1>3 DEF Follow
<1>4. CASE ~Runs(c) /\ ~Tests(c) BY <1>1, <1>4 DEF Follow
<1>. QED BY <1>2, <1>3, <1>4

(* The commands of a script, one after the other.                           *)
Steps(deeper, active, walk, script, f) ==
    f[0] = walk /\ \A i \in 1..Len(script) : f[i] = Follow(deeper, active, f[i - 1], script[i])

(* FollowAll folds Follow over the commands of a script.                     *)
LEMMA FollowAllDef ==
    ASSUME NEW scripts, NEW script, Known(scripts, script),
           NEW deeper \in [Calls(scripts) -> Walks(scripts)],
           NEW active \in SUBSET Names(scripts), NEW walk \in Walks(scripts)
    PROVE  \E f \in [0..Len(script) -> Walks(scripts)] :
               /\ Steps(deeper, active, walk, script, f)
               /\ FollowAll(deeper, active, walk, script) = f[Len(script)]
<1>. DEFINE T == Walks(scripts)
            n == Len(script)
            Then(i, w) == Follow(deeper, active, w, script[i])
            F == [p \in Nat \X T |-> IF p[1] \in 1..n THEN Then(p[1], p[2]) ELSE p[2]]
            Def(f) == [i \in 0..n |-> IF i = 0 THEN walk ELSE Then(i, f[i - 1])]
            After == CHOOSE f : f = Def(f)
<1>1. n \in Nat /\ DOMAIN script = 1..n BY DEF Known
<1>2. ASSUME NEW i \in 1..n, NEW w \in T PROVE Then(i, w) \in T BY <1>1, FollowType
<1>. HIDE DEF T, n, Then
<1>3. F \in [Nat \X T -> T] BY <1>2
<1>4. walk \in T BY DEF T
<1>5. PICK g \in [Nat -> T] : Recurs(g, walk, F)
  <2>. HIDE DEF F
  <2>. QED BY <1>3, <1>4, Recursion
<1>. DEFINE h == [i \in 0..n |-> g[i]]
<1>6. h = Def(h)
  <2>1. ASSUME NEW i \in 0..n PROVE h[i] = (IF i = 0 THEN walk ELSE Then(i, h[i - 1]))
    <3>1. CASE i = 0 BY <3>1, <1>5, <1>1 DEF Recurs
    <3>2. CASE i # 0
      <4>1. i - 1 \in Nat /\ i - 1 \in 0..n /\ i \in 1..n /\ (i - 1) + 1 = i BY <3>2, <1>1
      <4>2. g[i] = F[<<i, g[i - 1]>>] BY <4>1, <1>5 DEF Recurs
      <4>3. g[i - 1] \in T BY <4>1, <1>5
      <4>4. F[<<i, g[i - 1]>>] = Then(i, g[i - 1]) BY <4>1, <4>3
      <4>. QED BY <4>1, <4>2, <4>4, <3>2
    <3>. QED BY <3>1, <3>2
  <2>. HIDE DEF h
  <2>2. DOMAIN h = 0..n /\ h = [i \in 0..n |-> h[i]] BY DEF h
  <2>. QED BY <2>1, <2>2
<1>7. After = Def(After)
  <2>. HIDE DEF h, Def
  <2>. QED BY <1>6
<1>8. FollowAll(deeper, active, walk, script) = After[n] BY DEF FollowAll, n, Then
<1>. HIDE DEF After
<1>9. After[0] = walk /\ \A i \in 1..n : After[i] = Then(i, After[i - 1])
  <2>1. \A i \in 0..n : Def(After)[i] = IF i = 0 THEN walk ELSE Then(i, After[i - 1]) OBVIOUS
  <2>2. \A i \in 0..n : After[i] = IF i = 0 THEN walk ELSE Then(i, After[i - 1])
    <3>. HIDE DEF Def
    <3>. QED BY <2>1, <1>7
  <2>3. 0 \in 0..n /\ \A i \in 1..n : i \in 0..n /\ i # 0 BY <1>1
  <2>. HIDE DEF Def
  <2>. QED BY <2>2, <2>3
<1>10. \A i \in 0..n : After[i] \in T
  <2>. DEFINE S == {i \in Nat : i <= n => After[i] \in T}
  <2>1. 0 \in S BY <1>9, <1>4
  <2>2. ASSUME NEW i \in S PROVE i + 1 \in S
    <3>1. SUFFICES ASSUME i + 1 <= n PROVE After[i + 1] \in T BY <2>2
    <3>2. i + 1 \in 1..n /\ (i + 1) - 1 = i /\ After[i] \in T BY <2>2, <3>1, <1>1
    <3>3. After[i + 1] = Then(i + 1, After[i]) BY <3>2, <1>9
    <3>. QED BY <3>2, <3>3, <1>2
  <2>3. S = Nat
    <3>. HIDE DEF S
    <3>1. S \subseteq Nat BY DEF S
    <3>. QED BY <2>1, <2>2, <3>1, Induction
  <2>. QED BY <2>3, <1>1
<1>11. After \in [0..n -> T]
  <2>1. \E f : After = [i \in 0..n |-> f[i]]
    <3>1. Def(After) = [i \in 0..n |-> Def(After)[i]] OBVIOUS
    <3>. HIDE DEF Def
    <3>. QED BY <3>1, <1>7
  <2>. QED BY <2>1, <1>10
<1>. QED BY <1>8, <1>9, <1>11 DEF Steps, T, n, Then

(* Entering a script leads from a walk to a walk.                            *)
LEMMA EnterType ==
    ASSUME NEW manifest, IsManifest(manifest), NEW left,
           NEW deeper, left = 0 \/ deeper \in [Calls(manifest.scripts) -> Walks(manifest.scripts)],
           NEW call \in Calls(manifest.scripts)
    PROVE  Enter(manifest.scripts, left, deeper, call[1], call[2], call[3]) \in Walks(manifest.scripts)
<1>. DEFINE scripts == manifest.scripts
            name == call[1]
            active == call[2]
            walk == call[3]
            base == [walk EXCEPT !.seen = @ \cup {name}]
<1>1. name \in Names(scripts) /\ active \in SUBSET Names(scripts) /\ walk \in Walks(scripts) BY DEF Calls
<1>2. Refused(walk) \in Walks(scripts) BY <1>1 DEF Refused, Walks
<1>3. base \in Walks(scripts) BY <1>1 DEF Walks
<1>4. ASSUME left # 0, name \in DOMAIN scripts
      PROVE  FollowAll(deeper, active \cup {name}, base, scripts[name]) \in Walks(scripts)
  <2>1. Known(scripts, scripts[name]) BY <1>4, ScriptsAreKnown
  <2>2. Len(scripts[name]) \in 0..Len(scripts[name]) BY <2>1 DEF Known
  <2>3. active \cup {name} \in SUBSET Names(scripts) BY <1>1
  <2>. DEFINE longer == active \cup {name}
  <2>4. deeper \in [Calls(scripts) -> Walks(scripts)] BY <1>4
  <2>. HIDE DEF base, longer
  <2>5. PICK f \in [0..Len(scripts[name]) -> Walks(scripts)] :
               FollowAll(deeper, longer, base, scripts[name]) = f[Len(scripts[name])]
      BY <1>3, <2>1, <2>3, <2>4, FollowAllDef DEF longer
  <2>. QED BY <2>2, <2>5 DEF longer
<1>. HIDE DEF base
<1>. QED BY <1>1, <1>2, <1>4 DEF Enter, base

(* visit, level by level: what is left of the depth, and the calls there.   *)
Levels(scripts, f) ==
    \A left \in 0..MaxDepth + 1 : \A call \in Calls(scripts) :
        f[left][call] = Enter(scripts, left, f[left - 1], call[1], call[2], call[3])

(* Visit is what its levels build up to.                                     *)
LEMMA VisitDef ==
    ASSUME MaxDepth \in Nat, NEW manifest, IsManifest(manifest)
    PROVE  \E f \in [0..MaxDepth + 1 -> [Calls(manifest.scripts) -> Walks(manifest.scripts)]] :
               Levels(manifest.scripts, f) /\ Visit(manifest.scripts) = f[MaxDepth + 1]
<1>. DEFINE scripts == manifest.scripts
            n == MaxDepth + 1
            C == Calls(scripts)
            T == [C -> Walks(scripts)]
            Level(left, g) == [call \in C |-> Enter(scripts, left, g, call[1], call[2], call[3])]
            F == [p \in Nat \X T |-> Level(p[1], p[2])]
            Def(f) == [left \in 0..n |-> Level(left, f[left - 1])]
            From == CHOOSE f : f = Def(f)
            zero == Level(0, 0)
<1>1. n \in Nat OBVIOUS
<1>2. ASSUME NEW left \in Nat, NEW g \in T PROVE Level(left, g) \in T BY EnterType
<1>3. ASSUME NEW g PROVE Level(0, g) \in T BY EnterType
<1>3a. ASSUME NEW g, NEW k PROVE Level(0, g) = Level(0, k) BY DEF Enter
<1>. HIDE DEF T, n, Level
<1>4. F \in [Nat \X T -> T] BY <1>2
<1>5. PICK g \in [Nat -> T] : Recurs(g, zero, F)
  <2>1. zero \in T BY <1>3
  <2>. HIDE DEF F, zero
  <2>. QED BY <2>1, <1>4, Recursion
<1>. DEFINE h == [i \in 0..n |-> g[i]]
<1>6. h = Def(h)
  <2>1. ASSUME NEW i \in 0..n PROVE h[i] = Level(i, h[i - 1])
    <3>1. CASE i = 0
      <4>1. h[i] = zero BY <3>1, <1>5 DEF Recurs
      <4>. HIDE DEF h
      <4>. QED BY <4>1, <3>1, <1>3a
    <3>2. CASE i # 0
      <4>1. i - 1 \in Nat /\ i - 1 \in 0..n /\ i \in Nat /\ (i - 1) + 1 = i BY <3>2, <1>1
      <4>2. g[i] = F[<<i, g[i - 1]>>] BY <4>1, <1>5 DEF Recurs
      <4>3. g[i - 1] \in T BY <4>1, <1>5
      <4>4. F[<<i, g[i - 1]>>] = Level(i, g[i - 1]) BY <4>1, <4>3
      <4>. QED BY <4>1, <4>2, <4>4
    <3>. QED BY <3>1, <3>2
  <2>. HIDE DEF h
  <2>2. DOMAIN h = 0..n /\ h = [i \in 0..n |-> h[i]] BY DEF h
  <2>. QED BY <2>1, <2>2
<1>7. From = Def(From)
  <2>. HIDE DEF h, Def
  <2>. QED BY <1>6
<1>8. Visit(scripts) = From[n] BY DEF Visit, n, Level
<1>. HIDE DEF From
<1>9. \A i \in 0..n : From[i] = Level(i, From[i - 1])
  <2>1. \A i \in 0..n : Def(From)[i] = Level(i, From[i - 1]) OBVIOUS
  <2>. HIDE DEF Def
  <2>. QED BY <2>1, <1>7
<1>10. \A i \in 0..n : From[i] \in T
  <2>. DEFINE S == {i \in Nat : i <= n => From[i] \in T}
  <2>1. 0 \in S
    <3>1. 0 \in 0..n BY <1>1
    <3>2. From[0] = Level(0, From[0 - 1]) BY <3>1, <1>9
    <3>. QED BY <3>2, <1>3
  <2>2. ASSUME NEW i \in S PROVE i + 1 \in S
    <3>1. SUFFICES ASSUME i + 1 <= n PROVE From[i + 1] \in T BY <2>2
    <3>2. i \in Nat /\ i + 1 \in 0..n /\ (i + 1) - 1 = i /\ From[i] \in T BY <2>2, <3>1, <1>1
    <3>3. From[i + 1] = Level(i + 1, From[i]) BY <3>2, <1>9
    <3>4. i + 1 \in Nat BY <3>2
    <3>. QED BY <3>2, <3>3, <3>4, <1>2
  <2>3. S = Nat
    <3>. HIDE DEF S
    <3>1. S \subseteq Nat BY DEF S
    <3>. QED BY <2>1, <2>2, <3>1, Induction
  <2>. QED BY <2>3, <1>1
<1>11. From \in [0..n -> T]
  <2>1. \E f : From = [i \in 0..n |-> f[i]]
    <3>1. Def(From) = [i \in 0..n |-> Def(From)[i]] OBVIOUS
    <3>. HIDE DEF Def
    <3>. QED BY <3>1, <1>7
  <2>. QED BY <2>1, <1>10
<1>12. Levels(scripts, From)
  <2>1. ASSUME NEW i \in 0..n, NEW call \in C
        PROVE  From[i][call] = Enter(scripts, i, From[i - 1], call[1], call[2], call[3])
    <3>1. From[i] = Level(i, From[i - 1]) BY <1>9
    <3>. QED BY <3>1 DEF Level
  <2>. QED BY <2>1 DEF Levels, n
<1>. QED BY <1>8, <1>11, <1>12 DEF T, n
-----------------------------------------------------------------------------
(* What a walk that is valid has found.                                      *)

(* What "npm test" runs holds "test" and all that its members call.          *)
LEMMA ReachHolds ==
    ASSUME NEW scripts
    PROVE  /\ "test" \in Reach(scripts) /\ Reach(scripts) \subseteq Names(scripts)
           /\ \A s \in Reach(scripts) \cap DOMAIN scripts : Callees(scripts, s) \subseteq Reach(scripts)
<1>1. "test" \in Reach(scripts) BY DEF Reach, Closed, Names
<1>2. ASSUME NEW s \in Reach(scripts) \cap DOMAIN scripts, NEW t \in Callees(scripts, s)
      PROVE  t \in Reach(scripts)
  <2>1. t \in Names(scripts) BY <1>2 DEF Names
  <2>2. ASSUME NEW names \in SUBSET Names(scripts), Closed(scripts, names) PROVE t \in names
    <3>1. s \in names BY <1>2, <2>2 DEF Reach
    <3>. QED BY <1>2, <2>2, <3>1 DEF Closed
  <2>. QED BY <2>1, <2>2 DEF Reach
<1>. QED BY <1>1, <1>2 DEF Reach

(* What a walk has found while the scripts of the chain are still being read: *)
(* the others are read to the end, call each other only, and none is in a    *)
(* loop; and no runner was made up.                                          *)
Grown(v, w) == v.seen \subseteq w.seen /\ v.runners \subseteq w.runners
HasRead(w, c) == ~Unread(c) /\ (Tests(c) => c.runner \in w.runners)
NoLoop(scripts, names) ==
    \A loop \in SUBSET names : loop # {} => \E s \in loop : Callees(scripts, s) \cap loop = {}

Sound(scripts, active, w) ==
    /\ active \subseteq w.seen /\ w.seen \subseteq DOMAIN scripts \cap Reach(scripts)
    /\ w.runners \subseteq RunnersIn(scripts, w.seen)
    /\ \A s \in w.seen \ active :
           /\ Callees(scripts, s) \subseteq w.seen \ active
           /\ \A i \in DOMAIN scripts[s] : HasRead(w, scripts[s][i])
    /\ NoLoop(scripts, w.seen \ active)

Finds(scripts, name, active, walk, found) ==
    Sound(scripts, active, found) /\ name \in found.seen \ active /\ Grown(walk, found)

VisitsWell(scripts, deeper) ==
    \A name \in Names(scripts), active \in SUBSET Names(scripts), walk \in Walks(scripts) :
        LET found == deeper[<<name, active, walk>>]
        IN  name \in Reach(scripts) /\ walk.valid /\ Sound(scripts, active, walk) /\ found.valid =>
                Finds(scripts, name, active, walk, found)

(* A command keeps a walk sound, and is read.                                *)
LEMMA FollowSound ==
    ASSUME NEW manifest, IsManifest(manifest), NEW name \in DOMAIN manifest.scripts,
           name \in Reach(manifest.scripts), NEW i \in DOMAIN manifest.scripts[name],
           NEW deeper \in [Calls(manifest.scripts) -> Walks(manifest.scripts)],
           VisitsWell(manifest.scripts, deeper),
           NEW active \in SUBSET Names(manifest.scripts), name \in active,
           NEW walk \in Walks(manifest.scripts), Sound(manifest.scripts, active, walk),
           Follow(deeper, active, walk, manifest.scripts[name][i]).valid
    PROVE  LET c == manifest.scripts[name][i]
               found == Follow(deeper, active, walk, c)
           IN  /\ walk.valid /\ Sound(manifest.scripts, active, found) /\ Grown(walk, found)
               /\ HasRead(found, c) /\ (Runs(c) => c.run \in found.seen \ active)
<1>. DEFINE scripts == manifest.scripts
            c == scripts[name][i]
            found == Follow(deeper, active, walk, c)
<1>1. walk.valid BY DEF Follow
<1>2. ~Unread(c) BY <1>1 DEF Follow, Refused, Walks
<1>3. c \in Range(scripts[name]) /\ ~(Runs(c) /\ Tests(c)) BY DEF Range, IsManifest
<1>4. Grown(walk, walk) BY DEF Grown
<1>5. CASE Runs(c)
  <2>1. found = deeper[<<c.run, active, walk>>] BY <1>1, <1>2, <1>5 DEF Follow
  <2>2. c.run \in Callees(scripts, name) BY <1>5 DEF Callees
  <2>3. c.run \in Reach(scripts) /\ c.run \in Names(scripts) BY <2>2, ReachHolds
  <2>. HIDE DEF found, c
  <2>. QED BY <1>1, <1>2, <1>3, <1>5, <2>1, <2>3 DEF VisitsWell, Finds, HasRead, found, c
<1>6. CASE Tests(c)
  <2>1. found = [walk EXCEPT !.runners = @ \cup {c.runner}] BY <1>1, <1>2, <1>3, <1>6 DEF Follow
  <2>2. c.runner \in RunnersIn(scripts, walk.seen)
    <3>1. name \in walk.seen BY DEF Sound
    <3>2. c \in UNION {Range(scripts[t]) : t \in walk.seen} BY <1>3, <3>1
    <3>. QED BY <3>2, <1>6 DEF RunnersIn
  <2>3. found.seen = walk.seen /\ found.runners = walk.runners \cup {c.runner} BY <2>1 DEF Walks
  <2>. HIDE DEF found, c
  <2>4. Sound(scripts, active, found) BY <2>2, <2>3 DEF Sound, HasRead
  <2>. QED BY <1>1, <1>2, <1>3, <1>6, <2>3, <2>4 DEF HasRead, Grown, found, c
<1>7. CASE ~Runs(c) /\ ~Tests(c)
  <2>1. found = walk BY <1>1, <1>2, <1>7 DEF Follow
  <2>. HIDE DEF found, c
  <2>. QED BY <1>1, <1>2, <1>4, <1>7, <2>1 DEF HasRead, found, c
<1>. QED BY <1>5, <1>6, <1>7

(* A script that is walked to its end keeps the walk sound, and is read.     *)
LEMMA FollowAllSound ==
    ASSUME NEW manifest, IsManifest(manifest), NEW name \in DOMAIN manifest.scripts,
           name \in Reach(manifest.scripts),
           NEW deeper \in [Calls(manifest.scripts) -> Walks(manifest.scripts)],
           VisitsWell(manifest.scripts, deeper),
           NEW active \in SUBSET Names(manifest.scripts), name \in active,
           NEW walk \in Walks(manifest.scripts), Sound(manifest.scripts, active, walk),
           FollowAll(deeper, active, walk, manifest.scripts[name]).valid
    PROVE  LET script == manifest.scripts[name]
               found == FollowAll(deeper, active, walk, script)
           IN  /\ Sound(manifest.scripts, active, found) /\ Grown(walk, found)
               /\ \A i \in DOMAIN script :
                      HasRead(found, script[i]) /\ (Runs(script[i]) => script[i].run \in found.seen \ active)
<1>. DEFINE scripts == manifest.scripts
            script == scripts[name]
            n == Len(script)
            W == Walks(scripts)
<1>1. Known(scripts, script) BY ScriptsAreKnown
<1>2. n \in Nat /\ DOMAIN script = 1..n BY <1>1 DEF Known
<1>3. PICK f \in [0..n -> W] :
          Steps(deeper, active, walk, script, f) /\ FollowAll(deeper, active, walk, script) = f[n]
    BY <1>1, FollowAllDef
<1>. DEFINE Good(i) == f[i].valid =>
                /\ Sound(scripts, active, f[i]) /\ Grown(walk, f[i])
                /\ \A j \in 1..i :
                       HasRead(f[i], script[j]) /\ (Runs(script[j]) => script[j].run \in f[i].seen \ active)
            S == {i \in Nat : i <= n => Good(i)}
<1>4. 0 \in S
  <2>1. f[0] = walk BY <1>3 DEF Steps
  <2>. QED BY <2>1 DEF Grown
<1>5. ASSUME NEW i \in S PROVE i + 1 \in S
  <2>. DEFINE c == script[i + 1]
              v == f[i]
              w == f[i + 1]
  <2>1. SUFFICES ASSUME i + 1 <= n, w.valid PROVE Good(i + 1) BY <1>5
  <2>2. i \in Nat /\ i + 1 \in 1..n /\ (i + 1) - 1 = i /\ i \in 0..n /\ Good(i) BY <1>5, <1>2, <2>1
  <2>3. w = Follow(deeper, active, v, c) BY <1>3, <2>2 DEF Steps
  <2>4. v \in W /\ i + 1 \in DOMAIN script BY <1>2, <1>3, <2>2
  <2>5. v.valid BY <2>1, <2>3 DEF Follow
  <2>6. /\ Sound(scripts, active, v) /\ Grown(walk, v)
        /\ \A j \in 1..i : HasRead(v, script[j]) /\ (Runs(script[j]) => script[j].run \in v.seen \ active)
      BY <2>2, <2>5
  <2>. HIDE DEF c, v, w, W, Good
  <2>7. /\ Sound(scripts, active, w) /\ Grown(v, w)
        /\ HasRead(w, c) /\ (Runs(c) => c.run \in w.seen \ active)
      BY <2>1, <2>3, <2>4, <2>6, FollowSound DEF c, W
  <2>8. Grown(walk, w) BY <2>6, <2>7 DEF Grown
  <2>9. ASSUME NEW j \in 1..(i + 1)
        PROVE  HasRead(w, script[j]) /\ (Runs(script[j]) => script[j].run \in w.seen \ active)
    <3>1. CASE j = i + 1 BY <3>1, <2>7 DEF c
    <3>2. CASE j # i + 1
      <4>1. j \in 1..i BY <3>2, <2>2
      <4>2. HasRead(v, script[j]) /\ (Runs(script[j]) => script[j].run \in v.seen \ active) BY <4>1, <2>6
      <4>. QED BY <4>2, <2>7 DEF Grown, HasRead
    <3>. QED BY <3>1, <3>2
  <2>. QED BY <2>7, <2>8, <2>9 DEF Good, w
<1>6. S = Nat
  <2>. HIDE DEF S
  <2>1. S \subseteq Nat BY DEF S
  <2>. QED BY <1>4, <1>5, <2>1, Induction
<1>7. Good(n) BY <1>2, <1>6
<1>. QED BY <1>2, <1>3, <1>7

(* A call that ends well has found its script, in no loop.                   *)
LEMMA EnterSound ==
    ASSUME NEW manifest, IsManifest(manifest), NEW left,
           NEW deeper,
           left # 0 => /\ deeper \in [Calls(manifest.scripts) -> Walks(manifest.scripts)]
                       /\ VisitsWell(manifest.scripts, deeper),
           NEW name \in Reach(manifest.scripts), NEW active \in SUBSET Names(manifest.scripts),
           NEW walk \in Walks(manifest.scripts), walk.valid, Sound(manifest.scripts, active, walk),
           Enter(manifest.scripts, left, deeper, name, active, walk).valid
    PROVE  Finds(manifest.scripts, name, active, walk, Enter(manifest.scripts, left, deeper, name, active, walk))
<1>. DEFINE scripts == manifest.scripts
            longer == active \cup {name}
            base == [walk EXCEPT !.seen = @ \cup {name}]
            found == Enter(scripts, left, deeper, name, active, walk)
<1>1. ~Refused(walk).valid BY DEF Refused, Walks
<1>2. left # 0 /\ name \notin active BY <1>1 DEF Enter
<1>3. CASE name \in walk.seen
  <2>1. found = walk BY <1>1, <1>2, <1>3 DEF Enter
  <2>. HIDE DEF found
  <2>. QED BY <2>1, <1>2, <1>3 DEF Finds, Grown, found
<1>4. CASE name \notin walk.seen
  <2>1. name \in DOMAIN scripts /\ found = FollowAll(deeper, longer, base, scripts[name])
      BY <1>1, <1>2, <1>4 DEF Enter
  <2>2. name \in Names(scripts) BY ReachHolds
  <2>3. base \in Walks(scripts) /\ base.seen = walk.seen \cup {name} /\ base.runners = walk.runners
      BY <2>2 DEF Walks
  <2>4. longer \in SUBSET Names(scripts) /\ name \in longer BY <2>2
  <2>. DEFINE script == scripts[name]
  <2>. HIDE DEF base
  <2>5. base.seen \ longer = walk.seen \ active BY <1>2, <1>4, <2>3
  <2>6. Sound(scripts, longer, base)
    <3>1. RunnersIn(scripts, walk.seen) \subseteq RunnersIn(scripts, base.seen) BY <2>3 DEF RunnersIn
    <3>2. ASSUME NEW s \in base.seen \ longer
          PROVE  /\ Callees(scripts, s) \subseteq base.seen \ longer
                 /\ \A i \in DOMAIN scripts[s] : HasRead(base, scripts[s][i])
        BY <2>3, <2>5, <3>2 DEF Sound, HasRead
    <3>. QED BY <2>1, <2>3, <2>5, <3>1, <3>2 DEF Sound
  <2>. HIDE DEF longer, found, script
  <2>7. /\ Sound(scripts, longer, found) /\ Grown(base, found)
        /\ \A i \in DOMAIN script :
               HasRead(found, script[i]) /\ (Runs(script[i]) => script[i].run \in found.seen \ longer)
      BY <1>2, <2>1, <2>3, <2>4, <2>6, FollowAllSound DEF found, script
  <2>8. name \in found.seen \ active BY <1>2, <2>3, <2>7 DEF Grown
  <2>9. found.seen \ active = (found.seen \ longer) \cup {name} BY <2>8 DEF longer
  <2>10. Callees(scripts, name) \subseteq found.seen \ longer BY <2>7 DEF Callees, script
  <2>11. ASSUME NEW s \in found.seen \ active
         PROVE  /\ Callees(scripts, s) \subseteq found.seen \ active
                /\ \A i \in DOMAIN scripts[s] : HasRead(found, scripts[s][i])
    <3>1. CASE s = name BY <3>1, <2>7, <2>9, <2>10 DEF script
    <3>2. CASE s # name
      <4>1. s \in found.seen \ longer BY <3>2, <2>9
      <4>2. /\ Callees(scripts, s) \subseteq found.seen \ longer
            /\ \A i \in DOMAIN scripts[s] : HasRead(found, scripts[s][i])
          BY <4>1, <2>7 DEF Sound
      <4>. QED BY <4>2, <2>9
    <3>. QED BY <3>1, <3>2
  <2>12. NoLoop(scripts, found.seen \ active)
    <3>1. SUFFICES ASSUME NEW loop \in SUBSET (found.seen \ active), loop # {}
                   PROVE  \E s \in loop : Callees(scripts, s) \cap loop = {}
        BY DEF NoLoop
    <3>. DEFINE rest == loop \ {name}
    <3>2. rest \in SUBSET (found.seen \ longer) BY <2>9
    <3>3. CASE rest = {}
      <4>1. loop = {name} BY <3>3, <3>1
      <4>2. name \notin Callees(scripts, name) BY <2>10 DEF longer
      <4>. QED BY <4>1, <4>2
    <3>4. CASE rest # {}
      <4>1. NoLoop(scripts, found.seen \ longer) BY <2>7 DEF Sound
      <4>2. PICK s \in rest : Callees(scripts, s) \cap rest = {} BY <3>2, <3>4, <4>1 DEF NoLoop
      <4>3. s \in found.seen \ longer BY <3>2
      <4>4. Callees(scripts, s) \subseteq found.seen \ longer BY <4>3, <2>7 DEF Sound
      <4>5. name \notin Callees(scripts, s) BY <4>4 DEF longer
      <4>. QED BY <4>2, <4>5
    <3>. QED BY <3>3, <3>4
  <2>13. Sound(scripts, active, found)
    <3>1. active \subseteq found.seen /\ found.seen \subseteq DOMAIN scripts \cap Reach(scripts)
          /\ found.runners \subseteq RunnersIn(scripts, found.seen) BY <2>7 DEF Sound, longer
    <3>. QED BY <3>1, <2>11, <2>12 DEF Sound
  <2>14. Grown(walk, found) BY <2>3, <2>7 DEF Grown
  <2>. QED BY <2>8, <2>13, <2>14 DEF Finds, found
<1>. QED BY <1>3, <1>4

(* So do all calls, by the depth that is left.                               *)
LEMMA VisitSound ==
    ASSUME MaxDepth \in Nat, NEW manifest, IsManifest(manifest)
    PROVE  VisitsWell(manifest.scripts, Visit(manifest.scripts))
<1>. DEFINE scripts == manifest.scripts
            n == MaxDepth + 1
<1>1. PICK f \in [0..n -> [Calls(scripts) -> Walks(scripts)]] :
          Levels(scripts, f) /\ Visit(scripts) = f[n] BY VisitDef
<1>. DEFINE S == {i \in Nat : i <= n => VisitsWell(scripts, f[i])}
<1>2. ASSUME NEW i \in 0..n, i # 0 => VisitsWell(scripts, f[i - 1]) PROVE VisitsWell(scripts, f[i])
  <2>1. i # 0 => f[i - 1] \in [Calls(scripts) -> Walks(scripts)] BY <1>1
  <2>2. ASSUME NEW name \in Names(scripts), NEW active \in SUBSET Names(scripts), NEW walk \in Walks(scripts),
               name \in Reach(scripts), walk.valid, Sound(scripts, active, walk), f[i][<<name, active, walk>>].valid
        PROVE  Finds(scripts, name, active, walk, f[i][<<name, active, walk>>])
    <3>. DEFINE call == <<name, active, walk>>
    <3>1. call \in Calls(scripts) /\ call[1] = name /\ call[2] = active /\ call[3] = walk BY DEF Calls
    <3>. HIDE DEF call
    <3>2. f[i][call] = Enter(scripts, i, f[i - 1], name, active, walk) BY <1>1, <3>1 DEF Levels
    <3>3. Enter(scripts, i, f[i - 1], name, active, walk).valid BY <2>2, <3>2 DEF call
    <3>. DEFINE deeper == f[i - 1]
                found == Enter(scripts, i, deeper, name, active, walk)
    <3>4. i # 0 => deeper \in [Calls(scripts) -> Walks(scripts)] /\ VisitsWell(scripts, deeper)
        BY <1>2, <2>1
    <3>. HIDE DEF deeper
    <3>5. Finds(scripts, name, active, walk, found)
        BY <2>2, <3>3, <3>4, EnterSound DEF deeper
    <3>. QED BY <3>2, <3>5 DEF call, deeper
  <2>. QED BY <2>2 DEF VisitsWell
<1>3. 0 \in S BY <1>2
<1>4. ASSUME NEW i \in S PROVE i + 1 \in S
  <2>1. SUFFICES ASSUME i + 1 <= n PROVE VisitsWell(scripts, f[i + 1]) BY <1>4
  <2>2. i + 1 \in 0..n /\ (i + 1) - 1 = i /\ VisitsWell(scripts, f[i]) BY <1>4, <2>1
  <2>. QED BY <2>2, <1>2
<1>5. S = Nat
  <2>. HIDE DEF S
  <2>1. S \subseteq Nat BY DEF S
  <2>. QED BY <1>3, <1>4, <2>1, Induction
<1>. QED BY <1>1, <1>5
-----------------------------------------------------------------------------
(* When a walk is valid.                                                     *)

(* The bounds are generous enough: from a script to those it calls the rank  *)
(* falls, so the depth that is left never runs out before the rank does.     *)
Ranked(scripts, rank) ==
    /\ rank \in [Reach(scripts) -> 0..MaxDepth]
    /\ \A s \in Reach(scripts) : \A t \in Callees(scripts, s) \cap Reach(scripts) : rank[t] < rank[s]

(* A call of a walk that stays within what is run, below its chain.          *)
Within(scripts, rank, left, name, active, walk) ==
    /\ walk.valid /\ walk.seen \subseteq Reach(scripts)
    /\ name \in Reach(scripts) /\ active \subseteq Reach(scripts)
    /\ rank[name] < left /\ \A s \in active : rank[name] < rank[s]

Accepts(scripts, rank, left, deeper) ==
    \A name \in Names(scripts), active \in SUBSET Names(scripts), walk \in Walks(scripts) :
        LET found == deeper[<<name, active, walk>>]
        IN  Within(scripts, rank, left, name, active, walk) =>
                found.valid /\ found.seen \subseteq Reach(scripts)

(* No command of a script that terminates, within the bounds, is refused.    *)
LEMMA FollowAllAccepts ==
    ASSUME NEW manifest, IsManifest(manifest), Terminates(manifest.scripts),
           NEW rank, Ranked(manifest.scripts, rank), NEW left \in Nat,
           NEW name \in Reach(manifest.scripts), rank[name] <= left,
           NEW deeper \in [Calls(manifest.scripts) -> Walks(manifest.scripts)],
           Accepts(manifest.scripts, rank, left, deeper),
           NEW active \in SUBSET Reach(manifest.scripts), name \in active,
           \A s \in active : rank[name] <= rank[s],
           NEW walk \in Walks(manifest.scripts), walk.valid, walk.seen \subseteq Reach(manifest.scripts)
    PROVE  LET found == FollowAll(deeper, active, walk, manifest.scripts[name])
           IN  found.valid /\ found.seen \subseteq Reach(manifest.scripts)
<1>. DEFINE scripts == manifest.scripts
            script == scripts[name]
            n == Len(script)
            W == Walks(scripts)
            Good(w) == w.valid /\ w.seen \subseteq Reach(scripts)
<1>0. name \in DOMAIN scripts BY DEF Terminates
<1>1. Known(scripts, script) BY <1>0, ScriptsAreKnown
<1>2. n \in Nat /\ DOMAIN script = 1..n BY <1>1 DEF Known
<1>2a. active \in SUBSET Names(scripts) BY ReachHolds
<1>3. PICK f \in [0..n -> W] :
          Steps(deeper, active, walk, script, f) /\ FollowAll(deeper, active, walk, script) = f[n]
    BY <1>1, <1>2a, FollowAllDef
<1>. DEFINE S == {i \in Nat : i <= n => Good(f[i])}
<1>4. 0 \in S
  <2>1. f[0] = walk BY <1>3 DEF Steps
  <2>. QED BY <2>1
<1>5. ASSUME NEW i \in S PROVE i + 1 \in S
  <2>. DEFINE c == script[i + 1]
              v == f[i]
              w == f[i + 1]
  <2>1. SUFFICES ASSUME i + 1 <= n PROVE Good(w) BY <1>5
  <2>2. i \in Nat /\ i + 1 \in 1..n /\ (i + 1) - 1 = i /\ i \in 0..n /\ Good(v) BY <1>5, <1>2, <2>1
  <2>3. w = Follow(deeper, active, v, c) BY <1>3, <2>2 DEF Steps
  <2>4. v \in W /\ i + 1 \in DOMAIN script BY <1>2, <1>3, <2>2
  <2>5. ~Unread(c) BY <2>4 DEF Terminates
  <2>6. CASE Runs(c)
    <3>1. w = deeper[<<c.run, active, v>>] BY <2>2, <2>3, <2>5, <2>6 DEF Follow
    <3>2. c.run \in Callees(scripts, name) BY <2>4, <2>6 DEF Callees
    <3>3. c.run \in Reach(scripts) /\ c.run \in Names(scripts) BY <1>0, <3>2, ReachHolds
    <3>4. rank[c.run] < rank[name] BY <3>2, <3>3 DEF Ranked
    <3>5. rank[c.run] \in Int /\ rank[name] \in Int /\ \A s \in active : rank[s] \in Int BY <3>3 DEF Ranked
    <3>6. rank[c.run] < left /\ \A s \in active : rank[c.run] < rank[s] BY <3>4, <3>5
    <3>7. Within(scripts, rank, left, c.run, active, v) BY <2>2, <3>3, <3>6 DEF Within
    <3>. HIDE DEF w, v, c, W
    <3>8. w.valid /\ w.seen \subseteq Reach(scripts) BY <1>2a, <2>4, <3>1, <3>3, <3>7 DEF Accepts, W
    <3>. QED BY <3>8
  <2>7. CASE ~Runs(c)
    <3>1. w = v \/ w = [v EXCEPT !.runners = @ \cup {c.runner}] BY <2>2, <2>3, <2>5, <2>7 DEF Follow
    <3>2. w.valid = v.valid /\ w.seen = v.seen BY <2>4, <3>1 DEF Walks
    <3>. QED BY <3>2, <2>2
  <2>. QED BY <2>6, <2>7
<1>6. S = Nat
  <2>. HIDE DEF S
  <2>1. S \subseteq Nat BY DEF S
  <2>. QED BY <1>4, <1>5, <2>1, Induction
<1>7. Good(f[n]) BY <1>2, <1>6
<1>. QED BY <1>3, <1>7

(* Neither is a call.                                                        *)
LEMMA EnterAccepts ==
    ASSUME MaxScripts \in Nat, NEW manifest, IsManifest(manifest), Terminates(manifest.scripts),
           Cardinality(Reach(manifest.scripts)) < MaxScripts,
           NEW rank, Ranked(manifest.scripts, rank), NEW left \in Nat, NEW deeper,
           left # 0 => /\ deeper \in [Calls(manifest.scripts) -> Walks(manifest.scripts)]
                       /\ Accepts(manifest.scripts, rank, left - 1, deeper),
           NEW name, NEW active \in SUBSET Names(manifest.scripts), NEW walk \in Walks(manifest.scripts),
           Within(manifest.scripts, rank, left, name, active, walk)
    PROVE  LET found == Enter(manifest.scripts, left, deeper, name, active, walk)
           IN  found.valid /\ found.seen \subseteq Reach(manifest.scripts)
<1>. DEFINE scripts == manifest.scripts
            longer == active \cup {name}
            base == [walk EXCEPT !.seen = @ \cup {name}]
            found == Enter(scripts, left, deeper, name, active, walk)
<1>1. name \in Reach(scripts) /\ Reach(scripts) \subseteq DOMAIN scripts BY DEF Within, Terminates
<1>2. rank[name] \in 0..MaxDepth /\ \A s \in active : rank[s] \in 0..MaxDepth
    BY <1>1 DEF Ranked, Within
<1>3. left # 0 /\ rank[name] <= left - 1 BY <1>2 DEF Within
<1>4. name \notin active BY <1>2 DEF Within
<1>5. ~(Cardinality(walk.seen) >= MaxScripts)
  <2>1. IsFiniteSet(Reach(scripts)) BY <1>1, FS_Subset DEF IsManifest
  <2>2. Cardinality(walk.seen) <= Cardinality(Reach(scripts)) BY <2>1, FS_Subset DEF Within
  <2>3. IsFiniteSet(walk.seen) BY <2>1, FS_Subset DEF Within
  <2>. QED BY <2>1, <2>2, <2>3, FS_CardinalityType
<1>6. CASE name \in walk.seen
  <2>1. found = walk BY <1>3, <1>4, <1>5, <1>6 DEF Enter
  <2>. QED BY <2>1 DEF Within
<1>7. CASE name \notin walk.seen
  <2>1. found = FollowAll(deeper, longer, base, scripts[name])
      BY <1>1, <1>3, <1>4, <1>5, <1>7 DEF Enter
  <2>2. base \in Walks(scripts) /\ base.valid /\ base.seen \subseteq Reach(scripts)
    <3>1. name \in Names(scripts) BY <1>1, ReachHolds
    <3>. QED BY <3>1, <1>1 DEF Walks, Within
  <2>3. longer \in SUBSET Reach(scripts) /\ name \in longer BY <1>1 DEF Within
  <2>4. \A s \in longer : rank[name] <= rank[s] BY <1>2 DEF Within
  <2>5. left - 1 \in Nat BY <1>3
  <2>6. deeper \in [Calls(scripts) -> Walks(scripts)] /\ Accepts(scripts, rank, left - 1, deeper) BY <1>3
  <2>. HIDE DEF base, longer, found
  <2>7. found.valid /\ found.seen \subseteq Reach(scripts)
      BY <1>1, <1>3, <2>1, <2>2, <2>3, <2>4, <2>5, <2>6, FollowAllAccepts
  <2>. QED BY <2>7 DEF found
<1>. QED BY <1>6, <1>7

(* Nor are all calls, by the depth that is left.                             *)
LEMMA VisitAccepts ==
    ASSUME MaxDepth \in Nat, MaxScripts \in Nat, NEW manifest, IsManifest(manifest), Terminates(manifest.scripts),
           Cardinality(Reach(manifest.scripts)) < MaxScripts, NEW rank, Ranked(manifest.scripts, rank)
    PROVE  Accepts(manifest.scripts, rank, MaxDepth + 1, Visit(manifest.scripts))
<1>. DEFINE scripts == manifest.scripts
            n == MaxDepth + 1
<1>1. PICK f \in [0..n -> [Calls(scripts) -> Walks(scripts)]] :
          Levels(scripts, f) /\ Visit(scripts) = f[n] BY VisitDef
<1>. DEFINE S == {i \in Nat : i <= n => Accepts(scripts, rank, i, f[i])}
<1>2. ASSUME NEW i \in 0..n, i # 0 => Accepts(scripts, rank, i - 1, f[i - 1])
      PROVE  Accepts(scripts, rank, i, f[i])
  <2>1. i # 0 => f[i - 1] \in [Calls(scripts) -> Walks(scripts)] BY <1>1
  <2>2. ASSUME NEW name \in Names(scripts), NEW active \in SUBSET Names(scripts), NEW walk \in Walks(scripts),
               Within(scripts, rank, i, name, active, walk)
        PROVE  LET found == f[i][<<name, active, walk>>]
               IN  found.valid /\ found.seen \subseteq Reach(scripts)
    <3>. DEFINE call == <<name, active, walk>>
                deeper == f[i - 1]
                found == Enter(scripts, i, deeper, name, active, walk)
    <3>1. call \in Calls(scripts) /\ call[1] = name /\ call[2] = active /\ call[3] = walk BY DEF Calls
    <3>. HIDE DEF call
    <3>2. f[i][call] = found BY <1>1, <3>1 DEF Levels
    <3>3. i # 0 => deeper \in [Calls(scripts) -> Walks(scripts)] /\ Accepts(scripts, rank, i - 1, deeper)
        BY <1>2, <2>1
    <3>4. i \in Nat OBVIOUS
    <3>. HIDE DEF deeper
    <3>5. found.valid /\ found.seen \subseteq Reach(scripts) BY <2>2, <3>3, <3>4, EnterAccepts
    <3>. QED BY <3>2, <3>5 DEF call
  <2>. QED BY <2>2 DEF Accepts
<1>3. 0 \in S BY <1>2
<1>4. ASSUME NEW i \in S PROVE i + 1 \in S
  <2>1. SUFFICES ASSUME i + 1 <= n PROVE Accepts(scripts, rank, i + 1, f[i + 1]) BY <1>4
  <2>2. i + 1 \in 0..n /\ (i + 1) - 1 = i /\ Accepts(scripts, rank, i, f[i]) BY <1>4, <2>1
  <2>. QED BY <2>2, <1>2
<1>5. S = Nat
  <2>. HIDE DEF S
  <2>1. S \subseteq Nat BY DEF S
  <2>. QED BY <1>3, <1>4, <2>1, Induction
<1>. QED BY <1>1, <1>5

Nothing == [valid |-> TRUE, seen |-> {}, runners |-> {}]

(* A walk that is valid has found all that "npm test" runs, and no more.     *)
LEMMA ValidIsComplete ==
    ASSUME MaxDepth \in Nat, NEW manifest, IsManifest(manifest), ClassifyTestRunner(manifest.scripts).valid
    PROVE  /\ Terminates(manifest.scripts)
           /\ ClassifyTestRunner(manifest.scripts).runners = RunnersOf(manifest.scripts)
<1>. DEFINE scripts == manifest.scripts
            found == ClassifyTestRunner(scripts)
<1>1. Nothing \in Walks(scripts) /\ {} \in SUBSET Names(scripts) /\ "test" \in Names(scripts)
    BY DEF Walks, Nothing, Names
<1>2. Nothing.valid /\ Sound(scripts, {}, Nothing)
    BY DEF Nothing, Sound, NoLoop
<1>3. found = Visit(scripts)[<<"test", {}, Nothing>>] BY DEF ClassifyTestRunner, Nothing
<1>4. "test" \in Reach(scripts) BY ReachHolds
<1>. HIDE DEF found
<1>5. Sound(scripts, {}, found) /\ "test" \in found.seen
  <2>1. found.valid BY DEF found
  <2>. QED BY <1>1, <1>2, <1>3, <1>4, <2>1, VisitSound DEF VisitsWell, Finds
<1>6. Reach(scripts) = found.seen
  <2>1. found.seen \subseteq Reach(scripts) BY <1>5 DEF Sound
  <2>2. found.seen \in SUBSET Names(scripts) BY <2>1, ReachHolds
  <2>3. Closed(scripts, found.seen) BY <1>5 DEF Sound, Closed
  <2>4. Reach(scripts) \subseteq found.seen BY <2>2, <2>3 DEF Reach
  <2>. QED BY <2>1, <2>4
<1>7. Terminates(scripts)
  <2>1. found.seen \subseteq DOMAIN scripts /\ \A s \in found.seen : \A i \in DOMAIN scripts[s] : ~Unread(scripts[s][i])
      BY <1>5 DEF Sound, HasRead
  <2>2. NoLoop(scripts, found.seen) BY <1>5 DEF Sound
  <2>. QED BY <1>6, <2>1, <2>2 DEF Terminates, NoLoop
<1>8. found.runners = RunnersOf(scripts)
  <2>1. RunnersOf(scripts) = RunnersIn(scripts, found.seen)
    <3>1. Reach(scripts) \cap DOMAIN scripts = found.seen BY <1>5, <1>6 DEF Sound
    <3>. QED BY <3>1 DEF RunnersOf
  <2>2. ASSUME NEW s \in found.seen, NEW c \in Range(scripts[s]), Tests(c) PROVE c.runner \in found.runners
    <3>1. PICK i \in DOMAIN scripts[s] : c = scripts[s][i] BY <2>2 DEF Range
    <3>2. HasRead(found, scripts[s][i]) BY <1>5 DEF Sound
    <3>. QED BY <2>2, <3>1, <3>2 DEF HasRead
  <2>3. RunnersIn(scripts, found.seen) \subseteq found.runners BY <2>2 DEF RunnersIn
  <2>4. found.runners \subseteq RunnersIn(scripts, found.seen) BY <1>5 DEF Sound
  <2>. QED BY <2>1, <2>3, <2>4
<1>. QED BY <1>7, <1>8 DEF found

(* The first reason is found where there is one, and none of them is "ready". *)
LEMMA ReadyHasNoFlaw ==
    ASSUME NEW manifest, IsManifest(manifest)
    PROVE  LET flaw == FirstFlaw(manifest)
           IN  /\ flaw = 0 <=> manifest.flaws = {}
               /\ flaw # 0 => Reasons[flaw] # "ready"
<1>. DEFINE I == {i \in 1..Len(Reasons) : Reasons[i] \in manifest.flaws}
            flaw == FirstFlaw(manifest)
<1>1. Len(Reasons) = 9 /\ DOMAIN Reasons = 1..9 /\ \A i \in 1..9 : Reasons[i] # "ready" BY DEF Reasons
<1>2. flaw = IF I # {} THEN CHOOSE x \in I : \A y \in I : x <= y ELSE 0
    BY DEF FirstFlaw, SelectInSeq, Min
<1>. HIDE DEF flaw
<1>3. I = {} <=> manifest.flaws = {}
  <2>1. ASSUME NEW reason \in manifest.flaws PROVE \E i \in I : TRUE
    <3>1. PICK i \in DOMAIN Reasons : reason = Reasons[i] BY <2>1 DEF IsManifest, Range
    <3>. QED BY <3>1, <1>1
  <2>. QED BY <2>1
<1>4. I \subseteq 1..9 BY <1>1
<1>. HIDE DEF I
<1>5. ASSUME I # {} PROVE flaw \in 1..9
  <2>1. I \subseteq Nat BY <1>4
  <2>2. \E n \in I : \A m \in I : n <= m BY <2>1, <1>5, LeastNumber
  <2>3. flaw \in I BY <1>2, <1>5, <2>2
  <2>. QED BY <2>3, <1>4
<1>6. I = {} => flaw = 0 BY <1>2
<1>7. flaw = 0 => I = {} BY <1>5
<1>. QED BY <1>1, <1>3, <1>5, <1>6, <1>7 DEF flaw

(* The detector says "ready" only of what terminates with one runner, for    *)
(* every manifest and every bound; and within generous bounds it says no less *)
(* (execution-profiles/detector.ts).                                         *)
THEOREM DetectorAgrees ==
    ASSUME MaxDepth \in Nat, MaxScripts \in Nat, NEW manifest, IsManifest(manifest)
    PROVE  Agrees(manifest)
<1>. DEFINE scripts == manifest.scripts
            flaw == FirstFlaw(manifest)
            walk == ClassifyTestRunner(scripts)
            ready == DetectExecutionProfile(manifest) = "ready"
<1>1. (flaw = 0 <=> manifest.flaws = {}) /\ (flaw # 0 => Reasons[flaw] # "ready") BY ReadyHasNoFlaw
<1>2. DetectExecutionProfile(manifest) =
          IF flaw # 0 THEN Reasons[flaw]
          ELSE IF ~walk.valid THEN "invalid_script_graph"
          ELSE IF walk.runners = {} THEN "unsupported_test_runner"
          ELSE IF Cardinality(walk.runners) # 1 THEN "ambiguous_test_runner"
          ELSE "ready"
    BY DEF DetectExecutionProfile
<1>. HIDE DEF flaw, walk
<1>3. ready <=> /\ manifest.flaws = {} /\ walk.valid
                /\ walk.runners # {} /\ Cardinality(walk.runners) = 1
    BY <1>1, <1>2
<1>4. ready => Runnable(manifest)
    BY <1>3, ValidIsComplete DEF Runnable, walk
<1>5. ASSUME Runnable(manifest), Small(scripts) PROVE ready
  <2>1. PICK rank : Ranked(scripts, rank) BY <1>5 DEF Small, Ranked
  <2>2. "test" \in Reach(scripts) BY ReachHolds
  <2>3. Nothing \in Walks(scripts) /\ {} \in SUBSET Names(scripts) /\ "test" \in Names(scripts)
      BY DEF Walks, Nothing, Names
  <2>4. Within(scripts, rank, MaxDepth + 1, "test", {}, Nothing)
      BY <2>1, <2>2 DEF Within, Ranked, Nothing
  <2>5. walk = Visit(scripts)[<<"test", {}, Nothing>>] BY DEF ClassifyTestRunner, Nothing, walk
  <2>6. Accepts(scripts, rank, MaxDepth + 1, Visit(scripts))
      BY <1>5, <2>1, VisitAccepts DEF Runnable, Small
  <2>7. walk.valid BY <2>3, <2>4, <2>5, <2>6 DEF Accepts
  <2>8. walk.runners = RunnersOf(scripts) BY <2>7, ValidIsComplete DEF walk
  <2>9. Cardinality(walk.runners) = 1 BY <1>5, <2>8 DEF Runnable
  <2>10. walk.runners # {} BY <2>9, FS_EmptySet
  <2>. QED BY <1>3, <1>5, <2>7, <2>9, <2>10 DEF Runnable
<1>. QED BY <1>4, <1>5 DEF Agrees
-----------------------------------------------------------------------------
(* The stored profiles.                                                      *)

(* The detector says "ready" of a commit only when its "npm test" runs to    *)
(* the end with one runner.                                                  *)
LEMMA ReadyCommitsRun ==
    ASSUME NEW c \in Commit, Detected(c).status = "ready" PROVE Runnable(Content[c])
<1>1. Agrees(Content[c]) BY LimitsAssumption, ContentAssumption, DetectorAgrees
<1>2. DetectExecutionProfile(Content[c]) = "ready" BY DEF Detected
<1>. QED BY <1>1, <1>2 DEF Agrees

(* The types, and where the commit of a detection and of a profile came from. *)
ReadyCommit == {c \in Commit : Detected(c).status = "ready"}
Profiles ==
    /\ detection.at # "idle" => detection.repo \in Repo
    /\ detection.at \in {"confirm", "save"} => detection.commit \in Commit
    /\ \A r \in Repo : profile[r].status = "ready" => profile[r].commit \in ReadyCommit
Stored == TypeOK /\ Profiles


(* A fresh service, and one with a profile that was detected.                *)
LEMMA InitStored == Init => Stored
<1>. SUFFICES ASSUME Init PROVE Stored OBVIOUS
<1>1. \A c \in Commit : Detected(c) \in [status : {"none", "ready", "unsupported"}, commit : Commit \cup {None}]
                        /\ Detected(c).commit = c
    BY DEF Detected
<1>2. 0 \in 0..MaxClock /\ 0 \in 0..MaxChanges /\ 0 \in 0..MaxFaults BY ClocksAssumption
<1>3. /\ selected \in [repo : Repo \cup {None}, updated : 0..MaxClock, written : 0..MaxClock]
      /\ binding \in Workspace \cup {None}
      /\ told \in [Workspace -> {"nothing", "connected", "conflict"}]
      /\ profile \in [Repo -> [status : {"none", "ready", "unsupported"}, commit : Commit \cup {None}]]
      /\ \A r \in Repo : profile[r].status = "ready" => profile[r].commit \in ReadyCommit
  <2>. SUFFICES ASSUME NEW w \in Workspace \cup {None}, NEW r \in Repo \cup {None}, Start(w, r) PROVE <1>3!:
      BY DEF Init, InitAccess
  <2>. QED BY <1>1, <1>2, NamesAssumption DEF Start, ReadyCommit, Unselected, NoProfile
<1>4. /\ hub \in [access : [Repo -> {"public", "private", "none"}], head : [Repo -> Commit],
                  suspended : BOOLEAN, members : SUBSET Workspace]
      /\ attempts \in Seq(Attempts)
      /\ busy \in [0..MaxClock -> BOOLEAN]
  <2>1. hub.access \in [Repo -> {"public", "private", "none"}] /\ hub.head \in [Repo -> Commit]
      BY NamesAssumption DEF Init, InitAccess
  <2>2. attempts \in Seq(Attempts) /\ busy \in [0..MaxClock -> BOOLEAN] BY DEF Init, InitAccess
  <2>. QED BY <2>1, <2>2 DEF Init, InitAccess
<1>5. /\ clock \in 0..MaxClock /\ changes \in 0..MaxChanges /\ faults \in 0..MaxFaults
      /\ detection = Idle
    BY <1>2 DEF Init, InitAccess
<1>. QED BY <1>2, <1>3, <1>4, <1>5 DEF Stored, TypeOK, Profiles, Idle

(* The rows of the attempts keep their types.                                *)
LEMMA AttemptsKeepTypes ==
    ASSUME Stored, NEW i \in DOMAIN attempts,
           \/ ContinueInstallation(i) \/ Callback(i) \/ Consult(i) \/ Fails(i)
           \/ Bind(i) \/ Reconcile(i) \/ Select(i)
    PROVE  attempts' \in Seq(Attempts)
<1>1. attempts \in Seq(Attempts) /\ attempts[i] \in Attempts /\ clock \in 0..MaxClock
      /\ hub.access \in [Repo -> {"public", "private", "none"}]
    BY DEF Stored, TypeOK
<1>2. Done \in Attempts BY ClocksAssumption DEF Done, Attempts
<1>3. PICK a \in Attempts : attempts' = [attempts EXCEPT ![i] = a]
  <2>1. CASE ContinueInstallation(i) BY <1>1, <2>1 DEF ContinueInstallation, Attempts
  <2>2. CASE Callback(i) BY <1>1, <2>2 DEF Callback, Attempts
  <2>3. CASE Consult(i)
    <3>1. Public \subseteq Repo BY DEF Public
    <3>. QED BY <1>1, <1>2, <2>3, <3>1 DEF Consult, Attempts
  <2>4. CASE Fails(i) \/ Bind(i) \/ Reconcile(i) \/ Select(i)
    BY <1>2, <2>4 DEF Fails, Bind, Reconcile, Select, Apply
  <2>. QED BY <2>1, <2>2, <2>3, <2>4
<1>. QED BY <1>1, <1>3

(* Every step keeps the types and where a profile came from.                 *)
LEMMA StepKeepsStored == ASSUME Stored, Step, UNCHANGED busy PROVE Stored'
<1>. USE DEF OnlyAttempts, OnlySelection, OnlyDetection
<1>1. CASE Tick \/ GitHubChanges
  <2>1. CASE Tick BY <2>1, ClocksAssumption DEF Tick, Stored, TypeOK, Profiles
  <2>2. CASE GitHubChanges
    <3>1. hub' \in [access : [Repo -> {"public", "private", "none"}], head : [Repo -> Commit],
                    suspended : BOOLEAN, members : SUBSET Workspace]
      <4>1. hub \in [access : [Repo -> {"public", "private", "none"}], head : [Repo -> Commit],
                     suspended : BOOLEAN, members : SUBSET Workspace]
          BY DEF Stored, TypeOK
      <4>2. CASE \E r \in Repo, a \in {"private", "none"} : hub' = [hub EXCEPT !.access[r] = a] BY <4>1, <4>2
      <4>3. CASE \E r \in Repo, c \in Commit : hub' = [hub EXCEPT !.head[r] = c] BY <4>1, <4>3
      <4>4. CASE hub' = [hub EXCEPT !.suspended = TRUE] BY <4>1, <4>4
      <4>5. CASE \E w \in Workspace : hub' = [hub EXCEPT !.members = @ \ {w}] BY <4>1, <4>5
      <4>. QED BY <2>2, <4>2, <4>3, <4>4, <4>5 DEF GitHubChanges
    <3>2. changes' \in 0..MaxChanges BY <2>2, ClocksAssumption DEF GitHubChanges, Stored, TypeOK
    <3>. QED BY <2>2, <3>1, <3>2 DEF GitHubChanges, Stored, TypeOK, Profiles
  <2>. QED BY <1>1, <2>1, <2>2
<1>2. CASE \E w \in Workspace :
             \/ BeginInstallation(w)
             \/ \E op \in Flow \ {"install"}, r \in Repo \cup {None} : BeginAuthorization(w, op, r)
  <2>1. PICK w \in Workspace, op \in {"install", "list", "select"}, r \in Repo \cup {None}, at \in {"installation", "authorization"} :
            attempts' = Append(attempts, Attempt(w, op, r, at))
      BY <1>2, NamesAssumption DEF BeginInstallation, BeginAuthorization
  <2>2. attempts' \in Seq(Attempts) BY <2>1, ClocksAssumption DEF Attempt, Attempts, Stored, TypeOK
  <2>. QED BY <1>2, <2>2 DEF BeginInstallation, BeginAuthorization, Stored, TypeOK, Profiles
<1>3. CASE \E i \in DOMAIN attempts :
             \/ ContinueInstallation(i) \/ Callback(i) \/ Consult(i) \/ Fails(i)
             \/ Bind(i) \/ Reconcile(i) \/ Select(i)
  <2>. PICK i \in DOMAIN attempts :
             \/ ContinueInstallation(i) \/ Callback(i) \/ Consult(i) \/ Fails(i)
             \/ Bind(i) \/ Reconcile(i) \/ Select(i)
      BY <1>3
  <2>1. attempts' \in Seq(Attempts) BY AttemptsKeepTypes
  <2>2. attempts[i] \in Attempts /\ clock \in 0..MaxClock BY DEF Stored, TypeOK
  <2>3. CASE ContinueInstallation(i) \/ Callback(i) \/ Consult(i) \/ Fails(i)
    <3>1. faults' \in 0..MaxFaults
        BY <2>3, ClocksAssumption DEF ContinueInstallation, Callback, Consult, Fails, Fault, Stored, TypeOK
    <3>. QED BY <2>1, <2>3, <3>1 DEF ContinueInstallation, Callback, Consult, Fails, Stored, TypeOK, Profiles
  <2>4. CASE Bind(i)
    <3>1. binding' \in Workspace \cup {None} /\ told' \in [Workspace -> {"nothing", "connected", "conflict"}]
        BY <2>2, <2>4 DEF Bind, Bound, Answer, Attempts, Stored, TypeOK
    <3>. QED BY <2>1, <2>4, <3>1 DEF Bind, Stored, TypeOK, Profiles
  <2>5. CASE Reconcile(i) \/ Select(i)
    <3>1. attempts[i].listed \subseteq Repo /\ attempts[i].now \in 0..MaxClock BY <2>2 DEF Attempts
    <3>2. selected' \in [repo : Repo \cup {None}, updated : 0..MaxClock, written : 0..MaxClock]
        BY <2>2, <2>5, <3>1, ClocksAssumption
           DEF Reconcile, Select, Selectable, Write, Unselected, Stored, TypeOK
    <3>. QED BY <2>1, <2>5, <3>2 DEF Reconcile, Select, Stored, TypeOK, Profiles
  <2>. QED BY <2>3, <2>4, <2>5
<1>4. CASE DetectBegin \/ DetectRead \/ DetectConfirm \/ DetectFails \/ DetectSave
  <2>. DEFINE Detections == [at : {"idle", "read", "confirm", "save"}, repo : Repo \cup {None},
                             commit : Commit \cup {None}, began : 0..MaxClock]
  <2>1. Idle \in Detections /\ Idle.at = "idle" BY ClocksAssumption DEF Idle
  <2>2. CASE DetectBegin
    <3>1. detection' \in Detections /\ detection'.repo \in Repo /\ detection'.at = "read"
        BY <2>2 DEF DetectBegin, Idle, Stored, TypeOK
    <3>. QED BY <2>2, <3>1 DEF DetectBegin, Stored, TypeOK, Profiles
  <2>3. CASE DetectRead
    <3>1. detection' \in Detections /\ (detection'.at # "idle" => detection'.repo \in Repo)
          /\ (detection'.at \in {"confirm", "save"} => detection'.commit \in Commit)
        BY <2>1, <2>3 DEF DetectRead, Stored, TypeOK, Profiles
    <3>. QED BY <2>3, <3>1 DEF DetectRead, Stored, TypeOK, Profiles
  <2>4. CASE DetectConfirm
    <3>1. detection' \in Detections /\ (detection'.at # "idle" => detection'.repo \in Repo)
          /\ (detection'.at \in {"confirm", "save"} => detection'.commit \in Commit)
        BY <2>1, <2>4 DEF DetectConfirm, Stored, TypeOK, Profiles
    <3>. QED BY <2>4, <3>1 DEF DetectConfirm, Stored, TypeOK, Profiles
  <2>5. CASE DetectFails
    <3>1. faults' \in 0..MaxFaults BY <2>5, ClocksAssumption DEF DetectFails, Fault, Stored, TypeOK
    <3>. QED BY <2>1, <2>5, <3>1 DEF DetectFails, Stored, TypeOK, Profiles
  <2>6. CASE DetectSave
    <3>. DEFINE r == detection.repo
                found == Detected(detection.commit)
    <3>1. r \in Repo /\ detection.commit \in Commit BY <2>6 DEF DetectSave, Stored, Profiles
    <3>2. /\ found \in [status : {"none", "ready", "unsupported"}, commit : Commit \cup {None}]
          /\ found.commit = detection.commit
        BY <3>1 DEF Detected
    <3>3. profile' = profile \/ profile' = [profile EXCEPT ![r] = found] BY <2>6 DEF DetectSave
    <3>4. selected' \in [repo : Repo \cup {None}, updated : 0..MaxClock, written : 0..MaxClock]
        BY <2>6 DEF DetectSave, Write, Stored, TypeOK
    <3>. HIDE DEF found
    <3>5. profile' \in [Repo -> [status : {"none", "ready", "unsupported"}, commit : Commit \cup {None}]]
        BY <3>1, <3>2, <3>3 DEF Stored, TypeOK
    <3>6. ASSUME NEW q \in Repo, profile'[q].status = "ready"
          PROVE  profile'[q].commit \in ReadyCommit
      <4>1. CASE profile'[q] = profile[q] BY <3>6, <4>1 DEF Stored, Profiles
      <4>2. CASE profile'[q] = found BY <3>1, <3>2, <3>6, <4>2 DEF found, ReadyCommit
      <4>. QED BY <3>3, <4>1, <4>2 DEF Stored, TypeOK
    <3>. QED BY <2>1, <2>6, <3>4, <3>5, <3>6 DEF DetectSave, Stored, TypeOK, Profiles
  <2>. QED BY <1>4, <2>2, <2>3, <2>4, <2>5, <2>6
<1>. QED BY <1>1, <1>2, <1>3, <1>4 DEF Step

(* What every reachable state of the access model is.                        *)
LEMMA AccessStored == Spec => []Stored
<1>1. ASSUME Stored, [Next]_vars PROVE Stored'
  <2>1. CASE Step /\ UNCHANGED busy
    <3>1. Stored' BY <1>1, <2>1, StepKeepsStored
    <3>. QED BY <3>1
  <2>2. CASE WorkChanges BY <1>1, <2>2, ClocksAssumption DEF WorkChanges, Fault, Stored, TypeOK, Profiles
  <2>3. CASE UNCHANGED vars BY <1>1, <2>3 DEF vars, accessVars, Stored, TypeOK, Profiles
  <2>. QED BY <1>1, <2>1, <2>2, <2>3 DEF Next
<1>. QED BY <1>1, InitStored, PTL DEF Spec

(* A profile that is stored as ready is of a commit whose "npm test" runs to *)
(* the end, and runs one known runner, whatever the branch did while it was  *)
(* read and confirmed (execution-profiles/flow.ts, detector.ts).             *)
THEOREM ReadyProfilesRun == Spec => []ReadyIsRunnable
<1>1. Stored => ReadyIsRunnable
  <2>. SUFFICES ASSUME Stored, NEW r \in Repo, profile[r].status = "ready"
                PROVE  Runnable(Content[profile[r].commit])
      BY DEF ReadyIsRunnable
  <2>1. profile[r].commit \in ReadyCommit BY DEF Stored, Profiles
  <2>. QED BY <2>1, ReadyCommitsRun DEF ReadyCommit
<1>. QED BY <1>1, AccessStored, PTL
=============================================================================
