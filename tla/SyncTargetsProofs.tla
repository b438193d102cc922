------------------------- MODULE SyncTargetsProofs --------------------------
(* What powaur_sync hands to upgrade_pkgs and how it leaves the program, for *)
(* every set of packages, list of targets, state of the databases and of     *)
(* the AUR, and whichever queries and directories fail.                      *)
EXTENDS SyncTargets, FiniteSetTheorems, SequenceTheorems, TLAPS

-----------------------------------------------------------------------------
(* The inductive invariant.                                                *)

InputsOK ==
    /\ world \in AllWorlds
    /\ opts \in AllOptions
    /\ targets \in Seq(Names) /\ IsInjective(targets)
    /\ IsFiniteSet({n \in Names : IsAur(n)})

\* The targets and the packages the current loop is through.
Given == {targets[k] : k \in 1..(i - 1)}
Done == {targs[k] : k \in 1..(i - 1)}

\* What query_aur answered, or would.
Reply == [n \in Names |-> IF n \in missed THEN 0 ELSE world.available[n]]

\* The packages of each list, out of those that were asked about.
Listed == [l \in ListNames |-> {n \in Done : l \in Classes(n, Reply[n])}]
OutdatedDone == {n \in Done : Reply[n] > 0 /\ Outdated(n, Reply[n])}

\* The lists hold what was asked about, each once, whatever failed.
ListsInv ==
    /\ pc \in {"start", "filter"} =>
          missed = {} /\ \A l \in ListNames : lists[l] = <<>>
    /\ pc = "targets" =>
          /\ ~opts.upgrade /\ ~opts.check
          /\ targs = targets
          /\ missed \subseteq Done
          /\ \A l \in ListNames : IsInjective(lists[l]) /\ ToSet(lists[l]) = Listed[l]
    /\ pc = "filter" =>
          /\ opts.upgrade /\ targets # <<>>
          /\ IsInjective(targs) /\ ToSet(targs) = {n \in Given : IsAur(n)}
    /\ pc = "check" =>
          /\ opts.upgrade
          /\ IsInjective(targs) /\ ToSet(targs) = {n \in ToCheck : IsAur(n)}
          /\ missed \subseteq Done
          /\ IsInjective(lists.outdated) /\ ToSet(lists.outdated) = OutdatedDone

\* An upgrade that was agreed to and has not begun has failed.
HandedInv ==
    /\ pc \notin {"upgrade_pkgs", "leave", "end"} => handed = <<>>
    /\ pc \in {"leave", "end"} /\ handed # <<>> /\ ~started => ret = -1

\* -Su stays in the first directory, and the others return to it.
WhereInv ==
    /\ pc = "start" => cwd = "org"
    /\ opts.upgrade \/ pc = "end" => cwd = "org" \/ world.dirs = "org_gone"

\* sync_info has one file at a time, and those fdopen failed on.
FilesInv == files \subseteq unopened \cup (IF pc = "download" THEN {targs[i]} ELSE {})

SyncInv ==
    /\ InputsOK
    /\ SyncTypeOK
    /\ ListsInv
    /\ HandedInv
    /\ WhereInv
    /\ FilesInv
    /\ HandedExactly
    /\ EntryFound

-----------------------------------------------------------------------------
(* Sequences as sets.                                                      *)

LEMMA Appended ==
    ASSUME NEW T, NEW s \in Seq(T), NEW x \in T
    PROVE  /\ Append(s, x) \in Seq(T)
           /\ ToSet(Append(s, x)) = ToSet(s) \cup {x}
           /\ IsInjective(s) /\ x \notin ToSet(s) => IsInjective(Append(s, x))
<1> DEFINE t == Append(s, x)
<1>1. DOMAIN s = 1..Len(s) /\ Len(s) \in Nat
    OBVIOUS
<1>2. /\ t \in Seq(T)
      /\ DOMAIN t = 1..(Len(s) + 1)
      /\ \A k \in 1..Len(s) : t[k] = s[k]
      /\ t[Len(s) + 1] = x
    BY <1>1
<1>3. \A k : k \in 1..(Len(s) + 1) <=> k \in 1..Len(s) \/ k = Len(s) + 1
    BY <1>1
<1> HIDE DEF t
<1>4. ToSet(t) = ToSet(s) \cup {x}
    BY <1>1, <1>2, <1>3 DEF ToSet
<1>5. ASSUME IsInjective(s), x \notin ToSet(s) PROVE IsInjective(t)
    BY <1>1, <1>2, <1>3, <1>5 DEF ToSet, IsInjective
<1>6. QED
    BY <1>2, <1>4, <1>5 DEF t

LEMMA Joined ==
    ASSUME NEW T, NEW s \in Seq(T), NEW t \in Seq(T)
    PROVE  /\ s \o t \in Seq(T)
           /\ ToSet(s \o t) = ToSet(s) \cup ToSet(t)
           /\ IsInjective(s) /\ IsInjective(t) /\ ToSet(s) \cap ToSet(t) = {}
              => IsInjective(s \o t)
<1> DEFINE u == s \o t
<1> DEFINE D == 1..(Len(s) + Len(t))
<1> DEFINE At(k) == Len(s) + k
<1>1. /\ DOMAIN s = 1..Len(s) /\ Len(s) \in Nat
      /\ DOMAIN t = 1..Len(t) /\ Len(t) \in Nat
    OBVIOUS
<1>2. /\ u \in Seq(T)
      /\ DOMAIN u = D
      /\ \A k \in D : u[k] = IF k <= Len(s) THEN s[k] ELSE t[k - Len(s)]
    BY <1>1
<1>3. \A k \in D : k \in 1..Len(s) \/ (\E l \in 1..Len(t) : k = At(l))
    <2>1. \A k \in D : k \in 1..Len(s) \/ (k - Len(s) \in 1..Len(t) /\ k = Len(s) + (k - Len(s)))
        BY <1>1
    <2>2. QED
        BY <2>1
<1>4. \A k \in 1..Len(s) : k \in D /\ k <= Len(s)
    BY <1>1
<1>5. \A k \in 1..Len(t) : At(k) \in D /\ ~(At(k) <= Len(s)) /\ At(k) - Len(s) = k
    BY <1>1
<1> HIDE DEF u, D, At
<1>6. \A k \in 1..Len(s) : k \in D /\ u[k] = s[k]
    BY <1>2, <1>4
<1>7. \A k \in 1..Len(t) : At(k) \in D /\ u[At(k)] = t[k]
    BY <1>2, <1>5
<1>8. ToSet(u) = ToSet(s) \cup ToSet(t)
    <2>1. \A k \in D : u[k] \in ToSet(s) \cup ToSet(t)
        BY <1>1, <1>3, <1>6, <1>7 DEF ToSet
    <2>2. \A k \in 1..Len(s) : s[k] \in ToSet(u)
        BY <1>2, <1>6 DEF ToSet
    <2>3. \A k \in 1..Len(t) : t[k] \in ToSet(u)
        BY <1>2, <1>7 DEF ToSet
    <2>4. QED
        BY <1>1, <1>2, <2>1, <2>2, <2>3 DEF ToSet
<1>9. ASSUME IsInjective(s), IsInjective(t), ToSet(s) \cap ToSet(t) = {}
      PROVE  IsInjective(u)
    <2>1. \A k \in 1..Len(s) : s[k] \in ToSet(s)
        BY <1>1, Zenon DEF ToSet
    <2>2. \A k \in 1..Len(t) : t[k] \in ToSet(t)
        BY <1>1, Zenon DEF ToSet
    <2>3. ASSUME NEW j \in D, NEW k \in D, u[j] = u[k]
          PROVE  j = k
        <3>1. CASE j \in 1..Len(s) /\ k \in 1..Len(s)
            BY <1>1, <1>6, <1>9, <2>3, <3>1, Zenon DEF IsInjective
        <3>2. CASE j \in 1..Len(s) /\ \E l \in 1..Len(t) : k = At(l)
            BY <1>6, <1>7, <1>9, <2>1, <2>2, <2>3, <3>2
        <3>3. CASE k \in 1..Len(s) /\ \E l \in 1..Len(t) : j = At(l)
            BY <1>6, <1>7, <1>9, <2>1, <2>2, <2>3, <3>3
        <3>4. CASE (\E l \in 1..Len(t) : j = At(l)) /\ \E l \in 1..Len(t) : k = At(l)
            <4>1. PICK l \in 1..Len(t) : j = At(l)
                BY <3>4
            <4>2. PICK m \in 1..Len(t) : k = At(m)
                BY <3>4
            <4>3. t[l] = t[m]
                BY <1>7, <2>3, <4>1, <4>2
            <4>4. QED
                BY <1>1, <1>9, <4>1, <4>2, <4>3 DEF IsInjective
        <3>5. QED
            BY <1>3, <3>1, <3>2, <3>3, <3>4
    <2>4. QED
        BY <1>2, <2>3 DEF IsInjective
<1>10. QED
    BY <1>2, <1>8, <1>9 DEF u

\* The members a loop at k is through, those after one more turn, and all.
LEMMA NextMember ==
    ASSUME NEW T, NEW s \in Seq(T), NEW k \in 1..Len(s)
    PROVE  /\ s[k] \in T /\ s[k] \in ToSet(s)
           /\ k \in Nat /\ k + 1 \in 1..(Len(s) + 1)
           /\ {s[j] : j \in 1..((k + 1) - 1)} = {s[j] : j \in 1..(k - 1)} \cup {s[k]}
           /\ IsInjective(s) => s[k] \notin {s[j] : j \in 1..(k - 1)}
<1>1. /\ DOMAIN s = 1..Len(s) /\ Len(s) \in Nat /\ s[k] \in T
      /\ k \in Nat /\ k + 1 \in 1..(Len(s) + 1)
    OBVIOUS
<1>2. \A j : j \in 1..((k + 1) - 1) <=> j \in 1..(k - 1) \/ j = k
    BY <1>1
<1>3. \A j \in 1..(k - 1) : j \in 1..Len(s) /\ j # k
    BY <1>1
<1>4. {s[j] : j \in 1..((k + 1) - 1)} = {s[j] : j \in 1..(k - 1)} \cup {s[k]}
    BY <1>2
<1>5. IsInjective(s) => s[k] \notin {s[j] : j \in 1..(k - 1)}
    BY <1>1, <1>3 DEF IsInjective
<1>6. QED
    BY <1>1, <1>4, <1>5 DEF ToSet

LEMMA AllMembers ==
    ASSUME NEW T, NEW s \in Seq(T), NEW k \in 1..(Len(s) + 1)
    PROVE  /\ {s[j] : j \in 1..(k - 1)} \subseteq ToSet(s)
           /\ k > Len(s) => {s[j] : j \in 1..(k - 1)} = ToSet(s)
<1>1. DOMAIN s = 1..Len(s) /\ Len(s) \in Nat
    OBVIOUS
<1>2. \A j \in 1..(k - 1) : j \in 1..Len(s)
    BY <1>1
<1>3. k > Len(s) => k - 1 = Len(s)
    BY <1>1
<1>4. QED
    BY <1>1, <1>2, <1>3 DEF ToSet

\* hash_to_list has every entry of the table once.
LEMMA Listings ==
    ASSUME NEW S, IsFiniteSet(S), NEW s \in SetToSeqs(S)
    PROVE  s \in Seq(S) /\ IsInjective(s) /\ ToSet(s) = S
<1> DEFINE D == 1..Cardinality(S)
<1>1. Cardinality(S) \in Nat
    BY FS_CardinalityType
<1>2. /\ s \in [D -> S]
      /\ \A j, k \in D : j # k => s[j] # s[k]
    BY DEF SetToSeqs
<1>3. s \in Seq(S)
    BY <1>1, <1>2, SeqDef
<1>4. IsInjective(s)
    BY <1>2 DEF IsInjective
<1>5. IsFiniteSet(D) /\ Cardinality(D) = Cardinality(S)
    <2>1. /\ IsFiniteSet(1..Cardinality(S))
          /\ Cardinality(1..Cardinality(S)) =
                IF 1 > Cardinality(S) THEN 0 ELSE Cardinality(S) - 1 + 1
        BY <1>1, FS_Interval
    <2>2. QED
        BY <1>1, <2>1
<1>6. s \in Injection(D, S)
    BY <1>2, <1>4 DEF Injection
<1>7. s \in Surjection(D, S)
    BY <1>5, <1>6, FS_Injection
<1>8. ToSet(s) = S
    BY <1>2, <1>7 DEF ToSet, Surjection
<1>9. QED
    BY <1>3, <1>4, <1>8
-----------------------------------------------------------------------------
(* Types.                                                                  *)

LEMMA InputsFixed == [Next]_vars => UNCHANGED inputs
BY DEF Next, vars, Refuse, CurlFails, OnlyPrints, EnterDir, DirFails, QueryTarget, NoHashdb,
       Proceed, Decline, StartCheck, FilterTarget, Filtered, CheckFails, QueryOutdated,
       CheckOnly, Agree, DeclineUpgrade, NothingToUpgrade, CannotUpgrade, RunUpgrade,
       InfoFromRepo, InfoNotFound, InfoFile, InfoUnopened, InfoShown, InfoEnds, Leave,
       GoTo

LEMMA InitInputs == Init => InputsOK
<1> SUFFICES ASSUME Init PROVE InputsOK
    OBVIOUS
<1>1. world \in AllWorlds /\ opts \in AllOptions /\ targets \in Seq(Names) /\ IsInjective(targets)
    BY SyncAssumption DEF Init
<1>2. IsFiniteSet({n \in Names : world.installed[n] > 0})
    BY SyncAssumption DEF Init
<1>3. {n \in Names : IsAur(n)} \subseteq {n \in Names : world.installed[n] > 0}
    BY DEF IsAur
<1>4. QED
    BY <1>1, <1>2, <1>3, FS_Subset DEF InputsOK

LEMMA InputsStay == InputsOK /\ [Next]_vars => InputsOK'
<1> SUFFICES ASSUME InputsOK, [Next]_vars PROVE InputsOK'
    OBVIOUS
<1>1. world' = world /\ opts' = opts /\ targets' = targets
    BY InputsFixed DEF inputs
<1>2. {n \in Names : IsAur(n)}' = {n \in Names : IsAur(n)}
    BY <1>1 DEF IsAur
<1>3. QED
    BY <1>1, <1>2 DEF InputsOK

LEMMA InitTypes == Init => SyncTypeOK
<1> SUFFICES ASSUME Init PROVE SyncTypeOK
    OBVIOUS
<1>1. <<>> \in Seq(Names) /\ Len(<<>>) = 0
    OBVIOUS
<1>2. lists \in [ListNames -> Seq(Names)]
    BY <1>1 DEF Init
<1>3. /\ pc = "start" /\ targs \in Seq(Names) /\ Len(targs) = 0 /\ i = 1
      /\ found = 0 /\ cwd = "org" /\ handed \in Seq(Names) /\ ret = 0
      /\ started \in BOOLEAN
    BY <1>1 DEF Init
<1>4. files \subseteq Names /\ missed \subseteq Names /\ unopened \subseteq Names
    BY DEF Init
<1>5. QED
    BY <1>2, <1>3, <1>4 DEF SyncTypeOK

\* join gives a list of names.
LEMMA JoinTyped ==
    ASSUME lists \in [ListNames -> Seq(Names)]
    PROVE  join(lists) \in Seq(Names)
<1>1. /\ lists.reinstall \in Seq(Names) /\ lists.upgrade \in Seq(Names)
      /\ lists.new_packages \in Seq(Names)
    BY DEF ListNames
<1>2. QED
    BY <1>1 DEF join

LEMMA TypesStay == InputsOK /\ SyncTypeOK /\ [Next]_vars => SyncTypeOK'
<1> SUFFICES ASSUME InputsOK, SyncTypeOK, [Next]_vars PROVE SyncTypeOK'
    OBVIOUS
<1> USE DEF SyncTypeOK
<1>1. CASE Refuse
    BY <1>1 DEF Refuse, GoTo, results, history
<1>2. CASE CurlFails
    BY <1>2 DEF CurlFails, GoTo, results, history
<1>3. CASE OnlyPrints
    BY <1>3 DEF OnlyPrints, GoTo, results, history
<1>4. CASE EnterDir
    BY <1>4 DEF EnterDir, Loop, results, history, inputs, InputsOK
<1>5. CASE DirFails
    BY <1>5 DEF DirFails, GoTo, results, history
<1>6. CASE QueryTarget
    <2>1. targs[i] \in Names /\ i + 1 \in 1..(Len(targs) + 1) /\ pc = "targets"
        BY <1>6, NextMember DEF QueryTarget
    <2>2. lists' \in [ListNames -> Seq(Names)]
        <3>1. \A l \in ListNames : Append(lists[l], targs[i]) \in Seq(Names)
            BY <2>1
        <3>2. QED
            BY <1>6, <3>1 DEF QueryTarget
    <2>3. missed' \subseteq Names
        BY <1>6, <2>1 DEF QueryTarget, MissedNow
    <2>4. QED
        BY <1>6, <2>1, <2>2, <2>3 DEF QueryTarget
<1>7. CASE NoHashdb
    BY <1>7 DEF NoHashdb, GoTo, results, history
<1>8. CASE Proceed
    <2>1. join(lists) \in Seq(Names)
        BY JoinTyped
    <2>2. QED
        BY <1>8, <2>1 DEF Proceed, history
<1>9. CASE Decline
    BY <1>9 DEF Decline, GoTo, results, history
<1>10. CASE StartCheck
    <2>1. ASSUME NEW s \in SetToSeqs({n \in Names : IsAur(n)})
          PROVE  s \in Seq(Names)
        <3>1. s \in Seq({n \in Names : IsAur(n)})
            BY Listings DEF InputsOK
        <3>2. QED
            BY <3>1
    <2>2. CASE \E s \in SetToSeqs({n \in Names : IsAur(n)}) : Loop("check", s)
        BY <1>10, <2>1, <2>2 DEF StartCheck, Loop, results, history
    <2>3. CASE Loop("filter", <<>>)
        BY <1>10, <2>3, InputsFixed DEF StartCheck, Loop, results, history, InputsOK, inputs
    <2>4. QED
        BY <1>10, <2>2, <2>3 DEF StartCheck
<1>11. CASE FilterTarget
    <2>1. targets[i] \in Names /\ i + 1 \in 1..(Len(targets) + 1) /\ pc = "filter"
        BY <1>11, NextMember DEF FilterTarget, InputsOK
    <2>2. targs' \in Seq(Names)
        BY <1>11, <2>1 DEF FilterTarget
    <2>3. QED
        BY <1>11, <2>1, <2>2 DEF FilterTarget, results, history, inputs
<1>12. CASE Filtered
    BY <1>12 DEF Filtered, Loop, results, history
<1>13. CASE CheckFails
    BY <1>13 DEF CheckFails, GoTo, results, history
<1>14. CASE QueryOutdated
    <2>1. targs[i] \in Names /\ i + 1 \in 1..(Len(targs) + 1) /\ pc = "check"
        BY <1>14, NextMember DEF QueryOutdated
    <2>2. lists' \in [ListNames -> Seq(Names)]
        <3>1. Append(lists.outdated, targs[i]) \in Seq(Names)
            BY <2>1 DEF ListNames
        <3>2. QED
            BY <1>14, <3>1 DEF QueryOutdated, ListNames
    <2>3. missed' \subseteq Names
        BY <1>14, <2>1 DEF QueryOutdated, MissedNow
    <2>4. QED
        BY <1>14, <2>1, <2>2, <2>3 DEF QueryOutdated
<1>15. CASE CheckOnly
    BY <1>15 DEF CheckOnly, GoTo, results, history
<1>16. CASE Agree
    BY <1>16 DEF Agree, ListNames, history
<1>17. CASE DeclineUpgrade
    BY <1>17 DEF DeclineUpgrade, GoTo, results, history
<1>18. CASE NothingToUpgrade
    BY <1>18 DEF NothingToUpgrade, GoTo, results, history
<1>19. CASE CannotUpgrade
    BY <1>19 DEF CannotUpgrade, GoTo, results, history
<1>20. CASE RunUpgrade
    BY <1>20 DEF RunUpgrade
<1>21. CASE InfoFromRepo
    BY <1>21 DEF InfoFromRepo, history
<1>22. CASE InfoNotFound
    BY <1>22 DEF InfoNotFound, history
<1>23. CASE InfoFile
    <2>1. targs[i] \in Names
        BY <1>23, NextMember DEF InfoFile
    <2>2. QED
        BY <1>23, <2>1 DEF InfoFile, history
<1>24. CASE InfoUnopened
    <2>1. targs[i] \in Names
        BY <1>24, NextMember DEF InfoUnopened
    <2>2. QED
        BY <1>24, <2>1 DEF InfoUnopened
<1>25. CASE InfoShown
    BY <1>25 DEF InfoShown, history
<1>26. CASE InfoEnds
    BY <1>26 DEF InfoEnds, results, history
<1>27. CASE Leave
    BY <1>27 DEF Leave, results, history
<1>28. CASE UNCHANGED vars
    BY <1>28 DEF vars, inputs, history
<1>29. QED
    BY <1>1, <1>2, <1>3, <1>4, <1>5, <1>6, <1>7, <1>8, <1>9, <1>10, <1>11, <1>12, <1>13, <1>14,
       <1>15, <1>16, <1>17, <1>18, <1>19, <1>20, <1>21, <1>22, <1>23, <1>24, <1>25, <1>26,
       <1>27, <1>28 DEF Next
-----------------------------------------------------------------------------
(* Directories, files and the result.                                       *)

LEMMA WhereStays == WhereInv /\ [Next]_vars => WhereInv'
<1> SUFFICES ASSUME WhereInv, [Next]_vars PROVE WhereInv'
    OBVIOUS
<1> world' = world /\ opts' = opts /\ targets' = targets
    BY InputsFixed DEF inputs
<1> USE DEF WhereInv, results, history
<1>1. CASE Refuse \/ CurlFails \/ OnlyPrints \/ DirFails \/ NoHashdb \/ Decline \/ CheckFails
           \/ CheckOnly \/ DeclineUpgrade \/ NothingToUpgrade \/ CannotUpgrade
    BY <1>1 DEF Refuse, CurlFails, OnlyPrints, DirFails, NoHashdb, Decline, CheckFails,
                CheckOnly, DeclineUpgrade, NothingToUpgrade, CannotUpgrade, GoTo, Loop,
                CanReturnTo
<1>2. CASE EnterDir
    BY <1>2 DEF EnterDir, GoTo, Loop, CanReturnTo
<1>3. CASE QueryTarget
    BY <1>3 DEF QueryTarget, GoTo, Loop, CanReturnTo
<1>4. CASE Proceed
    BY <1>4 DEF Proceed, GoTo, Loop, CanReturnTo
<1>5. CASE StartCheck
    BY <1>5 DEF StartCheck, GoTo, Loop, CanReturnTo
<1>6. CASE FilterTarget
    BY <1>6 DEF FilterTarget, GoTo, Loop, CanReturnTo
<1>7. CASE Filtered
    BY <1>7 DEF Filtered, GoTo, Loop, CanReturnTo
<1>8. CASE QueryOutdated
    BY <1>8 DEF QueryOutdated, GoTo, Loop, CanReturnTo
<1>9. CASE Agree
    BY <1>9 DEF Agree, GoTo, Loop, CanReturnTo
<1>10. CASE RunUpgrade
    BY <1>10 DEF RunUpgrade, GoTo, Loop, CanReturnTo
<1>11. CASE InfoFromRepo
    BY <1>11 DEF InfoFromRepo, GoTo, Loop, CanReturnTo
<1>12. CASE InfoNotFound
    BY <1>12 DEF InfoNotFound, GoTo, Loop, CanReturnTo
<1>13. CASE InfoFile
    BY <1>13 DEF InfoFile, GoTo, Loop, CanReturnTo
<1>14. CASE InfoUnopened
    BY <1>14 DEF InfoUnopened, GoTo, Loop, CanReturnTo
<1>15. CASE InfoShown
    BY <1>15 DEF InfoShown, GoTo, Loop, CanReturnTo
<1>16. CASE InfoEnds
    BY <1>16 DEF InfoEnds, GoTo, Loop, CanReturnTo
<1>17. CASE Leave
    BY <1>17 DEF Leave, GoTo, Loop, CanReturnTo
<1>18. CASE UNCHANGED vars
    BY <1>18 DEF vars, inputs
<1>19. QED
    BY <1>1, <1>2, <1>3, <1>4, <1>5, <1>6, <1>7, <1>8, <1>9, <1>10, <1>11, <1>12, <1>13, <1>14,
       <1>15, <1>16, <1>17, <1>18
       DEF Next

LEMMA HandedStays == HandedInv /\ [Next]_vars => HandedInv'
<1> SUFFICES ASSUME HandedInv, [Next]_vars PROVE HandedInv'
    OBVIOUS
<1> world' = world /\ opts' = opts /\ targets' = targets
    BY InputsFixed DEF inputs
<1> USE DEF HandedInv, results, history
<1>1. CASE Refuse \/ CurlFails \/ OnlyPrints \/ DirFails \/ NoHashdb \/ Decline \/ CheckFails
           \/ CheckOnly \/ DeclineUpgrade \/ NothingToUpgrade \/ CannotUpgrade
    BY <1>1 DEF Refuse, CurlFails, OnlyPrints, DirFails, NoHashdb, Decline, CheckFails,
                CheckOnly, DeclineUpgrade, NothingToUpgrade, CannotUpgrade, GoTo, Loop,
                CanReturnTo
<1>2. CASE EnterDir
    BY <1>2 DEF EnterDir, GoTo, Loop, CanReturnTo
<1>3. CASE QueryTarget
    BY <1>3 DEF QueryTarget, GoTo, Loop, CanReturnTo
<1>4. CASE Proceed
    BY <1>4 DEF Proceed, GoTo, Loop, CanReturnTo
<1>5. CASE StartCheck
    BY <1>5 DEF StartCheck, GoTo, Loop, CanReturnTo
<1>6. CASE FilterTarget
    BY <1>6 DEF FilterTarget, GoTo, Loop, CanReturnTo
<1>7. CASE Filtered
    BY <1>7 DEF Filtered, GoTo, Loop, CanReturnTo
<1>8. CASE QueryOutdated
    BY <1>8 DEF QueryOutdated, GoTo, Loop, CanReturnTo
<1>9. CASE Agree
    BY <1>9 DEF Agree, GoTo, Loop, CanReturnTo
<1>10. CASE RunUpgrade
    BY <1>10 DEF RunUpgrade, GoTo, Loop, CanReturnTo
<1>11. CASE InfoFromRepo
    BY <1>11 DEF InfoFromRepo, GoTo, Loop, CanReturnTo
<1>12. CASE InfoNotFound
    BY <1>12 DEF InfoNotFound, GoTo, Loop, CanReturnTo
<1>13. CASE InfoFile
    BY <1>13 DEF InfoFile, GoTo, Loop, CanReturnTo
<1>14. CASE InfoUnopened
    BY <1>14 DEF InfoUnopened, GoTo, Loop, CanReturnTo
<1>15. CASE InfoShown
    BY <1>15 DEF InfoShown, GoTo, Loop, CanReturnTo
<1>16. CASE InfoEnds
    BY <1>16 DEF InfoEnds, GoTo, Loop, CanReturnTo
<1>17. CASE Leave
    BY <1>17 DEF Leave, GoTo, Loop, CanReturnTo
<1>18. CASE UNCHANGED vars
    BY <1>18 DEF vars, inputs
<1>19. QED
    BY <1>1, <1>2, <1>3, <1>4, <1>5, <1>6, <1>7, <1>8, <1>9, <1>10, <1>11, <1>12, <1>13, <1>14,
       <1>15, <1>16, <1>17, <1>18
       DEF Next

LEMMA FilesStay == FilesInv /\ [Next]_vars => FilesInv'
<1> SUFFICES ASSUME FilesInv, [Next]_vars PROVE FilesInv'
    OBVIOUS
<1> world' = world /\ opts' = opts /\ targets' = targets
    BY InputsFixed DEF inputs
<1> USE DEF FilesInv, results, history
<1>1. CASE Refuse \/ CurlFails \/ OnlyPrints \/ DirFails \/ NoHashdb \/ Decline \/ CheckFails
           \/ CheckOnly \/ DeclineUpgrade \/ NothingToUpgrade \/ CannotUpgrade
    BY <1>1 DEF Refuse, CurlFails, OnlyPrints, DirFails, NoHashdb, Decline, CheckFails,
                CheckOnly, DeclineUpgrade, NothingToUpgrade, CannotUpgrade, GoTo, Loop,
                CanReturnTo
<1>2. CASE EnterDir
    BY <1>2 DEF EnterDir, GoTo, Loop, CanReturnTo
<1>3. CASE QueryTarget
    BY <1>3 DEF QueryTarget, GoTo, Loop, CanReturnTo
<1>4. CASE Proceed
    BY <1>4 DEF Proceed, GoTo, Loop, CanReturnTo
<1>5. CASE StartCheck
    BY <1>5 DEF StartCheck, GoTo, Loop, CanReturnTo
<1>6. CASE FilterTarget
    BY <1>6 DEF FilterTarget, GoTo, Loop, CanReturnTo
<1>7. CASE Filtered
    BY <1>7 DEF Filtered, GoTo, Loop, CanReturnTo
<1>8. CASE QueryOutdated
    BY <1>8 DEF QueryOutdated, GoTo, Loop, CanReturnTo
<1>9. CASE Agree
    BY <1>9 DEF Agree, GoTo, Loop, CanReturnTo
<1>10. CASE RunUpgrade
    BY <1>10 DEF RunUpgrade, GoTo, Loop, CanReturnTo
<1>11. CASE InfoFromRepo
    BY <1>11 DEF InfoFromRepo, GoTo, Loop, CanReturnTo
<1>12. CASE InfoNotFound
    BY <1>12 DEF InfoNotFound, GoTo, Loop, CanReturnTo
<1>13. CASE InfoFile
    BY <1>13 DEF InfoFile, GoTo, Loop, CanReturnTo
<1>14. CASE InfoUnopened
    BY <1>14 DEF InfoUnopened, GoTo, Loop, CanReturnTo
<1>15. CASE InfoShown
    BY <1>15 DEF InfoShown, GoTo, Loop, CanReturnTo
<1>16. CASE InfoEnds
    BY <1>16 DEF InfoEnds, GoTo, Loop, CanReturnTo
<1>17. CASE Leave
    BY <1>17 DEF Leave, GoTo, Loop, CanReturnTo
<1>18. CASE UNCHANGED vars
    BY <1>18 DEF vars, inputs
<1>19. QED
    BY <1>1, <1>2, <1>3, <1>4, <1>5, <1>6, <1>7, <1>8, <1>9, <1>10, <1>11, <1>12, <1>13, <1>14,
       <1>15, <1>16, <1>17, <1>18
       DEF Next
-----------------------------------------------------------------------------
(* What the lists hold.                                                    *)

LEMMA EmptyList == ToSet(<<>>) = {} /\ IsInjective(<<>>)
BY DEF ToSet, IsInjective

\* World, options and targets do not change, nor what is read off them.
LEMMA Readings ==
    ASSUME world' = world, opts' = opts, targets' = targets
    PROVE  /\ \A n : IsAur(n)' <=> IsAur(n)
           /\ \A n, ver : Classes(n, ver)' = Classes(n, ver)
           /\ \A n, ver : Outdated(n, ver)' <=> Outdated(n, ver)
           /\ ToCheck' = ToCheck
BY DEF IsAur, Classes, Outdated, ToCheck

\* A query is remembered as it was answered, and those before it stay so.
LEMMA Asked ==
    ASSUME InputsOK, SyncTypeOK, IsInjective(targs), missed \subseteq Done,
           pc # "filter", i <= Len(targs),
           NEW ver \in Answers(targs[i]),
           world' = world, targs' = targs, i' = i + 1,
           missed' = MissedNow(targs[i], ver)
    PROVE  /\ targs[i] \in Names /\ targs[i] \in ToSet(targs)
           /\ targs[i] \notin Done /\ Done' = Done \cup {targs[i]}
           /\ missed' \subseteq Done'
           /\ \A m \in Done : Reply'[m] = Reply[m]
           /\ Reply'[targs[i]] = ver
           /\ ver \in Nat
<1>1. targs \in Seq(Names) /\ i \in 1..Len(targs)
    BY DEF SyncTypeOK
<1>2. /\ targs[i] \in Names /\ targs[i] \in ToSet(targs)
      /\ targs[i] \notin Done /\ Done' = Done \cup {targs[i]}
    BY <1>1, NextMember DEF Done
<1>3. ver \in {0, world.available[targs[i]]} /\ world.available[targs[i]] \in Nat
    BY <1>2 DEF Answers, InputsOK, AllWorlds
<1>4. missed' \subseteq Done' /\ \A m \in Done : m \in missed' <=> m \in missed
    BY <1>2 DEF MissedNow
<1>5. \A m \in Done : Reply'[m] = Reply[m]
    <2>1. Done \subseteq Names
        <3>1. \A k \in 1..(i - 1) : k \in 1..Len(targs)
            BY <1>1
        <3>2. QED
            BY <1>1, <3>1 DEF Done
    <2>2. QED
        BY <1>4, <2>1 DEF Reply
<1>6. targs[i] \in missed' <=> ver = 0 /\ world.available[targs[i]] > 0
    BY <1>2 DEF MissedNow
<1>7. (IF targs[i] \in missed' THEN 0 ELSE world.available[targs[i]]) = ver
    BY <1>3, <1>6
<1>8. Reply'[targs[i]] = ver
    BY <1>2, <1>7 DEF Reply
<1>9. QED
    BY <1>2, <1>3, <1>4, <1>5, <1>8

LEMMA TargetListed ==
    ASSUME InputsOK, SyncTypeOK, ListsInv, QueryTarget, world' = world, targets' = targets,
           opts' = opts
    PROVE  ListsInv'
<1>1. PICK ver \in Answers(targs[i]) :
          /\ lists' = [l \in ListNames |-> IF l \in Classes(targs[i], ver)
                                           THEN Append(lists[l], targs[i]) ELSE lists[l]]
          /\ missed' = MissedNow(targs[i], ver)
    BY DEF QueryTarget
<1>2. /\ pc = "targets" /\ pc' = "targets"
      /\ ~opts'.upgrade /\ ~opts'.check
      /\ targs' = targs /\ targs = targets /\ i' = i + 1 /\ i <= Len(targs)
      /\ IsInjective(targs) /\ missed \subseteq Done
      /\ \A l \in ListNames : IsInjective(lists[l]) /\ ToSet(lists[l]) = Listed[l]
    BY DEF QueryTarget, ListsInv, InputsOK
<1>3. /\ targs[i] \in Names
      /\ targs[i] \notin Done /\ Done' = Done \cup {targs[i]}
      /\ missed' \subseteq Done'
      /\ \A m \in Done : Reply'[m] = Reply[m]
      /\ Reply'[targs[i]] = ver
    BY <1>1, <1>2, Asked
<1>4. ASSUME NEW l \in ListNames
      PROVE  IsInjective(lists'[l]) /\ ToSet(lists'[l]) = Listed'[l]
    <2>1. Listed[l] = {m \in Done : l \in Classes(m, Reply[m])}
        BY DEF Listed
    <2>2. Listed'[l] = {m \in Done' : l \in Classes(m, Reply[m])'}
        BY DEF Listed
    <2>3. \A m : Classes(m, Reply[m])' = Classes(m, Reply'[m])
        BY DEF Classes, IsAur
    <2>4. Listed'[l] = Listed[l] \cup (IF l \in Classes(targs[i], ver) THEN {targs[i]} ELSE {})
        BY <1>3, <2>1, <2>2, <2>3
    <2>5. lists[l] \in Seq(Names) /\ targs[i] \notin ToSet(lists[l])
        BY <1>2, <1>3, <2>1 DEF SyncTypeOK
    <2>6. QED
        BY <1>1, <1>2, <1>3, <2>4, <2>5, Appended
<1>5. QED
    BY <1>2, <1>3, <1>4 DEF ListsInv

LEMMA OutdatedListed ==
    ASSUME InputsOK, SyncTypeOK, ListsInv, QueryOutdated, world' = world, targets' = targets,
           opts' = opts
    PROVE  ListsInv' /\ pc' = "check"
<1>1. /\ pc = "check"
      /\ opts'.upgrade
      /\ targs' = targs /\ i' = i + 1 /\ i <= Len(targs)
      /\ IsInjective(targs) /\ ToSet(targs) = {n \in ToCheck : IsAur(n)}
      /\ missed \subseteq Done
      /\ IsInjective(lists.outdated) /\ ToSet(lists.outdated) = OutdatedDone
    BY DEF QueryOutdated, ListsInv
<1>2. IsAur(targs[i])
    <2>1. targs[i] \in ToSet(targs)
        BY <1>1, NextMember DEF SyncTypeOK
    <2>2. QED
        BY <1>1, <2>1
<1>3. PICK ver \in Answers(targs[i]) :
          /\ lists' = IF ver > 0 /\ Outdated(targs[i], ver)
                      THEN [lists EXCEPT !.outdated = Append(@, targs[i])] ELSE lists
          /\ missed' = MissedNow(targs[i], ver)
          /\ pc' = pc
    BY <1>2 DEF QueryOutdated
<1>4. /\ targs[i] \in Names
      /\ targs[i] \notin Done /\ Done' = Done \cup {targs[i]}
      /\ missed' \subseteq Done'
      /\ \A m \in Done : Reply'[m] = Reply[m]
      /\ Reply'[targs[i]] = ver
    BY <1>1, <1>3, Asked
<1>5. IsInjective(lists'.outdated) /\ ToSet(lists'.outdated) = OutdatedDone'
    <2>1. OutdatedDone' = {m \in Done' : Reply'[m] > 0 /\ Outdated(m, Reply'[m])}
        BY DEF OutdatedDone, Outdated
    <2>2. OutdatedDone' = OutdatedDone \cup
                (IF ver > 0 /\ Outdated(targs[i], ver) THEN {targs[i]} ELSE {})
        BY <1>4, <2>1 DEF OutdatedDone
    <2>3. lists.outdated \in Seq(Names) /\ targs[i] \notin ToSet(lists.outdated)
        BY <1>1, <1>4 DEF SyncTypeOK, ListNames, OutdatedDone
    <2>4. lists'.outdated = IF ver > 0 /\ Outdated(targs[i], ver)
                            THEN Append(lists.outdated, targs[i]) ELSE lists.outdated
        BY <1>3 DEF SyncTypeOK, ListNames
    <2>5. QED
        BY <1>1, <1>4, <2>2, <2>3, <2>4, Appended
<1>6. ToSet(targs') = {n \in ToCheck : IsAur(n)}'
    BY <1>1 DEF ToCheck, IsAur
<1>7. QED
    BY <1>1, <1>3, <1>4, <1>5, <1>6 DEF ListsInv

\* The loop of sync_upgrade keeps what hashdb->aur has.
LEMMA FilterKept ==
    ASSUME InputsOK, SyncTypeOK, ListsInv, FilterTarget, world' = world, targets' = targets,
           opts' = opts
    PROVE  ListsInv'
<1>1. /\ pc = "filter" /\ pc' = "filter"
      /\ i' = i + 1 /\ i \in 1..Len(targets)
      /\ missed' = missed /\ lists' = lists
      /\ targs' = IF IsAur(targets[i]) THEN Append(targs, targets[i]) ELSE targs
    BY DEF FilterTarget, results, history, IsChecked, SyncTypeOK
<1>2. /\ opts.upgrade /\ targets # <<>> /\ missed = {}
      /\ \A l \in ListNames : lists[l] = <<>>
      /\ IsInjective(targs) /\ ToSet(targs) = {n \in Given : IsAur(n)}
    BY <1>1 DEF ListsInv
<1>3. /\ targets[i] \in Names
      /\ targets[i] \notin Given /\ Given' = Given \cup {targets[i]}
    BY <1>1, NextMember DEF InputsOK, Given
<1>4. {n \in Given : IsAur(n)}' = {n \in Given' : IsAur(n)}
    BY DEF IsAur
<1>5. IsInjective(targs') /\ ToSet(targs') = {n \in Given' : IsAur(n)}
    <2>1. targs \in Seq(Names) /\ targets[i] \notin ToSet(targs)
        BY <1>2, <1>3 DEF SyncTypeOK
    <2>2. QED
        BY <1>1, <1>2, <1>3, <2>1, Appended
<1>6. QED
    BY <1>1, <1>2, <1>4, <1>5 DEF ListsInv

LEMMA ListsStay == InputsOK /\ SyncTypeOK /\ ListsInv /\ [Next]_vars => ListsInv'
<1> SUFFICES ASSUME InputsOK, SyncTypeOK, ListsInv, [Next]_vars PROVE ListsInv'
    OBVIOUS
<1>0. world' = world /\ opts' = opts /\ targets' = targets
    BY InputsFixed DEF inputs
<1>1. CASE pc' \in {"leave", "end", "info", "download", "upgrade_pkgs"}
    BY <1>1 DEF ListsInv
<1>2. CASE EnterDir /\ pc' = "targets"
    <2>1. /\ ~opts'.upgrade /\ ~opts'.check /\ targs' = targets' /\ i' = 1
          /\ missed' = {} /\ \A l \in ListNames : lists'[l] = <<>>
        BY <1>0, <1>2 DEF EnterDir, Accepted, Loop, results, history, ListsInv
    <2>2. \A l \in ListNames : IsInjective(lists'[l]) /\ ToSet(lists'[l]) = Listed'[l]
        <3>1. \A l \in ListNames : Listed'[l] = {}
            BY <2>1 DEF Listed, Done
        <3>2. QED
            BY <2>1, <3>1, EmptyList
    <2>3. QED
        BY <1>2, <2>1, <2>2 DEF ListsInv
<1>3. CASE QueryTarget
    BY <1>0, <1>3, TargetListed
<1>4. CASE StartCheck
    <2>1. /\ pc = "start" /\ opts'.upgrade /\ i' = 1
          /\ missed' = {} /\ \A l \in ListNames : lists'[l] = <<>>
        BY <1>0, <1>4 DEF StartCheck, Loop, results, history, ListsInv
    <2>2. CASE targets = <<>> /\ \E s \in SetToSeqs({n \in Names : IsAur(n)}) : Loop("check", s)
        <3>1. /\ pc' = "check"
              /\ IsInjective(targs') /\ ToSet(targs') = {n \in Names : IsAur(n)}
            BY <2>2, Listings DEF Loop, InputsOK
        <3>2. {n \in ToCheck : IsAur(n)}' = {n \in Names : IsAur(n)}
            BY <1>0, <2>2 DEF ToCheck, IsAur
        <3>3. IsInjective(lists'.outdated) /\ ToSet(lists'.outdated) = OutdatedDone'
            <4>1. OutdatedDone' = {} /\ lists'.outdated = <<>>
                BY <2>1 DEF OutdatedDone, Done, ListNames
            <4>2. QED
                BY <4>1, EmptyList
        <3>4. QED
            BY <2>1, <3>1, <3>2, <3>3 DEF ListsInv
    <2>3. CASE targets # <<>> /\ Loop("filter", <<>>)
        <3>1. pc' = "filter" /\ targs' = <<>> /\ targets' # <<>>
            BY <1>0, <2>3 DEF Loop
        <3>2. Given' = {}
            BY <2>1 DEF Given
        <3>3. IsInjective(targs') /\ ToSet(targs') = {n \in Given : IsAur(n)}'
            BY <3>1, <3>2, EmptyList
        <3>4. QED
            BY <2>1, <3>1, <3>3 DEF ListsInv
    <2>4. QED
        BY <1>4, <2>2, <2>3 DEF StartCheck
<1>5. CASE FilterTarget
    BY <1>0, <1>5, FilterKept
<1>6. CASE Filtered
    <2>1. /\ pc = "filter" /\ pc' = "check" /\ i' = 1 /\ targs' = targs /\ opts'.upgrade
          /\ targets # <<>> /\ i > Len(targets)
          /\ missed' = {} /\ \A l \in ListNames : lists'[l] = <<>>
          /\ IsInjective(targs) /\ ToSet(targs) = {n \in Given : IsAur(n)}
        BY <1>0, <1>6 DEF Filtered, Loop, results, history, ListsInv
    <2>2. Given = ToSet(targets)
        BY <2>1, AllMembers DEF Given, InputsOK, SyncTypeOK
    <2>3. {n \in ToCheck : IsAur(n)}' = {n \in Given : IsAur(n)}
        BY <1>0, <2>1, <2>2 DEF ToCheck, IsAur
    <2>4. IsInjective(lists'.outdated) /\ ToSet(lists'.outdated) = OutdatedDone'
        <3>1. OutdatedDone' = {} /\ lists'.outdated = <<>>
            BY <2>1 DEF OutdatedDone, Done, ListNames
        <3>2. QED
            BY <3>1, EmptyList
    <2>5. QED
        BY <2>1, <2>3, <2>4 DEF ListsInv
<1>7. CASE QueryOutdated
    BY <1>0, <1>7, OutdatedListed
<1>8. CASE UNCHANGED vars
    <2>1. /\ pc' = pc /\ targs' = targs /\ i' = i /\ lists' = lists /\ missed' = missed
        BY <1>8 DEF vars, history
    <2>2. Done' = Done /\ Given' = Given /\ Reply' = Reply
        BY <1>0, <2>1 DEF Done, Given, Reply
    <2>3. Listed' = Listed
        BY <1>0, <2>2 DEF Listed, Classes, IsAur
    <2>4. OutdatedDone' = OutdatedDone
        BY <1>0, <2>2 DEF OutdatedDone, Outdated
    <2>5. /\ {n \in Given : IsAur(n)}' = {n \in Given : IsAur(n)}
          /\ {n \in ToCheck : IsAur(n)}' = {n \in ToCheck : IsAur(n)}
        BY <1>0, <2>2 DEF ToCheck, IsAur
    <2>6. QED
        BY <1>0, <2>1, <2>2, <2>3, <2>4, <2>5 DEF ListsInv
<1>9. Next => \/ pc' \in {"leave", "end", "info", "download", "upgrade_pkgs"}
              \/ EnterDir /\ pc' = "targets"
              \/ QueryTarget \/ StartCheck \/ FilterTarget \/ Filtered \/ QueryOutdated
    BY DEF Next, Refuse, CurlFails, OnlyPrints, EnterDir, DirFails, NoHashdb, Proceed, Decline,
           CheckFails, CheckOnly, Agree, DeclineUpgrade, NothingToUpgrade, CannotUpgrade,
           RunUpgrade, InfoFromRepo, InfoNotFound, InfoFile, InfoUnopened, InfoShown, InfoEnds,
           Leave, GoTo, Loop
<1>10. QED
    BY <1>1, <1>2, <1>3, <1>4, <1>5, <1>6, <1>7, <1>8, <1>9
-----------------------------------------------------------------------------
(* What upgrade_pkgs is handed.                                            *)

\* The three lists that are joined share no target.
LEMMA JoinIsExact ==
    ASSUME InputsOK, SyncTypeOK, ListsInv, pc = "targets", i > Len(targs)
    PROVE  IsInjective(join(lists)) /\ ToSet(join(lists)) = InstallableOf(ToSet(targets))
<1>1. /\ targs = targets /\ missed \subseteq Done
      /\ \A l \in ListNames : IsInjective(lists[l]) /\ ToSet(lists[l]) = Listed[l]
    BY DEF ListsInv
<1>2. Done = ToSet(targets) /\ ToSet(targets) \subseteq Names
    <2>1. Done = ToSet(targets)
        BY <1>1, AllMembers DEF Done, SyncTypeOK
    <2>2. \A k \in DOMAIN targets : targets[k] \in Names
        BY DEF InputsOK
    <2>3. QED
        BY <2>1, <2>2 DEF ToSet
<1>3. /\ lists.reinstall \in Seq(Names) /\ lists.upgrade \in Seq(Names)
      /\ lists.new_packages \in Seq(Names)
      /\ IsInjective(lists.reinstall) /\ IsInjective(lists.upgrade)
      /\ IsInjective(lists.new_packages)
      /\ ToSet(lists.reinstall) = Listed["reinstall"] /\ ToSet(lists.upgrade) = Listed["upgrade"]
      /\ ToSet(lists.new_packages) = Listed["new_packages"]
    BY <1>1 DEF SyncTypeOK, ListNames
<1>4. \A l \in {"reinstall", "upgrade", "new_packages"} :
          Listed[l] = {n \in Done : l \in Classes(n, Reply[n])}
    BY DEF Listed, ListNames
<1>5. /\ Listed["reinstall"] \cap Listed["upgrade"] = {}
      /\ (Listed["reinstall"] \cup Listed["upgrade"]) \cap Listed["new_packages"] = {}
    BY <1>4 DEF Classes
<1>6. /\ IsInjective(join(lists))
      /\ ToSet(join(lists)) =
            Listed["reinstall"] \cup Listed["upgrade"] \cup Listed["new_packages"]
    <2> DEFINE both == lists.reinstall \o lists.upgrade
    <2>1. /\ both \in Seq(Names) /\ IsInjective(both)
          /\ ToSet(both) = Listed["reinstall"] \cup Listed["upgrade"]
        BY <1>3, <1>5, Joined
    <2> HIDE DEF both
    <2>2. /\ IsInjective(both \o lists.new_packages)
          /\ ToSet(both \o lists.new_packages) = ToSet(both) \cup ToSet(lists.new_packages)
        BY <1>3, <1>5, <2>1, Joined
    <2>3. join(lists) = both \o lists.new_packages
        BY DEF join, both
    <2>4. QED
        BY <1>3, <2>1, <2>2, <2>3
<1>7. \A n \in Done : \/ n \in Listed["reinstall"] \/ n \in Listed["upgrade"]
                      \/ n \in Listed["new_packages"]
                      <=> n \in InstallableOf(ToSet(targets))
    <2> SUFFICES ASSUME NEW n \in Done
                 PROVE  \/ n \in Listed["reinstall"] \/ n \in Listed["upgrade"]
                        \/ n \in Listed["new_packages"]
                        <=> n \in InstallableOf(ToSet(targets))
        OBVIOUS
    <2>1. /\ world.available[n] \in Nat /\ world.installed[n] \in Nat
          /\ Reply[n] = IF n \in missed THEN 0 ELSE world.available[n]
        BY <1>2 DEF InputsOK, AllWorlds, Reply
    <2>2. n \in InstallableOf(ToSet(targets)) <=>
              /\ Reply[n] > 0
              /\ IsAur(n) => Reply[n] >= world.installed[n]
        BY <1>2, <2>1 DEF InstallableOf, OfferedOf
    <2>3. QED
        BY <1>4, <2>1, <2>2 DEF Classes
<1>8. InstallableOf(ToSet(targets)) \subseteq Done
    BY <1>2 DEF InstallableOf, OfferedOf
<1>9. \A l \in {"reinstall", "upgrade", "new_packages"} : Listed[l] \subseteq Done
    BY <1>4
<1>10. QED
    BY <1>6, <1>7, <1>8, <1>9

LEMMA OutdatedIsExact ==
    ASSUME InputsOK, SyncTypeOK, ListsInv, pc = "check", i > Len(targs)
    PROVE  IsInjective(lists.outdated) /\ ToSet(lists.outdated) = OutdatedOf(ToCheck)
<1>1. /\ ToSet(targs) = {n \in ToCheck : IsAur(n)}
      /\ missed \subseteq Done
      /\ IsInjective(lists.outdated) /\ ToSet(lists.outdated) = OutdatedDone
    BY DEF ListsInv
<1>2. Done = {n \in ToCheck : IsAur(n)}
    BY <1>1, AllMembers DEF Done, SyncTypeOK
<1>3. ToCheck \subseteq Names
    <2>1. \A k \in DOMAIN targets : targets[k] \in Names
        BY DEF InputsOK
    <2>2. QED
        BY <2>1 DEF ToCheck, ToSet
<1>4. ASSUME NEW n \in ToCheck
      PROVE  n \in OutdatedDone <=> n \in OutdatedOf(ToCheck)
    <2>1. /\ world.available[n] \in Nat /\ world.installed[n] \in Nat
          /\ Reply[n] = IF n \in missed THEN 0 ELSE world.available[n]
        BY <1>3 DEF InputsOK, AllWorlds, Reply
    <2>2. n \in OutdatedOf(ToCheck) <=> Reply[n] > 0 /\ IsAur(n) /\ Reply[n] > world.installed[n]
        BY <2>1 DEF OutdatedOf, OfferedOf
    <2>3. QED
        BY <1>2, <2>2 DEF OutdatedDone, Outdated
<1>5. OutdatedDone \subseteq ToCheck /\ OutdatedOf(ToCheck) \subseteq ToCheck
    BY <1>2 DEF OutdatedDone, OutdatedOf, OfferedOf
<1>6. QED
    BY <1>1, <1>4, <1>5

LEMMA ExactStays ==
    InputsOK /\ SyncTypeOK /\ ListsInv /\ HandedExactly /\ [Next]_vars => HandedExactly'
<1> SUFFICES ASSUME InputsOK, SyncTypeOK, ListsInv, HandedExactly, [Next]_vars
             PROVE  HandedExactly'
    OBVIOUS
<1>0. world' = world /\ opts' = opts /\ targets' = targets
    BY InputsFixed DEF inputs
<1>1. CASE pc' # "upgrade_pkgs"
    BY <1>1 DEF HandedExactly
<1>2. ASSUME missed' = missed
      PROVE  /\ InstallableOf(ToSet(targets))' = InstallableOf(ToSet(targets))
             /\ OutdatedOf(ToCheck)' = OutdatedOf(ToCheck)
    BY <1>0, <1>2 DEF InstallableOf, OutdatedOf, OfferedOf, IsAur, ToCheck
<1>3. CASE Proceed
    <2>1. /\ pc = "targets" /\ i > Len(targs) /\ handed' = join(lists) /\ missed' = missed
          /\ ~opts'.upgrade /\ ~opts'.check
        BY <1>0, <1>3 DEF Proceed, history, ListsInv
    <2>2. /\ IsInjective(handed')
          /\ ToSet(handed') = InstallableOf(ToSet(targets))'
        BY <1>2, <2>1, JoinIsExact
    <2>3. QED
        BY <2>1, <2>2 DEF HandedExactly
<1>4. CASE Agree
    <2>1. /\ pc = "check" /\ i > Len(targs) /\ handed' = lists.outdated /\ missed' = missed
          /\ opts'.upgrade /\ ~opts'.check
        BY <1>0, <1>4 DEF Agree, history, ListsInv
    <2>2. IsInjective(handed') /\ ToSet(handed') = OutdatedOf(ToCheck)'
        BY <1>2, <2>1, OutdatedIsExact
    <2>3. QED
        BY <2>1, <2>2 DEF HandedExactly
<1>5. CASE UNCHANGED vars
    <2>1. pc' = pc /\ handed' = handed /\ missed' = missed
        BY <1>5 DEF vars, history
    <2>2. QED
        BY <1>0, <1>2, <2>1 DEF HandedExactly
<1>6. Next => pc' # "upgrade_pkgs" \/ Proceed \/ Agree
    BY DEF Next, Refuse, CurlFails, OnlyPrints, EnterDir, DirFails, QueryTarget, NoHashdb,
           Decline, StartCheck, FilterTarget, Filtered, CheckFails, QueryOutdated, CheckOnly,
           DeclineUpgrade, NothingToUpgrade, CannotUpgrade, RunUpgrade, InfoFromRepo,
           InfoNotFound, InfoFile, InfoUnopened, InfoShown, InfoEnds, Leave, GoTo, Loop
<1>7. QED
    BY <1>1, <1>3, <1>4, <1>5, <1>6

LEMMA EntryStays == InputsOK /\ SyncTypeOK /\ ListsInv /\ EntryFound /\ [Next]_vars => EntryFound'
<1> SUFFICES ASSUME InputsOK, SyncTypeOK, ListsInv, EntryFound, [Next]_vars
             PROVE  EntryFound'
    OBVIOUS
<1>1. CASE QueryOutdated
    <2>1. world' = world /\ opts' = opts /\ targets' = targets
        BY InputsFixed DEF inputs
    <2>2. pc' = "check"
        BY <1>1, <2>1, OutdatedListed
    <2>3. QED
        BY <2>2 DEF EntryFound
<1>2. CASE UNCHANGED vars
    BY <1>2 DEF vars, EntryFound
<1>3. Next => QueryOutdated \/ EntryFound'
    BY DEF EntryFound, Next, Refuse, CurlFails, OnlyPrints, EnterDir, DirFails, QueryTarget,
           NoHashdb, Proceed, Decline, StartCheck, FilterTarget, Filtered, CheckFails,
           CheckOnly, Agree, DeclineUpgrade, NothingToUpgrade, CannotUpgrade, RunUpgrade,
           InfoFromRepo, InfoNotFound, InfoFile, InfoUnopened, InfoShown, InfoEnds, Leave,
           GoTo, Loop
<1>4. QED
    BY <1>1, <1>2, <1>3

LEMMA InitSync == Init => SyncInv
<1> SUFFICES ASSUME Init PROVE SyncInv
    OBVIOUS
<1>1. InputsOK /\ SyncTypeOK
    BY InitInputs, InitTypes
<1>2. ListsInv
    BY DEF Init, ListsInv
<1>3. HandedInv /\ WhereInv /\ FilesInv /\ HandedExactly /\ EntryFound
    BY DEF Init, HandedInv, WhereInv, FilesInv, HandedExactly, EntryFound
<1>4. QED
    BY <1>1, <1>2, <1>3 DEF SyncInv

LEMMA SyncStays == SyncInv /\ [Next]_vars => SyncInv'
BY InputsStay, TypesStay, ListsStay, HandedStays, WhereStays, FilesStay, ExactStays, EntryStays
   DEF SyncInv

-----------------------------------------------------------------------------
(* Theorems.                                                               *)

\* In every step of powaur_sync the lists hold the targets it is through, each
\* once, as the AUR answered for them.
THEOREM TargetsInvariant == Spec => []SyncInv
BY InitSync, SyncStays, PTL DEF Spec

\* upgrade_pkgs is handed exactly what was asked for, each package once,
\* whichever queries failed.
THEOREM ExactlyHanded == Spec => []HandedExactly
<1>1. SyncInv => HandedExactly
    BY DEF SyncInv
<1>2. QED
    BY <1>1, TargetsInvariant, PTL

\* sync.c:621: get_outdated_pkgs never reads an entry of hashdb->aur that is not
\* there.
THEOREM EntryIsFound == Spec => []EntryFound
<1>1. SyncInv => EntryFound
    BY DEF SyncInv
<1>2. QED
    BY <1>1, TargetsInvariant, PTL

\* powaur_sync ends where it began, if that is still there, without files but
\* those of -Si that fdopen failed on, and reports an upgrade that did not begin.
THEOREM CleanEnd == Spec => []NothingLeftBehind
<1>1. SyncInv => NothingLeftBehind
    BY DEF SyncInv, NothingLeftBehind, WhereInv, FilesInv, HandedInv
<1>2. QED
    BY <1>1, TargetsInvariant, PTL
=============================================================================
