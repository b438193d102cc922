----------------------------- MODULE CrawlProofs -----------------------------
(* What upgrade_pkgs and powaur_crawl promise together with all they call,  *)
(* for every world, list of targets, resolve level and way installations    *)
(* may end: the graph, the order in which packages are built, and that      *)
(* nothing is left out or built without need.                               *)
(*                                                                          *)
(* First what build_dep_graph keeps true in each of its steps: the          *)
(* inductive invariant from which the properties of Resolver and Upgrade    *)
(* follow.                                                                  *)
EXTENDS Crawl, SequenceTheorems, TLAPS

-----------------------------------------------------------------------------
(* The inductive invariant of build_dep_graph.                             *)

Databases == world.local \cup world.sync
Provides(p, d) == p \in world.localProvides[d] \cup world.syncProvides[d]

\* A target or a dependency that x satisfies.
Wanted(x) ==
    \E e \in ToSet(targets) \cup {e \in Names : \E p \in Names : DependsOn(p, e)} :
        Satisfies(x, e)

\* Why x may be downloaded.
Justified(x) ==
    /\ Wanted(x)
    /\ IF x \in aur
       THEN lvl = "thorough" \/ x \in ToSet(targets)
       ELSE \A p \in Databases : ~Satisfies(p, x)

InputsOK ==
    /\ world \in WorldType
    /\ \A n \in Names : world.localProvides[n] \subseteq world.local
                        /\ world.syncProvides[n] \subseteq world.sync
    /\ lvl \in Levels
    /\ targets \in Seq(Names)
    /\ call \in Seq(Names) /\ ToSet(call) \subseteq ToSet(targets)

\* Relations of the world, as sets: nothing changes them.
Satisfying == {r \in Names \X Names : Satisfies(r[1], r[2])}
Depending == {r \in Names \X Names : DependsOn(r[1], r[2])}

\* Targets that another package provides.
StoodFor ==
    {n \in ToSet(targets) : n \notin aur /\ \E p \in Databases : Satisfies(p, n)}

\* The names that may come to provides_cache by way of the array: provided ones
\* in a list that is read in a database.
Keyable ==
    {d \in Names :
        /\ d \notin world.local /\ \E q \in Names : Provides(q, d)
        /\ \E p \in Names : /\ <<p, d>> \in Depending
                            /\ lvl = "thorough" \/ \E t \in StoodFor : <<p, t>> \in Satisfying}

\* What the tables say of a package is so.
DbOK(d) ==
    /\ d \in DbType
    /\ d.inBuf \subseteq Keyable
    /\ \A x \in Names :
          /\ d.from[x] = "local" => x \in world.local
          /\ d.from[x] = "sync" => x \in world.sync
          /\ d.from[x] = "aur" <=> x \in aur \cup d.downloaded
          /\ d.provided[x] # NULL => /\ x \notin world.local
                                     /\ Provides(d.provided[x], x)
                                     /\ d.from[d.provided[x]] # "unknown"
          /\ d.fetches[x] = IF x \in d.downloaded THEN 1 ELSE 0
          /\ x \in d.downloaded => Justified(x)

TypesOK ==
    /\ nodes \subseteq Names
    /\ edges \subseteq nodes \X nodes
    /\ stack \in Seq(Names)
    /\ resolved \subseteq Names
    /\ cur \in Names \cup {NULL}
    /\ reading \in {"db", "PKGBUILD"}
    /\ todo \in Seq(Names)
    /\ deps \in Seq(Names \cup {NULL, DANGLING})
    /\ pc \in {"pop", "deps", "link", "end"}
    /\ status \in {"ok", "error", "undefined"}

InWork == pc \in {"deps", "link"}
Working == IF InWork THEN {cur} ELSE {}
Linking == IF InWork THEN ToSet(deps) ELSE {}

\* Sets that follow from the world alone: nothing changes them.
WantedNames == {x \in Names : Wanted(x)}

\* r[1] is the package whose dependencies stand for those of r[2].
Standing ==
    {r \in Names \X Names :
        r[1] = r[2] \/ (r[2] \notin aur /\ r[1] \in Databases /\ Provides(r[1], r[2]))}

StackInv ==
    \A n \in ToSet(stack) :
        n \in WantedNames /\ (lvl = "immediate" => n \in ToSet(targets) \cup db.downloaded)

EdgesInv ==
    \A e \in edges :
        /\ e[2] \in resolved \/ (pc # "pop" /\ e[2] = cur)
        /\ \E f, d \in Names :
              <<f, e[2]>> \in Satisfying /\ <<f, d>> \in Depending /\ <<e[1], d>> \in Satisfying

HasEdge(d, p) == \E x \in Names : <<x, d>> \in Satisfying /\ <<x, p>> \in edges

\* Each package that is resolved has an edge for each of its dependencies.
ResolvedInv ==
    \A p \in resolved : \E f \in Names :
        <<f, p>> \in Standing /\ \A d \in Names : <<f, d>> \in Depending => HasEdge(d, p)

\* Each dependency of f is waiting, has an edge, or a bad pointer stands for it.
CoveredBy(f) ==
    /\ <<f, cur>> \in Standing
    /\ \A d \in ToSet(todo) : <<f, d>> \in Depending
    /\ \A d \in Names : <<f, d>> \in Depending =>
          \/ d \in ToSet(todo)
          \/ \E x \in ToSet(deps) \cap Names : <<x, d>> \in Satisfying
          \/ HasEdge(d, cur)
          \/ NULL \in ToSet(deps) \/ DANGLING \in ToSet(deps)
    /\ \A x \in ToSet(deps) \cap Names :
          \E d \in Names : <<f, d>> \in Depending /\ <<x, d>> \in Satisfying

CurInv ==
    InWork =>
        /\ cur \in Names
        /\ \E f \in Names : CoveredBy(f)
        /\ \A x \in ToSet(deps) \cap Names : db.from[x] # "unknown"
        /\ reading = "PKGBUILD" => DANGLING \notin ToSet(deps)
        /\ reading = "db" => NULL \notin ToSet(deps)
        /\ reading = "db" /\ lvl = "immediate" => cur \in StoodFor

\* Nothing that is to be resolved is lost.
WorkInv ==
    /\ pc # "end" => status = "ok"
    /\ (pc = "end" /\ status = "ok") => stack = <<>>
    /\ pc = "link" => todo = <<>>
    /\ status = "ok" =>
          /\ ToSet(call) \subseteq ToSet(stack) \cup resolved \cup Working
          /\ lvl = "thorough" => nodes \subseteq ToSet(stack) \cup resolved \cup Working
          /\ lvl = "immediate" =>
                /\ \/ db.downloaded \subseteq ToSet(stack) \cup resolved \cup Working \cup Linking
                   \/ DANGLING \in Linking
                /\ (resolved \cup Working) \cap aur \cap ToSet(targets) \subseteq db.downloaded
    /\ lvl = "immediate" => ToSet(targets) \subseteq nodes

ResolverInv ==
    /\ InputsOK
    /\ DbOK(db)
    /\ TypesOK
    /\ StackInv
    /\ EdgesInv
    /\ ResolvedInv
    /\ CurInv
    /\ WorkInv
    /\ UndefinedOnlyThere

-----------------------------------------------------------------------------
(* Sequences as the sets of their members.                                 *)

LEMMA Members ==
    ASSUME NEW T, NEW s \in Seq(T)
    PROVE  /\ ToSet(s) = {s[i] : i \in 1..Len(s)}
           /\ ToSet(s) \subseteq T
           /\ s = <<>> <=> ToSet(s) = {}
           /\ \A x : ToSet(Append(s, x)) = ToSet(s) \cup {x}
<1>1. DOMAIN s = 1..Len(s) /\ Len(s) \in Nat /\ \A i \in 1..Len(s) : s[i] \in T
    OBVIOUS
<1>2. ToSet(s) = {s[i] : i \in 1..Len(s)}
    BY <1>1 DEF ToSet
<1>3. s = <<>> <=> ToSet(s) = {}
    <2>1. s # <<>> => 1 \in 1..Len(s)
        BY <1>1, EmptySeq
    <2>2. s = <<>> => 1..Len(s) = {}
        BY <1>1
    <2>3. QED
        BY <1>2, <2>1, <2>2
<1>4. ASSUME NEW x PROVE ToSet(Append(s, x)) = ToSet(s) \cup {x}
    <2> DEFINE t == Append(s, x)
    <2>1. /\ DOMAIN t = 1..(Len(s) + 1)
          /\ \A i \in 1..Len(s) : t[i] = s[i]
          /\ t[Len(s) + 1] = x
        BY <1>1
    <2>2. \A i : i \in 1..(Len(s) + 1) <=> i \in 1..Len(s) \/ i = Len(s) + 1
        BY <1>1
    <2> HIDE DEF t
    <2>3. ToSet(t) = {t[i] : i \in 1..(Len(s) + 1)}
        BY <2>1 DEF ToSet
    <2>4. QED
        BY <1>2, <2>1, <2>2, <2>3 DEF t
<1>5. QED
    BY <1>1, <1>2, <1>3, <1>4

LEMMA Popped ==
    ASSUME NEW T, NEW s \in Seq(T), s # <<>>
    PROVE  /\ Front(s) \in Seq(T) /\ Last(s) \in T
           /\ ToSet(s) = ToSet(Front(s)) \cup {Last(s)}
           /\ Len(s) \in Nat \ {0} /\ Last(s) = s[Len(s)] /\ Len(Front(s)) = Len(s) - 1
           /\ \A i \in 1..(Len(s) - 1) : Front(s)[i] = s[i]
<1>1. Len(s) \in Nat \ {0} /\ DOMAIN s = 1..Len(s) /\ \A i \in 1..Len(s) : s[i] \in T
    BY EmptySeq
<1> DEFINE n == Len(s) - 1
<1>2. n \in Nat /\ n \in Int /\ 1 \in Int /\ \A i \in 1..n : s[i] \in T
    BY <1>1
<1> HIDE DEF n
<1>3. /\ SubSeq(s, 1, n) \in Seq(T)
      /\ Len(SubSeq(s, 1, n)) = IF 1 <= n THEN n - 1 + 1 ELSE 0
      /\ \A i \in 1..(n - 1 + 1) : SubSeq(s, 1, n)[i] = s[1 + i - 1]
    BY <1>2, SubSeqProperties
<1>4. Front(s) = SubSeq(s, 1, n) /\ Last(s) = s[n + 1] /\ Len(s) = n + 1
    BY <1>1 DEF n, Front, Last
<1>5. /\ Front(s) \in Seq(T) /\ Len(Front(s)) = n
      /\ \A i \in 1..n : Front(s)[i] = s[i]
    BY <1>2, <1>3, <1>4
<1>6. \A i : i \in 1..(n + 1) <=> i \in 1..n \/ i = n + 1
    BY <1>2
<1>7. ToSet(s) = {s[i] : i \in 1..(n + 1)} /\ ToSet(Front(s)) = {Front(s)[i] : i \in 1..n}
    <2>1. ToSet(s) = {s[i] : i \in 1..Len(s)}
        BY Members
    <2>2. ToSet(Front(s)) = {Front(s)[i] : i \in 1..Len(Front(s))}
        BY <1>5, Members
    <2>3. QED
        BY <1>4, <1>5, <2>1, <2>2
<1>8. ToSet(s) = ToSet(Front(s)) \cup {Last(s)}
    BY <1>4, <1>5, <1>6, <1>7
<1>9. /\ Last(s) = s[Len(s)] /\ Len(Front(s)) = Len(s) - 1
      /\ \A i \in 1..(Len(s) - 1) : Front(s)[i] = s[i]
    BY <1>4, <1>5 DEF n
<1>10. Last(s) \in T
    BY <1>1, <1>9
<1>11. QED
    BY <1>1, <1>5, <1>8, <1>9, <1>10

LEMMA Shifted ==
    ASSUME NEW T, NEW s \in Seq(T), s # <<>>
    PROVE  /\ Tail(s) \in Seq(T) /\ Head(s) \in T
           /\ ToSet(s) = ToSet(Tail(s)) \cup {Head(s)}
<1>1. /\ Len(s) \in Nat \ {0} /\ Tail(s) \in Seq(T) /\ Head(s) \in T /\ Head(s) = s[1]
      /\ Len(Tail(s)) = Len(s) - 1 /\ \A i \in 1..(Len(s) - 1) : Tail(s)[i] = s[i + 1]
    BY EmptySeq
<1> DEFINE t == Tail(s)
<1> HIDE DEF t
<1>2. /\ ToSet(s) = {s[i] : i \in 1..Len(s)}
      /\ ToSet(t) = {t[i] : i \in 1..(Len(s) - 1)}
    <2>1. ToSet(s) = {s[i] : i \in 1..Len(s)}
        BY Members
    <2>2. t \in Seq(T) /\ Len(t) = Len(s) - 1
        BY <1>1 DEF t
    <2>3. ToSet(t) = {t[i] : i \in 1..Len(t)}
        BY <2>2, Members
    <2>4. QED
        BY <2>1, <2>2, <2>3
<1>3. \A i \in 1..Len(s) : i = 1 \/ (i - 1 \in 1..(Len(s) - 1) /\ (i - 1) + 1 = i)
    BY <1>1
<1>4. \A i \in 1..(Len(s) - 1) : i + 1 \in 1..Len(s)
    BY <1>1
<1>5. 1 \in 1..Len(s)
    BY <1>1
<1>6. \A i \in 1..(Len(s) - 1) : t[i] = s[i + 1]
    BY <1>1 DEF t
<1>7. \A i \in 1..Len(s) : s[i] \in ToSet(t) \cup {s[1]}
    <2> TAKE i \in 1..Len(s)
    <2>1. CASE i = 1
        BY <2>1
    <2>2. CASE i - 1 \in 1..(Len(s) - 1) /\ (i - 1) + 1 = i
        BY <1>2, <1>6, <2>2
    <2>3. QED
        BY <1>3, <2>1, <2>2
<1>8. \A i \in 1..(Len(s) - 1) : t[i] \in ToSet(s)
    BY <1>2, <1>4, <1>6
<1>9. s[1] \in ToSet(s)
    BY <1>2, <1>5
<1>10. ToSet(s) = ToSet(t) \cup {s[1]}
    BY <1>2, <1>7, <1>8, <1>9
<1>11. QED
    BY <1>1, <1>10 DEF t

-----------------------------------------------------------------------------
(* The tables.                                                             *)

\* What one call of normalize_package for n may do to the tables d.
Normal(d, n, r) ==
    /\ DbOK(r.db)
    /\ \A x \in Names : d.from[x] # "unknown" => r.db.from[x] # "unknown"
    /\ r.db.downloaded = d.downloaded
          \/ (r.db.downloaded = d.downloaded \cup {n} /\ r.name = n)
    /\ r.name \in Names \cup {NULL}
    /\ r.name # NULL => r.db.from[r.name] # "unknown"
    /\ r.name # NULL => r.name = n \/ (n \notin world.local /\ Provides(r.name, n))
    /\ d.from[n] # "unknown" => r.name \in {n, NULL}
    /\ n \in d.downloaded => r.name = n
    /\ lvl = "immediate" /\ n \in aur \cap ToSet(targets) /\ r.name # NULL =>
          n \in r.db.downloaded

\* A package found in a database is entered.
LEMMA LearnOK ==
    ASSUME InputsOK, NEW d, DbOK(d), NEW p \in Names, NEW origin,
           \/ origin = "local" /\ p \in world.local
           \/ origin = "sync" /\ p \in world.sync
    PROVE  /\ DbOK(Learn(d, p, origin))
           /\ \A x \in Names : d.from[x] # "unknown" => Learn(d, p, origin).from[x] # "unknown"
           /\ Learn(d, p, origin).from[p] # "unknown"
           /\ Learn(d, p, origin).downloaded = d.downloaded
           /\ Learn(d, p, origin).provided = d.provided
           /\ Learn(d, p, origin).inBuf = d.inBuf
<1>1. d \in DbType
    BY DEF DbOK
<1>2. CASE d.from[p] # "unknown"
    BY <1>2 DEF Learn
<1>3. CASE d.from[p] = "unknown"
    <2> DEFINE new == [d EXCEPT !.from[p] = origin]
    <2>1. Learn(d, p, origin) = new
        BY <1>3 DEF Learn
    <2>2. /\ new \in DbType /\ new.downloaded = d.downloaded /\ new.provided = d.provided
          /\ new.fetches = d.fetches /\ new.inBuf = d.inBuf
          /\ new.from[p] = origin /\ \A x \in Names \ {p} : new.from[x] = d.from[x]
        BY <1>1 DEF DbType
    <2>3. p \notin aur \cup d.downloaded
        BY <1>3 DEF DbOK
    <2> HIDE DEF new
    <2>4. \A x \in Names :
            /\ new.from[x] = "local" => x \in world.local
            /\ new.from[x] = "sync" => x \in world.sync
            /\ new.from[x] = "aur" <=> x \in aur \cup new.downloaded
            /\ d.from[x] # "unknown" => new.from[x] # "unknown"
        BY <1>3, <2>2, <2>3 DEF DbOK
    <2>5. \A x \in Names : d.provided[x] # NULL => d.provided[x] \in Names
        BY <1>1 DEF DbType
    <2>6. DbOK(new)
        BY <2>2, <2>4, <2>5 DEF DbOK
    <2>7. QED
        BY <2>1, <2>2, <2>4, <2>6
<1>4. QED
    BY <1>2, <1>3

\* A provider is remembered.
LEMMA CacheOK ==
    ASSUME InputsOK, NEW d, DbOK(d), NEW n \in Names, n \notin world.local, NEW p \in Names,
           Provides(p, n), NEW origin,
           \/ origin = "local" /\ p \in world.local
           \/ origin = "sync" /\ p \in world.sync
    PROVE  LET new == Learn(Cache(d, n, p), p, origin)
           IN  /\ DbOK(new)
               /\ \A x \in Names : d.from[x] # "unknown" => new.from[x] # "unknown"
               /\ new.from[p] # "unknown"
               /\ new.downloaded = d.downloaded
<1> DEFINE first == Learn(d, p, origin)
           new == Learn(Cache(d, n, p), p, origin)
<1>1. d \in DbType
    BY DEF DbOK
<1>2. /\ DbOK(first) /\ first.from[p] # "unknown" /\ first.downloaded = d.downloaded
      /\ first.provided = d.provided /\ first.inBuf = d.inBuf
      /\ \A x \in Names : d.from[x] # "unknown" => first.from[x] # "unknown"
    BY LearnOK
<1>3. CASE d.provided[n] # NULL
    BY <1>2, <1>3 DEF Cache
<1>4. CASE d.provided[n] = NULL
    <2> DEFINE cached == [d EXCEPT !.provided[n] = p]
    <2>1. Cache(d, n, p) = cached
        BY <1>4 DEF Cache
    <2>2. cached \in DbType /\ cached.from = d.from
        BY <1>1 DEF DbType
    <2>3. /\ new \in DbType /\ new.from = first.from /\ new.downloaded = first.downloaded
          /\ new.fetches = first.fetches /\ new.inBuf = first.inBuf
          /\ new.provided[n] = p /\ \A x \in Names \ {n} : new.provided[x] = first.provided[x]
        <3>1. origin \in {"local", "sync"}
            OBVIOUS
        <3>2. CASE d.from[p] = "unknown"
            BY <1>1, <2>1, <2>2, <3>1, <3>2 DEF Learn, DbType
        <3>3. CASE d.from[p] # "unknown"
            BY <1>1, <2>1, <2>2, <3>1, <3>3 DEF Learn, DbType
        <3>4. QED
            BY <3>2, <3>3
    <2> HIDE DEF new, first, cached
    <2>4. DbOK(new)
        BY <1>2, <2>3 DEF DbOK
    <2>5. QED
        BY <1>2, <2>3, <2>4 DEF new
<1>5. QED
    BY <1>3, <1>4

\* A package is downloaded, for the first time and for a reason.
LEMMA DownloadedOK ==
    ASSUME InputsOK, NEW d, DbOK(d), NEW n \in Names, n \notin d.downloaded, Justified(n),
           d.from[n] \in {"aur", "unknown"}
    PROVE  LET new == Downloaded(d, n)
           IN  /\ DbOK(new)
               /\ \A x \in Names : d.from[x] # "unknown" => new.from[x] # "unknown"
               /\ new.from[n] = "aur"
               /\ new.downloaded = d.downloaded \cup {n}
<1> DEFINE new == Downloaded(d, n)
           got == [d EXCEPT !.downloaded = @ \cup {n}, !.fetches[n] = @ + 1]
<1>1. d \in DbType
    BY DEF DbOK
<1>2. /\ got \in DbType /\ got.from = d.from /\ got.provided = d.provided
      /\ got.inBuf = d.inBuf
      /\ got.downloaded = d.downloaded \cup {n}
      /\ got.fetches[n] = d.fetches[n] + 1
      /\ \A x \in Names \ {n} : got.fetches[x] = d.fetches[x]
    <2> DEFINE counts == [d.fetches EXCEPT ![n] = @ + 1]
    <2>1. d.fetches \in [Names -> Nat] /\ d.downloaded \subseteq Names
        BY <1>1 DEF DbType
    <2>2. d.fetches[n] + 1 \in Nat
        BY <2>1
    <2>3. /\ counts \in [Names -> Nat] /\ counts[n] = d.fetches[n] + 1
          /\ \A x \in Names \ {n} : counts[x] = d.fetches[x]
        BY <2>1, <2>2
    <2>4. got = [d EXCEPT !.downloaded = d.downloaded \cup {n}, !.fetches = counts]
        BY <1>1 DEF DbType
    <2> HIDE DEF counts, got
    <2>5. QED
        BY <1>1, <2>1, <2>3, <2>4 DEF DbType
<1> HIDE DEF got
<1>3. new = Learn(got, n, "aur")
    BY DEF Downloaded, got
<1>4. /\ new \in DbType /\ new.provided = d.provided /\ new.inBuf = d.inBuf
      /\ new.downloaded = d.downloaded \cup {n} /\ new.fetches = got.fetches
      /\ new.from[n] = "aur" /\ \A x \in Names \ {n} : new.from[x] = d.from[x]
    <2>1. CASE d.from[n] = "unknown"
        BY <1>2, <1>3, <2>1 DEF Learn, DbType
    <2>2. CASE d.from[n] = "aur"
        BY <1>2, <1>3, <2>2 DEF Learn, DbType
    <2>3. QED
        BY <2>1, <2>2
<1> HIDE DEF new
<1>5. \A x \in Names : new.fetches[x] = IF x \in new.downloaded THEN 1 ELSE 0
    BY <1>2, <1>4 DEF DbOK
<1>6. \A x \in Names :
        /\ new.from[x] = "local" => x \in world.local
        /\ new.from[x] = "sync" => x \in world.sync
        /\ new.from[x] = "aur" <=> x \in aur \cup new.downloaded
        /\ x \in new.downloaded => Justified(x)
        /\ d.from[x] # "unknown" => new.from[x] # "unknown"
    BY <1>4 DEF DbOK
<1>7. \A x \in Names : d.provided[x] # NULL => d.provided[x] \in Names
    BY <1>1 DEF DbType
<1>8. DbOK(new)
    BY <1>4, <1>5, <1>6, <1>7 DEF DbOK
<1>9. QED
    BY <1>4, <1>6, <1>8 DEF new

LEMMA ProvidersAreNames ==
    ASSUME InputsOK, NEW n \in Names
    PROVE  /\ world.local \subseteq Names /\ world.sync \subseteq Names
           /\ world.localProvides[n] \subseteq world.local
           /\ world.syncProvides[n] \subseteq world.sync
           /\ \A p : Provides(p, n) => p \in Names /\ p \in Databases
BY DEF InputsOK, WorldType, Provides, Databases

\* search_aur, for a package that is downloaded for a reason if at all.
LEMMA AurSearched ==
    ASSUME InputsOK, NEW d, DbOK(d), NEW n \in Names, n \notin d.downloaded,
           d.from[n] \in {"aur", "unknown"}, UpToDate(n) \/ Justified(n),
           NEW r \in search_aur(d, n)
    PROVE  Normal(d, n, r)
<1>1. NULL \notin Names
    BY ResolverAssumption
<1>2. CASE UpToDate(n)
    <2>1. r = [name |-> n, db |-> d]
        BY <1>2 DEF search_aur, Found
    <2>2. n \in aur /\ d.from[n] = "aur" /\ r.name = n /\ r.db = d
        BY <1>2, <2>1 DEF UpToDate, DbOK
    <2>3. QED
        BY <1>1, <1>2, <2>2 DEF Normal, UpToDate, aur_outdated
<1>3. CASE ~UpToDate(n) /\ r = [name |-> NULL, db |-> d]
    <2>1. r.name = NULL /\ r.db = d
        BY <1>3
    <2>2. QED
        BY <1>1, <2>1 DEF Normal
<1>4. CASE ~UpToDate(n) /\ r = [name |-> n, db |-> Downloaded(d, n)]
    <2>1. r.name = n /\ r.db = Downloaded(d, n)
        BY <1>4
    <2>2. Justified(n)
        BY <1>4
    <2>3. /\ DbOK(r.db) /\ r.db.from[n] = "aur" /\ r.db.downloaded = d.downloaded \cup {n}
          /\ \A x \in Names : d.from[x] # "unknown" => r.db.from[x] # "unknown"
        BY <2>1, <2>2, DownloadedOK
    <2>4. QED
        BY <1>1, <2>1, <2>3 DEF Normal
<1>5. QED
    BY <1>2, <1>3, <1>4 DEF search_aur, Found, Outcomes

\* normalize_package, for every package and all tables it may meet.
LEMMA Normalized ==
    ASSUME InputsOK, NEW d, DbOK(d), NEW n \in Names, Wanted(n),
           NEW r \in normalize_package(d, n)
    PROVE  Normal(d, n, r)
<1>1. NULL \notin Names /\ d \in DbType
    BY ResolverAssumption DEF DbOK
<1>2. /\ world.local \subseteq Names /\ world.sync \subseteq Names
      /\ world.localProvides[n] \subseteq world.local
      /\ world.syncProvides[n] \subseteq world.sync
      /\ \A p : Provides(p, n) => p \in Names /\ p \in Databases
    BY ProvidersAreNames
<1>3. ASSUME r = [name |-> n, db |-> d], d.from[n] # "unknown",
             n \in aur => n \in d.downloaded
      PROVE  Normal(d, n, r)
    <2>1. r.name = n /\ r.db = d
        BY <1>3
    <2>2. QED
        BY <1>1, <1>3, <2>1 DEF Normal
<1>4. ASSUME NEW p \in Names, NEW new, r = [name |-> p, db |-> new],
             p = n \/ (n \notin world.local /\ Provides(p, n)), n \notin aur,
             d.from[n] = "unknown",
             DbOK(new), new.from[p] # "unknown", new.downloaded = d.downloaded,
             \A x \in Names : d.from[x] # "unknown" => new.from[x] # "unknown"
      PROVE  Normal(d, n, r)
    <2>1. r.name = p /\ r.db = new
        BY <1>4
    <2>2. n \notin d.downloaded
        BY <1>4 DEF DbOK
    <2>3. QED
        BY <1>1, <1>4, <2>1, <2>2 DEF Normal
<1>5. CASE d.from[n] = "aur" /\ n \notin d.downloaded
    <2>1. n \in aur
        BY <1>5 DEF DbOK
    <2>2. UpToDate(n) \/ Justified(n)
        BY <2>1 DEF UpToDate, Justified, aur_outdated, InputsOK, Levels
    <2>3. r \in search_aur(d, n)
        BY <1>5 DEF normalize_package
    <2>4. QED
        BY <1>5, <2>2, <2>3, AurSearched
<1>6. CASE d.from[n] # "unknown" /\ ~(d.from[n] = "aur" /\ n \notin d.downloaded)
    <2>1. r = [name |-> n, db |-> d]
        BY <1>6 DEF normalize_package, Found
    <2>2. n \in aur => n \in d.downloaded
        BY <1>6 DEF DbOK
    <2>3. QED
        BY <1>3, <1>6, <2>1, <2>2
<1>7. CASE d.from[n] = "unknown" /\ n \in world.local
    <2>1. n \notin aur
        BY <1>7 DEF DbOK
    <2>2. r = [name |-> n, db |-> Learn(d, n, "local")]
        BY <1>7, <2>1 DEF normalize_package, Found
    <2> DEFINE new == Learn(d, n, "local")
    <2>3. /\ DbOK(new) /\ new.from[n] # "unknown" /\ new.downloaded = d.downloaded
          /\ \A x \in Names : d.from[x] # "unknown" => new.from[x] # "unknown"
        BY <1>7, LearnOK
    <2> HIDE DEF new
    <2>4. QED
        BY <1>4, <1>7, <2>1, <2>2, <2>3 DEF new
<1>8. CASE d.from[n] = "unknown" /\ n \notin world.local
    <2>1. n \notin aur /\ n \notin d.downloaded
        BY <1>8 DEF DbOK
    <2>2. r \in search_databases(d, n)
        BY <1>8 DEF normalize_package
    <2>3. CASE d.provided[n] # NULL
        <3>1. r = [name |-> d.provided[n], db |-> d]
            BY <2>2, <2>3 DEF search_databases, Found
        <3>2. d.provided[n] \in Names /\ Provides(d.provided[n], n)
              /\ d.from[d.provided[n]] # "unknown"
            BY <1>2, <2>3 DEF DbOK
        <3>3. QED
            BY <1>4, <1>8, <2>1, <3>1, <3>2
    <2>4. CASE d.provided[n] = NULL /\ world.localProvides[n] # {}
        <3> DEFINE p == FirstOf(world.localProvides[n])
        <3>1. p \in world.localProvides[n]
            BY <2>4 DEF FirstOf
        <3>2. p \in Names /\ p \in world.local /\ Provides(p, n)
            BY <1>2, <3>1 DEF Provides
        <3>3. r = [name |-> p, db |-> Learn(Cache(d, n, p), p, "local")]
            BY <2>2, <2>4 DEF search_databases, Found
        <3> HIDE DEF p
        <3> DEFINE new == Learn(Cache(d, n, p), p, "local")
        <3>4. /\ DbOK(new) /\ new.from[p] # "unknown" /\ new.downloaded = d.downloaded
              /\ \A x \in Names : d.from[x] # "unknown" => new.from[x] # "unknown"
            BY <1>8, <3>2, CacheOK
        <3> HIDE DEF new
        <3>5. QED
            BY <1>4, <1>8, <2>1, <3>2, <3>3, <3>4 DEF new
    <2>5. CASE /\ d.provided[n] = NULL /\ world.localProvides[n] = {}
               /\ world.syncProvides[n] \cap world.local # {}
        <3> DEFINE p == FirstOf(world.syncProvides[n] \cap world.local)
        <3>1. p \in world.syncProvides[n] \cap world.local
            BY <2>5 DEF FirstOf
        <3>2. p \in Names /\ p \in world.local /\ Provides(p, n)
            BY <1>2, <3>1 DEF Provides
        <3>3. r = [name |-> p, db |-> Learn(d, p, "local")]
            BY <2>2, <2>5 DEF search_databases, Found
        <3> HIDE DEF p
        <3> DEFINE new == Learn(d, p, "local")
        <3>4. /\ DbOK(new) /\ new.from[p] # "unknown" /\ new.downloaded = d.downloaded
              /\ \A x \in Names : d.from[x] # "unknown" => new.from[x] # "unknown"
            BY <3>2, LearnOK
        <3> HIDE DEF new
        <3>5. QED
            BY <1>4, <1>8, <2>1, <3>2, <3>3, <3>4 DEF new
    <2>6. CASE /\ d.provided[n] = NULL /\ world.localProvides[n] = {}
               /\ world.syncProvides[n] \cap world.local = {} /\ n \in world.sync
        <3>1. r = [name |-> n, db |-> Learn(d, n, "sync")]
            BY <2>2, <2>6 DEF search_databases, Found
        <3> DEFINE new == Learn(d, n, "sync")
        <3>2. /\ DbOK(new) /\ new.from[n] # "unknown" /\ new.downloaded = d.downloaded
              /\ \A x \in Names : d.from[x] # "unknown" => new.from[x] # "unknown"
            BY <2>6, LearnOK
        <3> HIDE DEF new
        <3>3. QED
            BY <1>4, <1>8, <2>1, <3>1, <3>2 DEF new
    <2>7. CASE /\ d.provided[n] = NULL /\ world.localProvides[n] = {}
               /\ world.syncProvides[n] \cap world.local = {} /\ n \notin world.sync
               /\ world.syncProvides[n] # {}
        <3> DEFINE p == FirstOf(world.syncProvides[n])
        <3>1. p \in world.syncProvides[n]
            BY <2>7 DEF FirstOf
        <3>2. p \in Names /\ p \in world.sync /\ Provides(p, n)
            BY <1>2, <3>1 DEF Provides
        <3>3. r = [name |-> p, db |-> Learn(Cache(d, n, p), p, "sync")]
            BY <2>2, <2>7 DEF search_databases, Found
        <3> HIDE DEF p
        <3> DEFINE new == Learn(Cache(d, n, p), p, "sync")
        <3>4. /\ DbOK(new) /\ new.from[p] # "unknown" /\ new.downloaded = d.downloaded
              /\ \A x \in Names : d.from[x] # "unknown" => new.from[x] # "unknown"
            BY <1>8, <3>2, CacheOK
        <3> HIDE DEF new
        <3>5. QED
            BY <1>4, <1>8, <2>1, <3>2, <3>3, <3>4 DEF new
    <2>8. CASE /\ d.provided[n] = NULL /\ world.localProvides[n] = {}
               /\ n \notin world.sync /\ world.syncProvides[n] = {}
        <3>1. r \in search_aur(d, n)
            BY <2>2, <2>8 DEF search_databases
        <3>2. \A p \in Databases : ~Satisfies(p, n)
            BY <1>8, <2>8 DEF Databases, Satisfies
        <3>3. Justified(n)
            BY <2>1, <3>2 DEF Justified
        <3>4. QED
            BY <1>8, <2>1, <3>1, <3>3, AurSearched
    <2>9. QED
        BY <2>3, <2>4, <2>5, <2>6, <2>7, <2>8
<1>9. QED
    BY <1>5, <1>6, <1>7, <1>8
-----------------------------------------------------------------------------
(* The steps of build_dep_graph.                                           *)

LEMMA RelationsOfTheWorld ==
    ASSUME InputsOK
    PROVE  /\ \A n \in Names : <<n, n>> \in Satisfying /\ <<n, n>> \in Standing
           /\ \A p, n \in Names : Provides(p, n) => <<p, n>> \in Satisfying
           /\ \A p, n \in Names : n \notin world.local /\ Provides(p, n) => <<p, n>> \in Standing
           /\ \A p, n \in Names : n \notin aur /\ p \in Databases /\ <<p, n>> \in Satisfying
                                     /\ n \in ToSet(targets) => n \in StoodFor
           /\ \A p, d \in Names : d \in ToSet(world.depends[p]) <=> <<p, d>> \in Depending
           /\ \A p, x, d \in Names : <<p, d>> \in Depending /\ <<x, d>> \in Satisfying
                                        => x \in WantedNames
           /\ \A n \in ToSet(targets) : n \in WantedNames
           /\ \A x \in WantedNames : x \in Names /\ Wanted(x)
           /\ \A n \in Names : world.depends[n] \in Seq(Names)
                                  /\ ToSet(world.depends[n]) \subseteq Names
           /\ ToSet(targets) \subseteq Names /\ ToSet(call) \subseteq ToSet(targets)
           /\ aur \subseteq Names /\ Databases \subseteq Names
           /\ \A n \in StoodFor : n \in ToSet(targets) /\ n \in Names /\ ~Justified(n)
<1>1. /\ world.local \subseteq Names /\ world.sync \subseteq Names
      /\ \A n \in Names : world.depends[n] \in Seq(Names)
    BY DEF InputsOK, WorldType
<1>2. \A n \in Names : ToSet(world.depends[n]) \subseteq Names
    BY <1>1, Members
<1>3. ToSet(targets) \subseteq Names /\ ToSet(call) \subseteq ToSet(targets)
    BY Members DEF InputsOK
<1>4. aur \subseteq Names /\ Databases \subseteq Names
    BY <1>1 DEF aur, Databases
<1>5. \A n \in Names : <<n, n>> \in Satisfying /\ <<n, n>> \in Standing
    BY DEF Satisfying, Satisfies, Standing
<1>6. \A p, n \in Names : Provides(p, n) => <<p, n>> \in Satisfying
    BY DEF Satisfying, Satisfies, Provides
<1>7. \A p, n \in Names : n \notin world.local /\ Provides(p, n) => <<p, n>> \in Standing
    BY ProvidersAreNames DEF Standing, aur
<1>8. \A p, n \in Names : n \notin aur /\ p \in Databases /\ <<p, n>> \in Satisfying
                                     /\ n \in ToSet(targets) => n \in StoodFor
    BY DEF StoodFor, Satisfying
<1>9. \A p, d \in Names : d \in ToSet(world.depends[p]) <=> <<p, d>> \in Depending
    BY DEF Depending, DependsOn
<1>10. \A p, x, d \in Names : <<p, d>> \in Depending /\ <<x, d>> \in Satisfying
                                 => x \in WantedNames
    BY DEF Depending, Satisfying, WantedNames, Wanted
<1>11. \A n \in ToSet(targets) : n \in WantedNames
    BY <1>3 DEF WantedNames, Wanted, Satisfies
<1>12. \A x \in WantedNames : x \in Names /\ Wanted(x)
    BY DEF WantedNames
<1>13. \A n \in StoodFor : n \in ToSet(targets) /\ n \in Names /\ ~Justified(n)
    BY <1>3 DEF StoodFor, Justified
<1>14. QED
    BY <1>1, <1>2, <1>3, <1>4, <1>5, <1>6, <1>7, <1>8, <1>9, <1>10, <1>11, <1>12, <1>13

\* The caller's data and what follows from them alone stay as they are.
LEMMA WorldKept ==
    ASSUME InputsOK, UNCHANGED <<world, lvl, targets>>
    PROVE  /\ aur' = aur /\ Databases' = Databases
           /\ Satisfying' = Satisfying /\ Depending' = Depending /\ Standing' = Standing
           /\ WantedNames' = WantedNames /\ StoodFor' = StoodFor /\ Keyable' = Keyable
           /\ DbOK(db') => DbOK(db)'
           /\ call' = call => InputsOK'
<1>1. aur' = aur /\ Databases' = Databases
    BY DEF aur, Databases
<1>2. Satisfying' = Satisfying /\ Depending' = Depending
    BY DEF Satisfying, Satisfies, Depending, DependsOn
<1>3. Standing' = Standing
    BY <1>1 DEF Standing, Provides
<1>4. WantedNames' = WantedNames
    BY DEF WantedNames, Wanted, Satisfies, DependsOn
<1>5. StoodFor' = StoodFor
    BY <1>1 DEF StoodFor, Satisfies
<1>6. Keyable' = Keyable
    BY <1>2, <1>5 DEF Keyable, Provides
<1>7. DbOK(db') => DbOK(db)'
    BY <1>1, <1>6 DEF DbOK, Justified, Wanted, Satisfies, DependsOn, Provides
<1>8. call' = call => InputsOK'
    BY DEF InputsOK
<1>9. QED
    BY <1>1, <1>2, <1>3, <1>4, <1>5, <1>6, <1>7, <1>8

\* What an entry that the array is the key of says of how it came about.
LEMMA KeyIsKeyable ==
    ASSUME InputsOK, DbOK(db), NEW n \in db.inBuf
    PROVE  \E d \in db.inBuf :
              /\ d \notin world.local /\ world.localProvides[d] \cup world.syncProvides[d] # {}
              /\ \E p \in Names : DependsOn(p, d) /\ ReadInDatabase(p)
<1>1. n \in Keyable
    BY DEF DbOK
<1>2. /\ n \notin world.local /\ world.localProvides[n] \cup world.syncProvides[n] # {}
    BY <1>1 DEF Keyable, Provides
<1>3. PICK p \in Names : /\ <<p, n>> \in Depending
                         /\ lvl = "thorough" \/ \E t \in StoodFor : <<p, t>> \in Satisfying
    BY <1>1 DEF Keyable
<1>4. DependsOn(p, n)
    BY <1>3 DEF Depending
<1>5. \A t \in StoodFor : t \in ToSet(targets) \ db.downloaded
    BY RelationsOfTheWorld DEF DbOK
<1>6. ReadInDatabase(p)
    BY <1>3, <1>5 DEF ReadInDatabase, Satisfying
<1>7. QED
    BY <1>2, <1>4, <1>6

LEMMA KeptBySkipResolved == ASSUME ResolverInv, SkipResolved PROVE ResolverInv'
<1> USE DEF ResolverInv
<1>1. UNCHANGED <<world, lvl, targets, call, db>>
    BY DEF SkipResolved, inputVars
<1>2. /\ UNCHANGED <<nodes, edges, resolved, cur, reading, todo, deps, pc, status>>
      /\ stack # <<>> /\ stack' = Front(stack) /\ Last(stack) \in resolved /\ pc = "pop"
    BY DEF SkipResolved, graphVars, depVars
<1>3. /\ stack' \in Seq(Names) /\ ToSet(stack) = ToSet(stack') \cup {Last(stack)}
    BY <1>2, Popped DEF TypesOK
<1>4. InputsOK' /\ DbOK(db)'
    BY <1>1, WorldKept
<1>5. TypesOK'
    BY <1>2, <1>3 DEF TypesOK
<1>6. StackInv'
    BY <1>1, <1>3, WorldKept DEF StackInv
<1>7. EdgesInv' /\ ResolvedInv'
    BY <1>1, <1>2, WorldKept DEF EdgesInv, ResolvedInv, HasEdge
<1>8. CurInv'
    BY <1>2 DEF CurInv, InWork
<1>9. WorkInv'
    BY <1>1, <1>2, <1>3, WorldKept DEF WorkInv, InWork, Working, Linking
<1>10. UndefinedOnlyThere'
    BY <1>2 DEF UndefinedOnlyThere, WorkInv
<1>11. QED
    BY <1>4, <1>5, <1>6, <1>7, <1>8, <1>9, <1>10

LEMMA KeptByDepsRead == ASSUME ResolverInv, DepsRead PROVE ResolverInv'
<1> USE DEF ResolverInv
<1>1. UNCHANGED <<world, lvl, targets, call, db>>
    BY DEF DepsRead, inputVars
<1>2. /\ UNCHANGED <<nodes, edges, stack, resolved, cur, reading, todo, deps, status>>
      /\ pc = "deps" /\ pc' = "link" /\ todo = <<>>
    BY DEF DepsRead, graphVars, depVars
<1>3. InputsOK' /\ DbOK(db)'
    BY <1>1, WorldKept
<1>4. TypesOK'
    BY <1>2 DEF TypesOK
<1>5. StackInv'
    BY <1>1, <1>2, WorldKept DEF StackInv
<1>6. EdgesInv' /\ ResolvedInv'
    BY <1>1, <1>2, WorldKept DEF EdgesInv, ResolvedInv, HasEdge
<1>7. CurInv'
    BY <1>1, <1>2, WorldKept DEF CurInv, InWork, CoveredBy, HasEdge
<1>8. WorkInv'
    BY <1>1, <1>2, WorldKept DEF WorkInv, InWork, Working, Linking
<1>9. UndefinedOnlyThere'
    BY <1>2 DEF UndefinedOnlyThere, WorkInv
<1>10. QED
    BY <1>3, <1>4, <1>5, <1>6, <1>7, <1>8, <1>9

LEMMA KeptByGraphBuilt == ASSUME ResolverInv, GraphBuilt PROVE ResolverInv'
<1> USE DEF ResolverInv
<1>1. UNCHANGED <<world, lvl, targets, call, db>>
    BY DEF GraphBuilt, inputVars
<1>2. /\ UNCHANGED <<nodes, edges, stack, resolved, cur, reading, todo, deps>>
      /\ pc = "pop" /\ pc' = "end" /\ status' = "ok" /\ stack = <<>>
    BY DEF GraphBuilt, graphVars, depVars, End
<1>3. InputsOK' /\ DbOK(db)'
    BY <1>1, WorldKept
<1>4. TypesOK'
    BY <1>2 DEF TypesOK
<1>5. StackInv'
    BY <1>1, <1>2, WorldKept DEF StackInv
<1>6. EdgesInv' /\ ResolvedInv'
    BY <1>1, <1>2, WorldKept DEF EdgesInv, ResolvedInv, HasEdge
<1>7. CurInv'
    BY <1>2 DEF CurInv, InWork
<1>8. WorkInv'
    BY <1>1, <1>2, WorldKept DEF WorkInv, InWork, Working, Linking
<1>9. UndefinedOnlyThere'
    BY <1>2 DEF UndefinedOnlyThere
<1>10. QED
    BY <1>3, <1>4, <1>5, <1>6, <1>7, <1>8, <1>9

LEMMA KeptByPackageDone == ASSUME ResolverInv, PackageDone PROVE ResolverInv'
<1> USE DEF ResolverInv
<1>1. UNCHANGED <<world, lvl, targets, call, db>>
    BY DEF PackageDone, inputVars
<1>2. /\ UNCHANGED <<nodes, edges, stack, cur, reading, todo, deps, status>>
      /\ pc = "link" /\ pc' = "pop" /\ deps = <<>> /\ resolved' = resolved \cup {cur}
    BY DEF PackageDone, graphVars, depVars
<1>3. InputsOK' /\ DbOK(db)'
    BY <1>1, WorldKept
<1>4. cur \in Names /\ todo = <<>> /\ status = "ok"
    BY <1>2 DEF CurInv, InWork, WorkInv
<1>5. ToSet(deps) = {} /\ ToSet(todo) = {}
    <2>1. deps \in Seq(Names \cup {NULL, DANGLING}) /\ todo \in Seq(Names)
        BY DEF TypesOK
    <2>2. ToSet(deps) = {}
        BY <1>2, <2>1, Members
    <2>3. ToSet(todo) = {}
        BY <1>4, <2>1, Members
    <2>4. QED
        BY <2>2, <2>3
<1>6. TypesOK'
    BY <1>2, <1>4 DEF TypesOK
<1>7. StackInv'
    BY <1>1, <1>2, WorldKept DEF StackInv
<1>8. EdgesInv'
    BY <1>1, <1>2, WorldKept DEF EdgesInv
<1>9. ResolvedInv'
    <2>1. PICK f \in Names : CoveredBy(f)
        BY <1>2 DEF CurInv, InWork
    <2>2. /\ <<f, cur>> \in Standing
          /\ \A d \in Names : <<f, d>> \in Depending => HasEdge(d, cur)
        BY <1>5, <2>1 DEF CoveredBy
    <2>3. \A p \in resolved' : \E g \in Names :
            <<g, p>> \in Standing /\ \A d \in Names : <<g, d>> \in Depending => HasEdge(d, p)
        BY <1>2, <2>2 DEF ResolvedInv
    <2>4. QED
        BY <1>1, <1>2, <2>3, WorldKept DEF ResolvedInv, HasEdge
<1>10. CurInv'
    BY <1>2 DEF CurInv, InWork
<1>11. WorkInv'
    BY <1>1, <1>2, <1>4, <1>5, WorldKept DEF WorkInv, InWork, Working, Linking
<1>12. UndefinedOnlyThere'
    BY <1>2, <1>4 DEF UndefinedOnlyThere
<1>13. QED
    BY <1>3, <1>6, <1>7, <1>8, <1>9, <1>10, <1>11, <1>12
\* What a step that calls normalize_package, and ends or goes on, does to the
\* tables.
LEMMA TablesKept ==
    ASSUME InputsOK, UNCHANGED <<world, lvl, targets>>, NEW n \in Names, n \in WantedNames,
           DbOK(db), NEW r \in normalize_package(db, n), db' = r.db
    PROVE  /\ Normal(db, n, r)
           /\ DbOK(db)' /\ DbOK(db')
           /\ db.downloaded \subseteq db'.downloaded /\ db'.downloaded \subseteq Names
<1>1. Normal(db, n, r)
    BY Normalized, RelationsOfTheWorld
<1>2. DbOK(db')
    BY <1>1 DEF Normal
<1>3. db'.downloaded \subseteq Names
    BY <1>2 DEF DbOK, DbType
<1>4. QED
    BY <1>1, <1>2, <1>3, WorldKept DEF Normal

LEMMA KeptByLinkBadPointer == ASSUME ResolverInv, LinkBadPointer PROVE ResolverInv'
<1> USE DEF ResolverInv
<1>1. UNCHANGED <<world, lvl, targets, call, db>>
    BY DEF LinkBadPointer, inputVars
<1>2. /\ UNCHANGED <<nodes, edges, stack, resolved, cur, reading, todo, deps>>
      /\ pc = "link" /\ pc' = "end" /\ status' = "undefined"
      /\ deps # <<>> /\ Head(deps) \in {NULL, DANGLING}
    BY DEF LinkBadPointer, graphVars, depVars, End
<1>3. InputsOK' /\ DbOK(db)'
    BY <1>1, WorldKept
<1>4. TypesOK'
    BY <1>2 DEF TypesOK
<1>5. StackInv'
    BY <1>1, <1>2, WorldKept DEF StackInv
<1>6. EdgesInv' /\ ResolvedInv'
    BY <1>1, <1>2, WorldKept DEF EdgesInv, ResolvedInv, HasEdge
<1>7. CurInv'
    BY <1>2 DEF CurInv, InWork
<1>8. WorkInv'
    BY <1>1, <1>2, WorldKept DEF WorkInv, InWork, Working, Linking
<1>9. Head(deps) \in ToSet(deps)
    BY <1>2, Shifted DEF TypesOK
<1>10. UndefinedOnlyThere'
    <2>1. CASE reading = "PKGBUILD"
        <3>1. NULL \in ToSet(deps)
            BY <1>2, <1>9, <2>1 DEF CurInv, InWork
        <3>2. QED
            BY <1>2, <2>1, <3>1 DEF UndefinedOnlyThere
    <2>2. CASE reading = "db"
        <3>1. lvl = "thorough" \/ cur \in StoodFor
            BY <1>2, <2>2 DEF CurInv, InWork, InputsOK, Levels
        <3>2. cur \in StoodFor => cur \in ToSet(targets) \ db.downloaded
            BY RelationsOfTheWorld DEF DbOK
        <3>3. DANGLING \in ToSet(deps)
            BY <1>2, <1>9, <2>2 DEF CurInv, InWork
        <3>4. QED
            BY <1>1, <1>2, <2>2, <3>1, <3>2, <3>3 DEF UndefinedOnlyThere
    <2>3. QED
        BY <2>1, <2>2 DEF TypesOK
<1>11. QED
    BY <1>3, <1>4, <1>5, <1>6, <1>7, <1>8, <1>10

\* What holds of the first of the dependencies that are to be normalized.
LEMMA NextDependency ==
    ASSUME ResolverInv, pc = "deps", todo # <<>>
    PROVE  /\ Head(todo) \in Names /\ Head(todo) \in WantedNames
           /\ Tail(todo) \in Seq(Names) /\ ToSet(todo) = ToSet(Tail(todo)) \cup {Head(todo)}
           /\ \A f \in Names : CoveredBy(f) => <<f, Head(todo)>> \in Depending
<1> USE DEF ResolverInv
<1>1. /\ Head(todo) \in Names /\ Tail(todo) \in Seq(Names)
      /\ ToSet(todo) = ToSet(Tail(todo)) \cup {Head(todo)}
    BY Shifted DEF TypesOK
<1>2. \A f \in Names : CoveredBy(f) => <<f, Head(todo)>> \in Depending
    BY <1>1 DEF CoveredBy
<1>3. Head(todo) \in WantedNames
    BY <1>1, <1>2, RelationsOfTheWorld DEF CurInv, InWork
<1>4. QED
    BY <1>1, <1>2, <1>3

LEMMA KeptByDbDepFails == ASSUME ResolverInv, DbDepFails PROVE ResolverInv'
<1> USE DEF ResolverInv
<1>1. UNCHANGED <<world, lvl, targets, call>>
    BY DEF DbDepFails, inputVars
<1>2. /\ UNCHANGED <<nodes, edges, stack, resolved, cur, reading, todo, deps>>
      /\ pc = "deps" /\ pc' = "end" /\ status' \in {"undefined", "error"}
      /\ reading = "db" /\ todo # <<>> /\ (status' = "undefined" => Contains(deps, DANGLING))
    BY DEF DbDepFails, graphVars, depVars, End
<1>3. PICK r \in normalize_package(db, Head(todo)) : db' = r.db
    BY DEF DbDepFails
<1>4. /\ DbOK(db)' /\ DbOK(db')
      /\ db.downloaded \subseteq db'.downloaded /\ db'.downloaded \subseteq Names
    BY <1>1, <1>2, <1>3, NextDependency, TablesKept
<1>5. InputsOK'
    BY <1>1, WorldKept
<1>6. TypesOK'
    BY <1>2 DEF TypesOK
<1>7. StackInv'
    BY <1>1, <1>2, <1>4, WorldKept DEF StackInv
<1>8. EdgesInv' /\ ResolvedInv'
    BY <1>1, <1>2, WorldKept DEF EdgesInv, ResolvedInv, HasEdge
<1>9. CurInv'
    BY <1>2 DEF CurInv, InWork
<1>10. WorkInv'
    BY <1>1, <1>2, WorldKept DEF WorkInv, InWork, Working, Linking
<1>11. UndefinedOnlyThere'
    <2>1. lvl = "thorough" \/ cur \in StoodFor
        BY <1>2 DEF CurInv, InWork, InputsOK, Levels
    <2>2. cur \in StoodFor => cur \in ToSet(targets) \ db'.downloaded
        BY <1>4, RelationsOfTheWorld DEF DbOK
    <2>3. status' = "undefined" => DANGLING \in ToSet(deps)
        BY <1>2, Members DEF Contains, TypesOK, ToSet
    <2>4. QED
        BY <1>1, <1>2, <2>1, <2>2, <2>3 DEF UndefinedOnlyThere
<1>12. QED
    BY <1>4, <1>5, <1>6, <1>7, <1>8, <1>9, <1>10, <1>11

\* The two actions that normalize a dependency: x, what comes to deps.
LEMMA KeptByNormalizing ==
    ASSUME ResolverInv, pc = "deps", todo # <<>>,
           UNCHANGED <<inputVars, graphVars, stack, resolved, cur, reading, pc, status>>,
           NEW r \in normalize_package(db, Head(todo)), todo' = Tail(todo),
           DbOK(r.db) => DbOK(db'), db'.from = r.db.from, db'.downloaded = r.db.downloaded,
           NEW x, deps' = Append(deps, x),
           \/ reading = "PKGBUILD" /\ x = r.name
           \/ /\ reading = "db" /\ r.name # NULL
              /\ x = IF r.name = Head(todo) THEN DANGLING ELSE r.name
    PROVE  ResolverInv'
<1> USE DEF ResolverInv
<1> DEFINE h == Head(todo)
<1>1. UNCHANGED <<world, lvl, targets, call>>
    BY DEF inputVars
<1>2. UNCHANGED <<nodes, edges>>
    BY DEF graphVars
<1>3. NULL \notin Names /\ DANGLING \notin Names /\ NULL # DANGLING
    BY ResolverAssumption
<1>4. /\ h \in Names /\ h \in WantedNames /\ todo' \in Seq(Names)
      /\ ToSet(todo) = ToSet(todo') \cup {h}
      /\ \A f \in Names : CoveredBy(f) => <<f, h>> \in Depending
    BY NextDependency
<1> HIDE DEF h
<1>5. /\ Normal(db, h, r) /\ DbOK(db)' /\ DbOK(db')
      /\ db.downloaded \subseteq db'.downloaded /\ db'.downloaded \subseteq Names
    <2>1. Normal(db, h, r)
        BY <1>4, Normalized, RelationsOfTheWorld DEF h
    <2>2. DbOK(db')
        BY <2>1 DEF Normal
    <2>3. db'.downloaded \subseteq Names /\ db.downloaded \subseteq db'.downloaded
        BY <2>1, <2>2 DEF DbOK, DbType, Normal
    <2>4. QED
        BY <1>1, <2>1, <2>2, <2>3, WorldKept
<1>6. /\ r.name \in Names \cup {NULL}
      /\ r.name # NULL => <<r.name, h>> \in Satisfying
    BY <1>4, <1>5, RelationsOfTheWorld DEF Normal
<1>7. x \in Names => x = r.name
    BY <1>3, <1>6 DEF h
<1>8. x \notin Names => x \in {NULL, DANGLING}
    BY <1>6 DEF h
<1>9. /\ deps' \in Seq(Names \cup {NULL, DANGLING})
      /\ ToSet(deps') = ToSet(deps) \cup {x}
    BY <1>8, Members DEF TypesOK
<1>10. InputsOK'
    BY <1>1, WorldKept
<1>11. TypesOK'
    BY <1>2, <1>4, <1>9 DEF TypesOK
<1>12. StackInv'
    BY <1>1, <1>5, WorldKept DEF StackInv
<1>13. EdgesInv' /\ ResolvedInv'
    BY <1>1, <1>2, WorldKept DEF EdgesInv, ResolvedInv, HasEdge
<1>14. CurInv'
    <2>1. cur \in Names
        BY DEF CurInv, InWork
    <2>2. PICK f \in Names : CoveredBy(f)
        BY DEF CurInv, InWork
    <2>3. <<f, h>> \in Depending
        BY <1>4, <2>2
    <2>4. /\ <<f, cur>> \in Standing'
          /\ \A d \in ToSet(todo') : <<f, d>> \in Depending'
        BY <1>1, <1>4, <2>2, WorldKept DEF CoveredBy
    <2>5. ASSUME NEW d \in Names, <<f, d>> \in Depending
          PROVE  \/ d \in ToSet(todo')
                 \/ \E y \in ToSet(deps') \cap Names : <<y, d>> \in Satisfying
                 \/ HasEdge(d, cur)
                 \/ NULL \in ToSet(deps') \/ DANGLING \in ToSet(deps')
        <3>1. CASE d = h
            BY <1>6, <1>7, <1>8, <1>9, <3>1
        <3>2. CASE d # h
            BY <1>4, <1>9, <2>2, <2>5, <3>2 DEF CoveredBy
        <3>3. QED
            BY <3>1, <3>2
    <2>6. \A y \in ToSet(deps') \cap Names :
            \E d \in Names : <<f, d>> \in Depending /\ <<y, d>> \in Satisfying
        <3> TAKE y \in ToSet(deps') \cap Names
        <3>1. CASE y \in ToSet(deps)
            BY <2>2, <3>1 DEF CoveredBy
        <3>2. CASE y = x
            BY <1>3, <1>4, <1>6, <1>7, <2>3, <3>2
        <3>3. QED
            BY <1>9, <3>1, <3>2
    <2>7. \E g \in Names :
            /\ <<g, cur>> \in Standing'
            /\ \A d \in ToSet(todo') : <<g, d>> \in Depending'
            /\ \A d \in Names : <<g, d>> \in Depending' =>
                  \/ d \in ToSet(todo')
                  \/ \E y \in ToSet(deps') \cap Names : <<y, d>> \in Satisfying'
                  \/ \E y \in Names : <<y, d>> \in Satisfying' /\ <<y, cur>> \in edges
                  \/ NULL \in ToSet(deps') \/ DANGLING \in ToSet(deps')
            /\ \A y \in ToSet(deps') \cap Names :
                  \E d \in Names : <<g, d>> \in Depending' /\ <<y, d>> \in Satisfying'
        <3> WITNESS f \in Names
        <3> QED
            BY <1>1, <2>4, <2>5, <2>6, WorldKept DEF HasEdge
    <2>8. \A y \in ToSet(deps') \cap Names : db'.from[y] # "unknown"
        BY <1>3, <1>5, <1>7, <1>9 DEF CurInv, InWork, Normal
    <2>9. /\ reading = "PKGBUILD" => DANGLING \notin ToSet(deps')
          /\ reading = "db" => NULL \notin ToSet(deps')
        BY <1>3, <1>6, <1>9 DEF CurInv, InWork
    <2>10. reading = "db" /\ lvl = "immediate" => cur \in StoodFor'
        BY <1>1, WorldKept DEF CurInv, InWork
    <2>11. QED
        BY <1>1, <1>2, <2>1, <2>7, <2>8, <2>9, <2>10 DEF CurInv, CoveredBy, HasEdge
<1>15. WorkInv'
    <2>1. \/ db'.downloaded \subseteq db.downloaded
          \/ db'.downloaded \subseteq db.downloaded \cup {h} /\ x \in {h, DANGLING}
        BY <1>5, <1>7 DEF Normal, h
    <2>2. aur' = aur
        BY <1>1, WorldKept
    <2>3. QED
        BY <1>1, <1>2, <1>5, <1>9, <2>1, <2>2 DEF WorkInv, InWork, Working, Linking
<1>16. UndefinedOnlyThere'
    BY DEF UndefinedOnlyThere, WorkInv
<1>17. QED
    BY <1>5, <1>10, <1>11, <1>12, <1>13, <1>14, <1>15, <1>16

LEMMA KeptByNormalizeDep == ASSUME ResolverInv, NormalizeDep PROVE ResolverInv'
<1>1. PICK r \in normalize_package(db, Head(todo)) : db' = r.db /\ deps' = Append(deps, r.name)
    BY DEF NormalizeDep
<1>2. QED
    BY <1>1, KeptByNormalizing DEF NormalizeDep

\* The array becomes the key of an entry.
LEMMA ArrayKeyed ==
    ASSUME NEW d, DbOK(d), NEW before, NEW n \in Names,
           before.provided[n] = NULL /\ d.provided[n] # NULL => n \in Keyable
    PROVE  /\ DbOK(KeyedByArray(d, before, n))
           /\ KeyedByArray(d, before, n).from = d.from
           /\ KeyedByArray(d, before, n).downloaded = d.downloaded
<1> DEFINE new == KeyedByArray(d, before, n)
<1>1. d \in DbType
    BY DEF DbOK
<1>2. /\ new \in DbType /\ new.from = d.from /\ new.downloaded = d.downloaded
      /\ new.provided = d.provided /\ new.fetches = d.fetches
      /\ new.inBuf = IF before.provided[n] = NULL /\ d.provided[n] # NULL
                     THEN d.inBuf \cup {n} ELSE d.inBuf
    BY <1>1 DEF KeyedByArray, DbType
<1> HIDE DEF new
<1>3. DbOK(new)
    BY <1>2 DEF DbOK
<1>4. QED
    BY <1>2, <1>3 DEF new

LEMMA KeptByNormalizeDbDep == ASSUME ResolverInv, NormalizeDbDep PROVE ResolverInv'
<1> DEFINE n == Head(todo)
<1>1. PICK r \in normalize_package(db, n) :
        /\ db' = KeyedByArray(r.db, db, n) /\ r.name # NULL
        /\ deps' = Append(deps, IF r.name = n THEN DANGLING ELSE r.name)
    BY DEF NormalizeDbDep
<1>2. /\ pc = "deps" /\ reading = "db" /\ todo # <<>> /\ todo' = Tail(todo)
      /\ UNCHANGED <<inputVars, graphVars, stack, resolved, cur, reading, pc, status>>
    BY DEF NormalizeDbDep
<1>3. /\ n \in Names /\ n \in WantedNames
      /\ \A f \in Names : CoveredBy(f) => <<f, n>> \in Depending
    BY <1>2, NextDependency
<1> HIDE DEF n
<1>4. PICK f \in Names : CoveredBy(f)
    BY <1>2 DEF ResolverInv, CurInv, InWork
<1>5. /\ cur \in Names /\ <<f, cur>> \in Satisfying /\ <<f, n>> \in Depending
      /\ lvl = "thorough" \/ cur \in StoodFor
    <2>1. /\ cur \in Names /\ <<f, cur>> \in Standing
          /\ lvl = "thorough" \/ cur \in StoodFor
        BY <1>2, <1>4 DEF ResolverInv, CurInv, InWork, InputsOK, Levels, CoveredBy
    <2>2. <<f, cur>> \in Satisfying
        BY <1>4, <2>1 DEF Standing, Satisfying, Satisfies, Provides
    <2>3. QED
        BY <1>3, <1>4, <2>1, <2>2
<1>6. ASSUME DbOK(r.db), r.db.provided[n] # NULL PROVE n \in Keyable
    <2>1. n \notin world.local /\ Provides(r.db.provided[n], n)
        BY <1>3, <1>6 DEF DbOK
    <2>2. r.db.provided[n] \in Names
        BY <1>3, <1>6 DEF DbOK, DbType
    <2>3. QED
        BY <1>3, <1>4, <1>5, <2>1, <2>2 DEF Keyable
<1>7. DbOK(r.db)
    BY <1>1, <1>3, Normalized, RelationsOfTheWorld DEF ResolverInv, Normal
<1>8. DbOK(db') /\ db'.from = r.db.from /\ db'.downloaded = r.db.downloaded
    BY <1>1, <1>3, <1>6, <1>7, ArrayKeyed
<1> DEFINE x == IF r.name = n THEN DANGLING ELSE r.name
<1>9. deps' = Append(deps, x)
    BY <1>1
<1>10. QED
    BY <1>1, <1>2, <1>8, <1>9, KeptByNormalizing DEF n

\* build_dep_graph ends before it has done anything, or where it reads a key
\* that is no more: the tables and the graph stay as they are.
LEMMA KeptByStopping ==
    ASSUME ResolverInv, UNCHANGED <<inputVars, db, graphVars, stack, resolved, depVars>>,
           pc' = "end", status' \in {"error", "undefined"}, UndefinedOnlyThere'
    PROVE  ResolverInv'
<1> USE DEF ResolverInv
<1>1. /\ UNCHANGED <<world, lvl, targets, call, db, nodes, edges>>
      /\ UNCHANGED <<stack, resolved, cur, reading, todo, deps>>
    BY DEF inputVars, graphVars, depVars
<1>2. InputsOK' /\ DbOK(db)'
    BY <1>1, WorldKept
<1>3. TypesOK'
    BY <1>1 DEF TypesOK
<1>4. StackInv'
    BY <1>1, WorldKept DEF StackInv
<1>5. ResolvedInv'
    BY <1>1, WorldKept DEF ResolvedInv, HasEdge
<1>6. EdgesInv'
    BY <1>1, WorldKept DEF EdgesInv
<1>7. CurInv'
    BY DEF CurInv, InWork
<1>8. WorkInv'
    BY <1>1 DEF WorkInv
<1>9. QED
    BY <1>2, <1>3, <1>4, <1>5, <1>6, <1>7, <1>8

LEMMA KeptByCurlFails == ASSUME ResolverInv, CurlFails PROVE ResolverInv'
<1>1. UndefinedOnlyThere'
    BY DEF CurlFails, End, UndefinedOnlyThere
<1>2. QED
    BY <1>1, KeptByStopping DEF CurlFails, End

LEMMA KeptByReadsDeadKey == ASSUME ResolverInv, ReadsDeadKey PROVE ResolverInv'
<1>1. /\ UNCHANGED <<inputVars, db, graphVars, stack, resolved, depVars>>
      /\ pc' = "end" /\ status' = "undefined"
      /\ \E n : n \in db.inBuf
    BY DEF ReadsDeadKey, End, ComparesWithArray
<1>2. UndefinedOnlyThere'
    <2>1. PICK n : n \in db.inBuf
        BY <1>1
    <2>2. \E d \in db.inBuf :
              /\ d \notin world.local /\ world.localProvides[d] \cup world.syncProvides[d] # {}
              /\ \E p \in Names : DependsOn(p, d) /\ ReadInDatabase(p)
        BY <2>1, KeyIsKeyable DEF ResolverInv
    <2>3. UNCHANGED <<world, lvl, targets, db>>
        BY <1>1 DEF inputVars
    <2>4. ASSUME NEW d, NEW p, DependsOn(p, d) PROVE DependsOn(p, d)'
        BY <2>3, <2>4 DEF DependsOn
    <2>5. ASSUME NEW p, ReadInDatabase(p) PROVE ReadInDatabase(p)'
        <3>1. \A t : Satisfies(p, t) => Satisfies(p, t)'
            BY <2>3 DEF Satisfies
        <3>2. QED
            BY <2>3, <2>5, <3>1 DEF ReadInDatabase
    <2>6. PICK d \in db.inBuf, p \in Names :
              /\ d \notin world.local /\ world.localProvides[d] \cup world.syncProvides[d] # {}
              /\ DependsOn(p, d) /\ ReadInDatabase(p)
        BY <2>2
    <2>7. /\ d \in db'.inBuf /\ d \notin world'.local
          /\ world'.localProvides[d] \cup world'.syncProvides[d] # {}
          /\ DependsOn(p, d)' /\ ReadInDatabase(p)'
        BY <2>3, <2>4, <2>5, <2>6
    <2>8. QED
        BY <1>1, <2>7 DEF UndefinedOnlyThere
<1>3. QED
    BY <1>1, <1>2, KeptByStopping
LEMMA KeptByLink == ASSUME ResolverInv, Link PROVE ResolverInv'
<1> USE DEF ResolverInv
<1> DEFINE h == Head(deps)
<1>1. UNCHANGED <<world, lvl, targets, call>>
    BY DEF Link, inputVars
<1>2. /\ UNCHANGED <<resolved, cur, reading, todo, pc, status>>
      /\ pc = "link" /\ deps # <<>> /\ h \in Names /\ deps' = Tail(deps)
      /\ nodes' = nodes \cup {h, cur} /\ edges' = edges \cup {<<h, cur>>}
    BY DEF Link
<1>3. NULL \notin Names /\ DANGLING \notin Names
    BY ResolverAssumption
<1>4. deps' \in Seq(Names \cup {NULL, DANGLING}) /\ ToSet(deps) = ToSet(deps') \cup {h}
    BY <1>2, Shifted DEF TypesOK
<1>5. PICK r \in IF lvl = "immediate" THEN normalize_package(db, h) ELSE Found(h, db) :
        /\ db' = r.db
        /\ stack' = IF Continues(r.db, r.name) THEN Append(stack, h) ELSE stack
    BY DEF Link
<1> HIDE DEF h
<1>6. PICK f \in Names : CoveredBy(f)
    BY <1>2 DEF CurInv, InWork
<1>7. PICK d \in Names : <<f, d>> \in Depending /\ <<h, d>> \in Satisfying
    BY <1>2, <1>4, <1>6 DEF CoveredBy
<1>8. cur \in Names /\ <<f, cur>> \in Standing /\ status = "ok" /\ todo = <<>>
    BY <1>2, <1>6 DEF CurInv, InWork, CoveredBy, WorkInv
<1>9. h \in WantedNames /\ db.from[h] # "unknown"
    BY <1>2, <1>4, <1>7, RelationsOfTheWorld DEF CurInv, InWork
<1>10. /\ DbOK(db)' /\ DbOK(db')
       /\ db.downloaded \subseteq db'.downloaded /\ db'.downloaded \subseteq Names
       /\ db'.downloaded \subseteq db.downloaded \cup {h}
       /\ \A x \in Names : db.from[x] # "unknown" => db'.from[x] # "unknown"
       /\ h \in db'.downloaded <=> r.name \in db'.downloaded
    <2>1. CASE lvl = "immediate"
        <3>1. /\ Normal(db, h, r) /\ DbOK(db)' /\ DbOK(db')
              /\ db.downloaded \subseteq db'.downloaded /\ db'.downloaded \subseteq Names
            BY <1>1, <1>2, <1>5, <1>9, <2>1, TablesKept
        <3>2. /\ db'.downloaded = db.downloaded \/ (db'.downloaded = db.downloaded \cup {h} /\ r.name = h)
              /\ \A x \in Names : db.from[x] # "unknown" => db'.from[x] # "unknown"
              /\ r.name \in {h, NULL} /\ (h \in db.downloaded => r.name = h)
            BY <1>5, <1>9, <3>1 DEF Normal
        <3>3. QED
            BY <1>3, <3>1, <3>2
    <2>2. CASE lvl # "immediate"
        <3>1. r = [name |-> h, db |-> db]
            BY <1>5, <2>2 DEF Found
        <3>2. r.name = h /\ db' = db
            BY <1>5, <3>1
        <3>3. DbOK(db')
            BY <3>2
        <3>4. DbOK(db)' /\ db.downloaded \subseteq Names
            BY <1>1, <3>3, WorldKept DEF DbOK, DbType
        <3>5. QED
            BY <3>2, <3>3, <3>4
    <2>3. QED
        BY <2>1, <2>2
<1>11. /\ stack' \in Seq(Names)
       /\ ToSet(stack') = IF lvl = "thorough" \/ h \in db'.downloaded
                          THEN ToSet(stack) \cup {h} ELSE ToSet(stack)
    <2>1. Continues(r.db, r.name) <=> lvl = "thorough" \/ h \in db'.downloaded
        BY <1>5, <1>10 DEF Continues
    <2>2. stack \in Seq(Names)
        BY DEF TypesOK
    <2>3. ToSet(Append(stack, h)) = ToSet(stack) \cup {h} /\ Append(stack, h) \in Seq(Names)
        BY <1>2, <2>2, Members
    <2>4. QED
        BY <1>5, <2>1, <2>2, <2>3
<1>12. InputsOK'
    BY <1>1, WorldKept
<1>13. TypesOK'
    BY <1>2, <1>4, <1>8, <1>11 DEF TypesOK
<1>14. StackInv'
    BY <1>1, <1>9, <1>10, <1>11, WorldKept DEF StackInv
<1>15. EdgesInv'
    <2>1. <<f, cur>> \in Satisfying
        BY <1>6, <1>8 DEF Standing, Satisfying, Satisfies, Provides
    <2>2. ASSUME NEW e \in edges'
          PROVE  /\ e[2] \in resolved \/ e[2] = cur
                 /\ \E g, c \in Names : /\ <<g, e[2]>> \in Satisfying /\ <<g, c>> \in Depending
                                        /\ <<e[1], c>> \in Satisfying
        <3>1. CASE e \in edges
            BY <3>1 DEF EdgesInv
        <3>2. CASE e = <<h, cur>>
            <4>1. e[1] = h /\ e[2] = cur
                BY <3>2
            <4>2. QED
                BY <1>6, <1>7, <2>1, <4>1
        <3>3. QED
            BY <1>2, <3>1, <3>2
    <2>3. QED
        BY <1>1, <1>2, <2>2, WorldKept DEF EdgesInv
<1>16. \A c, p \in Names : HasEdge(c, p) =>
          \E x \in Names : <<x, c>> \in Satisfying' /\ <<x, p>> \in edges'
    BY <1>1, <1>2, WorldKept DEF HasEdge
<1>17. ResolvedInv'
    <2>1. ASSUME NEW p \in resolved'
          PROVE  \E g \in Names :
                    /\ <<g, p>> \in Standing'
                    /\ \A c \in Names : <<g, c>> \in Depending' =>
                          \E x \in Names : <<x, c>> \in Satisfying' /\ <<x, p>> \in edges'
        <3>1. p \in Names /\ p \in resolved
            BY <1>2 DEF TypesOK
        <3>2. PICK g \in Names : /\ <<g, p>> \in Standing
                                 /\ \A c \in Names : <<g, c>> \in Depending => HasEdge(c, p)
            BY <3>1 DEF ResolvedInv
        <3>3. QED
            BY <1>1, <1>16, <3>1, <3>2, WorldKept
    <2>2. QED
        BY <2>1 DEF ResolvedInv, HasEdge
<1>18. CurInv'
    <2>1. <<h, d>> \in Satisfying /\ <<h, cur>> \in edges'
        BY <1>2, <1>7
    <2>2. ASSUME NEW c \in Names, <<f, c>> \in Depending
          PROVE  \/ \E x \in ToSet(deps') \cap Names : <<x, c>> \in Satisfying
                 \/ \E x \in Names : <<x, c>> \in Satisfying /\ <<x, cur>> \in edges'
                 \/ NULL \in ToSet(deps') \/ DANGLING \in ToSet(deps')
        <3>1. ToSet(todo) = {}
            BY <1>8, Members DEF TypesOK
        <3>2. CASE \E x \in ToSet(deps) \cap Names : <<x, c>> \in Satisfying
            BY <1>2, <1>4, <3>2
        <3>3. CASE HasEdge(c, cur)
            BY <1>2, <3>3 DEF HasEdge
        <3>4. CASE NULL \in ToSet(deps) \/ DANGLING \in ToSet(deps)
            BY <1>2, <1>3, <1>4, <3>4
        <3>5. QED
            BY <1>6, <2>2, <3>1, <3>2, <3>3, <3>4 DEF CoveredBy
    <2>3. \E g \in Names :
            /\ <<g, cur>> \in Standing'
            /\ \A c \in ToSet(todo) : <<g, c>> \in Depending'
            /\ \A c \in Names : <<g, c>> \in Depending' =>
                  \/ c \in ToSet(todo)
                  \/ \E y \in ToSet(deps') \cap Names : <<y, c>> \in Satisfying'
                  \/ \E y \in Names : <<y, c>> \in Satisfying' /\ <<y, cur>> \in edges'
                  \/ NULL \in ToSet(deps') \/ DANGLING \in ToSet(deps')
            /\ \A y \in ToSet(deps') \cap Names :
                  \E c \in Names : <<g, c>> \in Depending' /\ <<y, c>> \in Satisfying'
        <3> WITNESS f \in Names
        <3>1. /\ <<f, cur>> \in Standing
              /\ \A c \in ToSet(todo) : <<f, c>> \in Depending
              /\ \A y \in ToSet(deps') \cap Names :
                    \E c \in Names : <<f, c>> \in Depending /\ <<y, c>> \in Satisfying
            BY <1>4, <1>6 DEF CoveredBy
        <3>2. QED
            BY <1>1, <2>2, <3>1, WorldKept
    <2>4. /\ \A x \in ToSet(deps') \cap Names : db'.from[x] # "unknown"
          /\ reading = "PKGBUILD" => DANGLING \notin ToSet(deps')
          /\ reading = "db" => NULL \notin ToSet(deps')
          /\ reading = "db" /\ lvl = "immediate" => cur \in StoodFor'
        BY <1>1, <1>2, <1>4, <1>10, WorldKept DEF CurInv, InWork
    <2>5. QED
        BY <1>1, <1>2, <1>8, <2>3, <2>4 DEF CurInv, CoveredBy, HasEdge
<1>19. WorkInv'
    <2>1. aur' = aur
        BY <1>1, WorldKept
    <2>2. DANGLING \in ToSet(deps) => DANGLING \in ToSet(deps')
        BY <1>2, <1>3, <1>4
    <2>3. ToSet(stack) \subseteq ToSet(stack')
        BY <1>11
    <2>4. lvl = "thorough" => nodes' \subseteq ToSet(stack') \cup resolved \cup {cur}
        BY <1>2, <1>8, <1>11 DEF WorkInv, InWork, Working
    <2>5. lvl = "immediate" =>
             \/ db'.downloaded \subseteq ToSet(stack') \cup resolved \cup {cur} \cup ToSet(deps')
             \/ DANGLING \in ToSet(deps')
        BY <1>2, <1>4, <1>8, <1>10, <1>11, <2>2, <2>3 DEF WorkInv, InWork, Working, Linking
    <2>6. QED
        BY <1>1, <1>2, <1>8, <1>10, <2>1, <2>3, <2>4, <2>5 DEF WorkInv, InWork, Working, Linking
<1>20. UndefinedOnlyThere'
    BY <1>2, <1>8 DEF UndefinedOnlyThere
<1>21. QED
    BY <1>10, <1>12, <1>13, <1>14, <1>15, <1>17, <1>18, <1>19, <1>20
\* crawl_resolve's beginning fails: the graph stays as it is.
LEMMA KeptByFailing ==
    ASSUME ResolverInv, pc = "pop", stack # <<>>, stack' = Front(stack), cur' = Last(stack),
           deps' = <<>>, UNCHANGED <<inputVars, graphVars, resolved, reading, todo>>,
           DbOK(db)', db.downloaded \subseteq db'.downloaded,
           pc' = "end", status' = "error"
    PROVE  ResolverInv'
<1> USE DEF ResolverInv
<1>1. UNCHANGED <<world, lvl, targets, call, nodes, edges, resolved>>
    BY DEF inputVars, graphVars
<1>2. /\ stack' \in Seq(Names) /\ Last(stack) \in Names
      /\ ToSet(stack) = ToSet(stack') \cup {Last(stack)}
    BY Popped DEF TypesOK
<1>3. InputsOK'
    BY <1>1, WorldKept
<1>4. TypesOK'
    BY <1>1, <1>2, EmptySeq DEF TypesOK
<1>5. StackInv'
    BY <1>1, <1>2, WorldKept DEF StackInv
<1>6. EdgesInv' /\ ResolvedInv'
    BY <1>1, WorldKept DEF EdgesInv, ResolvedInv, HasEdge
<1>7. CurInv'
    BY DEF CurInv, InWork
<1>8. WorkInv'
    BY <1>1 DEF WorkInv
<1>9. UndefinedOnlyThere'
    BY DEF UndefinedOnlyThere
<1>10. QED
    BY <1>3, <1>4, <1>5, <1>6, <1>7, <1>8, <1>9

\* The dependencies of f are read, to be those of the package n.
LEMMA KeptByReading ==
    ASSUME ResolverInv, pc = "pop", stack # <<>>, stack' = Front(stack), cur' = Last(stack),
           deps' = <<>>, UNCHANGED <<inputVars, graphVars, resolved, status>>,
           NEW r \in normalize_package(db, Last(stack)), r.name # NULL, db' = r.db,
           reading' \in {"db", "PKGBUILD"}, todo' = world.depends[r.name], pc' = "deps",
           reading' = "db" => \/ r.db.from[r.name] = "local" \/ r.db.from[r.name] = "sync"
                              \/ UpToDate(r.name)
    PROVE  ResolverInv'
<1> USE DEF ResolverInv
<1> DEFINE n == Last(stack)
           f == r.name
<1>1. UNCHANGED <<world, lvl, targets, call, nodes, edges, resolved, status>>
    BY DEF inputVars, graphVars
<1>2. /\ stack' \in Seq(Names) /\ n \in Names /\ ToSet(stack) = ToSet(stack') \cup {n}
    BY Popped DEF TypesOK
<1>3. n \in WantedNames /\ (lvl = "immediate" => n \in ToSet(targets) \cup db.downloaded)
    BY <1>2 DEF StackInv
<1>4. /\ Normal(db, n, r) /\ DbOK(db)' /\ DbOK(db')
      /\ db.downloaded \subseteq db'.downloaded /\ db'.downloaded \subseteq Names
    BY <1>1, <1>2, <1>3, TablesKept
<1>5. cur' = n /\ todo' = world.depends[f] /\ r.db = db'
    OBVIOUS
<1> HIDE DEF n, f
<1>6. /\ f \in Names
      /\ f = n \/ (n \notin world.local /\ Provides(f, n))
      /\ n \in db.downloaded => f = n
    BY <1>4 DEF Normal, f
<1>7. <<f, n>> \in Standing
    BY <1>2, <1>6, RelationsOfTheWorld
<1>8. /\ todo' \in Seq(Names) /\ ToSet(todo') \subseteq Names
      /\ \A d \in Names : d \in ToSet(todo') <=> <<f, d>> \in Depending
    BY <1>5, <1>6, RelationsOfTheWorld
<1>9. ToSet(<<>>) = {} /\ deps' = <<>>
    BY EmptySeq, Members
<1>10. InputsOK'
    BY <1>1, WorldKept
<1>11. TypesOK'
    <2>1. deps' \in Seq(Names \cup {NULL, DANGLING})
        BY <1>9, EmptySeq
    <2>2. QED
        BY <1>1, <1>2, <1>5, <1>8, <2>1 DEF TypesOK
<1>12. StackInv'
    BY <1>1, <1>2, <1>4, WorldKept DEF StackInv
<1>13. EdgesInv' /\ ResolvedInv'
    BY <1>1, WorldKept DEF EdgesInv, ResolvedInv, HasEdge
<1>14. CurInv'
    <2>1. ASSUME reading' = "db", lvl = "immediate" PROVE n \in StoodFor
        <3>1. CASE f = n
            <4>1. ~UpToDate(f)
                <5>1. n \in db.downloaded => Justified(n)
                    BY <1>2 DEF DbOK
                <5>2. QED
                    BY <1>3, <2>1, <3>1, <5>1 DEF UpToDate, aur_outdated, Justified
            <4>2. n \in world.local \cup world.sync /\ n \notin aur /\ n \notin db.downloaded
                BY <1>2, <1>4, <1>5, <2>1, <3>1, <4>1 DEF DbOK, f
            <4>3. n \in Databases /\ n \in ToSet(targets)
                BY <1>3, <2>1, <4>2 DEF Databases
            <4>4. QED
                BY <1>2, <4>2, <4>3, RelationsOfTheWorld
        <3>2. CASE f # n
            <4>1. /\ n \notin aur /\ n \in ToSet(targets) /\ f \in Databases
                  /\ <<f, n>> \in Satisfying
                BY <1>2, <1>3, <1>6, <2>1, <3>2, ProvidersAreNames, RelationsOfTheWorld DEF aur
            <4>2. QED
                BY <1>2, <1>6, <4>1, RelationsOfTheWorld
        <3>3. QED
            BY <3>1, <3>2
    <2>2. /\ \A x \in ToSet(deps') \cap Names : db'.from[x] # "unknown"
          /\ reading' = "PKGBUILD" => DANGLING \notin ToSet(deps')
          /\ reading' = "db" => NULL \notin ToSet(deps')
          /\ \A x \in ToSet(deps') \cap Names :
                \E d \in Names : <<f, d>> \in Depending' /\ <<x, d>> \in Satisfying'
        BY <1>9
    <2>3. /\ <<f, n>> \in Standing' /\ \A d \in ToSet(todo') : <<f, d>> \in Depending'
          /\ \A d \in Names : <<f, d>> \in Depending' => d \in ToSet(todo')
        BY <1>1, <1>6, <1>7, <1>8, WorldKept
    <2>4. CoveredBy(f)'
        BY <1>5, <2>2, <2>3 DEF CoveredBy
    <2>5. reading' = "db" /\ lvl' = "immediate" => n \in StoodFor'
        BY <1>1, <2>1, WorldKept
    <2>6. QED
        BY <1>2, <1>5, <1>6, <2>2, <2>4, <2>5 DEF CurInv
<1>15. WorkInv'
    <2>1. aur' = aur
        BY <1>1, WorldKept
    <2>2. db'.downloaded \subseteq db.downloaded \cup {n}
        BY <1>4 DEF Normal
    <2>3. (lvl = "immediate" /\ n \in aur \cap ToSet(targets)) => n \in db'.downloaded
        BY <1>4 DEF Normal
    <2>4. ToSet(call) \subseteq ToSet(stack') \cup resolved \cup {n}
        BY <1>2 DEF WorkInv, InWork, Working
    <2>5. lvl = "thorough" => nodes \subseteq ToSet(stack') \cup resolved \cup {n}
        BY <1>2 DEF WorkInv, InWork, Working
    <2>6. lvl = "immediate" =>
            /\ db'.downloaded \subseteq ToSet(stack') \cup resolved \cup {n}
            /\ (resolved \cup {n}) \cap aur \cap ToSet(targets) \subseteq db'.downloaded
        BY <1>2, <1>4, <2>2, <2>3 DEF WorkInv, InWork, Working, Linking
    <2>7. status = "ok" /\ (lvl = "immediate" => ToSet(targets) \subseteq nodes)
        BY DEF WorkInv
    <2>8. QED
        BY <1>1, <1>5, <2>1, <2>4, <2>5, <2>6, <2>7 DEF WorkInv, InWork, Working, Linking
<1>16. UndefinedOnlyThere'
    BY <1>1 DEF UndefinedOnlyThere, WorkInv
<1>17. QED
    BY <1>4, <1>10, <1>11, <1>12, <1>13, <1>14, <1>15, <1>16

LEMMA KeptByResolve == ASSUME ResolverInv, Resolve PROVE ResolverInv'
<1> USE DEF ResolverInv
<1> DEFINE n == Last(stack)
<1>1. /\ pc = "pop" /\ stack # <<>> /\ stack' = Front(stack) /\ cur' = n /\ deps' = <<>>
      /\ UNCHANGED <<inputVars, graphVars, resolved>> /\ status = "ok"
    BY DEF Resolve, WorkInv
<1>2. UNCHANGED <<world, lvl, targets>>
    BY <1>1 DEF inputVars
<1>3. n \in Names /\ n \in WantedNames
    BY <1>1, Popped DEF TypesOK, StackInv
<1>4. PICK r \in normalize_package(db, n) :
        /\ db' = r.db
        /\ \/ r.name = NULL /\ End("error") /\ UNCHANGED <<reading, todo>>
           \/ /\ r.name # NULL
              /\ \/ /\ db'.from[r.name] = "unknown"
                    /\ End("died")
                    /\ UNCHANGED <<reading, todo>>
                 \/ db'.from[r.name] = "local" /\ ReadDatabase(r.name, world.local)
                 \/ db'.from[r.name] = "sync" /\ ReadDatabase(r.name, world.sync)
                 \/ db'.from[r.name] = "aur" /\ ReadAur(r.name)
    BY DEF Resolve
<1>5. /\ Normal(db, n, r) /\ DbOK(db)' /\ DbOK(db')
      /\ db.downloaded \subseteq db'.downloaded
    BY <1>2, <1>3, <1>4, TablesKept
<1>6. ASSUME End("error"), UNCHANGED <<reading, todo>> PROVE ResolverInv'
    BY <1>1, <1>5, <1>6, KeptByFailing DEF End
<1>7. ASSUME r.name # NULL, reading' \in {"db", "PKGBUILD"}, todo' = world.depends[r.name],
             pc' = "deps", UNCHANGED status,
             reading' = "db" => \/ r.db.from[r.name] = "local" \/ r.db.from[r.name] = "sync"
                                \/ UpToDate(r.name)
      PROVE  ResolverInv'
    BY <1>1, <1>4, <1>7, KeptByReading
<1>8. CASE r.name = NULL
    BY <1>4, <1>6, <1>8
<1>9. CASE r.name # NULL
    <2>1. r.name \in Names /\ db'.from[r.name] # "unknown"
        BY <1>4, <1>5, <1>9 DEF Normal
    <2>2. CASE db'.from[r.name] = "local" /\ ReadDatabase(r.name, world.local)
        <3>1. r.name \in world.local
            BY <1>5, <2>1, <2>2 DEF DbOK
        <3>2. QED
            BY <1>4, <1>7, <1>9, <2>2, <3>1 DEF ReadDatabase
    <2>3. CASE db'.from[r.name] = "sync" /\ ReadDatabase(r.name, world.sync)
        <3>1. r.name \in world.sync
            BY <1>5, <2>1, <2>3 DEF DbOK
        <3>2. QED
            BY <1>4, <1>7, <1>9, <2>3, <3>1 DEF ReadDatabase
    <2>4. CASE db'.from[r.name] = "aur" /\ ReadAur(r.name)
        <3>1. CASE UpToDate(r.name)
            <4>1. r.name \in aur
                BY <3>1 DEF UpToDate
            <4>2. ReadDatabase(r.name, aur)
                BY <2>4, <3>1 DEF ReadAur
            <4>3. QED
                BY <1>7, <1>9, <3>1, <4>1, <4>2 DEF ReadDatabase
        <3>2. CASE ~UpToDate(r.name) /\ todo' = world.depends[r.name]
                        /\ reading' = "PKGBUILD" /\ pc' = "deps" /\ UNCHANGED status
            BY <1>7, <1>9, <3>2
        <3>3. CASE ~UpToDate(r.name) /\ End("error") /\ UNCHANGED <<reading, todo>>
            BY <1>6, <3>3
        <3>4. QED
            BY <2>4, <3>1, <3>2, <3>3 DEF ReadAur
    <2>5. QED
        BY <1>4, <1>9, <2>1, <2>2, <2>3, <2>4
<1>10. QED
    BY <1>8, <1>9

LEMMA KeptByResolver == ASSUME ResolverInv, ResolverStep PROVE ResolverInv'
BY KeptByCurlFails, KeptByReadsDeadKey, KeptBySkipResolved, KeptByResolve, KeptByNormalizeDep, KeptByNormalizeDbDep,
   KeptByDbDepFails, KeptByDepsRead, KeptByLink, KeptByLinkBadPointer, KeptByPackageDone,
   KeptByGraphBuilt DEF ResolverStep

\* build_dep_graph is called for some of the targets, with an empty graph or,
\* by upgrade_pkgs, with the targets in it.
LEMMA KeptByCalling ==
    ASSUME InputsOK, DbOK(db), edges = {}, resolved = {}, stack = call, pc = "pop", status = "ok",
           nodes = aur_outdated, lvl = "immediate" => db.downloaded = {},
           cur \in Names \cup {NULL}, reading \in {"db", "PKGBUILD"}, todo \in Seq(Names),
           deps \in Seq(Names \cup {NULL, DANGLING})
    PROVE  ResolverInv
<1>1. /\ ToSet(targets) \subseteq Names /\ ToSet(call) \subseteq ToSet(targets)
      /\ \A n \in ToSet(targets) : n \in WantedNames
    BY RelationsOfTheWorld
<1>2. call \in Seq(Names)
    BY DEF InputsOK
<1>3. TypesOK
    BY <1>1, <1>2 DEF TypesOK, aur_outdated
<1>4. StackInv
    BY <1>1 DEF StackInv
<1>5. EdgesInv /\ ResolvedInv /\ CurInv /\ UndefinedOnlyThere
    BY DEF EdgesInv, ResolvedInv, CurInv, InWork, UndefinedOnlyThere
<1>6. WorkInv
    BY DEF WorkInv, InWork, Working, Linking, aur_outdated
<1>7. QED
    BY <1>3, <1>4, <1>5, <1>6 DEF ResolverInv

\* The same, for the state a step of the caller leads to.
LEMMA CalledFresh ==
    (/\ InputsOK /\ DbOK(db) /\ edges = {} /\ resolved = {} /\ stack = call
     /\ pc = "pop" /\ status = "ok" /\ nodes = aur_outdated
     /\ (lvl = "immediate" => db.downloaded = {})
     /\ cur \in Names \cup {NULL} /\ reading \in {"db", "PKGBUILD"} /\ todo \in Seq(Names)
     /\ deps \in Seq(Names \cup {NULL, DANGLING}))
    => ResolverInv
BY KeptByCalling

LEMMA CallInputs ==
    ASSUME NEW s \in Seq(Names), s # <<>>
    PROVE  Head(s) \in ToSet(s) /\ \A t \in ToSet(s) : /\ <<t>> \in Seq(Names)
                                                       /\ ToSet(<<t>>) = {t}
<1>1. Head(s) \in ToSet(s)
    BY Shifted
<1>2. ASSUME NEW t \in ToSet(s) PROVE <<t>> \in Seq(Names) /\ ToSet(<<t>>) = {t}
    <2>1. t \in Names
        BY Members
    <2>2. <<t>> \in Seq(Names) /\ Len(<<t>>) = 1 /\ <<t>>[1] = t
        BY <2>1
    <2>3. ToSet(<<t>>) = {<<t>>[i] : i \in 1..Len(<<t>>)}
        BY <2>2, Members
    <2>4. QED
        BY <2>2, <2>3
<1>3. QED
    BY <1>1, <1>2

LEMMA ResolverStarts == ASSUME ResolverInit PROVE ResolverInv
<1> USE DEF ResolverInit
<1>1. world \in WorldType /\ \A n \in Names : /\ world.localProvides[n] \subseteq world.local
                                              /\ world.syncProvides[n] \subseteq world.sync
    BY ResolverAssumption
<1>2. lvl \in Levels /\ targets \in Seq(Names)
    BY ResolverAssumption
<1>3. call \in Seq(Names) /\ ToSet(call) \subseteq ToSet(targets)
    BY <1>2, CallInputs
<1>4. InputsOK
    BY <1>1, <1>2, <1>3 DEF InputsOK
<1>5. DbOK(db)
    <2> DEFINE origins == [n \in Names |-> IF n \in world.local \ world.sync THEN "aur" ELSE "unknown"]
               none == [n \in Names |-> NULL]
               zero == [n \in Names |-> 0]
    <2>1. /\ origins \in [Names -> {"unknown", "local", "sync", "aur"}]
          /\ none \in [Names -> Names \cup {NULL}] /\ zero \in [Names -> Nat]
        OBVIOUS
    <2>2. \A x \in Names : /\ origins[x] # "local" /\ origins[x] # "sync"
                           /\ origins[x] = "aur" <=> x \in aur
                           /\ none[x] = NULL /\ zero[x] = 0
        BY DEF aur
    <2>3. db = [from |-> origins, provided |-> none, inBuf |-> {}, downloaded |-> {},
                fetches |-> zero]
        BY DEF NewDb
    <2> HIDE DEF origins, none, zero
    <2>4. db \in DbType
        BY <2>1, <2>3 DEF DbType
    <2>5. db.from = origins /\ db.provided = none /\ db.downloaded = {} /\ db.fetches = zero
          /\ db.inBuf = {}
        BY <2>3
    <2>6. QED
        BY <2>2, <2>4, <2>5 DEF DbOK
<1>6. db.downloaded = {}
    BY DEF NewDb
<1>7. todo \in Seq(Names) /\ deps \in Seq(Names \cup {NULL, DANGLING})
    BY EmptySeq
<1>8. QED
    BY <1>4, <1>5, <1>6, <1>7, KeptByCalling
LEMMA ResolverRests == ASSUME ResolverInv, UNCHANGED resolverVars PROVE ResolverInv'
<1> USE DEF ResolverInv
<1>1. /\ UNCHANGED <<world, lvl, targets, call, db, nodes, edges>>
      /\ UNCHANGED <<stack, resolved, cur, reading, todo, deps, pc, status>>
    BY DEF resolverVars, inputVars, graphVars, depVars
<1>2. InputsOK' /\ DbOK(db)'
    BY <1>1, WorldKept
<1>3. TypesOK'
    BY <1>1 DEF TypesOK
<1>4. StackInv'
    BY <1>1, WorldKept DEF StackInv
<1>5. EdgesInv' /\ ResolvedInv'
    BY <1>1, WorldKept DEF EdgesInv, ResolvedInv, HasEdge
<1>6. CurInv'
    BY <1>1, WorldKept DEF CurInv, InWork, CoveredBy, HasEdge
<1>7. WorkInv'
    BY <1>1, WorldKept DEF WorkInv, InWork, Working, Linking
<1>8. UndefinedOnlyThere'
    BY <1>1 DEF UndefinedOnlyThere, ReadInDatabase, Satisfies, DependsOn
<1>9. QED
    BY <1>2, <1>3, <1>4, <1>5, <1>6, <1>7, <1>8

-----------------------------------------------------------------------------
(* What the invariant says of a graph.                                     *)

\* When build_dep_graph is done, what it was called for and what it downloaded
\* is resolved.
LEMMA AllIsResolved ==
    ASSUME ResolverInv, pc = "end", status = "ok"
    PROVE  /\ ToSet(call) \subseteq resolved
           /\ lvl = "thorough" => nodes \subseteq resolved
           /\ lvl = "immediate" =>
                 /\ db.downloaded \subseteq resolved
                 /\ resolved \cap aur \cap ToSet(targets) \subseteq db.downloaded
<1>1. ToSet(stack) = {}
    BY Members DEF ResolverInv, WorkInv, TypesOK
<1>2. QED
    BY <1>1 DEF ResolverInv, WorkInv, InWork, Working, Linking

LEMMA GraphIsSound ==
    ASSUME ResolverInv
    PROVE  GraphIsExact /\ EverythingResolved /\ DownloadsJustified /\ UndefinedOnlyThere
<1> USE DEF ResolverInv
<1>1. ASSUME NEW p \in resolved
      PROVE  \E f \in Names :
                /\ Satisfies(f, p)
                /\ \A d \in Names : DependsOn(f, d) =>
                      \E x \in Names : Satisfies(x, d) /\ <<x, p>> \in edges
    <2>1. PICK f \in Names : /\ <<f, p>> \in Standing
                             /\ \A d \in Names : <<f, d>> \in Depending => HasEdge(d, p)
        BY DEF ResolvedInv
    <2>2. Satisfies(f, p)
        BY <2>1 DEF Standing, Satisfies, Provides
    <2>3. ASSUME NEW d \in Names, DependsOn(f, d)
          PROVE  \E x \in Names : Satisfies(x, d) /\ <<x, p>> \in edges
        <3>1. HasEdge(d, p)
            BY <2>1, <2>3 DEF Depending
        <3>2. QED
            BY <3>1 DEF HasEdge, Satisfying
    <2>4. QED
        BY <2>2, <2>3
<1>2. ASSUME NEW e \in edges
      PROVE  /\ e[2] \in resolved \cup {cur}
             /\ \E f, d \in Names : Satisfies(f, e[2]) /\ DependsOn(f, d) /\ Satisfies(e[1], d)
    BY DEF EdgesInv, Satisfying, Depending
<1>3. GraphIsExact
    BY <1>1, <1>2 DEF GraphIsExact
<1>4. EverythingResolved
    BY AllIsResolved DEF EverythingResolved, Built, InputsOK, Levels
<1>5. DownloadsJustified
    <2>1. \A n \in Names : db.fetches[n] > 0 => db.fetches[n] = 1 /\ Justified(n)
        BY DEF DbOK
    <2>2. QED
        BY <2>1 DEF DownloadsJustified, Justified, Wanted, Databases
<1>6. QED
    BY <1>3, <1>4, <1>5


-----------------------------------------------------------------------------
(* The inductive invariant of the callers.                                 *)

\* Where the caller may be, and with which graph.
PhaseInv ==
    /\ phase \in {"build", "sort", "install", "done"}
    /\ phase # "build" => pc = "end" /\ status \in {"ok", "error"}
    /\ phase = "build" => out = <<>> /\ verdict = "none"
    /\ verdict \in {"none", "ordered", "cyclic"}
    /\ lvl = "immediate" => call = targets
    /\ lvl = "thorough" => phase # "install" /\ nextTarget \in 1..Len(targets)

\* No edge leads to a package emitted later.
LaterEdgesAbsent ==
    \A i, j \in 1..Len(out) : <<out[i], out[j]>> \in edges => j < i

EmittedIsClosed ==
    \A n \in ToSet(out) : \A m \in nodes : <<n, m>> \in edges => m \in ToSet(out)

EmittedIsAcyclic == \A S \in SUBSET ToSet(out) : S # {} => ~Sort!NoSink(S)
GraphIsAcyclic == \A S \in SUBSET nodes : S # {} => ~Sort!NoSink(S)

SortInv ==
    /\ out \in Seq(nodes)
    /\ LaterEdgesAbsent
    /\ verdict = "none" => EmittedIsClosed /\ EmittedIsAcyclic
    /\ verdict = "ordered" => GraphIsAcyclic

\* The packages of the graph that topo_get_targets picks.
Picked == {n \in nodes : IsPicked(n)}

\* The list of what is to be built, while topost is emptied into it.
ChosenInv ==
    /\ final_targets \in Seq(Picked)
    /\ final_targets # <<>> => lvl = "immediate" /\ verdict = "ordered"
    /\ \A j, k \in 1..Len(final_targets) :
          <<final_targets[j], final_targets[k]>> \in edges => j < k
    /\ phase = "sort" =>
          \A i \in 1..Len(out) : \A k \in 1..Len(final_targets) :
              <<out[i], final_targets[k]>> \notin edges
    /\ verdict = "ordered" /\ lvl = "immediate" =>
          IF phase = "sort"
          THEN Picked \subseteq ToSet(out) \cup ToSet(final_targets)
          ELSE \/ Picked \subseteq ToSet(final_targets)
               \/ \E n \in nodes : db.from[n] = "unknown"

\* What install_single_package may answer.
Answers == InstallOutcomes \cup {"no directory"}

InstallInv ==
    /\ results \in Seq(Names \X Answers)
    /\ results # <<>> => lvl = "immediate" /\ phase \in {"install", "done"}
    /\ Len(results) <= Len(final_targets)
    /\ \A k \in 1..Len(results) : results[k][1] = final_targets[k]
    /\ nextTarget \in Nat
    /\ lvl = "immediate" =>
          /\ nextTarget <= Len(final_targets) => nextTarget = Len(results) + 1
          /\ NothingFailed => nextTarget = Len(results) + 1
          /\ phase \in {"build", "sort"} => nextTarget = 1
          /\ phase = "install" => verdict = "ordered"
          /\ phase = "done" /\ verdict = "ordered" => nextTarget > Len(final_targets)

CallerInv ==
    /\ ResolverInv
    /\ PhaseInv
    /\ SortInv
    /\ ChosenInv
    /\ InstallInv
-----------------------------------------------------------------------------
(* The steps of the callers.                                               *)

LEMMA ResolverInputs == ASSUME ResolverStep PROVE UNCHANGED <<world, lvl, targets, call>>
BY DEF ResolverStep, CurlFails, ReadsDeadKey, SkipResolved, Resolve, NormalizeDep, NormalizeDbDep, DbDepFails, DepsRead,
       Link, LinkBadPointer, PackageDone, GraphBuilt, inputVars

\* While nothing calls the resolver the graph and what is picked stay.
LEMMA GraphRests ==
    ASSUME ResolverInv, UNCHANGED resolverVars
    PROVE  /\ ResolverInv'
           /\ UNCHANGED <<world, lvl, targets, call, db, nodes, edges, pc, status>>
           /\ Picked' = Picked /\ GraphIsAcyclic' = GraphIsAcyclic
           /\ nodes \subseteq Names /\ edges \subseteq nodes \X nodes
<1>1. UNCHANGED <<world, lvl, targets, call, db, nodes, edges, pc, status>>
    BY DEF resolverVars, inputVars, graphVars
<1>2. Picked' = Picked
    BY <1>1 DEF Picked, IsPicked, aur, aur_outdated
<1>3. GraphIsAcyclic' = GraphIsAcyclic
    BY <1>1 DEF GraphIsAcyclic, Sort!NoSink
<1>4. QED
    BY <1>1, <1>2, <1>3, ResolverRests DEF ResolverInv, TypesOK

LEMMA EmptyOut == ToSet(<<>>) = {}
BY EmptySeq, Members

LEMMA KeptByBuilding == ASSUME CallerInv, BuildDepGraph PROVE CallerInv'
<1> USE DEF CallerInv
<1>1. /\ phase = "build" /\ ResolverStep
      /\ UNCHANGED <<phase, out, verdict, final_targets, nextTarget, cwd, results, ret>>
    BY DEF BuildDepGraph, sortVars, installVars
<1>2. UNCHANGED <<world, lvl, targets, call>>
    BY <1>1, ResolverInputs
<1>3. out = <<>> /\ verdict = "none" /\ final_targets = <<>> /\ results = <<>>
    BY <1>1 DEF PhaseInv, ChosenInv, InstallInv
<1>4. ResolverInv'
    BY <1>1, KeptByResolver
<1>5. PhaseInv'
    BY <1>1, <1>2 DEF PhaseInv
<1>6. SortInv'
    <2>1. out' = <<>> /\ Len(out') = 0 /\ out' \in Seq(nodes') /\ ToSet(out') = {}
        BY <1>1, <1>3, EmptySeq, EmptyOut
    <2>2. LaterEdgesAbsent'
        BY <2>1 DEF LaterEdgesAbsent
    <2>3. EmittedIsClosed'
        BY <2>1 DEF EmittedIsClosed
    <2>4. EmittedIsAcyclic'
        BY <2>1 DEF EmittedIsAcyclic, Sort!NoSink
    <2>5. QED
        BY <1>1, <1>3, <2>1, <2>2, <2>3, <2>4 DEF SortInv
<1>7. ChosenInv'
    <2>1. final_targets' = <<>> /\ Len(final_targets') = 0 /\ final_targets' \in Seq(Picked')
        BY <1>1, <1>3, EmptySeq
    <2>2. QED
        BY <1>1, <1>3, <2>1 DEF ChosenInv
<1>8. InstallInv'
    BY <1>1, <1>2 DEF InstallInv, NothingFailed, Answers
<1>9. QED
    BY <1>4, <1>5, <1>6, <1>7, <1>8

LEMMA KeptByStartingSort == ASSUME CallerInv, StartSort PROVE CallerInv'
<1> USE DEF CallerInv
<1>1. /\ phase = "build" /\ phase' = "sort" /\ pc = "end" /\ status \in {"ok", "error"}
      /\ UNCHANGED <<resolverVars, out, verdict, final_targets, nextTarget, cwd, results, ret>>
    BY DEF StartSort, sortVars, installVars
<1>2. /\ ResolverInv' /\ UNCHANGED <<world, lvl, targets, call, db, nodes, edges, pc, status>>
      /\ Picked' = Picked /\ GraphIsAcyclic' = GraphIsAcyclic
    BY <1>1, GraphRests
<1>3. out = <<>> /\ verdict = "none" /\ final_targets = <<>> /\ results = <<>>
    BY <1>1 DEF PhaseInv, ChosenInv, InstallInv
<1>4. PhaseInv'
    BY <1>1, <1>2 DEF PhaseInv
<1>5. SortInv'
    BY <1>1, <1>2 DEF SortInv, LaterEdgesAbsent, EmittedIsClosed, EmittedIsAcyclic, Sort!NoSink
<1>6. ChosenInv'
    BY <1>1, <1>2, <1>3 DEF ChosenInv
<1>7. InstallInv'
    BY <1>1, <1>2, <1>3 DEF InstallInv, NothingFailed
<1>8. QED
    BY <1>2, <1>4, <1>5, <1>6, <1>7

LEMMA KeptByGivingUp == ASSUME CallerInv, GiveUpOnCycle PROVE CallerInv'
<1> USE DEF CallerInv
<1>1. /\ phase = "sort" /\ lvl = "immediate" /\ verdict = "cyclic" /\ phase' = "done"
      /\ UNCHANGED <<resolverVars, out, verdict, final_targets, nextTarget, cwd, results>>
    BY DEF GiveUpOnCycle, sortVars, installVars
<1>2. /\ ResolverInv' /\ UNCHANGED <<world, lvl, targets, call, db, nodes, edges, pc, status>>
      /\ Picked' = Picked /\ GraphIsAcyclic' = GraphIsAcyclic
    BY <1>1, GraphRests
<1>3. PhaseInv'
    BY <1>1, <1>2 DEF PhaseInv
<1>4. SortInv'
    BY <1>1, <1>2 DEF SortInv, LaterEdgesAbsent
<1>5. ChosenInv'
    BY <1>1, <1>2 DEF ChosenInv
<1>6. InstallInv'
    BY <1>1, <1>2 DEF InstallInv, NothingFailed
<1>7. QED
    BY <1>2, <1>3, <1>4, <1>5, <1>6

\* A package is emitted: its edges lead to what is emitted already.
LEMMA KeptByEmitting ==
    ASSUME CallerInv, phase = "sort", UNCHANGED <<resolverVars, phase, installVars, ret>>,
           NEW n \in nodes, Sort!Emit(n)
    PROVE  CallerInv'
<1> USE DEF CallerInv
<1>1. UNCHANGED <<final_targets, nextTarget, cwd, results>>
    BY DEF installVars
<1>2. /\ ResolverInv' /\ UNCHANGED <<world, lvl, targets, call, db, nodes, edges, pc, status>>
      /\ Picked' = Picked /\ edges \subseteq nodes \X nodes
    BY GraphRests
<1>3. out \in Seq(nodes) /\ Sort!Emitted = ToSet(out)
    <2>1. out \in Seq(nodes)
        BY DEF SortInv
    <2>2. QED
        BY <2>1, Members DEF Sort!Emitted
<1>4. /\ verdict = "none" /\ verdict' = "none" /\ n \notin ToSet(out)
      /\ \A m \in nodes : <<n, m>> \in edges => m \in ToSet(out)
      /\ out' = Append(out, n)
    BY <1>3 DEF Sort!Emit
<1>5. <<n, n>> \notin edges
    BY <1>4
<1>6. EmittedIsClosed /\ EmittedIsAcyclic /\ LaterEdgesAbsent
    BY <1>4 DEF SortInv
<1>7. /\ out' \in Seq(nodes) /\ ToSet(out') = ToSet(out) \cup {n} /\ Len(out) \in Nat
      /\ Len(out') = Len(out) + 1 /\ out'[Len(out) + 1] = n
      /\ \A i \in 1..Len(out) : out'[i] = out[i] /\ out[i] \in ToSet(out) /\ out[i] \in nodes
    BY <1>3, <1>4, Members
<1>8. \A x \in ToSet(out) : <<x, n>> \notin edges
    BY <1>4, <1>6 DEF EmittedIsClosed
<1>9. LaterEdgesAbsent'
    <2>1. ASSUME NEW i \in 1..(Len(out) + 1), NEW j \in 1..(Len(out) + 1),
                 <<out'[i], out'[j]>> \in edges
          PROVE  j < i
        <3>1. i \in 1..Len(out) \/ i = Len(out) + 1
            BY <1>7
        <3>2. j \in 1..Len(out) \/ j = Len(out) + 1
            BY <1>7
        <3>3. CASE i \in 1..Len(out) /\ j \in 1..Len(out)
            BY <1>6, <1>7, <2>1, <3>3 DEF LaterEdgesAbsent
        <3>4. CASE i \in 1..Len(out) /\ j = Len(out) + 1
            BY <1>7, <1>8, <2>1, <3>4
        <3>5. CASE i = Len(out) + 1 /\ j \in 1..Len(out)
            BY <1>7, <3>5
        <3>6. CASE i = Len(out) + 1 /\ j = Len(out) + 1
            BY <1>5, <1>7, <2>1, <3>6
        <3>7. QED
            BY <3>1, <3>2, <3>3, <3>4, <3>5, <3>6
    <2>2. QED
        BY <1>2, <1>7, <2>1 DEF LaterEdgesAbsent
<1>10. EmittedIsClosed'
    BY <1>2, <1>4, <1>6, <1>7 DEF EmittedIsClosed
<1>11. EmittedIsAcyclic'
    <2>1. ASSUME NEW S \in SUBSET ToSet(out'), S # {}
          PROVE  \E x \in S : \A m \in S : <<x, m>> \notin edges
        <3>1. CASE n \notin S
            <4>1. S \in SUBSET ToSet(out)
                BY <1>7, <3>1
            <4>2. QED
                BY <1>6, <2>1, <4>1 DEF EmittedIsAcyclic, Sort!NoSink
        <3>2. CASE S = {n}
            BY <1>5, <3>2
        <3>3. CASE n \in S /\ S # {n}
            <4> DEFINE T == S \ {n}
            <4>1. T \in SUBSET ToSet(out) /\ T # {}
                BY <1>7, <3>3
            <4>2. PICK x \in T : \A m \in T : <<x, m>> \notin edges
                BY <1>6, <4>1 DEF EmittedIsAcyclic, Sort!NoSink
            <4>3. <<x, n>> \notin edges
                BY <1>8, <4>1, <4>2
            <4>4. QED
                BY <4>2, <4>3
        <3>4. QED
            BY <3>1, <3>2, <3>3
    <2>2. QED
        BY <1>2, <2>1 DEF EmittedIsAcyclic, Sort!NoSink
<1>12. PhaseInv'
    BY <1>2, <1>1, <1>4 DEF PhaseInv
<1>13. SortInv'
    BY <1>2, <1>4, <1>7, <1>9, <1>10, <1>11 DEF SortInv
<1>14. ChosenInv'
    <2>1. final_targets = <<>> /\ Len(final_targets) = 0
        BY <1>4 DEF ChosenInv
    <2>2. QED
        BY <1>1, <1>2, <1>4, <2>1 DEF ChosenInv
<1>15. InstallInv'
    BY <1>1, <1>2, <1>4 DEF InstallInv, NothingFailed
<1>16. QED
    BY <1>2, <1>12, <1>13, <1>14, <1>15

LEMMA KeptByAnswering ==
    ASSUME CallerInv, phase = "sort", UNCHANGED <<resolverVars, phase, installVars, ret>>,
           Sort!Accept \/ Sort!Reject
    PROVE  CallerInv'
<1> USE DEF CallerInv
<1>1. UNCHANGED <<final_targets, nextTarget, cwd, results>>
    BY DEF installVars
<1>2. /\ ResolverInv' /\ UNCHANGED <<world, lvl, targets, call, db, nodes, edges, pc, status>>
      /\ Picked' = Picked /\ GraphIsAcyclic' = GraphIsAcyclic
    BY GraphRests
<1>3. out \in Seq(nodes) /\ Sort!Emitted = ToSet(out)
    <2>1. out \in Seq(nodes)
        BY DEF SortInv
    <2>2. QED
        BY <2>1, Members DEF Sort!Emitted
<1>4. /\ verdict = "none" /\ verdict' \in {"ordered", "cyclic"} /\ out' = out
      /\ verdict' = "ordered" => ToSet(out) = nodes
    BY <1>3 DEF Sort!Accept, Sort!Reject
<1>5. LaterEdgesAbsent' /\ (verdict' = "ordered" => GraphIsAcyclic)
    BY <1>2, <1>4 DEF SortInv, LaterEdgesAbsent, EmittedIsAcyclic, GraphIsAcyclic
<1>6. PhaseInv'
    BY <1>1, <1>2, <1>4 DEF PhaseInv
<1>7. SortInv'
    BY <1>2, <1>3, <1>4, <1>5 DEF SortInv
<1>8. ChosenInv'
    <2>1. final_targets = <<>> /\ Len(final_targets) = 0
        BY <1>4 DEF ChosenInv
    <2>2. verdict' = "ordered" => Picked \subseteq ToSet(out)
        BY <1>4 DEF Picked
    <2>3. QED
        BY <1>1, <1>2, <1>4, <2>1, <2>2 DEF ChosenInv
<1>9. InstallInv'
    BY <1>1, <1>2, <1>4 DEF InstallInv, NothingFailed
<1>10. QED
    BY <1>2, <1>6, <1>7, <1>8, <1>9

LEMMA KeptBySorting == ASSUME CallerInv, SortStep PROVE CallerInv'
BY KeptByEmitting, KeptByAnswering DEF SortStep
\* A package is popped from topost, which makes the list if it is picked.
LEMMA KeptByPicking == ASSUME CallerInv, PickTarget PROVE CallerInv'
<1> USE DEF CallerInv
<1> DEFINE n == Last(out)
<1>1. /\ phase = "sort" /\ lvl = "immediate" /\ verdict = "ordered" /\ out # <<>>
      /\ out' = Front(out)
      /\ UNCHANGED <<resolverVars, verdict, nextTarget, cwd, ret, results>>
    BY DEF PickTarget, stack_pop
<1>2. \/ /\ db.from[n] = "unknown" /\ final_targets' = <<>> /\ phase' = "install"
      \/ /\ db.from[n] # "unknown" /\ phase' = phase
         /\ final_targets' = IF IsPicked(n) THEN Append(final_targets, n) ELSE final_targets
    BY DEF PickTarget, stack_pop
<1>3. /\ ResolverInv' /\ UNCHANGED <<world, lvl, targets, call, db, nodes, edges, pc, status>>
      /\ Picked' = Picked /\ GraphIsAcyclic' = GraphIsAcyclic
    BY <1>1, GraphRests
<1>4. /\ out \in Seq(nodes) /\ LaterEdgesAbsent /\ GraphIsAcyclic
      /\ final_targets \in Seq(Picked)
    BY <1>1 DEF SortInv, ChosenInv
<1>5. /\ out' \in Seq(nodes) /\ n \in nodes /\ ToSet(out) = ToSet(out') \cup {n}
    BY <1>1, <1>4, Popped
<1>6. /\ Len(out) \in Nat \ {0} /\ n = out[Len(out)] /\ Len(out') = Len(out) - 1
      /\ \A i \in 1..Len(out') : out'[i] = out[i] /\ i \in 1..Len(out) /\ i < Len(out)
    <2>1. /\ Len(out) \in Nat \ {0} /\ n = out[Len(out)] /\ Len(out') = Len(out) - 1
          /\ \A i \in 1..(Len(out) - 1) : out'[i] = out[i]
        BY <1>1, <1>4, Popped
    <2>2. QED
        BY <2>1
<1> HIDE DEF n
<1>7. results = <<>> /\ nextTarget = 1
    BY <1>1 DEF InstallInv
<1>8. PhaseInv'
    BY <1>1, <1>2, <1>3 DEF PhaseInv
<1>9. LaterEdgesAbsent'
    BY <1>3, <1>4, <1>6 DEF LaterEdgesAbsent
<1>10. SortInv'
    BY <1>1, <1>3, <1>4, <1>5, <1>9 DEF SortInv
<1>11. InstallInv'
    <2>1. Len(results) = 0 /\ Len(final_targets') \in Nat
        <3>1. final_targets \in Seq(nodes)
            <4>1. Picked \subseteq nodes
                BY DEF Picked
            <4>2. QED
                BY <1>4, <4>1
        <3>2. final_targets' \in {<<>>, final_targets, Append(final_targets, n)}
            BY <1>2
        <3>3. <<>> \in Seq(nodes) /\ Append(final_targets, n) \in Seq(nodes)
            BY <1>5, <3>1, EmptySeq
        <3>4. QED
            BY <1>7, <3>1, <3>2, <3>3, EmptySeq
    <2>2. \A k \in 1..Len(results') : results'[k][1] = final_targets'[k]
        BY <1>1, <2>1
    <2>3. QED
        BY <1>1, <1>2, <1>3, <1>7, <2>1, <2>2 DEF InstallInv, NothingFailed
<1>12. ASSUME db.from[n] = "unknown", final_targets' = <<>>, phase' = "install"
       PROVE  ChosenInv'
    <2>1. Len(final_targets') = 0 /\ final_targets' \in Seq(Picked)
        BY <1>12, EmptySeq
    <2>2. QED
        BY <1>1, <1>3, <1>5, <1>12, <2>1 DEF ChosenInv
<1>13. ASSUME final_targets' = final_targets, phase' = phase, n \notin Picked
       PROVE  ChosenInv'
    <2>1. Picked \subseteq ToSet(out') \cup ToSet(final_targets)
        BY <1>1, <1>5, <1>13 DEF ChosenInv
    <2>2. \A i \in 1..Len(out') : \A k \in 1..Len(final_targets) :
            <<out'[i], final_targets[k]>> \notin edges
        BY <1>1, <1>6 DEF ChosenInv
    <2>3. QED
        BY <1>1, <1>3, <1>4, <1>13, <2>1, <2>2 DEF ChosenInv
<1>14. ASSUME final_targets' = Append(final_targets, n), phase' = phase, n \in Picked
       PROVE  ChosenInv'
    <2> DEFINE size == Len(final_targets)
    <2>1. /\ size \in Nat /\ final_targets' \in Seq(Picked) /\ Len(final_targets') = size + 1
          /\ final_targets'[size + 1] = n /\ \A k \in 1..size : final_targets'[k] = final_targets[k]
          /\ ToSet(final_targets') = ToSet(final_targets) \cup {n}
        BY <1>4, <1>14, Members
    <2> HIDE DEF size
    <2>2. \A k \in 1..(size + 1) : k \in 1..size \/ k = size + 1
        BY <2>1
    <2>3. Picked \subseteq ToSet(out') \cup ToSet(final_targets')
        BY <1>1, <1>5, <2>1 DEF ChosenInv
    <2>4. /\ \A i \in 1..Len(out) : \A k \in 1..size : <<out[i], final_targets[k]>> \notin edges
          /\ \A j, k \in 1..size : <<final_targets[j], final_targets[k]>> \in edges => j < k
        BY <1>1 DEF ChosenInv, size
    <2>5. \A k \in 1..size : <<n, final_targets[k]>> \notin edges
        BY <1>6, <2>4
    <2>6. \A i \in 1..Len(out) : <<out[i], n>> \notin edges
        <3>1. ASSUME NEW i \in 1..Len(out), <<out[i], n>> \in edges PROVE FALSE
            <4>1. Len(out) \in 1..Len(out)
                BY <1>6
            <4>2. Len(out) < i
                BY <1>4, <1>6, <3>1, <4>1 DEF LaterEdgesAbsent
            <4>3. QED
                BY <1>6, <4>2
        <3>2. QED
            BY <3>1
    <2>7. <<n, n>> \notin edges
        BY <1>6, <2>6
    <2>8. \A i \in 1..Len(out') : \A k \in 1..(size + 1) :
            <<out'[i], final_targets'[k]>> \notin edges
        BY <1>6, <2>1, <2>2, <2>4, <2>6
    <2>9. ASSUME NEW j \in 1..(size + 1), NEW k \in 1..(size + 1),
                 <<final_targets'[j], final_targets'[k]>> \in edges
          PROVE  j < k
        <3>1. CASE j \in 1..size /\ k \in 1..size
            BY <2>1, <2>4, <2>9, <3>1
        <3>2. CASE j \in 1..size /\ k = size + 1
            BY <2>1, <3>2
        <3>3. CASE j = size + 1 /\ k \in 1..size
            BY <2>1, <2>5, <2>9, <3>3
        <3>4. CASE j = size + 1 /\ k = size + 1
            BY <2>1, <2>7, <2>9, <3>4
        <3>5. QED
            BY <2>2, <3>1, <3>2, <3>3, <3>4
    <2>10. QED
        BY <1>1, <1>3, <1>14, <2>1, <2>3, <2>8, <2>9 DEF ChosenInv
<1>15. ChosenInv'
    <2>1. n \in Picked <=> IsPicked(n)
        BY <1>5 DEF Picked
    <2>2. QED
        BY <1>2, <1>12, <1>13, <1>14, <2>1
<1>16. QED
    BY <1>3, <1>8, <1>10, <1>11, <1>15

LEMMA KeptByStartingInstall == ASSUME CallerInv, TargetsPicked PROVE CallerInv'
<1> USE DEF CallerInv
<1>1. /\ phase = "sort" /\ lvl = "immediate" /\ verdict = "ordered" /\ out = <<>>
      /\ phase' = "install"
      /\ UNCHANGED <<resolverVars, out, verdict, final_targets, nextTarget, cwd, results>>
    BY DEF TargetsPicked, sortVars, installVars
<1>2. /\ ResolverInv' /\ UNCHANGED <<world, lvl, targets, call, db, nodes, edges, pc, status>>
      /\ Picked' = Picked /\ GraphIsAcyclic' = GraphIsAcyclic
    BY <1>1, GraphRests
<1>3. PhaseInv'
    BY <1>1, <1>2 DEF PhaseInv
<1>4. SortInv'
    BY <1>1, <1>2 DEF SortInv, LaterEdgesAbsent
<1>5. ChosenInv'
    BY <1>1, <1>2, EmptyOut DEF ChosenInv
<1>6. InstallInv'
    BY <1>1, <1>2 DEF InstallInv, NothingFailed
<1>7. QED
    BY <1>2, <1>3, <1>4, <1>5, <1>6

\* One turn of topo_install's loop, seen from upgrade_pkgs.
LEMMA OnePackage ==
    ASSUME Installs!InstallNext
    PROVE  /\ nextTarget <= Len(final_targets) /\ final_targets' = final_targets
           /\ \E answer \in Answers :
                 /\ results' = Append(results, <<final_targets[nextTarget], answer>>)
                 /\ nextTarget' = Installs!NextTarget(nextTarget, answer)
<1>1. nextTarget <= Len(final_targets) /\ final_targets' = final_targets
    BY Zenon DEF Installs!InstallNext
<1>2. \E answer \in Answers : Installs!InstallEnds(answer)
    BY Zenon DEF Installs!InstallNext, Answers
<1>3. QED
    BY Zenon, <1>1, <1>2 DEF Installs!InstallEnds

LEMMA KeptByInstalling == ASSUME CallerInv, InstallNext PROVE CallerInv'
<1> USE DEF CallerInv
<1>1. /\ phase = "install" /\ Installs!InstallNext
      /\ UNCHANGED <<resolverVars, phase, out, verdict, ret>>
    BY DEF InstallNext, sortVars
<1>2. /\ ResolverInv' /\ UNCHANGED <<world, lvl, targets, call, db, nodes, edges, pc, status>>
      /\ Picked' = Picked /\ GraphIsAcyclic' = GraphIsAcyclic /\ nodes \subseteq Names
    BY <1>1, GraphRests
<1>3. PICK answer \in Answers :
        /\ nextTarget <= Len(final_targets) /\ final_targets' = final_targets
        /\ results' = Append(results, <<final_targets[nextTarget], answer>>)
        /\ nextTarget' = Installs!NextTarget(nextTarget, answer)
    BY <1>1, OnePackage
<1>4. lvl = "immediate" /\ verdict = "ordered"
    BY <1>1 DEF PhaseInv, InstallInv, ResolverInv, InputsOK, Levels
<1>5. PhaseInv'
    BY <1>1, <1>2, <1>4 DEF PhaseInv, Levels
<1>6. SortInv'
    BY <1>1, <1>2 DEF SortInv, LaterEdgesAbsent, EmittedIsClosed, EmittedIsAcyclic, Sort!NoSink
<1>7. ChosenInv'
    BY <1>1, <1>2, <1>3 DEF ChosenInv
<1>8. InstallInv'
    <2> DEFINE size == Len(results)
               n == final_targets[nextTarget]
    <2>1. /\ results \in Seq(Names \X Answers) /\ size \in Nat /\ final_targets \in Seq(Names)
          /\ nextTarget = size + 1 /\ size < Len(final_targets) /\ Len(final_targets) \in Nat
        <3>1. results \in Seq(Names \X Answers) /\ nextTarget = size + 1
            BY <1>3, <1>4 DEF InstallInv
        <3>2. final_targets \in Seq(Picked) /\ Picked \subseteq Names
            BY <1>2 DEF ChosenInv, Picked
        <3>3. QED
            BY <1>3, <3>1, <3>2
    <2>2. n \in Names
        BY <2>1
    <2>3. /\ results' \in Seq(Names \X Answers) /\ Len(results') = size + 1
          /\ results'[size + 1] = <<n, answer>> /\ \A k \in 1..size : results'[k] = results[k]
        BY <1>3, <2>1, <2>2
    <2>4. \A k \in 1..(size + 1) : k \in 1..size \/ k = size + 1
        BY <2>1
    <2>5. \A k \in 1..size : results[k][1] = final_targets[k]
        BY DEF InstallInv
    <2>6. n = final_targets[size + 1]
        BY <2>1
    <2>7. /\ nextTarget' \in {nextTarget + 1, Len(final_targets) + 1}
          /\ answer = "built" => nextTarget' = nextTarget + 1
        BY <1>3 DEF Installs!NextTarget, Installs!IsFatal
    <2> HIDE DEF size, n
    <2>8. \A k \in 1..Len(results') : results'[k][1] = final_targets'[k]
        BY <1>3, <2>3, <2>4, <2>5, <2>6
    <2>9. NothingFailed' => answer = "built"
        <3>1. size + 1 \in 1..Len(results')
            BY <2>1, <2>3
        <3>2. NothingFailed' => results'[size + 1][2] = "built"
            BY <3>1 DEF NothingFailed
        <3>3. QED
            BY <2>3, <3>2
    <2>10. /\ nextTarget' <= Len(final_targets') => nextTarget' = Len(results') + 1
           /\ NothingFailed' => nextTarget' = Len(results') + 1
           /\ nextTarget' \in Nat /\ Len(results') <= Len(final_targets')
        BY <1>3, <2>1, <2>3, <2>7, <2>9
    <2>11. Answers' = Answers
        BY DEF Answers
    <2>12. QED
        BY <1>1, <1>2, <1>4, <2>3, <2>8, <2>10, <2>11 DEF InstallInv
<1>9. QED
    BY <1>2, <1>5, <1>6, <1>7, <1>8

LEMMA KeptByReturning == ASSUME CallerInv, UpgradeReturns \/ CrawlReturns PROVE CallerInv'
<1> USE DEF CallerInv
<1>1. /\ \/ phase = "install" /\ nextTarget > Len(final_targets)
         \/ phase = "sort" /\ lvl = "thorough"
      /\ phase' = "done"
      /\ UNCHANGED <<resolverVars, out, verdict, final_targets, nextTarget, cwd, results>>
    BY DEF UpgradeReturns, CrawlReturns, sortVars, installVars
<1>2. /\ ResolverInv' /\ UNCHANGED <<world, lvl, targets, call, db, nodes, edges, pc, status>>
      /\ Picked' = Picked /\ GraphIsAcyclic' = GraphIsAcyclic
    BY <1>1, GraphRests
<1>3. PhaseInv'
    BY <1>1, <1>2 DEF PhaseInv
<1>4. SortInv'
    BY <1>1, <1>2 DEF SortInv, LaterEdgesAbsent, EmittedIsClosed, EmittedIsAcyclic, Sort!NoSink
<1>5. ChosenInv'
    BY <1>1, <1>2 DEF ChosenInv
<1>6. InstallInv'
    BY <1>1, <1>2 DEF InstallInv, NothingFailed
<1>7. QED
    BY <1>2, <1>3, <1>4, <1>5, <1>6
\* The caller cannot start: it returns, or goes on with no tables.
LEMMA KeptByNotStarting == ASSUME CallerInv, CannotStart \/ WithoutTables PROVE CallerInv'
<1> USE DEF CallerInv
<1>1. /\ phase = "build" /\ pc = "pop" /\ cur = NULL /\ pc' = "end"
      /\ UNCHANGED <<inputVars, db, graphVars, stack, resolved, depVars>>
      /\ UNCHANGED <<out, verdict, final_targets, nextTarget, cwd, results>>
      /\ \/ phase' = "done" /\ status' = "error"
         \/ phase' = "build" /\ status' = "undefined" /\ lvl = "thorough"
    BY DEF CannotStart, WithoutTables, AtStart, End, sortVars, installVars
<1>2. UNCHANGED <<world, lvl, targets, call, db, nodes, edges, cur>>
    BY <1>1 DEF inputVars, graphVars, depVars
<1>3. ResolverInv'
    <2>1. UndefinedOnlyThere'
        BY <1>1, <1>2 DEF UndefinedOnlyThere
    <2>2. QED
        BY <1>1, <2>1, KeptByStopping
<1>4. out = <<>> /\ verdict = "none" /\ final_targets = <<>> /\ results = <<>>
    BY <1>1 DEF PhaseInv, ChosenInv, InstallInv
<1>5. PhaseInv'
    BY <1>1, <1>2 DEF PhaseInv
<1>6. SortInv'
    BY <1>1, <1>2, <1>4 DEF SortInv, LaterEdgesAbsent, EmittedIsClosed, EmittedIsAcyclic,
       Sort!NoSink
<1>7. Picked' = Picked
    BY <1>2 DEF Picked, IsPicked, aur, aur_outdated
<1>8. ChosenInv'
    BY <1>1, <1>2, <1>4, <1>7 DEF ChosenInv
<1>9. InstallInv'
    BY <1>1, <1>2, <1>4 DEF InstallInv, NothingFailed, Answers
<1>10. QED
    BY <1>3, <1>5, <1>6, <1>8, <1>9

\* powaur_crawl goes on to its next target: with a new graph, in the same tables.
LEMMA KeptByNextTarget == ASSUME CallerInv, NextCrawled PROVE CallerInv'
<1> USE DEF CallerInv
<1>1. /\ phase = "sort" /\ lvl = "thorough" /\ nextTarget < Len(targets)
      /\ nextTarget' = nextTarget + 1 /\ call' = <<targets[nextTarget + 1]>> /\ stack' = call'
      /\ nodes' = {} /\ edges' = {} /\ resolved' = {}
      /\ phase' = "build" /\ pc' = "pop" /\ status' = "ok" /\ out' = <<>> /\ verdict' = "none"
      /\ UNCHANGED <<world, lvl, targets, db, cur, reading, todo, deps>>
      /\ UNCHANGED <<final_targets, cwd, results, ret>>
    BY DEF NextCrawled, depVars
<1>2. nextTarget \in 1..Len(targets) /\ targets \in Seq(Names) /\ ResolverInv
    BY <1>1 DEF PhaseInv, ResolverInv, InputsOK
<1>3. nextTarget' \in 1..Len(targets) /\ targets # <<>>
    BY <1>1, <1>2, EmptySeq
<1>4. call' \in Seq(Names) /\ ToSet(call') \subseteq ToSet(targets)
    <2>1. targets[nextTarget + 1] \in ToSet(targets)
        BY <1>1, <1>2, <1>3, Members
    <2>2. QED
        BY <1>1, <1>2, <1>3, <2>1, CallInputs
<1>5. InputsOK'
    BY <1>1, <1>2, <1>4 DEF ResolverInv, InputsOK
<1>6. DbOK(db)'
    BY <1>1, WorldKept DEF ResolverInv
<1>7. /\ cur' \in Names \cup {NULL} /\ reading' \in {"db", "PKGBUILD"} /\ todo' \in Seq(Names)
      /\ deps' \in Seq(Names \cup {NULL, DANGLING})
    BY <1>1 DEF ResolverInv, TypesOK
<1>8. aur_outdated' = {}
    BY <1>1 DEF aur_outdated
<1>9. ResolverInv'
    <2>1. /\ (InputsOK /\ DbOK(db) /\ edges = {} /\ resolved = {} /\ stack = call
              /\ pc = "pop" /\ status = "ok" /\ nodes = aur_outdated
              /\ (lvl = "immediate" => db.downloaded = {})
              /\ cur \in Names \cup {NULL} /\ reading \in {"db", "PKGBUILD"} /\ todo \in Seq(Names)
              /\ deps \in Seq(Names \cup {NULL, DANGLING}))'
        BY <1>1, <1>5, <1>6, <1>7, <1>8
    <2>2. QED
        BY <2>1, CalledFresh, PTL
<1>10. PhaseInv'
    BY <1>1, <1>3 DEF PhaseInv
<1>11. SortInv'
    <2>1. out' = <<>> /\ Len(out') = 0 /\ out' \in Seq(nodes') /\ ToSet(out') = {}
        BY <1>1, EmptySeq, EmptyOut
    <2>2. LaterEdgesAbsent'
        BY <2>1 DEF LaterEdgesAbsent
    <2>3. EmittedIsClosed'
        BY <2>1 DEF EmittedIsClosed
    <2>4. EmittedIsAcyclic'
        BY <2>1 DEF EmittedIsAcyclic, Sort!NoSink
    <2>5. QED
        BY <1>1, <2>1, <2>2, <2>3, <2>4 DEF SortInv
<1>12. ChosenInv'
    <2>1. final_targets' = <<>> /\ Len(final_targets') = 0 /\ final_targets' \in Seq(Picked')
        BY <1>1, EmptySeq DEF ChosenInv
    <2>2. QED
        BY <1>1, <2>1 DEF ChosenInv
<1>13. InstallInv'
    <2>1. nextTarget' \in Nat
        BY <1>3
    <2>2. QED
        BY <1>1, <2>1 DEF InstallInv, NothingFailed, Answers
<1>14. QED
    BY <1>9, <1>10, <1>11, <1>12, <1>13

LEMMA CallerStarts == ASSUME UpgradeInit PROVE CallerInv
<1> USE DEF UpgradeInit
<1>1. ResolverInv
    BY ResolverStarts
<1>2. /\ phase = "build" /\ out = <<>> /\ verdict = "none" /\ final_targets = <<>>
      /\ nextTarget = 1 /\ results = <<>>
    OBVIOUS
<1>3. Len(<<>>) = 0 /\ ToSet(<<>>) = {} /\ \A S : <<>> \in Seq(S)
    BY EmptySeq, EmptyOut
<1>4. PhaseInv
    <2>1. targets # <<>> /\ targets \in Seq(Names) /\ (lvl = "immediate" => call = targets)
        BY <1>1 DEF ResolverInit, ResolverInv, InputsOK
    <2>2. 1 \in 1..Len(targets)
        BY <2>1, EmptySeq
    <2>3. QED
        BY <1>2, <2>1, <2>2 DEF PhaseInv
<1>5. SortInv
    BY <1>2, <1>3 DEF SortInv, LaterEdgesAbsent, EmittedIsClosed, EmittedIsAcyclic
<1>6. ChosenInv
    BY <1>2, <1>3 DEF ChosenInv
<1>7. InstallInv
    BY <1>2, <1>3 DEF InstallInv
<1>8. QED
    BY <1>1, <1>4, <1>5, <1>6, <1>7 DEF CallerInv

LEMMA CallerRests == ASSUME CallerInv, UNCHANGED upgradeVars PROVE CallerInv'
<1> USE DEF CallerInv
<1>1. /\ UNCHANGED <<resolverVars, phase, out, verdict>>
      /\ UNCHANGED <<final_targets, nextTarget, cwd, results>>
    BY DEF upgradeVars, sortVars, installVars
<1>2. /\ ResolverInv' /\ UNCHANGED <<world, lvl, targets, call, db, nodes, edges, pc, status>>
      /\ Picked' = Picked /\ GraphIsAcyclic' = GraphIsAcyclic
    BY <1>1, GraphRests
<1>3. PhaseInv'
    BY <1>1, <1>2 DEF PhaseInv
<1>4. SortInv'
    BY <1>1, <1>2 DEF SortInv, LaterEdgesAbsent, EmittedIsClosed, EmittedIsAcyclic, Sort!NoSink
<1>5. ChosenInv'
    BY <1>1, <1>2 DEF ChosenInv
<1>6. InstallInv'
    BY <1>1, <1>2 DEF InstallInv, NothingFailed, Answers
<1>7. QED
    BY <1>2, <1>3, <1>4, <1>5, <1>6

-----------------------------------------------------------------------------
(* The theorems.                                                           *)

\* What the resolver, the sort and the callers keep true: the inductive
\* invariant behind every theorem below.
THEOREM CallersInvariant == CallerSpec => []CallerInv
<1>1. UpgradeInit => CallerInv
    BY CallerStarts
<1>2. CallerInv /\ [CallerStep]_upgradeVars => CallerInv'
    <2> SUFFICES ASSUME CallerInv, [CallerStep]_upgradeVars PROVE CallerInv'
        OBVIOUS
    <2>1. ASSUME UpgradeStep PROVE CallerInv'
        BY <2>1, KeptByBuilding, KeptByStartingSort, KeptBySorting, KeptByGivingUp, KeptByPicking,
           KeptByStartingInstall, KeptByInstalling, KeptByReturning DEF UpgradeStep
    <2>2. QED
        BY <2>1, KeptByNotStarting, KeptByNextTarget, KeptByReturning, CallerRests
           DEF CallerStep
<1>3. QED
    BY <1>1, <1>2, PTL DEF CallerSpec

\* The graph build_dep_graph leaves to its callers has an edge for each
\* dependency of each package it resolved, and no other.
THEOREM GraphExact == CallerSpec => []GraphIsExact
<1>1. CallerInv => GraphIsExact
    BY GraphIsSound DEF CallerInv
<1>2. QED
    BY <1>1, CallersInvariant, PTL

\* What was asked for, and what was downloaded for it, is resolved when the
\* graph is done.
THEOREM NothingUnresolved == CallerSpec => []EverythingResolved
<1>1. CallerInv => EverythingResolved
    BY GraphIsSound DEF CallerInv
<1>2. QED
    BY <1>1, CallersInvariant, PTL

\* No package is downloaded twice, or while a database has one that would do,
\* or without being needed.
THEOREM EveryDownloadJustified == CallerSpec => []DownloadsJustified
<1>1. CallerInv => DownloadsJustified
    BY GraphIsSound DEF CallerInv
<1>2. QED
    BY <1>1, CallersInvariant, PTL

\* die is never called while a graph is built, and undefined behaviour is met
\* on few paths only: a failed download of a PKGBUILD's dependency; a pointer to
\* the array of names, in the graph or as a key of provides_cache, which is left
\* there by a list read in a database, for --crawl or for a target of -S that
\* another package provides; and --crawl without its tables.
THEOREM UndefinedOnFewPaths == CallerSpec => []UndefinedOnlyThere
<1>1. CallerInv => UndefinedOnlyThere
    BY GraphIsSound DEF CallerInv
<1>2. QED
    BY <1>1, CallersInvariant, PTL
\* What is built was picked, and is in the list topo_install was given.
LEMMA BuiltWasPicked ==
    ASSUME CallerInv, NEW n, WasBuilt(n)
    PROVE  /\ n \in Picked /\ n \in Names /\ lvl = "immediate" /\ verdict = "ordered"
           /\ phase \in {"install", "done"} /\ pc = "end" /\ status \in {"ok", "error"}
<1> USE DEF CallerInv
<1>1. PICK k \in 1..Len(results) : results[k] = <<n, "built">>
    BY DEF WasBuilt
<1>2. /\ results \in Seq(Names \X Answers) /\ Len(results) <= Len(final_targets)
      /\ final_targets \in Seq(Picked) /\ results[k][1] = final_targets[k]
    BY DEF InstallInv, ChosenInv
<1>3. k \in 1..Len(final_targets) /\ results # <<>> /\ final_targets # <<>>
    BY <1>1, <1>2, EmptySeq
<1>4. n = final_targets[k] /\ n \in Picked
    BY <1>1, <1>2, <1>3
<1>5. /\ lvl = "immediate" /\ phase \in {"install", "done"} /\ verdict = "ordered"
    BY <1>3 DEF InstallInv, ChosenInv
<1>6. pc = "end" /\ status \in {"ok", "error"}
    BY <1>5 DEF PhaseInv
<1>7. n \in Names
    BY <1>4 DEF Picked, ResolverInv, TypesOK
<1>8. QED
    BY <1>4, <1>5, <1>6, <1>7

\* A picked package was downloaded and its PKGBUILD read: no other package
\* stands for it.
LEMMA PickedIsResolved ==
    ASSUME CallerInv, NEW n \in Picked, pc = "end", status = "ok", lvl = "immediate"
    PROVE  /\ n \in db.downloaded /\ n \in resolved /\ n \in Names
           /\ n \in ToSet(targets) \/ n \notin world.local
           /\ \A f \in Names : <<f, n>> \in Standing => f = n
<1> USE DEF CallerInv
<1>1. n \in Names /\ db.from[n] = "aur" /\ (n \in aur_outdated \/ n \notin aur)
    BY DEF Picked, IsPicked, ResolverInv, TypesOK
<1>2. aur_outdated = ToSet(targets) /\ call = targets
    BY DEF aur_outdated, PhaseInv
<1>3. /\ ToSet(targets) \subseteq resolved /\ db.downloaded \subseteq resolved
      /\ resolved \cap aur \cap ToSet(targets) \subseteq db.downloaded
    BY <1>2, AllIsResolved
<1>4. /\ n \in aur \cup db.downloaded
      /\ n \in db.downloaded => Justified(n)
    BY <1>1 DEF ResolverInv, DbOK
<1>5. n \in db.downloaded
    BY <1>1, <1>2, <1>3, <1>4
<1>6. CASE n \in aur
    BY <1>1, <1>2, <1>3, <1>5, <1>6 DEF Standing
<1>7. CASE n \notin aur
    <2>1. \A p \in Databases : ~Satisfies(p, n)
        BY <1>4, <1>5, <1>7 DEF Justified
    <2>2. n \notin world.local
        BY <2>1 DEF Databases, Satisfies
    <2>3. \A f \in Names : <<f, n>> \in Standing => f = n
        BY <2>1 DEF Standing, Satisfies, Provides
    <2>4. QED
        BY <1>1, <1>3, <1>5, <2>2, <2>3
<1>8. QED
    BY <1>6, <1>7

\* Dependencies are built before what needs them, and from a graph with a cycle
\* nothing is built at all.
THEOREM BuiltInOrder == CallerSpec => []DependenciesFirst
<1>1. ASSUME CallerInv PROVE DependenciesFirst
    <2>1. \A j, k \in 1..Len(final_targets) :
            <<final_targets[j], final_targets[k]>> \in edges => j < k
        BY <1>1 DEF CallerInv, ChosenInv
    <2>2. ASSUME final_targets # <<>>, NEW S \in (SUBSET nodes) \ {{}} PROVE ~Sort!NoSink(S)
        <3>1. GraphIsAcyclic
            BY <1>1, <2>2 DEF CallerInv, ChosenInv, SortInv
        <3>2. S \in SUBSET nodes /\ S # {}
            BY <2>2
        <3>3. QED
            BY <3>1, <3>2 DEF GraphIsAcyclic
    <2>3. QED
        BY <2>1, <2>2 DEF DependenciesFirst
<1>2. QED
    BY <1>1, CallersInvariant, PTL

\* Unless resolving failed, what is built was downloaded by this run and is a
\* target or was not installed.
THEOREM NothingBuiltNeedlessly == CallerSpec => []BuiltIsNeeded
<1>1. CallerInv => BuiltIsNeeded
    BY BuiltWasPicked, PickedIsResolved DEF BuiltIsNeeded
<1>2. QED
    BY <1>1, CallersInvariant, PTL

\* When all went well every dependency of what was built can be found, in a
\* database or built, and so can every target that is taken from the AUR.
THEOREM CleanRunIsComplete == CallerSpec => []CompleteWhenClean
<1>1. ASSUME CallerInv, phase = "done", lvl = "immediate", status = "ok", verdict = "ordered",
             NothingFailed, \A n \in nodes : db.from[n] # "unknown"
      PROVE  /\ \A n \in Names : WasBuilt(n) => \A d \in Names : DependsOn(n, d) =>
                    \E x \in world.local \cup world.sync \cup {y \in Names : WasBuilt(y)} :
                        Satisfies(x, d)
             /\ \A t \in ToSet(targets) : db.from[t] = "aur" => WasBuilt(t)
    <2> USE <1>1 DEF CallerInv
    <2>1. pc = "end" /\ nodes \subseteq Names /\ edges \subseteq nodes \X nodes
        BY DEF PhaseInv, ResolverInv, TypesOK
    <2>2. ASSUME NEW n \in Picked PROVE WasBuilt(n)
        <3>1. final_targets \in Seq(Picked) /\ Picked \subseteq ToSet(final_targets)
            BY DEF ChosenInv
        <3>2. PICK k \in 1..Len(final_targets) : final_targets[k] = n
            BY <3>1, Members
        <3>3. /\ results \in Seq(Names \X Answers) /\ Len(results) <= Len(final_targets)
              /\ nextTarget = Len(results) + 1 /\ nextTarget > Len(final_targets)
            BY DEF InstallInv
        <3>4. k \in 1..Len(results)
            BY <3>1, <3>2, <3>3
        <3>5. results[k] \in Names \X Answers /\ results[k][1] = n /\ results[k][2] = "built"
            BY <3>2, <3>3, <3>4 DEF InstallInv, NothingFailed
        <3>6. results[k] = <<n, "built">>
            BY <3>5
        <3>7. QED
            BY <3>4, <3>6 DEF WasBuilt
    <2>3. ASSUME NEW n \in Names, WasBuilt(n), NEW d \in Names, DependsOn(n, d)
          PROVE  \E x \in world.local \cup world.sync \cup {y \in Names : WasBuilt(y)} :
                     Satisfies(x, d)
        <3>1. n \in Picked
            BY <2>3, BuiltWasPicked
        <3>2. n \in resolved /\ \A f \in Names : <<f, n>> \in Standing => f = n
            BY <2>1, <3>1, PickedIsResolved
        <3>3. HasEdge(d, n)
            BY <2>3, <3>2 DEF ResolverInv, ResolvedInv, Depending
        <3>4. PICK x \in Names : Satisfies(x, d) /\ <<x, n>> \in edges
            BY <3>3 DEF HasEdge, Satisfying
        <3>5. x \in nodes
            BY <2>1, <3>4
        <3>6. db.from[x] \in {"local", "sync", "aur"}
            BY <3>4, <3>5 DEF ResolverInv, DbOK, DbType
        <3>7. CASE x \in world.local \cup world.sync
            BY <3>4, <3>7
        <3>8. CASE x \notin world.local \cup world.sync
            <4>1. db.from[x] = "aur" /\ x \notin aur
                BY <3>4, <3>6, <3>8 DEF ResolverInv, DbOK, aur
            <4>2. WasBuilt(x)
                BY <2>2, <3>5, <4>1 DEF Picked, IsPicked
            <4>3. QED
                BY <3>4, <4>2
        <3>9. QED
            BY <3>7, <3>8
    <2>4. ASSUME NEW t \in ToSet(targets), db.from[t] = "aur" PROVE WasBuilt(t)
        <3>1. t \in nodes /\ t \in aur_outdated
            BY DEF ResolverInv, WorkInv, aur_outdated
        <3>2. QED
            BY <2>2, <2>4, <3>1 DEF Picked, IsPicked
    <2>5. QED
        BY <2>3, <2>4
<1>2. CallerInv => CompleteWhenClean
    BY <1>1 DEF CompleteWhenClean
<1>3. QED
    BY <1>2, CallersInvariant, PTL
=============================================================================
