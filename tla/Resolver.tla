------------------------------ MODULE Resolver ------------------------------
(***************************************************************************)
(* src/query.c: normalize_package, crawl_resolve and build_dep_graph, with *)
(* the tables of src/hashdb.c they work on.                                *)
(*                                                                         *)
(* build_dep_graph turns targets into a graph of packages, an edge from    *)
(* each dependency to what needs it.  It pops a package, looks where it is *)
(* from, reads its dependencies in a database or in its PKGBUILD, replaces *)
(* each by the package that satisfies it (downloading from the AUR what no *)
(* database has) and pushes those that are to be resolved in turn.         *)
(*                                                                         *)
(* RESOLVE_IMMEDIATE (-S, -Su) follows only packages just downloaded;      *)
(* RESOLVE_THOROUGH (--crawl) follows all.  The code has undefined         *)
(* behaviour on some paths; "undefined" stands for all that may follow.    *)
(***************************************************************************)
EXTENDS Naturals, Sequences, SequencesExt

CONSTANTS
    Names,          \* package names, those of provided packages among them
    NULL,           \* the null pointer: normalize_package failed
    DANGLING,       \* a pointer to crawl_resolve's stack frame
    Worlds,         \* what the databases and the AUR may hold, see WorldType
    Requests,       \* records of a resolve level and a list of targets
    MayFail         \* whether the download of a package the AUR has may fail,
                    \* or getcwd or chdir on the way to its PKGBUILD

WorldType ==
    [local : SUBSET Names,              \* installed packages
     sync : SUBSET Names,               \* packages of the repositories
     localProvides : [Names -> SUBSET Names],
     syncProvides : [Names -> SUBSET Names],
     depends : [Names -> Seq(Names)],   \* in a database and in the PKGBUILD
     onAur : SUBSET Names,              \* what can be downloaded
     stale : SUBSET Names]              \* directories left by earlier runs

Levels == {"immediate", "thorough"}

ASSUME ResolverAssumption ==
    /\ NULL \notin Names /\ DANGLING \notin Names /\ NULL # DANGLING
    /\ Worlds \subseteq WorldType
    /\ \A w \in Worlds : \A n \in Names :
          w.localProvides[n] \subseteq w.local /\ w.syncProvides[n] \subseteq w.sync
    /\ Requests \subseteq [lvl : Levels, targets : Seq(Names)]
    /\ MayFail \in BOOLEAN

VARIABLES
    world,          \* one of Worlds, never changed
    lvl,            \* resolve_lvl, never changed
    targets,        \* the targets of the caller, never changed
    call,           \* those build_dep_graph is called for, set by the caller
    db,             \* the tables of struct pw_hashdb that change, see DbType
    nodes, edges,   \* the graph: edges are pairs <<dependency, package>>
    stack,          \* st, the top is the last one
    resolved,
    cur,            \* the package being resolved
    reading,        \* where its dependencies come from: "db" or "PKGBUILD"
    todo,           \* its dependencies not normalized yet
    deps,           \* those normalized and not linked yet
    pc,             \* "pop", "deps", "link", "end"
    status          \* "ok", "error", "died" (die was called), "undefined"

inputVars == <<world, lvl, targets, call>>
graphVars == <<nodes, edges>>
depVars == <<cur, reading, todo, deps>>
resolverVars == <<inputVars, db, graphVars, stack, resolved, depVars, pc, status>>

DbType ==
    [from : [Names -> {"unknown", "local", "sync", "aur"}],     \* pkg_from
     provided : [Names -> Names \cup {NULL}],                   \* provides_cache
     inBuf : SUBSET Names,      \* keys of provides_cache that are the array buf
     downloaded : SUBSET Names,                                 \* aur_downloaded
     fetches : [Names -> Nat]]      \* history: how often it was extracted

-----------------------------------------------------------------------------
(* The tables.                                                             *)

\* hashdb->aur: installed, in no repository.
aur == world.local \ world.sync

\* hashdb->aur_outdated: upgrade_pkgs enters its targets, powaur_crawl none.
aur_outdated == IF lvl = "immediate" THEN ToSet(targets) ELSE {}

UpToDate(n) == lvl = "immediate" /\ n \in aur \ aur_outdated

\* build_hashdb
NewDb(w) ==
    [from |-> [n \in Names |-> IF n \in w.local \ w.sync THEN "aur" ELSE "unknown"],
     provided |-> [n \in Names |-> NULL],
     inBuf |-> {},
     downloaded |-> {},
     fetches |-> [n \in Names |-> 0]]

\* hashmap_insert keeps the value of a key it has.
Learn(d, n, origin) ==
    IF d.from[n] = "unknown" THEN [d EXCEPT !.from[n] = origin] ELSE d
Cache(d, n, provider) ==
    IF d.provided[n] = NULL THEN [d EXCEPT !.provided[n] = provider] ELSE d

\* hashbst_tree_search walks the providers in a fixed order.
FirstOf(S) == CHOOSE p \in S : TRUE

-----------------------------------------------------------------------------
(* normalize_package: the set of results it may have.                      *)

Found(n, d) == {[name |-> n, db |-> d]}

\* dl_extract_single_package
Outcomes(n) ==
    {n \in world.onAur} \cup (IF MayFail THEN {FALSE} ELSE {})

\* Mutant: aur_downloaded is not updated.
DownloadedUnrecorded(d, n) == Learn([d EXCEPT !.fetches[n] = @ + 1], n, "aur")
Downloaded(d, n) ==
    Learn([d EXCEPT !.downloaded = @ \cup {n}, !.fetches[n] = @ + 1], n, "aur")

search_aur(d, n) ==
    IF UpToDate(n)
    THEN Found(n, d)
    ELSE UNION {IF ok THEN Found(n, Downloaded(d, n)) ELSE Found(NULL, d) : ok \in Outcomes(n)}

search_databases(d, n) ==
    LET localProviders == world.localProvides[n]
        installed == world.syncProvides[n] \cap world.local
        syncProviders == world.syncProvides[n]
    IN  IF d.provided[n] # NULL
        THEN Found(d.provided[n], d)
        ELSE IF localProviders # {}
        THEN LET p == FirstOf(localProviders)
             IN  Found(p, Learn(Cache(d, n, p), p, "local"))
        ELSE IF installed # {}
        THEN Found(FirstOf(installed), Learn(d, FirstOf(installed), "local"))
        ELSE IF n \in world.sync
        THEN Found(n, Learn(d, n, "sync"))
        ELSE IF syncProviders # {}
        THEN LET p == FirstOf(syncProviders)
             IN  Found(p, Learn(Cache(d, n, p), p, "sync"))
        ELSE search_aur(d, n)

normalize_package(d, n) ==
    IF d.from[n] = "aur" /\ n \notin d.downloaded
    THEN search_aur(d, n)
    ELSE IF d.from[n] # "unknown"
    THEN Found(n, d)
    ELSE IF n \in world.local
    THEN IF n \in aur THEN search_aur(d, n) ELSE Found(n, Learn(d, n, "local"))
    ELSE search_databases(d, n)

-----------------------------------------------------------------------------
(* build_dep_graph.                                                        *)

\* The state in which build_dep_graph is called by upgrade_pkgs, which has
\* put the targets into the graph, all of which the AUR knows of (sync_targets
\* and get_outdated_pkgs drop the others), or by powaur_crawl, which calls it
\* for one target after the other.
ResolverInit ==
    /\ world \in Worlds
    /\ \E r \in Requests : lvl = r.lvl /\ targets = r.targets
    /\ lvl = "immediate" => ToSet(targets) \subseteq world.onAur
    /\ db = NewDb(world)
    /\ nodes = aur_outdated
    /\ edges = {}
    /\ targets # <<>>
    /\ call = IF lvl = "immediate" THEN targets ELSE <<Head(targets)>>
    /\ stack = call
    /\ resolved = {}
    /\ cur = NULL
    /\ reading = "db"
    /\ todo = <<>>
    /\ deps = <<>>
    /\ pc = "pop"
    /\ status = "ok"

End(outcome) == pc' = "end" /\ status' = outcome

\* curl_easy_new fails: build_dep_graph returns without a word to its caller.
CurlFails ==
    /\ pc = "pop"
    /\ resolved = {}
    /\ End("error")
    /\ UNCHANGED <<inputVars, db, graphVars, stack, resolved, depVars>>

SkipResolved ==
    /\ pc = "pop"
    /\ stack # <<>>
    /\ Last(stack) \in resolved
    /\ stack' = Front(stack)
    /\ UNCHANGED <<inputVars, db, graphVars, resolved, depVars, pc, status>>

\* get_deps reads the package found in a database; it dies without one.
ReadDatabase(n, table) ==
    \/ /\ n \in table
       /\ reading' = "db"
       /\ todo' = world.depends[n]
       /\ pc' = "deps"
       /\ UNCHANGED status
    \/ /\ n \notin table
       /\ End("died")
       /\ UNCHANGED <<reading, todo>>

\* aur_deps: an installed package that is up to date is read in the local
\* database, of the others the PKGBUILD, in the directory of its name.
ReadAur(n) ==
    \/ UpToDate(n) /\ ReadDatabase(n, aur)
    \/ /\ ~UpToDate(n)
       /\ n \in db'.downloaded \cup world.stale
       /\ reading' = "PKGBUILD"
       /\ todo' = world.depends[n]
       /\ pc' = "deps"
       /\ UNCHANGED status
    \/ /\ ~UpToDate(n)
       /\ MayFail \/ n \notin db'.downloaded \cup world.stale
       /\ End("error")
       /\ UNCHANGED <<reading, todo>>

\* crawl_resolve, to the list of dependencies; final is final_pkgname.
Resolve ==
    /\ pc = "pop"
    /\ stack # <<>>
    /\ Last(stack) \notin resolved
    /\ cur' = Last(stack)
    /\ stack' = Front(stack)
    /\ deps' = <<>>
    /\ \E r \in normalize_package(db, Last(stack)) :
          /\ db' = r.db
          /\ \/ r.name = NULL /\ End("error") /\ UNCHANGED <<reading, todo>>
             \/ /\ r.name # NULL
                /\ \/ /\ db'.from[r.name] = "unknown"
                      /\ End("died")
                      /\ UNCHANGED <<reading, todo>>
                   \/ db'.from[r.name] = "local" /\ ReadDatabase(r.name, world.local)
                   \/ db'.from[r.name] = "sync" /\ ReadDatabase(r.name, world.sync)
                   \/ db'.from[r.name] = "aur" /\ ReadAur(r.name)
    /\ UNCHANGED <<inputVars, graphVars, resolved>>

\* A dependency from a PKGBUILD; a failed download is not looked at.
NormalizeDep ==
    /\ pc = "deps"
    /\ reading = "PKGBUILD"
    /\ todo # <<>>
    /\ \E r \in normalize_package(db, Head(todo)) :
          db' = r.db /\ deps' = Append(deps, r.name)
    /\ todo' = Tail(todo)
    /\ UNCHANGED <<inputVars, graphVars, stack, resolved, cur, reading, pc, status>>

\* An entry that the search for n has made in provides_cache has for its key
\* the pointer n was passed by, here the array buf of crawl_resolve.
KeyedByArray(d, before, n) ==
    [d EXCEPT !.inBuf =
        IF before.provided[n] = NULL /\ d.provided[n] # NULL THEN @ \cup {n} ELSE @]

\* A dependency from a database: its name is in an array on the stack, so the
\* array is what normalize_package returns when it returns its argument.
NormalizeDbDep ==
    /\ pc = "deps"
    /\ reading = "db"
    /\ todo # <<>>
    /\ \E r \in normalize_package(db, Head(todo)) :
          /\ db' = KeyedByArray(r.db, db, Head(todo))
          /\ r.name # NULL
          /\ deps' = Append(deps, IF r.name = Head(todo) THEN DANGLING ELSE r.name)
    /\ todo' = Tail(todo)
    /\ UNCHANGED <<inputVars, graphVars, stack, resolved, cur, reading, pc, status>>

\* Keys of pkg_from that point into the array dangle as well.
DbDepFails ==
    /\ pc = "deps"
    /\ reading = "db"
    /\ todo # <<>>
    /\ \E r \in normalize_package(db, Head(todo)) : r.name = NULL /\ db' = r.db
    /\ End(IF Contains(deps, DANGLING) THEN "undefined" ELSE "error")
    /\ UNCHANGED <<inputVars, graphVars, stack, resolved, depVars>>

\* A later search of provides_cache for the same name, by a target or by a
\* dependency, compares it with the dead array (for another name the hashes
\* differ): it finds what the table says, or anything.
ComparesWithArray(n) == n \in db.inBuf /\ n \notin world.local /\ db.from[n] = "unknown"

ReadsDeadKey ==
    /\ \/ pc = "pop" /\ stack # <<>> /\ Last(stack) \notin resolved
          /\ ComparesWithArray(Last(stack))
       \/ pc = "deps" /\ todo # <<>> /\ ComparesWithArray(Head(todo))
    /\ End("undefined")
    /\ UNCHANGED <<inputVars, db, graphVars, stack, resolved, depVars>>

DepsRead ==
    /\ pc = "deps"
    /\ todo = <<>>
    /\ pc' = "link"
    /\ UNCHANGED <<inputVars, db, graphVars, stack, resolved, depVars, status>>

\* should_we_continue_resolving(d), which leaves the tables d2
ContinuesIfOutdated(d2, d) == lvl = "thorough" \/ d \in aur_outdated   \* mutant
ContinuesIfKnown(d2, d) == d2.from[d] # "unknown"                       \* mutant
Continues(d2, d) == lvl = "thorough" \/ d \in d2.downloaded

\* One turn of the loop over deps: graph_add_edge, dep --> current.
Link ==
    /\ pc = "link"
    /\ deps # <<>>
    /\ Head(deps) \in Names
    /\ \E r \in IF lvl = "immediate" THEN normalize_package(db, Head(deps))
                ELSE Found(Head(deps), db) :
          /\ db' = r.db
          /\ stack' = IF Continues(r.db, r.name) THEN Append(stack, Head(deps)) ELSE stack
    /\ nodes' = nodes \cup {Head(deps), cur}
    /\ edges' = edges \cup {<<Head(deps), cur>>}
    /\ deps' = Tail(deps)
    /\ UNCHANGED <<inputVars, resolved, cur, reading, todo, pc, status>>

\* graph_add_edge on a null pointer writes before the array of vertices; the
\* dangling pointer names whatever is there by then.
LinkBadPointer ==
    /\ pc = "link"
    /\ deps # <<>>
    /\ Head(deps) \in {NULL, DANGLING}
    /\ End("undefined")
    /\ UNCHANGED <<inputVars, db, graphVars, stack, resolved, depVars>>

PackageDone ==
    /\ pc = "link"
    /\ deps = <<>>
    /\ resolved' = resolved \cup {cur}
    /\ pc' = "pop"
    /\ UNCHANGED <<inputVars, db, graphVars, stack, depVars, status>>

GraphBuilt ==
    /\ pc = "pop"
    /\ stack = <<>>
    /\ End("ok")
    /\ UNCHANGED <<inputVars, db, graphVars, stack, resolved, depVars>>

ResolverStep ==
    \/ CurlFails
    \/ SkipResolved
    \/ Resolve
    \/ NormalizeDep
    \/ NormalizeDbDep
    \/ DbDepFails
    \/ ReadsDeadKey
    \/ DepsRead
    \/ Link
    \/ LinkBadPointer
    \/ PackageDone
    \/ GraphBuilt

-----------------------------------------------------------------------------
(* Properties.                                                             *)

ResolverTypeOK ==
    /\ world \in WorldType
    /\ [lvl |-> lvl, targets |-> targets] \in Requests
    /\ call \in Seq(ToSet(targets))
    /\ db \in DbType
    /\ nodes \subseteq Names
    /\ edges \subseteq nodes \X nodes
    /\ stack \in Seq(Names)
    /\ resolved \subseteq Names
    /\ cur \in Names \cup {NULL}
    /\ reading \in {"db", "PKGBUILD"}
    /\ todo \in Seq(Names)
    /\ deps \in Seq(Names \cup {NULL, DANGLING})
    /\ pc \in {"pop", "deps", "link", "end"}
    /\ status \in {"ok", "error", "died", "undefined"}

Satisfies(p, d) == p = d \/ p \in world.localProvides[d] \cup world.syncProvides[d]
DependsOn(p, d) == d \in ToSet(world.depends[p])
Built == pc = "end" /\ status = "ok"

\* The graph build_dep_graph leaves has an edge for every dependency of every
\* package it resolved, from a package that satisfies it, and no other edge, of
\* packages resolved for another target of --crawl or of any other.
GraphIsExact ==
    /\ Built => \A p \in resolved : \E f \in Names :
          /\ Satisfies(f, p)
          /\ \A d \in Names : DependsOn(f, d) =>
                \E x \in Names : Satisfies(x, d) /\ <<x, p>> \in edges
    /\ \A e \in edges :
          /\ e[2] \in resolved \cup {cur}
          /\ \E f, d \in Names : Satisfies(f, e[2]) /\ DependsOn(f, d) /\ Satisfies(e[1], d)

\* topo_install assumes that what is to be built was resolved: the targets and
\* whatever was downloaded on the way; for --crawl it is the whole graph.
EverythingResolved ==
    Built => ToSet(call) \cup (IF lvl = "thorough" THEN nodes ELSE db.downloaded)
                \subseteq resolved

\* Each package is downloaded once, only if it satisfies a target or a
\* dependency, and only if no database has a package that satisfies it.  NEWS,
\* 0.1.5: "-S: Only resolve deps for new / out-of-date AUR packages": -S leaves
\* a package that is installed from the AUR and up to date alone.
DownloadsJustified ==
    \A n \in Names : db.fetches[n] > 0 =>
        /\ db.fetches[n] = 1
        /\ \E d \in ToSet(targets) \cup {e \in Names : \E p \in Names : DependsOn(p, e)} :
              Satisfies(n, d)
        /\ IF n \in aur
           THEN lvl = "thorough" \/ n \in ToSet(targets)
           ELSE \A p \in world.local \cup world.sync : ~Satisfies(p, n)

\* query.c:323 and 347 ("Shouldn't happen"): crawl_resolve always knows where
\* a normalized package is from, and finds it there.  query.c:358: "Possibility
\* of normalize_package fail due to AUR download failing": a null pointer from a
\* failed download goes into the graph when it comes from a PKGBUILD.  A pointer
\* to the array of names is left in the graph or in provides_cache only by a
\* list that was read in a database: for --crawl, or for a target of -S that
\* another package provides.  --crawl goes on without the tables as well, and
\* then fails on its first target.
ReadInDatabase(p) ==
    lvl = "thorough" \/ \E t \in ToSet(targets) \ db.downloaded : Satisfies(p, t)

UndefinedOnlyThere ==
    /\ status # "died"
    /\ status = "undefined" =>
          \/ reading = "PKGBUILD" /\ NULL \in ToSet(deps)
          \/ reading = "db" /\ DANGLING \in ToSet(deps)
                /\ (lvl = "thorough" \/ cur \in ToSet(targets) \ db.downloaded)
          \/ \E d \in db.inBuf :
                /\ d \notin world.local /\ world.localProvides[d] \cup world.syncProvides[d] # {}
                /\ \E p \in Names : DependsOn(p, d) /\ ReadInDatabase(p)
          \/ lvl = "thorough" /\ cur = NULL
=============================================================================
