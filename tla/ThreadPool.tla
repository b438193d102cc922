----------------------------- MODULE ThreadPool -----------------------------
(***************************************************************************)
(* src/download.c: the pool of download threads.                           *)
(*                                                                         *)
(* The calling thread sets the global job list pw_jobq, creates the        *)
(* workers and joins them.  A worker loops: take the head of pw_jobq,      *)
(* download <package>.tar.gz, extract it, remove it; it leaves the loop    *)
(* when the list is empty or its package failed.  The mutex thread_        *)
(* dl_extract locks is a local variable, so every worker locks its own and *)
(* the accesses to pw_jobq of two workers interleave freely: the load      *)
(* behind alpm_list_getdata, the load behind alpm_list_next and the store  *)
(* of its result are steps of their own here.                              *)
(***************************************************************************)
EXTENDS Naturals, Sequences

CONSTANTS
    Pkgs,           \* package names
    TargetLists,    \* the lists threadpool_dl_extract may be called with
    NULL,           \* the null pointer, not a package
    MaxThreads,     \* the largest config->maxthreads
    Failures        \* what may fail: see AllFailures

AllFailures == {"curl_init", "fopen", "transfer", "archive_open", "extraction",
                "pthread_create", "pthread_join",
                "start"}        \* powaur_get before it calls the pool

ASSUME PoolAssumption ==
    /\ TargetLists \subseteq Seq(Pkgs)
    /\ NULL \notin Pkgs
    /\ MaxThreads \in Nat \ {0}
    /\ Failures \subseteq AllFailures

Threads == 1..MaxThreads

\* A tarball that is neither is the worker still writing it.
Absent == 0
Whole == MaxThreads + 1

VARIABLES
    maxthreads,     \* config->maxthreads, never changed
    targets,        \* the argument of threadpool_dl_extract
    jobq,           \* pw_jobq: a position in targets, Len(targets) + 1 for NULL
    mainpc,         \* the caller: "create", "join", "returned", "died"
    nthr,           \* threads created, then threads joined
    tpc,            \* the next step of each worker
    pkg,            \* the worker's local variable pkg
    next,           \* what alpm_list_next has returned to the worker
    tarball,        \* <package>.tar.gz: Absent, Whole, or the worker that opened
                    \* it last and is still writing it
    dir,            \* what was extracted: "absent" (no PKGBUILD), "damaged" (part
                    \* of it, PKGBUILD included), "complete"
    taken,          \* history: the jobs taken, in order
    failed          \* history: something has failed

queueVars == <<maxthreads, targets, jobq>>
mainVars == <<mainpc, nthr>>
threadVars == <<tpc, pkg, next>>
diskVars == <<tarball, dir>>
history == <<taken, failed>>
poolVars == <<queueVars, mainVars, threadVars, diskVars, history>>

End == Len(targets) + 1         \* the NULL at the end of the list

alpm_list_getdata(item) == IF item = End THEN NULL ELSE targets[item]

SameItem(item) == item                  \* mutant: does not advance
alpm_list_next(item) == IF item = End THEN End ELSE item + 1

\* unlink(filename)
NotUnlinked(p) == tarball               \* mutant: the file is left
Unlinked(p) == [tarball EXCEPT ![p] = Absent]

Goto(t, step) == tpc' = [tpc EXCEPT ![t] = step]

-----------------------------------------------------------------------------
(* The calling thread.                                                     *)

num_threads == IF Len(targets) > maxthreads THEN maxthreads ELSE Len(targets)

\* The state in which threadpool_dl_extract starts to create its threads.
Called(list) ==
    /\ targets' = list
    /\ UNCHANGED maxthreads
    /\ jobq' = 1
    /\ mainpc' = "create"
    /\ nthr' = 0
    /\ tpc' = [t \in Threads |-> "none"]
    /\ pkg' = [t \in Threads |-> NULL]
    /\ next' = [t \in Threads |-> 1]
    /\ taken' = <<>>

CreateThread ==
    /\ mainpc = "create"
    /\ nthr < num_threads
    /\ nthr' = nthr + 1
    /\ Goto(nthr + 1, "init")
    /\ UNCHANGED <<queueVars, mainpc, pkg, next, diskVars, history>>

StartJoining ==
    /\ mainpc = "create"
    /\ nthr = num_threads
    /\ mainpc' = "join"
    /\ nthr' = 0
    /\ UNCHANGED <<queueVars, threadVars, diskVars, history>>

\* Mutant: the thread may still be running.
JoinDetached ==
    /\ mainpc = "join"
    /\ nthr < num_threads
    /\ nthr' = nthr + 1
    /\ UNCHANGED <<queueVars, mainpc, threadVars, diskVars, history>>

\* pthread_join waits for the end of the thread.
JoinThread ==
    /\ mainpc = "join"
    /\ nthr < num_threads
    /\ tpc[nthr + 1] = "gone"
    /\ nthr' = nthr + 1
    /\ UNCHANGED <<queueVars, mainpc, threadVars, diskVars, history>>

\* die_errno: the process exits, and all its threads with it.  A tarball being
\* written stays as a file nobody writes any more.
Die(what) ==
    /\ what \in Failures
    /\ mainpc' = "died"
    /\ tpc' = [t \in Threads |-> IF tpc[t] = "none" THEN "none" ELSE "gone"]
    /\ failed' = TRUE
    /\ UNCHANGED <<queueVars, nthr, pkg, next, diskVars, taken>>

CreateFails == mainpc = "create" /\ nthr < num_threads /\ Die("pthread_create")

JoinFails == mainpc = "join" /\ nthr < num_threads /\ Die("pthread_join")

ReturnFromPool ==
    /\ mainpc = "join"
    /\ nthr = num_threads
    /\ mainpc' = "returned"
    /\ UNCHANGED <<queueVars, nthr, threadVars, diskVars, history>>

Main ==
    \/ CreateThread
    \/ CreateFails
    \/ StartJoining
    \/ JoinThread
    \/ JoinFails
    \/ ReturnFromPool

-----------------------------------------------------------------------------
(* The workers.                                                            *)

\* A step of worker t that failed: the worker leaves its loop.
GiveUp(t, what) ==
    /\ what \in Failures
    /\ failed' = TRUE
    /\ Goto(t, "gone")

CurlInit(t) ==
    /\ tpc[t] = "init"
    /\ \/ Goto(t, "getdata") /\ UNCHANGED failed
       \/ GiveUp(t, "curl_init")
    /\ UNCHANGED <<queueVars, mainVars, pkg, next, diskVars, taken>>

\* pkg = alpm_list_getdata(pw_jobq)
GetData(t) ==
    /\ tpc[t] = "getdata"
    /\ pkg' = [pkg EXCEPT ![t] = alpm_list_getdata(jobq)]
    /\ taken' = IF pkg'[t] = NULL THEN taken ELSE Append(taken, pkg'[t])
    /\ Goto(t, "next")
    /\ UNCHANGED <<queueVars, mainVars, next, diskVars, failed>>

\* alpm_list_next(pw_jobq): pw_jobq is loaded a second time.
GetNext(t) ==
    /\ tpc[t] = "next"
    /\ next' = [next EXCEPT ![t] = alpm_list_next(jobq)]
    /\ Goto(t, "store")
    /\ UNCHANGED <<queueVars, mainVars, pkg, diskVars, history>>

\* Mutants: the worker stops at the last item of the list, before it has
\* downloaded it; the worker goes on when there is no item left.
StoreStopsEarly(t) ==
    /\ tpc[t] = "store"
    /\ jobq' = next[t]
    /\ Goto(t, IF next[t] = End THEN "gone" ELSE "fopen")
    /\ UNCHANGED <<maxthreads, targets, mainVars, pkg, next, diskVars, history>>

StoreNeverStops(t) ==
    /\ tpc[t] = "store"
    /\ jobq' = next[t]
    /\ Goto(t, IF pkg[t] = NULL THEN "getdata" ELSE "fopen")
    /\ UNCHANGED <<maxthreads, targets, mainVars, pkg, next, diskVars, history>>

\* pw_jobq = ..., and the test of pkg.
StoreJobq(t) ==
    /\ tpc[t] = "store"
    /\ jobq' = next[t]
    /\ Goto(t, IF pkg[t] = NULL THEN "gone" ELSE "fopen")
    /\ UNCHANGED <<maxthreads, targets, mainVars, pkg, next, diskVars, history>>

\* fopen(filename, "w") creates the tarball or truncates the one that is there.
\* When it fails, dl_extract_single_package unlinks the file all the same.
OpenTarball(t) ==
    /\ tpc[t] = "fopen"
    /\ \/ /\ tarball' = [tarball EXCEPT ![pkg[t]] = t]
          /\ Goto(t, "transfer")
          /\ UNCHANGED failed
       \/ GiveUp(t, "fopen") /\ tarball' = Unlinked(pkg[t])
    /\ UNCHANGED <<queueVars, mainVars, pkg, next, dir, taken>>

\* The transfer ends.  The file of that name is whole if this worker was the
\* last to open it; it may have been unlinked or truncated by another since.
Transfer(t) ==
    /\ tpc[t] = "transfer"
    /\ \/ /\ tarball' = [tarball EXCEPT ![pkg[t]] = IF @ = t THEN Whole ELSE @]
          /\ Goto(t, "extract")
          /\ UNCHANGED failed
       \/ GiveUp(t, "transfer") /\ tarball' = Unlinked(pkg[t])
    /\ UNCHANGED <<queueVars, mainVars, pkg, next, dir, taken>>

\* extract_file when the archive cannot be opened: the tarball stays.
ArchiveOpenFails(t) ==
    /\ tpc[t] = "extract"
    /\ \/ GiveUp(t, "archive_open")
       \/ tarball[pkg[t]] # Whole /\ failed' = TRUE /\ Goto(t, "gone")
    /\ UNCHANGED <<queueVars, mainVars, pkg, next, diskVars, taken>>

\* extract_file otherwise: the tarball is removed, errors or not.  Of a file
\* that is still being written, any part may be extracted.  An archive whose
\* headers end too early is not counted as an error: the worker goes on.
Extract(t) ==
    /\ tpc[t] = "extract"
    /\ tarball[pkg[t]] # Absent
    /\ tarball' = Unlinked(pkg[t])
    /\ \/ /\ dir' = [dir EXCEPT ![pkg[t]] = "complete"]
          /\ Goto(t, "getdata")
          /\ UNCHANGED failed
       \/ /\ \E part \in {"absent", "damaged"} : dir' = [dir EXCEPT ![pkg[t]] = part]
          /\ "extraction" \in Failures \/ tarball[pkg[t]] # Whole
          /\ failed' = TRUE
          /\ \E step \in {"getdata", "gone"} : Goto(t, step)
    /\ UNCHANGED <<queueVars, mainVars, pkg, next, taken>>

Worker(t) ==
    \/ CurlInit(t)
    \/ GetData(t)
    \/ GetNext(t)
    \/ StoreJobq(t)
    \/ OpenTarball(t)
    \/ Transfer(t)
    \/ ArchiveOpenFails(t)
    \/ Extract(t)

PoolStep == Main \/ \E t \in Threads : Worker(t)

-----------------------------------------------------------------------------
(* One call of the pool, as powaur -G makes without --deps.                *)

PoolInit ==
    /\ maxthreads \in 1..MaxThreads
    /\ targets \in TargetLists
    /\ jobq = 1
    /\ mainpc = "create"
    /\ nthr = 0
    /\ tpc = [t \in Threads |-> "none"]
    /\ pkg = [t \in Threads |-> NULL]
    /\ next = [t \in Threads |-> 1]
    /\ tarball = [p \in Pkgs |-> Absent]
    /\ dir = [p \in Pkgs |-> "absent"]
    /\ taken = <<>>
    /\ failed = FALSE

PoolSpec == PoolInit /\ [][PoolStep]_poolVars

\* Every thread is scheduled, and a transfer ends, well or badly.  Nothing says
\* that a call of the caller ever fails.
Runs == Main /\ mainpc' # "died"

PoolFairness ==
    /\ WF_poolVars(Runs)
    /\ \A t \in Threads : WF_poolVars(Worker(t))

FairPoolSpec == PoolSpec /\ PoolFairness

-----------------------------------------------------------------------------
(* Properties.                                                             *)

PoolTypeOK ==
    /\ maxthreads \in 1..MaxThreads
    /\ targets \in Seq(Pkgs)
    /\ jobq \in 1..End
    /\ mainpc \in {"create", "join", "returned", "died"}
    /\ nthr \in 0..num_threads
    /\ tpc \in [Threads -> {"none", "init", "getdata", "next", "store", "fopen",
                            "transfer", "extract", "gone"}]
    /\ pkg \in [Threads -> Pkgs \cup {NULL}]
    /\ next \in [Threads -> 1..End]
    /\ tarball \in [Pkgs -> Threads \cup {Absent, Whole}]
    /\ dir \in [Pkgs -> {"absent", "damaged", "complete"}]
    /\ taken \in Seq(Pkgs)
    /\ failed \in BOOLEAN

\* When threadpool_dl_extract returns, no worker is left that could still
\* write the disk or pw_jobq: the next round may read the PKGBUILDs.
QuietOnReturn ==
    mainpc = "returned" => \A t \in Threads : tpc[t] \in {"none", "gone"}

\* One target, or maxthreads = 1: no two workers.
Alone == num_threads = 1

\* What a single worker leaves: a tarball is on the disk only while it is busy
\* with its package, or after something failed.
NoTarballLeft ==
    Alone /\ ~failed =>
        \A p \in Pkgs : tarball[p] # Absent =>
            \E t \in Threads : pkg[t] = p /\ tpc[t] \in {"transfer", "extract"}

\* powaur.1.txt:13 on -G: "Download PKGBUILDS from the AUR.  PKGBUILDS are
\* downloaded as tarballs, then extracted into the current working directory."
\* When nothing fails, every target is extracted when the pool returns.
EveryTargetExtracted ==
    mainpc = "returned" /\ ~failed =>
        \A k \in 1..Len(targets) : dir[targets[k]] = "complete"

\* A single worker does that.
AloneExtractsAll == Alone => EveryTargetExtracted

\* Whatever the interleaving, the workers reach the end of the list and the
\* pool returns, unless the process dies of a thread it could not create or
\* join: stores of stale pointers cannot send them back for ever.
PoolReturns == <>(mainpc \in {"returned", "died"})

Jobs == INSTANCE JobQueue WITH jobs <- targets, over <- (mainpc = "returned")

\* A single worker takes the jobs one by one, each once, in the order of the
\* list, and the pool does not return before the last one unless something
\* failed.
TakesEachJobOnce ==
    /\ Alone => Jobs!Init
    /\ [][Alone => Jobs!Next]_<<targets, taken, failed, mainpc = "returned">>
=============================================================================
