--------------------------- MODULE DownloadProofs ---------------------------
(* Proofs about the pool (ThreadPool) and about powaur -G --deps, which runs *)
(* it in rounds (GetPkgbuilds): for every list of targets, every limit of    *)
(* threads, every dependency relation and any number of interruptions.  What *)
(* racing workers download and why is proved for all of them; that each      *)
(* target is extracted, and once, only for a single worker: racing workers   *)
(* lose jobs and take others twice.                                          *)
EXTENDS GetPkgbuilds, SequenceTheorems, TLAPS

-----------------------------------------------------------------------------
(* The pool: types.                                                         *)

LEMMA InitTyped == PoolInit => PoolTypeOK
<1>1. SUFFICES ASSUME PoolInit PROVE PoolTypeOK
    OBVIOUS
<1> USE PoolAssumption DEF PoolInit, Threads, Absent, Whole, End, num_threads
<1>2. targets \in Seq(Pkgs) /\ Len(targets) \in Nat
    BY <1>1
<1>3. maxthreads \in 1..MaxThreads /\ jobq \in 1..End /\ nthr \in 0..num_threads
    BY <1>1, <1>2
<1>4. mainpc \in {"create", "join", "returned", "died"} /\ failed \in BOOLEAN
    BY <1>1
<1>5. /\ tpc \in [Threads -> {"none", "init", "getdata", "next", "store", "fopen",
                              "transfer", "extract", "gone"}]
      /\ pkg \in [Threads -> Pkgs \cup {NULL}]
      /\ next \in [Threads -> 1..End]
    BY <1>1, <1>2
<1>6. /\ tarball \in [Pkgs -> Threads \cup {Absent, Whole}]
      /\ dir \in [Pkgs -> {"absent", "damaged", "complete"}]
    BY <1>1
<1>7. taken \in Seq(Pkgs)
    BY <1>1
<1>8. QED
    BY <1>2, <1>3, <1>4, <1>5, <1>6, <1>7 DEF PoolTypeOK

\* A thread that cannot be created or joined ends the process.
LEMMA Dying ==
    ASSUME PoolTypeOK, CreateFails \/ JoinFails
    PROVE  /\ mainpc \in {"create", "join"} /\ mainpc' = "died" /\ failed' = TRUE
           /\ UNCHANGED <<maxthreads, targets, jobq, nthr, pkg, next, tarball, dir, taken>>
           /\ UNCHANGED <<num_threads, End>>
           /\ tpc' \in [Threads -> {"none", "gone"}]
           /\ \A t \in Threads : tpc[t] = "none" => tpc'[t] = "none"
           /\ \A t \in Threads : tpc[t] # "none" => tpc'[t] = "gone"
<1>1. /\ mainpc \in {"create", "join"} /\ mainpc' = "died" /\ failed' = TRUE
      /\ UNCHANGED <<maxthreads, targets, jobq, nthr, pkg, next, tarball, dir, taken>>
      /\ tpc' = [t \in Threads |-> IF tpc[t] = "none" THEN "none" ELSE "gone"]
    BY DEF CreateFails, JoinFails, Die, queueVars, diskVars
<1>2. QED
    BY <1>1 DEF num_threads, End

LEMMA NextTyped == PoolTypeOK /\ [PoolStep]_poolVars => PoolTypeOK'
<1>1. SUFFICES ASSUME PoolTypeOK, [PoolStep]_poolVars PROVE PoolTypeOK'
    OBVIOUS
<1> USE PoolAssumption DEF PoolTypeOK, Threads, Absent, Whole, End, num_threads
<1>2. CASE CreateThread
    BY <1>1, <1>2 DEF CreateThread, Goto, queueVars, diskVars, history
<1>3. CASE StartJoining
    BY <1>1, <1>3 DEF StartJoining, queueVars, threadVars, diskVars, history
<1>4. CASE JoinThread
    BY <1>1, <1>4 DEF JoinThread, queueVars, threadVars, diskVars, history
<1>5. CASE ReturnFromPool
    BY <1>1, <1>5 DEF ReturnFromPool, queueVars, threadVars, diskVars, history
<1>6. ASSUME NEW t \in Threads, CurlInit(t) PROVE PoolTypeOK'
    BY <1>1, <1>6 DEF CurlInit, GiveUp, Goto, queueVars, mainVars, diskVars
<1>7. ASSUME NEW t \in Threads, GetData(t) PROVE PoolTypeOK'
    <2>1. alpm_list_getdata(jobq) \in Pkgs \cup {NULL}
        BY <1>1 DEF alpm_list_getdata
    <2>2. pkg' \in [Threads -> Pkgs \cup {NULL}] /\ taken' \in Seq(Pkgs)
        BY <1>1, <1>7, <2>1 DEF GetData
    <2>3. QED
        BY <1>1, <1>7, <2>2 DEF GetData, Goto, queueVars, mainVars, diskVars
<1>8. ASSUME NEW t \in Threads, GetNext(t) PROVE PoolTypeOK'
    <2>1. alpm_list_next(jobq) \in 1..End
        BY <1>1 DEF alpm_list_next
    <2>2. QED
        BY <1>1, <1>8, <2>1 DEF GetNext, Goto, queueVars, mainVars, diskVars, history
<1>9. ASSUME NEW t \in Threads, StoreJobq(t) PROVE PoolTypeOK'
    BY <1>1, <1>9 DEF StoreJobq, Goto, mainVars, diskVars, history
<1>10. ASSUME NEW t \in Threads, OpenTarball(t) PROVE PoolTypeOK'
    BY <1>1, <1>10 DEF OpenTarball, GiveUp, Goto, Unlinked, queueVars, mainVars
<1>11. ASSUME NEW t \in Threads, Transfer(t) PROVE PoolTypeOK'
    BY <1>1, <1>11 DEF Transfer, GiveUp, Goto, Unlinked, queueVars, mainVars
<1>12. ASSUME NEW t \in Threads, ArchiveOpenFails(t) PROVE PoolTypeOK'
    BY <1>1, <1>12 DEF ArchiveOpenFails, GiveUp, Goto, queueVars, mainVars, diskVars
<1>13. ASSUME NEW t \in Threads, Extract(t) PROVE PoolTypeOK'
    BY <1>1, <1>13 DEF Extract, Goto, Unlinked, queueVars, mainVars
<1>14. CASE UNCHANGED poolVars
    BY <1>1, <1>14 DEF poolVars, queueVars, mainVars, threadVars, diskVars, history
<1>15. CASE CreateFails \/ JoinFails
    BY <1>1, <1>15, Dying
<1>16. QED
    BY <1>1, <1>2, <1>3, <1>4, <1>5, <1>6, <1>7, <1>8, <1>9, <1>10, <1>11, <1>12, <1>13,
       <1>14, <1>15 DEF PoolStep, Main, Worker

\* Every variable of the pool keeps its type, for every number of threads: a
\* stale pointer into pw_jobq never leads out of the list.
THEOREM PoolTyped == PoolSpec => []PoolTypeOK
<1>1. PoolInit => PoolTypeOK
    BY InitTyped
<1>2. PoolTypeOK /\ [PoolStep]_poolVars => PoolTypeOK'
    BY NextTyped
<1>3. QED
    BY <1>1, <1>2, PTL DEF PoolSpec

-----------------------------------------------------------------------------
(* The caller waits for its workers.                                       *)

\* Threads not created yet do nothing; those that were joined are gone.
Joined ==
    /\ mainpc = "create" => \A t \in Threads : t > nthr => tpc[t] = "none"
    /\ mainpc = "join" => \A t \in Threads :
          (t <= nthr => tpc[t] = "gone") /\ (t > num_threads => tpc[t] = "none")
    /\ mainpc = "died" => \A t \in Threads : tpc[t] \in {"none", "gone"}
    /\ QuietOnReturn

\* A worker that was not created, or is gone, makes no step, and no worker
\* moves another one or the caller.
LEMMA WorkerMoves ==
    ASSUME PoolTypeOK, NEW t \in Threads, Worker(t)
    PROVE  /\ tpc[t] \notin {"none", "gone"}
           /\ \A u \in Threads : u # t => tpc'[u] = tpc[u]
           /\ UNCHANGED <<mainpc, nthr, num_threads>>
<1>1. tpc \in [Threads -> {"none", "init", "getdata", "next", "store", "fopen",
                           "transfer", "extract", "gone"}]
    BY DEF PoolTypeOK
<1>2. QED
    BY <1>1 DEF Worker, CurlInit, GetData, GetNext, StoreJobq, OpenTarball, Transfer,
        ArchiveOpenFails, Extract, GiveUp, Goto, queueVars, mainVars, num_threads

LEMMA NextJoined == PoolTypeOK /\ Joined /\ [PoolStep]_poolVars => Joined'
<1> SUFFICES ASSUME PoolTypeOK, Joined, [PoolStep]_poolVars PROVE Joined'
    OBVIOUS
<1>1. /\ nthr \in Nat /\ num_threads \in Nat /\ nthr <= num_threads
      /\ \A t \in Threads : t \in Nat /\ t > 0
      /\ tpc \in [Threads -> {"none", "init", "getdata", "next", "store", "fopen",
                              "transfer", "extract", "gone"}]
    BY PoolAssumption DEF PoolTypeOK, num_threads, Threads
<1>2. CASE CreateThread
    BY <1>1, <1>2 DEF CreateThread, Joined, QuietOnReturn, Goto
<1>3. CASE StartJoining
    BY <1>1, <1>3 DEF StartJoining, Joined, QuietOnReturn, threadVars, queueVars, num_threads
<1>4. CASE JoinThread
    <2>1. UNCHANGED <<tpc, mainpc, num_threads>> /\ nthr' = nthr + 1 /\ mainpc = "join"
        BY <1>4 DEF JoinThread, threadVars, queueVars, num_threads
    <2>2. tpc[nthr + 1] = "gone"
        BY <1>4 DEF JoinThread
    <2>3. \A t \in Threads : t <= nthr + 1 => t <= nthr \/ t = nthr + 1
        BY <1>1
    <2>4. QED
        BY <1>1, <2>1, <2>2, <2>3 DEF Joined, QuietOnReturn
<1>5. CASE ReturnFromPool
    <2>1. UNCHANGED tpc /\ mainpc = "join" /\ mainpc' = "returned" /\ nthr = num_threads
        BY <1>5 DEF ReturnFromPool, threadVars
    <2>2. \A t \in Threads : tpc[t] \in {"none", "gone"}
        BY <1>1, <2>1 DEF Joined
    <2>3. QED
        BY <2>1, <2>2 DEF Joined, QuietOnReturn
<1>6. ASSUME NEW t \in Threads, Worker(t) PROVE Joined'
    BY <1>1, <1>6, WorkerMoves DEF Joined, QuietOnReturn
<1>7. CASE UNCHANGED poolVars
    BY <1>7 DEF poolVars, queueVars, mainVars, threadVars, Joined, QuietOnReturn, num_threads
<1>8. CASE CreateFails \/ JoinFails
    BY <1>8, Dying DEF Joined, QuietOnReturn
<1>9. QED
    BY <1>2, <1>3, <1>4, <1>5, <1>6, <1>7, <1>8 DEF PoolStep, Main

\* threadpool_dl_extract returns when its last worker has ended, whatever the
\* workers do to pw_jobq and whatever fails.
THEOREM PoolQuiet == PoolSpec => []QuietOnReturn
<1>1. PoolInit => Joined
    BY DEF PoolInit, Joined, QuietOnReturn
<1>2. QED
    BY <1>1, InitTyped, NextTyped, NextJoined, PTL DEF PoolSpec, Joined

-----------------------------------------------------------------------------
(* The pool with a single worker.                                           *)

Clean == \A p \in Pkgs : tarball[p] = Absent
Extracted(n) == \A k \in 1..n : dir[targets[k]] = "complete"

\* Until something fails, worker 1 has dealt with all jobs before jobq, but for
\* the one it is busy with.
Progress ==
    /\ tpc[1] \in {"none", "init", "getdata", "next", "store"} => Clean /\ Extracted(jobq - 1)
    /\ tpc[1] \in {"next", "store"} => pkg[1] = alpm_list_getdata(jobq)
    /\ tpc[1] = "store" => next[1] = alpm_list_next(jobq)
    /\ tpc[1] \in {"fopen", "transfer", "extract"} =>
          jobq > 1 /\ pkg[1] = targets[jobq - 1] /\ Extracted(jobq - 2)
    /\ tpc[1] = "fopen" => Clean
    /\ tpc[1] \in {"transfer", "extract"} => \A p \in Pkgs : p # pkg[1] => tarball[p] = Absent
    /\ tpc[1] = "extract" => tarball[pkg[1]] = Whole
    /\ tpc[1] = "transfer" => tarball[pkg[1]] = 1
    /\ tpc[1] = "gone" => Clean /\ Extracted(Len(targets))

AloneInv ==
    Alone =>
        /\ \A t \in Threads : t # 1 => tpc[t] = "none"
        /\ mainpc = "returned" => tpc[1] = "gone"
        /\ ~failed => Progress

LEMMA InitAlone == PoolInit => AloneInv
    BY PoolAssumption DEF PoolInit, AloneInv, Progress, Clean, Extracted, Threads

LEMMA NextAlone == PoolTypeOK /\ Joined /\ AloneInv /\ [PoolStep]_poolVars => AloneInv'
<1> SUFFICES ASSUME PoolTypeOK, Joined, AloneInv, [PoolStep]_poolVars, Alone'
             PROVE  AloneInv'
    BY DEF AloneInv
<1>1. Alone /\ num_threads = 1 /\ UNCHANGED <<maxthreads, targets>>
    <2>1. UNCHANGED <<maxthreads, targets>>
        BY DEF PoolStep, Main, CreateThread, CreateFails, StartJoining, JoinThread, JoinFails,
            Die, ReturnFromPool, Worker, CurlInit, GetData, GetNext, StoreJobq, OpenTarball,
            Transfer, ArchiveOpenFails, Extract, queueVars, poolVars
    <2>2. QED
        BY <2>1 DEF Alone, num_threads
<1>2. /\ \A t \in Threads : t # 1 => tpc[t] = "none"
      /\ mainpc = "returned" => tpc[1] = "gone"
      /\ ~failed => Progress
    BY <1>1 DEF AloneInv
<1>3. /\ tpc \in [Threads -> {"none", "init", "getdata", "next", "store", "fopen",
                              "transfer", "extract", "gone"}]
      /\ pkg \in [Threads -> Pkgs \cup {NULL}] /\ next \in [Threads -> 1..End]
      /\ tarball \in [Pkgs -> Threads \cup {Absent, Whole}]
      /\ dir \in [Pkgs -> {"absent", "damaged", "complete"}]
      /\ targets \in Seq(Pkgs) /\ Len(targets) \in Nat /\ jobq \in 1..End
      /\ 1 \in Threads /\ Threads \subseteq Nat /\ nthr \in 0..1 /\ Absent # 1 /\ Absent # Whole
    BY <1>1, PoolAssumption DEF PoolTypeOK, Threads, Absent, Whole
<1>4. CASE CreateThread
    <2>1. nthr + 1 = 1 /\ tpc[1] = "none"
        BY <1>1, <1>3, <1>4 DEF CreateThread, Joined
    <2>2. /\ tpc' = [tpc EXCEPT ![1] = "init"]
          /\ UNCHANGED <<jobq, mainpc, tarball, dir, failed, targets>> /\ mainpc # "returned"
        BY <1>4, <2>1 DEF CreateThread, Goto, queueVars, diskVars, history
    <2>3. QED
        BY <1>2, <1>3, <2>1, <2>2 DEF AloneInv, Progress, Clean, Extracted
<1>5. CASE StartJoining \/ JoinThread \/ UNCHANGED poolVars
    <2>1. UNCHANGED <<targets, jobq, tpc, pkg, next, tarball, dir, failed>>
        BY <1>5 DEF StartJoining, JoinThread, poolVars, queueVars, mainVars, threadVars,
            diskVars, history
    <2>2. mainpc' = "returned" => mainpc = "returned"
        BY <1>5 DEF StartJoining, JoinThread, poolVars, mainVars
    <2>3. QED
        BY <1>2, <2>1, <2>2 DEF AloneInv, Progress, Clean, Extracted, alpm_list_getdata,
            alpm_list_next, End
<1>6. CASE ReturnFromPool
    <2>1. UNCHANGED <<targets, jobq, tpc, pkg, next, tarball, dir, failed>>
        BY <1>6 DEF ReturnFromPool, queueVars, threadVars, diskVars, history
    <2>2. tpc[1] = "gone"
        BY <1>1, <1>3, <1>6 DEF ReturnFromPool, Joined
    <2>3. QED
        BY <1>2, <2>1, <2>2 DEF AloneInv, Progress, Clean, Extracted, alpm_list_getdata,
            alpm_list_next, End
<1>7. ASSUME NEW t \in Threads, Worker(t) PROVE AloneInv'
    <2>1. t = 1 /\ tpc[1] \notin {"none", "gone"} /\ UNCHANGED <<mainpc, nthr>>
          /\ \A u \in Threads : u # 1 => tpc'[u] = tpc[u]
        BY <1>2, <1>7, WorkerMoves
    <2>2. mainpc' # "returned"
        BY <1>2, <2>1
    <2>3. SUFFICES ASSUME ~failed' PROVE Progress'
        BY <1>2, <2>1, <2>2 DEF AloneInv
    <2>4. CASE CurlInit(1)
        BY <1>2, <1>3, <2>3, <2>4 DEF CurlInit, GiveUp, Goto, Progress, Clean, Extracted,
            queueVars, diskVars
    <2>5. CASE GetData(1)
        BY <1>2, <1>3, <2>3, <2>5 DEF GetData, Goto, Progress, Clean, Extracted,
            alpm_list_getdata, End, queueVars, diskVars
    <2>6. CASE GetNext(1)
        BY <1>2, <1>3, <2>3, <2>6 DEF GetNext, Goto, Progress, Clean, Extracted,
            alpm_list_getdata, alpm_list_next, End, queueVars, diskVars, history
    <2>7. CASE StoreJobq(1)
        <3>1. /\ ~failed /\ tpc[1] = "store" /\ jobq' = next[1] /\ next[1] = alpm_list_next(jobq)
              /\ pkg[1] = alpm_list_getdata(jobq) /\ Clean /\ Extracted(jobq - 1)
              /\ tpc' = [tpc EXCEPT ![1] = IF pkg[1] = NULL THEN "gone" ELSE "fopen"]
              /\ UNCHANGED <<targets, pkg, tarball, dir, failed>>
            BY <1>2, <2>3, <2>7 DEF StoreJobq, Goto, Progress, diskVars, history
        <3>2. CASE pkg[1] = NULL
            <4>1. jobq = Len(targets) + 1
                BY <1>3, <3>1, <3>2, PoolAssumption DEF alpm_list_getdata, End
            <4>2. QED
                BY <1>3, <3>1, <3>2, <4>1 DEF Progress, Clean, Extracted
        <3>3. CASE pkg[1] # NULL
            <4>1. jobq # End /\ pkg[1] = targets[jobq] /\ jobq' = jobq + 1
                BY <1>3, <3>1, <3>3 DEF alpm_list_getdata, alpm_list_next
            <4>2. QED
                BY <1>3, <3>1, <3>3, <4>1 DEF Progress, Clean, Extracted
        <3>4. QED
            BY <3>2, <3>3
    <2>8. CASE OpenTarball(1)
        <3>1. /\ ~failed /\ tpc[1] = "fopen"
              /\ tarball' = [tarball EXCEPT ![pkg[1]] = 1]
              /\ tpc' = [tpc EXCEPT ![1] = "transfer"]
              /\ UNCHANGED <<targets, jobq, pkg, next, dir, failed>>
            BY <2>3, <2>8 DEF OpenTarball, GiveUp, Goto, queueVars
        <3>2. pkg[1] \in Pkgs
            BY <1>2, <1>3, <3>1 DEF Progress, End
        <3>3. QED
            BY <1>2, <1>3, <3>1, <3>2 DEF Progress, Clean, Extracted
    <2>9. CASE Transfer(1)
        <3>1. /\ ~failed /\ tpc[1] = "transfer"
              /\ tarball' = [tarball EXCEPT ![pkg[1]] = IF @ = 1 THEN Whole ELSE @]
              /\ tpc' = [tpc EXCEPT ![1] = "extract"]
              /\ UNCHANGED <<targets, jobq, pkg, next, dir, failed>>
            BY <2>3, <2>9 DEF Transfer, GiveUp, Goto, queueVars
        <3>2. pkg[1] \in Pkgs
            BY <1>2, <1>3, <3>1 DEF Progress, End
        <3>3. QED
            BY <1>2, <1>3, <3>1, <3>2 DEF Progress, Clean, Extracted
    <2>10. CASE ArchiveOpenFails(1)
        BY <2>3, <2>10 DEF ArchiveOpenFails, GiveUp
    <2>11. CASE Extract(1)
        <3>1. /\ ~failed /\ tpc[1] = "extract"
              /\ tarball' = [tarball EXCEPT ![pkg[1]] = Absent]
              /\ dir' = [dir EXCEPT ![pkg[1]] = "complete"]
              /\ tpc' = [tpc EXCEPT ![1] = "getdata"]
              /\ UNCHANGED <<targets, jobq, pkg, next, failed>>
            BY <2>3, <2>11 DEF Extract, Unlinked, Goto, queueVars
        <3>2. pkg[1] \in Pkgs /\ pkg[1] = targets[jobq - 1] /\ Extracted(jobq - 2)
            BY <1>2, <1>3, <3>1 DEF Progress, End
        <3>3. Clean'
            BY <1>2, <1>3, <3>1 DEF Progress, Clean
        <3>4. \A k \in 1..(jobq - 1) : k \in 1..(jobq - 2) \/ k = jobq - 1
            BY <1>3
        <3>5. Extracted(jobq - 1)'
            BY <1>3, <3>1, <3>2, <3>4 DEF Extracted, End
        <3>6. QED
            BY <1>3, <3>1, <3>3, <3>5 DEF Progress
    <2>12. QED
        BY <1>7, <2>1, <2>4, <2>5, <2>6, <2>7, <2>8, <2>9, <2>10, <2>11 DEF Worker
<1>8. CASE CreateFails \/ JoinFails
    BY <1>2, <1>3, <1>8, Dying DEF AloneInv
<1>9. QED
    BY <1>4, <1>5, <1>6, <1>7, <1>8 DEF PoolStep, Main

LEMMA AloneIsInvariant == PoolSpec => [](PoolTypeOK /\ AloneInv)
<1>1. PoolInit => Joined
    BY DEF PoolInit, Joined, QuietOnReturn
<1>2. QED
    BY <1>1, InitTyped, NextTyped, NextJoined, InitAlone, NextAlone, PTL DEF PoolSpec

\* A single worker extracts every target unless something fails.
THEOREM PoolAloneExtractsAll == PoolSpec => []AloneExtractsAll
<1>1. PoolTypeOK /\ AloneInv => AloneExtractsAll
    BY DEF AloneInv, AloneExtractsAll, EveryTargetExtracted, Progress, Extracted
<1>2. QED
    BY <1>1, AloneIsInvariant, PTL

\* ... and leaves no tarball behind.
THEOREM PoolAloneCleansUp == PoolSpec => []NoTarballLeft
<1>1. PoolTypeOK /\ AloneInv => NoTarballLeft
    <2>1. SUFFICES ASSUME PoolTypeOK, AloneInv, Alone, ~failed, NEW p \in Pkgs,
                          tarball[p] # Absent
                   PROVE  1 \in Threads /\ pkg[1] = p /\ tpc[1] \in {"transfer", "extract"}
        BY <2>1 DEF NoTarballLeft
    <2>2. 1 \in Threads /\ Progress
        BY <2>1, PoolAssumption DEF AloneInv, Threads
    <2>3. tpc[1] \in {"none", "init", "getdata", "next", "store", "fopen",
                      "transfer", "extract", "gone"}
        BY <2>1, <2>2 DEF PoolTypeOK
    <2>4. QED
        BY <2>1, <2>2, <2>3 DEF Progress, Clean
<1>2. QED
    BY <1>1, AloneIsInvariant, PTL
-----------------------------------------------------------------------------
(* A single worker takes each job once.                                    *)

\* How far a single worker is in the list, whatever has failed.
TakenSoFar ==
    /\ Len(taken) <= Len(targets)
    /\ tpc[1] \in {"none", "init", "getdata", "fopen", "transfer", "extract"} =>
          Len(taken) = jobq - 1
    /\ tpc[1] \in {"next", "store"} =>
          /\ pkg[1] = alpm_list_getdata(jobq)
          /\ Len(taken) = IF jobq = End THEN jobq - 1 ELSE jobq
    /\ tpc[1] = "store" => next[1] = alpm_list_next(jobq)
    /\ tpc[1] = "gone" /\ ~failed => Len(taken) = Len(targets)

TakenInv ==
    Alone =>
        /\ \A t \in Threads : t # 1 => tpc[t] = "none"
        /\ mainpc = "returned" => tpc[1] = "gone"
        /\ TakenSoFar

JobVars == <<targets, taken, failed, mainpc = "returned">>

LEMMA InitTaken == PoolInit => TakenInv /\ Jobs!Init
<1> SUFFICES ASSUME PoolInit PROVE TakenInv /\ Jobs!Init
    OBVIOUS
<1>1. /\ 1 \in Threads /\ tpc = [t \in Threads |-> "none"] /\ taken = <<>> /\ jobq = 1
      /\ mainpc = "create" /\ failed = FALSE /\ targets \in Seq(Pkgs)
    BY PoolAssumption DEF PoolInit, Threads
<1>2. TakenInv
    BY <1>1 DEF TakenInv, TakenSoFar
<1>3. Jobs!Init
    BY <1>1 DEF Jobs!Init
<1>4. QED
    BY <1>2, <1>3

\* Each step takes the next job, fails, returns, or changes nothing of the queue.
LEMMA NextTaken ==
    PoolTypeOK /\ Joined /\ TakenInv /\ [PoolStep]_poolVars =>
        TakenInv' /\ [Alone => Jobs!Next]_JobVars
<1> SUFFICES ASSUME PoolTypeOK, Joined, TakenInv, [PoolStep]_poolVars
             PROVE  TakenInv' /\ [Alone => Jobs!Next]_JobVars
    OBVIOUS
<1>1. UNCHANGED <<maxthreads, targets, num_threads, End>> /\ (Alone' <=> Alone)
    <2>1. UNCHANGED <<maxthreads, targets>>
        BY DEF PoolStep, Main, CreateThread, CreateFails, StartJoining, JoinThread, JoinFails,
            Die, ReturnFromPool, Worker, CurlInit, GetData, GetNext, StoreJobq, OpenTarball,
            Transfer, ArchiveOpenFails, Extract, queueVars, poolVars
    <2>2. QED
        BY <2>1 DEF Alone, num_threads, End
<1>2. CASE ~Alone
    BY <1>1, <1>2 DEF TakenInv
<1>3. CASE Alone
    <2>1. /\ \A t \in Threads : t # 1 => tpc[t] = "none"
          /\ mainpc = "returned" => tpc[1] = "gone"
          /\ TakenSoFar
        BY <1>3 DEF TakenInv
    <2>2. /\ tpc \in [Threads -> {"none", "init", "getdata", "next", "store", "fopen",
                                  "transfer", "extract", "gone"}]
          /\ pkg \in [Threads -> Pkgs \cup {NULL}] /\ next \in [Threads -> 1..End]
          /\ targets \in Seq(Pkgs) /\ Len(targets) \in Nat /\ jobq \in 1..End
          /\ End = Len(targets) + 1 /\ taken \in Seq(Pkgs) /\ Len(taken) \in Nat
          /\ failed \in BOOLEAN
          /\ num_threads = 1 /\ nthr \in 0..1 /\ 1 \in Threads
        BY <1>3, PoolAssumption DEF PoolTypeOK, Threads, Alone, End
    <2>3. CASE CreateThread
        <3>1. nthr + 1 = 1 /\ tpc[1] = "none"
            BY <2>2, <2>3 DEF CreateThread, Joined
        <3>2. /\ tpc' = [tpc EXCEPT ![1] = "init"] /\ mainpc # "returned"
              /\ UNCHANGED <<jobq, mainpc, taken, failed, targets>>
            BY <2>3, <3>1 DEF CreateThread, Goto, queueVars, history
        <3>3. QED
            BY <2>1, <2>2, <3>1, <3>2 DEF TakenInv, TakenSoFar, JobVars
    <2>4. CASE StartJoining \/ JoinThread \/ UNCHANGED poolVars
        <3>1. /\ UNCHANGED <<targets, jobq, tpc, pkg, next, taken, failed>>
              /\ (mainpc' = "returned") = (mainpc = "returned")
            BY <2>4 DEF StartJoining, JoinThread, poolVars, queueVars, mainVars, threadVars,
                history
        <3>2. QED
            BY <2>1, <3>1 DEF TakenInv, TakenSoFar, JobVars, alpm_list_getdata,
                alpm_list_next, End
    <2>5. CASE ReturnFromPool
        <3>1. /\ UNCHANGED <<targets, jobq, tpc, pkg, next, taken, failed>>
              /\ mainpc = "join" /\ mainpc' = "returned"
            BY <2>5 DEF ReturnFromPool, queueVars, threadVars, history
        <3>2. tpc[1] = "gone"
            BY <2>2, <2>5 DEF ReturnFromPool, Joined
        <3>3. TakenInv'
            BY <2>1, <3>1, <3>2 DEF TakenInv, TakenSoFar, alpm_list_getdata, alpm_list_next, End
        <3>4. failed \/ Len(taken) = Len(targets)
            BY <2>1, <3>2 DEF TakenSoFar
        <3>5. Jobs!Return
            BY <3>1, <3>4 DEF Jobs!Return
        <3>6. QED
            BY <3>3, <3>5 DEF Jobs!Next
    <2>6. ASSUME NEW t \in Threads, Worker(t)
          PROVE  TakenInv' /\ [Alone => Jobs!Next]_JobVars
        <3>1. /\ t = 1 /\ tpc[1] \notin {"none", "gone"} /\ UNCHANGED <<mainpc, nthr>>
              /\ \A u \in Threads : u # 1 => tpc'[u] = tpc[u]
            BY <2>1, <2>6, WorkerMoves
        <3>2. mainpc # "returned" /\ mainpc' # "returned"
            BY <2>1, <3>1
        <3>3. SUFFICES TakenSoFar' /\ [Jobs!Next]_JobVars
            BY <2>1, <3>1, <3>2 DEF TakenInv
        <3>4. CASE CurlInit(1) \/ OpenTarball(1) \/ Transfer(1) \/ ArchiveOpenFails(1) \/ Extract(1)
            <4>1. /\ UNCHANGED <<targets, jobq, taken, mainpc>>
                  /\ tpc[1] \in {"init", "fopen", "transfer", "extract"}
                  /\ tpc'[1] \in {"getdata", "transfer", "extract", "gone"}
                  /\ tpc'[1] = "gone" => failed'
                  /\ failed' \in {TRUE, failed}
                BY <2>2, <3>4 DEF CurlInit, OpenTarball, Transfer, ArchiveOpenFails, Extract,
                    GiveUp, Goto, queueVars, mainVars, diskVars
            <4>2. TakenSoFar'
                BY <1>1, <2>1, <4>1 DEF TakenSoFar
            <4>3. CASE failed' = failed
                BY <4>1, <4>2, <4>3 DEF JobVars
            <4>4. CASE failed' = TRUE
                <5>1. Jobs!Fail
                    BY <3>2, <4>1, <4>4 DEF Jobs!Fail
                <5>2. QED
                    BY <4>2, <5>1 DEF Jobs!Next
            <4>5. QED
                BY <4>1, <4>3, <4>4
        <3>5. CASE GetData(1)
            <4>1. /\ UNCHANGED <<targets, jobq, failed, mainpc>>
                  /\ tpc[1] = "getdata" /\ tpc'[1] = "next"
                  /\ pkg'[1] = alpm_list_getdata(jobq)
                  /\ taken' = IF alpm_list_getdata(jobq) = NULL THEN taken
                              ELSE Append(taken, alpm_list_getdata(jobq))
                BY <2>2, <3>5 DEF GetData, Goto, queueVars, mainVars
            <4>2. Len(taken) = jobq - 1
                BY <2>1, <4>1 DEF TakenSoFar
            <4>3. CASE jobq = End
                <5>1. taken' = taken
                    BY <4>1, <4>3 DEF alpm_list_getdata
                <5>2. QED
                    BY <1>1, <2>1, <2>2, <4>1, <4>2, <4>3, <5>1
                       DEF TakenSoFar, JobVars, alpm_list_getdata
            <4>4. CASE jobq # End
                <5>1. /\ alpm_list_getdata(jobq) = targets[jobq] /\ targets[jobq] \in Pkgs
                      /\ targets[jobq] # NULL
                    BY <2>2, <4>4, PoolAssumption DEF alpm_list_getdata
                <5>2. taken' = Append(taken, targets[jobq]) /\ jobq = Len(taken) + 1
                    BY <2>2, <4>1, <4>2, <5>1
                <5>3. Len(taken') = jobq /\ jobq <= Len(targets)
                    BY <2>2, <4>4, <5>2
                <5>4. TakenSoFar'
                    BY <1>1, <2>2, <4>1, <4>4, <5>3 DEF TakenSoFar, alpm_list_getdata
                <5>5. Jobs!Take
                    BY <2>2, <3>2, <4>1, <4>4, <5>2, <5>3 DEF Jobs!Take
                <5>6. QED
                    BY <5>4, <5>5 DEF Jobs!Next
            <4>5. QED
                BY <4>3, <4>4
        <3>6. CASE GetNext(1)
            <4>1. /\ UNCHANGED <<targets, jobq, pkg, taken, failed, mainpc>>
                  /\ tpc[1] = "next" /\ tpc'[1] = "store" /\ next'[1] = alpm_list_next(jobq)
                BY <2>2, <3>6 DEF GetNext, Goto, queueVars, mainVars, history
            <4>2. QED
                BY <1>1, <2>1, <4>1 DEF TakenSoFar, JobVars, alpm_list_getdata, alpm_list_next
        <3>7. CASE StoreJobq(1)
            <4>1. /\ UNCHANGED <<targets, taken, failed, mainpc>>
                  /\ tpc[1] = "store" /\ jobq' = alpm_list_next(jobq)
                  /\ pkg[1] = alpm_list_getdata(jobq)
                  /\ tpc'[1] = IF pkg[1] = NULL THEN "gone" ELSE "fopen"
                BY <2>1, <2>2, <3>7 DEF StoreJobq, Goto, mainVars, history, TakenSoFar
            <4>2. Len(taken) = IF jobq = End THEN jobq - 1 ELSE jobq
                BY <2>1, <4>1 DEF TakenSoFar
            <4>3. CASE jobq = End
                BY <2>1, <2>2, <4>1, <4>2, <4>3 DEF TakenSoFar, JobVars, alpm_list_getdata
            <4>4. CASE jobq # End
                <5>1. tpc'[1] = "fopen" /\ jobq' = jobq + 1
                    BY <2>2, <4>1, <4>4, PoolAssumption DEF alpm_list_getdata, alpm_list_next
                <5>2. QED
                    BY <2>1, <2>2, <4>1, <4>2, <4>4, <5>1 DEF TakenSoFar, JobVars
            <4>5. QED
                BY <4>3, <4>4
        <3>8. QED
            BY <2>6, <3>1, <3>4, <3>5, <3>6, <3>7 DEF Worker
    <2>7. CASE CreateFails \/ JoinFails
        <3>1. /\ mainpc # "returned" /\ mainpc' # "returned" /\ failed' = TRUE
              /\ UNCHANGED <<targets, jobq, pkg, next, taken>>
              /\ \A t \in Threads : t # 1 => tpc'[t] = "none"
              /\ tpc'[1] = "gone" \/ (tpc'[1] = "none" /\ tpc[1] = "none")
            BY <2>1, <2>2, <2>7, Dying
        <3>2. TakenInv'
            BY <2>1, <2>2, <3>1 DEF TakenInv, TakenSoFar
        <3>3. CASE failed
            BY <3>1, <3>2, <3>3 DEF JobVars
        <3>4. CASE ~failed
            <4>1. Jobs!Fail
                BY <3>1 DEF Jobs!Fail
            <4>2. QED
                BY <3>2, <4>1 DEF Jobs!Next
        <3>5. QED
            BY <3>3, <3>4
    <2>8. QED
        BY <2>3, <2>4, <2>5, <2>6, <2>7 DEF PoolStep, Main
<1>4. QED
    BY <1>2, <1>3

\* A single worker implements the job queue: the jobs of the list in their
\* order, each once, and no early return unless something failed.
THEOREM PoolTakesEachJobOnce == PoolSpec => TakesEachJobOnce
<1>1. PoolInit => Joined
    BY DEF PoolInit, Joined, QuietOnReturn
<1>2. PoolInit => (Alone => Jobs!Init)
    BY InitTaken
<1>3. PoolSpec => [][Alone => Jobs!Next]_JobVars
    BY <1>1, InitTyped, NextTyped, NextJoined, InitTaken, NextTaken, PTL DEF PoolSpec
<1>4. QED
    BY <1>2, <1>3, PTL DEF PoolSpec, TakesEachJobOnce, JobVars

-----------------------------------------------------------------------------
(* The rounds of downloads: the inductive invariant.                        *)

InputsOK == world \in WorldType /\ request \in Seq(Pkgs)

Present == {p \in Pkgs : dir[p] # "absent"}
Complete == {p \in Pkgs : dir[p] = "complete"}

\* r[2] is listed in the PKGBUILD of r[1].  Nothing changes it.
Depending == {r \in Pkgs \X Pkgs : r[2] \in ToSet(world.depends[r[1]])}

\* resolve_dependencies runs after the pool, and newdeps begins empty.
Phases ==
    /\ getpc = "pool" => Joined
    /\ ~(mainpc = "returned" /\ getpc \in {"pool", "done"}) =>
          item = 1 /\ deps = <<>> /\ newdeps = <<>>
    /\ getpc = "done" =>
          mainpc = "returned" /\ item > Len(targets) /\ deps = <<>> /\ newdeps = <<>>
    /\ interrupts = 0 => getpc # "killed"

\* The workers hold nothing but packages of the list.
Holding ==
    /\ \A t \in Threads :
          /\ pkg[t] = NULL \/ pkg[t] \in ToSet(targets)
          /\ tpc[t] \in {"fopen", "transfer", "extract"} => pkg[t] # NULL
    /\ ToSet(taken) \subseteq ToSet(targets)

\* Why the packages of a list are downloaded.
RoundNeeded ==
    targets = request \/
        \A p \in ToSet(targets) :
            p \notin world.known /\ \E q \in Present \ ToSet(targets) : <<q, p>> \in Depending

NewNeeded ==
    \A p \in ToSet(newdeps) :
        p \notin world.known /\ p \notin Present /\ \E q \in Present : <<q, p>> \in Depending

DepsRead ==
    deps # <<>> => \E q \in Present : \A d \in ToSet(deps) : <<q, d>> \in Depending

\* A single worker takes the list in its order and, while nothing fails,
\* extracts what it has taken.
InOrder ==
    Len(taken) <= Len(targets) /\ \A k \in 1..Len(taken) : taken[k] = targets[k]

GetProgress ==
    /\ tpc[1] \in {"none", "init", "getdata", "next", "store"} => Extracted(jobq - 1)
    /\ tpc[1] \in {"fopen", "transfer", "extract"} =>
          jobq > 1 /\ pkg[1] = targets[jobq - 1] /\ Extracted(jobq - 2)
    /\ tpc[1] = "extract" => tarball[pkg[1]] = Whole
    /\ tpc[1] = "transfer" => tarball[pkg[1]] = 1
    /\ tpc[1] = "gone" => Extracted(Len(targets))

WorkInv ==
    /\ InOrder
    /\ getpc = "pool" => TakenInv
    /\ getpc = "pool" /\ Alone /\ ~failed => GetProgress

\* No package is in two lists of a run, nor twice in one.
OnceInv ==
    /\ IsInjective(newdeps)
    /\ ~failed /\ IsInjective(request) =>
          /\ IsInjective(targets)
          /\ before \subseteq Complete
          /\ ToSet(targets) \cap before = {}

\* Packages whose PKGBUILD is still to be read, and those that are on their way.
Pending == {targets[k] : k \in item..Len(targets)}
Coming ==
    ToSet(newdeps) \cup ToSet(deps) \cup (IF mainpc = "returned" THEN {} ELSE ToSet(targets))

\* In a run nothing interrupted and nothing failed in, what is on the disk is
\* complete and its dependencies are there or on their way.
ClosedInv ==
    interrupts = 0 /\ ~failed =>
        /\ Present \subseteq Complete
        /\ \A r \in Depending :
              r[1] \in Present \ Pending /\ r[2] \notin world.known =>
                  r[2] \in Complete \cup Coming

SingleInv == maxthreads = 1 => WorkInv /\ OnceInv /\ ClosedInv

GetInv ==
    /\ InputsOK
    /\ GetTypeOK
    /\ Phases
    /\ Holding
    /\ RoundNeeded
    /\ NewNeeded
    /\ DepsRead
    /\ SingleInv
-----------------------------------------------------------------------------
(* Lists.                                                                  *)

LEMMA EmptyList == ToSet(<<>>) = {} /\ IsInjective(<<>>)
BY DEF ToSet, IsInjective

LEMMA Appended ==
    ASSUME NEW T, NEW s \in Seq(T), NEW x \in T
    PROVE  /\ Append(s, x) \in Seq(T)
           /\ ToSet(Append(s, x)) = ToSet(s) \cup {x}
           /\ IsInjective(s) /\ ~Contains(s, x) => IsInjective(Append(s, x))
<1> DEFINE t == Append(s, x)
<1>1. DOMAIN s = 1..Len(s) /\ Len(s) \in Nat
    OBVIOUS
<1>2. /\ t \in Seq(T)
      /\ DOMAIN t = 1..(Len(s) + 1)
      /\ \A k \in 1..Len(s) : t[k] = s[k]
      /\ t[Len(s) + 1] = x
    BY <1>1
<1>3. \A k : k \in 1..(Len(s) + 1) <=> k \in 1..Len(s) \/ k = Len(s) + 1
    BY <1>1
<1> HIDE DEF t
<1>4. ToSet(t) = ToSet(s) \cup {x}
    BY <1>1, <1>2, <1>3 DEF ToSet
<1>5. ASSUME IsInjective(s), ~Contains(s, x) PROVE IsInjective(t)
    BY <1>1, <1>2, <1>3, <1>5 DEF Contains, IsInjective
<1>6. QED
    BY <1>2, <1>4, <1>5 DEF t

\* A loop that takes the head off a list.
LEMMA HeadAndTail ==
    ASSUME NEW T, NEW s \in Seq(T), s # <<>>
    PROVE  /\ Head(s) \in T /\ Tail(s) \in Seq(T)
           /\ ToSet(s) = {Head(s)} \cup ToSet(Tail(s))
<1>1. DOMAIN s = 1..Len(s) /\ Len(s) \in Nat /\ Len(s) >= 1
    OBVIOUS
<1>2. /\ Tail(s) \in Seq(T) /\ DOMAIN Tail(s) = 1..(Len(s) - 1)
      /\ \A k \in 1..(Len(s) - 1) : Tail(s)[k] = s[k + 1]
      /\ Head(s) = s[1] /\ s[1] \in T
    BY <1>1
<1>3. ASSUME NEW x \in ToSet(s) PROVE x = Head(s) \/ x \in ToSet(Tail(s))
    <2>1. PICK k \in 1..Len(s) : s[k] = x
        BY <1>1 DEF ToSet
    <2>2. CASE k = 1
        BY <1>2, <2>1, <2>2
    <2>3. CASE k # 1
        <3>1. k - 1 \in 1..(Len(s) - 1) /\ s[(k - 1) + 1] = x
            BY <1>1, <2>1, <2>3
        <3>2. Tail(s)[k - 1] = x /\ k - 1 \in DOMAIN Tail(s)
            BY <1>2, <3>1
        <3>3. QED
            BY <3>2 DEF ToSet
    <2>4. QED
        BY <2>2, <2>3
<1>4. ASSUME NEW x \in ToSet(Tail(s)) PROVE x \in ToSet(s)
    <2>1. PICK k \in 1..(Len(s) - 1) : Tail(s)[k] = x
        BY <1>2 DEF ToSet
    <2>2. k + 1 \in 1..Len(s) /\ s[k + 1] = x
        BY <1>1, <1>2, <2>1
    <2>3. QED
        BY <1>1, <2>2 DEF ToSet
<1>5. Head(s) \in ToSet(s)
    BY <1>1, <1>2 DEF ToSet
<1>6. QED
    BY <1>2, <1>3, <1>4, <1>5

LEMMA PrefixOK ==
    ASSUME NEW T, NEW s \in Seq(T), NEW ds \in Prefixes(s)
    PROVE  ds \in Seq(T) /\ ToSet(ds) \subseteq ToSet(s)
<1>1. PICK l \in 0..Len(s) : ds = SubSeq(s, 1, l)
    BY DEF Prefixes
<1>2. /\ DOMAIN s = 1..Len(s) /\ Len(s) \in Nat
      /\ ds \in Seq(T) /\ DOMAIN ds = 1..l
      /\ \A k \in 1..l : ds[k] = s[k] /\ k \in 1..Len(s)
    BY <1>1
<1>3. QED
    BY <1>2 DEF ToSet

\* Every dependency grab_dependencies returns is in the PKGBUILD, which is on
\* the disk; of a complete one it returns all.
LEMMA ReadableOK ==
    ASSUME InputsOK, PoolTypeOK, NEW p \in Pkgs, NEW ds \in Readable(p)
    PROVE  /\ ds \in Seq(Pkgs)
           /\ ds # <<>> => p \in Present
           /\ \A d \in ToSet(ds) : <<p, d>> \in Depending
           /\ p \in Complete => \A d : <<p, d>> \in Depending => d \in ToSet(ds)
<1>1. /\ world.depends[p] \in Seq(Pkgs)
      /\ dir[p] \in {"absent", "damaged", "complete"}
    BY DEF InputsOK, WorldType, PoolTypeOK
<1>2. /\ dir[p] = "absent" => ds = <<>>
      /\ dir[p] = "complete" => ds = world.depends[p]
      /\ dir[p] = "damaged" => ds \in Prefixes(world.depends[p])
    BY DEF Readable
<1>3. ds \in Seq(Pkgs) /\ ToSet(ds) \subseteq ToSet(world.depends[p])
    <2>1. CASE dir[p] = "absent"
        BY <1>2, <2>1, EmptyList
    <2>2. CASE dir[p] = "complete"
        BY <1>1, <1>2, <2>2
    <2>3. CASE dir[p] = "damaged"
        BY <1>1, <1>2, <2>3, PrefixOK
    <2>4. QED
        BY <1>1, <2>1, <2>2, <2>3
<1>4. \A d \in ToSet(ds) : d \in Pkgs
    BY <1>3 DEF ToSet
<1>5. QED
    BY <1>1, <1>2, <1>3, <1>4 DEF Present, Complete, Depending

-----------------------------------------------------------------------------
(* What the steps change.                                                  *)

\* The disk while a worker does something.
LEMMA WorkerWrites ==
    ASSUME PoolTypeOK, Holding, NEW t \in Threads, Worker(t)
    PROVE  /\ \A p \in Pkgs : dir'[p] = dir[p] \/ p \in ToSet(targets)
           /\ ~failed' => ~failed /\ \A p \in Pkgs : dir'[p] \in {dir[p], "complete"}
           /\ UNCHANGED <<maxthreads, targets>>
<1>1. /\ dir \in [Pkgs -> {"absent", "damaged", "complete"}]
      /\ pkg[t] = NULL \/ pkg[t] \in ToSet(targets)
      /\ tpc[t] \in {"fopen", "transfer", "extract"} => pkg[t] # NULL
    BY DEF PoolTypeOK, Holding
<1>2. CASE Extract(t)
    BY <1>1, <1>2 DEF Extract, queueVars
<1>3. CASE ~Extract(t)
    BY <1>3 DEF Worker, CurlInit, GetData, GetNext, StoreJobq, OpenTarball, Transfer,
        ArchiveOpenFails, GiveUp, queueVars, diskVars, history
<1>4. QED
    BY <1>2, <1>3

\* The pool at work: the caller's variables are as they were.
LEMMA Downloading ==
    ASSUME GetInv, Download
    PROVE  /\ getpc = "pool" /\ mainpc # "returned" /\ PoolStep /\ Joined
           /\ UNCHANGED <<world, request, getpc, interrupts, item, deps, newdeps, before>>
           /\ UNCHANGED <<maxthreads, targets>>
           /\ \A p \in Pkgs : dir'[p] = dir[p] \/ p \in ToSet(targets)
           /\ ~failed' => ~failed /\ \A p \in Pkgs : dir'[p] \in {dir[p], "complete"}
<1>1. /\ getpc = "pool" /\ PoolStep
      /\ UNCHANGED <<world, request, getpc, interrupts, item, deps, newdeps, before>>
    BY DEF Download, InRound, PoolStep, resolveVars
<1>2. Joined /\ PoolTypeOK /\ Holding
    BY <1>1 DEF GetInv, GetTypeOK, Phases
<1>3. CASE Main
    <2>1. UNCHANGED <<maxthreads, targets, dir>> /\ mainpc # "returned" /\ (~failed' => ~failed)
        BY <1>3 DEF Main, CreateThread, CreateFails, StartJoining, JoinThread, JoinFails, Die,
            ReturnFromPool, queueVars, diskVars, history
    <2>2. QED
        BY <1>1, <1>2, <2>1
<1>4. ASSUME NEW t \in Threads, Worker(t)
      PROVE  /\ mainpc # "returned"
             /\ UNCHANGED <<maxthreads, targets>>
             /\ \A p \in Pkgs : dir'[p] = dir[p] \/ p \in ToSet(targets)
             /\ ~failed' => ~failed /\ \A p \in Pkgs : dir'[p] \in {dir[p], "complete"}
    BY <1>2, <1>4, WorkerWrites, WorkerMoves DEF Joined, QuietOnReturn
<1>5. QED
    BY <1>1, <1>2, <1>3, <1>4 DEF PoolStep

\* A new call of the pool begins with an empty hand.
LEMMA Calling ==
    ASSUME PoolTypeOK, NEW list \in Seq(Pkgs), Called(list), UNCHANGED <<diskVars, failed>>
    PROVE  /\ PoolTypeOK' /\ Joined' /\ TakenInv'
           /\ targets' = list /\ mainpc' = "create" /\ jobq' = 1 /\ taken' = <<>>
           /\ UNCHANGED <<maxthreads, dir, failed>>
           /\ \A t \in Threads : tpc'[t] = "none" /\ pkg'[t] = NULL
<1> USE PoolAssumption DEF Called, Threads
<1>1. /\ targets' = list /\ mainpc' = "create" /\ jobq' = 1 /\ taken' = <<>> /\ nthr' = 0
      /\ UNCHANGED <<maxthreads, dir, tarball, failed>>
      /\ \A t \in Threads : tpc'[t] = "none" /\ pkg'[t] = NULL
    BY DEF diskVars
<1>2. Len(list) \in Nat /\ maxthreads \in Nat
    BY DEF PoolTypeOK
<1>3. nthr' \in 0..num_threads' /\ jobq' \in 1..End'
    BY <1>1, <1>2 DEF num_threads, End
<1>4. next' \in [Threads -> 1..End']
    BY <1>1, <1>2 DEF End
<1>9. /\ tpc' \in [Threads -> {"none", "init", "getdata", "next", "store", "fopen",
                               "transfer", "extract", "gone"}]
      /\ pkg' \in [Threads -> Pkgs \cup {NULL}]
    OBVIOUS
<1>10. /\ tarball' \in [Pkgs -> Threads \cup {Absent, Whole}]
       /\ dir' \in [Pkgs -> {"absent", "damaged", "complete"}]
       /\ failed' \in BOOLEAN /\ maxthreads' \in 1..MaxThreads
    BY <1>1 DEF PoolTypeOK
<1> HIDE DEF Called, Threads
<1>5. PoolTypeOK'
    BY <1>1, <1>3, <1>4, <1>9, <1>10 DEF PoolTypeOK, Threads, Absent, Whole
<1>6. Joined'
    BY <1>1 DEF Joined, QuietOnReturn
<1>7. TakenInv'
    <2>1. 1 \in Threads
        BY DEF Threads
    <2>2. QED
        BY <1>1, <1>2, <2>1 DEF TakenInv, TakenSoFar
<1>8. QED
    BY <1>1, <1>5, <1>6, <1>7

-----------------------------------------------------------------------------
(* Types, and what holds with any number of workers.                       *)

\* The calling thread's own steps leave the pool alone.
LEMMA Reading ==
    ASSUME GetInv, GrabDependencies \/ ResolveDep \/ GetReturns
    PROVE  /\ Resolving /\ PoolTypeOK'
           /\ UNCHANGED <<poolVars, world, request, interrupts, before>>
           /\ UNCHANGED <<maxthreads, targets, jobq, mainpc, nthr, tpc, pkg, next, tarball,
                          dir, taken, failed>>
<1>1. Resolving /\ UNCHANGED <<poolVars, world, request, interrupts, before>>
    BY DEF GrabDependencies, ResolveDep, GetReturns, AllRead
<1>2. UNCHANGED <<maxthreads, targets, jobq, mainpc, nthr, tpc, pkg, next, tarball,
                  dir, taken, failed>>
    BY <1>1 DEF poolVars, queueVars, mainVars, threadVars, diskVars, history
<1>3. PoolTypeOK /\ [PoolStep]_poolVars
    BY <1>1 DEF GetInv, GetTypeOK
<1>4. PoolTypeOK'
    BY <1>3, NextTyped
<1>5. QED
    BY <1>1, <1>2, <1>4

\* The list of packages to read, and where the loop is in it.
LEMMA Loop ==
    ASSUME GetInv
    PROVE  /\ targets \in Seq(Pkgs) /\ Len(targets) \in Nat /\ End = Len(targets) + 1
           /\ item \in 1..End /\ deps \in Seq(Pkgs) /\ newdeps \in Seq(Pkgs)
           /\ ToSet(targets) \subseteq Pkgs /\ ToSet(deps) \subseteq Pkgs
           /\ ToSet(newdeps) \subseteq Pkgs
           /\ item <= Len(targets) => targets[item] \in ToSet(targets)
           /\ request \in Seq(Pkgs)
           /\ dir \in [Pkgs -> {"absent", "damaged", "complete"}]
<1>1. targets \in Seq(Pkgs) /\ item \in 1..End /\ deps \in Seq(Pkgs) /\ newdeps \in Seq(Pkgs)
    BY DEF GetInv, GetTypeOK, PoolTypeOK
<1>2. Len(targets) \in Nat /\ End = Len(targets) + 1
    BY <1>1 DEF End
<1>3. \A s \in Seq(Pkgs) : ToSet(s) \subseteq Pkgs
    BY DEF ToSet
<1>4. item <= Len(targets) => targets[item] \in ToSet(targets)
    BY <1>1, <1>2 DEF ToSet
<1>5. QED
    BY <1>1, <1>2, <1>3, <1>4 DEF GetInv, InputsOK, GetTypeOK, PoolTypeOK

LEMMA InputsStay == GetInv /\ [GetNextState]_getVars => InputsOK' /\ Depending' = Depending
<1>1. SUFFICES ASSUME GetInv, [GetNextState]_getVars PROVE UNCHANGED <<world, request>>
    BY DEF GetInv, InputsOK, Depending
<1>2. QED
    BY <1>1 DEF GetNextState, Download, InRound, Resolve, GrabDependencies, ResolveDep, NextRound,
        GetReturns, Interrupt, Restart, GetCannotStart, getVars

LEMMA InterruptTyped == ASSUME PoolTypeOK, Interrupt PROVE PoolTypeOK'
<1>1. /\ UNCHANGED <<maxthreads, targets, jobq, mainpc, nthr, pkg, next, tarball, dir, taken, failed>>
      /\ tpc' = [t \in Threads |-> "gone"]
    BY DEF Interrupt, queueVars, mainVars, diskVars, history
<1>2. tpc' \in [Threads -> {"none", "init", "getdata", "next", "store", "fopen",
                            "transfer", "extract", "gone"}]
    BY <1>1
<1>3. QED
    BY <1>1, <1>2 DEF PoolTypeOK, End, num_threads, Threads, Absent, Whole

LEMMA TypesStay == GetInv /\ [GetNextState]_getVars => GetTypeOK'
<1> SUFFICES ASSUME GetInv, [GetNextState]_getVars PROVE GetTypeOK'
    OBVIOUS
<1>1. /\ GetTypeOK /\ PoolTypeOK /\ InputsOK /\ Phases
    BY DEF GetInv, GetTypeOK
<1>2. /\ world \in Worlds /\ request \in TargetLists /\ request \in Seq(Pkgs)
      /\ getpc \in {"pool", "killed", "done", "failed"} /\ interrupts \in 0..MaxInterrupts
      /\ item \in 1..End /\ deps \in Seq(Pkgs) /\ newdeps \in Seq(Pkgs) /\ before \subseteq Pkgs
    BY <1>1 DEF GetTypeOK, InputsOK
<1>3. CASE Download
    <2>1. PoolTypeOK'
        BY <1>1, <1>3, Downloading, NextTyped
    <2>2. End' = End
        BY <1>3, Downloading DEF End
    <2>3. QED
        BY <1>2, <1>3, <2>1, <2>2, Downloading DEF GetTypeOK
<1>4. CASE GrabDependencies
    <2>1. /\ PoolTypeOK' /\ End' = End
          /\ UNCHANGED <<world, request, interrupts, before, getpc, newdeps>>
        BY <1>4, Reading DEF GrabDependencies, End
    <2>2. targets[item] \in Pkgs
        BY <1>4, Loop DEF GrabDependencies
    <2>3. deps' \in Seq(Pkgs)
        BY <1>1, <1>4, <2>2, ReadableOK DEF GrabDependencies
    <2>4. item' \in 1..End
        BY <1>4, Loop DEF GrabDependencies
    <2>5. QED
        BY <1>2, <2>1, <2>3, <2>4 DEF GetTypeOK
<1>5. CASE ResolveDep
    <2>1. /\ PoolTypeOK' /\ End' = End
          /\ UNCHANGED <<world, request, interrupts, before, getpc, item>>
        BY <1>5, Reading DEF ResolveDep, End
    <2>2. Head(deps) \in Pkgs /\ Tail(deps) \in Seq(Pkgs)
        BY <1>2, <1>5, HeadAndTail DEF ResolveDep
    <2>3. deps' \in Seq(Pkgs) /\ newdeps' \in Seq(Pkgs)
        BY <1>2, <1>5, <2>2, Appended DEF ResolveDep
    <2>4. QED
        BY <1>2, <2>1, <2>3 DEF GetTypeOK
<1>6. CASE NextRound
    <2>1. PoolTypeOK'
        BY <1>1, <1>2, <1>6, Calling DEF NextRound
    <2>2. /\ UNCHANGED <<world, request, getpc, interrupts, deps>>
          /\ item' = 1 /\ newdeps' = <<>> /\ before' = before \cup ToSet(taken)
        BY <1>6 DEF NextRound
    <2>3. ToSet(taken) \subseteq Pkgs
        BY <1>1 DEF PoolTypeOK, ToSet
    <2>4. 1 \in 1..End'
        BY <2>1 DEF PoolTypeOK, End
    <2>5. QED
        BY <1>2, <2>1, <2>2, <2>3, <2>4 DEF GetTypeOK
<1>7. CASE GetReturns
    <2>1. /\ PoolTypeOK' /\ End' = End /\ getpc' = "done"
          /\ UNCHANGED <<world, request, interrupts, before, item, deps, newdeps>>
        BY <1>7, Reading DEF GetReturns, End, resolveVars
    <2>2. QED
        BY <1>2, <2>1 DEF GetTypeOK
<1>8. CASE Interrupt
    <2>1. PoolTypeOK'
        BY <1>1, <1>8, InterruptTyped
    <2>2. /\ UNCHANGED <<world, request, before>> /\ getpc' = "killed"
          /\ interrupts' = interrupts + 1 /\ interrupts < MaxInterrupts
          /\ item' = 1 /\ deps' = <<>> /\ newdeps' = <<>>
        BY <1>8 DEF Interrupt
    <2>3. 1 \in 1..End'
        BY <2>1 DEF PoolTypeOK, End
    <2>4. interrupts' \in 0..MaxInterrupts
        BY <1>2, <2>2, WorldAssumption
    <2>5. QED
        BY <1>2, <2>1, <2>2, <2>3, <2>4 DEF GetTypeOK
<1>9. CASE Restart
    <2>1. PoolTypeOK'
        BY <1>1, <1>2, <1>9, Calling DEF Restart
    <2>2. /\ UNCHANGED <<world, request, interrupts, item, deps, newdeps>>
          /\ getpc' = "pool" /\ before' = {} /\ getpc = "killed"
        BY <1>9 DEF Restart, resolveVars
    <2>3. item = 1
        BY <1>1, <2>2 DEF Phases
    <2>4. 1 \in 1..End'
        BY <2>1 DEF PoolTypeOK, End
    <2>5. QED
        BY <1>2, <2>1, <2>2, <2>3, <2>4 DEF GetTypeOK
<1>10. CASE UNCHANGED getVars
    <2>1. UNCHANGED poolVars
        BY <1>10 DEF getVars
    <2>2. PoolTypeOK' /\ End' = End
        BY <1>1, <2>1, NextTyped DEF End, poolVars, queueVars
    <2>3. QED
        BY <1>2, <1>10, <2>2 DEF GetTypeOK, getVars, resolveVars
<1>12. CASE GetCannotStart
    <2>1. /\ UNCHANGED <<poolVars, world, request, interrupts, item, deps, newdeps, before>>
          /\ getpc' = "failed"
        BY <1>12 DEF GetCannotStart, resolveVars
    <2>2. PoolTypeOK' /\ End' = End
        BY <1>1, <2>1, NextTyped DEF End, poolVars, queueVars
    <2>3. QED
        BY <1>2, <2>1, <2>2 DEF GetTypeOK
<1>11. QED
    BY <1>3, <1>4, <1>5, <1>6, <1>7, <1>8, <1>9, <1>10, <1>12 DEF GetNextState, Resolve

LEMMA PhasesStay == GetInv /\ GetNextState => Phases'
<1> SUFFICES ASSUME GetInv, GetNextState PROVE Phases'
    OBVIOUS
<1>1. Phases /\ PoolTypeOK /\ newdeps \in Seq(Pkgs) /\ request \in Seq(Pkgs)
    BY Loop DEF GetInv, GetTypeOK
<1>2. CASE Download
    <2>1. /\ item = 1 /\ deps = <<>> /\ newdeps = <<>> /\ getpc = "pool"
          /\ UNCHANGED <<item, deps, newdeps, getpc, interrupts>>
        BY <1>1, <1>2, Downloading DEF Phases
    <2>2. Joined'
        BY <1>1, <1>2, Downloading, NextJoined
    <2>3. QED
        BY <2>1, <2>2 DEF Phases
<1>3. CASE GrabDependencies \/ ResolveDep \/ GetReturns
    <2>1. /\ getpc = "pool" /\ mainpc = "returned" /\ Joined
          /\ UNCHANGED <<mainpc, targets, interrupts, nthr, tpc, maxthreads>>
        BY <1>1, <1>3, Reading DEF Resolving, Phases
    <2>2. Joined'
        BY <2>1 DEF Joined, QuietOnReturn, num_threads
    <2>3. CASE GrabDependencies \/ ResolveDep
        BY <1>1, <2>1, <2>2, <2>3 DEF Phases, GrabDependencies, ResolveDep
    <2>4. CASE GetReturns
        BY <1>1, <2>1, <2>2, <2>4 DEF Phases, GetReturns, AllRead, resolveVars
    <2>5. QED
        BY <1>3, <2>3, <2>4
<1>4. CASE NextRound
    <2>1. /\ getpc = "pool" /\ UNCHANGED <<getpc, interrupts, deps>> /\ deps = <<>>
          /\ item' = 1 /\ newdeps' = <<>>
        BY <1>4 DEF NextRound, AllRead, Resolving
    <2>2. Joined'
        BY <1>1, <1>4, Calling DEF NextRound
    <2>3. QED
        BY <2>1, <2>2 DEF Phases
<1>5. CASE Interrupt
    <2>1. /\ getpc' = "killed" /\ item' = 1 /\ deps' = <<>> /\ newdeps' = <<>>
          /\ interrupts' = interrupts + 1 /\ interrupts \in 0..MaxInterrupts
        BY <1>5 DEF Interrupt, GetInv, GetTypeOK
    <2>2. interrupts' # 0
        BY <2>1, WorldAssumption
    <2>3. QED
        BY <2>1, <2>2 DEF Phases
<1>6. CASE Restart
    <2>1. /\ getpc = "killed" /\ getpc' = "pool" /\ UNCHANGED <<interrupts, item, deps, newdeps>>
          /\ item = 1 /\ deps = <<>> /\ newdeps = <<>>
        BY <1>1, <1>6 DEF Restart, resolveVars, Phases
    <2>2. Joined'
        BY <1>1, <1>6, Calling DEF Restart
    <2>3. interrupts # 0
        BY <1>1, <2>1 DEF Phases
    <2>4. QED
        BY <2>1, <2>2, <2>3 DEF Phases
<1>7. CASE GetCannotStart
    <2>1. /\ mainpc = "create" /\ getpc' = "failed"
          /\ UNCHANGED <<mainpc, interrupts, item, deps, newdeps>>
        BY <1>7 DEF GetCannotStart, resolveVars, poolVars, mainVars
    <2>2. QED
        BY <1>1, <2>1 DEF Phases
<1>8. QED
    BY <1>2, <1>3, <1>4, <1>5, <1>6, <1>7 DEF GetNextState, Resolve

LEMMA HoldingInThePool ==
    ASSUME PoolTypeOK, Holding, PoolStep
    PROVE  Holding'
<1>1. /\ tpc \in [Threads -> {"none", "init", "getdata", "next", "store", "fopen",
                              "transfer", "extract", "gone"}]
      /\ pkg \in [Threads -> Pkgs \cup {NULL}] /\ targets \in Seq(Pkgs) /\ Len(targets) \in Nat
      /\ jobq \in 1..(Len(targets) + 1) /\ taken \in Seq(Pkgs)
    BY DEF PoolTypeOK, End
<1>2. /\ \A t \in Threads : pkg[t] = NULL \/ pkg[t] \in ToSet(targets)
      /\ \A t \in Threads : tpc[t] \in {"fopen", "transfer", "extract"} => pkg[t] # NULL
      /\ ToSet(taken) \subseteq ToSet(targets)
    BY DEF Holding
<1>6. CASE CreateFails \/ JoinFails
    BY <1>2, <1>6, Dying DEF Holding
<1>3. CASE Main /\ ~(CreateFails \/ JoinFails)
    <2>1. /\ UNCHANGED <<targets, pkg, taken>>
          /\ UNCHANGED tpc \/ \E t \in Threads : tpc' = [tpc EXCEPT ![t] = "init"]
        <3>1. CASE CreateThread
            <4>1. nthr + 1 \in Threads
                BY <3>1, PoolAssumption DEF CreateThread, PoolTypeOK, num_threads, Threads
            <4>2. QED
                BY <3>1, <4>1 DEF CreateThread, Goto, queueVars, history
        <3>2. QED
            BY <1>3, <3>1 DEF Main, StartJoining, JoinThread, ReturnFromPool, queueVars,
                threadVars, history
    <2>2. QED
        BY <1>1, <1>2, <2>1 DEF Holding
<1>4. ASSUME NEW t \in Threads, Worker(t) PROVE Holding'
    <2>1. CASE GetData(t)
        <3>1. /\ UNCHANGED targets /\ tpc' = [tpc EXCEPT ![t] = "next"]
              /\ pkg' = [pkg EXCEPT ![t] = alpm_list_getdata(jobq)]
              /\ taken' = IF alpm_list_getdata(jobq) = NULL THEN taken
                          ELSE Append(taken, alpm_list_getdata(jobq))
            BY <1>1, <2>1 DEF GetData, Goto, queueVars
        <3>2. alpm_list_getdata(jobq) = NULL
                  \/ alpm_list_getdata(jobq) \in ToSet(targets) \cap Pkgs
            BY <1>1 DEF alpm_list_getdata, End, ToSet
        <3>3. ToSet(taken') \subseteq ToSet(targets)
            BY <1>1, <1>2, <3>1, <3>2, Appended
        <3>4. QED
            BY <1>1, <1>2, <3>1, <3>2, <3>3 DEF Holding
    <2>2. CASE StoreJobq(t)
        BY <1>1, <1>2, <2>2 DEF StoreJobq, Goto, history, Holding
    <2>3. CASE ~GetData(t) /\ ~StoreJobq(t)
        <3>1. /\ UNCHANGED <<targets, pkg, taken>>
              /\ \A u \in Threads : u # t => tpc'[u] = tpc[u]
              /\ tpc'[t] \in {"transfer", "extract"} => tpc[t] \in {"fopen", "transfer"}
              /\ tpc'[t] # "fopen"
            BY <1>1, <1>4, <2>3 DEF Worker, CurlInit, GetNext, OpenTarball, Transfer,
                ArchiveOpenFails, Extract, GiveUp, Goto, queueVars, history
        <3>2. QED
            BY <1>2, <3>1 DEF Holding
    <2>4. QED
        BY <2>1, <2>2, <2>3
<1>5. QED
    BY <1>3, <1>4, <1>6 DEF PoolStep

LEMMA HoldingStays == GetInv /\ GetNextState => Holding'
<1> SUFFICES ASSUME GetInv, GetNextState PROVE Holding'
    OBVIOUS
<1>1. Holding /\ PoolTypeOK /\ newdeps \in Seq(Pkgs) /\ request \in Seq(Pkgs)
    BY Loop DEF GetInv, GetTypeOK
<1>2. CASE Download
    BY <1>1, <1>2, Downloading, HoldingInThePool
<1>3. CASE GrabDependencies \/ ResolveDep \/ GetReturns
    BY <1>1, <1>3, Reading DEF Holding
<1>4. CASE NextRound \/ Restart
    <2>1. taken' = <<>> /\ \A t \in Threads : tpc'[t] = "none" /\ pkg'[t] = NULL
        BY <1>1, <1>4, Calling DEF NextRound, Restart
    <2>2. QED
        BY <2>1, EmptyList DEF Holding
<1>5. CASE Interrupt
    BY <1>1, <1>5 DEF Interrupt, Holding, queueVars, history
<1>6. CASE GetCannotStart
    BY <1>1, <1>6 DEF GetCannotStart, Holding, poolVars, queueVars, threadVars, history
<1>7. QED
    BY <1>2, <1>3, <1>4, <1>5, <1>6 DEF GetNextState, Resolve

\* The reasons of a list outlive the downloads: the packages they come from are
\* not in it.
LEMMA NeededStays == GetInv /\ GetNextState => RoundNeeded'
<1> SUFFICES ASSUME GetInv, GetNextState PROVE RoundNeeded'
    OBVIOUS
<1>1. /\ RoundNeeded /\ NewNeeded /\ PoolTypeOK /\ Depending' = Depending
      /\ newdeps \in Seq(Pkgs) /\ request \in Seq(Pkgs) /\ UNCHANGED <<world, request>>
    <2>1. UNCHANGED <<world, request>>
        BY DEF GetNextState, Download, InRound, Resolve, GrabDependencies, ResolveDep, NextRound,
            GetReturns, Interrupt, Restart, GetCannotStart
    <2>2. QED
        BY <2>1, Loop, InputsStay DEF GetInv, GetTypeOK
<1>2. CASE Download
    <2>1. UNCHANGED targets /\ Present' \ ToSet(targets) = Present \ ToSet(targets)
        BY <1>2, Downloading DEF Present
    <2>2. QED
        BY <1>1, <2>1 DEF RoundNeeded
<1>3. CASE GrabDependencies \/ ResolveDep \/ GetReturns \/ Interrupt \/ GetCannotStart
    <2>1. UNCHANGED <<targets, dir>>
        BY <1>3, Reading DEF Interrupt, GetCannotStart, poolVars, queueVars, diskVars
    <2>2. Present' = Present
        BY <2>1 DEF Present
    <2>3. QED
        BY <1>1, <2>1, <2>2 DEF RoundNeeded
<1>4. CASE NextRound
    <2>1. targets' = newdeps /\ UNCHANGED dir
        BY <1>1, <1>4, Calling DEF NextRound
    <2>2. Present' = Present
        BY <2>1 DEF Present
    <2>3. \A p \in ToSet(newdeps) :
             p \notin world.known /\ \E q \in Present \ ToSet(newdeps) : <<q, p>> \in Depending
        BY <1>1 DEF NewNeeded
    <2>4. QED
        BY <1>1, <2>1, <2>2, <2>3 DEF RoundNeeded
<1>5. CASE Restart
    BY <1>1, <1>5, Calling DEF Restart, RoundNeeded
<1>6. QED
    BY <1>2, <1>3, <1>4, <1>5 DEF GetNextState, Resolve

\* The dependencies at hand come from a PKGBUILD on the disk, and so do those
\* that are collected.
LEMMA ReadStays == GetInv /\ GetNextState => NewNeeded' /\ DepsRead'
<1> SUFFICES ASSUME GetInv, GetNextState PROVE NewNeeded' /\ DepsRead'
    OBVIOUS
<1>1. /\ NewNeeded /\ DepsRead /\ PoolTypeOK /\ InputsOK /\ Depending' = Depending
      /\ UNCHANGED <<world, request>>
    <2>1. UNCHANGED <<world, request>>
        BY DEF GetNextState, Download, InRound, Resolve, GrabDependencies, ResolveDep, NextRound,
            GetReturns, Interrupt, Restart, GetCannotStart
    <2>2. QED
        BY <2>1, InputsStay DEF GetInv, GetTypeOK
<1>2. CASE Download \/ NextRound \/ Interrupt \/ Restart
    <2>1. deps' = <<>> /\ newdeps' = <<>>
        <3>1. CASE Download
            BY <3>1, Downloading DEF GetInv, Phases
        <3>2. CASE NextRound \/ Interrupt
            BY <3>2 DEF NextRound, AllRead, Interrupt
        <3>3. CASE Restart
            BY <3>3 DEF Restart, resolveVars, GetInv, Phases
        <3>4. QED
            BY <1>2, <3>1, <3>2, <3>3
    <2>2. QED
        BY <2>1, EmptyList DEF NewNeeded, DepsRead
<1>3. CASE GrabDependencies
    <2>1. /\ UNCHANGED newdeps /\ deps' \in Readable(targets[item]) /\ targets[item] \in Pkgs
          /\ Present' = Present
        BY <1>3, Reading, Loop DEF GrabDependencies, Present
    <2>2. /\ deps' # <<>> => targets[item] \in Present
          /\ \A d \in ToSet(deps') : <<targets[item], d>> \in Depending
        BY <1>1, <2>1, ReadableOK
    <2>3. QED
        BY <1>1, <2>1, <2>2 DEF NewNeeded, DepsRead
<1>4. CASE ResolveDep
    <2>1. /\ deps # <<>> /\ deps' = Tail(deps) /\ Present' = Present
          /\ newdeps' = IF NeedsDownload(Head(deps)) THEN Append(newdeps, Head(deps)) ELSE newdeps
          /\ deps \in Seq(Pkgs) /\ newdeps \in Seq(Pkgs)
        BY <1>4, Reading, Loop DEF ResolveDep, Present
    <2>2. /\ ToSet(deps) = {Head(deps)} \cup ToSet(deps') /\ Head(deps) \in Pkgs
        BY <2>1, HeadAndTail
    <2>3. PICK q \in Present : \A d \in ToSet(deps) : <<q, d>> \in Depending
        BY <1>1, <2>1 DEF DepsRead
    <2>4. DepsRead'
        BY <1>1, <2>1, <2>2, <2>3 DEF DepsRead
    <2>5. CASE NeedsDownload(Head(deps))
        <3>1. ToSet(newdeps') = ToSet(newdeps) \cup {Head(deps)}
            BY <2>1, <2>2, <2>5, Appended
        <3>2. Head(deps) \notin world.known /\ Head(deps) \notin Present
            BY <2>5 DEF NeedsDownload, OnDisk, Present
        <3>3. QED
            BY <1>1, <2>1, <2>2, <2>3, <2>4, <3>1, <3>2 DEF NewNeeded
    <2>6. CASE ~NeedsDownload(Head(deps))
        BY <1>1, <2>1, <2>4, <2>6 DEF NewNeeded
    <2>7. QED
        BY <2>5, <2>6
<1>5. CASE GetReturns \/ GetCannotStart
    <2>1. UNCHANGED <<deps, newdeps>> /\ Present' = Present
        BY <1>5, Reading DEF GetReturns, GetCannotStart, resolveVars, poolVars, diskVars, Present
    <2>2. QED
        BY <1>1, <2>1 DEF NewNeeded, DepsRead
<1>6. QED
    BY <1>2, <1>3, <1>4, <1>5 DEF GetNextState, Resolve

-----------------------------------------------------------------------------
(* The rounds with a single worker.                                         *)

\* An empty list gets no worker, any other exactly one.
LEMMA LoneWorker ==
    ASSUME PoolTypeOK, Joined, TakenInv, maxthreads = 1, NEW t \in Threads, Worker(t)
    PROVE  /\ t = 1 /\ Alone /\ TakenSoFar
<1>1. /\ targets \in Seq(Pkgs) /\ Len(targets) \in Nat /\ nthr \in 0..num_threads
      /\ \A u \in Threads : u \in Nat /\ u > 0
      /\ mainpc \in {"create", "join", "returned", "died"}
    BY PoolAssumption DEF PoolTypeOK, Threads
<1>2. tpc[t] \notin {"none", "gone"}
    BY WorkerMoves
<1>3. num_threads # 0
    BY <1>1, <1>2 DEF Joined, QuietOnReturn
<1>4. Alone
    <2>1. targets \in Seq(Pkgs) /\ Len(targets) \in Nat
        BY <1>1
    <2>2. Len(targets) # 0
        BY <1>3 DEF num_threads
    <2>3. \A n \in Nat : n = 0 \/ n = 1 \/ n > 1
        OBVIOUS
    <2>5. Len(targets) = 1 \/ Len(targets) > 1
        BY <2>1, <2>2, <2>3, Zenon
    <2>4. QED
        BY <2>1, <2>5 DEF num_threads, Alone
<1>5. QED
    BY <1>2, <1>4 DEF TakenInv

LEMMA AllExtracted ==
    PoolTypeOK /\ Joined /\ maxthreads = 1 /\ TakenInv /\ (Alone /\ ~failed => GetProgress) =>
        (mainpc = "returned" /\ ~failed => ToSet(targets) \subseteq Complete)
<1>1. SUFFICES ASSUME PoolTypeOK, Joined, maxthreads = 1, TakenInv,
                      Alone /\ ~failed => GetProgress, mainpc = "returned", ~failed
               PROVE  ToSet(targets) \subseteq Complete
    OBVIOUS
<1>2. targets \in Seq(Pkgs) /\ Len(targets) \in Nat /\ DOMAIN targets = 1..Len(targets)
    BY <1>1 DEF PoolTypeOK
<1>3. CASE Alone
    <2>1. Extracted(Len(targets))
        BY <1>1, <1>3 DEF TakenInv, GetProgress
    <2>2. QED
        BY <1>2, <2>1 DEF Extracted, Complete, ToSet
<1>4. CASE ~Alone
    <2>1. Len(targets) = 0
        BY <1>1, <1>2, <1>4 DEF Alone, num_threads
    <2>2. QED
        BY <1>2, <2>1 DEF ToSet
<1>5. QED
    BY <1>3, <1>4

LEMMA ProgressInThePool ==
    ASSUME PoolTypeOK, Holding, Joined, TakenInv, maxthreads = 1, Alone,
           ~failed => GetProgress, PoolStep, ~failed'
    PROVE  GetProgress'
<1>1. /\ tpc \in [Threads -> {"none", "init", "getdata", "next", "store", "fopen",
                              "transfer", "extract", "gone"}]
      /\ pkg \in [Threads -> Pkgs \cup {NULL}] /\ next \in [Threads -> 1..End]
      /\ tarball \in [Pkgs -> Threads \cup {Absent, Whole}]
      /\ dir \in [Pkgs -> {"absent", "damaged", "complete"}]
      /\ targets \in Seq(Pkgs) /\ Len(targets) \in Nat /\ jobq \in 1..End
      /\ End = Len(targets) + 1
      /\ num_threads = 1 /\ nthr \in 0..1 /\ 1 \in Threads
      /\ TakenSoFar
    BY PoolAssumption DEF PoolTypeOK, Threads, Alone, End, TakenInv
<1>5. ~CreateFails /\ ~JoinFails
    BY Dying
<1>2. CASE Main
    <2>1. UNCHANGED <<targets, jobq, pkg, tarball, dir, failed>>
          /\ (UNCHANGED tpc \/ (tpc[1] = "none" /\ tpc' = [tpc EXCEPT ![1] = "init"]))
        <3>1. CASE CreateThread
            <4>1. nthr + 1 = 1 /\ tpc[1] = "none"
                BY <1>1, <3>1 DEF CreateThread, Joined
            <4>2. QED
                BY <3>1, <4>1 DEF CreateThread, Goto, queueVars, diskVars, history
        <3>2. QED
            BY <1>2, <1>5, <3>1 DEF Main, StartJoining, JoinThread, ReturnFromPool, queueVars,
                threadVars, diskVars, history
    <2>2. QED
        BY <1>1, <2>1 DEF GetProgress, Extracted
<1>3. ASSUME NEW t \in Threads, Worker(t) PROVE GetProgress'
    <2>1. t = 1
        BY <1>3, LoneWorker
    <2>2. CASE CurlInit(1)
        BY <1>1, <2>2 DEF CurlInit, GiveUp, Goto, GetProgress, Extracted, queueVars, diskVars
    <2>3. CASE GetData(1)
        BY <1>1, <2>3 DEF GetData, Goto, GetProgress, Extracted, queueVars, diskVars
    <2>4. CASE GetNext(1)
        BY <1>1, <2>4 DEF GetNext, Goto, GetProgress, Extracted, queueVars, diskVars, history
    <2>5. CASE StoreJobq(1)
        <3>1. /\ ~failed /\ tpc[1] = "store" /\ jobq' = alpm_list_next(jobq)
              /\ pkg[1] = alpm_list_getdata(jobq) /\ Extracted(jobq - 1)
              /\ tpc' = [tpc EXCEPT ![1] = IF pkg[1] = NULL THEN "gone" ELSE "fopen"]
              /\ UNCHANGED <<targets, pkg, tarball, dir, failed>>
            BY <1>1, <2>5 DEF StoreJobq, Goto, GetProgress, TakenSoFar, diskVars, history
        <3>2. CASE jobq = End
            BY <1>1, <3>1, <3>2 DEF GetProgress, Extracted, alpm_list_getdata
        <3>3. CASE jobq # End
            <4>1. targets[jobq] \in Pkgs /\ targets[jobq] # NULL
                BY <1>1, <3>3, PoolAssumption
            <4>2. pkg[1] = targets[jobq] /\ jobq' = jobq + 1 /\ tpc'[1] = "fopen"
                BY <1>1, <3>1, <3>3, <4>1 DEF alpm_list_getdata, alpm_list_next
            <4>3. QED
                BY <1>1, <3>1, <3>3, <4>2 DEF GetProgress, Extracted
        <3>4. QED
            BY <3>2, <3>3
    <2>6. CASE OpenTarball(1)
        <3>1. /\ ~failed /\ tpc[1] = "fopen"
              /\ tarball' = [tarball EXCEPT ![pkg[1]] = 1]
              /\ tpc' = [tpc EXCEPT ![1] = "transfer"]
              /\ UNCHANGED <<targets, jobq, pkg, dir, failed>>
            BY <2>6 DEF OpenTarball, GiveUp, Goto, queueVars
        <3>2. pkg[1] \in Pkgs
            BY <1>1, <3>1 DEF Holding
        <3>3. QED
            BY <1>1, <3>1, <3>2 DEF GetProgress, Extracted
    <2>7. CASE Transfer(1)
        <3>1. /\ ~failed /\ tpc[1] = "transfer"
              /\ tarball' = [tarball EXCEPT ![pkg[1]] = IF @ = 1 THEN Whole ELSE @]
              /\ tpc' = [tpc EXCEPT ![1] = "extract"]
              /\ UNCHANGED <<targets, jobq, pkg, dir, failed>>
            BY <2>7 DEF Transfer, GiveUp, Goto, queueVars
        <3>2. pkg[1] \in Pkgs
            BY <1>1, <3>1 DEF Holding
        <3>3. QED
            BY <1>1, <3>1, <3>2 DEF GetProgress, Extracted
    <2>8. CASE ArchiveOpenFails(1)
        BY <2>8 DEF ArchiveOpenFails, GiveUp
    <2>9. CASE Extract(1)
        <3>1. /\ ~failed /\ tpc[1] = "extract"
              /\ dir' = [dir EXCEPT ![pkg[1]] = "complete"]
              /\ tpc' = [tpc EXCEPT ![1] = "getdata"]
              /\ UNCHANGED <<targets, jobq, failed>>
            BY <2>9 DEF Extract, Goto, queueVars
        <3>2. jobq > 1 /\ pkg[1] = targets[jobq - 1] /\ pkg[1] \in Pkgs /\ Extracted(jobq - 2)
            BY <1>1, <3>1 DEF GetProgress, Holding
        <3>3. \A k \in 1..(jobq - 1) : k \in 1..Len(targets) /\ (k \in 1..(jobq - 2) \/ k = jobq - 1)
            BY <1>1
        <3>4. Extracted(jobq - 1)'
            BY <1>1, <3>1, <3>2, <3>3 DEF Extracted
        <3>5. QED
            BY <1>1, <3>1, <3>4 DEF GetProgress
    <2>10. QED
        BY <1>3, <2>1, <2>2, <2>3, <2>4, <2>5, <2>6, <2>7, <2>8, <2>9 DEF Worker
<1>4. QED
    BY <1>2, <1>3 DEF PoolStep

LEMMA MaxFixed == GetInv /\ GetNextState => maxthreads' = maxthreads
<1>1. SUFFICES ASSUME GetInv, GetNextState PROVE maxthreads' = maxthreads
    OBVIOUS
<1>2. CASE Download
    BY <1>1, <1>2, Downloading
<1>3. CASE GrabDependencies \/ ResolveDep \/ GetReturns
    BY <1>1, <1>3, Reading
<1>4. CASE NextRound \/ Interrupt \/ Restart \/ GetCannotStart
    BY <1>4 DEF NextRound, Interrupt, Restart, GetCannotStart, Called, poolVars, queueVars
<1>5. QED
    BY <1>1, <1>2, <1>3, <1>4 DEF GetNextState, Resolve

\* The order of the list is kept by a worker that takes the next job of it.
LEMMA OrderKept ==
    ASSUME targets \in Seq(Pkgs), taken \in Seq(Pkgs), InOrder, Jobs!Take
    PROVE  InOrder'
<1>1. /\ Len(taken) < Len(targets) /\ UNCHANGED targets
      /\ taken' = Append(taken, targets[Len(taken) + 1])
    BY DEF Jobs!Take
<1>2. /\ Len(taken) \in Nat /\ Len(targets) \in Nat /\ Len(taken') = Len(taken) + 1
      /\ taken'[Len(taken) + 1] = targets[Len(taken) + 1]
      /\ \A k \in 1..Len(taken) : taken'[k] = taken[k]
    BY <1>1
<1>3. \A k \in 1..(Len(taken) + 1) : k \in 1..Len(taken) \/ k = Len(taken) + 1
    BY <1>2
<1>4. \A k \in 1..Len(taken) : taken[k] = targets[k]
    BY DEF InOrder
<1>5. QED
    BY <1>1, <1>2, <1>3, <1>4 DEF InOrder

LEMMA WorkStays == GetInv /\ GetNextState /\ maxthreads = 1 => WorkInv'
<1> SUFFICES ASSUME GetInv, GetNextState, maxthreads = 1 PROVE WorkInv'
    OBVIOUS
<1>1. /\ WorkInv /\ PoolTypeOK /\ Holding /\ newdeps \in Seq(Pkgs) /\ request \in Seq(Pkgs)
      /\ targets \in Seq(Pkgs) /\ taken \in Seq(Pkgs)
    BY Loop DEF GetInv, SingleInv, GetTypeOK, PoolTypeOK
<1>2. CASE Download
    <2>1. /\ getpc = "pool" /\ getpc' = "pool" /\ PoolStep /\ Joined /\ TakenInv /\ InOrder
          /\ UNCHANGED <<maxthreads, targets>> /\ (Alone' <=> Alone)
          /\ ~failed' => ~failed
          /\ Alone /\ ~failed => GetProgress
        BY <1>1, <1>2, Downloading DEF WorkInv, Alone, num_threads
    <2>2. TakenInv' /\ [Alone => Jobs!Next]_JobVars
        BY <1>1, <2>1, NextTaken
    <2>3. InOrder'
        <3>1. CASE taken' = taken
            BY <2>1, <3>1 DEF InOrder
        <3>2. CASE taken' # taken
            <4>1. PICK t \in Threads : Worker(t)
                BY <2>1, <3>2 DEF PoolStep, Main, CreateThread, CreateFails, StartJoining,
                    JoinThread, JoinFails, Die, ReturnFromPool, history
            <4>2. Alone
                BY <1>1, <2>1, <4>1, LoneWorker
            <4>3. Jobs!Take
                BY <2>2, <3>2, <4>2 DEF JobVars, Jobs!Next, Jobs!Fail, Jobs!Return
            <4>4. QED
                BY <1>1, <2>1, <4>3, OrderKept
        <3>3. QED
            BY <3>1, <3>2
    <2>4. ASSUME Alone', ~failed' PROVE GetProgress'
        BY <1>1, <2>1, <2>4, ProgressInThePool
    <2>5. QED
        BY <2>2, <2>3, <2>4 DEF WorkInv
<1>3. CASE GrabDependencies \/ ResolveDep \/ GetReturns
    <2>1. /\ UNCHANGED <<maxthreads, targets, jobq, mainpc, nthr, tpc, pkg, next, tarball, dir,
                         taken, failed>>
          /\ getpc = "pool"
        BY <1>3, Reading DEF Resolving
    <2>2. InOrder' /\ TakenInv' /\ (Alone /\ ~failed => GetProgress)'
        BY <1>1, <2>1 DEF WorkInv, InOrder, TakenInv, TakenSoFar, Alone, num_threads, GetProgress,
            Extracted, alpm_list_getdata, alpm_list_next, End
    <2>3. QED
        BY <2>2 DEF WorkInv
<1>4. CASE NextRound \/ Restart
    <2>1. /\ TakenInv' /\ taken' = <<>> /\ jobq' = 1 /\ targets' \in Seq(Pkgs)
          /\ \A t \in Threads : tpc'[t] = "none"
        BY <1>1, <1>4, Calling DEF NextRound, Restart
    <2>2. InOrder'
        BY <2>1 DEF InOrder
    <2>3. 1 \in Threads
        BY PoolAssumption DEF Threads
    <2>4. GetProgress'
        BY <2>1, <2>3 DEF GetProgress, Extracted
    <2>5. QED
        BY <2>1, <2>2, <2>4 DEF WorkInv
<1>5. CASE Interrupt
    BY <1>1, <1>5 DEF Interrupt, WorkInv, InOrder, queueVars, history
<1>6. CASE GetCannotStart
    <2>1. getpc' = "failed" /\ UNCHANGED <<targets, taken>>
        BY <1>6 DEF GetCannotStart, poolVars, queueVars, history
    <2>2. QED
        BY <1>1, <2>1 DEF WorkInv, InOrder
<1>7. QED
    BY <1>2, <1>3, <1>4, <1>5, <1>6 DEF GetNextState, Resolve

LEMMA OnceStays == GetInv /\ GetNextState /\ maxthreads = 1 => OnceInv'
<1> SUFFICES ASSUME GetInv, GetNextState, maxthreads = 1 PROVE OnceInv'
    OBVIOUS
<1>1. /\ OnceInv /\ WorkInv /\ PoolTypeOK /\ Holding /\ Phases /\ NewNeeded
      /\ newdeps \in Seq(Pkgs) /\ request \in Seq(Pkgs) /\ targets \in Seq(Pkgs)
      /\ dir \in [Pkgs -> {"absent", "damaged", "complete"}]
    BY Loop DEF GetInv, SingleInv, GetTypeOK
<1>2. CASE Download
    <2>1. /\ UNCHANGED <<request, before, targets, newdeps>>
          /\ ~failed' => ~failed
        BY <1>2, Downloading
    <2>2. ASSUME ~failed' PROVE Complete \subseteq Complete'
        BY <1>2, <2>2, Downloading DEF Complete
    <2>3. QED
        BY <1>1, <2>1, <2>2 DEF OnceInv
<1>3. CASE GrabDependencies \/ ResolveDep \/ GetReturns
    <2>1. UNCHANGED <<request, before, targets, dir, failed>> /\ Complete' = Complete
        BY <1>3, Reading DEF Complete
    <2>2. IsInjective(newdeps')
        <3>1. CASE ResolveDep
            <4>1. Head(deps) \in Pkgs
                BY <3>1, Loop, HeadAndTail DEF ResolveDep
            <4>2. NeedsDownload(Head(deps)) => ~Contains(newdeps, Head(deps))
                BY DEF NeedsDownload
            <4>3. QED
                BY <1>1, <3>1, <4>1, <4>2, Appended DEF OnceInv, ResolveDep
        <3>2. QED
            BY <1>1, <1>3, <3>1 DEF OnceInv, GrabDependencies, GetReturns, resolveVars
    <2>3. QED
        BY <1>1, <2>1, <2>2 DEF OnceInv
<1>4. CASE NextRound
    <2>1. /\ getpc = "pool" /\ mainpc = "returned" /\ newdeps' = <<>>
          /\ before' = before \cup ToSet(taken) /\ UNCHANGED request
          /\ targets' = newdeps /\ UNCHANGED <<dir, failed>> /\ Complete' = Complete
        BY <1>1, <1>4, Calling DEF NextRound, AllRead, Resolving, Complete
    <2>2. IsInjective(newdeps')
        BY <2>1, EmptyList
    <2>3. ASSUME ~failed', IsInjective(request)'
          PROVE  /\ IsInjective(targets)' /\ (before \subseteq Complete)'
                 /\ (ToSet(targets) \cap before = {})'
        <3>1. Joined /\ TakenInv /\ (Alone /\ ~failed => GetProgress) /\ ~failed
            BY <1>1, <2>1, <2>3 DEF Phases, WorkInv
        <3>2. ToSet(targets) \subseteq Complete
            BY <1>1, <2>1, <3>1, AllExtracted
        <3>3. before' \subseteq Complete
            BY <1>1, <2>1, <2>3, <3>1, <3>2 DEF OnceInv, Holding
        <3>4. \A p \in ToSet(newdeps) : p \notin Complete
            BY <1>1 DEF NewNeeded, Present, Complete
        <3>5. QED
            BY <1>1, <2>1, <3>3, <3>4 DEF OnceInv
    <2>4. QED
        BY <2>2, <2>3 DEF OnceInv
<1>5. CASE Interrupt
    <2>1. /\ newdeps' = <<>> /\ UNCHANGED <<request, before, targets, failed>>
          /\ Complete' = Complete
        BY <1>5 DEF Interrupt, queueVars, diskVars, history, Complete
    <2>2. QED
        BY <1>1, <2>1, EmptyList DEF OnceInv
<1>6. CASE Restart
    <2>1. /\ before' = {} /\ UNCHANGED <<request, newdeps>> /\ targets' = request
        BY <1>1, <1>6, Calling DEF Restart, resolveVars
    <2>2. QED
        BY <1>1, <2>1 DEF OnceInv
<1>7. CASE GetCannotStart
    <2>1. UNCHANGED <<request, newdeps, before, targets, failed, dir>>
        BY <1>7 DEF GetCannotStart, resolveVars, poolVars, queueVars, diskVars, history
    <2>2. QED
        BY <1>1, <2>1 DEF OnceInv, Complete
<1>8. QED
    BY <1>2, <1>3, <1>4, <1>5, <1>6, <1>7 DEF GetNextState, Resolve

\* What is read next, and what is left to read after it.
LEMMA PendingNext ==
    ASSUME GetInv, item <= Len(targets)
    PROVE  Pending = {targets[item]} \cup {targets[k] : k \in (item + 1)..Len(targets)}
<1>1. Len(targets) \in Nat /\ item \in Nat /\ item <= Len(targets)
    BY Loop
<1>2. \A k : k \in item..Len(targets) <=> k = item \/ k \in (item + 1)..Len(targets)
    BY <1>1
<1>3. QED
    BY <1>2 DEF Pending

LEMMA PendingAll ==
    ASSUME GetInv
    PROVE  /\ item = 1 => Pending = ToSet(targets)
           /\ item > Len(targets) => Pending = {}
<1>1. targets \in Seq(Pkgs) /\ Len(targets) \in Nat /\ item \in Nat
      /\ DOMAIN targets = 1..Len(targets)
    BY Loop
<1>2. item > Len(targets) => item..Len(targets) = {}
    BY <1>1
<1>3. QED
    BY <1>1, <1>2 DEF Pending, ToSet

LEMMA ClosedStays == GetInv /\ GetNextState /\ maxthreads = 1 => ClosedInv'
<1> SUFFICES ASSUME GetInv, GetNextState, maxthreads = 1, interrupts' = 0, ~failed'
             PROVE  /\ (Present \subseteq Complete)'
                    /\ \A r \in Depending' :
                          r[1] \in Present' \ Pending' /\ r[2] \notin world'.known =>
                              r[2] \in Complete' \cup Coming'
    BY DEF ClosedInv
<1>1. /\ ClosedInv /\ WorkInv /\ PoolTypeOK /\ Phases /\ InputsOK /\ Depending' = Depending
      /\ UNCHANGED world
    <2>1. UNCHANGED world
        BY DEF GetNextState, Download, InRound, Resolve, GrabDependencies, ResolveDep, NextRound,
            GetReturns, Interrupt, Restart, GetCannotStart
    <2>2. QED
        BY <2>1, InputsStay DEF GetInv, SingleInv, GetTypeOK
<1>2. CASE Download
    <2>1. /\ getpc = "pool" /\ getpc' = "pool" /\ interrupts = 0 /\ mainpc # "returned"
          /\ UNCHANGED <<item, deps, newdeps, targets, maxthreads>> /\ PoolStep /\ Joined
          /\ item = 1 /\ deps = <<>> /\ newdeps = <<>> /\ ~failed
        BY <1>1, <1>2, Downloading DEF Phases
    <2>2. /\ Present \subseteq Complete
          /\ \A r \in Depending : r[1] \in Present \ Pending /\ r[2] \notin world.known =>
                r[2] \in Complete \cup Coming
        BY <1>1, <2>1 DEF ClosedInv
    <2>3. /\ Complete \subseteq Complete'
          /\ Present' \ ToSet(targets) = Present \ ToSet(targets)
          /\ Present' \subseteq Complete'
        <3>1. \A p \in Pkgs : dir'[p] \in {dir[p], "complete"}
            BY <1>2, Downloading
        <3>2. \A p \in Pkgs : dir'[p] = dir[p] \/ p \in ToSet(targets)
            BY <1>2, Downloading
        <3>3. QED
            BY <2>2, <3>1, <3>2 DEF Present, Complete
    <2>4. Pending = ToSet(targets) /\ Pending' = Pending /\ Coming = ToSet(targets)
        BY <2>1, PendingAll, EmptyList DEF Pending, Coming
    <2>5. ToSet(targets) \subseteq Complete' \cup Coming'
        <3>1. CASE mainpc' # "returned"
            BY <2>1, <3>1 DEF Coming
        <3>2. CASE mainpc' = "returned"
            <4>1. PoolTypeOK' /\ Joined'
                BY <1>1, <2>1, NextTyped, NextJoined
            <4>2. WorkInv'
                BY WorkStays
            <4>3. /\ (PoolTypeOK /\ Joined /\ maxthreads = 1 /\ TakenInv
                      /\ (Alone /\ ~failed => GetProgress))'
                  /\ (mainpc = "returned" /\ ~failed)'
                BY <2>1, <3>2, <4>1, <4>2 DEF WorkInv
            <4>4. (mainpc = "returned" /\ ~failed => ToSet(targets) \subseteq Complete)'
                BY <4>3, AllExtracted, PTL
            <4>5. QED
                BY <2>1, <4>3, <4>4
        <3>3. QED
            BY <3>1, <3>2
    <2>6. QED
        BY <1>1, <2>2, <2>3, <2>4, <2>5
<1>3. CASE GrabDependencies \/ ResolveDep \/ GetReturns
    <2>1. /\ UNCHANGED <<targets, mainpc, dir>> /\ interrupts = 0 /\ ~failed
          /\ Present' = Present /\ Complete' = Complete /\ mainpc = "returned"
          /\ getpc = "pool"
        BY <1>3, Reading DEF Resolving, Present, Complete
    <2>2. /\ Present \subseteq Complete
          /\ \A r \in Depending : r[1] \in Present \ Pending /\ r[2] \notin world.known =>
                r[2] \in Complete \cup ToSet(newdeps) \cup ToSet(deps)
        BY <1>1, <2>1 DEF ClosedInv, Coming
    <2>3. Coming' = ToSet(newdeps') \cup ToSet(deps')
        BY <2>1 DEF Coming
    <2>4. CASE GrabDependencies
        <3>1. /\ deps = <<>> /\ item <= Len(targets) /\ item' = item + 1 /\ newdeps' = newdeps
              /\ deps' \in Readable(targets[item]) /\ targets[item] \in Pkgs
            BY <2>4, Loop DEF GrabDependencies
        <3>2. Pending = {targets[item]} \cup Pending'
            BY <2>1, <3>1, PendingNext DEF Pending
        <3>3. targets[item] \in Complete =>
                 \A d : <<targets[item], d>> \in Depending => d \in ToSet(deps')
            BY <1>1, <3>1, ReadableOK
        <3>4. \A r \in Depending : r = <<r[1], r[2]>>
            BY DEF Depending
        <3>5. QED
            BY <1>1, <2>1, <2>2, <2>3, <3>1, <3>2, <3>3, <3>4, EmptyList
    <2>5. CASE ResolveDep
        <3>1. /\ deps # <<>> /\ deps' = Tail(deps) /\ item' = item
              /\ newdeps' = IF NeedsDownload(Head(deps)) THEN Append(newdeps, Head(deps))
                            ELSE newdeps
              /\ deps \in Seq(Pkgs) /\ newdeps \in Seq(Pkgs)
            BY <2>5, Loop DEF ResolveDep
        <3>2. /\ ToSet(deps) = {Head(deps)} \cup ToSet(deps') /\ Head(deps) \in Pkgs
            BY <3>1, HeadAndTail
        <3>3. Pending' = Pending
            BY <2>1, <3>1 DEF Pending
        <3>4. CASE NeedsDownload(Head(deps))
            <4>1. ToSet(newdeps') = ToSet(newdeps) \cup {Head(deps)}
                BY <3>1, <3>2, <3>4, Appended
            <4>2. QED
                BY <1>1, <2>1, <2>2, <2>3, <3>2, <3>3, <4>1
        <3>5. CASE ~NeedsDownload(Head(deps))
            <4>1. Head(deps) \in ToSet(newdeps) \cup world.known \cup Present
                <5>1. Contains(newdeps, Head(deps)) => Head(deps) \in ToSet(newdeps)
                    BY <3>1 DEF Contains, ToSet
                <5>2. QED
                    BY <3>2, <3>5, <5>1 DEF NeedsDownload, OnDisk, Present
            <4>2. newdeps' = newdeps
                BY <3>1, <3>5
            <4>3. QED
                BY <1>1, <2>1, <2>2, <2>3, <3>2, <3>3, <4>1, <4>2
        <3>6. QED
            BY <3>4, <3>5
    <2>6. CASE GetReturns
        BY <1>1, <2>1, <2>2, <2>3, <2>6 DEF GetReturns, resolveVars, Pending
    <2>7. QED
        BY <1>3, <2>4, <2>5, <2>6
<1>4. CASE NextRound
    <2>1. /\ targets' = newdeps /\ mainpc' = "create" /\ UNCHANGED <<dir, failed, interrupts>>
          /\ item > Len(targets) /\ deps = <<>> /\ mainpc = "returned"
          /\ Present' = Present /\ Complete' = Complete
        BY <1>1, <1>4, Calling, Loop DEF NextRound, AllRead, Resolving, Present, Complete
    <2>2. /\ Present \subseteq Complete
          /\ \A r \in Depending : r[1] \in Present \ Pending /\ r[2] \notin world.known =>
                r[2] \in Complete \cup Coming
        BY <1>1, <2>1 DEF ClosedInv
    <2>3. Pending = {} /\ Coming = ToSet(newdeps)
        BY <2>1, PendingAll, EmptyList DEF Coming
    <2>4. ToSet(newdeps) \subseteq Coming'
        BY <2>1 DEF Coming
    <2>5. QED
        BY <1>1, <2>1, <2>2, <2>3, <2>4
<1>5. CASE Interrupt
    <2>1. interrupts' = interrupts + 1 /\ interrupts \in 0..MaxInterrupts
        BY <1>5 DEF Interrupt, GetInv, GetTypeOK
    <2>2. QED
        BY <2>1, WorldAssumption
<1>6. CASE Restart
    BY <1>1, <1>6 DEF Restart, Phases
<1>7. CASE GetCannotStart
    <2>1. UNCHANGED <<interrupts, targets, mainpc, dir, failed, item, deps, newdeps>>
        BY <1>7 DEF GetCannotStart, resolveVars, poolVars, queueVars, mainVars, diskVars, history
    <2>2. QED
        BY <1>1, <2>1 DEF ClosedInv, Present, Complete, Pending, Coming
<1>8. QED
    BY <1>2, <1>3, <1>4, <1>5, <1>6, <1>7 DEF GetNextState, Resolve

-----------------------------------------------------------------------------
(* The invariant, and what follows.                                        *)

LEMMA InitGet == GetInit => GetInv
<1> SUFFICES ASSUME GetInit PROVE GetInv
    OBVIOUS
<1>1. PoolTypeOK /\ TakenInv
    BY InitTyped, InitTaken DEF GetInit
<1>2. /\ world \in Worlds /\ targets \in TargetLists /\ request = targets /\ getpc = "pool"
      /\ interrupts = 0 /\ item = 1 /\ deps = <<>> /\ newdeps = <<>> /\ before = {}
      /\ mainpc = "create" /\ nthr = 0 /\ tpc = [t \in Threads |-> "none"] /\ jobq = 1
      /\ pkg = [t \in Threads |-> NULL] /\ taken = <<>> /\ dir = [p \in Pkgs |-> "absent"]
    BY DEF GetInit, PoolInit
<1>3. targets \in Seq(Pkgs) /\ Len(targets) \in Nat
    BY <1>1 DEF PoolTypeOK
<1>4. GetTypeOK
    BY <1>1, <1>2, <1>3, WorldAssumption DEF GetTypeOK, End
<1>5. InputsOK
    BY <1>2, <1>3, WorldAssumption DEF InputsOK
<1>6. Phases
    BY <1>2 DEF Phases, Joined, QuietOnReturn
<1>7. Holding /\ RoundNeeded /\ NewNeeded /\ DepsRead
    BY <1>2, EmptyList DEF Holding, RoundNeeded, NewNeeded, DepsRead
<1>8. 1 \in Threads
    BY PoolAssumption DEF Threads
<1>9. WorkInv
    BY <1>1, <1>2, <1>3, <1>8 DEF WorkInv, InOrder, GetProgress, Extracted
<1>10. OnceInv
    BY <1>2, EmptyList DEF OnceInv
<1>11. ClosedInv
    BY <1>2 DEF ClosedInv, Present
<1>12. QED
    BY <1>4, <1>5, <1>6, <1>7, <1>9, <1>10, <1>11 DEF GetInv, SingleInv

LEMMA GetRests == GetInv /\ UNCHANGED getVars => GetInv'
<1> SUFFICES ASSUME GetInv, UNCHANGED getVars PROVE GetInv'
    OBVIOUS
<1>1. GetTypeOK'
    BY TypesStay
<1>2. /\ UNCHANGED <<maxthreads, targets, jobq, mainpc, nthr, tpc, pkg, next, tarball, dir,
                     taken, failed>>
      /\ UNCHANGED <<world, request, getpc, interrupts, item, deps, newdeps, before>>
    BY DEF getVars, poolVars, queueVars, mainVars, threadVars, diskVars, history, resolveVars
<1>3. InputsOK' /\ Phases' /\ Holding' /\ RoundNeeded' /\ NewNeeded' /\ DepsRead'
    BY <1>2 DEF GetInv, InputsOK, Phases, Holding, RoundNeeded, NewNeeded, DepsRead, Joined,
        QuietOnReturn, num_threads, Present, Depending
<1>4. WorkInv => WorkInv'
    BY <1>2 DEF WorkInv, InOrder, TakenInv, TakenSoFar, Alone, num_threads, GetProgress,
        Extracted, alpm_list_getdata, alpm_list_next, End
<1>5. OnceInv => OnceInv'
    BY <1>2 DEF OnceInv, Complete
<1>6. ClosedInv => ClosedInv'
    BY <1>2 DEF ClosedInv, Complete, Present, Depending, Pending, Coming
<1>7. SingleInv'
    BY <1>2, <1>4, <1>5, <1>6 DEF GetInv, SingleInv
<1>8. QED
    BY <1>1, <1>3, <1>7 DEF GetInv

LEMMA GetStays == GetInv /\ [GetNextState]_getVars => GetInv'
<1> SUFFICES ASSUME GetInv, GetNextState PROVE GetInv'
    BY GetRests
<1>1. InputsOK' /\ GetTypeOK' /\ Phases' /\ Holding' /\ RoundNeeded' /\ NewNeeded' /\ DepsRead'
    BY InputsStay, TypesStay, PhasesStay, HoldingStays, NeededStays, ReadStays
<1>2. SingleInv'
    BY MaxFixed, WorkStays, OnceStays, ClosedStays DEF SingleInv
<1>3. QED
    BY <1>1, <1>2 DEF GetInv

\* The inductive invariant holds in every reachable state, interruptions and
\* restarts included, for every list of targets, world and number of workers.
THEOREM GetInvariant == GetSpec => []GetInv
    BY InitGet, GetStays, PTL DEF GetSpec

\* With one worker, a run that nothing interrupts and nothing fails in leaves no
\* package on the disk without the dependencies its PKGBUILD names.
THEOREM SingleResolvesAll == GetSpec => [](maxthreads = 1 => AllDepsResolvedUninterrupted)
<1>1. GetInv => (maxthreads = 1 => AllDepsResolvedUninterrupted)
    <2>1. SUFFICES ASSUME GetInv, maxthreads = 1, interrupts = 0, getpc = "done", ~failed,
                          NEW p \in Pkgs, OnDisk(p),
                          NEW d \in ToSet(world.depends[p]) \ world.known
                   PROVE  dir[d] = "complete"
        BY <2>1 DEF AllDepsResolvedUninterrupted, ClosedUnder
    <2>2. Pending = {} /\ Coming = {}
        BY <2>1, PendingAll, EmptyList, Loop DEF GetInv, Phases, Coming
    <2>3. world.depends[p] \in Seq(Pkgs)
        BY <2>1 DEF GetInv, InputsOK, WorldType
    <2>4. d \in Pkgs
        BY <2>3 DEF ToSet
    <2>5. <<p, d>> \in Depending /\ p \in Present
        BY <2>1, <2>4 DEF Depending, OnDisk, Present
    <2>6. d \in Complete
        BY <2>1, <2>2, <2>5 DEF GetInv, SingleInv, ClosedInv
    <2>7. QED
        BY <2>6 DEF Complete
<1>2. QED
    BY <1>1, GetInvariant, PTL

\* Why a package is downloaded, with any number of workers.
TakenNeeded ==
    \A p \in ToSet(taken) :
        \/ p \in ToSet(request)
        \/ /\ p \notin world.known
           /\ \E q \in Pkgs : OnDisk(q) /\ p \in ToSet(world.depends[q])

LEMMA InvNeeded == GetInv => TakenNeeded
<1>1. SUFFICES ASSUME GetInv, NEW p \in ToSet(taken), p \notin ToSet(request)
               PROVE  /\ p \notin world.known
                      /\ \E q \in Pkgs : OnDisk(q) /\ p \in ToSet(world.depends[q])
    BY <1>1 DEF TakenNeeded
<1>2. p \in ToSet(targets) /\ targets # request
    BY <1>1 DEF GetInv, Holding
<1>3. p \notin world.known /\ \E q \in Present : <<q, p>> \in Depending
    BY <1>1, <1>2 DEF GetInv, RoundNeeded
<1>4. QED
    BY <1>3 DEF Present, Depending, OnDisk

\* However many workers race, whatever fails and however often the program is
\* interrupted, nothing is downloaded but the targets and what a PKGBUILD on
\* the disk depends on and no database has.
THEOREM NeededOnly == GetSpec => []TakenNeeded
    BY InvNeeded, GetInvariant, PTL

\* With one worker, moreover, a run that nothing fails in downloads each package
\* once.
THEOREM SingleDownloadsOnce == GetSpec => [](maxthreads = 1 => OnlyWhatIsNeeded)
<1>1. GetInv => (maxthreads = 1 => OnlyWhatIsNeeded)
    <2> SUFFICES ASSUME GetInv, maxthreads = 1 PROVE OnlyWhatIsNeeded
        OBVIOUS
    <2>1. TakenNeeded
        BY InvNeeded
    <2>2. ASSUME ~failed, IsInjective(request)
          PROVE  ToSet(taken) \cap before = {} /\ IsInjective(taken)
        <3>1. /\ IsInjective(targets) /\ ToSet(targets) \cap before = {}
              /\ ToSet(taken) \subseteq ToSet(targets) /\ InOrder
              /\ targets \in Seq(Pkgs) /\ taken \in Seq(Pkgs)
            BY <2>2 DEF GetInv, SingleInv, OnceInv, Holding, WorkInv, GetTypeOK, PoolTypeOK
        <3>2. /\ DOMAIN taken = 1..Len(taken) /\ DOMAIN targets = 1..Len(targets)
              /\ Len(taken) \in Nat /\ Len(targets) \in Nat
            BY <3>1
        <3>3. \A k \in DOMAIN taken : k \in DOMAIN targets /\ taken[k] = targets[k]
            BY <3>1, <3>2 DEF InOrder
        <3>4. QED
            BY <3>1, <3>3 DEF IsInjective
    <2>3. QED
        BY <2>1, <2>2 DEF OnlyWhatIsNeeded, TakenNeeded
<1>2. QED
    BY <1>1, GetInvariant, PTL
=============================================================================
