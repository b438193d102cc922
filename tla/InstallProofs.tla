--------------------------- MODULE InstallProofs ----------------------------
(* Proofs about Install for every list of packages: the stack of processes   *)
(* that failing calls of exec build up is bounded, makepkg runs where it     *)
(* should and in order, reports and aborts mean what they say, and all of it *)
(* implements TopoInstall.                                                   *)
EXTENDS Install, SequenceTheorems, TLAPS

-----------------------------------------------------------------------------
(* The inductive invariant.                                                *)

Over == {"topo_install", "exited", "killed"}
Waits == {"wait PKGBUILD", "wait .install", "wait makepkg"}

\* How many of the three forks of a package a process has behind it.
Phase(pc) ==
    CASE pc \in {"edit_dotinstall", "ask .install", "fork .install", "wait .install",
                 "edits PKGBUILD"} -> 1
      [] pc \in {"fork_pacman", "fork makepkg", "wait makepkg", "edits .install"} -> 2
      [] pc \in {"cleanup", "makepkg"} -> 3
      [] OTHER -> 0

Rank(p) == 3 * (p.nextTarget - 1) + Phase(p.pc)

\* A process inside install_single_package is in the directory of its package.
IsAtHome(p) ==
    /\ p \in Process
    /\ p.nextTarget <= Len(final_targets) + 1
    /\ p.pc \notin Over => p.nextTarget <= Len(final_targets) /\ p.cwd = final_targets[p.nextTarget]

\* A process has got further than the one that waits for it.
IsStack(ps) ==
    /\ ps \in Seq(Process) \ {<<>>}
    /\ \A i \in 1..Len(ps) : IsAtHome(ps[i]) /\ Rank(ps[i]) >= i - 1
    /\ \A i \in 1..(Len(ps) - 1) : ps[i].pc \in Waits

Outcomes == {"built", "makepkg fails", "editor fails", "abort", "lost", "no directory"}

Given ==
    /\ final_targets \in Lists
    /\ dirs \subseteq Names
    /\ dotinstalls \subseteq Names
    /\ {noconfirm, editorRuns, makepkgRuns, aborted} \subseteq BOOLEAN
    /\ results \in Seq(Names \X Outcomes)
    /\ made \subseteq Names

IInv == Given /\ IsStack(procs)

-----------------------------------------------------------------------------
(* Stacks.                                                                 *)

LEMMA Tops ==
    ASSUME NEW ps \in Seq(Process), ps # <<>>
    PROVE  /\ Front(ps) \in Seq(Process)
           /\ Len(ps) \in Nat \ {0}
           /\ Len(Front(ps)) = Len(ps) - 1
           /\ \A i \in 1..(Len(ps) - 1) : Front(ps)[i] = ps[i]
           /\ Last(ps) = ps[Len(ps)] /\ Last(ps) \in Process
<1>1. Len(ps) \in Nat \ {0} /\ \A i \in 1..Len(ps) : ps[i] \in Process
    BY EmptySeq
<1>2. /\ SubSeq(ps, 1, Len(ps) - 1) \in Seq(Process)
      /\ Len(SubSeq(ps, 1, Len(ps) - 1)) = Len(ps) - 1
      /\ \A i \in 1..(Len(ps) - 1) : SubSeq(ps, 1, Len(ps) - 1)[i] = ps[i]
    <2> DEFINE n == Len(ps) - 1
    <2>1. n \in Nat /\ 1 \in Int /\ n \in Int /\ \A i \in 1..n : ps[i] \in Process
        BY <1>1
    <2> HIDE DEF n
    <2>2. /\ SubSeq(ps, 1, n) \in Seq(Process)
          /\ Len(SubSeq(ps, 1, n)) = IF 1 <= n THEN n - 1 + 1 ELSE 0
          /\ \A i \in 1..(n - 1 + 1) : SubSeq(ps, 1, n)[i] = ps[1 + i - 1]
        BY <2>1, SubSeqProperties
    <2>3. /\ Len(SubSeq(ps, 1, n)) = n
          /\ \A i \in 1..n : SubSeq(ps, 1, n)[i] = ps[i]
        BY <2>1, <2>2
    <2>4. QED
        BY <2>2, <2>3 DEF n
<1>3. QED
    BY <1>1, <1>2 DEF Front, Last

LEMMA ReplaceTop ==
    ASSUME NEW ps, IsStack(ps), NEW q, IsAtHome(q), Rank(q) >= Len(ps) - 1
    PROVE  IsStack(Append(Front(ps), q))
<1> DEFINE new == Append(Front(ps), q)
<1>1. ps \in Seq(Process) /\ ps # <<>> /\ q \in Process
    BY DEF IsStack, IsAtHome
<1>2. /\ new \in Seq(Process) \ {<<>>} /\ Len(new) = Len(ps)
      /\ \A i \in 1..(Len(ps) - 1) : new[i] = ps[i]
      /\ new[Len(ps)] = q
    BY <1>1, Tops
<1>3. Len(ps) \in Nat \ {0} /\ \A i \in 1..Len(ps) : i \in 1..(Len(ps) - 1) \/ i = Len(ps)
    BY <1>1, Tops
<1>4. QED
    BY <1>1, <1>2, <1>3 DEF IsStack

LEMMA PopTop ==
    ASSUME NEW ps, IsStack(ps), Front(ps) # <<>>
    PROVE  /\ IsStack(Front(ps))
           /\ Last(Front(ps)).pc \in Waits
           /\ Len(Front(ps)) = Len(ps) - 1
<1>1. ps \in Seq(Process) /\ ps # <<>> /\ Front(ps) \in Seq(Process)
    BY Tops DEF IsStack
<1>2. /\ Len(Front(ps)) = Len(ps) - 1 /\ Len(Front(ps)) \in Nat \ {0}
      /\ \A i \in 1..(Len(ps) - 1) : Front(ps)[i] = ps[i]
      /\ Last(Front(ps)) = Front(ps)[Len(Front(ps))]
    BY <1>1, Tops
<1>3. Last(Front(ps)) = ps[Len(ps) - 1]
    BY <1>2
<1>4. QED
    BY <1>1, <1>2, <1>3 DEF IsStack

LEMMA PushTop ==
    ASSUME NEW ps, IsStack(ps), NEW w, IsAtHome(w), Rank(w) >= Len(ps) - 1, w.pc \in Waits,
           NEW c, IsAtHome(c), Rank(c) >= Len(ps)
    PROVE  IsStack(Front(ps) \o <<w, c>>)
<1> DEFINE new == Front(ps) \o <<w, c>>
<1>1. ps \in Seq(Process) /\ ps # <<>> /\ w \in Process /\ c \in Process
    BY DEF IsStack, IsAtHome
<1>2. /\ new \in Seq(Process) \ {<<>>} /\ Len(new) = Len(ps) + 1
      /\ \A i \in 1..(Len(ps) - 1) : new[i] = ps[i]
      /\ new[Len(ps)] = w /\ new[Len(ps) + 1] = c
    <2>1. /\ Front(ps) \in Seq(Process) /\ Len(Front(ps)) = Len(ps) - 1
          /\ \A i \in 1..(Len(ps) - 1) : Front(ps)[i] = ps[i]
          /\ Len(ps) \in Nat \ {0}
        BY <1>1, Tops
    <2>2. /\ <<w, c>> \in Seq(Process) /\ Len(<<w, c>>) = 2
          /\ <<w, c>>[1] = w /\ <<w, c>>[2] = c
        BY <1>1
    <2>3. /\ new \in Seq(Process) /\ Len(new) = Len(ps) + 1
          /\ \A i \in 1..(Len(ps) + 1) :
                new[i] = IF i <= Len(ps) - 1 THEN Front(ps)[i] ELSE <<w, c>>[i - (Len(ps) - 1)]
        BY <2>1, <2>2, ConcatProperties
    <2>4. new # <<>>
        BY <2>1, <2>3, EmptySeq
    <2> HIDE DEF new
    <2>5. \A i \in 1..(Len(ps) - 1) : new[i] = ps[i]
        BY <2>1, <2>3
    <2>6. /\ new[Len(ps)] = <<w, c>>[Len(ps) - (Len(ps) - 1)]
          /\ new[Len(ps) + 1] = <<w, c>>[Len(ps) + 1 - (Len(ps) - 1)]
        BY <2>1, <2>3
    <2>7. Len(ps) - (Len(ps) - 1) = 1 /\ Len(ps) + 1 - (Len(ps) - 1) = 2
        BY <2>1
    <2>8. QED
        BY <2>2, <2>3, <2>4, <2>5, <2>6, <2>7
<1>3. Len(ps) \in Nat \ {0}
      /\ \A i \in 1..(Len(ps) + 1) : i \in 1..(Len(ps) - 1) \/ i = Len(ps) \/ i = Len(ps) + 1
    BY <1>1, Tops
<1> HIDE DEF new
<1>4. /\ \A i \in 1..Len(ps) : IsAtHome(ps[i]) /\ Rank(ps[i]) >= i - 1
      /\ \A i \in 1..(Len(ps) - 1) : ps[i].pc \in Waits
    BY DEF IsStack
<1>5. \A i \in 1..(Len(ps) + 1) : IsAtHome(new[i]) /\ Rank(new[i]) >= i - 1
    BY <1>2, <1>3, <1>4
<1>6. \A i \in 1..Len(ps) : new[i].pc \in Waits
    BY <1>2, <1>3, <1>4
<1>7. IsStack(new)
    BY <1>2, <1>3, <1>5, <1>6 DEF IsStack
<1>8. QED
    BY <1>7 DEF new

LEMMA TopOfStack ==
    ASSUME IsStack(procs)
    PROVE  /\ Top \in Process /\ IsAtHome(Top) /\ Rank(Top) >= Len(procs) - 1
           /\ Len(procs) \in Nat \ {0}
BY Tops DEF IsStack, Top

\* Moving on in a package, and to the next one, raises the rank.
LEMMA MovesUp ==
    ASSUME NEW p, IsAtHome(p), NEW pc \in Labels, p.pc \notin Over, Phase(pc) >= Phase(p.pc)
    PROVE  /\ IsAtHome([p EXCEPT !.pc = pc])
           /\ Rank([p EXCEPT !.pc = pc]) >= Rank(p)
           /\ Rank([p EXCEPT !.pc = pc]) = 3 * (p.nextTarget - 1) + Phase(pc)
           /\ [p EXCEPT !.pc = pc].pc = pc
<1>1. Phase(pc) \in Nat /\ Phase(p.pc) \in Nat
    BY DEF Phase
<1>2. QED
    BY <1>1 DEF IsAtHome, Process, Rank

LEMMA RankAbove ==
    ASSUME NEW p \in Process, NEW r \in Process, r.nextTarget = p.nextTarget, Phase(p.pc) = 0
    PROVE  Rank(r) >= Rank(p)
<1>1. Phase(r.pc) \in Nat
    BY DEF Phase
<1>2. p.nextTarget \in Nat
    BY DEF Process
<1>3. QED
    BY <1>1, <1>2 DEF Rank

LEMMA EntersUp ==
    ASSUME NEW p, IsAtHome(p), p.pc = "topo_install", p.nextTarget <= Len(final_targets),
           NEW q \in Process, q.nextTarget = p.nextTarget,
           q.cwd = final_targets[p.nextTarget], q.pc \in {"fork_pacman", "ask PKGBUILD"}
    PROVE  IsAtHome(q) /\ Rank(q) >= Rank(p)
<1>1. IsAtHome(q)
    BY DEF IsAtHome
<1>2. Phase(p.pc) = 0
    BY DEF Phase
<1>3. p \in Process
    BY DEF IsAtHome
<1>4. QED
    BY <1>1, <1>2, <1>3, RankAbove

LEMMA ReturnsUp ==
    ASSUME final_targets \in Lists, NEW p, IsAtHome(p),
           p.pc = "topo_install" => p.nextTarget <= Len(final_targets), NEW outcome,
           p.pc \notin {"exited", "killed"}
    PROVE  /\ IsAtHome(Returned(p, outcome))
           /\ Rank(Returned(p, outcome)) >= Rank(p)
           /\ IsAtHome([Returned(p, outcome) EXCEPT !.cwd = NULL])
           /\ Rank([Returned(p, outcome) EXCEPT !.cwd = NULL]) >= Rank(p)
<1>1. Len(final_targets) \in Nat
    BY InstallAssumption
<1>2. p \in Process /\ p.nextTarget \in Nat \ {0} /\ p.nextTarget <= Len(final_targets)
    BY <1>1 DEF IsAtHome, Over, Process
<1>3. Phase(p.pc) \in 0..3 /\ Phase("topo_install") = 0
    BY DEF Phase
<1>4. Rank(p) <= 3 * p.nextTarget
    BY <1>2, <1>3 DEF Rank
<1>5. /\ Returned(p, outcome) \in Process
      /\ Returned(p, outcome).pc = "topo_install"
      /\ Returned(p, outcome).nextTarget \in (p.nextTarget + 1)..(Len(final_targets) + 1)
    <2> DEFINE n == IF outcome \in {"abort", "lost"} THEN Len(final_targets) + 1
                    ELSE p.nextTarget + 1
               d == IF outcome \in {"built", "makepkg fails"} THEN NULL ELSE p.cwd
    <2>1. n \in (p.nextTarget + 1)..(Len(final_targets) + 1) /\ n \in Nat \ {0}
        BY <1>1, <1>2
    <2>2. d \in Names \cup {NULL}
        BY <1>2 DEF Process
    <2>3. Returned(p, outcome) = [nextTarget |-> n, pc |-> "topo_install", cwd |-> d]
        BY DEF Returned
    <2> HIDE DEF n, d
    <2>4. QED
        BY <2>1, <2>2, <2>3 DEF Process, Labels
<1> DEFINE r == Returned(p, outcome)
           home == [r EXCEPT !.cwd = NULL]
<1>6. /\ home \in Process /\ home.pc = "topo_install" /\ home.nextTarget = r.nextTarget
    BY <1>5 DEF Process
<1>7. Rank(r) = 3 * (r.nextTarget - 1) /\ Rank(home) = 3 * (r.nextTarget - 1)
    BY <1>3, <1>5, <1>6 DEF Rank
<1>8. Rank(r) >= Rank(p) /\ Rank(home) >= Rank(p)
    BY <1>1, <1>2, <1>3, <1>4, <1>5, <1>7 DEF Rank
<1>9. QED
    BY <1>1, <1>5, <1>6, <1>8 DEF IsAtHome, Over

-----------------------------------------------------------------------------
(* The steps.                                                              *)

Stays == IsStack(procs') /\ results' \in Seq(Names \X Outcomes)

LEMMA RankTyped ==
    ASSUME NEW p \in Process
    PROVE  Rank(p) \in Int
<1>1. Phase(p.pc) \in Nat
    BY DEF Phase
<1>2. QED
    BY <1>1 DEF Rank, Process

LEMMA RankBounded ==
    ASSUME NEW p, IsAtHome(p), Len(final_targets) \in Nat
    PROVE  Rank(p) <= 3 * Len(final_targets)
<1>1. p.nextTarget \in Nat /\ p.nextTarget <= Len(final_targets) + 1
    BY DEF IsAtHome, Process
<1>2. Phase(p.pc) \in 0..3
    BY DEF Phase
<1>3. CASE p.pc \in Over
    <2>1. Phase(p.pc) = 0
        BY <1>3 DEF Over, Phase
    <2>2. QED
        BY <1>1, <2>1 DEF Rank
<1>4. CASE p.pc \notin Over
    <2>1. p.nextTarget <= Len(final_targets)
        BY <1>4 DEF IsAtHome
    <2>2. QED
        BY <1>1, <1>2, <2>1 DEF Rank
<1>5. QED
    BY <1>3, <1>4

LEMMA LastOfStack ==
    ASSUME NEW ps, IsStack(ps)
    PROVE  /\ Last(ps) \in Process /\ IsAtHome(Last(ps)) /\ Rank(Last(ps)) >= Len(ps) - 1
           /\ Rank(Last(ps)) \in Int /\ Len(ps) \in Nat \ {0}
<1>1. ps \in Seq(Process) /\ ps # <<>>
    BY DEF IsStack
<1>2. Last(ps) \in Process /\ Last(ps) = ps[Len(ps)] /\ Len(ps) \in Nat \ {0}
    BY <1>1, Tops
<1>3. Phase(Last(ps).pc) \in Nat
    BY DEF Phase
<1>4. QED
    BY <1>2, <1>3 DEF IsStack, Rank, Process

LEMMA GoesOn ==
    ASSUME IInv, NEW ps, IsStack(ps), NEW pc \in Labels, Last(ps).pc \notin Over,
           Phase(pc) >= Phase(Last(ps).pc), GoOn(Front(ps), Last(ps), pc)
    PROVE  Stays
<1> DEFINE q == [Last(ps) EXCEPT !.pc = pc]
<1>1. Last(ps) \in Process /\ IsAtHome(Last(ps)) /\ Rank(Last(ps)) >= Len(ps) - 1
      /\ Rank(Last(ps)) \in Int /\ Len(ps) \in Nat \ {0}
    BY LastOfStack
<1>2. IsAtHome(q) /\ Rank(q) >= Rank(Last(ps)) /\ q \in Process
    BY <1>1, MovesUp DEF IsAtHome
<1>3. Rank(q) \in Int
    BY <1>2, RankTyped
<1>4. Rank(q) >= Len(ps) - 1
    BY <1>1, <1>2, <1>3
<1>5. procs' = Append(Front(ps), q) /\ results' = results
    BY DEF GoOn
<1> HIDE DEF q
<1>6. QED
    BY <1>2, <1>4, <1>5, ReplaceTop DEF Stays, IInv, Given

LEMMA Returns ==
    ASSUME IInv, NEW ps, IsStack(ps), NEW outcome \in Outcomes,
           Last(ps).pc \notin {"exited", "killed"},
           Last(ps).pc = "topo_install" => Last(ps).nextTarget <= Len(final_targets),
           Return(Front(ps), Last(ps), outcome)
    PROVE  Stays
<1> DEFINE q == Returned(Last(ps), outcome)
<1>1. Last(ps) \in Process /\ IsAtHome(Last(ps)) /\ Rank(Last(ps)) >= Len(ps) - 1
      /\ Rank(Last(ps)) \in Int /\ Len(ps) \in Nat \ {0}
    BY LastOfStack
<1>2. IsAtHome(q) /\ Rank(q) >= Rank(Last(ps))
    BY <1>1, ReturnsUp DEF IInv, Given
<1>3. Rank(q) \in Int
    BY <1>2, RankTyped DEF IsAtHome
<1>4. Rank(q) >= Len(ps) - 1
    BY <1>1, <1>2, <1>3
<1>5. Package(Last(ps)) \in Names
    <2>1. Last(ps).nextTarget \in 1..Len(final_targets) /\ final_targets \in Seq(Names)
        BY <1>1, InstallAssumption DEF IsAtHome, Over, Process, IInv, Given
    <2>2. QED
        BY <2>1 DEF Package
<1> DEFINE entry == <<Package(Last(ps)), outcome>>
           Entries == Names \X Outcomes
<1>6. /\ procs' = Append(Front(ps), q)
      /\ results' = results \/ results' = Append(results, entry)
    BY DEF Return
<1>7. results \in Seq(Entries) /\ entry \in Entries
    BY <1>5 DEF IInv, Given
<1>8. results' \in Seq(Entries)
    <2> HIDE DEF q, entry, Entries
    <2>1. Append(results, entry) \in Seq(Entries)
        BY <1>7, AppendProperties
    <2>2. QED
        BY <1>6, <1>7, <2>1
<1> HIDE DEF q
<1>9. QED
    BY <1>2, <1>4, <1>6, <1>8, ReplaceTop DEF Stays

LEMMA ProcessEnds ==
    ASSUME IInv, NEW pc \in {"exited", "killed"}, NEW code, Ends(pc, code)
    PROVE  Stays
<1>1. IsStack(procs) /\ Below = Front(procs) /\ Top = Last(procs)
    BY DEF IInv, Below, Top
<1>2. CASE Below = <<>>
    <2> DEFINE q == [Top EXCEPT !.pc = pc]
    <2>1. Top \in Process /\ IsAtHome(Top) /\ Len(procs) = 1
        <3>1. procs \in Seq(Process) /\ procs # <<>>
            BY <1>1 DEF IsStack
        <3>2. Len(Front(procs)) = Len(procs) - 1 /\ Len(procs) \in Nat
            BY <3>1, Tops
        <3>3. Front(procs) = <<>> /\ Len(<<>>) = 0
            BY <1>1, <1>2
        <3>4. Len(procs) = 1
            BY <3>2, <3>3
        <3>5. QED
            BY <1>1, <3>4, LastOfStack
    <2>2. /\ q \in Process /\ q.nextTarget = Top.nextTarget /\ q.pc = pc
        BY <2>1 DEF Process, Labels
    <2>3. IsAtHome(q)
        BY <2>1, <2>2 DEF IsAtHome, Over
    <2>4. Phase(pc) = 0
        BY DEF Phase
    <2>5. Rank(q) >= Len(procs) - 1
        BY <2>1, <2>2, <2>4 DEF Rank, Process
    <2>6. procs' = Append(Front(procs), q) /\ results' = results
        BY <1>1, <1>2 DEF Ends, GoOn
    <2> HIDE DEF q
    <2>7. QED
        BY <1>1, <2>3, <2>5, <2>6, ReplaceTop DEF Stays, IInv, Given
<1>3. CASE Below # <<>>
    <2>1. IsStack(Below) /\ Last(Below).pc \in Waits
        BY <1>1, <1>3, PopTop
    <2>2. Resume(Front(Below), Last(Below), code)
        BY <1>3 DEF Ends
    <2>3. Last(Below).pc \notin Over /\ Last(Below).pc \notin {"exited", "killed", "topo_install"}
        BY <2>1 DEF Waits, Over
    <2>4. CASE \E outcome \in Outcomes : Return(Front(Below), Last(Below), outcome)
        BY <2>1, <2>3, <2>4, Returns
    <2>5. CASE Last(Below).pc = "wait PKGBUILD" /\ GoOn(Front(Below), Last(Below), "edit_dotinstall")
        <3>1. Phase("edit_dotinstall") >= Phase("wait PKGBUILD") /\ "edit_dotinstall" \in Labels
            BY DEF Phase, Labels
        <3>2. QED
            BY <2>1, <2>3, <2>5, <3>1, GoesOn
    <2>6. CASE Last(Below).pc = "wait .install" /\ GoOn(Front(Below), Last(Below), "fork_pacman")
        <3>1. Phase("fork_pacman") >= Phase("wait .install") /\ "fork_pacman" \in Labels
            BY DEF Phase, Labels
        <3>2. QED
            BY <2>1, <2>3, <2>6, <3>1, GoesOn
    <2>7. QED
        BY <2>1, <2>2, <2>4, <2>5, <2>6 DEF Resume, Waits, Outcomes
<1>4. QED
    BY <1>2, <1>3

LEMMA Forks ==
    ASSUME IInv, NEW label \in Labels, NEW wait \in Waits, NEW program \in Labels, NEW runs,
           NEW otherwise \in Labels, Fork(label, wait, program, runs, otherwise),
           label \notin Over, Phase(wait) = Phase(label),
           Phase(program) = Phase(label) + 1, Phase(otherwise) = Phase(label) + 1
    PROVE  Stays
<1> DEFINE w == [Top EXCEPT !.pc = wait]
           to == IF runs THEN program ELSE otherwise
           c == [Top EXCEPT !.pc = to]
<1>1. IsStack(procs) /\ Below = Front(procs) /\ Top = Last(procs) /\ Top.pc = label
    BY DEF IInv, Below, Top, Fork, TopIsAt
<1>2. Top \in Process /\ IsAtHome(Top) /\ Rank(Top) >= Len(procs) - 1
      /\ Rank(Top) \in Int /\ Len(procs) \in Nat \ {0}
    BY <1>1, LastOfStack
<1>3. to \in Labels /\ Phase(to) = Phase(label) + 1 /\ Phase(label) \in Nat /\ wait \in Labels
    BY DEF Phase, Waits, Labels
<1>4. Rank(Top) = 3 * (Top.nextTarget - 1) + Phase(label)
    BY <1>1 DEF Rank
<1>5. /\ IsAtHome(w) /\ w.pc = wait
      /\ Rank(w) = 3 * (Top.nextTarget - 1) + Phase(label)
    BY <1>1, <1>2, <1>3, MovesUp
<1>6. IsAtHome(c) /\ Rank(c) = 3 * (Top.nextTarget - 1) + Phase(label) + 1
    <2> HIDE DEF to
    <2>1. IsAtHome(c) /\ Rank(c) = 3 * (Top.nextTarget - 1) + Phase(to)
        BY <1>1, <1>2, <1>3, MovesUp
    <2>2. QED
        BY <1>2, <1>3, <2>1 DEF Process
<1>7. Rank(w) >= Len(procs) - 1 /\ Rank(c) >= Len(procs)
    BY <1>2, <1>3, <1>4, <1>5, <1>6 DEF Process
<1>8. procs' = Front(procs) \o <<w, c>> /\ results' = results
    BY <1>1 DEF Fork
<1> HIDE DEF w, c
<1>9. QED
    BY <1>1, <1>5, <1>6, <1>7, <1>8, PushTop DEF Stays, IInv, Given

LEMMA StepStays ==
    ASSUME IInv, InstallStep
    PROVE  Stays
<1>1. IsStack(procs) /\ Below = Front(procs) /\ Top = Last(procs) /\ IsAtHome(Top)
    BY LastOfStack DEF IInv, Below, Top
<1>2. CASE EnterDirectory
    <2> DEFINE q == [Top EXCEPT !.cwd = Package(Top),
                                !.pc = IF noconfirm THEN "fork_pacman" ELSE "ask PKGBUILD"]
    <2>1. Top.pc = "topo_install" /\ Top.nextTarget <= Len(final_targets)
          /\ procs' = Append(Front(procs), q) /\ results' = results
        BY <1>1, <1>2 DEF EnterDirectory, TopIsAt, HasNext
    <2>2. Top.nextTarget \in 1..Len(final_targets) /\ final_targets \in Seq(Names)
        BY <1>1, <2>1, InstallAssumption DEF IsAtHome, Process, IInv, Given
    <2>3. Package(Top) \in Names /\ Package(Top) = final_targets[Top.nextTarget]
        BY <2>2 DEF Package
    <2>4. /\ q \in Process /\ q.nextTarget = Top.nextTarget /\ q.cwd = Package(Top)
          /\ q.pc \in {"fork_pacman", "ask PKGBUILD"}
        BY <1>1, <2>3 DEF IsAtHome, Process, Labels
    <2>5. Top.nextTarget \in Nat \ {0} /\ q.cwd = final_targets[Top.nextTarget]
        BY <2>2, <2>3, <2>4
    <2> HIDE DEF q
    <2>6. IsAtHome(q) /\ Rank(q) >= Rank(Top)
        BY <1>1, <2>1, <2>4, <2>5, EntersUp
    <2>7. Rank(q) \in Int /\ Rank(Top) \in Int
        BY <1>1, <2>4, RankTyped DEF IsAtHome
    <2>8. Rank(q) >= Len(procs) - 1
        BY <1>1, <2>6, <2>7, LastOfStack
    <2>9. QED
        BY <1>1, <2>1, <2>6, <2>8, ReplaceTop DEF Stays, IInv, Given
<1>3. CASE CannotEnter
    <2>1. Return(Front(procs), Last(procs), "no directory")
          /\ Last(procs).pc = "topo_install" /\ Last(procs).nextTarget <= Len(final_targets)
        BY <1>1, <1>3 DEF CannotEnter, TopIsAt, HasNext
    <2>2. QED
        BY <1>1, <2>1, Returns DEF Outcomes
<1>4. ASSUME NEW question \in {"ask PKGBUILD", "ask .install"},
             NEW skipped \in {"edit_dotinstall", "fork_pacman"},
             NEW edited \in {"fork PKGBUILD", "fork .install"},
             Phase(skipped) >= Phase(question), Phase(edited) >= Phase(question),
             Ask(question, skipped, edited)
      PROVE  Stays
    <2>1. Last(procs).pc = question /\ question \notin Over
          /\ question \notin {"exited", "killed", "topo_install"}
        BY <1>1, <1>4 DEF Ask, TopIsAt, Over
    <2>2. skipped \in Labels /\ edited \in Labels /\ "abort" \in Outcomes
        BY DEF Labels, Outcomes
    <2>3. \/ GoOn(Front(procs), Last(procs), skipped)
          \/ Return(Front(procs), Last(procs), "abort")
          \/ GoOn(Front(procs), Last(procs), edited)
        BY <1>1, <1>4 DEF Ask
    <2>4. QED
        BY <1>1, <1>4, <2>1, <2>2, <2>3, GoesOn, Returns
<1>5. CASE AskPkgbuild
    <2>1. Phase("edit_dotinstall") >= Phase("ask PKGBUILD")
          /\ Phase("fork PKGBUILD") >= Phase("ask PKGBUILD")
        BY DEF Phase
    <2>2. QED
        BY <1>4, <1>5, <2>1 DEF AskPkgbuild
<1>6. CASE AskDotinstall
    <2>1. Phase("fork_pacman") >= Phase("ask .install")
          /\ Phase("fork .install") >= Phase("ask .install")
        BY DEF Phase
    <2>2. QED
        BY <1>4, <1>6, <2>1 DEF AskDotinstall
<1>7. CASE EditDotinstall
    <2>1. Last(procs).pc = "edit_dotinstall" /\ "edit_dotinstall" \notin Over
        BY <1>1, <1>7 DEF EditDotinstall, TopIsAt, Over
    <2>2. \E pc \in {"ask .install", "fork_pacman"} : GoOn(Front(procs), Last(procs), pc)
        BY <1>1, <1>7 DEF EditDotinstall
    <2>3. /\ Phase("ask .install") >= Phase("edit_dotinstall")
          /\ Phase("fork_pacman") >= Phase("edit_dotinstall")
          /\ "ask .install" \in Labels /\ "fork_pacman" \in Labels
        BY DEF Labels, Phase
    <2>4. QED
        BY <1>1, <2>1, <2>2, <2>3, GoesOn
<1>8. CASE Confirm
    <2>1. Last(procs).pc = "fork_pacman" /\ "fork_pacman" \notin Over
        BY <1>1, <1>8 DEF Confirm, TopIsAt, Over
    <2>2. \/ GoOn(Front(procs), Last(procs), "fork makepkg")
          \/ Return(Front(procs), Last(procs), "abort")
        BY <1>1, <1>8 DEF Confirm
    <2>3. "fork makepkg" \in Labels /\ Phase("fork makepkg") >= Phase("fork_pacman")
          /\ "abort" \in Outcomes
        BY DEF Labels, Phase, Outcomes
    <2>4. QED
        BY <1>1, <2>1, <2>2, <2>3, GoesOn, Returns
<1>9. CASE Killed
    BY <1>9, ProcessEnds DEF Killed
<1>10. CASE ForkFails
    <2>1. /\ Last(procs).pc \notin {"exited", "killed", "topo_install"}
          /\ Return(Front(procs), Last(procs), "editor fails")
        BY <1>1, <1>10 DEF ForkFails, TopIsAt
    <2>2. QED
        BY <1>1, <2>1, Returns DEF Outcomes
<1>11. CASE ForkPkgbuildEditor
    <2>1. /\ Phase("wait PKGBUILD") = Phase("fork PKGBUILD")
          /\ Phase("edits PKGBUILD") = Phase("fork PKGBUILD") + 1
          /\ Phase("edit_dotinstall") = Phase("fork PKGBUILD") + 1
        BY DEF Phase
    <2>2. QED
        BY <1>11, <2>1, Forks DEF ForkPkgbuildEditor, Labels, Waits, Over
<1>12. CASE ForkDotinstallEditor
    <2>1. /\ Phase("wait .install") = Phase("fork .install")
          /\ Phase("edits .install") = Phase("fork .install") + 1
          /\ Phase("fork_pacman") = Phase("fork .install") + 1
        BY DEF Phase
    <2>2. QED
        BY <1>12, <2>1, Forks DEF ForkDotinstallEditor, Labels, Waits, Over
<1>13. CASE ForkMakepkg
    <2>1. /\ Phase("wait makepkg") = Phase("fork makepkg")
          /\ Phase("makepkg") = Phase("fork makepkg") + 1
          /\ Phase("cleanup") = Phase("fork makepkg") + 1
        BY DEF Phase
    <2>2. QED
        BY <1>13, <2>1, Forks DEF ForkMakepkg, Labels, Waits, Over
<1>14. CASE EditorEnds
    BY <1>14, ProcessEnds DEF EditorEnds
<1>15. CASE MakepkgEnds
    BY <1>15, ProcessEnds DEF MakepkgEnds
<1>16. CASE Cleanup
    <2>1. Last(procs).pc = "cleanup" /\ "cleanup" \notin Over
          /\ Last(procs).pc \notin {"exited", "killed", "topo_install"}
        BY <1>1, <1>16 DEF Cleanup, TopIsAt, Over
    <2>2. CASE \E outcome \in Outcomes : Return(Front(procs), Last(procs), outcome)
        BY <1>1, <2>1, <2>2, Returns
    <2>3. CASE /\ procs' = Append(Front(procs), [Returned(Last(procs), "lost") EXCEPT !.cwd = NULL])
               /\ results' = results
        <3> DEFINE q == [Returned(Last(procs), "lost") EXCEPT !.cwd = NULL]
        <3>1. IsAtHome(q) /\ Rank(q) >= Rank(Last(procs)) /\ Rank(Last(procs)) \in Int
              /\ Rank(Last(procs)) >= Len(procs) - 1 /\ Len(procs) \in Nat
            BY <1>1, <2>1, ReturnsUp, LastOfStack DEF IInv, Given
        <3>2. Rank(q) \in Int
            BY <3>1, RankTyped DEF IsAtHome
        <3>3. Rank(q) >= Len(procs) - 1
            BY <3>1, <3>2
        <3> HIDE DEF q
        <3>4. QED
            BY <1>1, <2>3, <3>1, <3>3, ReplaceTop DEF Stays, IInv, Given, q
    <2>4. QED
        BY <1>1, <1>16, <2>2, <2>3 DEF Cleanup, Outcomes
<1>17. CASE Exit
    BY <1>17, ProcessEnds DEF Exit
<1>18. QED
    BY <1>2, <1>3, <1>5, <1>6, <1>7, <1>8, <1>9, <1>10, <1>11, <1>12, <1>13, <1>14, <1>15,
       <1>16, <1>17 DEF InstallStep

-----------------------------------------------------------------------------
LEMMA InitIInv == InstallInit => IInv
<1> SUFFICES ASSUME InstallInit PROVE IInv
    OBVIOUS
<1> DEFINE p == [nextTarget |-> 1, pc |-> "topo_install", cwd |-> NULL]
<1>1. final_targets \in Seq(Names) /\ Len(final_targets) \in Nat
    BY InstallAssumption DEF InstallInit
<1>2. p \in Process /\ p.nextTarget = 1 /\ p.pc = "topo_install"
    BY DEF Process, Labels
<1>3. IsAtHome(p)
    BY <1>1, <1>2 DEF IsAtHome, Over
<1>4. Rank(p) = 0
    BY DEF Rank, Phase
<1> HIDE DEF p
<1>5. IsStack(<<p>>)
    BY <1>2, <1>3, <1>4 DEF IsStack
<1>6. procs = <<p>>
    BY DEF InstallInit, p
<1>7. IsStack(procs)
    BY <1>5, <1>6
<1>8. results \in Seq(Names \X Outcomes)
    BY DEF InstallInit
<1>9. QED
    BY <1>7, <1>8 DEF InstallInit, IInv, Given

LEMMA NextIInv == IInv /\ [InstallStep]_installVars => IInv'
<1> SUFFICES ASSUME IInv, [InstallStep]_installVars PROVE IInv'
    OBVIOUS
<1>1. UNCHANGED givenVars
    BY DEF InstallStep, EnterDirectory, CannotEnter, AskPkgbuild, AskDotinstall, Ask,
        EditDotinstall, Confirm, Killed, ForkFails, ForkPkgbuildEditor, ForkDotinstallEditor,
        ForkMakepkg, Fork, EditorEnds, MakepkgEnds, Cleanup, Exit, installVars
<1>2. CASE UNCHANGED installVars
    BY <1>2 DEF installVars, givenVars, IInv, Given, IsStack, IsAtHome
<1>3. CASE InstallStep
    <2>1. IsStack(procs') /\ results' \in Seq(Names \X Outcomes)
        BY <1>3, StepStays DEF Stays
    <2>2. IsStack(procs)'
        BY <1>1, <2>1 DEF IsStack, IsAtHome, givenVars
    <2>3. aborted' \in BOOLEAN
        BY <1>3 DEF InstallStep, EnterDirectory, CannotEnter, AskPkgbuild, AskDotinstall, Ask,
            EditDotinstall, Confirm, Killed, ForkFails, ForkPkgbuildEditor,
            ForkDotinstallEditor, ForkMakepkg, Fork, EditorEnds, MakepkgEnds, Cleanup, Exit,
            IInv, Given
    <2>4. made' \subseteq Names
        <3>1. CASE MakepkgEnds
            <4>1. IsAtHome(Top) /\ Top.pc = "makepkg" /\ "makepkg" \notin Over
                BY <3>1, LastOfStack DEF MakepkgEnds, TopIsAt, IInv, Top, Over
            <4>2. Top.nextTarget \in 1..Len(final_targets) /\ final_targets \in Seq(Names)
                BY <4>1, InstallAssumption DEF IsAtHome, Process, IInv, Given
            <4>3. Package(Top) \in Names
                BY <4>2 DEF Package
            <4>4. QED
                BY <3>1, <4>3 DEF MakepkgEnds, IInv, Given
        <3>2. CASE ~MakepkgEnds
            BY <1>3, <3>2 DEF InstallStep, EnterDirectory, CannotEnter, AskPkgbuild,
                AskDotinstall, Ask, EditDotinstall, Confirm, Killed, ForkFails,
                ForkPkgbuildEditor, ForkDotinstallEditor, ForkMakepkg, Fork, EditorEnds,
                Cleanup, Exit, IInv, Given
        <3>3. QED
            BY <3>1, <3>2
    <2>5. QED
        BY <1>1, <2>1, <2>2, <2>3, <2>4 DEF IInv, Given, givenVars
<1>4. QED
    BY <1>2, <1>3

LEMMA IInvHolds == InstallSpec => []IInv
    BY InitIInv, NextIInv, PTL DEF InstallSpec

\* Every variable keeps its type: in particular no process, second powaur or
\* not, ever looks behind the end of the list.
THEOREM InstallTyped == InstallSpec => []InstallTypeOK
<1>1. IInv => InstallTypeOK
    BY DEF IInv, Given, IsStack, IsAtHome, InstallTypeOK, Outcomes
<1>2. QED
    BY <1>1, IInvHolds, PTL

\* However the calls of exec fail, at most three processes are added per
\* package of the list: every fork leaves the child further than its parent.
THEOREM ProcessesBounded == InstallSpec => []MaxProcesses
<1>1. ASSUME IInv PROVE MaxProcesses
    <2>1. /\ Top \in Process /\ IsAtHome(Top) /\ Rank(Top) >= Len(procs) - 1
          /\ Len(procs) \in Nat \ {0}
        BY <1>1, LastOfStack DEF IInv, Top
    <2>2. Len(final_targets) \in Nat
        BY <1>1, InstallAssumption DEF IInv, Given
    <2>3. Rank(Top) <= 3 * Len(final_targets)
        BY <2>1, <2>2, RankBounded
    <2>4. QED
        BY <2>1, <2>2, <2>3, RankTyped DEF MaxProcesses
<1>2. QED
    BY <1>1, IInvHolds, PTL

\* makepkg is run in the directory of the package it is to build.
THEOREM BuildsWhereItShould == InstallSpec => []BuildsAtHome
<1>1. ASSUME IInv PROVE BuildsAtHome
    <2>1. IsAtHome(Top)
        BY <1>1, LastOfStack DEF IInv, Top
    <2>2. QED
        BY <2>1 DEF BuildsAtHome, IsBuilding, TopIsAt, Package, IsAtHome, Over
<1>2. QED
    BY <1>1, IInvHolds, PTL

-----------------------------------------------------------------------------
(* What the first process answers.                                         *)

Programs == {"edits PKGBUILD", "edits .install", "makepkg"}
Inside == Labels \ (Over \cup Programs \cup {"cleanup"})

\* The first process is powaur; it is in a package only if that has a directory.
IsFirst(p) ==
    /\ p.pc \in Over \cup Inside
    /\ p.pc \in Inside => final_targets[p.nextTarget] \in dirs

\* TopoInstall sees nothing of the step.
SeesNothing ==
    /\ procs'[1].nextTarget = procs[1].nextTarget
    /\ (IF Outside' THEN procs'[1].cwd ELSE NULL) = (IF Outside THEN procs[1].cwd ELSE NULL)
    /\ results' = results

FirstGoesWell == IsFirst(procs'[1]) /\ (SeesNothing \/ Seen!InstallNext)

\* The first process of what ReplaceTop makes.
LEMMA FirstOfStack ==
    ASSUME NEW ps, IsStack(ps), NEW q
    PROVE  /\ Len(ps) = 1 => Front(ps) = <<>> /\ Last(ps) = ps[1] /\ Append(Front(ps), q)[1] = q
           /\ Len(ps) # 1 => /\ Front(ps) # <<>> /\ Front(ps)[1] = ps[1]
                              /\ Append(Front(ps), q)[1] = ps[1]
<1>1. ps \in Seq(Process) /\ ps # <<>>
    BY DEF IsStack
<1>2. /\ Front(ps) \in Seq(Process) /\ Len(ps) \in Nat \ {0} /\ Len(Front(ps)) = Len(ps) - 1
      /\ \A i \in 1..(Len(ps) - 1) : Front(ps)[i] = ps[i]
      /\ Last(ps) = ps[Len(ps)]
    BY <1>1, Tops
<1>3. CASE Len(ps) = 1
    <2>1. Front(ps) = <<>>
        BY <1>2, <1>3
    <2>2. QED
        BY <1>2, <1>3, <2>1
<1>4. CASE Len(ps) # 1
    <2>1. Len(Front(ps)) >= 1 /\ Front(ps)[1] = ps[1]
        BY <1>2, <1>4
    <2>2. Front(ps) # <<>> /\ Append(Front(ps), q)[1] = Front(ps)[1]
        BY <1>2, <2>1
    <2>3. QED
        BY <1>4, <2>1, <2>2
<1>5. QED
    BY <1>3, <1>4

LEMMA FirstGoesOn ==
    ASSUME NEW ps, IsStack(ps), ps[1] = procs[1], IsFirst(procs[1]), UNCHANGED givenVars,
           NEW pc, Len(ps) = 1 => procs[1].pc \in Inside /\ pc \in Inside \cup {"killed"},
           GoOn(Front(ps), Last(ps), pc)
    PROVE  FirstGoesWell
<1> DEFINE q == [Last(ps) EXCEPT !.pc = pc]
<1>1. procs' = Append(Front(ps), q) /\ results' = results
    BY DEF GoOn
<1>2. CASE Len(ps) = 1
    <2>1. procs'[1] = q /\ Last(ps) = procs[1]
        BY <1>1, <1>2, FirstOfStack
    <2>2. procs[1] \in Process
        BY <2>1, LastOfStack
    <2>3. q.nextTarget = procs[1].nextTarget /\ q.pc = pc
        BY <2>1, <2>2 DEF Process
    <2>4. ~Outside /\ ~Outside'
        BY <1>2, <2>1, <2>3 DEF Outside, Inside, Over
    <2>5. QED
        BY <1>1, <1>2, <2>1, <2>3, <2>4 DEF FirstGoesWell, IsFirst, SeesNothing, Inside, Over
<1>3. CASE Len(ps) # 1
    <2>1. procs'[1] = procs[1]
        BY <1>1, <1>3, FirstOfStack
    <2>2. QED
        BY <1>1, <2>1 DEF FirstGoesWell, IsFirst, SeesNothing, Outside
<1>4. QED
    BY <1>2, <1>3

LEMMA FirstReturns ==
    ASSUME NEW ps, IsStack(ps), ps[1] = procs[1], IsFirst(procs[1]), UNCHANGED givenVars,
           NEW outcome,
           Len(ps) = 1 =>
              \/ procs[1].pc \in Inside /\ outcome \in Outcomes \ {"no directory"}
              \/ /\ procs[1].pc = "topo_install" /\ outcome = "no directory"
                 /\ procs[1].nextTarget <= Len(final_targets),
           Return(Front(ps), Last(ps), outcome)
    PROVE  FirstGoesWell
<1>1. procs' = Append(Front(ps), Returned(Last(ps), outcome))
    BY DEF Return
<1>2. CASE Len(ps) = 1
    <2> DEFINE p == procs[1]
               q == Returned(p, outcome)
    <2>1. procs'[1] = q /\ Last(ps) = p /\ Front(ps) = <<>>
        BY <1>1, <1>2, FirstOfStack
    <2>2. p \in Process /\ IsAtHome(p)
        BY <2>1, LastOfStack
    <2>3. results' = Append(results, <<final_targets[p.nextTarget], outcome>>)
        BY <2>1 DEF Return, Package
    <2>4. /\ q.pc = "topo_install"
          /\ q.nextTarget = IF outcome \in {"abort", "lost"} THEN Len(final_targets) + 1
                            ELSE p.nextTarget + 1
          /\ q.cwd = IF outcome \in {"built", "makepkg fails"} THEN NULL ELSE p.cwd
        BY DEF Returned
    <2>5. IsFirst(q) /\ Outside'
        BY <2>1, <2>4 DEF IsFirst, Over, Inside, Outside
    <2>6. UNCHANGED <<final_targets, dirs>>
        BY DEF givenVars
    <2>7. CASE p.pc \in Inside /\ outcome \in Outcomes \ {"no directory"}
        <3>1. ~Outside /\ p.pc \notin Over
            BY <2>7 DEF Outside, Inside, Over
        <3>2. p.nextTarget <= Len(final_targets) /\ p.cwd = final_targets[p.nextTarget]
              /\ final_targets[p.nextTarget] \in dirs
            BY <2>2, <2>7, <3>1 DEF IsAtHome, IsFirst
        <3>3. outcome \in {"built", "makepkg fails", "editor fails", "abort", "lost"}
            BY <2>7 DEF Outcomes
        <3>4. Seen!InstallEnds(outcome)
            BY <2>1, <2>3, <2>4, <2>5, <3>1, <3>2, <3>3
               DEF Seen!InstallEnds, Seen!NextTarget, Seen!IsFatal, Seen!DirectoryAfter
        <3>5. Seen!CanEnter(final_targets[p.nextTarget])
            BY <3>1, <3>2 DEF Seen!CanEnter
        <3>6. Seen!InstallNext
            BY <2>6, <3>2, <3>3, <3>4, <3>5 DEF Seen!InstallNext
        <3>7. QED
            BY <2>1, <2>5, <3>6 DEF FirstGoesWell
    <2>8. CASE /\ p.pc = "topo_install" /\ outcome = "no directory"
               /\ p.nextTarget <= Len(final_targets)
        <3>1. Outside
            BY <2>8 DEF Outside
        <3>2. Seen!InstallEnds("no directory")
            BY <2>1, <2>3, <2>4, <2>5, <2>8, <3>1
               DEF Seen!InstallEnds, Seen!NextTarget, Seen!IsFatal, Seen!DirectoryAfter
        <3>4. Seen!InstallNext
            BY <2>6, <2>8, <3>2 DEF Seen!InstallNext
        <3>5. QED
            BY <2>1, <2>5, <3>4 DEF FirstGoesWell
    <2>9. QED
        BY <1>2, <2>7, <2>8
<1>3. CASE Len(ps) # 1
    <2>1. procs'[1] = procs[1] /\ Front(ps) # <<>>
        BY <1>1, <1>3, FirstOfStack
    <2>2. results' = results
        BY <2>1 DEF Return
    <2>3. QED
        BY <2>1, <2>2 DEF FirstGoesWell, IsFirst, SeesNothing, Outside, givenVars
<1>4. QED
    BY <1>2, <1>3

LEMMA FirstEnds ==
    ASSUME IInv, IsFirst(procs[1]), UNCHANGED givenVars,
           NEW pc, NEW code, Ends(pc, code), ~TopIsAt("exited"), ~TopIsAt("killed"),
           \/ TopIsAt("topo_install") /\ pc = "exited"
           \/ Top.pc \in Inside /\ pc = "killed"
           \/ Top.pc \in Programs
    PROVE  FirstGoesWell
<1>1. IsStack(procs) /\ Below = Front(procs) /\ Top = Last(procs)
    BY DEF IInv, Below, Top
<1>2. CASE Len(procs) = 1
    <2>1. Below = <<>> /\ Top = procs[1]
        BY <1>1, <1>2, FirstOfStack
    <2>2. GoOn(Front(procs), Last(procs), pc)
        BY <1>1, <2>1 DEF Ends
    <2>3. Top.pc \notin Programs
        BY <2>1 DEF IsFirst, Over, Inside, Programs
    <2>4. CASE Top.pc \in Inside /\ pc = "killed"
        BY <1>1, <2>1, <2>2, <2>4, FirstGoesOn
    <2>5. CASE TopIsAt("topo_install") /\ pc = "exited"
        <3> DEFINE q == [Top EXCEPT !.pc = pc]
        <3>1. procs' = Append(Front(procs), q) /\ results' = results
            BY <1>1, <2>2 DEF GoOn
        <3>2. procs'[1] = q /\ Top \in Process
            BY <1>1, <1>2, <3>1, FirstOfStack, LastOfStack
        <3>3. q.pc = "exited" /\ q.nextTarget = Top.nextTarget /\ q.cwd = Top.cwd
            BY <2>5, <3>2 DEF Process
        <3>4. Outside /\ Outside'
            BY <2>1, <2>5, <3>2, <3>3 DEF Outside, TopIsAt
        <3>5. QED
            BY <2>1, <3>1, <3>2, <3>3, <3>4 DEF FirstGoesWell, SeesNothing, IsFirst, Over, Inside
    <2>6. QED
        BY <2>3, <2>4, <2>5
<1>3. CASE Len(procs) # 1
    <2> DEFINE ps == Below
    <2>1. ps # <<>>
        BY <1>1, <1>3, FirstOfStack
    <2>2. IsStack(ps) /\ Last(ps).pc \in Waits
        BY <1>1, <2>1, PopTop
    <2>3. ps[1] = procs[1]
        BY <1>1, <1>3, FirstOfStack
    <2>4. Resume(Front(ps), Last(ps), code)
        BY <2>1 DEF Ends
    <2>5. Len(ps) = 1 => procs[1].pc \in Waits
        BY <2>2, <2>3, FirstOfStack
    <2>6. Waits \subseteq Inside /\ {"edit_dotinstall", "fork_pacman"} \subseteq Inside
          /\ {"built", "makepkg fails", "editor fails", "lost"} \subseteq Outcomes \ {"no directory"}
        BY DEF Waits, Inside, Labels, Over, Programs, Outcomes
    <2>7. \/ \E outcome \in {"built", "makepkg fails", "editor fails", "lost"} :
                Return(Front(ps), Last(ps), outcome)
          \/ \E to \in {"edit_dotinstall", "fork_pacman"} : GoOn(Front(ps), Last(ps), to)
        BY <2>2, <2>4 DEF Resume, Waits
    <2> HIDE DEF ps
    <2>8. CASE \E outcome \in {"built", "makepkg fails", "editor fails", "lost"} :
                Return(Front(ps), Last(ps), outcome)
        BY <2>2, <2>3, <2>5, <2>6, <2>8, FirstReturns
    <2>9. CASE \E to \in {"edit_dotinstall", "fork_pacman"} : GoOn(Front(ps), Last(ps), to)
        BY <2>2, <2>3, <2>5, <2>6, <2>9, FirstGoesOn
    <2>10. QED
        BY <2>7, <2>8, <2>9
<1>4. QED
    BY <1>2, <1>3

LEMMA FirstForks ==
    ASSUME IInv, IsFirst(procs[1]), UNCHANGED givenVars, Top.pc \in Inside,
           NEW wait \in Waits, NEW program, NEW runs, NEW otherwise, NEW label,
           Fork(label, wait, program, runs, otherwise)
    PROVE  FirstGoesWell
<1> DEFINE w == [Top EXCEPT !.pc = wait]
           to == IF runs THEN program ELSE otherwise
           c == [Top EXCEPT !.pc = to]
<1>1. IsStack(procs) /\ Below = Front(procs) /\ Top = Last(procs) /\ procs # <<>>
      /\ Top \in Process
    BY LastOfStack DEF IInv, Below, Top, IsStack
<1>2. /\ Front(procs) \in Seq(Process) /\ Len(procs) \in Nat \ {0}
      /\ Len(Front(procs)) = Len(procs) - 1
      /\ \A i \in 1..(Len(procs) - 1) : Front(procs)[i] = procs[i]
    BY <1>1, Tops DEF IsStack
<1>3. procs' = Front(procs) \o <<w, c>> /\ results' = results
    BY <1>1 DEF Fork
<1>4. w.nextTarget = Top.nextTarget /\ w.cwd = Top.cwd /\ w.pc = wait
    BY <1>1 DEF Process
<1>5. wait \in Inside
    BY DEF Waits, Inside, Labels, Over, Programs
<1> HIDE DEF w, c
<1>6. CASE Len(procs) = 1
    <2>1. Front(procs) = <<>> /\ Top = procs[1]
        BY <1>1, <1>6, FirstOfStack
    <2>2. procs'[1] = w
        BY <1>3, <2>1
    <2>3. ~Outside /\ ~Outside'
        BY <1>4, <1>5, <2>1, <2>2 DEF Outside, Inside, Over
    <2>4. QED
        BY <1>3, <1>4, <1>5, <2>1, <2>2, <2>3
           DEF FirstGoesWell, SeesNothing, IsFirst, givenVars
<1>7. CASE Len(procs) # 1
    <2>1. Len(Front(procs)) >= 1 /\ Front(procs)[1] = procs[1] /\ Len(Front(procs)) \in Nat
        BY <1>2, <1>7
    <2>2. procs'[1] = procs[1]
        BY <1>2, <1>3, <2>1
    <2>3. QED
        BY <1>3, <2>2 DEF FirstGoesWell, SeesNothing, IsFirst, Outside, givenVars
<1>8. QED
    BY <1>6, <1>7

LEMMA FirstStep ==
    ASSUME IInv, IsFirst(procs[1]), UNCHANGED givenVars, InstallStep
    PROVE  FirstGoesWell
<1>1. /\ IsStack(procs) /\ Below = Front(procs) /\ Top = Last(procs) /\ IsAtHome(Top)
      /\ Top \in Process
    BY LastOfStack DEF IInv, Below, Top
<1>2. Len(procs) = 1 => Top = procs[1]
    BY <1>1, FirstOfStack
<1>3. ASSUME NEW q, procs' = Append(Front(procs), q), results' = results, Len(procs) # 1
      PROVE  FirstGoesWell
    <2>1. procs'[1] = procs[1]
        BY <1>1, <1>3, FirstOfStack
    <2>2. QED
        BY <1>3, <2>1 DEF FirstGoesWell, SeesNothing, IsFirst, Outside, givenVars
<1>4. CASE EnterDirectory
    <2> DEFINE q == [Top EXCEPT !.cwd = Package(Top),
                                !.pc = IF noconfirm THEN "fork_pacman" ELSE "ask PKGBUILD"]
    <2>1. /\ procs' = Append(Front(procs), q) /\ results' = results
          /\ Top.pc = "topo_install" /\ Top.cwd = NULL
          /\ final_targets[Top.nextTarget] \in dirs
        BY <1>1, <1>4 DEF EnterDirectory, TopIsAt, Package
    <2>2. q.nextTarget = Top.nextTarget /\ q.pc \in {"fork_pacman", "ask PKGBUILD"}
        BY <1>1 DEF Process
    <2>3. CASE Len(procs) = 1
        <3>1. procs'[1] = q /\ Top = procs[1]
            BY <1>1, <2>1, <2>3, FirstOfStack
        <3>2. ~Outside' /\ Outside
            BY <2>1, <2>2, <3>1 DEF Outside
        <3>3. q.pc \in Inside
            BY <2>2 DEF Inside, Labels, Over, Programs
        <3> HIDE DEF q
        <3>4. QED
            BY <2>1, <2>2, <3>1, <3>2, <3>3 DEF FirstGoesWell, SeesNothing, IsFirst, givenVars
    <2> HIDE DEF q
    <2>4. QED
        BY <1>3, <2>1, <2>3
<1>5. CASE CannotEnter
    <2>1. /\ Return(Front(procs), Last(procs), "no directory")
          /\ Top.pc = "topo_install" /\ Top.nextTarget <= Len(final_targets)
        BY <1>1, <1>5 DEF CannotEnter, TopIsAt, HasNext
    <2>2. QED
        BY <1>1, <1>2, <2>1, FirstReturns
<1>6. ASSUME NEW question \in Inside, NEW skipped \in Inside, NEW edited \in Inside,
             Ask(question, skipped, edited)
      PROVE  FirstGoesWell
    <2>1. Top.pc \in Inside
        BY <1>6 DEF Ask, TopIsAt
    <2>2. \/ GoOn(Front(procs), Last(procs), skipped)
          \/ Return(Front(procs), Last(procs), "abort")
          \/ GoOn(Front(procs), Last(procs), edited)
        BY <1>1, <1>6 DEF Ask
    <2>3. "abort" \in Outcomes \ {"no directory"}
        BY DEF Outcomes
    <2>4. QED
        BY <1>1, <1>2, <1>6, <2>1, <2>2, <2>3, FirstGoesOn, FirstReturns
<1>7. CASE AskPkgbuild \/ AskDotinstall
    BY <1>6, <1>7 DEF AskPkgbuild, AskDotinstall, Inside, Labels, Over, Programs
<1>8. CASE EditDotinstall
    <2>1. \E to \in {"ask .install", "fork_pacman"} : GoOn(Front(procs), Last(procs), to)
        BY <1>1, <1>8 DEF EditDotinstall
    <2>2. Top.pc \in Inside /\ {"ask .install", "fork_pacman"} \subseteq Inside
        BY <1>8 DEF EditDotinstall, TopIsAt, Inside, Labels, Over, Programs
    <2>3. QED
        BY <1>1, <1>2, <2>1, <2>2, FirstGoesOn
<1>9. CASE Confirm
    <2>1. \/ GoOn(Front(procs), Last(procs), "fork makepkg")
          \/ Return(Front(procs), Last(procs), "abort")
        BY <1>1, <1>9 DEF Confirm
    <2>2. Top.pc \in Inside /\ "fork makepkg" \in Inside /\ "abort" \in Outcomes \ {"no directory"}
        BY <1>9 DEF Confirm, TopIsAt, Inside, Labels, Over, Programs, Outcomes
    <2>3. QED
        BY <1>1, <1>2, <2>1, <2>2, FirstGoesOn, FirstReturns
<1>10. CASE Killed
    <2>1. Ends("killed", "failed") /\ Top.pc \in Inside /\ ~TopIsAt("exited") /\ ~TopIsAt("killed")
        BY <1>10 DEF Killed, TopIsAt, Inside, Labels, Over, Programs
    <2>2. QED
        BY <2>1, FirstEnds
<1>11. CASE ForkFails
    <2>1. Return(Front(procs), Last(procs), "editor fails")
        BY <1>1, <1>11 DEF ForkFails
    <2>2. Top.pc \in Inside /\ "editor fails" \in Outcomes \ {"no directory"}
        BY <1>11 DEF ForkFails, TopIsAt, Inside, Labels, Over, Programs, Outcomes
    <2>3. QED
        BY <1>1, <1>2, <2>1, <2>2, FirstReturns
<1>12. CASE ForkPkgbuildEditor \/ ForkDotinstallEditor \/ ForkMakepkg
    <2>1. Top.pc \in Inside
        BY <1>12 DEF ForkPkgbuildEditor, ForkDotinstallEditor, ForkMakepkg, Fork, TopIsAt,
            Inside, Labels, Over, Programs
    <2>2. QED
        BY <1>12, <2>1, FirstForks
           DEF ForkPkgbuildEditor, ForkDotinstallEditor, ForkMakepkg, Waits
<1>13. CASE EditorEnds
    <2>1. /\ \E code \in {"ok", "failed"} : Ends("exited", code)
          /\ Top.pc \in Programs /\ ~TopIsAt("exited") /\ ~TopIsAt("killed")
        BY <1>13 DEF EditorEnds, TopIsAt, Programs
    <2>2. QED
        BY <2>1, FirstEnds
<1>14. CASE MakepkgEnds
    <2>1. /\ \E code \in {"ok", "failed"} : Ends("exited", code)
          /\ Top.pc \in Programs /\ ~TopIsAt("exited") /\ ~TopIsAt("killed")
        BY <1>14 DEF MakepkgEnds, TopIsAt, Programs
    <2>2. QED
        BY <2>1, FirstEnds
<1>15. CASE Cleanup
    <2>1. Len(procs) # 1
        BY <1>2, <1>15 DEF Cleanup, TopIsAt, IsFirst, Over, Inside
    <2>2. CASE \E outcome : Return(Front(procs), Last(procs), outcome)
        BY <1>1, <2>1, <2>2, FirstReturns
    <2>3. CASE /\ procs' = Append(Front(procs), [Returned(Top, "lost") EXCEPT !.cwd = NULL])
               /\ results' = results
        BY <1>3, <2>1, <2>3
    <2>4. QED
        BY <1>1, <1>15, <2>2, <2>3 DEF Cleanup
<1>16. CASE Exit
    <2>1. /\ \E code \in {"ok", "failed"} : Ends("exited", code)
          /\ TopIsAt("topo_install") /\ ~TopIsAt("exited") /\ ~TopIsAt("killed")
        BY <1>16 DEF Exit, TopIsAt
    <2>2. QED
        BY <2>1, FirstEnds
<1>17. QED
    BY <1>4, <1>5, <1>7, <1>8, <1>9, <1>10, <1>11, <1>12, <1>13, <1>14, <1>15, <1>16
       DEF InstallStep

LEMMA GivenVarsStay == [InstallStep]_installVars => UNCHANGED givenVars
BY DEF InstallStep, EnterDirectory, CannotEnter, AskPkgbuild, AskDotinstall, Ask,
    EditDotinstall, Confirm, Killed, ForkFails, ForkPkgbuildEditor, ForkDotinstallEditor,
    ForkMakepkg, Fork, EditorEnds, MakepkgEnds, Cleanup, Exit, installVars

\* What install_single_package does, questions, editors, makepkg and failing
\* calls of exec included, is what TopoInstall says of it, for every list: each
\* call has one of the results listed there, in the order of the list, and
\* leaves the directory stated for that result.
THEOREM InstallImplementsTopoInstall == InstallSpec => ImplementsTopoInstall
<1>1. ASSUME InstallInit PROVE Seen!TopoInstallInit /\ IsFirst(procs[1])
    <2>1. /\ procs[1] = [nextTarget |-> 1, pc |-> "topo_install", cwd |-> NULL]
          /\ final_targets \in Seq(Names) /\ dirs \subseteq Names /\ results = <<>>
        BY <1>1, InstallAssumption DEF InstallInit
    <2>2. QED
        BY <2>1 DEF Seen!TopoInstallInit, Outside, IsFirst, Over, Inside
<1>2. ASSUME IInv, IsFirst(procs[1]), [InstallStep]_installVars
      PROVE  IsFirst(procs[1])' /\ [Seen!InstallNext]_(Seen!topoInstallVars)
    <2>1. UNCHANGED givenVars
        BY <1>2, GivenVarsStay
    <2>2. CASE InstallStep
        <3>1. FirstGoesWell
            BY <1>2, <2>1, <2>2, FirstStep
        <3>2. IsFirst(procs[1])'
            BY <2>1, <3>1 DEF FirstGoesWell, IsFirst, givenVars
        <3>3. CASE SeesNothing
            BY <2>1, <3>3, <3>2 DEF SeesNothing, Seen!topoInstallVars, givenVars
        <3>4. CASE Seen!InstallNext
            BY <3>4, <3>2
        <3>5. QED
            BY <3>1, <3>3, <3>4 DEF FirstGoesWell
    <2>3. CASE UNCHANGED installVars
        BY <1>2, <2>1, <2>3 DEF installVars, givenVars, IsFirst, Outside, Seen!topoInstallVars
    <2>4. QED
        BY <1>2, <2>2, <2>3
<1>3. QED
    BY <1>1, <1>2, IInvHolds, PTL DEF InstallSpec, ImplementsTopoInstall, Seen!TopoInstallSpec

-----------------------------------------------------------------------------
(* What is reported as built.                                              *)

\* No process waits for makepkg or is the rest of a failed execvp.
IsPlain(pc) == pc \notin {"cleanup", "wait makepkg"}

\* Who waits for makepkg waits for the process on top, which is makepkg for
\* the same package.
IsMakepkgOf(c, p) ==
    p.pc = "wait makepkg" /\ c.pc = "makepkg" /\ c.nextTarget = p.nextTarget

WaitsForMakepkg(ps) ==
    \A i \in 1..Len(ps) :
        IsPlain(ps[i].pc) \/ (i = Len(ps) - 1 /\ IsMakepkgOf(ps[i + 1], ps[i]))

IsReported(list, built) ==
    \A k \in 1..Len(list) : list[k][2] = "built" => list[k][1] \in built

BuiltInv == makepkgRuns => WaitsForMakepkg(procs) /\ IsReported(results, made)

\* The stack with another top.
LEMMA PlainStack ==
    ASSUME NEW ps, IsStack(ps), NEW q \in Process, IsPlain(q.pc),
           \A i \in 1..(Len(ps) - 1) : IsPlain(ps[i].pc)
    PROVE  WaitsForMakepkg(Append(Front(ps), q))
<1> DEFINE new == Append(Front(ps), q)
<1>1. ps \in Seq(Process) /\ ps # <<>>
    BY DEF IsStack
<1>2. /\ Len(new) = Len(ps) /\ \A i \in 1..(Len(ps) - 1) : new[i] = ps[i]
      /\ new[Len(ps)] = q /\ Len(ps) \in Nat \ {0}
    BY <1>1, Tops
<1> HIDE DEF new
<1>3. \A i \in 1..Len(new) : IsPlain(new[i].pc)
    <2> TAKE i \in 1..Len(new)
    <2>1. CASE i = Len(ps)
        BY <1>2, <2>1
    <2>2. CASE i # Len(ps)
        BY <1>2, <2>2
    <2>3. QED
        BY <2>1, <2>2
<1>4. WaitsForMakepkg(new)
    BY <1>3 DEF WaitsForMakepkg
<1>5. QED
    BY <1>4 DEF new

LEMMA PlainGoesOn ==
    ASSUME NEW ps, IsStack(ps), \A i \in 1..(Len(ps) - 1) : IsPlain(ps[i].pc),
           NEW pc \in Labels, IsPlain(pc), GoOn(Front(ps), Last(ps), pc)
    PROVE  WaitsForMakepkg(procs') /\ results' = results
<1> DEFINE q == [Last(ps) EXCEPT !.pc = pc]
<1>1. q \in Process /\ q.pc = pc
    BY LastOfStack DEF Process
<1>2. procs' = Append(Front(ps), q) /\ results' = results
    BY DEF GoOn
<1> HIDE DEF q
<1>3. QED
    BY <1>1, <1>2, PlainStack

LEMMA PlainReturns ==
    ASSUME final_targets \in Lists,
           NEW ps, IsStack(ps), \A i \in 1..(Len(ps) - 1) : IsPlain(ps[i].pc), NEW outcome,
           Last(ps).pc \notin {"exited", "killed"},
           Last(ps).pc = "topo_install" => Last(ps).nextTarget <= Len(final_targets),
           Return(Front(ps), Last(ps), outcome)
    PROVE  /\ WaitsForMakepkg(procs')
           /\ results' = results \/ results' = Append(results, <<Package(Last(ps)), outcome>>)
<1> DEFINE q == Returned(Last(ps), outcome)
<1>1. q \in Process
    BY LastOfStack, ReturnsUp DEF IsAtHome
<1>2. q.pc = "topo_install"
    BY DEF Returned
<1>3. IsPlain(q.pc)
    BY <1>2 DEF IsPlain
<1>4. procs' = Append(Front(ps), q)
    BY DEF Return
<1> HIDE DEF q
<1>5. QED
    BY <1>1, <1>3, <1>4, PlainStack DEF Return

LEMMA ReportGrows ==
    ASSUME IInv, IsReported(results, made), made \subseteq made',
           NEW n, NEW outcome, outcome = "built" => n \in made',
           results' = results \/ results' = Append(results, <<n, outcome>>)
    PROVE  IsReported(results', made')
<1>1. results \in Seq(Names \X Outcomes)
    BY DEF IInv, Given
<1>2. CASE results' = results
    BY <1>2 DEF IsReported
<1>3. CASE results' = Append(results, <<n, outcome>>)
    <2> DEFINE entry == <<n, outcome>>
    <2>1. entry[1] = n /\ entry[2] = outcome
        OBVIOUS
    <2> HIDE DEF entry
    <2>2. results' = Append(results, entry)
        BY <1>3 DEF entry
    <2>3. /\ Len(results') = Len(results) + 1 /\ Len(results) \in Nat
          /\ \A k \in 1..Len(results) : results'[k] = results[k]
          /\ results'[Len(results) + 1] = entry
        BY <1>1, <2>2
    <2>4. \A k \in 1..Len(results') : k \in 1..Len(results) \/ k = Len(results) + 1
        BY <2>3
    <2>5. QED
        BY <2>1, <2>3, <2>4 DEF IsReported
<1>4. QED
    BY <1>2, <1>3

LEMMA PlainPrograms ==
    ASSUME NEW ps, IsStack(ps), WaitsForMakepkg(ps)
    PROVE  /\ Last(ps).pc \notin {"cleanup", "wait makepkg"}
           /\ \A i \in 1..(Len(ps) - 2) : IsPlain(ps[i].pc)
           /\ Last(ps).pc # "makepkg" => \A i \in 1..(Len(ps) - 1) : IsPlain(ps[i].pc)
           /\ Front(ps) # <<>> /\ ~IsPlain(Last(Front(ps)).pc) =>
                /\ Last(Front(ps)).pc = "wait makepkg"
                /\ Last(ps).pc = "makepkg" /\ Last(ps).nextTarget = Last(Front(ps)).nextTarget
<1>1. ps \in Seq(Process) /\ ps # <<>>
    BY DEF IsStack
<1>2. Last(ps) = ps[Len(ps)] /\ Len(ps) \in Nat \ {0}
    BY <1>1, Tops
<1>3. Last(ps).pc \notin {"cleanup", "wait makepkg"}
    <2>1. Len(ps) \in 1..Len(ps) /\ Len(ps) # Len(ps) - 1
        BY <1>2
    <2>2. QED
        BY <1>2, <2>1 DEF WaitsForMakepkg, IsPlain, IsMakepkgOf
<1>4. \A i \in 1..(Len(ps) - 2) : IsPlain(ps[i].pc)
    <2>1. \A i \in 1..(Len(ps) - 2) : i \in 1..Len(ps) /\ i # Len(ps) - 1
        BY <1>2
    <2>2. QED
        BY <2>1 DEF WaitsForMakepkg, IsMakepkgOf
<1>5. Last(ps).pc # "makepkg" => \A i \in 1..(Len(ps) - 1) : IsPlain(ps[i].pc)
    <2>1. \A i \in 1..(Len(ps) - 1) : i \in 1..Len(ps) /\ (i = Len(ps) - 1 => i + 1 = Len(ps))
        BY <1>2
    <2>2. QED
        BY <1>2, <2>1 DEF WaitsForMakepkg, IsMakepkgOf
<1>6. ASSUME Front(ps) # <<>>, ~IsPlain(Last(Front(ps)).pc)
      PROVE  /\ Last(Front(ps)).pc = "wait makepkg"
             /\ Last(ps).pc = "makepkg" /\ Last(ps).nextTarget = Last(Front(ps)).nextTarget
    <2>1. /\ Front(ps) \in Seq(Process) /\ Len(Front(ps)) = Len(ps) - 1
          /\ \A i \in 1..(Len(ps) - 1) : Front(ps)[i] = ps[i]
        BY <1>1, Tops
    <2>2. Last(Front(ps)) = Front(ps)[Len(Front(ps))] /\ Len(Front(ps)) \in Nat \ {0}
        BY <1>6, <2>1, Tops
    <2>3. /\ Len(ps) - 1 \in 1..Len(ps) /\ Last(Front(ps)) = ps[Len(ps) - 1]
          /\ (Len(ps) - 1) + 1 = Len(ps)
        BY <1>2, <2>1, <2>2
    <2>4. QED
        BY <1>2, <1>6, <2>3 DEF WaitsForMakepkg, IsMakepkgOf
<1>7. QED
    BY <1>3, <1>4, <1>5, <1>6

LEMMA BuiltEnds ==
    ASSUME IInv, WaitsForMakepkg(procs), IsReported(results, made), made \subseteq made',
           NEW pc \in {"exited", "killed"}, NEW code, Ends(pc, code),
           TopIsAt("makepkg") /\ code = "ok" => Package(Top) \in made'
    PROVE  WaitsForMakepkg(procs') /\ IsReported(results', made')
<1>1. IsStack(procs) /\ Below = Front(procs) /\ Top = Last(procs) /\ final_targets \in Lists
    BY DEF IInv, Below, Top, Given
<1>2. pc \in Labels /\ IsPlain(pc)
    BY DEF Labels, IsPlain
<1>3. CASE Len(procs) = 1
    <2>1. GoOn(Front(procs), Last(procs), pc)
        BY <1>1, <1>3, FirstOfStack DEF Ends
    <2>2. \A i \in 1..(Len(procs) - 1) : IsPlain(procs[i].pc)
        BY <1>3
    <2>3. WaitsForMakepkg(procs') /\ results' = results
        BY <1>1, <1>2, <2>1, <2>2, PlainGoesOn
    <2>4. QED
        BY <2>3, ReportGrows
<1>4. CASE Len(procs) # 1
    <2> DEFINE ps == Front(procs)
    <2>1. ps # <<>>
        BY <1>1, <1>4, FirstOfStack
    <2>2. IsStack(ps) /\ Last(ps).pc \in Waits /\ Len(ps) = Len(procs) - 1
        BY <1>1, <2>1, PopTop
    <2>3. \A i \in 1..(Len(ps) - 1) : IsPlain(ps[i].pc)
        <3>1. procs \in Seq(Process) /\ procs # <<>>
            BY <1>1 DEF IsStack
        <3>2. Len(procs) \in Nat \ {0} /\ \A i \in 1..(Len(procs) - 1) : ps[i] = procs[i]
            BY <3>1, Tops
        <3>3. \A i \in 1..(Len(ps) - 1) : i \in 1..(Len(procs) - 2) /\ i \in 1..(Len(procs) - 1)
            BY <2>2, <3>2
        <3>4. QED
            BY <1>1, <3>2, <3>3, PlainPrograms
    <2>4. Resume(Front(ps), Last(ps), code)
        BY <1>1, <2>1 DEF Ends
    <2>5. ~IsPlain(Last(ps).pc) =>
            /\ Last(ps).pc = "wait makepkg"
            /\ Top.pc = "makepkg" /\ Top.nextTarget = Last(ps).nextTarget
        BY <1>1, <2>1, PlainPrograms
    <2>6. /\ {"edit_dotinstall", "fork_pacman"} \subseteq Labels
          /\ IsPlain("edit_dotinstall") /\ IsPlain("fork_pacman")
          /\ Last(ps).pc \notin {"exited", "killed", "topo_install"}
        BY <2>2 DEF Labels, IsPlain, Waits
    <2>7. \/ \E to \in {"edit_dotinstall", "fork_pacman"} : GoOn(Front(ps), Last(ps), to)
          \/ \E outcome \in {"built", "makepkg fails", "editor fails", "lost"} :
                /\ Return(Front(ps), Last(ps), outcome)
                /\ outcome = "built" => Last(ps).pc = "wait makepkg" /\ code = "ok"
        BY <2>2, <2>4 DEF Resume, Waits
    <2> HIDE DEF ps
    <2>8. CASE \E to \in {"edit_dotinstall", "fork_pacman"} : GoOn(Front(ps), Last(ps), to)
        <3>1. WaitsForMakepkg(procs') /\ results' = results
            BY <2>2, <2>3, <2>6, <2>8, PlainGoesOn
        <3>2. QED
            BY <3>1, ReportGrows
    <2>9. ASSUME NEW outcome \in {"built", "makepkg fails", "editor fails", "lost"},
                 Return(Front(ps), Last(ps), outcome),
                 outcome = "built" => Last(ps).pc = "wait makepkg" /\ code = "ok"
          PROVE  WaitsForMakepkg(procs') /\ IsReported(results', made')
        <3>1. /\ WaitsForMakepkg(procs')
              /\ \/ results' = results
                 \/ results' = Append(results, <<Package(Last(ps)), outcome>>)
            BY <1>1, <2>2, <2>3, <2>6, <2>9, PlainReturns
        <3>2. outcome = "built" => Package(Last(ps)) \in made'
            BY <2>5, <2>9 DEF IsPlain, Package, TopIsAt
        <3>3. QED
            BY <3>1, <3>2, ReportGrows
    <2>10. QED
        BY <2>7, <2>8, <2>9
<1>5. QED
    BY <1>3, <1>4

\* The fork of an editor and that of makepkg, which can be executed.
LEMMA PlainForks ==
    ASSUME NEW ps, IsStack(ps), \A i \in 1..(Len(ps) - 1) : IsPlain(ps[i].pc),
           NEW w \in Process, NEW c \in Process, IsPlain(c.pc),
           IsPlain(w.pc) \/ IsMakepkgOf(c, w)
    PROVE  WaitsForMakepkg(Front(ps) \o <<w, c>>)
<1> DEFINE new == Front(ps) \o <<w, c>>
<1>1. ps \in Seq(Process) /\ ps # <<>>
    BY DEF IsStack
<1>2. /\ Front(ps) \in Seq(Process) /\ Len(ps) \in Nat \ {0}
      /\ Len(Front(ps)) = Len(ps) - 1
      /\ \A i \in 1..(Len(ps) - 1) : Front(ps)[i] = ps[i]
    BY <1>1, Tops
<1>3. /\ <<w, c>> \in Seq(Process) /\ Len(<<w, c>>) = 2
      /\ <<w, c>>[1] = w /\ <<w, c>>[2] = c
    OBVIOUS
<1>4. /\ Len(new) = Len(ps) + 1
      /\ \A i \in 1..(Len(ps) + 1) :
            new[i] = IF i <= Len(ps) - 1 THEN Front(ps)[i] ELSE <<w, c>>[i - (Len(ps) - 1)]
    BY <1>2, <1>3, ConcatProperties
<1> HIDE DEF new
<1>5. \A i \in 1..(Len(ps) - 1) : new[i] = ps[i]
    BY <1>2, <1>4
<1>6. Len(ps) - (Len(ps) - 1) = 1 /\ Len(ps) + 1 - (Len(ps) - 1) = 2
    BY <1>2
<1>7. new[Len(ps)] = w /\ new[Len(ps) + 1] = c
    BY <1>2, <1>3, <1>4, <1>6
<1>8. \A i \in 1..Len(new) : i \in 1..(Len(ps) - 1) \/ i = Len(ps) \/ i = Len(ps) + 1
    BY <1>2, <1>4
<1>9. WaitsForMakepkg(new)
    <2> SUFFICES ASSUME NEW i \in 1..Len(new)
                 PROVE  \/ IsPlain(new[i].pc)
                        \/ i = Len(new) - 1 /\ IsMakepkgOf(new[i + 1], new[i])
        BY DEF WaitsForMakepkg
    <2>1. CASE i \in 1..(Len(ps) - 1)
        BY <1>5, <2>1
    <2>2. CASE i = Len(ps)
        <3>1. i = Len(new) - 1
            BY <1>2, <1>4, <2>2
        <3>2. QED
            BY <1>7, <2>2, <3>1
    <2>3. CASE i = Len(ps) + 1
        BY <1>7, <2>3
    <2>4. QED
        BY <1>8, <2>1, <2>2, <2>3
<1>10. QED
    BY <1>9 DEF new

LEMMA BuiltForks ==
    ASSUME IInv, WaitsForMakepkg(procs), NEW label, label # "makepkg",
           NEW wait \in Labels, NEW program \in Labels, NEW runs, NEW otherwise \in Labels,
           Fork(label, wait, program, runs, otherwise),
           runs => IsPlain(program), ~runs => IsPlain(otherwise),
           IsPlain(wait) \/ (wait = "wait makepkg" /\ program = "makepkg" /\ runs)
    PROVE  WaitsForMakepkg(procs')
<1> DEFINE w == [Top EXCEPT !.pc = wait]
           to == IF runs THEN program ELSE otherwise
           c == [Top EXCEPT !.pc = to]
<1>1. IsStack(procs) /\ Below = Front(procs) /\ Top = Last(procs) /\ Top.pc = label
    BY DEF IInv, Below, Top, Fork, TopIsAt
<1>2. \A i \in 1..(Len(procs) - 1) : IsPlain(procs[i].pc)
    BY <1>1, PlainPrograms
<1>3. to \in Labels /\ IsPlain(to) /\ (IsPlain(wait) \/ (wait = "wait makepkg" /\ to = "makepkg"))
    OBVIOUS
<1> HIDE DEF to
<1>4. /\ w \in Process /\ w.pc = wait /\ w.nextTarget = Top.nextTarget
      /\ c \in Process /\ c.pc = to /\ c.nextTarget = Top.nextTarget
    BY <1>1, <1>3, LastOfStack DEF Process
<1>5. procs' = Front(procs) \o <<w, c>>
    BY <1>1 DEF Fork, to
<1> HIDE DEF w, c
<1>6. QED
    BY <1>1, <1>2, <1>3, <1>4, <1>5, PlainForks DEF IsMakepkgOf

LEMMA BuiltStep ==
    ASSUME IInv, makepkgRuns, WaitsForMakepkg(procs), IsReported(results, made), InstallStep
    PROVE  WaitsForMakepkg(procs') /\ IsReported(results', made')
<1>1. /\ IsStack(procs) /\ Below = Front(procs) /\ Top = Last(procs) /\ IsAtHome(Top)
      /\ Top \in Process /\ final_targets \in Lists
    BY LastOfStack DEF IInv, Below, Top, Given
<1>2. Top.pc # "makepkg" => \A i \in 1..(Len(procs) - 1) : IsPlain(procs[i].pc)
    BY <1>1, PlainPrograms
<1>3. ASSUME NEW to \in Labels, IsPlain(to), Top.pc # "makepkg", made' = made,
             GoOn(Front(procs), Last(procs), to)
      PROVE  WaitsForMakepkg(procs') /\ IsReported(results', made')
    <2>1. WaitsForMakepkg(procs') /\ results' = results
        BY <1>1, <1>2, <1>3, PlainGoesOn
    <2>2. QED
        BY <1>3, <2>1, ReportGrows
<1>4. ASSUME NEW outcome, outcome # "built", made' = made,
             Top.pc \notin {"exited", "killed", "makepkg"},
             Top.pc = "topo_install" => Top.nextTarget <= Len(final_targets),
             Return(Front(procs), Last(procs), outcome)
      PROVE  WaitsForMakepkg(procs') /\ IsReported(results', made')
    <2>1. /\ WaitsForMakepkg(procs')
          /\ \/ results' = results
             \/ results' = Append(results, <<Package(Last(procs)), outcome>>)
        BY <1>1, <1>2, <1>4, PlainReturns
    <2>2. QED
        BY <1>4, <2>1, ReportGrows
<1>5. CASE EnterDirectory
    <2> DEFINE q == [Top EXCEPT !.cwd = Package(Top),
                                !.pc = IF noconfirm THEN "fork_pacman" ELSE "ask PKGBUILD"]
    <2>1. /\ procs' = Append(Front(procs), q) /\ results' = results /\ made' = made
          /\ Top.pc = "topo_install" /\ Top.cwd = NULL
          /\ Top.nextTarget <= Len(final_targets)
        BY <1>1, <1>5 DEF EnterDirectory, TopIsAt, HasNext
    <2>2. Top.nextTarget \in 1..Len(final_targets) /\ final_targets \in Seq(Names)
        BY <1>1, <2>1, InstallAssumption DEF Process
    <2>3. Package(Top) \in Names
        BY <2>2 DEF Package
    <2>4. q \in Process /\ q.pc \in {"fork_pacman", "ask PKGBUILD"}
        BY <1>1, <2>3 DEF Process, Labels
    <2>5. IsPlain(q.pc)
        BY <2>4 DEF IsPlain
    <2> HIDE DEF q
    <2>6. Top.pc # "makepkg"
        BY <2>1
    <2>7. WaitsForMakepkg(procs')
        BY <1>1, <1>2, <2>1, <2>4, <2>5, <2>6, PlainStack
    <2>8. QED
        BY <2>1, <2>7, ReportGrows
<1>6. CASE CannotEnter
    <2>1. /\ Return(Front(procs), Last(procs), "no directory") /\ made' = made
          /\ Top.pc = "topo_install" /\ Top.nextTarget <= Len(final_targets)
        BY <1>1, <1>6 DEF CannotEnter, TopIsAt, HasNext
    <2>2. QED
        BY <1>4, <2>1
<1>7. CASE AskPkgbuild \/ AskDotinstall
    <2>1. /\ \/ \E to \in {"edit_dotinstall", "fork PKGBUILD", "fork_pacman", "fork .install"} :
                GoOn(Front(procs), Last(procs), to)
             \/ Return(Front(procs), Last(procs), "abort")
          /\ made' = made /\ Top.pc \in {"ask PKGBUILD", "ask .install"}
        BY <1>1, <1>7 DEF AskPkgbuild, AskDotinstall, Ask, TopIsAt
    <2>2. \A to \in {"edit_dotinstall", "fork PKGBUILD", "fork_pacman", "fork .install"} :
            to \in Labels /\ IsPlain(to)
        BY DEF Labels, IsPlain
    <2>3. QED
        BY <1>3, <1>4, <2>1, <2>2
<1>8. CASE EditDotinstall
    <2>1. /\ \E to \in {"ask .install", "fork_pacman"} : GoOn(Front(procs), Last(procs), to)
          /\ made' = made /\ Top.pc = "edit_dotinstall"
        BY <1>1, <1>8 DEF EditDotinstall, TopIsAt
    <2>2. \A to \in {"ask .install", "fork_pacman"} : to \in Labels /\ IsPlain(to)
        BY DEF Labels, IsPlain
    <2>3. QED
        BY <1>3, <2>1, <2>2
<1>9. CASE Confirm
    <2>1. /\ \/ GoOn(Front(procs), Last(procs), "fork makepkg")
             \/ Return(Front(procs), Last(procs), "abort")
          /\ made' = made /\ Top.pc = "fork_pacman"
        BY <1>1, <1>9 DEF Confirm, TopIsAt
    <2>2. "fork makepkg" \in Labels /\ IsPlain("fork makepkg")
        BY DEF Labels, IsPlain
    <2>3. QED
        BY <1>3, <1>4, <2>1, <2>2
<1>10. CASE Killed
    BY <1>10, BuiltEnds DEF Killed, TopIsAt
<1>11. CASE ForkFails
    <2>1. /\ Return(Front(procs), Last(procs), "editor fails") /\ made' = made
          /\ Top.pc \notin {"exited", "killed", "makepkg", "topo_install"}
        BY <1>1, <1>11 DEF ForkFails, TopIsAt
    <2>2. QED
        BY <1>4, <2>1
<1>12. CASE ForkPkgbuildEditor
    <2>1. /\ IsPlain("edits PKGBUILD") /\ IsPlain("edit_dotinstall") /\ IsPlain("wait PKGBUILD")
          /\ {"edits PKGBUILD", "edit_dotinstall", "wait PKGBUILD"} \subseteq Labels
        BY DEF IsPlain, Labels
    <2>2. WaitsForMakepkg(procs')
        BY <1>12, <2>1, BuiltForks DEF ForkPkgbuildEditor
    <2>3. QED
        BY <1>12, <2>2, ReportGrows DEF ForkPkgbuildEditor, Fork
<1>13. CASE ForkDotinstallEditor
    <2>1. /\ IsPlain("edits .install") /\ IsPlain("fork_pacman") /\ IsPlain("wait .install")
          /\ {"edits .install", "fork_pacman", "wait .install"} \subseteq Labels
        BY DEF IsPlain, Labels
    <2>2. WaitsForMakepkg(procs')
        BY <1>13, <2>1, BuiltForks DEF ForkDotinstallEditor
    <2>3. QED
        BY <1>13, <2>2, ReportGrows DEF ForkDotinstallEditor, Fork
<1>14. CASE ForkMakepkg
    <2>1. WaitsForMakepkg(procs')
        BY <1>14, BuiltForks DEF ForkMakepkg, IsPlain, Labels
    <2>2. QED
        BY <1>14, <2>1, ReportGrows DEF ForkMakepkg, Fork
<1>15. CASE EditorEnds
    BY <1>15, BuiltEnds DEF EditorEnds, TopIsAt
<1>16. CASE MakepkgEnds
    BY <1>16, BuiltEnds DEF MakepkgEnds
<1>17. CASE Cleanup
    BY <1>1, <1>17, PlainPrograms DEF Cleanup, TopIsAt
<1>18. CASE Exit
    BY <1>18, BuiltEnds DEF Exit, TopIsAt
<1>19. QED
    BY <1>5, <1>6, <1>7, <1>8, <1>9, <1>10, <1>11, <1>12, <1>13, <1>14, <1>15, <1>16,
       <1>17, <1>18 DEF InstallStep

\* sync.c:51, "returns 0 if installation is successful": when makepkg can be
\* executed, what the first powaur takes for built was built by makepkg, also
\* when a second powaur that an editor's failing exec left behind built it.
THEOREM ReportsAreTrue == InstallSpec => []ReportedIsBuilt
<1>1. ASSUME InstallInit PROVE BuiltInv
    <2>1. Len(procs) = 1 /\ procs[1].pc = "topo_install" /\ Len(results) = 0
        BY <1>1 DEF InstallInit
    <2>2. IsPlain("topo_install")
        BY DEF IsPlain
    <2>3. WaitsForMakepkg(procs)
        BY <2>1, <2>2 DEF WaitsForMakepkg
    <2>4. IsReported(results, made)
        BY <2>1 DEF IsReported
    <2>5. QED
        BY <2>3, <2>4 DEF BuiltInv
<1>2. ASSUME IInv, BuiltInv, [InstallStep]_installVars
      PROVE  BuiltInv'
    <2>1. makepkgRuns' = makepkgRuns
        BY <1>2, GivenVarsStay DEF givenVars
    <2>2. CASE InstallStep
        BY <1>2, <2>1, <2>2, BuiltStep DEF BuiltInv
    <2>3. CASE UNCHANGED installVars
        BY <1>2, <2>1, <2>3 DEF installVars, BuiltInv
    <2>4. QED
        BY <1>2, <2>2, <2>3
<1>3. BuiltInv => ReportedIsBuilt
    BY DEF BuiltInv, IsReported, ReportedIsBuilt
<1>4. QED
    BY <1>1, <1>2, <1>3, IInvHolds, PTL DEF InstallSpec

-----------------------------------------------------------------------------
(* With editors and makepkg that can be executed.                          *)

\* The program a process waits for.
ProgramOf(pc) ==
    CASE pc = "wait PKGBUILD" -> "edits PKGBUILD"
      [] pc = "wait .install" -> "edits .install"
      [] pc = "wait makepkg" -> "makepkg"
      [] OTHER -> "cleanup"

\* What was built stands before the package p has reached.
BuiltBefore(p, built) ==
    \A n \in built : \E k \in 1..(p.nextTarget - 1) : final_targets[k] = n

\* powaur is alone; after an abort it has nothing left to do.
IsAlone(ps, gaveUp, built) ==
    \E p \in Process :
        /\ ps = <<p>> /\ IsAtHome(p) /\ BuiltBefore(p, built)
        /\ p.pc \in (Inside \cup Over) \ Waits
        /\ gaveUp => \/ p.pc \in {"exited", "killed"}
                     \/ p.pc = "topo_install" /\ p.nextTarget > Len(final_targets)

\* powaur waits for an editor or makepkg.
HasProgram(ps, gaveUp, built) ==
    \E p, c \in Process :
        /\ ps = <<p, c>> /\ IsAtHome(p) /\ BuiltBefore(p, built)
        /\ p.pc \in Waits /\ c.pc = ProgramOf(p.pc) /\ c.nextTarget = p.nextTarget
        /\ ~gaveUp

WorksInv == Works => IsAlone(procs, aborted, made) \/ HasProgram(procs, aborted, made)

LEMMA Alone ==
    ASSUME NEW p \in Process
    PROVE  <<p>> # <<>> /\ Front(<<p>>) = <<>> /\ Last(<<p>>) = p
<1>1. <<p>> \in Seq(Process) /\ <<p>> # <<>> /\ Len(<<p>>) = 1 /\ <<p>>[1] = p
    OBVIOUS
<1>2. Front(<<p>>) \in Seq(Process) /\ Len(Front(<<p>>)) = 1 - 1 /\ Last(<<p>>) = p
    BY <1>1, Tops
<1>3. QED
    BY <1>1, <1>2

LEMMA Two ==
    ASSUME NEW p \in Process, NEW c \in Process
    PROVE  Front(<<p, c>>) = <<p>> /\ Last(<<p, c>>) = c
<1> DEFINE s == <<p, c>>
<1>1. s \in Seq(Process) /\ s # <<>> /\ Len(s) = 2 /\ s[1] = p /\ s[2] = c
    OBVIOUS
<1> HIDE DEF s
<1>2. /\ Front(s) \in Seq(Process) /\ Len(Front(s)) = 2 - 1
      /\ \A i \in 1..(2 - 1) : Front(s)[i] = s[i]
      /\ Last(s) = c
    BY <1>1, Tops
<1>3. Front(s) = <<p>>
    BY <1>1, <1>2
<1>4. QED
    BY <1>2, <1>3 DEF s

\* powaur alone goes on, or returns.
LEMMA AloneGoesOn ==
    ASSUME NEW p \in Process, IsAtHome(p), BuiltBefore(p, made), p.pc \in Inside,
           NEW pc \in Inside \ Waits, GoOn(<<>>, p, pc)
    PROVE  IsAlone(procs', FALSE, made)
<1> DEFINE q == [p EXCEPT !.pc = pc]
<1>1. pc \in Labels /\ pc \notin Over /\ p.pc \notin Over
    BY DEF Inside
<1>2. q \in Process /\ q.pc = pc /\ q.nextTarget = p.nextTarget /\ q.cwd = p.cwd
    BY <1>1 DEF Process
<1>3. procs' = <<q>>
    BY DEF GoOn
<1> HIDE DEF q
<1>4. IsAtHome(q) /\ BuiltBefore(q, made)
    BY <1>1, <1>2 DEF IsAtHome, BuiltBefore
<1>5. QED
    BY <1>2, <1>3, <1>4 DEF IsAlone

LEMMA AloneReturns ==
    ASSUME final_targets \in Lists, NEW p \in Process, IsAtHome(p), NEW built,
           BuiltBefore(p, made), built \subseteq made \cup {Package(p)},
           p.nextTarget <= Len(final_targets), p.pc \notin {"exited", "killed"},
           NEW outcome, Return(<<>>, p, outcome)
    PROVE  /\ IsAlone(procs', FALSE, built)
           /\ outcome = "abort" => IsAlone(procs', TRUE, built)
<1> DEFINE q == Returned(p, outcome)
<1>1. /\ q.pc = "topo_install"
      /\ q.nextTarget = IF outcome \in {"abort", "lost"} THEN Len(final_targets) + 1
                        ELSE p.nextTarget + 1
    BY DEF Returned
<1>2. IsAtHome(q) /\ q \in Process
    BY ReturnsUp DEF IsAtHome
<1>3. procs' = <<q>>
    BY DEF Return
<1> HIDE DEF q
<1>4. Len(final_targets) \in Nat /\ p.nextTarget \in Nat \ {0}
    BY InstallAssumption DEF Process
<1>5. q.nextTarget - 1 >= p.nextTarget /\ q.nextTarget \in Nat
    BY <1>1, <1>4
<1>6. BuiltBefore(q, built)
    <2> SUFFICES ASSUME NEW n \in built
                 PROVE  \E k \in 1..(q.nextTarget - 1) : final_targets[k] = n
        BY DEF BuiltBefore
    <2>1. CASE n \in made
        <3>1. PICK k \in 1..(p.nextTarget - 1) : final_targets[k] = n
            BY <2>1 DEF BuiltBefore
        <3>2. k \in 1..(q.nextTarget - 1)
            BY <1>4, <1>5
        <3>3. QED
            BY <3>1, <3>2
    <2>2. CASE n = Package(p)
        <3>1. p.nextTarget \in 1..(q.nextTarget - 1) /\ final_targets[p.nextTarget] = n
            BY <1>4, <1>5, <2>2 DEF Package
        <3>2. QED
            BY <3>1
    <2>3. QED
        BY <2>1, <2>2
<1>7. outcome = "abort" => q.nextTarget > Len(final_targets)
    <2>1. outcome = "abort" => q.nextTarget = Len(final_targets) + 1
        BY <1>1
    <2>2. QED
        BY <1>4, <2>1
<1>8. q.pc \in (Inside \cup Over) \ Waits
    BY <1>1 DEF Over, Waits
<1>9. QED
    BY <1>1, <1>2, <1>3, <1>6, <1>7, <1>8 DEF IsAlone

LEMMA AloneEnds ==
    ASSUME NEW p \in Process, IsAtHome(p), BuiltBefore(p, made),
           NEW pc \in {"exited", "killed"}, GoOn(<<>>, p, pc), NEW gaveUp
    PROVE  IsAlone(procs', gaveUp, made)
<1> DEFINE q == [p EXCEPT !.pc = pc]
<1>1. q \in Process /\ q.pc = pc /\ q.nextTarget = p.nextTarget /\ q.cwd = p.cwd
    BY DEF Process, Labels
<1>2. procs' = <<q>>
    BY DEF GoOn
<1> HIDE DEF q
<1>3. IsAtHome(q) /\ BuiltBefore(q, made)
    BY <1>1 DEF IsAtHome, BuiltBefore, Over
<1>4. q.pc \in (Inside \cup Over) \ Waits
    BY <1>1 DEF Over, Waits
<1>5. QED
    BY <1>1, <1>2, <1>3, <1>4 DEF IsAlone

LEMMA AloneForks ==
    ASSUME NEW p \in Process, IsAtHome(p), BuiltBefore(p, made), procs = <<p>>,
           p.pc \in Inside, NEW label, NEW wait \in Waits, NEW program \in Labels, NEW runs,
           NEW otherwise, runs = TRUE, program = ProgramOf(wait),
           Fork(label, wait, program, runs, otherwise)
    PROVE  HasProgram(procs', FALSE, made)
<1> DEFINE w == [p EXCEPT !.pc = wait]
           c == [p EXCEPT !.pc = program]
<1>1. Top = p /\ Below = <<>>
    BY Alone DEF Top, Below
<1>2. wait \in Labels /\ wait \notin Over /\ p.pc \notin Over
    BY DEF Waits, Labels, Over, Inside
<1>3. /\ w \in Process /\ w.pc = wait /\ w.nextTarget = p.nextTarget /\ w.cwd = p.cwd
      /\ c \in Process /\ c.pc = program /\ c.nextTarget = p.nextTarget
    BY <1>2 DEF Process
<1>4. procs' = <<>> \o <<w, c>>
    BY <1>1 DEF Fork
<1> HIDE DEF w, c
<1>5. procs' = <<w, c>>
    BY <1>3, <1>4
<1>6. IsAtHome(w) /\ BuiltBefore(w, made)
    BY <1>2, <1>3 DEF IsAtHome, BuiltBefore
<1>7. QED
    BY <1>3, <1>5, <1>6 DEF HasProgram

LEMMA AloneStep ==
    ASSUME IInv, Works, IsAlone(procs, aborted, made), InstallStep
    PROVE  IsAlone(procs', aborted', made') \/ HasProgram(procs', aborted', made')
<1>1. PICK p \in Process :
        /\ procs = <<p>> /\ IsAtHome(p) /\ BuiltBefore(p, made)
        /\ p.pc \in (Inside \cup Over) \ Waits
        /\ aborted => \/ p.pc \in {"exited", "killed"}
                      \/ p.pc = "topo_install" /\ p.nextTarget > Len(final_targets)
    BY DEF IsAlone
<1>2. /\ Top = p /\ Below = <<>> /\ final_targets \in Lists /\ aborted \in BOOLEAN
      /\ editorRuns = TRUE /\ makepkgRuns = TRUE
    BY <1>1, Alone DEF Top, Below, IInv, Given, Works
<1>3. /\ p.nextTarget \in Nat \ {0} /\ Len(final_targets) \in Nat
      /\ p.nextTarget <= Len(final_targets) => ~(p.nextTarget > Len(final_targets))
    BY <1>2, InstallAssumption DEF Process
<1>4. p.pc \in Inside => ~aborted /\ p.nextTarget <= Len(final_targets)
    BY <1>1 DEF Inside, Over, IsAtHome
<1>5. ASSUME p.pc \in Inside, NEW to \in Inside \ Waits, GoOn(<<>>, p, to),
             made' = made, aborted' = aborted
      PROVE  IsAlone(procs', aborted', made')
    BY <1>1, <1>2, <1>4, <1>5, AloneGoesOn
<1>6. ASSUME p.pc \in Inside, NEW outcome, Return(<<>>, p, outcome),
             made' = made, aborted' = aborted \/ (outcome = "abort" /\ aborted' = TRUE)
      PROVE  IsAlone(procs', aborted', made')
    <2>1. ~aborted /\ p.nextTarget <= Len(final_targets) /\ p.pc \notin {"exited", "killed"}
        BY <1>4, <1>6 DEF Inside, Over
    <2>2. /\ IsAlone(procs', FALSE, made)
          /\ outcome = "abort" => IsAlone(procs', TRUE, made)
        BY <1>1, <1>2, <1>6, <2>1, AloneReturns
    <2>3. QED
        BY <1>2, <1>6, <2>1, <2>2
<1>7. CASE EnterDirectory
    <2> DEFINE q == [p EXCEPT !.cwd = Package(p),
                              !.pc = IF noconfirm THEN "fork_pacman" ELSE "ask PKGBUILD"]
    <2>1. /\ procs' = Append(<<>>, q) /\ made' = made /\ aborted' = aborted
          /\ p.pc = "topo_install" /\ p.nextTarget <= Len(final_targets)
        BY <1>2, <1>7 DEF EnterDirectory, TopIsAt, HasNext
    <2>2. p.nextTarget \in 1..Len(final_targets) /\ final_targets \in Seq(Names)
        BY <1>2, <1>3, <2>1, InstallAssumption
    <2>3. Package(p) \in Names /\ Package(p) = final_targets[p.nextTarget]
        BY <2>2 DEF Package
    <2>4. /\ q \in Process /\ q.nextTarget = p.nextTarget /\ q.cwd = Package(p)
          /\ q.pc \in {"fork_pacman", "ask PKGBUILD"}
        BY <2>3 DEF Process, Labels
    <2>5. ~aborted
        <3>1. p.pc \notin {"exited", "killed"} /\ ~(p.nextTarget > Len(final_targets))
            BY <1>3, <2>1
        <3>2. QED
            BY <1>1, <3>1
    <2> HIDE DEF q
    <2>6. procs' = <<q>>
        BY <2>1
    <2>7. q.pc \in (Inside \cup Over) \ Waits
        BY <2>4 DEF Inside, Labels, Over, Programs, Waits
    <2>8. IsAtHome(q) /\ BuiltBefore(q, made)
        BY <1>1, <2>1, <2>3, <2>4 DEF IsAtHome, BuiltBefore
    <2>9. QED
        BY <2>1, <2>4, <2>5, <2>6, <2>7, <2>8 DEF IsAlone
<1>8. CASE CannotEnter
    <2>1. /\ Return(<<>>, p, "no directory") /\ made' = made /\ aborted' = aborted
          /\ p.pc = "topo_install" /\ p.nextTarget <= Len(final_targets)
        BY <1>2, <1>8 DEF CannotEnter, TopIsAt, HasNext
    <2>2. ~aborted
        <3>1. p.pc \notin {"exited", "killed"} /\ ~(p.nextTarget > Len(final_targets))
            BY <1>3, <2>1
        <3>2. QED
            BY <1>1, <3>1
    <2>3. IsAlone(procs', FALSE, made)
        BY <1>1, <1>2, <2>1, AloneReturns
    <2>4. QED
        BY <1>2, <2>1, <2>2, <2>3
<1>9. CASE AskPkgbuild \/ AskDotinstall
    <2>1. /\ \/ /\ \E to \in {"edit_dotinstall", "fork PKGBUILD", "fork_pacman",
                              "fork .install"} : GoOn(<<>>, p, to)
                /\ aborted' = aborted
             \/ Return(<<>>, p, "abort") /\ aborted' = TRUE
          /\ made' = made /\ p.pc \in {"ask PKGBUILD", "ask .install"}
        BY <1>2, <1>9 DEF AskPkgbuild, AskDotinstall, Ask, TopIsAt
    <2>2. /\ {"edit_dotinstall", "fork PKGBUILD", "fork_pacman", "fork .install"}
                \subseteq Inside \ Waits
          /\ p.pc \in Inside
        BY <2>1 DEF Labels, Inside, Waits, Over, Programs
    <2>3. QED
        BY <1>5, <1>6, <2>1, <2>2
<1>10. CASE EditDotinstall
    <2>1. /\ \E to \in {"ask .install", "fork_pacman"} : GoOn(<<>>, p, to)
          /\ made' = made /\ aborted' = aborted /\ p.pc = "edit_dotinstall"
        BY <1>2, <1>10 DEF EditDotinstall, TopIsAt
    <2>2. {"ask .install", "fork_pacman"} \subseteq Inside \ Waits /\ p.pc \in Inside
        BY <2>1 DEF Labels, Inside, Waits, Over, Programs
    <2>3. QED
        BY <1>5, <2>1, <2>2
<1>11. CASE Confirm
    <2>1. /\ \/ GoOn(<<>>, p, "fork makepkg") /\ aborted' = aborted
             \/ Return(<<>>, p, "abort") /\ aborted' = TRUE
          /\ made' = made /\ p.pc = "fork_pacman"
        BY <1>2, <1>11 DEF Confirm, TopIsAt
    <2>2. "fork makepkg" \in Inside \ Waits /\ p.pc \in Inside
        BY <2>1 DEF Labels, Inside, Waits, Over, Programs
    <2>3. QED
        BY <1>5, <1>6, <2>1, <2>2
<1>12. CASE Killed \/ Exit
    <2>1. /\ \E to \in {"exited", "killed"} : GoOn(<<>>, p, to)
          /\ made' = made
        BY <1>2, <1>12 DEF Killed, Exit, Ends
    <2>2. QED
        BY <1>1, <2>1, AloneEnds
<1>13. CASE ForkFails
    <2>1. /\ Return(<<>>, p, "editor fails") /\ made' = made /\ aborted' = aborted
          /\ p.pc \in Inside
        BY <1>2, <1>13 DEF ForkFails, TopIsAt, Labels, Inside, Over, Programs
    <2>2. QED
        BY <1>6, <2>1
<1>14. CASE ForkPkgbuildEditor \/ ForkDotinstallEditor \/ ForkMakepkg
    <2>1. /\ p.pc \in Inside /\ made' = made /\ aborted' = aborted
          /\ {"edits PKGBUILD", "edits .install", "makepkg"} \subseteq Labels
          /\ {"wait PKGBUILD", "wait .install", "wait makepkg"} \subseteq Waits
          /\ ProgramOf("wait PKGBUILD") = "edits PKGBUILD"
          /\ ProgramOf("wait .install") = "edits .install"
          /\ ProgramOf("wait makepkg") = "makepkg"
        BY <1>2, <1>14 DEF ForkPkgbuildEditor, ForkDotinstallEditor, ForkMakepkg, Fork, TopIsAt,
            Labels, Inside, Over, Programs, Waits, ProgramOf
    <2>2. HasProgram(procs', FALSE, made)
        <3>1. CASE ForkPkgbuildEditor
            BY <1>1, <1>2, <2>1, <3>1, AloneForks DEF ForkPkgbuildEditor
        <3>2. CASE ForkDotinstallEditor
            BY <1>1, <1>2, <2>1, <3>2, AloneForks DEF ForkDotinstallEditor
        <3>3. CASE ForkMakepkg
            BY <1>1, <1>2, <2>1, <3>3, AloneForks DEF ForkMakepkg
        <3>4. QED
            BY <1>14, <3>1, <3>2, <3>3
    <2>3. QED
        BY <1>2, <1>4, <2>1, <2>2
<1>15. CASE EditorEnds \/ MakepkgEnds \/ Cleanup
    BY <1>1, <1>2, <1>15 DEF EditorEnds, MakepkgEnds, Cleanup, TopIsAt, Inside, Over, Programs
<1>16. QED
    BY <1>7, <1>8, <1>9, <1>10, <1>11, <1>12, <1>13, <1>14, <1>15 DEF InstallStep

LEMMA ProgramStep ==
    ASSUME IInv, Works, HasProgram(procs, aborted, made), InstallStep
    PROVE  IsAlone(procs', aborted', made')
<1>1. PICK p \in Process, c \in Process :
        /\ procs = <<p, c>> /\ IsAtHome(p) /\ BuiltBefore(p, made)
        /\ p.pc \in Waits /\ c.pc = ProgramOf(p.pc) /\ c.nextTarget = p.nextTarget
        /\ ~aborted
    BY DEF HasProgram
<1>2. /\ Top = c /\ Below = <<p>> /\ Front(Below) = <<>> /\ Last(Below) = p /\ Below # <<>>
      /\ final_targets \in Lists /\ aborted = FALSE
    BY <1>1, Two, Alone DEF Top, Below, IInv, Given
<1>3. c.pc \in Programs /\ p.pc \in Inside
    BY <1>1 DEF Waits, ProgramOf, Programs, Inside, Labels, Over
<1>4. p.nextTarget <= Len(final_targets) /\ p.pc \notin {"exited", "killed"}
    BY <1>1, <1>3 DEF IsAtHome, Inside, Over
<1>5. EditorEnds \/ MakepkgEnds
    BY <1>2, <1>3 DEF InstallStep, EnterDirectory, CannotEnter, AskPkgbuild, AskDotinstall, Ask,
        EditDotinstall, Confirm, Killed, ForkFails, ForkPkgbuildEditor, ForkDotinstallEditor,
        ForkMakepkg, Fork, Cleanup, Exit, TopIsAt, Programs
<1>6. CASE EditorEnds
    <2>1. /\ \E code \in {"ok", "failed"} : Resume(<<>>, p, code)
          /\ made' = made /\ aborted' = aborted /\ p.pc # "wait makepkg"
        BY <1>1, <1>2, <1>6 DEF EditorEnds, Ends, TopIsAt, ProgramOf
    <2>2. \/ \E to \in {"edit_dotinstall", "fork_pacman"} : GoOn(<<>>, p, to)
          \/ Return(<<>>, p, "editor fails")
        BY <1>1, <2>1 DEF Resume, Waits
    <2>3. {"edit_dotinstall", "fork_pacman"} \subseteq Inside \ Waits
        BY DEF Inside, Labels, Over, Programs, Waits
    <2>4. CASE \E to \in {"edit_dotinstall", "fork_pacman"} : GoOn(<<>>, p, to)
        BY <1>1, <1>2, <1>3, <2>1, <2>3, <2>4, AloneGoesOn
    <2>5. CASE Return(<<>>, p, "editor fails")
        <3>1. IsAlone(procs', FALSE, made)
            BY <1>1, <1>2, <1>4, <2>5, AloneReturns
        <3>2. QED
            BY <1>2, <2>1, <3>1
    <2>6. QED
        BY <2>2, <2>4, <2>5
<1>7. CASE MakepkgEnds
    <2>1. /\ \E code \in {"ok", "failed"} : Resume(<<>>, p, code)
          /\ made' \subseteq made \cup {Package(p)} /\ aborted' = aborted
          /\ p.pc = "wait makepkg"
        BY <1>1, <1>2, <1>7 DEF MakepkgEnds, Ends, TopIsAt, ProgramOf, Waits, Package
    <2>2. \E outcome : Return(<<>>, p, outcome)
        BY <2>1 DEF Resume
    <2>3. IsAlone(procs', FALSE, made')
        BY <1>1, <1>2, <1>4, <2>1, <2>2, AloneReturns
    <2>4. QED
        BY <1>2, <2>1, <2>3
<1>8. QED
    BY <1>5, <1>6, <1>7

LEMMA WorksInvHolds == InstallSpec => []WorksInv
<1>1. ASSUME InstallInit PROVE WorksInv
    <2> DEFINE p == [nextTarget |-> 1, pc |-> "topo_install", cwd |-> NULL]
    <2>1. p \in Process /\ p.nextTarget = 1 /\ p.pc = "topo_install"
        BY DEF Process, Labels
    <2>2. Len(final_targets) \in Nat
        BY <1>1, InstallAssumption DEF InstallInit
    <2>3. IsAtHome(p)
        BY <2>1, <2>2 DEF IsAtHome, Over
    <2>4. procs = <<p>> /\ made = {} /\ ~aborted
        BY <1>1 DEF InstallInit
    <2> HIDE DEF p
    <2>5. IsAlone(procs, aborted, made)
        BY <2>1, <2>3, <2>4 DEF IsAlone, BuiltBefore, Over, Waits
    <2>6. QED
        BY <2>5 DEF WorksInv
<1>2. ASSUME IInv, WorksInv, [InstallStep]_installVars
      PROVE  WorksInv'
    <2>1. UNCHANGED givenVars
        BY <1>2, GivenVarsStay
    <2>2. CASE InstallStep
        BY <1>2, <2>1, <2>2, AloneStep, ProgramStep
           DEF WorksInv, Works, IsAlone, HasProgram, IsAtHome, BuiltBefore, givenVars
    <2>3. CASE UNCHANGED installVars
        BY <1>2, <2>1, <2>3 DEF installVars, givenVars, WorksInv, Works, IsAlone, HasProgram,
            IsAtHome, BuiltBefore
    <2>4. QED
        BY <1>2, <2>2, <2>3
<1>3. QED
    BY <1>1, <1>2, IInvHolds, PTL DEF InstallSpec

\* sync.c:83, "Abort, propagate upwards": when editors and makepkg can be
\* executed, no powaur asks anything or runs a program once the user has
\* aborted or declined, however many packages are left.
THEOREM AbortIsFinal == InstallSpec => []AbortStops
<1>1. ASSUME IInv, WorksInv PROVE AbortStops
    <2> SUFFICES ASSUME Works, aborted
                 PROVE  Top.pc \notin {"ask PKGBUILD", "edits PKGBUILD", "ask .install",
                                       "edits .install", "fork_pacman", "makepkg"}
        BY DEF AbortStops
    <2>1. PICK p \in Process :
            procs = <<p>> /\ p.pc \in {"exited", "killed", "topo_install"}
        BY <1>1 DEF WorksInv, IsAlone, HasProgram
    <2>2. Top = p
        BY <2>1, Alone DEF Top
    <2>3. QED
        BY <2>1, <2>2
<1>2. QED
    BY <1>1, IInvHolds, WorksInvHolds, PTL

\* When editors and makepkg can be executed, makepkg is run in the order of the
\* list, and never again for a package it has built.
THEOREM MakepkgInOrder == InstallSpec => []BuildsInOrder
<1>1. ASSUME IInv, WorksInv PROVE BuildsInOrder
    <2> SUFFICES ASSUME Works, NEW n \in Names, IsBuilding(n),
                        NEW k \in Top.nextTarget..Len(final_targets),
                        final_targets[k] \in made
                 PROVE  FALSE
        BY DEF BuildsInOrder
    <2>1. ~IsAlone(procs, aborted, made)
        BY Alone DEF IsAlone, IsBuilding, TopIsAt, Top, Inside, Over, Programs
    <2>2. PICK p \in Process, c \in Process :
            /\ procs = <<p, c>> /\ IsAtHome(p) /\ BuiltBefore(p, made)
            /\ c.nextTarget = p.nextTarget
        BY <1>1, <2>1 DEF WorksInv, HasProgram
    <2>3. Top.nextTarget = p.nextTarget /\ p.nextTarget \in Nat \ {0}
        BY <2>2, Two DEF Top, Process
    <2>4. PICK j \in 1..(p.nextTarget - 1) : final_targets[j] = final_targets[k]
        BY <2>2 DEF BuiltBefore
    <2>5. final_targets \in Seq(Names) /\ IsInjective(final_targets)
        BY <1>1, InstallAssumption, NoPackageTwice DEF IInv, Given
    <2>6. j \in 1..Len(final_targets) /\ k \in 1..Len(final_targets) /\ j # k
        BY <2>3, <2>5
    <2>7. DOMAIN final_targets = 1..Len(final_targets)
        BY <2>5
    <2>8. QED
        BY <2>4, <2>5, <2>6, <2>7 DEF IsInjective
<1>2. QED
    BY <1>1, IInvHolds, WorksInvHolds, PTL
=============================================================================
