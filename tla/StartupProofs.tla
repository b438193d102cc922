---------------------------- MODULE StartupProofs ----------------------------
(* What powaur has read when it starts an operation, for every pacman.conf,  *)
(* every powaur.conf and every command line, and whatever fails on the way.  *)
EXTENDS Startup, FiniteSetTheorems, SequenceTheorems, TLAPS

-----------------------------------------------------------------------------
(* The inductive invariant.                                                *)

InputOK ==
    /\ input.pm \in File(PmLine)
    /\ input.xdg \in File(ConfLine)
    /\ input.home \in File(ConfLine)
    /\ input.argv \in Seq(Arg)
    /\ input.tty \in BOOLEAN

ConfigOK == config \in ConfigType

\* s is what is left of list when n elements have been read.
IsRest(s, list, n) ==
    /\ Len(list) = n + Len(s)
    /\ \A k \in 1..Len(s) : s[k] = list[n + k]

Over == pc \in {"cleanup", "exit"}

(* pacman.conf, of which n lines have been read.                           *)
PmLines == input.pm.lines
OptionsSection == [line |-> "section", name |-> "options"]
Official == [key \in Options |-> Gives(key, FALSE)]
Commented == [key \in Options |-> Gives(key, TRUE)]

SectionsInv(n) ==
    /\ pm.inOptions <=> InOptions(n + 1)
    /\ pm.parsedOptions <=> \E k \in 1..n : PmLines[k] = OptionsSection
    /\ \A j, k \in 1..n :
          PmLines[j] = OptionsSection /\ PmLines[k] = OptionsSection => j = k
    /\ \A k \in 1..n : PmLines[k].line = "section" =>
          PmLines[k].name \in {"options"} \cup ToSet(pm.syncdbs)
    /\ IsInjective(pm.syncdbs) =>
          \A j, k \in 1..n :
              /\ PmLines[j].line = "section" /\ PmLines[j].name \in Repos
              /\ PmLines[j] = PmLines[k]
              => j = k

\* Once a key has its official value, commented lines are not looked at.
FlagsInv(n) ==
    \A key \in Options :
        /\ key \in pm.official <=> Official[key] \cap 1..n # {}
        /\ \A j, k \in Official[key] \cap 1..n : j = k
        /\ key \notin pm.official =>
              (key \in pm.commented <=> Commented[key] \cap 1..n # {})

ValuesInv(n) ==
    /\ DOMAIN pacman = Options
    /\ \A key \in Options : ~(key = "CacheDir" /\ HasEmptyCacheDir) =>
          IF key \in pm.official
          THEN \E k \in Official[key] \cap 1..n : pacman[key] = PmLines[k].value
          ELSE IF key \in pm.commented
          THEN \E k \in Commented[key] \cap 1..n :
                  /\ pacman[key] = PmLines[k].value
                  /\ \A j \in Commented[key] \cap 1..n : k <= j
          ELSE pacman[key] = <<>>

\* What the values are in the end.
PacmanValues ==
    \A key \in Options : ~(key = "CacheDir" /\ HasEmptyCacheDir) =>
        IF Official[key] # {}
        THEN \E k \in Official[key] : pacman[key] = PmLines[k].value
        ELSE IF Commented[key] # {}
        THEN \E k \in Commented[key] :
                pacman[key] = PmLines[k].value /\ \A j \in Commented[key] : k <= j
        ELSE pacman[key] = DefaultOf(key)

\* The file is read in its order, and is what decides once it has been read.
PacmanInv ==
    /\ pm \in PmType
    /\ pc = "pacman.conf" =>
          /\ lines \in Seq(PmLine)
          /\ \E n \in 0..Len(PmLines) :
                IsRest(lines, PmLines, n) /\ SectionsInv(n) /\ FlagsInv(n) /\ ValuesInv(n)
    /\ pc # "pacman.conf" /\ ~Over =>
          SectionsInv(Len(PmLines)) /\ FlagsInv(Len(PmLines)) /\ PacmanValues
    /\ pc \notin {"pacman.conf", "alpm"} /\ ~Over => IsInjective(pm.syncdbs)

(* powaur.conf, of which n lines have been read.                           *)
Limits == LinesOf("MaxThreads")
Ons == LinesWith("Color", {"On"})
Offs == LinesWith("Color", {"Off"})
Confirms == LinesWith("NoConfirm", {"On"})
Switches == LinesWith("NoConfirm", {"On", "Off"})

\* The last line counts, a number out of range like none.
LimitInv(n) ==
    \/ \E k \in Limits \cap 1..n :
          /\ \A j \in Limits \cap 1..n : j <= k
          /\ powaur_maxthreads = InRange(ConfLines[k].n)
    \/ Limits \cap 1..n = {} /\ powaur_maxthreads = 0
LimitCopied ==
    \/ \E k \in Limits :
          /\ \A j \in Limits : j <= k
          /\ ConfLines[k].n \in 1..MaxThreads /\ config.maxthreads = ConfLines[k].n
    \/ /\ config.maxthreads = MaxThreads
       /\ \A k \in Limits : (\A j \in Limits : j <= k) => ConfLines[k].n \notin 1..MaxThreads

SwitchInv(n) ==
    config.noconfirm <=> \E k \in Confirms \cap 1..n : \A j \in Switches \cap 1..n : j <= k

\* Off takes nothing from 0: the count is the lines' while it stays in range.
ColorInv(n) == CountsColours => config.color = ColoursTo(n) % UShortRange
FileColours == ColoursTo(Len(ConfLines))

ConfInv ==
    /\ pc \in {"pacman.conf", "alpm"} =>
          config.color = 1 /\ ~config.noconfirm /\ powaur_maxthreads = 0
    /\ pc = "powaur.conf" =>
          /\ lines \in Seq(ConfLine)
          /\ \E n \in 0..Len(ConfLines) :
                IsRest(lines, ConfLines, n) /\ LimitInv(n) /\ SwitchInv(n) /\ ColorInv(n)
    /\ pc \in {"directory", "operation"} => SwitchInv(Len(ConfLines)) /\ ColorInv(Len(ConfLines))
    /\ pc \in {"directory", "operation", "options", "run"} => LimitCopied

(* The command line, of which n arguments have been read.                  *)
AllowedOpts == Operations \cup Infos \cup OptionsOf(config.op) \cup GlobalOptions
Has(opt, n) == \E k \in 1..n : input.argv[k].opt = opt

OperationInv(n) ==
    \/ config.op = "main" /\ OperationsGiven \cap 1..n = {}
    \/ \E k \in 1..n : OperationsGiven \cap 1..n = {k} /\ config.op = input.argv[k].opt
    \/ config.op = "invalid"

OneGiven ==
    \E k \in 1..Len(input.argv) : OperationsGiven = {k} /\ config.op = input.argv[k].opt
AllAllowed(n) == \A k \in 1..n : input.argv[k].opt \in AllowedOpts

ColorWith(n) ==
    (FileColours + One(Has("--color", n)) - One(Has("--nocolor", n))) % UShortRange

OptionsInv(n) ==
    /\ AllAllowed(n)
    /\ \A opt \in {"--color", "--nocolor"} : opt \in config.flags <=> Has(opt, n)
    /\ config.noconfirm <=> Has("--noconfirm", n) \/ ConfirmsNothing
    /\ CountsColours => config.color = ColorWith(n)

ArgsInv ==
    /\ pc \in {"pacman.conf", "alpm", "powaur.conf", "directory"} =>
          config.op = "main" /\ config.flags = {}
    /\ pc = "operation" =>
          /\ args \in Seq(Arg)
          /\ \E n \in 0..Len(input.argv) : IsRest(args, input.argv, n) /\ OperationInv(n)
          /\ config.flags \subseteq Infos
    /\ pc = "options" =>
          /\ args \in Seq(Arg)
          /\ \E n \in 0..Len(input.argv) : IsRest(args, input.argv, n) /\ OptionsInv(n)
          /\ OneGiven
    /\ pc = "run" =>
          /\ OneGiven /\ AllAllowed(Len(input.argv))
          /\ config.noconfirm <=> Has("--noconfirm", Len(input.argv)) \/ ConfirmsNothing
          /\ CountsColours => config.color = IF input.tty THEN ColorWith(Len(input.argv)) ELSE 0
    /\ Over /\ exit = 0 /\ "-V" \notin config.flags =>
          OneGiven /\ AllAllowed(Len(input.argv))

StartupInv ==
    /\ InputOK
    /\ pc \in Steps
    /\ ConfigOK
    /\ PacmanInv
    /\ ConfInv
    /\ ArgsInv

-----------------------------------------------------------------------------
(* Reading a list from its front.                                          *)

LEMMA RestIsAll ==
    ASSUME NEW T, NEW list \in Seq(T)
    PROVE  IsRest(list, list, 0) /\ 0 \in 0..Len(list)
BY DEF IsRest

LEMMA RestOfNothing ==
    ASSUME NEW T, NEW list \in Seq(T), NEW s, s = <<>>, NEW n \in 0..Len(list), IsRest(s, list, n)
    PROVE  n = Len(list)
BY DEF IsRest

LEMMA RestOfTail ==
    ASSUME NEW T, NEW list \in Seq(T), NEW s \in Seq(T), s # <<>>,
           NEW n \in 0..Len(list), IsRest(s, list, n)
    PROVE  /\ Tail(s) \in Seq(T) /\ IsRest(Tail(s), list, n + 1)
           /\ n \in Nat /\ n + 1 \in 1..Len(list) /\ n + 1 \in 0..Len(list)
           /\ Head(s) = list[n + 1] /\ Head(s) \in T
<1>1. /\ Len(s) > 0 /\ Tail(s) \in Seq(T) /\ Len(Tail(s)) = Len(s) - 1 /\ Head(s) = s[1]
      /\ \A k \in 1..(Len(s) - 1) : Tail(s)[k] = s[k + 1]
      /\ Head(s) \in T
    BY HeadTailProperties, EmptySeq
<1> QED
    BY <1>1 DEF IsRest

LEMMA AppendedOnce ==
    ASSUME NEW T, NEW s \in Seq(T), NEW x \in T
    PROVE  /\ ToSet(Append(s, x)) = ToSet(s) \cup {x}
           /\ IsInjective(Append(s, x)) => IsInjective(s) /\ x \notin ToSet(s)
<1> DEFINE t == Append(s, x)
<1>1. /\ \A i \in 1..Len(s) : t[i] = s[i] /\ i \in 1..(Len(s) + 1) /\ i # Len(s) + 1
      /\ t[Len(s) + 1] = x /\ Len(s) + 1 \in 1..(Len(s) + 1)
      /\ DOMAIN s = 1..Len(s) /\ DOMAIN t = 1..(Len(s) + 1)
    OBVIOUS
<1>2. ToSet(t) = ToSet(s) \cup {x}
    BY <1>1 DEF ToSet
<1>3. ASSUME IsInjective(t) PROVE IsInjective(s)
    BY <1>1, <1>3 DEF IsInjective
<1>4. ASSUME IsInjective(t) PROVE x \notin ToSet(s)
    BY <1>1, <1>4 DEF IsInjective, ToSet
<1> QED
    BY <1>2, <1>3, <1>4

-----------------------------------------------------------------------------
(* The sections and values of pacman.conf.                                 *)

\* Nothing changes the files.
LEMMA FilesStay ==
    ASSUME UNCHANGED input
    PROVE  /\ PmLines' = PmLines /\ ConfLines' = ConfLines
           /\ HasEmptyCacheDir' = HasEmptyCacheDir
           /\ \A k : InOptions(k)' = InOptions(k)
           /\ Official' = Official /\ Commented' = Commented
<1>1. PmLines' = PmLines /\ ConfLines' = ConfLines /\ HasEmptyCacheDir' = HasEmptyCacheDir
    BY DEF PmLines, ConfLines, HasEmptyCacheDir
<1>2. \A k : InOptions(k)' = InOptions(k)
    BY DEF InOptions
<1>3. \A key, comment : Gives(key, comment)' = Gives(key, comment)
    BY <1>2 DEF Gives
<1> QED
    BY <1>1, <1>2, <1>3 DEF Official, Commented

\* Whether the next line is below [options].
LEMMA NextInOptions ==
    ASSUME NEW n \in Nat
    PROVE  InOptions((n + 1) + 1) <=>
              (PmLines[n + 1] = OptionsSection
               \/ (InOptions(n + 1) /\ PmLines[n + 1].line # "section"))
<1>1. OptionsSection.line = "section"
    BY DEF OptionsSection
<1>2. CASE PmLines[n + 1] = OptionsSection
    <2>1. n + 1 \in 1..(n + 2) - 1 /\ (n + 1) + 1..(n + 2) - 1 = {}
        OBVIOUS
    <2>2. InOptions(n + 2)
        BY <1>2, <2>1 DEF InOptions, PmLines, OptionsSection
    <2> QED
        BY <1>2, <2>2
<1>3. CASE PmLines[n + 1] # OptionsSection
    <2>1. ASSUME InOptions(n + 2) PROVE InOptions(n + 1) /\ PmLines[n + 1].line # "section"
        <3>1. PICK j \in 1..(n + 2) - 1 :
                  /\ PmLines[j] = OptionsSection
                  /\ \A i \in (j + 1)..(n + 2) - 1 : PmLines[i].line # "section"
            BY <2>1 DEF InOptions, PmLines, OptionsSection
        <3>2. j \in 1..n
            BY <1>3, <3>1
        <3> QED
            BY <3>1, <3>2 DEF InOptions, PmLines, OptionsSection
    <2>2. ASSUME InOptions(n + 1), PmLines[n + 1].line # "section" PROVE InOptions(n + 2)
        BY <2>2 DEF InOptions, PmLines, OptionsSection
    <2> QED
        BY <1>3, <2>1, <2>2
<1>4. n + 2 = (n + 1) + 1
    OBVIOUS
<1> QED
    BY <1>2, <1>3, <1>4

\* The lines that give a value, with one line more.
LEMMA GivesOneMore ==
    ASSUME InputOK, NEW n \in Nat, n + 1 \in 1..Len(PmLines), NEW key \in Options
    PROVE  LET l == PmLines[n + 1]
               gives == l.line = "option" /\ InOptions(n + 1) /\ l.key = key
                           /\ l.value \notin {<<>>, NOVALUE}
           IN  /\ Official[key] \cap 1..(n + 1) =
                      (Official[key] \cap 1..n) \cup (IF gives /\ ~l.comment THEN {n + 1} ELSE {})
               /\ Commented[key] \cap 1..(n + 1) =
                      (Commented[key] \cap 1..n) \cup (IF gives /\ l.comment THEN {n + 1} ELSE {})
<1>1. PmLines[n + 1] \in PmLine
    BY DEF InputOK, File, PmLines
<1>2. PmLines[n + 1].line = "option" => PmLines[n + 1].comment \in BOOLEAN
    BY <1>1 DEF PmLine
<1> QED
    BY <1>2 DEF Official, Commented, Gives, PmLines

LEMMA GivesInAll ==
    ASSUME InputOK, NEW key \in Options
    PROVE  /\ Official[key] = Gives(key, FALSE) /\ Commented[key] = Gives(key, TRUE)
           /\ Official[key] \cap 1..Len(PmLines) = Official[key]
           /\ Commented[key] \cap 1..Len(PmLines) = Commented[key]
BY DEF Official, Commented, Gives, InputOK, PmLines, File

\* A section that is read, and any other line.
LEMMA SectionsKept ==
    ASSUME InputOK, pm \in PmType, UNCHANGED input,
           NEW n \in Nat, n + 1 \in 1..Len(PmLines), SectionsInv(n),
           \/ /\ PmLines[n + 1].line # "section"
              /\ pm'.inOptions = pm.inOptions /\ pm'.parsedOptions = pm.parsedOptions
              /\ pm'.syncdbs = pm.syncdbs
           \/ PmLines[n + 1].line = "section" /\ pc' # "cleanup" /\ PmSection(PmLines[n + 1].name)
    PROVE  SectionsInv(n + 1)'
<1> DEFINE l == PmLines[n + 1]
<1>1. /\ PmLines' = PmLines
      /\ \A k : InOptions(k)' = InOptions(k)
    BY FilesStay
<1>2. l \in PmLine /\ \A k \in 1..(n + 1) : k \in 1..n \/ k = n + 1
    BY DEF InputOK, File, PmLines
<1>3. InOptions((n + 1) + 1) <=> (l = OptionsSection \/ (InOptions(n + 1) /\ l.line # "section"))
    BY NextInOptions
<1>4. CASE l.line # "section"
    <2>1. /\ pm'.inOptions = pm.inOptions /\ pm'.parsedOptions = pm.parsedOptions
          /\ pm'.syncdbs = pm.syncdbs
        BY <1>4
    <2>2. l # OptionsSection
        BY <1>4 DEF OptionsSection
    <2>3. pm'.inOptions <=> InOptions((n + 1) + 1)
        BY <1>3, <1>4, <2>1, <2>2 DEF SectionsInv
    <2>4. pm'.parsedOptions <=> \E k \in 1..(n + 1) : PmLines[k] = OptionsSection
        BY <1>2, <2>1, <2>2 DEF SectionsInv
    <2>5. ASSUME NEW j \in 1..(n + 1), NEW k \in 1..(n + 1),
                 PmLines[j] = OptionsSection, PmLines[k] = OptionsSection
          PROVE  j = k
        <3>1. j \in 1..n /\ k \in 1..n
            BY <1>2, <2>2, <2>5
        <3> QED
            BY <2>5, <3>1 DEF SectionsInv
    <2>6. ASSUME NEW k \in 1..(n + 1), PmLines[k].line = "section"
          PROVE  PmLines[k].name \in {"options"} \cup ToSet(pm.syncdbs)
        <3>1. k \in 1..n
            BY <1>2, <1>4, <2>6
        <3> QED
            BY <2>6, <3>1 DEF SectionsInv
    <2>7. ASSUME IsInjective(pm.syncdbs), NEW j \in 1..(n + 1), NEW k \in 1..(n + 1),
                 PmLines[j].line = "section", PmLines[j].name \in Repos, PmLines[j] = PmLines[k]
          PROVE  j = k
        <3>1. j \in 1..n /\ k \in 1..n
            BY <1>2, <1>4, <2>7
        <3> QED
            BY <2>7, <3>1 DEF SectionsInv
    <2> QED
        BY <1>1, <2>1, <2>3, <2>4, <2>5, <2>6, <2>7 DEF SectionsInv
<1>5. CASE l.line = "section" /\ l.name = "options"
    <2>1. /\ ~pm.parsedOptions
          /\ pm' = [pm EXCEPT !.inOptions = TRUE, !.parsedOptions = TRUE]
        BY <1>5, StartupAssumption DEF PmSection, Fail
    <2>2. pm'.inOptions /\ pm'.parsedOptions /\ pm'.syncdbs = pm.syncdbs
        BY <2>1 DEF PmType
    <2>3. l = OptionsSection
        BY <1>2, <1>5 DEF PmLine, OptionsSection
    <2>4. \A k \in 1..n : PmLines[k] # OptionsSection
        BY <2>1 DEF SectionsInv
    <2>5. l.name \notin Repos
        BY <1>5, StartupAssumption
    <2>6. pm'.inOptions <=> InOptions((n + 1) + 1)
        BY <1>3, <2>2, <2>3
    <2>7. pm'.parsedOptions <=> \E k \in 1..(n + 1) : PmLines[k] = OptionsSection
        BY <2>2, <2>3
    <2>8. ASSUME NEW j \in 1..(n + 1), NEW k \in 1..(n + 1),
                 PmLines[j] = OptionsSection, PmLines[k] = OptionsSection
          PROVE  j = k
        BY <1>2, <2>4, <2>8
    <2>9. ASSUME NEW k \in 1..(n + 1), PmLines[k].line = "section"
          PROVE  PmLines[k].name \in {"options"} \cup ToSet(pm.syncdbs)
        <3>1. CASE k = n + 1
            BY <1>5, <3>1
        <3>2. CASE k \in 1..n
            BY <2>9, <3>2 DEF SectionsInv
        <3> QED
            BY <1>2, <3>1, <3>2
    <2>10. ASSUME IsInjective(pm.syncdbs), NEW j \in 1..(n + 1), NEW k \in 1..(n + 1),
                  PmLines[j].line = "section", PmLines[j].name \in Repos, PmLines[j] = PmLines[k]
           PROVE  j = k
        <3>1. j \in 1..n /\ k \in 1..n
            BY <1>2, <2>5, <2>10
        <3> QED
            BY <2>10, <3>1 DEF SectionsInv
    <2> QED
        BY <1>1, <2>2, <2>6, <2>7, <2>8, <2>9, <2>10 DEF SectionsInv
<1>6. CASE l.line = "section" /\ l.name # "options"
    <2>1. l.name \in Repos /\ pm' = [pm EXCEPT !.inOptions = FALSE, !.syncdbs = Append(@, l.name)]
        BY <1>6 DEF PmSection, Fail
    <2>2. /\ ~pm'.inOptions /\ pm'.parsedOptions = pm.parsedOptions
          /\ pm'.syncdbs = Append(pm.syncdbs, l.name) /\ pm.syncdbs \in Seq(Repos)
        BY <2>1 DEF PmType
    <2>3. l # OptionsSection
        BY <1>6 DEF OptionsSection
    <2>4. ToSet(pm'.syncdbs) = ToSet(pm.syncdbs) \cup {l.name}
        BY <2>1, <2>2, AppendedOnce
    <2>5. IsInjective(pm'.syncdbs) => IsInjective(pm.syncdbs) /\ l.name \notin ToSet(pm.syncdbs)
        BY <2>1, <2>2, AppendedOnce
    <2>6. ASSUME IsInjective(pm'.syncdbs), NEW j \in 1..(n + 1), NEW k \in 1..(n + 1),
                 PmLines[j].line = "section", PmLines[j].name \in Repos, PmLines[j] = PmLines[k]
          PROVE  j = k
        <3>1. \A i \in 1..n : PmLines[i].line = "section" /\ PmLines[i].name \in Repos =>
                  PmLines[i].name # l.name
            BY <2>5, <2>6, StartupAssumption DEF SectionsInv
        <3> QED
            BY <1>2, <2>5, <2>6, <3>1 DEF SectionsInv
    <2>7. ~InOptions((n + 1) + 1)
        BY <1>3, <1>6, <2>3
    <2>8. pm'.parsedOptions <=> \E k \in 1..(n + 1) : PmLines[k] = OptionsSection
        BY <1>2, <2>2, <2>3 DEF SectionsInv
    <2>9. ASSUME NEW j \in 1..(n + 1), NEW k \in 1..(n + 1),
                 PmLines[j] = OptionsSection, PmLines[k] = OptionsSection
          PROVE  j = k
        <3>1. j \in 1..n /\ k \in 1..n
            BY <1>2, <2>3, <2>9
        <3> QED
            BY <2>9, <3>1 DEF SectionsInv
    <2>10. ASSUME NEW k \in 1..(n + 1), PmLines[k].line = "section"
           PROVE  PmLines[k].name \in {"options"} \cup ToSet(pm'.syncdbs)
        <3>1. CASE k = n + 1
            BY <2>4, <3>1
        <3>2. CASE k \in 1..n
            BY <2>4, <2>10, <3>2 DEF SectionsInv
        <3> QED
            BY <1>2, <3>1, <3>2
    <2> QED
        BY <1>1, <2>2, <2>6, <2>7, <2>8, <2>9, <2>10 DEF SectionsInv
<1> QED
    BY <1>4, <1>5, <1>6

\* An option that is read, and any other line.  What the line does to the value
\* and the flags of its key is what PmOption does.
LEMMA ValuesKept ==
    ASSUME InputOK, pm \in PmType, UNCHANGED input,
           NEW n \in Nat, n + 1 \in 1..Len(PmLines),
           SectionsInv(n), FlagsInv(n), ValuesInv(n),
           \/ /\ PmLines[n + 1].line # "option" \/ ~pm.inOptions
              /\ pm'.official = pm.official /\ pm'.commented = pm.commented
              /\ UNCHANGED pacman
           \/ /\ PmLines[n + 1].line = "option" /\ pm.inOptions
              /\ pc' \notin {"cleanup", "exit"} /\ PmOption(PmLines[n + 1])
    PROVE  FlagsInv(n + 1)' /\ ValuesInv(n + 1)'
<1> DEFINE l == PmLines[n + 1]
           gives(key) == l.line = "option" /\ pm.inOptions /\ l.key = key
                            /\ l.value \notin {<<>>, NOVALUE}
<1>1. /\ PmLines' = PmLines /\ HasEmptyCacheDir' = HasEmptyCacheDir
      /\ Official' = Official /\ Commented' = Commented
    BY FilesStay
<1>2. l \in PmLine
    BY DEF InputOK, File, PmLines
<1>3. ASSUME NEW key \in Options
      PROVE  /\ Official[key] \cap 1..(n + 1) =
                   (Official[key] \cap 1..n) \cup (IF gives(key) /\ ~l.comment THEN {n + 1} ELSE {})
             /\ Commented[key] \cap 1..(n + 1) =
                   (Commented[key] \cap 1..n) \cup (IF gives(key) /\ l.comment THEN {n + 1} ELSE {})
    BY GivesOneMore DEF SectionsInv
\* The line changes neither a flag nor a value.
<1>4. ASSUME pm'.official = pm.official, pm'.commented = pm.commented, UNCHANGED pacman,
             \A key \in Options :
                 gives(key) => l.comment /\ (key \in pm.official \/ key \in pm.commented)
      PROVE  FlagsInv(n + 1)' /\ ValuesInv(n + 1)'
    <2>1. ASSUME NEW key \in Options
          PROVE  /\ Official[key] \cap 1..(n + 1) = Official[key] \cap 1..n
                 /\ \/ Commented[key] \cap 1..(n + 1) = Commented[key] \cap 1..n
                    \/ key \in pm.official
                    \/ /\ key \in pm.commented
                       /\ Commented[key] \cap 1..(n + 1) = (Commented[key] \cap 1..n) \cup {n + 1}
        BY <1>3, <1>4
    <2>2. FlagsInv(n + 1)'
        BY <1>1, <1>4, <2>1 DEF FlagsInv
    <2>3. ASSUME NEW key \in Options, ~(key = "CacheDir" /\ HasEmptyCacheDir),
                 key \notin pm.official, key \in pm.commented
          PROVE  \E k \in Commented[key] \cap 1..(n + 1) :
                    /\ pacman[key] = PmLines[k].value
                    /\ \A j \in Commented[key] \cap 1..(n + 1) : k <= j
        <3>1. PICK k \in Commented[key] \cap 1..n :
                  pacman[key] = PmLines[k].value /\ \A j \in Commented[key] \cap 1..n : k <= j
            BY <2>3 DEF ValuesInv
        <3> QED
            BY <2>1, <2>3, <3>1
    <2>4. ValuesInv(n + 1)'
        BY <1>1, <1>4, <2>1, <2>3 DEF ValuesInv
    <2> QED
        BY <2>2, <2>4
<1>5. CASE l.line # "option" \/ ~pm.inOptions
    BY <1>4, <1>5
<1>6. CASE l.line = "option" /\ pm.inOptions
    <2>1. /\ PmOption(l) /\ l.key \in Options /\ l.comment \in BOOLEAN
          /\ pc' \notin {"cleanup", "exit"}
        BY <1>2, <1>6 DEF PmLine
    <2>2. l.comment \/ l.key \notin pm.official
        BY <2>1 DEF PmOption, Repeated, Ignored, Fail
    <2>3. CASE Ignored(l) \/ (l.value \in {<<>>, NOVALUE} /\ ~(l.value = <<>> /\ l.key = "CacheDir"))
        <3>1. UNCHANGED <<pm, pacman>>
            BY <2>1, <2>3 DEF PmOption, PmSkip, Fail, Crash, Options, Keyvals
        <3>2. gives(l.key) => Ignored(l)
            BY <2>3
        <3>3. Ignored(l) => l.comment /\ (l.key \in pm.official \/ l.key \in pm.commented)
            BY <2>1, <2>2 DEF Ignored
        <3> QED
            BY <1>4, <3>1, <3>2, <3>3
    <2>4. CASE ~Ignored(l) /\ l.value = <<>> /\ l.key = "CacheDir"
        <3>1. HasEmptyCacheDir
            BY <1>6, <2>4 DEF HasEmptyCacheDir, PmLines, ToSet, InputOK, File
        <3>2. <<>> # NOVALUE
            BY DEF NOVALUE
        <3>3. pm' = pm /\ pacman' = [pacman EXCEPT !["CacheDir"] = <<>>]
            BY <2>1, <2>2, <2>4, <3>2 DEF PmOption, PmSkip, PmSet, Fail, Crash, Repeated, Keyvals
        <3>4. \A key \in Options : /\ Official[key] \cap 1..(n + 1) = Official[key] \cap 1..n
                                   /\ Commented[key] \cap 1..(n + 1) = Commented[key] \cap 1..n
            BY <1>3, <2>4
        <3>5. FlagsInv(n + 1)'
            BY <1>1, <3>3, <3>4 DEF FlagsInv
        <3>6. DOMAIN pacman' = Options /\ \A key \in Options \ {"CacheDir"} : pacman'[key] = pacman[key]
            BY <3>3 DEF ValuesInv
        <3>7. ValuesInv(n + 1)'
            BY <1>1, <3>1, <3>3, <3>4, <3>6 DEF ValuesInv
        <3> QED
            BY <3>5, <3>7
    <2>5. CASE ~Ignored(l) /\ l.value \notin {<<>>, NOVALUE}
        <3>1. PmSet(l)
            BY <2>1, <2>5 DEF PmOption, Repeated, Ignored, Fail
        <3>2. /\ pm'.official = IF l.comment THEN pm.official ELSE pm.official \cup {l.key}
              /\ pm'.commented = IF l.comment THEN pm.commented \cup {l.key} ELSE pm.commented
            BY <3>1 DEF PmSet, PmType
        <3>3. /\ DOMAIN pacman' = Options
              /\ \A key \in Options : pacman'[key] = IF key = l.key THEN l.value ELSE pacman[key]
            BY <3>1 DEF PmSet, ValuesInv
        <3>4. gives(l.key) /\ \A key \in Options : key # l.key => ~gives(key)
            BY <1>6, <2>5
        <3>5. l.key \notin pm.official /\ (l.comment => l.key \notin pm.commented)
            BY <2>1, <2>2, <2>5 DEF Ignored
        <3>6. ASSUME NEW key \in Options, key # l.key
              PROVE  /\ Official[key] \cap 1..(n + 1) = Official[key] \cap 1..n
                     /\ Commented[key] \cap 1..(n + 1) = Commented[key] \cap 1..n
                     /\ key \in pm'.official <=> key \in pm.official
                     /\ key \in pm'.commented <=> key \in pm.commented
                     /\ pacman'[key] = pacman[key]
            BY <1>3, <3>2, <3>3, <3>4, <3>6
        <3>7. Official[l.key] \cap 1..n = {}
              /\ (l.key \in pm.commented <=> Commented[l.key] \cap 1..n # {})
            BY <2>1, <3>5 DEF FlagsInv
        <3>8. /\ l.comment => /\ Official[l.key] \cap 1..(n + 1) = {}
                              /\ Commented[l.key] \cap 1..(n + 1) = {n + 1}
                              /\ l.key \notin pm'.official /\ l.key \in pm'.commented
              /\ ~l.comment => /\ Official[l.key] \cap 1..(n + 1) = {n + 1}
                               /\ l.key \in pm'.official
              /\ pacman'[l.key] = PmLines[n + 1].value
            BY <1>3, <2>1, <3>2, <3>3, <3>4, <3>5, <3>7
        <3>9. FlagsInv(n + 1)'
            BY <1>1, <2>1, <3>6, <3>8 DEF FlagsInv
        <3>10. ValuesInv(n + 1)'
            BY <1>1, <2>1, <3>3, <3>6, <3>8 DEF ValuesInv
        <3> QED
            BY <3>9, <3>10
    <2> QED
        BY <2>3, <2>4, <2>5
<1> QED
    BY <1>5, <1>6

LEMMA PacmanReads ==
    ASSUME InputOK, PacmanInv, ReadPacmanConf
    PROVE  PacmanInv'
<1> USE DEF Over
<1>1. /\ pc = "pacman.conf" /\ UNCHANGED input
      /\ lines # <<>> /\ lines \in Seq(PmLine) /\ pm \in PmType /\ PmLines \in Seq(PmLine)
    BY DEF ReadPacmanConf, PacmanInv, InputOK, PmLines, File
<1>2. PICK n \in 0..Len(PmLines) :
          IsRest(lines, PmLines, n) /\ SectionsInv(n) /\ FlagsInv(n) /\ ValuesInv(n)
    BY <1>1 DEF PacmanInv
<1>3. /\ Tail(lines) \in Seq(PmLine) /\ IsRest(Tail(lines), PmLines, n + 1)
      /\ n \in Nat /\ n + 1 \in 1..Len(PmLines) /\ n + 1 \in 0..Len(PmLines)
      /\ Head(lines) = PmLines[n + 1] /\ Head(lines) \in PmLine
    BY <1>1, <1>2, RestOfTail
<1>4. PmLines' = PmLines
    BY <1>1, FilesStay
<1> DEFINE l == PmLines[n + 1]
<1>5. CASE l.line = "section"
    <2>1. PmSection(l.name) /\ l.name \in {"options", "no_name"} \cup Repos
        BY <1>3, <1>5 DEF ReadPacmanConf, PmLine
    <2>2. CASE pc' = "cleanup"
        <3>1. pm' = pm
            BY <1>1, <2>1, <2>2 DEF PmSection
        <3> QED
            BY <1>1, <2>2, <3>1 DEF PacmanInv
    <2>3. CASE pc' # "cleanup"
        <3>1. /\ pc' = pc /\ lines' = Tail(lines) /\ UNCHANGED pacman /\ pm' \in PmType
              /\ pm'.official = pm.official /\ pm'.commented = pm.commented
            <4>1. /\ pc' = pc /\ lines' = Tail(lines) /\ UNCHANGED pacman
                  /\ \/ pm' = [pm EXCEPT !.inOptions = TRUE, !.parsedOptions = TRUE]
                     \/ /\ l.name \in Repos
                        /\ pm' = [pm EXCEPT !.inOptions = FALSE, !.syncdbs = Append(@, l.name)]
                BY <2>1, <2>3 DEF PmSection, Fail
            <4>2. CASE pm' = [pm EXCEPT !.inOptions = TRUE, !.parsedOptions = TRUE]
                BY <1>1, <4>1, <4>2 DEF PmType
            <4>3. CASE /\ l.name \in Repos
                       /\ pm' = [pm EXCEPT !.inOptions = FALSE, !.syncdbs = Append(@, l.name)]
                <5>1. pm.syncdbs \in Seq(Repos)
                    BY <1>1 DEF PmType
                <5>2. Append(pm.syncdbs, l.name) \in Seq(Repos)
                    BY <4>3, <5>1
                <5> QED
                    BY <1>1, <4>1, <4>3, <5>2 DEF PmType
            <4> QED
                BY <4>1, <4>2, <4>3
        <3>2. SectionsInv(n + 1)'
            BY <1>1, <1>2, <1>3, <1>5, <2>1, <2>3, SectionsKept
        <3>3. FlagsInv(n + 1)' /\ ValuesInv(n + 1)'
            BY <1>1, <1>2, <1>3, <1>5, <3>1, ValuesKept
        <3>4. IsRest(lines, PmLines, n + 1)'
            BY <1>3, <1>4, <3>1 DEF IsRest
        <3> QED
            BY <1>1, <1>3, <1>4, <3>1, <3>2, <3>3, <3>4 DEF PacmanInv
    <2> QED
        BY <2>2, <2>3
<1>6. CASE l.line # "section"
    <2>1. \/ l.line = "option" /\ pm.inOptions /\ PmOption(l)
          \/ (l.line # "option" \/ ~pm.inOptions) /\ PmSkip
        BY <1>3, <1>6 DEF ReadPacmanConf, PmLine
    <2>2. pm' \in PmType /\ pm'.inOptions = pm.inOptions /\ pm'.parsedOptions = pm.parsedOptions
          /\ pm'.syncdbs = pm.syncdbs
        <3>1. \/ pm' = pm
              \/ /\ l.key \in Options
                 /\ \/ pm' = [pm EXCEPT !.commented = @ \cup {l.key}]
                    \/ pm' = [pm EXCEPT !.official = @ \cup {l.key}]
            BY <1>3, <2>1 DEF PmOption, PmSkip, PmSet, PmLine
        <3>2. CASE pm' = pm
            BY <1>1, <3>2
        <3>3. CASE l.key \in Options /\ pm' = [pm EXCEPT !.commented = @ \cup {l.key}]
            BY <1>1, <3>3 DEF PmType
        <3>4. CASE l.key \in Options /\ pm' = [pm EXCEPT !.official = @ \cup {l.key}]
            BY <1>1, <3>4 DEF PmType
        <3> QED
            BY <3>1, <3>2, <3>3, <3>4
    <2>3. CASE pc' \in {"cleanup", "exit"}
        BY <1>1, <2>2, <2>3 DEF PacmanInv
    <2>4. CASE pc' \notin {"cleanup", "exit"}
        <3>1. pc' = pc /\ lines' = Tail(lines)
            BY <2>1, <2>4 DEF PmOption, PmSkip, PmSet, Fail, Crash
        <3>2. SectionsInv(n + 1)'
            BY <1>1, <1>2, <1>3, <1>6, <2>2, SectionsKept
        <3>3. l.line # "option" \/ ~pm.inOptions =>
                  pm'.official = pm.official /\ pm'.commented = pm.commented /\ UNCHANGED pacman
            BY <2>1 DEF PmSkip
        <3>4. FlagsInv(n + 1)' /\ ValuesInv(n + 1)'
            BY <1>1, <1>2, <1>3, <2>1, <2>4, <3>3, ValuesKept
        <3>5. IsRest(lines, PmLines, n + 1)'
            BY <1>3, <1>4, <3>1 DEF IsRest
        <3> QED
            BY <1>1, <1>3, <1>4, <2>2, <3>1, <3>2, <3>4, <3>5 DEF PacmanInv
    <2> QED
        BY <2>3, <2>4
<1> QED
    BY <1>5, <1>6

\* The files, what was read of pacman.conf and the values stay as they are.
LEMMA PacmanStays ==
    ASSUME InputOK, PacmanInv, UNCHANGED <<input, pm, pacman>>,
           pc # "pacman.conf", pc' # "pacman.conf", Over => Over',
           pc' = "alpm" \/ Over' \/ IsInjective(pm.syncdbs)
    PROVE  PacmanInv'
<1>1. /\ PmLines' = PmLines /\ HasEmptyCacheDir' = HasEmptyCacheDir
      /\ Official' = Official /\ Commented' = Commented
      /\ \A k : InOptions(k)' = InOptions(k)
    BY FilesStay
<1>2. SectionsInv(Len(PmLines)) => SectionsInv(Len(PmLines))'
    BY <1>1 DEF SectionsInv
<1>3. FlagsInv(Len(PmLines)) => FlagsInv(Len(PmLines))'
    BY <1>1 DEF FlagsInv
<1>4. PacmanValues => PacmanValues'
    BY <1>1 DEF PacmanValues, DefaultOf
<1> QED
    BY <1>1, <1>2, <1>3, <1>4 DEF PacmanInv

LEMMA PacmanDefaults ==
    ASSUME InputOK, PacmanInv, SetDefaults
    PROVE  PacmanInv'
<1> USE DEF Over
<1>1. /\ pc = "pacman.conf" /\ pc' = "alpm" /\ UNCHANGED <<input, pm, lines>> /\ lines = <<>>
      /\ pacman' = [key \in Options |-> IF pacman[key] = <<>> THEN DefaultOf(key) ELSE pacman[key]]
    BY DEF SetDefaults
<1>2. PmLines \in Seq(PmLine) /\ lines \in Seq(PmLine) /\ pm \in PmType
    BY <1>1 DEF PacmanInv, InputOK, PmLines, File
<1>3. SectionsInv(Len(PmLines)) /\ FlagsInv(Len(PmLines)) /\ ValuesInv(Len(PmLines))
    <2>1. PICK n \in 0..Len(PmLines) :
              IsRest(lines, PmLines, n) /\ SectionsInv(n) /\ FlagsInv(n) /\ ValuesInv(n)
        BY <1>1 DEF PacmanInv
    <2>2. n = Len(PmLines)
        BY <1>1, <1>2, <2>1, RestOfNothing
    <2> QED
        BY <2>1, <2>2
<1>4. /\ PmLines' = PmLines /\ HasEmptyCacheDir' = HasEmptyCacheDir
      /\ Official' = Official /\ Commented' = Commented
      /\ \A k : InOptions(k)' = InOptions(k)
    BY <1>1, FilesStay
<1>5. SectionsInv(Len(PmLines))' /\ FlagsInv(Len(PmLines))'
    <2>1. SectionsInv(Len(PmLines))'
        BY <1>1, <1>3, <1>4 DEF SectionsInv
    <2>2. FlagsInv(Len(PmLines))'
        BY <1>1, <1>3, <1>4 DEF FlagsInv
    <2> QED
        BY <2>1, <2>2
<1>6. PacmanValues'
    <2>1. ASSUME NEW key \in Options, ~(key = "CacheDir" /\ HasEmptyCacheDir)
          PROVE  IF Official[key] # {}
                 THEN \E k \in Official[key] : pacman'[key] = PmLines[k].value
                 ELSE IF Commented[key] # {}
                 THEN \E k \in Commented[key] :
                         pacman'[key] = PmLines[k].value /\ \A j \in Commented[key] : k <= j
                 ELSE pacman'[key] = DefaultOf(key)
        <3>1. /\ Official[key] \cap 1..Len(PmLines) = Official[key]
              /\ Commented[key] \cap 1..Len(PmLines) = Commented[key]
              /\ Official[key] = Gives(key, FALSE) /\ Commented[key] = Gives(key, TRUE)
            BY GivesInAll
        <3>2. \A k \in Official[key] \cup Commented[key] : PmLines[k].value # <<>>
            BY <3>1 DEF Gives, PmLines
        <3>3. pacman'[key] = IF pacman[key] = <<>> THEN DefaultOf(key) ELSE pacman[key]
            BY <1>1
        <3>4. /\ key \in pm.official <=> Official[key] # {}
              /\ key \notin pm.official => (key \in pm.commented <=> Commented[key] # {})
            BY <1>3, <3>1 DEF FlagsInv
        <3>5. IF key \in pm.official
              THEN \E k \in Official[key] : pacman[key] = PmLines[k].value
              ELSE IF key \in pm.commented
              THEN \E k \in Commented[key] :
                      pacman[key] = PmLines[k].value /\ \A j \in Commented[key] : k <= j
              ELSE pacman[key] = <<>>
            BY <1>3, <2>1, <3>1 DEF ValuesInv
        <3> QED
            BY <3>2, <3>3, <3>4, <3>5
    <2> QED
        BY <1>4, <2>1 DEF PacmanValues, DefaultOf
<1> QED
    BY <1>1, <1>2, <1>5, <1>6 DEF PacmanInv

LEMMA PacmanKept == ASSUME StartupInv, StartupStep PROVE PacmanInv'
<1>1. InputOK /\ PacmanInv /\ pm \in PmType
    BY DEF StartupInv, PacmanInv
<1>2. CASE ReadPacmanConf
    BY <1>1, <1>2, PacmanReads
<1>3. CASE SetDefaults
    BY <1>1, <1>3, PacmanDefaults
<1>4. CASE CannotOpenPacmanConf
    BY <1>1, <1>4 DEF CannotOpenPacmanConf, Fail, PacmanInv, Over
<1>5. CASE OpenAlpm
    BY <1>1, <1>5, PacmanStays DEF OpenAlpm, Fail, Over
<1>6. CASE ReadPowaurConf \/ PowaurDefaults \/ MakeDirectory \/ ReadOperation \/ CheckOperation
           \/ ReadOption \/ ReadNames \/ Run \/ Cleanup
    <2>1. /\ UNCHANGED <<input, pm, pacman>> /\ pc \notin {"pacman.conf", "alpm"}
          /\ pc' \notin {"pacman.conf", "alpm"} /\ (Over => Over')
        BY <1>6 DEF ReadPowaurConf, PowaurDefaults, MakeDirectory, ReadOperation, CheckOperation,
            ReadOption, ReadNames, Run, Cleanup, Fail, Over
    <2>2. Over' \/ IsInjective(pm.syncdbs)
        BY <1>1, <2>1 DEF PacmanInv
    <2> QED
        BY <1>1, <2>1, <2>2, PacmanStays
<1> QED
    BY <1>2, <1>3, <1>4, <1>5, <1>6 DEF StartupStep

-----------------------------------------------------------------------------
(* The lines of powaur.conf.                                               *)

LEMMA ColorsModulo ==
    ASSUME NEW c \in Int
    PROVE  /\ ((c % UShortRange) + 1) % UShortRange = (c + 1) % UShortRange
           /\ ((c % UShortRange) - 1) % UShortRange = (c - 1) % UShortRange
           /\ c % UShortRange \in 0..(UShortRange - 1)
<1>1. ((c % UShortRange) + 1) % UShortRange = (c + 1) % UShortRange
    BY SMT DEF UShortRange
<1>2. ((c % UShortRange) - 1) % UShortRange = (c - 1) % UShortRange
    BY SMT DEF UShortRange
<1>3. c % UShortRange \in Int /\ 0 <= c % UShortRange /\ c % UShortRange <= UShortRange - 1
    BY SMT DEF UShortRange
<1>4. UShortRange \in Int
    BY SMT DEF UShortRange
<1> QED
    BY <1>1, <1>2, <1>3, <1>4

LEMMA RangeIsNat == UShortRange \in Nat /\ UShortRange > 1
BY SMT DEF UShortRange

LEMMA ModuloOfLess ==
    ASSUME NEW c \in Nat, c < UShortRange
    PROVE  c % UShortRange = c
BY SMT DEF UShortRange

LEMMA SmallModulo ==
    ASSUME NEW c \in 0..(UShortRange - 1)
    PROVE  c % UShortRange = c
<1>1. c \in Nat /\ c <= UShortRange - 1
    OBVIOUS
<1>2. c < UShortRange
    BY <1>1, RangeIsNat
<1> QED
    BY <1>1, <1>2, ModuloOfLess

LEMMA ConfigTyped == ASSUME StartupInv, StartupStep PROVE ConfigOK'
<1>1. ConfigOK
    BY DEF StartupInv
<1>2. CASE UNCHANGED config
    BY <1>1, <1>2 DEF ConfigOK, ConfigType
<1>3. CASE ReadPowaurConf
    <2>1. \/ config' = config
          \/ \E val \in {"On", "Off", "other"} :
                \/ config' = [config EXCEPT !.color = ColorLine(@, val)]
                \/ config' = [config EXCEPT !.noconfirm = NoConfirmLine(@, val)]
        <3>1. lines # <<>> /\ lines \in Seq(ConfLine)
            BY <1>3 DEF ReadPowaurConf, StartupInv, ConfInv
        <3>2. Head(lines) \in ConfLine
            BY <3>1
        <3> QED
            BY <1>3, <3>2 DEF ReadPowaurConf, ConfLine
    <2>2. config.color \in 0..(UShortRange - 1) /\ config.noconfirm \in BOOLEAN
        BY <1>1 DEF ConfigOK, ConfigType
    <2>3. (config.color + 1) % UShortRange \in 0..(UShortRange - 1)
        <3>1. config.color + 1 \in Int
            BY <2>2, RangeIsNat
        <3> QED
            BY <3>1, ColorsModulo
    <2>4. ASSUME NEW val \in {"On", "Off", "other"}
          PROVE  ColorLine(config.color, val) \in 0..(UShortRange - 1)
        <3>1. CASE val = "On"
            BY <2>3, <3>1 DEF ColorLine
        <3>2. CASE val = "Off"
            BY <2>2, <3>2, RangeIsNat DEF ColorLine
        <3>3. CASE val = "other"
            BY <2>2, <3>3 DEF ColorLine
        <3> QED
            BY <2>4, <3>1, <3>2, <3>3
    <2>5. \A val \in {"On", "Off", "other"} : NoConfirmLine(config.noconfirm, val) \in BOOLEAN
        BY <2>2 DEF NoConfirmLine
    <2> QED
        BY <1>1, <2>1, <2>4, <2>5 DEF ConfigOK, ConfigType
<1>4. CASE PowaurDefaults
    <2>1. powaur_maxthreads \in 0..10
        BY <1>4 DEF PowaurDefaults, StartupInv, ConfInv, LimitInv, InRange, MaxThreads
    <2>2. config' = [config EXCEPT !.maxthreads = powaur_maxthreads']
          /\ powaur_maxthreads' \in 0..10
        BY <1>4, <2>1 DEF PowaurDefaults, MaxThreads
    <2> QED
        BY <1>1, <2>2 DEF ConfigOK, ConfigType
<1>5. CASE ReadOperation
    <2>1. Head(args) \in Arg
        <3>1. args # <<>> /\ args \in Seq(Arg)
            BY <1>5 DEF ReadOperation, StartupInv, ArgsInv
        <3> QED
            BY <3>1
    <2>2. \/ config' = config
          \/ \E opt \in Operations : config' = [config EXCEPT !.op = Operation(@, opt)]
          \/ \E opt \in Infos : config' = [config EXCEPT !.flags = @ \cup {opt}]
        BY <1>5 DEF ReadOperation
    <2>3. \A opt \in Operations : Operation(config.op, opt) \in {"main", "invalid"} \cup Operations
        BY DEF Operation
    <2>4. Infos \subseteq OptNames
        BY DEF OptNames
    <2> QED
        BY <1>1, <2>2, <2>3, <2>4 DEF ConfigOK, ConfigType
<1>6. CASE ReadOption
    <2>1. PICK opt \in OptNames : opt = Head(args).opt
        <3>1. args # <<>> /\ args \in Seq(Arg)
            BY <1>6 DEF ReadOption, StartupInv, ArgsInv
        <3>2. Head(args) \in Arg
            BY <3>1
        <3> QED
            BY <3>2 DEF Arg
    <2>2. config.color \in 0..(UShortRange - 1)
        BY <1>1 DEF ConfigOK, ConfigType
    <2>3. (config.color + 1) % UShortRange \in 0..(UShortRange - 1)
        <3>1. config.color + 1 \in Int
            BY <2>2, RangeIsNat
        <3> QED
            BY <3>1, ColorsModulo
    <2>4. (config.color - 1) % UShortRange \in 0..(UShortRange - 1)
        <3>1. config.color - 1 \in Int
            BY <2>2, RangeIsNat
        <3> QED
            BY <3>1, ColorsModulo
    <2>5. ColorOption(opt) \in ConfigType
        BY <1>1, <2>3, <2>4 DEF ColorOption, ConfigOK, ConfigType
    <2>6. \/ config' = config
          \/ config' = [config EXCEPT !.flags = @ \cup {opt}]
          \/ config' = ColorOption(opt)
          \/ config' = [config EXCEPT !.noconfirm = TRUE]
          \/ config' = [config EXCEPT !.optMaxthreads = TRUE]
        BY <1>6, <2>1 DEF ReadOption, GlobalOption
    <2>7. CASE config' = config \/ config' = ColorOption(opt)
        BY <1>1, <2>5, <2>7 DEF ConfigOK
    <2>8. CASE config' = [config EXCEPT !.flags = @ \cup {opt}]
        BY <1>1, <2>8 DEF ConfigOK, ConfigType
    <2>9. CASE config' = [config EXCEPT !.noconfirm = TRUE]
        BY <1>1, <2>9 DEF ConfigOK, ConfigType
    <2>10. CASE config' = [config EXCEPT !.optMaxthreads = TRUE]
        BY <1>1, <2>10 DEF ConfigOK, ConfigType
    <2> QED
        BY <2>6, <2>7, <2>8, <2>9, <2>10
<1>7. CASE ReadNames
    <2>1. \E c \in 0..(UShortRange - 1) : config' = [config EXCEPT !.color = c]
        <3>1. config.color \in 0..(UShortRange - 1) /\ 0 \in 0..(UShortRange - 1)
            BY <1>1, RangeIsNat DEF ConfigOK, ConfigType
        <3>2. config' = [config EXCEPT !.color = IF input.tty THEN config.color ELSE 0]
            BY <1>7 DEF ReadNames
        <3>3. (IF input.tty THEN config.color ELSE 0) \in 0..(UShortRange - 1)
            BY <3>1
        <3> QED
            BY <3>2, <3>3
    <2> QED
        BY <1>1, <2>1 DEF ConfigOK, ConfigType
<1>8. CASE CannotOpenPacmanConf \/ ReadPacmanConf \/ SetDefaults \/ OpenAlpm \/ MakeDirectory
           \/ CheckOperation \/ Run \/ Cleanup
    BY <1>2, <1>8 DEF CannotOpenPacmanConf, ReadPacmanConf, SetDefaults, OpenAlpm, MakeDirectory,
        CheckOperation, Run, Cleanup
<1> QED
    BY <1>3, <1>4, <1>5, <1>6, <1>7, <1>8 DEF StartupStep

\* Nothing changes powaur.conf.
LEMMA ConfStays ==
    ASSUME UNCHANGED input
    PROVE  /\ ConfLines' = ConfLines /\ Limits' = Limits /\ Ons' = Ons /\ Offs' = Offs
           /\ Confirms' = Confirms /\ Switches' = Switches
           /\ ConfirmsNothing' <=> ConfirmsNothing
           /\ CountsColours' <=> CountsColours
           /\ FileColours' = FileColours
           /\ \A k : ColoursTo(k)' = ColoursTo(k)
<1>1. ConfLines' = ConfLines
    BY DEF ConfLines
<1>2. \A key : LinesOf(key)' = LinesOf(key)
    BY <1>1 DEF LinesOf
<1>3. /\ Limits' = Limits /\ Ons' = Ons /\ Offs' = Offs
      /\ Confirms' = Confirms /\ Switches' = Switches
    BY <1>1 DEF Limits, Ons, Offs, Confirms, Switches, LinesWith, LinesOf
<1>4. ConfirmsNothing <=> \E k \in Confirms : k \in Switches /\ \A j \in Switches : j <= k
    BY DEF ConfirmsNothing, IsLast, Confirms, Switches
<1>5. (ConfirmsNothing <=> \E k \in Confirms : k \in Switches /\ \A j \in Switches : j <= k)'
    BY DEF ConfirmsNothing, IsLast, Confirms, Switches
<1>6. \A k : ColoursTo(k)' = ColoursTo(k)
    BY <1>3 DEF ColoursTo, Ons, Offs
<1>7. CountsColours' <=> CountsColours
    BY <1>1, <1>6 DEF CountsColours
<1>8. FileColours' = FileColours
    BY <1>1, <1>6 DEF FileColours
<1> QED
    BY <1>1, <1>3, <1>4, <1>5, <1>6, <1>7, <1>8

LEMMA ConfTyped ==
    ASSUME InputOK
    PROVE  /\ ConfLines \in Seq(ConfLine) /\ Conf = ConfLines
           /\ Limits \subseteq 1..Len(ConfLines) /\ Ons \subseteq 1..Len(ConfLines)
           /\ Confirms \subseteq Switches /\ Switches \subseteq 1..Len(ConfLines)
<1>1. ConfLines \in Seq(ConfLine) /\ Conf = ConfLines
    BY DEF ConfLines, Conf, InputOK, File
<1> QED
    BY <1>1 DEF Limits, Ons, Confirms, Switches, LinesWith, LinesOf

\* The lines of each kind, with one line more.
LEMMA ConfOneMore ==
    ASSUME InputOK, NEW n \in Nat, n + 1 \in 1..Len(ConfLines)
    PROVE  LET l == ConfLines[n + 1]
               more(ks, b) == (ks \cap 1..n) \cup (IF b THEN {n + 1} ELSE {})
           IN  /\ Limits \cap 1..(n + 1) = more(Limits, l.key = "MaxThreads")
               /\ Ons \cap 1..(n + 1) = more(Ons, l.key = "Color" /\ l.val = "On")
               /\ Offs \cap 1..(n + 1) = more(Offs, l.key = "Color" /\ l.val = "Off")
               /\ Confirms \cap 1..(n + 1) = more(Confirms, l.key = "NoConfirm" /\ l.val = "On")
               /\ Switches \cap 1..(n + 1) =
                     more(Switches, l.key = "NoConfirm" /\ l.val \in {"On", "Off"})
<1>1. \A i \in 1..(n + 1) : i \in 1..n \/ i = n + 1
    OBVIOUS
<1>2. 1..n \subseteq 1..(n + 1) /\ n + 1 \in 1..(n + 1) /\ n + 1 \notin 1..n
    OBVIOUS
<1>3. /\ n + 1 \in Limits <=> ConfLines[n + 1].key = "MaxThreads"
      /\ n + 1 \in Ons <=> ConfLines[n + 1].key = "Color" /\ ConfLines[n + 1].val = "On"
      /\ n + 1 \in Offs <=> ConfLines[n + 1].key = "Color" /\ ConfLines[n + 1].val = "Off"
      /\ n + 1 \in Confirms <=> ConfLines[n + 1].key = "NoConfirm" /\ ConfLines[n + 1].val = "On"
      /\ n + 1 \in Switches <=>
            ConfLines[n + 1].key = "NoConfirm" /\ ConfLines[n + 1].val \in {"On", "Off"}
    BY DEF Limits, Ons, Offs, Confirms, Switches, LinesWith, LinesOf
<1> QED
    BY <1>1, <1>2, <1>3

\* The count that the lines make, before and after one more.
LEMMA ColoursCounted ==
    ASSUME InputOK, NEW n \in Nat
    PROVE  /\ Cardinality(Ons \cap 1..n) \in Nat /\ IsFiniteSet(Ons \cap 1..n)
           /\ Cardinality(Offs \cap 1..n) \in Nat /\ IsFiniteSet(Offs \cap 1..n)
           /\ ColoursTo(n) = 1 + Cardinality(Ons \cap 1..n) - Cardinality(Offs \cap 1..n)
           /\ ColoursTo(n) \in Int
<1>1. IsFiniteSet(1..n)
    BY FS_Interval
<1>2. /\ Cardinality(Ons \cap 1..n) \in Nat /\ IsFiniteSet(Ons \cap 1..n)
      /\ Cardinality(Offs \cap 1..n) \in Nat /\ IsFiniteSet(Offs \cap 1..n)
    BY <1>1, FS_Subset, FS_CardinalityType
<1>3. ColoursTo(n) = 1 + Cardinality(Ons \cap 1..n) - Cardinality(Offs \cap 1..n)
    BY DEF ColoursTo, Ons, Offs
<1> QED
    BY <1>2, <1>3

LEMMA FileColoursIsInt == ASSUME InputOK PROVE FileColours \in Int
<1>1. Len(ConfLines) \in Nat
    BY ConfTyped
<1> QED
    BY <1>1, ColoursCounted DEF FileColours

LEMMA ColoursOneMore ==
    ASSUME InputOK, NEW n \in Nat, n + 1 \in 1..Len(ConfLines)
    PROVE  LET l == ConfLines[n + 1]
           IN  ColoursTo(n + 1) =
                  IF l.key = "Color" /\ l.val = "On" THEN ColoursTo(n) + 1
                  ELSE IF l.key = "Color" /\ l.val = "Off" THEN ColoursTo(n) - 1
                  ELSE ColoursTo(n)
<1> DEFINE l == ConfLines[n + 1]
           ons(k) == Ons \cap 1..k
           offs(k) == Offs \cap 1..k
<1>1. /\ ons(n + 1) = ons(n) \cup (IF l.key = "Color" /\ l.val = "On" THEN {n + 1} ELSE {})
      /\ offs(n + 1) = offs(n) \cup (IF l.key = "Color" /\ l.val = "Off" THEN {n + 1} ELSE {})
    BY ConfOneMore
<1>2. n + 1 \notin ons(n) /\ n + 1 \notin offs(n)
    OBVIOUS
<1>3. /\ Cardinality(ons(n)) \in Nat /\ IsFiniteSet(ons(n))
      /\ Cardinality(offs(n)) \in Nat /\ IsFiniteSet(offs(n))
      /\ ColoursTo(n) = 1 + Cardinality(ons(n)) - Cardinality(offs(n))
    BY ColoursCounted
<1>4. ColoursTo(n + 1) = 1 + Cardinality(ons(n + 1)) - Cardinality(offs(n + 1))
    BY DEF ColoursTo, Ons, Offs
<1> HIDE DEF l, ons, offs
<1>5. CASE l.key = "Color" /\ l.val = "On"
    <2>1. ons(n + 1) = ons(n) \cup {n + 1} /\ offs(n + 1) = offs(n)
        BY <1>1, <1>5
    <2>2. Cardinality(ons(n + 1)) = Cardinality(ons(n)) + 1
        BY <1>2, <1>3, <2>1, FS_AddElement
    <2>3. ColoursTo(n + 1) = ColoursTo(n) + 1
        BY <1>3, <1>4, <2>1, <2>2
    <2> QED
        BY <1>5, <2>3 DEF l
<1>6. CASE l.key = "Color" /\ l.val = "Off"
    <2>1. offs(n + 1) = offs(n) \cup {n + 1} /\ ons(n + 1) = ons(n)
        BY <1>1, <1>6
    <2>2. Cardinality(offs(n + 1)) = Cardinality(offs(n)) + 1
        BY <1>2, <1>3, <2>1, FS_AddElement
    <2>3. ColoursTo(n + 1) = ColoursTo(n) - 1
        BY <1>3, <1>4, <2>1, <2>2
    <2> QED
        BY <1>6, <2>3 DEF l
<1>7. CASE ~(l.key = "Color" /\ l.val \in {"On", "Off"})
    <2>1. ons(n + 1) = ons(n) /\ offs(n + 1) = offs(n)
        BY <1>1, <1>7
    <2> QED
        BY <1>3, <1>4, <1>7, <2>1 DEF l
<1> QED
    BY <1>5, <1>6, <1>7

LEMMA ConfStarts ==
    ASSUME StartupInv, OpenAlpm
    PROVE  ConfInv'
<1>1. /\ UNCHANGED <<input, config, powaur_maxthreads>> /\ pc = "alpm"
      /\ \/ pc' = "powaur.conf" /\ lines' = Conf
         \/ pc' = "cleanup"
    BY DEF OpenAlpm, Fail
<1>2. /\ ConfLines' = ConfLines /\ Limits' = Limits /\ Ons' = Ons /\ Offs' = Offs
      /\ Confirms' = Confirms /\ Switches' = Switches
    BY <1>1, ConfStays
<1>3. ConfLines \in Seq(ConfLine) /\ Conf = ConfLines
    BY ConfTyped DEF StartupInv
<1>4. CASE pc' = "powaur.conf"
    <2>1. IsRest(lines, ConfLines, 0)'
        BY <1>1, <1>2, <1>3, <1>4, RestIsAll DEF IsRest
    <2>2. config.color = 1 /\ ~config.noconfirm /\ powaur_maxthreads = 0
        BY <1>1 DEF StartupInv, ConfInv
    <2>3. 1..0 = {}
        OBVIOUS
    <2>4. LimitInv(0)' /\ SwitchInv(0)'
        BY <1>1, <1>2, <2>2, <2>3 DEF LimitInv, SwitchInv
    <2>5. ColorInv(0)'
        <3>1. Ons \cap 1..0 = {} /\ Offs \cap 1..0 = {} /\ Cardinality({}) = 0
            BY <2>3, FS_EmptySet
        <3>2. 1 % UShortRange = 1
            BY SMT DEF UShortRange
        <3>3. ColoursTo(0) = 1
            BY <3>1 DEF ColoursTo, Ons, Offs
        <3>4. ColoursTo(0)' = 1
            BY <1>1, <3>3, ConfStays
        <3> QED
            BY <1>1, <2>2, <3>2, <3>4 DEF ColorInv
    <2>6. 0 \in 0..Len(ConfLines)
        BY <1>3
    <2> QED
        BY <1>1, <1>2, <1>3, <1>4, <2>1, <2>4, <2>5, <2>6 DEF ConfInv
<1>5. CASE pc' = "cleanup"
    BY <1>5 DEF ConfInv
<1> QED
    BY <1>1, <1>4, <1>5

LEMMA ConfReads ==
    ASSUME StartupInv, ReadPowaurConf
    PROVE  ConfInv'
<1>1. /\ pc = "powaur.conf" /\ pc' = pc /\ lines # <<>> /\ lines' = Tail(lines)
      /\ UNCHANGED input /\ InputOK /\ ConfigOK /\ lines \in Seq(ConfLine)
    BY DEF ReadPowaurConf, StartupInv, ConfInv
<1>2. ConfLines \in Seq(ConfLine) /\ Ons \subseteq 1..Len(ConfLines)
    BY <1>1, ConfTyped
<1>3. PICK n \in 0..Len(ConfLines) :
          IsRest(lines, ConfLines, n) /\ LimitInv(n) /\ SwitchInv(n) /\ ColorInv(n)
    BY <1>1 DEF StartupInv, ConfInv
<1>4. /\ Tail(lines) \in Seq(ConfLine) /\ IsRest(Tail(lines), ConfLines, n + 1)
      /\ n \in Nat /\ n + 1 \in 1..Len(ConfLines) /\ n + 1 \in 0..Len(ConfLines)
      /\ Head(lines) = ConfLines[n + 1] /\ Head(lines) \in ConfLine
    BY <1>1, <1>2, <1>3, RestOfTail
<1>5. /\ ConfLines' = ConfLines /\ Limits' = Limits /\ Ons' = Ons /\ Offs' = Offs
      /\ Confirms' = Confirms /\ Switches' = Switches
    BY <1>1, ConfStays
<1> DEFINE l == ConfLines[n + 1]
           more(ks, b) == (ks \cap 1..n) \cup (IF b THEN {n + 1} ELSE {})
<1>6. /\ Limits \cap 1..(n + 1) = more(Limits, l.key = "MaxThreads")
      /\ Ons \cap 1..(n + 1) = more(Ons, l.key = "Color" /\ l.val = "On")
      /\ Offs \cap 1..(n + 1) = more(Offs, l.key = "Color" /\ l.val = "Off")
      /\ Confirms \cap 1..(n + 1) = more(Confirms, l.key = "NoConfirm" /\ l.val = "On")
      /\ Switches \cap 1..(n + 1) = more(Switches, l.key = "NoConfirm" /\ l.val \in {"On", "Off"})
    BY <1>1, <1>4, ConfOneMore
<1>7. /\ powaur_maxthreads' = IF l.key = "MaxThreads" THEN InRange(l.n) ELSE powaur_maxthreads
      /\ config' = CASE l.key = "Color" -> [config EXCEPT !.color = ColorLine(@, l.val)]
                     [] l.key = "NoConfirm" -> [config EXCEPT !.noconfirm = NoConfirmLine(@, l.val)]
                     [] OTHER -> config
      /\ l.key \in {"Color", "NoConfirm", "MaxThreads"}
      /\ l.key # "MaxThreads" => l.val \in {"On", "Off", "other"}
    BY <1>4 DEF ReadPowaurConf, ConfLine
<1>8. \A j \in 1..n : j < n + 1 /\ j # n + 1
    BY <1>4
<1>9. LimitInv(n + 1)'
    <2>1. CASE l.key = "MaxThreads"
        <3>1. Limits \cap 1..(n + 1) = (Limits \cap 1..n) \cup {n + 1}
            BY <1>6, <2>1
        <3>2. \A j \in Limits \cap 1..(n + 1) : j <= n + 1
            BY <1>4
        <3> QED
            BY <1>5, <1>7, <2>1, <3>1, <3>2 DEF LimitInv
    <2>2. CASE l.key # "MaxThreads"
        <3>1. Limits \cap 1..(n + 1) = Limits \cap 1..n
            BY <1>6, <2>2
        <3> QED
            BY <1>3, <1>5, <1>7, <2>2, <3>1 DEF LimitInv
    <2> QED
        BY <2>1, <2>2
<1>10. SwitchInv(n + 1)'
    <2>1. CASE l.key = "NoConfirm" /\ l.val \in {"On", "Off"}
        <3>1. Switches \cap 1..(n + 1) = (Switches \cap 1..n) \cup {n + 1}
            BY <1>6, <2>1
        <3>2. config'.noconfirm <=> l.val = "On"
            BY <1>1, <1>7, <2>1 DEF NoConfirmLine, ConfigOK, ConfigType
        <3>3. n + 1 \in Confirms \cap 1..(n + 1) <=> l.val = "On"
            BY <1>6, <1>8, <2>1
        <3>4. \A k \in Confirms \cap 1..(n + 1) : k = n + 1 \/ k < n + 1
            BY <1>4
        <3> QED
            BY <1>4, <1>5, <3>1, <3>2, <3>3, <3>4 DEF SwitchInv
    <2>2. CASE ~(l.key = "NoConfirm" /\ l.val \in {"On", "Off"})
        <3>1. /\ Switches \cap 1..(n + 1) = Switches \cap 1..n
              /\ Confirms \cap 1..(n + 1) = Confirms \cap 1..n
            BY <1>6, <2>2
        <3>2. config'.noconfirm = config.noconfirm
            BY <1>1, <1>7, <2>2 DEF NoConfirmLine, ConfigOK, ConfigType
        <3> QED
            BY <1>3, <1>5, <3>1, <3>2 DEF SwitchInv
    <2> QED
        BY <2>1, <2>2
<1>11. ColorInv(n + 1)'
    <2>1. SUFFICES ASSUME CountsColours PROVE config'.color = ColoursTo(n + 1) % UShortRange
        BY <1>1, ConfStays DEF ColorInv
    <2>2. config.color = ColoursTo(n) % UShortRange
        BY <1>3, <2>1 DEF ColorInv
    <2>3. ColoursTo(n) \in 0..(UShortRange - 1) /\ ColoursTo(n + 1) \in 0..(UShortRange - 1)
        BY <1>4, <2>1 DEF CountsColours
    <2>4. config.color = ColoursTo(n)
        BY <2>2, <2>3, SmallModulo
    <2>5. CASE l.key = "Color" /\ l.val = "On"
        <3>1. config'.color = (config.color + 1) % UShortRange
            BY <1>1, <1>7, <2>5 DEF ColorLine, ConfigOK, ConfigType
        <3>2. ColoursTo(n + 1) = ColoursTo(n) + 1
            BY <1>1, <1>4, <2>5, ColoursOneMore
        <3> QED
            BY <2>4, <3>1, <3>2
    <2>6. CASE l.key = "Color" /\ l.val = "Off"
        <3>1. config'.color = IF config.color > 0 THEN config.color - 1 ELSE config.color
            BY <1>1, <1>7, <2>6 DEF ColorLine, ConfigOK, ConfigType
        <3>2. ColoursTo(n + 1) = ColoursTo(n) - 1
            BY <1>1, <1>4, <2>6, ColoursOneMore
        <3>3. config'.color = ColoursTo(n + 1)
            BY <2>3, <2>4, <3>1, <3>2, RangeIsNat
        <3> QED
            BY <2>3, <3>3, SmallModulo
    <2>7. CASE ~(l.key = "Color" /\ l.val \in {"On", "Off"})
        <3>1. config'.color = config.color
            BY <1>1, <1>7, <2>7 DEF ColorLine, ConfigOK, ConfigType
        <3>2. ColoursTo(n + 1) = ColoursTo(n)
            BY <1>1, <1>4, <2>7, ColoursOneMore
        <3> QED
            BY <2>2, <3>1, <3>2
    <2> QED
        BY <2>5, <2>6, <2>7
<1>12. IsRest(lines, ConfLines, n + 1)'
    BY <1>1, <1>4, <1>5 DEF IsRest
<1> QED
    BY <1>1, <1>4, <1>5, <1>9, <1>10, <1>11, <1>12 DEF ConfInv

LEMMA ConfCopied ==
    ASSUME StartupInv, PowaurDefaults
    PROVE  ConfInv'
<1>1. /\ pc = "powaur.conf" /\ pc' = "directory" /\ lines = <<>>
      /\ UNCHANGED input /\ InputOK /\ ConfigOK
      /\ powaur_maxthreads' = IF powaur_maxthreads = 0 THEN MaxThreads ELSE powaur_maxthreads
      /\ config' = [config EXCEPT !.maxthreads = powaur_maxthreads']
    BY DEF PowaurDefaults, StartupInv
<1>2. /\ ConfLines \in Seq(ConfLine) /\ Limits \subseteq 1..Len(ConfLines)
      /\ Limits \cap 1..Len(ConfLines) = Limits
    BY <1>1, ConfTyped
<1>3. LimitInv(Len(ConfLines)) /\ SwitchInv(Len(ConfLines)) /\ ColorInv(Len(ConfLines))
    <2>1. PICK n \in 0..Len(ConfLines) :
              IsRest(lines, ConfLines, n) /\ LimitInv(n) /\ SwitchInv(n) /\ ColorInv(n)
        BY <1>1 DEF StartupInv, ConfInv
    <2>2. n = Len(ConfLines)
        BY <1>1, <1>2, <2>1, RestOfNothing
    <2> QED
        BY <2>1, <2>2
<1>4. /\ ConfLines' = ConfLines /\ Limits' = Limits /\ Ons' = Ons /\ Offs' = Offs
      /\ Confirms' = Confirms /\ Switches' = Switches
    BY <1>1, ConfStays
<1>5. /\ config'.maxthreads = powaur_maxthreads' /\ config'.color = config.color
      /\ config'.noconfirm = config.noconfirm
    BY <1>1 DEF ConfigOK, ConfigType
<1>6. SwitchInv(Len(ConfLines))' /\ ColorInv(Len(ConfLines))'
    BY <1>1, <1>3, <1>4, <1>5, ConfStays DEF SwitchInv, ColorInv
<1>7. LimitCopied'
    <2>1. \/ /\ config'.maxthreads = MaxThreads /\ Limits = {}
          \/ \E k \in Limits :
                /\ \A j \in Limits : j <= k
                /\ config'.maxthreads = IF InRange(ConfLines[k].n) = 0 THEN MaxThreads
                                        ELSE InRange(ConfLines[k].n)
        BY <1>1, <1>2, <1>3, <1>5 DEF LimitInv
    <2>2. CASE config'.maxthreads = MaxThreads /\ Limits = {}
        BY <1>4, <2>2 DEF LimitCopied
    <2>3. CASE \E k \in Limits :
                  /\ \A j \in Limits : j <= k
                  /\ config'.maxthreads = IF InRange(ConfLines[k].n) = 0 THEN MaxThreads
                                          ELSE InRange(ConfLines[k].n)
        <3>1. PICK k \in Limits :
                  /\ \A j \in Limits : j <= k
                  /\ config'.maxthreads = IF InRange(ConfLines[k].n) = 0 THEN MaxThreads
                                          ELSE InRange(ConfLines[k].n)
            BY <2>3
        <3>2. \A i \in Limits : (\A j \in Limits : j <= i) => i = k
            BY <1>2, <3>1
        <3>3. CASE ConfLines[k].n \in 1..MaxThreads
            BY <1>4, <3>1, <3>3 DEF LimitCopied, InRange
        <3>4. CASE ConfLines[k].n \notin 1..MaxThreads
            BY <1>4, <3>1, <3>2, <3>4 DEF LimitCopied, InRange
        <3> QED
            BY <3>3, <3>4
    <2> QED
        BY <2>1, <2>2, <2>3
<1> QED
    BY <1>1, <1>6, <1>7 DEF ConfInv

LEMMA ConfRests ==
    ASSUME InputOK, UNCHANGED input,
           config'.color = config.color, config'.noconfirm = config.noconfirm,
           SwitchInv(Len(ConfLines)), ColorInv(Len(ConfLines))
    PROVE  SwitchInv(Len(ConfLines))' /\ ColorInv(Len(ConfLines))'
BY ConfStays DEF SwitchInv, ColorInv

LEMMA LimitRests ==
    ASSUME UNCHANGED input, config'.maxthreads = config.maxthreads, LimitCopied
    PROVE  LimitCopied'
BY ConfStays DEF LimitCopied

\* What an argument does to the configuration in the first pass,
LEMMA OperationRead ==
    ASSUME ConfigOK, ReadOperation, pc' # "cleanup"
    PROVE  LET opt == Head(args).opt
           IN  /\ config'.color = config.color /\ config'.noconfirm = config.noconfirm
               /\ config'.maxthreads = config.maxthreads
               /\ config'.op = IF opt \in Operations THEN Operation(config.op, opt) ELSE config.op
               /\ config.flags \subseteq Infos => config'.flags \subseteq Infos
               /\ args' = Tail(args) /\ args # <<>> /\ pc = "operation" /\ UNCHANGED <<pc, input>>
<1> DEFINE opt == Head(args).opt
<1>1. /\ config' = CASE opt \in Operations -> [config EXCEPT !.op = Operation(@, opt)]
                     [] opt \in Infos -> [config EXCEPT !.flags = @ \cup {opt}]
                     [] OTHER -> config
      /\ args' = Tail(args) /\ args # <<>> /\ pc = "operation" /\ UNCHANGED <<pc, input>>
    BY DEF ReadOperation, Fail
<1>2. opt \in Operations => opt \notin Infos
    BY DEF Operations, Infos
<1> HIDE DEF opt
<1>3. CASE opt \in Operations
    <2>1. config' = [config EXCEPT !.op = Operation(@, opt)]
        BY <1>1, <1>2, <1>3
    <2> QED
        BY <1>1, <1>3, <2>1 DEF ConfigOK, ConfigType, opt
<1>4. CASE opt \notin Operations /\ opt \in Infos
    <2>1. config' = [config EXCEPT !.flags = @ \cup {opt}]
        BY <1>1, <1>4
    <2> QED
        BY <1>1, <1>4, <2>1 DEF ConfigOK, ConfigType, opt
<1>5. CASE opt \notin Operations /\ opt \notin Infos
    <2>1. config' = config
        BY <1>1, <1>5
    <2> QED
        BY <1>1, <1>5, <2>1 DEF opt
<1> QED
    BY <1>3, <1>4, <1>5

\* and in the second.
LEMMA OptionRead ==
    ASSUME ConfigOK, ReadOption, pc' # "cleanup"
    PROVE  LET opt == Head(args).opt
           IN  /\ opt \in AllowedOpts
               /\ config'.op = config.op /\ config'.maxthreads = config.maxthreads
               /\ config'.noconfirm <=> config.noconfirm \/ opt = "--noconfirm"
               /\ \A c \in {"--color", "--nocolor"} :
                     c \in config'.flags <=> c \in config.flags \/ opt = c
               /\ config'.color =
                     IF opt \in {"--color", "--nocolor"} /\ opt \notin config.flags
                     THEN (IF opt = "--color" THEN config.color + 1 ELSE config.color - 1)
                             % UShortRange
                     ELSE config.color
               /\ args' = Tail(args) /\ args # <<>> /\ pc = "options" /\ UNCHANGED <<pc, input>>
<1> DEFINE opt == Head(args).opt
<1>1. /\ opt \in AllowedOpts
      /\ args' = Tail(args) /\ args # <<>> /\ pc = "options" /\ UNCHANGED <<pc, input>>
      /\ \/ opt \in Operations \cup Infos /\ UNCHANGED config
         \/ opt \in OptionsOf(config.op) /\ config' = [config EXCEPT !.flags = @ \cup {opt}]
         \/ opt \in GlobalOptions /\ GlobalOption(Head(args))
    BY DEF ReadOption, Fail, Refused, AllowedOpts
<1>2. CASE opt \in Operations \cup Infos /\ UNCHANGED config
    <2>1. opt \notin {"--color", "--nocolor", "--noconfirm"}
        BY <1>2 DEF Operations, Infos
    <2> QED
        BY <1>1, <1>2, <2>1 DEF ConfigOK, ConfigType
<1>3. CASE opt \in OptionsOf(config.op) /\ config' = [config EXCEPT !.flags = @ \cup {opt}]
    <2>1. opt \in SyncOptions \cup QueryOptions \cup GetOptions
        BY <1>3 DEF OptionsOf
    <2>2. opt \notin {"--color", "--nocolor", "--noconfirm"}
        BY <2>1 DEF SyncOptions, QueryOptions, GetOptions
    <2> QED
        BY <1>1, <1>3, <2>2 DEF ConfigOK, ConfigType
<1>4. CASE opt \in GlobalOptions /\ GlobalOption(Head(args))
    <2>1. CASE opt \in {"--color", "--nocolor"}
        <3>1. config' = ColorOption(opt)
            BY <1>4, <2>1 DEF GlobalOption
        <3>2. CASE opt \in config.flags
            BY <1>1, <2>1, <3>1, <3>2 DEF ColorOption, ConfigOK, ConfigType
        <3>3. CASE opt \notin config.flags
            <4>1. config' = [config EXCEPT
                                !.color = (IF opt = "--color" THEN @ + 1 ELSE @ - 1) % UShortRange,
                                !.flags = @ \cup {opt}]
                BY <3>1, <3>3 DEF ColorOption
            <4> QED
                BY <1>1, <2>1, <3>3, <4>1 DEF ConfigOK, ConfigType
        <3> QED
            BY <3>2, <3>3
    <2>2. CASE opt = "--noconfirm"
        <3>1. config' = [config EXCEPT !.noconfirm = TRUE]
            BY <1>4, <2>2 DEF GlobalOption
        <3> QED
            BY <1>1, <2>2, <3>1 DEF ConfigOK, ConfigType
    <2>3. CASE opt = "--threads"
        <3>1. config' = [config EXCEPT !.optMaxthreads = TRUE]
            BY <1>4, <2>3 DEF GlobalOption
        <3> QED
            BY <1>1, <2>3, <3>1 DEF ConfigOK, ConfigType
    <2>4. CASE opt \notin {"--color", "--nocolor", "--noconfirm", "--threads"}
        <3>1. config' = [config EXCEPT !.flags = @ \cup {opt}]
            BY <1>4, <2>4 DEF GlobalOption
        <3> QED
            BY <1>1, <2>4, <3>1 DEF ConfigOK, ConfigType
    <2> QED
        BY <2>1, <2>2, <2>3, <2>4
<1> QED
    BY <1>1, <1>2, <1>3, <1>4

LEMMA ConfKept == ASSUME StartupInv, StartupStep PROVE ConfInv'
<1>1. InputOK /\ ConfigOK /\ ConfInv
    BY DEF StartupInv
<1>2. CASE CannotOpenPacmanConf \/ ReadPacmanConf \/ SetDefaults
    <2>1. /\ pc = "pacman.conf" /\ UNCHANGED <<config, powaur_maxthreads>>
          /\ pc' \in {"pacman.conf", "alpm", "cleanup", "exit"}
        BY <1>2 DEF CannotOpenPacmanConf, ReadPacmanConf, SetDefaults, PmSection, PmOption, PmSkip,
            PmSet, Fail, Crash
    <2> QED
        BY <1>1, <2>1 DEF ConfInv
<1>3. CASE OpenAlpm
    BY <1>3, ConfStarts
<1>4. CASE ReadPowaurConf
    BY <1>4, ConfReads
<1>5. CASE PowaurDefaults
    BY <1>5, ConfCopied
<1>6. CASE MakeDirectory \/ CheckOperation
    <2>1. /\ pc \in {"directory", "operation"} /\ UNCHANGED <<input, config>>
          /\ pc' \in {"operation", "options", "cleanup"}
        BY <1>6 DEF MakeDirectory, CheckOperation, Fail
    <2> QED
        BY <1>1, <2>1, ConfRests, LimitRests DEF ConfInv
<1>7. CASE ReadOperation
    <2>1. CASE pc' = "cleanup"
        BY <2>1 DEF ConfInv
    <2>2. CASE pc' # "cleanup"
        BY <1>1, <1>7, <2>2, OperationRead, ConfRests, LimitRests DEF ConfInv
    <2> QED
        BY <2>1, <2>2
<1>8. CASE ReadOption
    <2>1. CASE pc' = "cleanup"
        BY <2>1 DEF ConfInv
    <2>2. CASE pc' # "cleanup"
        BY <1>1, <1>8, <2>2, OptionRead, LimitRests DEF ConfInv
    <2> QED
        BY <2>1, <2>2
<1>9. CASE ReadNames
    <2>1. /\ pc = "options" /\ pc' = "run" /\ UNCHANGED input
          /\ config' = [config EXCEPT !.color = IF input.tty THEN @ ELSE 0]
        BY <1>9 DEF ReadNames
    <2>2. config'.maxthreads = config.maxthreads
        BY <1>1, <2>1 DEF ConfigOK, ConfigType
    <2> QED
        BY <1>1, <2>1, <2>2, LimitRests DEF ConfInv
<1>10. CASE Run \/ Cleanup
    BY <1>10 DEF Run, Cleanup, ConfInv
<1> QED
    BY <1>2, <1>3, <1>4, <1>5, <1>6, <1>7, <1>8, <1>9, <1>10 DEF StartupStep

-----------------------------------------------------------------------------
(* The command line.                                                       *)

LEMMA ArgvTyped ==
    ASSUME InputOK
    PROVE  /\ input.argv \in Seq(Arg) /\ Len(input.argv) \in Nat
           /\ OperationsGiven \cap 1..Len(input.argv) = OperationsGiven
BY DEF InputOK, OperationsGiven

LEMMA HasOneMore ==
    ASSUME NEW n \in Nat
    PROVE  /\ \A opt : Has(opt, n + 1) <=> Has(opt, n) \/ input.argv[n + 1].opt = opt
           /\ AllAllowed(n + 1) <=> AllAllowed(n) /\ input.argv[n + 1].opt \in AllowedOpts
<1>1. \A k \in 1..(n + 1) : k \in 1..n \/ k = n + 1
    OBVIOUS
<1>2. 1..n \subseteq 1..(n + 1) /\ n + 1 \in 1..(n + 1)
    OBVIOUS
<1> QED
    BY <1>1, <1>2 DEF Has, AllAllowed

LEMMA NothingAtFirst ==
    (\A opt : ~Has(opt, 0)) /\ AllAllowed(0) /\ OperationsGiven \cap 1..0 = {}
<1>1. 1..0 = {}
    OBVIOUS
<1> QED
    BY <1>1 DEF Has, AllAllowed

LEMMA ArgvStays ==
    ASSUME UNCHANGED input, config'.op = config.op, NEW n
    PROVE  /\ OperationsGiven' = OperationsGiven
           /\ OneGiven' <=> OneGiven
           /\ AllAllowed(n)' <=> AllAllowed(n)
           /\ \A opt : Has(opt, n)' <=> Has(opt, n)
<1>1. OperationsGiven' = OperationsGiven
    BY DEF OperationsGiven
<1>2. AllowedOpts' = AllowedOpts
    BY DEF AllowedOpts, OptionsOf
<1> QED
    BY <1>1, <1>2 DEF OneGiven, AllAllowed, Has

LEMMA ArgsOperation ==
    ASSUME StartupInv, ReadOperation
    PROVE  ArgsInv'
<1>1. InputOK /\ ConfigOK /\ ArgsInv
    BY DEF StartupInv
<1>2. CASE pc' = "cleanup"
    BY <1>2 DEF ReadOperation, Fail, ArgsInv, Over
<1>3. CASE pc' # "cleanup"
    <2> DEFINE opt == Head(args).opt
    <2>1. /\ config'.op = IF opt \in Operations THEN Operation(config.op, opt) ELSE config.op
          /\ config'.flags \subseteq Infos /\ UNCHANGED <<pc, input>>
          /\ args' = Tail(args) /\ args # <<>> /\ pc = "operation" /\ args \in Seq(Arg)
        BY <1>1, <1>3, OperationRead DEF ArgsInv
    <2>2. PICK n \in 0..Len(input.argv) : IsRest(args, input.argv, n) /\ OperationInv(n)
        BY <1>1, <2>1 DEF ArgsInv
    <2>3. /\ Tail(args) \in Seq(Arg) /\ IsRest(Tail(args), input.argv, n + 1)
          /\ n \in Nat /\ n + 1 \in 1..Len(input.argv) /\ n + 1 \in 0..Len(input.argv)
          /\ opt = input.argv[n + 1].opt
        BY <1>1, <2>1, <2>2, ArgvTyped, RestOfTail
    <2>4. OperationsGiven \cap 1..(n + 1) =
             (OperationsGiven \cap 1..n) \cup (IF opt \in Operations THEN {n + 1} ELSE {})
        <3>1. n + 1 \in OperationsGiven <=> opt \in Operations
            BY <2>3 DEF OperationsGiven
        <3>2. \A k \in 1..(n + 1) : k \in 1..n \/ k = n + 1
            BY <2>3
        <3>3. 1..n \subseteq 1..(n + 1) /\ n + 1 \in 1..(n + 1)
            BY <2>3
        <3> QED
            BY <3>1, <3>2, <3>3
    <2>5. \/ config'.op = "main" /\ OperationsGiven \cap 1..(n + 1) = {}
          \/ \E k \in 1..(n + 1) :
                OperationsGiven \cap 1..(n + 1) = {k} /\ config'.op = input.argv[k].opt
          \/ config'.op = "invalid"
        <3>1. CASE opt \in Operations /\ config.op = "main"
            <4>1. OperationsGiven \cap 1..n = {}
                <5>1. \A k \in OperationsGiven : input.argv[k].opt # "main"
                    BY DEF OperationsGiven, Operations
                <5> QED
                    BY <2>2, <3>1, <5>1 DEF OperationInv
            <4>2. config'.op = opt
                BY <2>1, <3>1 DEF Operation
            <4> QED
                BY <2>3, <2>4, <3>1, <4>1, <4>2
        <3>2. CASE opt \in Operations /\ config.op # "main"
            BY <2>1, <3>2 DEF Operation
        <3>3. CASE opt \notin Operations
            <4>1. 1..n \subseteq 1..(n + 1)
                BY <2>3
            <4> QED
                BY <2>1, <2>2, <2>4, <3>3, <4>1 DEF OperationInv
        <3> QED
            BY <3>1, <3>2, <3>3
    <2>6. OperationInv(n + 1)'
        <3>1. OperationsGiven' = OperationsGiven
            BY <2>1 DEF OperationsGiven
        <3> QED
            BY <2>1, <2>5, <3>1 DEF OperationInv
    <2>7. IsRest(args, input.argv, n + 1)'
        BY <2>1, <2>3 DEF IsRest
    <2> QED
        BY <2>1, <2>3, <2>6, <2>7 DEF ArgsInv, Over
<1> QED
    BY <1>2, <1>3

LEMMA ArgsChecked ==
    ASSUME StartupInv, CheckOperation
    PROVE  ArgsInv'
<1>1. InputOK /\ ConfigOK /\ ConfInv /\ ArgsInv
    BY DEF StartupInv
<1>2. /\ pc = "operation" /\ args = <<>> /\ UNCHANGED <<input, config>>
      /\ \/ pc' = "cleanup" /\ (exit' = 1 \/ "-V" \in config.flags)
         \/ pc' = "options" /\ config.op \in Operations /\ config.flags = {} /\ args' = input.argv
    BY DEF CheckOperation, Fail
<1>3. CASE pc' = "cleanup"
    BY <1>2, <1>3 DEF ArgsInv, Over
<1>4. CASE pc' = "options"
    <2>1. config.op \in Operations /\ config.flags = {} /\ args' = input.argv
        BY <1>2, <1>4
    <2>2. OperationInv(Len(input.argv))
        <3>1. PICK n \in 0..Len(input.argv) : IsRest(args, input.argv, n) /\ OperationInv(n)
            BY <1>1, <1>2 DEF ArgsInv
        <3>2. n = Len(input.argv)
            BY <1>1, <1>2, <3>1, ArgvTyped, RestOfNothing
        <3> QED
            BY <3>1, <3>2
    <2>3. OneGiven
        <3>1. config.op # "main" /\ config.op # "invalid"
            BY <2>1 DEF Operations
        <3> QED
            BY <1>1, <2>2, <3>1, ArgvTyped DEF OperationInv, OneGiven
    <2>4. OptionsInv(0)
        <3>1. SwitchInv(Len(ConfLines)) /\ ColorInv(Len(ConfLines))
            BY <1>1, <1>2 DEF ConfInv
        <3>2. /\ Ons \cap 1..Len(ConfLines) = Ons /\ Confirms \cap 1..Len(ConfLines) = Confirms
              /\ Switches \cap 1..Len(ConfLines) = Switches /\ Confirms \subseteq Switches
            BY <1>1, ConfTyped
        <3>3. config.noconfirm <=> ConfirmsNothing
            BY <3>1, <3>2 DEF SwitchInv, ConfirmsNothing, IsLast, Confirms, Switches
        <3>4. CountsColours => config.color = ColorWith(0)
            <4>1. One(Has("--color", 0)) = 0 /\ One(Has("--nocolor", 0)) = 0
                BY NothingAtFirst DEF One
            <4>2. FileColours \in Int
                BY <1>1, FileColoursIsInt
            <4>3. FileColours + One(Has("--color", 0)) - One(Has("--nocolor", 0)) = FileColours
                BY <4>1, <4>2
            <4>4. ColorWith(0) = FileColours % UShortRange
                BY <4>3 DEF ColorWith
            <4> QED
                BY <3>1, <4>4 DEF ColorInv, FileColours
        <3> QED
            BY <2>1, <3>3, <3>4, NothingAtFirst DEF OptionsInv
    <2>5. OptionsInv(0)'
        <3>1. ConfirmsNothing' <=> ConfirmsNothing
            BY <1>2, ConfStays
        <3>2. (CountsColours' <=> CountsColours) /\ FileColours' = FileColours
            BY <1>2, ConfStays
        <3>3. ColorWith(0)' = ColorWith(0)
            BY <1>2, <3>2 DEF ColorWith, Has
        <3>4. AllAllowed(0)' /\ \A opt : Has(opt, 0)' <=> Has(opt, 0)
            BY <1>2, NothingAtFirst, ArgvStays
        <3> QED
            BY <1>2, <2>4, <3>1, <3>2, <3>3, <3>4 DEF OptionsInv
    <2>6. OneGiven'
        BY <1>2, <2>3, ArgvStays
    <2>7. args' \in Seq(Arg) /\ IsRest(args, input.argv, 0)' /\ 0 \in 0..Len(input.argv)
        <3>1. IsRest(input.argv, input.argv, 0) /\ 0 \in 0..Len(input.argv)
            BY <1>1, ArgvTyped, RestIsAll
        <3> QED
            BY <1>1, <1>2, <2>1, <3>1, ArgvTyped DEF IsRest
    <2> QED
        BY <1>2, <1>4, <2>5, <2>6, <2>7 DEF ArgsInv, Over
<1> QED
    BY <1>2, <1>3, <1>4

LEMMA ArgsOption ==
    ASSUME StartupInv, ReadOption
    PROVE  ArgsInv'
<1>1. InputOK /\ ConfigOK /\ ArgsInv
    BY DEF StartupInv
<1>2. CASE pc' = "cleanup"
    BY <1>2 DEF ReadOption, Fail, ArgsInv, Over
<1>3. CASE pc' # "cleanup"
    <2> DEFINE opt == Head(args).opt
    <2>1. /\ opt \in AllowedOpts
          /\ config'.op = config.op
          /\ config'.noconfirm <=> config.noconfirm \/ opt = "--noconfirm"
          /\ \A c \in {"--color", "--nocolor"} :
                c \in config'.flags <=> c \in config.flags \/ opt = c
          /\ config'.color =
                IF opt \in {"--color", "--nocolor"} /\ opt \notin config.flags
                THEN (IF opt = "--color" THEN config.color + 1 ELSE config.color - 1) % UShortRange
                ELSE config.color
          /\ args' = Tail(args) /\ args # <<>> /\ pc = "options" /\ UNCHANGED <<pc, input>>
        BY <1>1, <1>3, OptionRead
    <2>2. args \in Seq(Arg) /\ OneGiven
        BY <1>1, <2>1 DEF ArgsInv
    <2>3. PICK n \in 0..Len(input.argv) : IsRest(args, input.argv, n) /\ OptionsInv(n)
        BY <1>1, <2>1 DEF ArgsInv
    <2>4. /\ Tail(args) \in Seq(Arg) /\ IsRest(Tail(args), input.argv, n + 1)
          /\ n \in Nat /\ n + 1 \in 1..Len(input.argv) /\ n + 1 \in 0..Len(input.argv)
          /\ opt = input.argv[n + 1].opt
        BY <1>1, <2>1, <2>2, <2>3, ArgvTyped, RestOfTail
    <2> HIDE DEF opt
    <2>5. /\ \A o : Has(o, n + 1) <=> Has(o, n) \/ opt = o
          /\ AllAllowed(n + 1)
        BY <2>1, <2>3, <2>4, HasOneMore DEF OptionsInv
    <2>6. \A o \in {"--color", "--nocolor"} : o \in config'.flags <=> Has(o, n + 1)
        BY <2>1, <2>3, <2>5 DEF OptionsInv
    <2>7. config'.noconfirm <=> Has("--noconfirm", n + 1) \/ ConfirmsNothing
        BY <2>1, <2>3, <2>5 DEF OptionsInv
    <2>8. ASSUME CountsColours PROVE config'.color = ColorWith(n + 1)
        <3> DEFINE before == FileColours + One(Has("--color", n)) - One(Has("--nocolor", n))
                   after == FileColours + One(Has("--color", n + 1)) - One(Has("--nocolor", n + 1))
        <3>1. config.color = before % UShortRange
            BY <2>3, <2>8 DEF OptionsInv, ColorWith
        <3>2. FileColours \in Int
            BY <1>1, FileColoursIsInt
        <3>3. before \in Int
            BY <3>2 DEF One
        <3>4. \A o \in {"--color", "--nocolor"} : o \in config.flags <=> Has(o, n)
            BY <2>3 DEF OptionsInv
        <3>5. CASE opt = "--color" /\ ~Has("--color", n)
            <4>1. One(Has("--color", n)) = 0 /\ One(Has("--color", n + 1)) = 1
                  /\ One(Has("--nocolor", n + 1)) = One(Has("--nocolor", n))
                BY <2>5, <3>5 DEF One
            <4>2. One(Has("--nocolor", n)) \in Int
                BY DEF One
            <4>3. after = before + 1
                BY <3>2, <4>1, <4>2
            <4>4. config'.color = (config.color + 1) % UShortRange
                BY <2>1, <3>4, <3>5
            <4> HIDE DEF before, after
            <4>5. config'.color = after % UShortRange
                BY <3>1, <3>3, <4>3, <4>4, ColorsModulo
            <4> QED
                BY <4>5 DEF ColorWith, after
        <3>6. CASE opt = "--nocolor" /\ ~Has("--nocolor", n)
            <4>1. One(Has("--nocolor", n)) = 0 /\ One(Has("--nocolor", n + 1)) = 1
                  /\ One(Has("--color", n + 1)) = One(Has("--color", n))
                BY <2>5, <3>6 DEF One
            <4>2. One(Has("--color", n)) \in Int
                BY DEF One
            <4>3. after = before - 1
                BY <3>2, <4>1, <4>2
            <4>4. config'.color = (config.color - 1) % UShortRange
                BY <2>1, <3>4, <3>6
            <4> HIDE DEF before, after
            <4>5. config'.color = after % UShortRange
                BY <3>1, <3>3, <4>3, <4>4, ColorsModulo
            <4> QED
                BY <4>5 DEF ColorWith, after
        <3>7. CASE /\ ~(opt = "--color" /\ ~Has("--color", n))
                   /\ ~(opt = "--nocolor" /\ ~Has("--nocolor", n))
            <4>1. /\ Has("--color", n + 1) <=> Has("--color", n)
                  /\ Has("--nocolor", n + 1) <=> Has("--nocolor", n)
                BY <2>5, <3>7
            <4>2. One(Has("--color", n + 1)) = One(Has("--color", n))
                  /\ One(Has("--nocolor", n + 1)) = One(Has("--nocolor", n))
                BY <4>1 DEF One
            <4>3. config'.color = config.color
                BY <2>1, <3>4, <3>7
            <4> QED
                BY <3>1, <4>2, <4>3 DEF ColorWith
        <3> QED
            BY <3>5, <3>6, <3>7
    <2>9. OptionsInv(n + 1)'
        <3>1. /\ ConfirmsNothing' <=> ConfirmsNothing
              /\ CountsColours' <=> CountsColours
              /\ FileColours' = FileColours
            BY <2>1, ConfStays
        <3>2. ColorWith(n + 1)' = ColorWith(n + 1)
            BY <2>1, <3>1 DEF ColorWith, Has
        <3>3. AllAllowed(n + 1)' /\ \A o : Has(o, n + 1)' <=> Has(o, n + 1)
            BY <2>1, <2>5, ArgvStays
        <3> QED
            BY <2>1, <2>6, <2>7, <2>8, <3>1, <3>2, <3>3 DEF OptionsInv
    <2>10. OneGiven' /\ IsRest(args, input.argv, n + 1)'
        <3>1. OneGiven'
            BY <2>1, <2>2, ArgvStays
        <3>2. IsRest(args, input.argv, n + 1)'
            BY <2>1, <2>4 DEF IsRest
        <3> QED
            BY <3>1, <3>2
    <2> QED
        BY <2>1, <2>4, <2>9, <2>10 DEF ArgsInv, Over
<1> QED
    BY <1>2, <1>3

LEMMA ArgsRead ==
    ASSUME StartupInv, ReadNames
    PROVE  ArgsInv'
<1>1. InputOK /\ ConfigOK /\ ArgsInv
    BY DEF StartupInv
<1>2. /\ pc = "options" /\ pc' = "run" /\ args = <<>> /\ UNCHANGED input
      /\ config' = [config EXCEPT !.color = IF input.tty THEN @ ELSE 0]
    BY DEF ReadNames
<1>3. /\ config'.op = config.op /\ config'.noconfirm = config.noconfirm
      /\ config'.color = IF input.tty THEN config.color ELSE 0
    BY <1>1, <1>2 DEF ConfigOK, ConfigType
<1>4. OneGiven /\ OptionsInv(Len(input.argv))
    <2>1. PICK n \in 0..Len(input.argv) : IsRest(args, input.argv, n) /\ OptionsInv(n)
        BY <1>1, <1>2 DEF ArgsInv
    <2>2. n = Len(input.argv)
        BY <1>1, <1>2, <2>1, ArgvTyped, RestOfNothing
    <2> QED
        BY <1>1, <1>2, <2>1, <2>2 DEF ArgsInv
<1>5. OneGiven' /\ AllAllowed(Len(input.argv))'
    <2>1. OneGiven'
        BY <1>2, <1>3, <1>4, ArgvStays
    <2>2. AllowedOpts' = AllowedOpts
        BY <1>3 DEF AllowedOpts, OptionsOf
    <2>3. AllAllowed(Len(input.argv))'
        BY <1>2, <1>4, <2>2 DEF OptionsInv, AllAllowed
    <2> QED
        BY <2>1, <2>3
<1>6. (config.noconfirm <=> Has("--noconfirm", Len(input.argv)) \/ ConfirmsNothing)'
    <2>1. Has("--noconfirm", Len(input.argv))' <=> Has("--noconfirm", Len(input.argv))
        BY <1>2 DEF Has
    <2>2. ConfirmsNothing' <=> ConfirmsNothing
        BY <1>2, ConfStays
    <2> QED
        BY <1>3, <1>4, <2>1, <2>2 DEF OptionsInv
<1>7. (CountsColours => config.color = IF input.tty THEN ColorWith(Len(input.argv)) ELSE 0)'
    <2>1. (CountsColours' <=> CountsColours) /\ FileColours' = FileColours
        BY <1>2, ConfStays
    <2>2. ColorWith(Len(input.argv))' = ColorWith(Len(input.argv))
        BY <1>2, <2>1 DEF ColorWith, Has
    <2> QED
        BY <1>2, <1>3, <1>4, <2>1, <2>2 DEF OptionsInv
<1> QED
    BY <1>2, <1>5, <1>6, <1>7 DEF ArgsInv, Over

LEMMA ArgsKept == ASSUME StartupInv, StartupStep PROVE ArgsInv'
<1>1. InputOK /\ ConfigOK /\ ArgsInv
    BY DEF StartupInv
<1>2. CASE ReadOperation
    BY <1>2, ArgsOperation
<1>3. CASE CheckOperation
    BY <1>3, ArgsChecked
<1>4. CASE ReadOption
    BY <1>4, ArgsOption
<1>5. CASE ReadNames
    BY <1>5, ArgsRead
<1>6. CASE CannotOpenPacmanConf \/ ReadPacmanConf \/ SetDefaults \/ OpenAlpm
    <2>1. /\ pc \in {"pacman.conf", "alpm"} /\ UNCHANGED config
          /\ pc' \in {"pacman.conf", "alpm", "powaur.conf"} \/ (pc' \in {"cleanup", "exit"} /\ exit' # 0)
        BY <1>6 DEF CannotOpenPacmanConf, ReadPacmanConf, SetDefaults, OpenAlpm, PmSection, PmOption,
            PmSkip, PmSet, Fail, Crash, CRASH
    <2> QED
        BY <1>1, <2>1 DEF ArgsInv, Over
<1>7. CASE ReadPowaurConf \/ PowaurDefaults
    <2>1. /\ pc = "powaur.conf" /\ pc' \in {"powaur.conf", "directory"}
          /\ \/ config' = config
             \/ \E c : config' = [config EXCEPT !.color = c]
             \/ \E b : config' = [config EXCEPT !.noconfirm = b]
             \/ \E m : config' = [config EXCEPT !.maxthreads = m]
        BY <1>7 DEF ReadPowaurConf, PowaurDefaults
    <2>2. config'.op = config.op /\ config'.flags = config.flags
        BY <1>1, <2>1 DEF ConfigOK, ConfigType
    <2> QED
        BY <1>1, <2>1, <2>2 DEF ArgsInv, Over
<1>8. CASE MakeDirectory
    <2>1. /\ pc = "directory" /\ UNCHANGED <<input, config>>
          /\ \/ pc' = "operation" /\ args' = input.argv
             \/ pc' = "cleanup" /\ exit' = 1
        BY <1>8 DEF MakeDirectory, Fail
    <2>2. CASE pc' = "cleanup"
        BY <2>1, <2>2 DEF ArgsInv, Over
    <2>3. CASE pc' = "operation"
        <3>1. config.op = "main" /\ config.flags = {}
            BY <1>1, <2>1 DEF ArgsInv
        <3>2. OperationsGiven' = OperationsGiven /\ OperationsGiven \cap 1..0 = {}
            BY <2>1, NothingAtFirst DEF OperationsGiven
        <3>3. OperationInv(0)'
            BY <2>1, <3>1, <3>2 DEF OperationInv
        <3>4. args' \in Seq(Arg) /\ IsRest(args, input.argv, 0)' /\ 0 \in 0..Len(input.argv)
            <4>1. IsRest(input.argv, input.argv, 0) /\ 0 \in 0..Len(input.argv)
                BY <1>1, ArgvTyped, RestIsAll
            <4> QED
                BY <1>1, <2>1, <2>3, <4>1, ArgvTyped DEF IsRest
        <3> QED
            BY <2>1, <2>3, <3>1, <3>3, <3>4 DEF ArgsInv, Over
    <2> QED
        BY <2>1, <2>2, <2>3
<1>9. CASE Run \/ Cleanup
    <2>1. /\ pc \in {"run", "cleanup"} /\ pc' \in {"cleanup", "exit"} /\ UNCHANGED <<input, config>>
          /\ exit' = 0 => pc = "run" \/ exit = 0
        BY <1>9 DEF Run, Cleanup, CRASH
    <2>2. OneGiven' <=> OneGiven
        BY <2>1, ArgvStays
    <2>3. AllAllowed(Len(input.argv))' <=> AllAllowed(Len(input.argv))
        BY <2>1 DEF AllAllowed, AllowedOpts
    <2> QED
        BY <1>1, <2>1, <2>2, <2>3 DEF ArgsInv, Over
<1> QED
    BY <1>2, <1>3, <1>4, <1>5, <1>6, <1>7, <1>8, <1>9 DEF StartupStep


-----------------------------------------------------------------------------
(* The invariant, and what it says of the values and of the operation.     *)

LEMMA StartupStarts == StartupInit => StartupInv
<1> SUFFICES ASSUME StartupInit PROVE StartupInv
    OBVIOUS
<1>1. InputOK
    <2>1. PICK c \in Cases : input \in
              [pm : c.pm, xdg : c.xdg, home : c.home, argv : c.argv, names : c.names, tty : c.tty]
        BY DEF StartupInit
    <2>2. c \in CaseType
        BY StartupAssumption
    <2> QED
        BY <2>1, <2>2 DEF CaseType, InputOK
<1>2. /\ pc = "pacman.conf" /\ lines = PmLines /\ pacman = [key \in Options |-> <<>>]
      /\ pm = [inOptions |-> FALSE, parsedOptions |-> FALSE, syncdbs |-> <<>>,
               official |-> {}, commented |-> {}]
      /\ config = [op |-> "main", color |-> 1, noconfirm |-> FALSE, maxthreads |-> 0,
                   optMaxthreads |-> FALSE, flags |-> {}]
      /\ powaur_maxthreads = 0
    BY DEF StartupInit, PmLines
<1>3. ConfigOK
    <2>1. 1 \in 0..(UShortRange - 1)
        BY RangeIsNat
    <2> QED
        BY <1>2, <2>1 DEF ConfigOK, ConfigType
<1>4. PacmanInv
    <2>1. PmLines \in Seq(PmLine)
        BY <1>1 DEF InputOK, File, PmLines
    <2>2. IsRest(lines, PmLines, 0) /\ 0 \in 0..Len(PmLines)
        BY <1>2, <2>1, RestIsAll
    <2>3. ~InOptions(0 + 1)
        BY DEF InOptions
    <2>4. 1..0 = {}
        OBVIOUS
    <2>5. SectionsInv(0)
        BY <1>2, <2>3, <2>4 DEF SectionsInv
    <2>6. FlagsInv(0) /\ ValuesInv(0)
        BY <1>2, <2>4 DEF FlagsInv, ValuesInv
    <2>7. pm \in PmType
        BY <1>2 DEF PmType
    <2> QED
        BY <1>2, <2>1, <2>2, <2>5, <2>6, <2>7 DEF PacmanInv, Over
<1>5. ConfInv
    BY <1>2 DEF ConfInv
<1>6. ArgsInv
    BY <1>2 DEF ArgsInv, Over
<1> QED
    BY <1>1, <1>2, <1>3, <1>4, <1>5, <1>6 DEF StartupInv, Steps

\* Steps that change nothing.
LEMMA PacmanRests ==
    ASSUME UNCHANGED <<input, pc, lines, pacman, pm>>, PacmanInv
    PROVE  PacmanInv'
<1>1. /\ PmLines' = PmLines /\ Official' = Official /\ Commented' = Commented
      /\ HasEmptyCacheDir' = HasEmptyCacheDir /\ \A k : InOptions(k)' = InOptions(k)
    BY FilesStay
<1>2. ASSUME NEW n
      PROVE  /\ SectionsInv(n)' <=> SectionsInv(n)
             /\ FlagsInv(n)' <=> FlagsInv(n)
             /\ ValuesInv(n)' <=> ValuesInv(n)
    <2>1. SectionsInv(n)' <=> SectionsInv(n)
        BY <1>1 DEF SectionsInv
    <2>2. FlagsInv(n)' <=> FlagsInv(n)
        BY <1>1 DEF FlagsInv
    <2>3. ValuesInv(n)' <=> ValuesInv(n)
        BY <1>1 DEF ValuesInv
    <2> QED
        BY <2>1, <2>2, <2>3
<1>3. PacmanValues' <=> PacmanValues
    BY <1>1 DEF PacmanValues
<1> QED
    BY <1>1, <1>2, <1>3 DEF PacmanInv, Over, IsRest

LEMMA ConfAsItWas ==
    ASSUME UNCHANGED <<input, pc, lines, config, powaur_maxthreads>>, ConfInv
    PROVE  ConfInv'
<1>1. /\ ConfLines' = ConfLines /\ Limits' = Limits /\ Ons' = Ons /\ Offs' = Offs
      /\ Confirms' = Confirms /\ Switches' = Switches
    BY ConfStays
<1>2. ASSUME NEW n
      PROVE  (LimitInv(n)' <=> LimitInv(n)) /\ (SwitchInv(n)' <=> SwitchInv(n))
             /\ (ColorInv(n)' <=> ColorInv(n))
    BY <1>1, ConfStays DEF LimitInv, SwitchInv, ColorInv
<1>3. LimitCopied' <=> LimitCopied
    BY <1>1 DEF LimitCopied
<1> QED
    BY <1>1, <1>2, <1>3 DEF ConfInv, IsRest

LEMMA ArgsAsTheyWere ==
    ASSUME UNCHANGED <<input, pc, args, config, exit>>, ArgsInv
    PROVE  ArgsInv'
<1>1. /\ OperationsGiven' = OperationsGiven
      /\ CountsColours' <=> CountsColours
      /\ FileColours' = FileColours
      /\ ConfirmsNothing' <=> ConfirmsNothing
    BY ConfStays DEF OperationsGiven
<1>2. ASSUME NEW n
      PROVE  /\ AllAllowed(n)' <=> AllAllowed(n)
             /\ \A opt : Has(opt, n)' <=> Has(opt, n)
             /\ ColorWith(n)' = ColorWith(n)
    BY <1>1 DEF AllAllowed, AllowedOpts, Has, ColorWith
<1>3. ASSUME NEW n
      PROVE  (OptionsInv(n)' <=> OptionsInv(n)) /\ (OperationInv(n)' <=> OperationInv(n))
    BY <1>1, <1>2 DEF OptionsInv, OperationInv
<1>4. OneGiven' <=> OneGiven
    BY <1>1 DEF OneGiven
<1> QED
    BY <1>1, <1>2, <1>3, <1>4 DEF ArgsInv, Over, IsRest

LEMMA StartupKept == StartupInv /\ [StartupStep]_startupVars => StartupInv'
<1> SUFFICES ASSUME StartupInv, [StartupStep]_startupVars PROVE StartupInv'
    OBVIOUS
<1>1. CASE StartupStep
    <2>1. UNCHANGED input /\ pc' \in Steps
        <3>1. CASE ReadPacmanConf
            BY <3>1 DEF StartupInv, ReadPacmanConf, PmSection, PmOption, PmSkip, PmSet, Fail, Crash, Steps
        <3>2. CASE CannotOpenPacmanConf \/ SetDefaults \/ OpenAlpm \/ ReadPowaurConf
                   \/ PowaurDefaults \/ MakeDirectory
            BY <3>2 DEF StartupInv, CannotOpenPacmanConf, SetDefaults, OpenAlpm, ReadPowaurConf,
                PowaurDefaults, MakeDirectory, Fail, Steps
        <3>3. CASE ReadOperation \/ CheckOperation \/ ReadOption \/ ReadNames \/ Run \/ Cleanup
            BY <3>3 DEF StartupInv, ReadOperation, CheckOperation, ReadOption, ReadNames, Run,
                Cleanup, Fail, Steps
        <3> QED
            BY <1>1, <3>1, <3>2, <3>3 DEF StartupStep
    <2>2. InputOK'
        BY <2>1 DEF StartupInv, InputOK
    <2> QED
        BY <1>1, <2>1, <2>2, ConfigTyped, PacmanKept, ConfKept, ArgsKept DEF StartupInv
<1>2. CASE UNCHANGED startupVars
    <2>1. /\ UNCHANGED <<input, pc, lines, args, pacman, pm, config, powaur_maxthreads, exit>>
          /\ InputOK /\ ConfigOK /\ PacmanInv /\ ConfInv /\ ArgsInv /\ pc \in Steps
        BY <1>2 DEF startupVars, StartupInv
    <2>2. InputOK' /\ ConfigOK'
        BY <2>1 DEF InputOK, ConfigOK, ConfigType
    <2>3. PacmanInv'
        BY <2>1, PacmanRests
    <2>4. ConfInv'
        BY <2>1, ConfAsItWas
    <2>5. ArgsInv'
        BY <2>1, ArgsAsTheyWere
    <2> QED
        BY <2>1, <2>2, <2>3, <2>4, <2>5 DEF StartupInv
<1> QED
    BY <1>1, <1>2

\* In every state what is left of the file and of the command line is known,
\* and what has been read of them explains every value that is kept.
THEOREM StartupInvariant == StartupSpec => []StartupInv
<1> QED
    BY StartupStarts, StartupKept, PTL DEF StartupSpec

LEMMA ValuesFollow == StartupInv => PacmanAsDocumented
<1> SUFFICES ASSUME StartupInv, PacmanIsRead, NEW key \in Options,
                    ~(key = "CacheDir" /\ HasEmptyCacheDir)
             PROVE  pacman[key] = IF Gives(key, FALSE) # {} THEN FirstValue(Gives(key, FALSE))
                        ELSE IF Gives(key, TRUE) # {} THEN FirstValue(Gives(key, TRUE))
                        ELSE DefaultOf(key)
    BY DEF PacmanAsDocumented
<1>1. /\ InputOK /\ FlagsInv(Len(PmLines)) /\ PacmanValues
    BY DEF StartupInv, PacmanInv, PacmanIsRead, Over
<1>2. /\ Official[key] = Gives(key, FALSE) /\ Commented[key] = Gives(key, TRUE)
      /\ Official[key] \cap 1..Len(PmLines) = Official[key]
    BY <1>1, GivesInAll
<1>3. \A j, k \in Official[key] : j = k
    BY <1>1, <1>2 DEF FlagsInv
<1>4. Official[key] \subseteq Int /\ Commented[key] \subseteq Int
    BY <1>2 DEF Gives
<1>5. ASSUME NEW S, S \subseteq Int, NEW k \in S, \A j \in S : k <= j
      PROVE  FirstValue(S) = PmLines[k].value
    <2> DEFINE first == CHOOSE i \in S : \A j \in S : i <= j
    <2>1. first \in S /\ \A j \in S : first <= j
        BY <1>5
    <2> HIDE DEF first
    <2>2. first \in Int /\ k \in Int /\ first <= k /\ k <= first
        BY <1>5, <2>1
    <2>3. first = k
        BY <2>2
    <2> QED
        BY <2>3 DEF FirstValue, PmLines, first
<1>6. CASE Official[key] # {}
    <2>1. PICK k \in Official[key] : pacman[key] = PmLines[k].value
        BY <1>1, <1>6 DEF PacmanValues
    <2>2. \A j \in Official[key] : k <= j
        BY <1>3, <1>4
    <2>3. FirstValue(Official[key]) = PmLines[k].value
        BY <1>4, <1>5, <2>2
    <2> QED
        BY <1>2, <1>6, <2>1, <2>3
<1>7. CASE Official[key] = {} /\ Commented[key] # {}
    <2>1. PICK k \in Commented[key] :
              pacman[key] = PmLines[k].value /\ \A j \in Commented[key] : k <= j
        BY <1>1, <1>7 DEF PacmanValues
    <2>2. FirstValue(Commented[key]) = PmLines[k].value
        BY <1>4, <1>5, <2>1
    <2> QED
        BY <1>2, <1>7, <2>1, <2>2
<1>8. CASE Official[key] = {} /\ Commented[key] = {}
    BY <1>1, <1>2, <1>8 DEF PacmanValues
<1> QED
    BY <1>6, <1>7, <1>8

\* setup_pacman_environment: once pacman.conf has been read, each option has
\* its official value, else the first commented one, else the default.
THEOREM ValuesAsDocumented == StartupSpec => []PacmanAsDocumented
<1> QED
    BY StartupInvariant, ValuesFollow, PTL

LEMMA RepeatsFollow == StartupInv => RepeatsRefused
<1> SUFFICES ASSUME StartupInv, pc = "run" PROVE RepeatsRefused
    BY DEF RepeatsRefused
<1>1. /\ InputOK /\ pm \in PmType /\ IsInjective(pm.syncdbs)
      /\ SectionsInv(Len(PmLines)) /\ FlagsInv(Len(PmLines))
    BY DEF StartupInv, PacmanInv, Over
<1>2. ASSUME NEW key \in Options, NEW j \in Gives(key, FALSE), NEW k \in Gives(key, FALSE)
      PROVE  j = k
    <2>1. Official[key] = Gives(key, FALSE) /\ Official[key] \cap 1..Len(PmLines) = Official[key]
        BY <1>1, GivesInAll
    <2>2. \A i1, i2 \in Official[key] \cap 1..Len(PmLines) : i1 = i2
        BY <1>1 DEF FlagsInv
    <2> QED
        BY <1>2, <2>1, <2>2
<1>3. ASSUME NEW j \in 1..Len(PmLines), NEW k \in 1..Len(PmLines),
             PmLines[j].line = "section", PmLines[j] = PmLines[k]
      PROVE  j = k
    <2>1. PmLines[j].name \in {"options"} \cup ToSet(pm.syncdbs)
        BY <1>1, <1>3 DEF SectionsInv
    <2>2. CASE PmLines[j].name = "options"
        <3>1. PmLines[j] \in PmLine
            BY <1>1 DEF InputOK, File, PmLines
        <3>2. PmLines[j] = OptionsSection
            BY <1>3, <2>2, <3>1 DEF PmLine, OptionsSection
        <3> QED
            BY <1>1, <1>3, <3>2 DEF SectionsInv
    <2>3. CASE PmLines[j].name \in ToSet(pm.syncdbs)
        <3>1. pm.syncdbs \in Seq(Repos)
            BY <1>1 DEF PmType
        <3>2. PmLines[j].name \in Repos
            BY <2>3, <3>1 DEF ToSet
        <3> QED
            BY <1>1, <1>3, <3>2 DEF SectionsInv
    <2> QED
        BY <2>1, <2>2, <2>3
<1> QED
    BY <1>2, <1>3 DEF RepeatsRefused, PmLines

\* parse_pmconfig and alpm_register_syncdb: an operation starts only with
\* options, sections and repositories that are given once.
THEOREM NoRepeatIsTaken == StartupSpec => []RepeatsRefused
<1> QED
    BY StartupInvariant, RepeatsFollow, PTL

LEMMA OperationFollows == StartupInv => OneOperation
<1> SUFFICES ASSUME StartupInv, Accepted PROVE OneOperation
    BY DEF OneOperation
<1>1. OneGiven /\ AllAllowed(Len(input.argv)) /\ InputOK
    BY DEF StartupInv, ArgsInv, Accepted, Over
<1>2. PICK k \in 1..Len(input.argv) :
          OperationsGiven = {k} /\ config.op = input.argv[k].opt
    BY <1>1 DEF OneGiven
<1>3. ASSUME NEW a \in ToSet(input.argv) PROVE a.opt \in AllowedOpts
    <2>1. PICK i \in 1..Len(input.argv) : a = input.argv[i]
        BY <1>1 DEF ToSet, InputOK
    <2> QED
        BY <1>1, <2>1 DEF AllAllowed
<1> QED
    BY <1>2, <1>3 DEF OneOperation, AllowedOpts

\* parseargs: what runs is the only operation of the command line, and every
\* option is one of its own or one of all.
THEOREM OneIsRun == StartupSpec => []OneOperation
<1> QED
    BY StartupInvariant, OperationFollows, PTL

LEMMA OptionsFollow == StartupInv => SettingsAsGiven
<1> SUFFICES ASSUME StartupInv, pc = "run" PROVE SettingsAsGiven
    BY DEF SettingsAsGiven
<1> DEFINE all == Len(input.argv)
<1>1. /\ InputOK /\ LimitCopied
      /\ config.noconfirm <=> Has("--noconfirm", all) \/ ConfirmsNothing
      /\ CountsColours => config.color = IF input.tty THEN ColorWith(all) ELSE 0
    BY DEF StartupInv, ConfInv, ArgsInv
<1>2. \A opt : Has(opt, all) <=> HasArg(opt)
    BY <1>1 DEF Has, HasArg, ToSet, InputOK
<1>3. ThreadLimitIs(config.maxthreads)
    BY <1>1 DEF LimitCopied, ThreadLimitIs, IsLast, Limits
<1>4. config.noconfirm = (HasArg("--noconfirm") \/ ConfirmsNothing)
    <2>1. config.noconfirm \in BOOLEAN
        BY DEF StartupInv, ConfigOK, ConfigType
    <2>2. (HasArg("--noconfirm") \/ ConfirmsNothing) \in BOOLEAN
        OBVIOUS
    <2> QED
        BY <1>1, <1>2, <2>1, <2>2
<1>5. ASSUME CountsColours, Colours \in 0..(UShortRange - 1)
      PROVE  (config.color > 0) = (input.tty /\ Colours > 0)
    <2>1. /\ One(Has("--color", all)) = One(HasArg("--color"))
          /\ One(Has("--nocolor", all)) = One(HasArg("--nocolor"))
        BY <1>2 DEF One
    <2>2. ColorWith(all) = Colours % UShortRange
        BY <2>1 DEF ColorWith, Colours, FileColours
    <2>3. Colours % UShortRange = Colours
        BY <1>5, SmallModulo
    <2>4. config.color = IF input.tty THEN Colours ELSE 0
        BY <1>1, <1>5, <2>2, <2>3
    <2>5. input.tty \in BOOLEAN
        BY <1>1 DEF InputOK
    <2> QED
        BY <1>5, <2>4, <2>5, RangeIsNat
<1> QED
    BY <1>3, <1>4, <1>5 DEF SettingsAsGiven

\* powaur_init, parseargs and postargs_setup: when the operation runs, the
\* questions and the colours, and without --threads the limit of threads, are
\* what the one configuration file and the command line ask for, as long as no
\* colour is taken from 0.
THEOREM OptionsFromBoth == StartupSpec => []SettingsAsGiven
<1> QED
    BY StartupInvariant, OptionsFollow, PTL

=============================================================================
