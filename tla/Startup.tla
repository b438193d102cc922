------------------------------ MODULE Startup -------------------------------
(***************************************************************************)
(* src/powaur.c, src/environment.c, src/conf.c: from main to the operation *)
(* and out again.                                                          *)
(*                                                                         *)
(* powaur reads pacman.conf (commented lines give defaults), opens         *)
(* libalpm, reads one powaur.conf, makes its directory, then reads the     *)
(* command line twice: once for the operation, once for the options it     *)
(* allows.  What an option is set to depends on that order.                *)
(*                                                                         *)
(* A file is a sequence of lines, already trimmed; a value is the sequence *)
(* of its words.                                                           *)
(***************************************************************************)
EXTENDS Integers, Sequences, SequencesExt, FiniteSets

CONSTANTS
    Words,      \* what the value of a pacman option is made of
    Repos,      \* names of repositories
    Cases       \* what a run of powaur may find, sets for each part of its input

Keyvals == {"RootDir", "DBPath"}
Options == Keyvals \cup {"CacheDir"}

NOVALUE == <<"no_value">>       \* of a line that has no equals sign

\* The name of a section "[]" is "no_name".
PmLine ==
    [line : {"option"}, key : Options, comment : BOOLEAN,
        value : Seq(Words) \cup {NOVALUE}]
        \cup [line : {"section"}, name : {"options", "no_name"} \cup Repos]
        \cup [line : {"other"}]

\* The switches Color and NoConfirm, and MaxThreads as atoi reads it.
ConfLine == [key : {"Color", "NoConfirm"}, val : {"On", "Off", "other"}]
                \cup [key : {"MaxThreads"}, n : Int]

\* A file that can be opened or not.
File(Line) == [opens : BOOLEAN, lines : Seq(Line)]

Operations == {"-G", "-S", "-Q", "-M", "-B", "--crawl", "--list-aur"}
Infos == {"-h", "-V"}
SyncOptions == {"-i", "-s", "-u", "--check"}
QueryOptions == {"-i", "-s"}
GetOptions == {"--deps"}
GlobalOptions ==
    {"--debug", "--vote", "--verbose", "--target", "--threads", "--color",
     "--nocolor", "--noconfirm"}

\* "-w" is in optstring and nowhere else, "?" is not known to getopt_long.
OptNames ==
    Operations \cup Infos \cup SyncOptions \cup GetOptions \cup GlobalOptions \cup {"-w", "?"}
Arg == [opt : OptNames, n : Int]

CaseType ==
    [pm : SUBSET File(PmLine), xdg : SUBSET File(ConfLine), home : SUBSET File(ConfLine),
     argv : SUBSET Seq(Arg), names : SUBSET Seq(Words), tty : SUBSET BOOLEAN]

ASSUME StartupAssumption ==
    /\ Cases \subseteq CaseType
    /\ "no_value" \notin Words
    \* parse_pmconfig looks for these names first.
    /\ {"options", "no_name"} \cap Repos = {}

VARIABLES
    input,      \* the files, arguments and terminal, never changed
    pc,         \* what comes next, see Steps
    lines,      \* the lines of the file being read that are left
    args,       \* the arguments of the pass that are left
    pacman,     \* pacman_rootdir, pacman_dbpath, pacman_cachedirs; <<>> is NULL
    pm,         \* parse_pmconfig and its static flags, see PmType
    config,     \* struct config_t
    powaur_maxthreads,
    powaur_targets,
    alpm,       \* config->handle and config are there
    exit        \* what main ends with, or CRASH

startupVars == <<input, pc, lines, args, pacman, pm, config, powaur_maxthreads, powaur_targets, alpm, exit>>

Steps == {"pacman.conf", "alpm", "powaur.conf", "directory", "operation", "options",
          "run", "cleanup", "exit"}

PmType ==
    [inOptions : BOOLEAN, parsedOptions : BOOLEAN, syncdbs : Seq(Repos),
     official : SUBSET Options, commented : SUBSET Options]

UShortRange == 65536    \* color is an unsigned short
ConfigType ==
    [op : {"main", "invalid"} \cup Operations, color : 0..(UShortRange - 1), noconfirm : BOOLEAN,
     maxthreads : 0..10, optMaxthreads : BOOLEAN, flags : SUBSET OptNames]

DefaultOf(key) == <<"default">>
MaxThreads == 10        \* PW_DEF_MAXTHREADS

CRASH == 139            \* ended by a signal

Fail == pc' = "cleanup" /\ exit' = 1
Crash == pc' = "exit" /\ exit' = CRASH

-----------------------------------------------------------------------------
StartupInit ==
    /\ \E c \in Cases : input \in
          [pm : c.pm, xdg : c.xdg, home : c.home, argv : c.argv, names : c.names, tty : c.tty]
    /\ pc = "pacman.conf"
    /\ lines = input.pm.lines
    /\ args = <<>>
    /\ pacman = [key \in Options |-> <<>>]
    /\ pm = [inOptions |-> FALSE, parsedOptions |-> FALSE, syncdbs |-> <<>>,
             official |-> {}, commented |-> {}]
    /\ config = [op |-> "main", color |-> 1, noconfirm |-> FALSE, maxthreads |-> 0,
                 optMaxthreads |-> FALSE, flags |-> {}]
    /\ powaur_maxthreads = 0
    /\ powaur_targets = <<>>
    /\ alpm = FALSE
    /\ exit = 0

(* parse_pmconfig.                                                         *)

\* A line is skipped: no option, an option outside the section, or ignored.
PmSkip ==
    /\ lines' = Tail(lines)
    /\ UNCHANGED <<pc, exit, pacman, pm>>

PmSection(name) ==
    \/ /\ name = "options" /\ ~pm.parsedOptions
       /\ pm' = [pm EXCEPT !.inOptions = TRUE, !.parsedOptions = TRUE]
       /\ lines' = Tail(lines)
       /\ UNCHANGED <<pc, exit, pacman>>
    \/ /\ (name = "options" /\ pm.parsedOptions) \/ name = "no_name"
       /\ Fail
       /\ UNCHANGED <<lines, pacman, pm>>
    \/ /\ name \in Repos
       /\ pm' = [pm EXCEPT !.inOptions = FALSE, !.syncdbs = Append(@, name)]
       /\ lines' = Tail(lines)
       /\ UNCHANGED <<pc, exit, pacman>>

\* Mutant: a commented line is set although the option has its official value.
IgnoredIfCommented(l) ==
    IF l.comment THEN l.key \in pm.commented ELSE l.key \in pm.official
\* parse_pmoption_keyval and parse_pmoption_repeat return at once.
Ignored(l) ==
    IF l.comment THEN l.key \in pm.official \cup pm.commented ELSE l.key \in pm.official

\* The value is set, and the flag that says so.
PmSet(l) ==
    /\ pacman' = [pacman EXCEPT ![l.key] = l.value]
    /\ pm' = IF l.comment THEN [pm EXCEPT !.commented = @ \cup {l.key}]
             ELSE [pm EXCEPT !.official = @ \cup {l.key}]
    /\ lines' = Tail(lines)
    /\ UNCHANGED <<pc, exit>>

\* Mutant: the test is in the wrong place and misses an option without default.
RepeatedCommented(l) == ~l.comment /\ l.key \in pm.official \cap pm.commented
\* An official option is given again.
Repeated(l) == ~l.comment /\ l.key \in pm.official

\* _parse_pmoption of a line of the section.  Without an equals sign strsep
\* leaves a null pointer, which strtrim reads; parse_pmoption_repeat looks for
\* the sign first, but empties the list before it looks at the value.
PmOption(l) ==
    \/ /\ Repeated(l)
       /\ Fail
       /\ UNCHANGED <<lines, pacman, pm>>
    \/ /\ ~Repeated(l) /\ Ignored(l)
       /\ PmSkip
    \/ /\ ~Ignored(l) /\ l.value = NOVALUE /\ l.key \in Keyvals
       /\ Crash
       /\ UNCHANGED <<lines, pacman, pm>>
    \/ /\ ~Ignored(l) /\ l.value = NOVALUE /\ l.key = "CacheDir"
       /\ PmSkip
    \/ /\ ~Ignored(l) /\ l.value = <<>> /\ l.key \in Keyvals
       /\ PmSkip
    \/ /\ ~Ignored(l) /\ l.value = <<>> /\ l.key = "CacheDir"
       /\ pacman' = [pacman EXCEPT !["CacheDir"] = <<>>]
       /\ lines' = Tail(lines)
       /\ UNCHANGED <<pc, exit, pm>>
    \/ /\ ~Ignored(l) /\ l.value \notin {<<>>, NOVALUE}
       /\ PmSet(l)

CannotOpenPacmanConf ==
    /\ pc = "pacman.conf"
    /\ ~input.pm.opens
    /\ Fail
    /\ UNCHANGED <<input, lines, args, pacman, pm, config, powaur_maxthreads, powaur_targets, alpm>>

ReadPacmanConf ==
    /\ pc = "pacman.conf"
    /\ input.pm.opens
    /\ lines # <<>>
    /\ LET l == Head(lines)
       IN  \/ l.line = "section" /\ PmSection(l.name)
           \/ l.line = "option" /\ pm.inOptions /\ PmOption(l)
           \/ l.line = "option" /\ ~pm.inOptions /\ PmSkip
           \/ l.line = "other" /\ PmSkip
    /\ UNCHANGED <<input, args, config, powaur_maxthreads, powaur_targets, alpm>>

\* The rest of setup_pacman_environment.
SetDefaults ==
    /\ pc = "pacman.conf"
    /\ input.pm.opens
    /\ lines = <<>>
    /\ pacman' = [key \in Options |-> IF pacman[key] = <<>> THEN DefaultOf(key) ELSE pacman[key]]
    /\ pc' = "alpm"
    /\ UNCHANGED <<input, lines, args, pm, config, powaur_maxthreads, powaur_targets, alpm, exit>>

\* setup_powaur_config parses the first file it can open.
\* Mutant: both files are parsed.
ConfBoth == input.home.lines \o input.xdg.lines
Conf == IF input.xdg.opens THEN input.xdg.lines
        ELSE IF input.home.opens THEN input.home.lines ELSE <<>>

\* alpm_initialize and alpm_db_register_sync may refuse anything.  That they
\* refuse a database of a name they know already is libalpm's doing and not
\* powaur's, which registers every section it has read: it is assumed here.
OpenAlpm ==
    /\ pc = "alpm"
    /\ \/ /\ IsInjective(pm.syncdbs)
          /\ alpm' = TRUE
          /\ pc' = "powaur.conf"
          /\ lines' = Conf
          /\ UNCHANGED exit
       \/ alpm' \in BOOLEAN /\ Fail /\ UNCHANGED lines
    /\ UNCHANGED <<input, args, pacman, pm, config, powaur_maxthreads, powaur_targets>>

-----------------------------------------------------------------------------
(* parse_powaur_config and the rest of powaur_init.                        *)

ColorLine(c, val) ==
    CASE val = "Off" -> (IF c > 0 THEN c - 1 ELSE c) [] val = "On" -> (c + 1) % UShortRange
      [] OTHER -> c

NoConfirmLine(noconfirm, val) ==
    CASE val = "Off" -> FALSE [] val = "On" -> TRUE [] OTHER -> noconfirm

\* A number out of range is as good as none.
InRange(n) == IF n \in 1..MaxThreads THEN n ELSE 0

ReadPowaurConf ==
    /\ pc = "powaur.conf"
    /\ lines # <<>>
    /\ LET l == Head(lines)
       IN  \/ /\ l.key = "Color"
              /\ config' = [config EXCEPT !.color = ColorLine(@, l.val)]
              /\ UNCHANGED powaur_maxthreads
           \/ /\ l.key = "NoConfirm"
              /\ config' = [config EXCEPT !.noconfirm = NoConfirmLine(@, l.val)]
              /\ UNCHANGED powaur_maxthreads
           \/ /\ l.key = "MaxThreads"
              /\ powaur_maxthreads' = InRange(l.n)
              /\ UNCHANGED config
    /\ lines' = Tail(lines)
    /\ UNCHANGED <<input, pc, args, pacman, pm, powaur_targets, alpm, exit>>

\* The limit of threads is copied here.
PowaurDefaults ==
    /\ pc = "powaur.conf"
    /\ lines = <<>>
    /\ powaur_maxthreads' = IF powaur_maxthreads = 0 THEN MaxThreads ELSE powaur_maxthreads
    /\ config' = [config EXCEPT !.maxthreads = powaur_maxthreads']
    /\ pc' = "directory"
    /\ UNCHANGED <<input, lines, args, pacman, pm, powaur_targets, alpm, exit>>

\* powaur_dir is made, libcurl set up; either may fail.
MakeDirectory ==
    /\ pc = "directory"
    /\ \/ pc' = "operation" /\ args' = input.argv /\ UNCHANGED exit
       \/ Fail /\ UNCHANGED args
    /\ UNCHANGED <<input, lines, pacman, pm, config, powaur_maxthreads, powaur_targets, alpm>>

-----------------------------------------------------------------------------
(* parseargs.                                                              *)

\* Mutant: the last operation counts.
LastOperation(op, opt) == opt
\* parsearg_op
Operation(op, opt) == IF op = "main" THEN opt ELSE "invalid"

ReadOperation ==
    /\ pc = "operation"
    /\ args # <<>>
    /\ LET opt == Head(args).opt
       IN  \/ /\ opt = "?"
              /\ Fail
              /\ UNCHANGED <<config, args>>
           \/ /\ opt # "?"
              /\ config' = CASE opt \in Operations -> [config EXCEPT !.op = Operation(@, opt)]
                             [] opt \in Infos -> [config EXCEPT !.flags = @ \cup {opt}]
                             [] OTHER -> config
              /\ args' = Tail(args)
              /\ UNCHANGED <<pc, exit>>
    /\ UNCHANGED <<input, lines, pacman, pm, powaur_maxthreads, powaur_targets, alpm>>

\* More than one operation, --version, --help, none, in this order.
CheckOperation ==
    /\ pc = "operation"
    /\ args = <<>>
    /\ \/ config.op = "invalid" /\ Fail /\ UNCHANGED args
       \/ /\ config.op # "invalid" /\ "-V" \in config.flags
          /\ pc' = "cleanup"
          /\ UNCHANGED <<exit, args>>
       \/ /\ config.op # "invalid" /\ "-V" \notin config.flags
          /\ config.op = "main" \/ "-h" \in config.flags
          /\ Fail
          /\ UNCHANGED args
       \/ /\ config.op \in Operations /\ config.flags = {}
          /\ pc' = "options"
          /\ args' = input.argv
          /\ UNCHANGED exit
    /\ UNCHANGED <<input, lines, pacman, pm, config, powaur_maxthreads, powaur_targets, alpm>>

\* parsearg_sync, parsearg_query, parsearg_get
OptionsOf(op) ==
    CASE op = "-S" -> SyncOptions [] op = "-Q" -> QueryOptions [] op = "-G" -> GetOptions
      [] OTHER -> {}

\* Each option counts once.
ColorOption(opt) ==
    IF opt \in config.flags THEN config
    ELSE [config EXCEPT !.color = (IF opt = "--color" THEN @ + 1 ELSE @ - 1) % UShortRange,
                        !.flags = @ \cup {opt}]

\* parsearg_global.  --threads sets the variable that was copied before.
GlobalOption(a) ==
    /\ config' = CASE a.opt \in {"--color", "--nocolor"} -> ColorOption(a.opt)
                   [] a.opt = "--noconfirm" -> [config EXCEPT !.noconfirm = TRUE]
                   [] a.opt = "--threads" -> [config EXCEPT !.optMaxthreads = TRUE]
                   [] OTHER -> [config EXCEPT !.flags = @ \cup {a.opt}]
    /\ powaur_maxthreads' = IF a.opt = "--threads" THEN a.n ELSE powaur_maxthreads

\* What neither the operation nor parsearg_global takes.
Refused(a) ==
    a.opt \notin Operations \cup Infos \cup OptionsOf(config.op) \cup GlobalOptions

ReadOption ==
    /\ pc = "options"
    /\ args # <<>>
    /\ LET a == Head(args)
       IN  \/ /\ Refused(a)
              /\ Fail
              /\ UNCHANGED <<config, powaur_maxthreads, args>>
           \/ /\ ~Refused(a)
              /\ args' = Tail(args)
              /\ \/ a.opt \in Operations \cup Infos /\ UNCHANGED <<config, powaur_maxthreads, powaur_targets>>
                 \/ /\ a.opt \in OptionsOf(config.op)
                    /\ config' = [config EXCEPT !.flags = @ \cup {a.opt}]
                    /\ UNCHANGED powaur_maxthreads
                 \/ a.opt \in GlobalOptions /\ GlobalOption(a)
              /\ UNCHANGED <<pc, exit>>
    /\ UNCHANGED <<input, lines, pacman, pm, powaur_targets, alpm>>

WithoutRepeats(list) ==
    FoldLeft(LAMBDA acc, t : IF Contains(acc, t) THEN acc ELSE Append(acc, t), <<>>, list)

\* What is left are names, each taken once; then postargs_setup.
ReadNames ==
    /\ pc = "options"
    /\ args = <<>>
    /\ powaur_targets' = WithoutRepeats(input.names)
    /\ config' = [config EXCEPT !.color = IF input.tty THEN @ ELSE 0]
    /\ pc' = "run"
    /\ UNCHANGED <<input, lines, args, pacman, pm, powaur_maxthreads, alpm, exit>>

\* The operation answers 0, or something else.
Run ==
    /\ pc = "run"
    /\ \E ret \in {0, -1} : exit' = IF ret = 0 THEN 0 ELSE 1
    /\ pc' = "cleanup"
    /\ UNCHANGED <<input, lines, args, pacman, pm, config, powaur_maxthreads, powaur_targets, alpm>>

\* powaur_cleanup frees config and then releases config->handle.
Cleanup ==
    /\ pc = "cleanup"
    /\ pc' = "exit"
    /\ exit' \in {exit, CRASH}
    /\ alpm' = FALSE
    /\ UNCHANGED <<input, lines, args, pacman, pm, config, powaur_maxthreads, powaur_targets>>

StartupStep ==
    \/ CannotOpenPacmanConf
    \/ ReadPacmanConf
    \/ SetDefaults
    \/ OpenAlpm
    \/ ReadPowaurConf
    \/ PowaurDefaults
    \/ MakeDirectory
    \/ ReadOperation
    \/ CheckOperation
    \/ ReadOption
    \/ ReadNames
    \/ Run
    \/ Cleanup

StartupSpec == StartupInit /\ [][StartupStep]_startupVars

-----------------------------------------------------------------------------
(* Properties.                                                             *)

StartupTypeOK ==
    /\ pc \in Steps
    /\ DOMAIN pacman = Options
    /\ pm \in PmType
    /\ config \in ConfigType
    /\ powaur_maxthreads \in Int
    /\ IsInjective(powaur_targets)
    /\ alpm \in BOOLEAN
    /\ exit \in {0, 1, CRASH}

\* The lines of pacman.conf below [options] and above the next repository.
InOptions(k) ==
    \E j \in 1..k-1 :
        /\ input.pm.lines[j] = [line |-> "section", name |-> "options"]
        /\ \A i \in j+1..k-1 : input.pm.lines[i].line # "section"

\* Those that give key a value, commented ones or official ones.
Gives(key, comment) ==
    {k \in 1..Len(input.pm.lines) :
        LET l == input.pm.lines[k]
        IN  /\ l.line = "option" /\ InOptions(k)
            /\ l.key = key /\ l.comment = comment
            /\ l.value \notin {<<>>, NOVALUE}}

FirstValue(S) == input.pm.lines[CHOOSE k \in S : \A j \in S : k <= j].value

HasEmptyCacheDir ==
    \E l \in ToSet(input.pm.lines) :
        l.line = "option" /\ l.key = "CacheDir" /\ l.value = <<>>

PacmanIsRead == pc \notin {"pacman.conf", "cleanup", "exit"}

\* TECHNICAL:30-47.  An option has its official value, wherever the line is,
\* without one the first commented value, and without any the default.  (A
\* line "CacheDir =" without directories drops what was given before.)
PacmanAsDocumented ==
    PacmanIsRead => \A key \in Options :
        ~(key = "CacheDir" /\ HasEmptyCacheDir) =>
        pacman[key] = IF Gives(key, FALSE) # {} THEN FirstValue(Gives(key, FALSE))
                      ELSE IF Gives(key, TRUE) # {} THEN FirstValue(Gives(key, TRUE))
                      ELSE DefaultOf(key)

\* TECHNICAL:46: "Subsequent matches to the same non-commented option will be
\* deemed an error" (a match without a value is none), and so are a second
\* [options] and, because libalpm refuses it, a repeated repository: powaur
\* does not get to an operation.
RepeatsRefused ==
    pc = "run" =>
        /\ \A key \in Options : \A j, k \in Gives(key, FALSE) : j = k
        /\ \A j, k \in 1..Len(input.pm.lines) :
              input.pm.lines[j].line = "section" /\ input.pm.lines[j] = input.pm.lines[k]
                => j = k

\* Runs that start an operation, or end well without --version.
Accepted == pc = "run" \/ (pc = "exit" /\ exit = 0 /\ "-V" \notin config.flags)
OperationsGiven == {k \in 1..Len(input.argv) : input.argv[k].opt \in Operations}

\* An operation runs, and powaur ends with 0, only if the command line has one
\* operation and no option that is not its own, wherever they stand.
OneOperation ==
    Accepted => \E k \in 1..Len(input.argv) :
        /\ OperationsGiven = {k}
        /\ config.op = input.argv[k].opt
        /\ \A a \in ToSet(input.argv) : a.opt \in
              Operations \cup Infos \cup OptionsOf(config.op) \cup GlobalOptions

\* The lines of the one configuration file that counts.
ConfLines ==
    IF input.xdg.opens THEN input.xdg.lines
    ELSE IF input.home.opens THEN input.home.lines ELSE <<>>

LinesOf(key) == {k \in 1..Len(ConfLines) : ConfLines[k].key = key}
LinesWith(key, vals) == {k \in LinesOf(key) : ConfLines[k].val \in vals}

\* k is the last of them.
IsLast(k, S) == k \in S /\ \A j \in S : j <= k

HasArg(opt) == \E a \in ToSet(input.argv) : a.opt = opt

ThreadLimitIs(n) ==
    \/ \E k \in LinesOf("MaxThreads") :
          IsLast(k, LinesOf("MaxThreads")) /\ ConfLines[k].n \in 1..MaxThreads /\ n = ConfLines[k].n
    \/ /\ n = MaxThreads
       /\ \A k \in LinesOf("MaxThreads") :
             IsLast(k, LinesOf("MaxThreads")) => ConfLines[k].n \notin 1..MaxThreads

ConfirmsNothing ==
    \E k \in LinesWith("NoConfirm", {"On"}) : IsLast(k, LinesWith("NoConfirm", {"On", "Off"}))

One(b) == IF b THEN 1 ELSE 0
\* Colours start at 1; what the first k lines make of them.
ColoursTo(k) ==
    1 + Cardinality(LinesWith("Color", {"On"}) \cap 1..k)
      - Cardinality(LinesWith("Color", {"Off"}) \cap 1..k)

\* The count never goes below 0 in the file, nor beyond its type.
CountsColours == \A k \in 0..Len(ConfLines) : ColoursTo(k) \in 0..(UShortRange - 1)

Colours == ColoursTo(Len(ConfLines)) + One(HasArg("--color")) - One(HasArg("--nocolor"))

\* powaur.1.txt:139-167.  Of two files only the first is used.  Without
\* --threads the limit of threads is the one its last MaxThreads gives, 10
\* without one in 1..10.  Questions are left out exactly when --noconfirm or
\* the last NoConfirm asks for it.  "On" and --color add one to the colours,
\* "Off" and --nocolor take one, each option once however often it is given;
\* more than 0 on a terminal means colours.  Nothing is said of the limit with
\* --threads, which the code ignores (environment.c:243) and powaur.1.txt:79-81
\* says overrides the file, nor of colours when one is taken from 0, which
\* switches them on (powaur.c:278).
SettingsAsGiven ==
    pc = "run" =>
        /\ ~HasArg("--threads") => ThreadLimitIs(config.maxthreads)
        /\ config.noconfirm = (HasArg("--noconfirm") \/ ConfirmsNothing)
        /\ CountsColours /\ Colours \in 0..(UShortRange - 1) =>
              (config.color > 0) = (input.tty /\ Colours > 0)
=============================================================================
