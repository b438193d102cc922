----------------------------- MODULE MCStartup ------------------------------
(* Runs of powaur with every pacman.conf of up to four lines of a few kinds  *)
(* and a plain command line, or with every command line of up to three      *)
(* arguments and a few configuration files.                                 *)
EXTENDS Startup

O(key, comment, value) == [line |-> "option", key |-> key, comment |-> comment, value |-> value]
S(name) == [line |-> "section", name |-> name]

SomeWords == {"x", "y"}
SomeRepos == {"core", "extra"}

PmLines ==
    {O("DBPath", c, v) : c \in BOOLEAN, v \in {<<"x">>, <<"y">>}}
    \cup {O("CacheDir", c, v) : c \in BOOLEAN, v \in {<<"x">>, <<"y", "x">>}}
    \cup {O("DBPath", TRUE, NOVALUE), O("CacheDir", TRUE, NOVALUE), O("DBPath", FALSE, <<>>),
          O("CacheDir", FALSE, <<>>)}
    \cup {S("options"), S("core"), S("extra"), S("no_name"), [line |-> "other"]}

Files(Lines, lengths) == UNION {[1..n -> Lines] : n \in lengths}

\* The sections come first in most files: the rest are those without.
PmFiles == UNION {{<<S("options")>> \o f : f \in Files(PmLines, 0..3)}, Files(PmLines, 1..2)}

SomeConfLines ==
    {[key |-> k, val |-> v] : k \in {"Color", "NoConfirm"}, v \in {"On", "Off", "other"}}
    \cup {[key |-> "MaxThreads", n |-> n] : n \in {-1, 0, 1, 10, 11}}

Opens(files) == [opens : {TRUE}, lines : files]
Missing == [opens |-> FALSE, lines |-> <<>>]

A(opt) == [opt |-> opt, n |-> 0]
Args ==
    {A(o) : o \in {"-S", "-G", "-Q", "--crawl", "-h", "-V", "-i", "-u", "--deps", "--color",
                    "--nocolor", "--noconfirm", "-w", "?"}}
    \cup {[opt |-> "--threads", n |-> n] : n \in {2, 70000}}

Plain ==
    [pm |-> Opens({<<>>}), xdg |-> {Missing}, home |-> {Missing}, argv |-> {<<A("-S")>>},
     names |-> {<<"x", "y", "x">>}, tty |-> {TRUE}]

AllCases ==
    {[Plain EXCEPT !.pm = {Missing} \cup Opens(PmFiles)],
     [Plain EXCEPT !.xdg = {Missing} \cup Opens(Files(SomeConfLines, 0..2)),
                   !.home = {Missing} \cup Opens(Files(SomeConfLines, {1}))],
     [Plain EXCEPT !.xdg = Opens({<<>>, <<[key |-> "Color", val |-> "On"]>>,
                                  <<[key |-> "Color", val |-> "Off"]>>,
                                  <<[key |-> "NoConfirm", val |-> "Off"]>>}),
                   !.argv = Files(Args, 0..3), !.tty = BOOLEAN]}
=============================================================================
