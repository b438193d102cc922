----------------------------- MODULE MCPkgbuild -----------------------------
(* PKGBUILDs of up to five lines: two variables and an array that uses them  *)
(* for grab_dependencies, several arrays for parse_pkgbuild.                 *)
EXTENDS Pkgbuild

AllChars == {"n", "a", "b", "c", "d", "-", "#", "$", "{", "}", "space", "version", "quote"}

n == <<"n">>
nn == <<"n", "n">>
SomeNames == {n, nn}

A == Lit("a")
Dash == Lit("-")

\* As long as a reference to a variable, shorter and longer.
Plain == {<<>>, <<A>>, <<A, A>>, <<A, A, A>>, <<A, A, A, A>>}
SomePieces == {A, Dash, Ref(n), Ref(nn), BraceRef(n)}
\* $na is a reference to another variable.
TextsOf(lengths) ==
    {t \in UNION {[1..k -> SomePieces] : k \in lengths} :
        \A i \in 1..(Len(t) - 1) : IsRef(t[i]) => t[i + 1] # A}
Odd == {<<Ref(<<>>), Dash>>, <<BraceRef(<<>>), Ref(n)>>, <<Ref(<<>>)>>, <<Lit("$"), Lit("{"), A>>}

Deps(items) == ArrayLine("depends", TRUE, items)
Grab(ls) == [caller |-> "grab_dependencies", newline |-> TRUE, lines |-> ls]
Parse(ls, nl) == [caller |-> "parse_pkgbuild", newline |-> nl, lines |-> ls]

\* One element, after two assignments.
Expansion(vs, ws, ts) ==
    {Grab(<<Assignment(n, v, FALSE), Assignment(nn, w, FALSE), Deps(<<Item(t, FALSE, TRUE)>>)>>) :
        v \in vs, w \in ws, t \in ts}

Expansions ==
    Expansion(Plain, {<<>>, <<A>>, <<Dash, Ref(n)>>, <<Ref(n), BraceRef(n)>>}, TextsOf({2}) \cup Odd)
    \cup Expansion({<<>>, <<A, A, A>>}, {<<A, A, A, A>>, <<Ref(n), BraceRef(n)>>}, TextsOf({3}))
    \cup Expansion({<<>>}, {<<A, A, A, A>>}, {t \in TextsOf({4}) : Len(Cells(t)) <= MaxLen})

\* Quotes, an array as a variable, a variable assigned again, elements of an
\* array that look like assignments.
Provides(item, items) == <<ArrayLine("provides", TRUE, <<item>>), ItemLine(FALSE, items)>>
OtherAssignments ==
    {Grab((IF first THEN <<l>> \o m ELSE m \o <<l>>) \o <<Deps(<<Item(t, ver, FALSE), Paren>>)>>) :
        first \in BOOLEAN,
        l \in {Assignment(n, v, qu) : v \in Plain, qu \in BOOLEAN},
        m \in {<<Assignment(n, <<A>>, FALSE)>>,
               <<ArrayLine("arch", TRUE, <<Item(<<A>>, FALSE, TRUE)>>)>>,
               <<ArrayLine("arch", TRUE, <<Item(<<Dash, Ref(n)>>, FALSE, TRUE)>>)>>,
               <<OtherLine("comment")>>,
               Provides(Item(<<A>>, TRUE, FALSE), <<Item(<<A>>, TRUE, TRUE)>>),
               Provides(Item(<<A>>, FALSE, FALSE), <<Item(<<Lit("n")>>, TRUE, TRUE)>>),
               Provides(Item(<<A>>, FALSE, FALSE), <<Item(<<Lit("#")>>, FALSE, FALSE), Item(<<A>>, TRUE, TRUE)>>),
               Provides(Item(<<A>>, FALSE, FALSE),
                        <<Item(<<A>>, FALSE, FALSE), Item(<<Dash, A>>, TRUE, FALSE), Item(<<Ref(n)>>, FALSE, TRUE)>>)},
        t \in {<<A>>, <<Ref(n)>>, <<Ref(nn)>>, <<BraceRef(n), A>>, <<A, A, BraceRef(nn), BraceRef(nn)>>},
        ver \in BOOLEAN}

I(c, close) == Item(<<Lit(c)>>, FALSE, close)
Quotes(close) == Item(<<>>, FALSE, close)

\* How an array may be laid out.
Layouts(k) ==
    {<<ArrayLine(k, TRUE, <<I("a", TRUE)>>)>>,
     <<ArrayLine(k, TRUE, <<Item(<<A>>, TRUE, FALSE), I("b", FALSE), Paren>>)>>,
     <<ArrayLine(k, TRUE, <<Paren>>)>>,
     <<ArrayLine(k, TRUE, <<Quotes(TRUE)>>)>>,
     <<ArrayLine(k, TRUE, <<Quotes(FALSE), I("a", TRUE), I("#", FALSE), I("b", FALSE)>>)>>,
     <<ArrayLine(k, TRUE, <<I("a", FALSE), I("b", FALSE)>>), OtherLine("empty"),
       ItemLine(FALSE, <<I("c", TRUE)>>)>>,
     <<ArrayLine(k, TRUE, <<I("a", FALSE)>>), ItemLine(FALSE, <<Paren>>)>>,
     <<ArrayLine(k, FALSE, <<>>), OtherLine("empty"), ItemLine(TRUE, <<>>),
       ItemLine(FALSE, <<I("a", FALSE), Paren>>)>>}

Between == {<<>>, <<OtherLine("empty")>>, <<OtherLine("comment")>>, <<OtherLine("other")>>,
            <<Assignment(n, <<A>>, FALSE)>>}
After == {<<>>, <<OtherLine("other")>>, <<OtherLine("build")>>, <<OtherLine("build"), OtherLine("other")>>,
          <<ArrayLine("conflicts", TRUE, <<I("d", TRUE)>>)>>,
          <<ArrayLine("arch", FALSE, <<>>)>>, <<ArrayLine("arch", FALSE, <<>>), OtherLine("empty")>>}

Layered ==
    {[caller |-> c, newline |-> nl, lines |-> x \o b \o y \o z] :
        c \in {"grab_dependencies", "parse_pkgbuild"}, nl \in BOOLEAN,
        x \in Layouts("depends") \cup {<<>>}, b \in Between, y \in Layouts("provides"), z \in After}

AllFiles == Expansions \cup OtherAssignments \cup Layered
=============================================================================
