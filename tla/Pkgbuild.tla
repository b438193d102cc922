------------------------------ MODULE Pkgbuild ------------------------------
(***************************************************************************)
(* src/package.c: the two readers of a PKGBUILD.                           *)
(*                                                                         *)
(* grab_dependencies reads assignments into a table of variables up to the *)
(* array "depends", and returns the elements of that array, their          *)
(* variables substituted and their versions cut off.  parse_pkgbuild       *)
(* collects the elements of five arrays as they are written.               *)
(*                                                                         *)
(* substitute_vars works in place, in a buffer of fixed size: the text of  *)
(* a value or of an element is a sequence of pieces in the file, and one   *)
(* of cells, one per character, in the buffer.                             *)
(***************************************************************************)
EXTENDS Integers, Sequences, SequencesExt

CONSTANTS
    Chars,      \* the characters of a PKGBUILD
    Names,      \* names of variables, sequences of NameChars
    NameChars,  \* what isalnum and '_' accept
    MaxLen,     \* PATH_MAX - 1: the longest text a buffer holds
    Files       \* the PKGBUILDs that may be read

Nul == "nul"
Dollar == "$"
HashMark == "#"
LeftBrace == "{"
RightBrace == "}"

Lit(c) == [lit |-> c]
Ref(name) == [ref |-> name, brace |-> FALSE]        \* $name
BraceRef(name) == [ref |-> name, brace |-> TRUE]    \* ${name}
IsRef(piece) == "ref" \in DOMAIN piece

Arrays == {"depends", "provides", "conflicts", "replaces", "arch"}

\* An element of an array: text, a version condition with an "=" or not (one
\* without is cut off as well), and whether a ")" follows without a space.
Item(text, ver, close) == [text |-> text, ver |-> ver, quotes |-> TRUE, close |-> close]
Paren == [text |-> <<>>, ver |-> FALSE, quotes |-> FALSE, close |-> TRUE]

\* A line is trimmed.  Only arrays have items; "opens" says that the line has
\* a "(", after which its items are.
ArrayLine(key, opens, items) == [line |-> "array", key |-> key, opens |-> opens, items |-> items]
ItemLine(opens, items) == [line |-> "items", opens |-> opens, items |-> items]
Assignment(var, text, quoted) == [line |-> "assign", var |-> var, text |-> text, quoted |-> quoted]
OtherLine(what) == [line |-> what]      \* "empty", "comment", "other", "build"

HasItems(l) == l.line \in {"array", "items"}
Opens(l) == HasItems(l) /\ l.opens

Closes(l) == HasItems(l) /\ \E k \in DOMAIN l.items : l.items[k].close

\* The text of a line is read as far as it goes: $na is no reference to n.
Pieces == [lit : Chars] \cup [ref : Seq(NameChars), brace : BOOLEAN]
Texts ==
    {t \in Seq(Pieces) :
        \A i \in 1..(Len(t) - 1) :
            IsRef(t[i]) /\ ~t[i].brace /\ ~IsRef(t[i + 1]) => t[i + 1].lit \notin NameChars}
Items == [text : Texts, ver : BOOLEAN, quotes : {TRUE}, close : BOOLEAN] \cup {Paren}
Lines ==
    [line : {"array"}, key : Arrays, opens : BOOLEAN, items : Seq(Items)]
    \cup [line : {"items"}, opens : BOOLEAN, items : Seq(Items)]
    \cup [line : {"assign"}, var : Names, text : Texts, quoted : BOOLEAN]
    \cup [line : {"empty", "comment", "other", "build"}]

\* An array is opened, then its elements follow, and it is closed before any
\* other line: the file is one bash can read.  (A line that only begins like an
\* array, and has no "(", may come last.)
WellFormed(ls) ==
    \A i \in DOMAIN ls : ls[i].line = "array" =>
        \/ \A k \in i..Len(ls) : ~Opens(ls[k])
        \/ \E j \in i..Len(ls) : \E k \in j..Len(ls) :
              /\ Opens(ls[j]) /\ Closes(ls[k])
              /\ \A m \in (i + 1)..k : ls[m].line \in {"items", "empty"}
              /\ \A m \in i..(j - 1) : HasItems(ls[m]) => ls[m].items = <<>>

ASSUME PkgbuildAssumption ==
    /\ Names \subseteq Seq(NameChars) \ {<<>>}
    /\ NameChars \subseteq Chars \ {Dollar, LeftBrace, RightBrace, "space"}
    /\ {Dollar, LeftBrace, RightBrace, "space", "version", "quote"} \subseteq Chars
    /\ Nul \notin Chars
    /\ Arrays \cap Chars = {}
    /\ MaxLen \in Nat
    /\ \A f \in Files :
          /\ f.caller \in {"grab_dependencies", "parse_pkgbuild"}
          /\ f.newline \in BOOLEAN          \* after the last line
          /\ f.lines \in Seq(Lines)
          /\ WellFormed(f.lines)

VARIABLES
    file,       \* one of Files, never changed
    pc,         \* "lines", "substitute", "preamble", "array", "returned", "overrun"
    at,         \* lines read
    eof,        \* feof(fp)
    hash,       \* the table of variables
    str, len,   \* the buffer of substitute_vars and the length it believes in
    s,          \* where its search goes on
    var,        \* the variable being assigned, <<>> in an array
    key,        \* the array being read
    tokens,     \* the items of the line not yet looked at
    can_break,
    lists       \* what was read of each array

textVars == <<str, len, s>>
arrayVars == <<key, tokens, can_break>>
pkgbuildVars == <<file, pc, at, eof, hash, textVars, var, arrayVars, lists>>

lines == file.lines
Grabs == file.caller = "grab_dependencies"

-----------------------------------------------------------------------------
(* Buffers.                                                                *)

PieceCells(p) ==
    IF ~IsRef(p) THEN <<p.lit>>
    ELSE IF p.brace THEN <<Dollar, LeftBrace>> \o p.ref \o <<RightBrace>> ELSE <<Dollar>> \o p.ref

Cells(text) == FlattenSeq([i \in DOMAIN text |-> PieceCells(text[i])])

Buffer(cells) == [i \in 1..(MaxLen + 1) |-> IF i <= Len(cells) THEN cells[i] ELSE Nul]

\* Where the string that starts at i ends.
NulFrom(i) == CHOOSE k \in i..(MaxLen + 1) : str[k] = Nul /\ \A j \in i..(k - 1) : str[j] # Nul

Text == SubSeq(str, 1, NulFrom(1) - 1)

\* strchr, 0 for NULL
strchr(i, c) ==
    IF \E k \in i..NulFrom(i) : str[k] = c
    THEN CHOOSE k \in i..NulFrom(i) : str[k] = c /\ \A j \in i..(k - 1) : str[j] # c
    ELSE 0

-----------------------------------------------------------------------------
(* substitute_vars.                                                        *)

p == strchr(s, Dollar)
InBraces == str[p + 1] = LeftBrace
NameStart == IF InBraces THEN p + 2 ELSE p + 1

\* "}", or the first character that is not of the name
q ==
    IF InBraces THEN strchr(NameStart, RightBrace)
    ELSE CHOOSE k \in NameStart..(MaxLen + 1) :
            str[k] \notin NameChars /\ \A j \in NameStart..(k - 1) : str[j] \in NameChars

IsReference == p # 0 /\ str[p + 1] # Nul /\ q # 0
needle == SubSeq(str, NameStart, q - 1)
AfterReference == IF InBraces THEN q + 1 ELSE q

IsKnown == needle # <<>> /\ needle \in DOMAIN hash
sub == hash[needle]
diff == Len(sub) - (AfterReference - p)
newlen == len + diff

\* Mutant: the size of the buffer is not looked at.
FitsAlways == newlen >= 0
Fits == (diff > 0 => newlen <= MaxLen) /\ newlen >= 0

\* The text goes into a buffer of zeros.
Substitute(cells) ==
    /\ str' = Buffer(cells)
    /\ len' = Len(cells)
    /\ s' = 1
    /\ pc' = "substitute"

\* Mutant: an unknown variable is found again.
SkipAgain ==
    /\ pc = "substitute"
    /\ IsReference /\ ~IsKnown
    /\ s' = p
    /\ UNCHANGED <<file, pc, at, eof, hash, str, len, var, arrayVars, lists>>

SkipReference ==
    /\ pc = "substitute"
    /\ IsReference /\ ~IsKnown
    /\ s' = AfterReference
    /\ UNCHANGED <<file, pc, at, eof, hash, str, len, var, arrayVars, lists>>

\* Mutant: the rest is not moved.
ReplacedInPlace ==
    [i \in DOMAIN str |->
        IF i \in p..(p + Len(sub) - 1) THEN sub[i - p + 1]
        ELSE IF diff < 0 /\ i = newlen + 1 THEN Nul
        ELSE str[i]]

\* The rest is moved, the value is copied.  The end is marked when the text has
\* become shorter, not when it has become longer.
Replaced ==
    [i \in DOMAIN str |->
        IF diff < 0 /\ i = newlen + 1 THEN Nul
        ELSE IF i \in p..(p + Len(sub) - 1) THEN sub[i - p + 1]
        ELSE IF i \in (AfterReference + diff)..newlen THEN str[i - diff]
        ELSE str[i]]

\* The rest as it is moved, or the value as it is copied, takes the place of the
\* last nul or goes on past it.
RunsOver == diff > 0 /\ (newlen > MaxLen \/ p + Len(sub) - 1 > MaxLen)

\* Nothing is known of the program from here on.
Overrun ==
    /\ pc = "substitute"
    /\ IsReference /\ IsKnown /\ Fits /\ RunsOver
    /\ pc' = "overrun"
    /\ UNCHANGED <<file, at, eof, hash, textVars, var, arrayVars, lists>>

\* A value as long as the reference is not copied, and the search goes on at
\* the same reference.
ReplaceReference ==
    /\ pc = "substitute"
    /\ IsReference /\ IsKnown /\ Fits /\ ~RunsOver
    /\ IF diff = 0
       THEN s' = p /\ UNCHANGED <<str, len>>
       ELSE s' = p + Len(sub) /\ str' = Replaced /\ len' = newlen
    /\ UNCHANGED <<file, pc, at, eof, hash, var, arrayVars, lists>>

\* hashmap_insert: the first assignment to a variable counts.
Insert(v, val) ==
    [x \in DOMAIN hash \cup {v} |-> IF x \in DOMAIN hash THEN hash[x] ELSE val]

Add(text) == [lists EXCEPT ![key] = Append(@, text)]

SubstituteReturns ==
    /\ pc = "substitute"
    /\ ~IsReference \/ (IsKnown /\ ~Fits)
    /\ IF var = <<>>
       THEN lists' = Add(Text) /\ pc' = "array" /\ UNCHANGED hash
       ELSE hash' = Insert(var, Text) /\ pc' = "lines" /\ UNCHANGED lists
    /\ UNCHANGED <<file, at, eof, textVars, var, arrayVars>>

-----------------------------------------------------------------------------
(* Lines and arrays.                                                       *)

\* The line fgets returns next, and feof(fp) after it.
NextLine == lines[at + 1]
EofAfter(n) == n > Len(lines) \/ (n = Len(lines) /\ ~file.newline)

fgets ==
    /\ at < Len(lines)
    /\ at' = at + 1
    /\ eof' = EofAfter(at')

IsArrayOf(l) == l.line = "array" /\ (Grabs => l.key = "depends")

\* Text of a line that holds an array, as grab_dependencies takes it for the
\* value of a variable; "space" stands for "(", quotes and spaces.
ArrayText(items) == FlattenSeq([i \in DOMAIN items |-> <<Lit("space")>> \o items[i].text])

Conditions(l) == {k \in DOMAIN l.items : l.items[k].ver}
FirstCondition(l) == CHOOSE k \in Conditions(l) : \A j \in Conditions(l) : k <= j
UpToCondition(l) == SubSeq(l.items, 1, FirstCondition(l))
AfterCondition(l) == SubSeq(l.items, FirstCondition(l) + 1, Len(l.items))

IsComment(l) == ~l.opens /\ Head(l.items).text # <<>> /\ Head(Head(l.items).text) = Lit(HashMark)

\* A line within an array counts as well, if a version condition has an "=".
\* (That of an array that opens on a later line sets its own name to nothing,
\* which is no name of a variable.)
IsAssigned(l) ==
    \/ l.line = "assign"
    \/ l.line = "array" /\ l.opens
    \/ l.line = "items" /\ Conditions(l) # {} /\ ~IsComment(l)

\* The text before the "=".  An array has its own name.  The text of its first
\* element may be the name of a variable, if no quotes and no "<" are around it.
AssignedTo(l) ==
    CASE l.line = "assign" -> {l.var}
      [] l.line = "array" -> {<<l.key>>}
      [] l.line = "items" ->
            ({Cells(ArrayText(UpToCondition(l)))}
             \cup IF FirstCondition(l) = 1 /\ ~l.opens THEN {Cells(Head(l.items).text)} ELSE {})
            \ {<<>>}

\* The value of an assignment keeps its quotes.
Value(l) ==
    CASE l.line = "assign" ->
            IF l.quoted THEN <<"quote">> \o Cells(l.text) \o <<"quote">> ELSE Cells(l.text)
      [] l.line = "array" -> Cells(ArrayText(l.items))
      [] l.line = "items" -> <<"version">> \o Cells(ArrayText(AfterCondition(l)))

\* fgets reads PATH_MAX - 1 characters at most: a longer line comes as two.
FitsBuffer(l) ==
    /\ IsAssigned(l) /\ ~(l.line = "array" /\ l.key = "depends") => Len(Value(l)) <= MaxLen
    /\ HasItems(l) => \A k \in DOMAIN l.items : Len(Cells(l.items[k].text)) <= MaxLen

ASSUME LinesFit == \A f \in Files : \A i \in DOMAIN f.lines : FitsBuffer(f.lines[i])

FileEnds ==
    /\ pc = "lines"
    /\ at = Len(lines)
    /\ pc' = "returned"
    /\ eof' = TRUE
    /\ UNCHANGED <<file, at, hash, textVars, var, arrayVars, lists>>

StopAtBuild ==
    /\ pc = "lines" /\ ~Grabs
    /\ fgets
    /\ NextLine.line = "build"
    /\ pc' = "returned"
    /\ UNCHANGED <<file, hash, textVars, var, arrayVars, lists>>

SkipLine ==
    /\ pc = "lines"
    /\ fgets
    /\ ~IsArrayOf(NextLine)
    /\ IF Grabs THEN ~IsAssigned(NextLine) ELSE NextLine.line # "build"
    /\ UNCHANGED <<file, pc, hash, textVars, var, arrayVars, lists>>

Assign ==
    /\ pc = "lines" /\ Grabs
    /\ fgets
    /\ ~IsArrayOf(NextLine) /\ IsAssigned(NextLine)
    /\ var' \in AssignedTo(NextLine)
    /\ Substitute(Value(NextLine))
    /\ UNCHANGED <<file, hash, arrayVars, lists>>

AfterArray == pc' = (IF Grabs THEN "returned" ELSE "lines") /\ tokens' = <<>>

\* parse_bash_array does not look at a line that was the last one of the file
\* and does not end.
EnterArray(items) ==
    /\ can_break' = FALSE
    /\ IF eof' THEN AfterArray ELSE pc' = "array" /\ tokens' = items

\* Mutant: the elements go to the list of the dependencies.
DependsAlways(l) == "depends"
ListOf(l) == l.key

BeginArray ==
    /\ pc = "lines"
    /\ fgets
    /\ IsArrayOf(NextLine)
    /\ key' = ListOf(NextLine)
    /\ var' = <<>>
    /\ IF Opens(NextLine) THEN EnterArray(NextLine.items)
       ELSE pc' = "preamble" /\ UNCHANGED <<tokens, can_break>>
    /\ UNCHANGED <<file, hash, textVars, lists>>

\* PARSE_BASH_ARRAY_PREAMBLE reads on, to a "(" or to the end of the file.
FindParen ==
    /\ pc = "preamble"
    /\ fgets
    /\ IF eof' \/ Opens(NextLine) THEN EnterArray(NextLine.items)
       ELSE UNCHANGED <<pc, tokens, can_break>>
    /\ UNCHANGED <<file, hash, textVars, var, key, lists>>

ParenNotFound ==
    /\ pc = "preamble"
    /\ at = Len(lines)
    /\ eof' = TRUE
    /\ AfterArray
    /\ UNCHANGED <<file, at, hash, textVars, var, key, can_break, lists>>

\* The next line is read before can_break is looked at: the line after an
\* array is lost.
NextArrayLine ==
    /\ pc = "array"
    /\ tokens = <<>>
    /\ IF at < Len(lines) THEN fgets ELSE eof' = TRUE /\ UNCHANGED at
    /\ IF eof' \/ can_break THEN AfterArray
       ELSE tokens' = (IF HasItems(NextLine) THEN NextLine.items ELSE <<>>) /\ UNCHANGED pc
    /\ UNCHANGED <<file, hash, textVars, var, key, can_break, lists>>

SkipToken ==
    /\ pc = "array"
    /\ tokens # <<>>
    /\ Head(tokens).text = <<>>
    /\ Head(tokens) = Paren \/ ~Head(tokens).close
    /\ IF Head(tokens) = Paren
       THEN tokens' = <<>> /\ can_break' = TRUE
       ELSE tokens' = Tail(tokens) /\ UNCHANGED can_break
    /\ UNCHANGED <<file, pc, at, eof, hash, textVars, var, key, lists>>

\* grab_dependencies wants no version conditions.
Element(item) == Cells(item.text) \o (IF item.ver /\ ~Grabs THEN <<"version">> ELSE <<>>)

\* An element is read whatever comes after a ")" or a "#" of its line.
ReadToken ==
    /\ pc = "array"
    /\ tokens # <<>>
    /\ Head(tokens).text # <<>> \/ (Head(tokens).quotes /\ Head(tokens).close)
    /\ tokens' = Tail(tokens)
    /\ can_break' = (can_break \/ Head(tokens).close)
    /\ IF Grabs
       THEN Substitute(Element(Head(tokens))) /\ UNCHANGED lists
       ELSE lists' = Add(Element(Head(tokens))) /\ UNCHANGED <<pc, textVars>>
    /\ UNCHANGED <<file, at, eof, hash, var, key>>

-----------------------------------------------------------------------------
PkgbuildInit ==
    /\ file \in Files
    /\ pc = "lines"
    /\ at = 0
    /\ eof = FALSE
    /\ hash = <<>>
    /\ str = Buffer(<<>>) /\ len = 0 /\ s = 1
    /\ var = <<>>
    /\ key = "depends" /\ tokens = <<>> /\ can_break = FALSE
    /\ lists = [k \in Arrays |-> <<>>]

ReadFile == FileEnds \/ StopAtBuild \/ SkipLine \/ Assign \/ BeginArray
ReadArray == FindParen \/ ParenNotFound \/ NextArrayLine \/ SkipToken \/ ReadToken
substitute_vars == SkipReference \/ ReplaceReference \/ Overrun \/ SubstituteReturns

PkgbuildStep == ReadFile \/ ReadArray \/ substitute_vars

PkgbuildSpec == PkgbuildInit /\ [][PkgbuildStep]_pkgbuildVars
\* The program runs on.
FairPkgbuildSpec == PkgbuildSpec /\ WF_pkgbuildVars(PkgbuildStep)

-----------------------------------------------------------------------------
(* What the file says, to bash.                                            *)

\* The values of the variables; names of arrays are not used as variables.
Expanded(env, text) ==
    FlattenSeq([i \in DOMAIN text |->
        IF ~IsRef(text[i]) THEN <<text[i].lit>>
        ELSE IF text[i].ref \in DOMAIN env THEN env[text[i].ref] ELSE <<>>])

SetTo(env, l) ==
    IF l.line # "assign" THEN env
    ELSE [x \in DOMAIN env \cup {l.var} |-> IF x = l.var THEN Expanded(env, l.text) ELSE env[x]]

\* After the first i lines.
Environment[i \in 0..Len(lines)] ==
    IF i = 0 THEN <<>> ELSE SetTo(Environment[i - 1], lines[i])
Before(i) == Environment[i - 1]

IsOf(l, k) == l.line = "array" /\ l.key = k
Says(k) == \E i \in DOMAIN lines : IsOf(lines[i], k)
LineOf(k) == CHOOSE i \in DOMAIN lines : IsOf(lines[i], k) /\ \A j \in 1..(i - 1) : ~IsOf(lines[j], k)

\* The line that closes the array of line i, and its elements.
ClosedAt(i) == CHOOSE j \in i..Len(lines) : Closes(lines[j]) /\ \A n \in i..(j - 1) : ~Closes(lines[n])
ItemsOf(i) ==
    FlattenSeq([n \in 1..(ClosedAt(i) - i + 1) |->
        IF HasItems(lines[i + n - 1]) THEN lines[i + n - 1].items ELSE <<>>])

\* What a reader should return of the items of an array.
Elements(env, items) ==
    FlattenSeq([n \in DOMAIN items |->
        IF items[n].text = <<>> THEN <<>>
        ELSE <<IF Grabs THEN Expanded(env, items[n].text) ELSE Element(items[n])>>])

Written(k) == Elements(Before(LineOf(k)), ItemsOf(LineOf(k)))

-----------------------------------------------------------------------------
(* What a PKGBUILD must not have, for its readers to agree with bash.      *)

\* A comment, or '' right before the ")", or text right after it.
HasOddItems(l) ==
    HasItems(l) /\ \E n \in DOMAIN l.items :
        \/ l.items[n].text = <<Lit(HashMark)>>
        \/ l.items[n].text = <<>> /\ l.items[n].quotes /\ l.items[n].close
        \/ l.items[n].close /\ n < Len(l.items)

\* A line that begins like an array and is none.
NeverOpens(i) == lines[i].line = "array" /\ \A k \in i..Len(lines) : ~Opens(lines[k])

\* The last line of the file closes an array and does not end.
EndsInArray == ~file.newline /\ Closes(Last(lines))

OnlyArrays ==
    /\ ~EndsInArray
    /\ \A i \in DOMAIN lines : ~HasOddItems(lines[i]) /\ ~NeverOpens(i)

\* Every array is set once, and before build().
ArraysOnce ==
    \A i, j \in DOMAIN lines : i < j /\ lines[j].line = "array" =>
        lines[i].line # "build" /\ ~IsOf(lines[i], lines[j].key)

\* The line after an array that is read.
EndBefore(i) == {a \in 1..(i - 1) : lines[a].line = "array" /\ ClosedAt(a) = i - 1}
Lost[i \in DOMAIN lines] == \E a \in EndBefore(i) : ~Lost[a]

Growth(env, piece) == Len(env[piece.ref]) - Len(PieceCells(piece))
References(text) == {i \in DOMAIN text : IsRef(text[i])}

\* All of the text is known, no reference is as long as its value, no "$" is
\* anything else, and there is room for the text at every step.
Expandable(env, text) ==
    /\ \A i \in References(text) :
          text[i].ref \in DOMAIN env /\ Growth(env, text[i]) # 0
    /\ \A i \in DOMAIN text : text[i] # Lit(Dollar)
    /\ \A i \in 0..Len(text) :
          Len(Expanded(env, SubSeq(text, 1, i)))
            + Len(Cells(SubSeq(text, i + 1, Len(text)))) <= MaxLen

\* No reference grows after another has shrunk.
Steady(env, text) ==
    \A i, j \in References(text) :
        i < j /\ Growth(env, text[i]) < 0 => Growth(env, text[j]) < 0

\* Values without quotes, no variable assigned twice, and none by an element of
\* an array.
AssignsOnce ==
    /\ \A i, j \in DOMAIN lines : lines[i].line = "assign" =>
          /\ ~lines[i].quoted
          /\ i # j /\ lines[j].line = "assign" => lines[i].var # lines[j].var
    /\ \A i \in DOMAIN lines :
          lines[i].line = "items" /\ IsAssigned(lines[i]) => AssignedTo(lines[i]) \cap Names = {}

Substitutes(i) ==
    CASE lines[i].line = "assign" -> {lines[i].text}
      [] HasItems(lines[i]) -> {lines[i].items[n].text : n \in DOMAIN lines[i].items}
      [] OTHER -> {}

ExpandsAll ==
    /\ AssignsOnce
    /\ \A i \in 1..ClosedAt(LineOf("depends")) : \A text \in Substitutes(i) :
          Expandable(Before(i), text)

SteadyAll ==
    \A i \in 1..ClosedAt(LineOf("depends")) : \A text \in Substitutes(i) :
        Steady(Before(i), text)

-----------------------------------------------------------------------------
(* What takes substitute_vars out of its buffer.                           *)

\* Nothing but zeros after the length the text is thought to have.
Zeros == \A j \in (len + 1)..(MaxLen + 1) : str[j] = Nul

\* A text grows that has shrunk before: its end is not marked, and what the
\* shrinking left behind it becomes part of the string, not of its length.
Regrows == pc = "substitute" /\ IsReference /\ IsKnown /\ diff > 0 /\ ~Zeros

-----------------------------------------------------------------------------
(* Properties.                                                             *)

\* package.c:93-158: until it runs over its end the buffer of substitute_vars
\* keeps its last nul, and neither the length nor the search leaves it.
PkgbuildTypeOK ==
    /\ pc \in {"lines", "substitute", "preamble", "array", "returned", "overrun"}
    /\ at \in 0..Len(lines)
    /\ eof \in BOOLEAN
    /\ len \in 0..MaxLen
    /\ str[MaxLen + 1] = Nul
    /\ s \in 1..(MaxLen + 1)
    /\ key \in Arrays
    /\ can_break \in BOOLEAN
    /\ DOMAIN lists = Arrays

\* package.c:96-113, 136-153: the length that is compared with the size of the
\* buffer is enough for it, but for a text that grows after it has shrunk: only
\* there is a value copied past the end.
OverrunsOnlyRegrown == [][pc' = "overrun" => Regrows]_pkgbuildVars

\* package.c:341-342: "Build hash table of bash variables because some bash
\* variables can appear inside depends".  The dependencies of a PKGBUILD without
\* the oddities above are the elements of its array as bash expands them: the
\* order of the shifts, the lines an array spans, versions and quotes change
\* nothing.
DepsAsWritten ==
    pc = "returned" /\ Grabs /\ OnlyArrays /\ Says("depends") /\ ExpandsAll /\ SteadyAll =>
        lists["depends"] = Written("depends")

\* An array is read, all of it, and into its own list, unless it begins on the
\* line after an array that is read: then nothing of it is.
ArraysAsWritten ==
    pc = "returned" /\ ~Grabs /\ OnlyArrays /\ ArraysOnce =>
        \A k \in Arrays :
            lists[k] = IF Says(k) /\ ~Lost[LineOf(k)] THEN Written(k) ELSE <<>>

\* package.c:272: "Obtain deps, optional deps, conflicts, replaces from fp".
\* Every array of the file is read.
EveryArrayRead ==
    pc = "returned" /\ ~Grabs /\ OnlyArrays /\ ArraysOnce =>
        \A k \in Arrays : Says(k) => lists[k] = Written(k)

\* The variable found is as long as the reference to it.
IsStuck == pc = "substitute" /\ IsReference /\ IsKnown /\ Fits /\ diff = 0

\* Every PKGBUILD is read to its end, unless a reference is as long as its value
\* or the buffer is overrun.
ReadUnlessStuck == <>(pc \in {"returned", "overrun"} \/ IsStuck)

\* package.c:341-342 again: a PKGBUILD with variables is read.
PkgbuildIsRead == <>(pc \in {"returned", "overrun"})
=============================================================================
