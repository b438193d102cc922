--------------------------- MODULE PkgbuildProofs ---------------------------
(***************************************************************************)
(* What the two readers of a PKGBUILD return, for every file, every set of *)
(* names and every size of the buffer: ParsesArrays for parse_pkgbuild and *)
(* ReadsDependencies for grab_dependencies.  StaysUntilOverrun and         *)
(* OverrunOnlyRegrown say when substitute_vars leaves its buffer.          *)
(*                                                                         *)
(* The first two are proved by relating what has been read to what is      *)
(* left: the elements in the list, followed by those of the items not yet  *)
(* looked at, are those of the lines read (ParseInv, GrabInv).  In the     *)
(* same way the buffer of substitute_vars holds the expansion of the       *)
(* pieces it has passed, followed by the text of those it has not          *)
(* (Halfway).  The last two are proved from BufferInv: the last nul of the *)
(* buffer is kept and the length stays in it, whatever is between them.    *)
(*                                                                         *)
(* Facts about every length of a sequence are proved by taking the least   *)
(* length at which they would fail (NatInd, LeastNat).                     *)
(***************************************************************************)
EXTENDS Pkgbuild, SequenceTheorems, WellFoundedInduction, TLAPS

-----------------------------------------------------------------------------
(* Induction and sequences of sequences.                                   *)

\* A set that has 0 and the successor of each of its members has all numbers.
LEMMA NatInd ==
    ASSUME NEW T, 0 \in T, \A n \in Nat : n \in T => n + 1 \in T
    PROVE  \A n \in Nat : n \in T
<1> SUFFICES ASSUME Nat \ T # {} PROVE FALSE
  OBVIOUS
<1>1. PICK x \in Nat \ T : \A y \in Nat \ T : ~(<<y, x>> \in OpToRel(<, Nat))
  BY NatLessThanWellFounded, WFMin
<1>2. \A y \in Nat : y < x => <<y, x>> \in OpToRel(<, Nat)
  BY DEF OpToRel
<1>3. x # 0 /\ x - 1 \in Nat /\ x - 1 < x
  OBVIOUS
<1>4. x - 1 \in T
  BY <1>1, <1>2, <1>3
<1> QED
  BY <1>3, <1>4

\* f[i] is the concatenation of the first i sequences.
Sums(f, seqs, n) ==
    f = [i \in 1..n |-> IF i = 1 THEN seqs[i] ELSE f[i - 1] \o seqs[i]]

LEMMA SumsExist ==
    ASSUME NEW S, NEW seqs \in Seq(Seq(S))
    PROVE  \A n \in Nat : n <= Len(seqs) => \E f : Sums(f, seqs, n) /\ f \in [1..n -> Seq(S)]
<1> DEFINE T == {n \in Nat : n <= Len(seqs) => \E f : Sums(f, seqs, n) /\ f \in [1..n -> Seq(S)]}
<1>1. 0 \in T
  <2> DEFINE f == [i \in 1..0 |-> <<>>]
  <2>1. Sums(f, seqs, 0) /\ f \in [1..0 -> Seq(S)]
    BY DEF Sums
  <2> QED
    BY <2>1
<1>2. ASSUME NEW n \in Nat, n \in T PROVE n + 1 \in T
  <2> SUFFICES ASSUME n + 1 <= Len(seqs)
               PROVE  \E f : Sums(f, seqs, n + 1) /\ f \in [1..(n + 1) -> Seq(S)]
    OBVIOUS
  <2>1. PICK f : Sums(f, seqs, n) /\ f \in [1..n -> Seq(S)]
    BY <1>2
  <2> DEFINE g == [i \in 1..(n + 1) |->
                     IF i <= n THEN f[i] ELSE IF i = 1 THEN seqs[i] ELSE f[i - 1] \o seqs[i]]
  <2>2. seqs[n + 1] \in Seq(S)
    BY ElementOfSeq
  <2>3. ASSUME NEW i \in 1..(n + 1)
        PROVE  g[i] = IF i = 1 THEN seqs[i] ELSE g[i - 1] \o seqs[i]
    <3>0. i # 1 => i - 1 \in 1..n /\ g[i - 1] = f[i - 1]
      OBVIOUS
    <3>1. CASE i <= n
      <4>1. i \in 1..n /\ g[i] = f[i]
        BY <3>1
      <4>2. f[i] = IF i = 1 THEN seqs[i] ELSE f[i - 1] \o seqs[i]
        BY <2>1, <4>1, Zenon DEF Sums
      <4> HIDE DEF g
      <4> QED
        BY <3>0, <4>1, <4>2, Zenon
    <3>2. CASE i = n + 1
      <4>1. g[i] = IF i = 1 THEN seqs[i] ELSE f[i - 1] \o seqs[i]
        BY <3>2
      <4> HIDE DEF g
      <4> QED
        BY <3>0, <4>1, Zenon
    <3> QED
      BY <3>1, <3>2
  <2>4. \A i \in 1..(n + 1) : g[i] \in Seq(S)
    <3> SUFFICES ASSUME NEW i \in 1..(n + 1) PROVE g[i] \in Seq(S)
      OBVIOUS
    <3>1. CASE i <= n
      BY <2>1, <3>1
    <3>2. CASE i = n + 1 /\ i = 1
      BY <2>2, <3>2
    <3>3. CASE i = n + 1 /\ i # 1
      <4>1. f[n] \in Seq(S)
        BY <2>1, <3>3
      <4>2. n + 1 - 1 = n /\ ~(n + 1 <= n) /\ n + 1 # 1 /\ n + 1 \in 1..(n + 1)
        BY <3>3
      <4>4. \A j \in 1..(n + 1) :
               g[j] = IF j <= n THEN f[j] ELSE IF j = 1 THEN seqs[j] ELSE f[j - 1] \o seqs[j]
        BY Zenon
      <4> HIDE DEF g
      <4>5. g[n + 1] = IF n + 1 <= n THEN f[n + 1]
                        ELSE IF n + 1 = 1 THEN seqs[n + 1] ELSE f[n + 1 - 1] \o seqs[n + 1]
        BY <4>4
      <4>3. g[n + 1] = f[n] \o seqs[n + 1]
        BY <4>2, <4>5, Zenon
      <4> QED
        BY <3>3, <4>1, <4>3, <2>2, ConcatProperties
    <3> QED
      BY <3>1, <3>2, <3>3
  <2>5. Sums(g, seqs, n + 1)
    BY <2>3, Zenon DEF Sums
  <2> QED
    BY <2>4, <2>5
<1> HIDE DEF T
<1>3. \A n \in Nat : n \in T
  BY <1>1, <1>2, NatInd, Zenon
<1> QED
  BY <1>3 DEF T

LEMMA SumsStep ==
    ASSUME NEW f, NEW seqs, NEW n \in Nat, Sums(f, seqs, n), NEW k \in Nat, k + 1 \in 1..n
    PROVE  f[k + 1] = IF k = 0 THEN seqs[k + 1] ELSE f[k] \o seqs[k + 1]
<1>0. \A i \in 1..n : f[i] = IF i = 1 THEN seqs[i] ELSE f[i - 1] \o seqs[i]
  BY Zenon DEF Sums
<1>1. f[k + 1] = IF k + 1 = 1 THEN seqs[k + 1] ELSE f[k + 1 - 1] \o seqs[k + 1]
  BY <1>0
<1>2. k + 1 - 1 = k /\ (k + 1 = 1 <=> k = 0)
  OBVIOUS
<1> QED
  BY <1>1, <1>2, Zenon

LEMMA FlattenIsSum ==
    ASSUME NEW S, NEW seqs \in Seq(Seq(S)), Len(seqs) # 0
    PROVE  \E f \in [1..Len(seqs) -> Seq(S)] :
              Sums(f, seqs, Len(seqs)) /\ FlattenSeq(seqs) = f[Len(seqs)]
<1> DEFINE n == Len(seqs)
<1>0. n \in Nat /\ n <= n
  BY LenProperties
<1>a. \A m \in Nat : m <= Len(seqs) => \E f : Sums(f, seqs, m) /\ f \in [1..m -> Seq(S)]
  BY SumsExist
<1>1. PICK h : Sums(h, seqs, n)
  BY <1>0, <1>a, Zenon
<1>2. PICK f : Sums(f, seqs, n) /\ FlattenSeq(seqs) = f[n]
  BY <1>1, Zenon DEF FlattenSeq, Sums
<1>3. PICK g \in [1..n -> Seq(S)] : Sums(g, seqs, n)
  BY <1>0, <1>a, Zenon
<1> DEFINE T == {k \in Nat : k \in 1..n => f[k] = g[k]}
<1>4. 0 \in T
  OBVIOUS
<1>5. ASSUME NEW k \in Nat, k \in T PROVE k + 1 \in T
  <2> SUFFICES ASSUME k + 1 \in 1..n PROVE f[k + 1] = g[k + 1]
    OBVIOUS
  <2>1. f[k + 1] = IF k = 0 THEN seqs[k + 1] ELSE f[k] \o seqs[k + 1]
    BY <1>0, <1>2, SumsStep
  <2>2. g[k + 1] = IF k = 0 THEN seqs[k + 1] ELSE g[k] \o seqs[k + 1]
    BY <1>0, <1>3, SumsStep
  <2>3. k # 0 => k \in 1..n
    BY <1>0
  <2>4. k # 0 => f[k] = g[k]
    BY <1>5, <2>3
  <2> QED
    BY <2>1, <2>2, <2>4, Zenon
<1>6. \A k \in Nat : k \in T
  <2> HIDE DEF T
  <2> QED BY <1>4, <1>5, NatInd, Zenon
<1>7. f[n] = g[n]
  BY <1>0, <1>6
<1> QED
  BY <1>2, <1>3, <1>7

LEMMA FlattenEmpty == FlattenSeq(<<>>) = <<>>
  BY DEF FlattenSeq

LEMMA FlattenType ==
    ASSUME NEW S, NEW seqs \in Seq(Seq(S))
    PROVE  FlattenSeq(seqs) \in Seq(S)
<1>1. CASE Len(seqs) = 0
  BY <1>1, FlattenEmpty, EmptySeq
<1>2. CASE Len(seqs) # 0
  <2>1. Len(seqs) \in Nat /\ Len(seqs) \in 1..Len(seqs)
    BY <1>2, LenProperties
  <2>2. \E f \in [1..Len(seqs) -> Seq(S)] :
              Sums(f, seqs, Len(seqs)) /\ FlattenSeq(seqs) = f[Len(seqs)]
    BY <1>2, FlattenIsSum
  <2> QED
    BY <2>1, <2>2, Zenon
<1> QED
  BY <1>1, <1>2

LEMMA FlattenAppend ==
    ASSUME NEW S, NEW seqs \in Seq(Seq(S)), NEW x \in Seq(S)
    PROVE  FlattenSeq(Append(seqs, x)) = FlattenSeq(seqs) \o x
<1> DEFINE n == Len(seqs)
           more == Append(seqs, x)
<1>0. n \in Nat /\ more \in Seq(Seq(S)) /\ Len(more) = n + 1 /\ more[n + 1] = x
      /\ \A i \in 1..n : more[i] = seqs[i]
  BY LenProperties, AppendProperties
<1>1. PICK g \in [1..(n + 1) -> Seq(S)] : Sums(g, more, n + 1) /\ FlattenSeq(more) = g[n + 1]
  <2>1. Len(more) # 0
    BY <1>0
  <2> HIDE DEF more
  <2> QED
    BY <1>0, <2>1, FlattenIsSum
<1>2. ASSUME NEW k \in Nat, k + 1 \in 1..(n + 1)
      PROVE  g[k + 1] = IF k = 0 THEN more[k + 1] ELSE g[k] \o more[k + 1]
  <2> HIDE DEF more
  <2>1. n + 1 \in Nat
    BY <1>0
  <2> QED
    BY <1>1, <1>2, <2>1, SumsStep
<1> HIDE DEF more
<1>3. CASE n = 0
  <2>1. seqs = <<>>
    BY <1>3, EmptySeq
  <2>2. g[1] = more[1] /\ more[1] = x /\ FlattenSeq(more) = g[1]
    BY <1>0, <1>1, <1>2, <1>3
  <2>3. <<>> \o x = x
    BY ConcatEmptySeq
  <2> QED
    BY <2>1, <2>2, <2>3, FlattenEmpty, Zenon DEF more
<1>4. CASE n # 0
  <2>1. PICK f \in [1..n -> Seq(S)] : Sums(f, seqs, n) /\ FlattenSeq(seqs) = f[n]
    BY <1>4, FlattenIsSum
  <2> DEFINE T == {k \in Nat : k \in 1..n => f[k] = g[k]}
  <2>3. 0 \in T
    OBVIOUS
  <2>4. ASSUME NEW k \in Nat, k \in T PROVE k + 1 \in T
    <3> SUFFICES ASSUME k + 1 \in 1..n PROVE f[k + 1] = g[k + 1]
      OBVIOUS
    <3>1. (k # 0 => k \in 1..n) /\ k + 1 \in 1..(n + 1)
      BY <1>0
    <3>2. f[k + 1] = IF k = 0 THEN seqs[k + 1] ELSE f[k] \o seqs[k + 1]
      BY <1>0, <2>1, SumsStep
    <3>3. g[k + 1] = IF k = 0 THEN more[k + 1] ELSE g[k] \o more[k + 1]
      BY <3>1, <1>2
    <3>4. (k # 0 => f[k] = g[k]) /\ more[k + 1] = seqs[k + 1]
      BY <1>0, <2>4, <3>1
    <3> QED
      BY <3>2, <3>3, <3>4, Zenon
  <2>5. \A k \in Nat : k \in T
    <3> HIDE DEF T
    <3> QED BY <2>3, <2>4, NatInd, Zenon
  <2>6. f[n] = g[n]
    <3>1. n \in Nat /\ n \in 1..n
      BY <1>0, <1>4
    <3> QED
      BY <3>1, <2>5, Zenon
  <2>7. g[n + 1] = g[n] \o x
    <3>1. n + 1 \in 1..(n + 1)
      BY <1>0
    <3>2. g[n + 1] = IF n = 0 THEN more[n + 1] ELSE g[n] \o more[n + 1]
      BY <1>0, <1>2, <3>1
    <3> QED
      BY <1>0, <1>4, <3>2, Zenon
  <2> QED
    BY <1>1, <2>1, <2>6, <2>7, Zenon DEF more
<1> QED
  BY <1>3, <1>4

LEMMA FlattenOne ==
    ASSUME NEW S, NEW x \in Seq(S)
    PROVE  FlattenSeq(<<x>>) = x
<1>1. Append(<<>>, x) = <<x>> /\ <<>> \in Seq(Seq(S))
  OBVIOUS
<1>2. FlattenSeq(Append(<<>>, x)) = FlattenSeq(<<>>) \o x
  BY <1>1, FlattenAppend
<1>3. <<>> \o x = x
  BY ConcatEmptySeq
<1> QED
  BY <1>1, <1>2, <1>3, FlattenEmpty, Zenon

LEMMA ConcatsAssociate ==
    \A S : \A a, b, c \in Seq(S) : (a \o b) \o c = a \o (b \o c)
  BY ConcatAssociative

LEMMA FlattenConcatAppend ==
    ASSUME NEW S, NEW a \in Seq(Seq(S)), NEW d \in Seq(Seq(S)), NEW x \in Seq(S),
           FlattenSeq(a \o d) = FlattenSeq(a) \o FlattenSeq(d)
    PROVE  FlattenSeq(a \o Append(d, x)) = FlattenSeq(a) \o FlattenSeq(Append(d, x))
<1>1. a \o Append(d, x) = Append(a \o d, x)
  OBVIOUS
<1>2. a \o d \in Seq(Seq(S))
  BY ConcatProperties
<1>3. FlattenSeq(Append(a \o d, x)) = FlattenSeq(a \o d) \o x
  BY <1>2, FlattenAppend
<1>4. FlattenSeq(Append(d, x)) = FlattenSeq(d) \o x
  BY FlattenAppend
<1>5. FlattenSeq(a) \in Seq(S) /\ FlattenSeq(d) \in Seq(S)
  BY FlattenType
<1>6. (FlattenSeq(a) \o FlattenSeq(d)) \o x = FlattenSeq(a) \o (FlattenSeq(d) \o x)
  BY <1>5, ConcatsAssociate, SMT
<1> QED
  BY <1>1, <1>3, <1>4, <1>6, Zenon

\* A flattened concatenation is the concatenation of what is flattened.
LEMMA FlattenConcat ==
    ASSUME NEW S, NEW a \in Seq(Seq(S)), NEW b \in Seq(Seq(S))
    PROVE  FlattenSeq(a \o b) = FlattenSeq(a) \o FlattenSeq(b)
<1> DEFINE T == {n \in Nat : \A c \in Seq(Seq(S)) : Len(c) = n =>
                    FlattenSeq(a \o c) = FlattenSeq(a) \o FlattenSeq(c)}
<1>0. FlattenSeq(a) \in Seq(S)
  BY FlattenType
<1>1. 0 \in T
  <2> SUFFICES ASSUME NEW c \in Seq(Seq(S)), Len(c) = 0
               PROVE  FlattenSeq(a \o c) = FlattenSeq(a) \o FlattenSeq(c)
    OBVIOUS
  <2>1. c = <<>>
    BY EmptySeq
  <2> QED
    BY <1>0, <2>1, FlattenEmpty, ConcatEmptySeq
<1>2. ASSUME NEW n \in Nat, n \in T PROVE n + 1 \in T
  <2>0. SUFFICES ASSUME NEW c \in Seq(Seq(S)), Len(c) = n + 1
               PROVE  FlattenSeq(a \o c) = FlattenSeq(a) \o FlattenSeq(c)
    OBVIOUS
  <2>1. PICK d \in Seq(Seq(S)), x \in Seq(S) : c = Append(d, x)
    <3>1. c # <<>>
      BY <2>0, EmptySeq
    <3> QED
      BY <3>1, SequenceEmptyOrAppend
  <2>2. Len(d) = n
    BY <2>0, <2>1, AppendProperties, LenProperties
  <2>3. FlattenSeq(a \o d) = FlattenSeq(a) \o FlattenSeq(d)
    BY <1>2, <2>2
  <2> QED
    BY <2>1, <2>3, FlattenConcatAppend
<1>3. \A n \in Nat : n \in T
  <2> HIDE DEF T
  <2> QED BY <1>1, <1>2, NatInd, Zenon
<1>4. Len(b) \in Nat
  BY LenProperties
<1> QED
  BY <1>3, <1>4

\* What a buffer may hold, and the values of variables.
Str == Seq(Chars)
IsEnv(env) == DOMAIN env \subseteq Names /\ \A v \in DOMAIN env : env[v] \in Str

LEMMA CharsAre ==
    /\ Names \subseteq Seq(NameChars) /\ <<>> \notin Names
    /\ NameChars \subseteq Chars
    /\ Dollar \notin NameChars /\ LeftBrace \notin NameChars /\ RightBrace \notin NameChars
    /\ Dollar \in Chars /\ LeftBrace \in Chars /\ RightBrace \in Chars
    /\ "space" \in Chars /\ "version" \in Chars /\ "quote" \in Chars
    /\ Nul \notin Chars
    /\ \A k \in Arrays : k \notin Chars
    /\ MaxLen \in Nat
  BY PkgbuildAssumption

LEMMA PieceKinds ==
    ASSUME NEW x \in Pieces
    PROVE  /\ IsRef(x) => x.ref \in Seq(NameChars) /\ x.brace \in BOOLEAN
           /\ ~IsRef(x) => x.lit \in Chars
  BY DEF Pieces, IsRef

LEMMA NameIsStr == \A v \in Seq(NameChars) : v \in Str
  BY CharsAre, SeqMonotonic DEF Str

LEMMA PieceCellsType ==
    ASSUME NEW x \in Pieces
    PROVE  PieceCells(x) \in Str
<1>1. CASE ~IsRef(x)
  BY <1>1, PieceKinds DEF PieceCells, Str
<1>2. CASE IsRef(x) /\ x.brace
  <2>1. <<Dollar, LeftBrace>> \in Str /\ x.ref \in Str /\ <<RightBrace>> \in Str
    BY <1>2, PieceKinds, CharsAre, NameIsStr DEF Str
  <2>2. <<Dollar, LeftBrace>> \o x.ref \o <<RightBrace>> \in Str
    BY <2>1 DEF Str
  <2> QED
    BY <1>2, <2>2 DEF PieceCells
<1>3. CASE IsRef(x) /\ ~x.brace
  <2>1. <<Dollar>> \in Str /\ x.ref \in Str
    BY <1>3, PieceKinds, CharsAre, NameIsStr DEF Str
  <2>2. <<Dollar>> \o x.ref \in Str
    BY <2>1 DEF Str
  <2> QED
    BY <1>3, <2>2 DEF PieceCells
<1> QED
  BY <1>1, <1>2, <1>3

\* z is x, then y, place by place.
IsConcat(z, x, y) ==
    /\ Len(z) = Len(x) + Len(y)
    /\ \A i \in 1..Len(x) : z[i] = x[i]
    /\ \A i \in 1..Len(y) : z[Len(x) + i] = y[i]

LEMMA ConcatPointwise ==
    ASSUME NEW S, NEW x \in Seq(S), NEW y \in Seq(S), NEW z \in Seq(S), IsConcat(z, x, y)
    PROVE  z = x \o y
<1>0. /\ Len(z) = Len(x) + Len(y)
      /\ \A i \in 1..Len(x) : z[i] = x[i]
      /\ \A i \in 1..Len(y) : z[Len(x) + i] = y[i]
  BY DEF IsConcat
<1>1. x \o y \in Seq(S) /\ Len(x \o y) = Len(x) + Len(y)
      /\ \A i \in 1..(Len(x) + Len(y)) : (x \o y)[i] = IF i <= Len(x) THEN x[i] ELSE y[i - Len(x)]
  BY ConcatProperties
<1>2. Len(x) \in Nat /\ Len(y) \in Nat
  BY LenProperties
<1>3. ASSUME NEW i \in 1..Len(z) PROVE z[i] = (x \o y)[i]
  <2>1. CASE i <= Len(x)
    BY <1>0, <1>1, <1>2, <2>1
  <2>2. CASE ~(i <= Len(x))
    <3>1. i - Len(x) \in 1..Len(y) /\ Len(x) + (i - Len(x)) = i
      BY <1>0, <1>2, <2>2
    <3>2. z[Len(x) + (i - Len(x))] = y[i - Len(x)]
      BY <1>0, <3>1
    <3> QED
      BY <1>0, <1>1, <1>2, <2>2, <3>1, <3>2
  <2> QED
    BY <2>1, <2>2
<1> QED
  BY <1>0, <1>1, <1>3, SeqEqual

-----------------------------------------------------------------------------
(* What a function makes of the elements of a sequence, one after another. *)

\* g maps R into S.
MapsTo(g, R, S) == g \in [R -> S]

Map(g, t) == [i \in DOMAIN t |-> g[t[i]]]
FlatMap(g, t) == FlattenSeq(Map(g, t))

LEMMA MapSeq ==
    ASSUME NEW R, NEW S, NEW g, MapsTo(g, R, S), NEW t \in Seq(R)
    PROVE  /\ Map(g, t) \in Seq(S)
           /\ Len(Map(g, t)) = Len(t)
           /\ \A i \in 1..Len(t) : Map(g, t)[i] = g[t[i]]
<1>1. \A i \in 1..Len(t) : g[t[i]] \in S
  BY ElementOfSeq DEF MapsTo
<1>2. DOMAIN t = 1..Len(t) /\ Len(t) \in Nat
  BY LenProperties
<1> QED
  BY <1>1, <1>2 DEF Map

LEMMA FlatMapType ==
    ASSUME NEW R, NEW S, NEW g, MapsTo(g, R, Seq(S)), NEW t \in Seq(R)
    PROVE  FlatMap(g, t) \in Seq(S)
<1>1. Map(g, t) \in Seq(Seq(S))
  BY MapSeq
<1> QED
  BY <1>1, FlattenType DEF FlatMap

LEMMA FlatMapEmpty ==
    ASSUME NEW g
    PROVE  FlatMap(g, <<>>) = <<>>
<1>1. [i \in DOMAIN <<>> |-> g[(<<>>)[i]]] = <<>>
  OBVIOUS
<1> QED
  BY <1>1, FlattenEmpty DEF FlatMap, Map

LEMMA FlatMapOne ==
    ASSUME NEW R, NEW S, NEW g, MapsTo(g, R, Seq(S)), NEW x \in R
    PROVE  FlatMap(g, <<x>>) = g[x]
<1> DEFINE v == <<x>>
<1>1. v \in Seq(R)
  OBVIOUS
<1>2. Len(v) = 1 /\ v[1] = x
  OBVIOUS
<1> HIDE DEF v
<1> DEFINE m == Map(g, v)
<1>3. m \in Seq(Seq(S)) /\ Len(m) = Len(v) /\ \A i \in 1..Len(v) : m[i] = g[v[i]]
  BY <1>1, MapSeq
<1> HIDE DEF m
<1>4. g[x] \in Seq(S)
  BY DEF MapsTo
<1>5. m \in Seq(Seq(S)) /\ Len(m) = 1 /\ m[1] = g[x]
  BY <1>2, <1>3
<1>6. m = <<g[x]>>
  BY <1>4, <1>5
<1>7. FlattenSeq(m) = g[x]
  BY <1>4, <1>6, FlattenOne
<1> QED
  BY <1>7 DEF FlatMap, m, v

LEMMA FlatMapConcat ==
    ASSUME NEW R, NEW S, NEW g, MapsTo(g, R, Seq(S)), NEW t \in Seq(R), NEW u \in Seq(R)
    PROVE  FlatMap(g, t \o u) = FlatMap(g, t) \o FlatMap(g, u)
<1> DEFINE w == t \o u
<1>w. w \in Seq(R)
  BY ConcatProperties
<1>0. /\ Len(w) = Len(t) + Len(u)
      /\ \A i \in 1..(Len(t) + Len(u)) : w[i] = IF i <= Len(t) THEN t[i] ELSE u[i - Len(t)]
  BY ConcatProperties
<1> HIDE DEF w
<1> DEFINE x == Map(g, t)
           y == Map(g, u)
           z == Map(g, w)
<1>1. x \in Seq(Seq(S)) /\ Len(x) = Len(t) /\ \A i \in 1..Len(t) : x[i] = g[t[i]]
  BY MapSeq
<1>2. y \in Seq(Seq(S)) /\ Len(y) = Len(u) /\ \A i \in 1..Len(u) : y[i] = g[u[i]]
  BY MapSeq
<1>3. z \in Seq(Seq(S)) /\ Len(z) = Len(w) /\ \A i \in 1..Len(w) : z[i] = g[w[i]]
  BY <1>w, MapSeq
<1>4. Len(t) \in Nat /\ Len(u) \in Nat
  BY LenProperties
<1>5. FlatMap(g, t) = FlattenSeq(x) /\ FlatMap(g, u) = FlattenSeq(y) /\ FlatMap(g, w) = FlattenSeq(z)
  BY DEF FlatMap
<1> HIDE DEF x, y, z
<1>6. Len(z) = Len(x) + Len(y)
  BY <1>0, <1>1, <1>2, <1>3
<1>7. \A i \in 1..Len(x) : z[i] = x[i]
  <2> SUFFICES ASSUME NEW i \in 1..Len(x) PROVE z[i] = x[i]
    OBVIOUS
  <2>1. i \in 1..Len(t) /\ i <= Len(t) /\ i \in 1..(Len(t) + Len(u))
    BY <1>1, <1>4
  <2>2. w[i] = t[i]
    BY <1>0, <2>1
  <2>3. z[i] = g[w[i]]
    BY <1>0, <1>3, <2>1
  <2> QED
    BY <1>1, <2>1, <2>2, <2>3
<1>8. \A i \in 1..Len(y) : z[Len(x) + i] = y[i]
  <2> SUFFICES ASSUME NEW i \in 1..Len(y) PROVE z[Len(x) + i] = y[i]
    OBVIOUS
  <2>1. /\ Len(t) + i \in 1..(Len(t) + Len(u)) /\ ~(Len(t) + i <= Len(t))
        /\ Len(t) + i - Len(t) = i /\ i \in 1..Len(u)
    BY <1>2, <1>4
  <2>2. w[Len(t) + i] = u[i]
    BY <1>0, <2>1
  <2>3. z[Len(t) + i] = g[w[Len(t) + i]]
    BY <1>0, <1>3, <2>1
  <2> QED
    BY <1>1, <1>2, <2>1, <2>2, <2>3
<1>a. IsConcat(z, x, y)
  BY <1>6, <1>7, <1>8 DEF IsConcat
<1>9. z = x \o y
  BY <1>1, <1>2, <1>3, <1>a, ConcatPointwise
<1>10. FlattenSeq(z) = FlattenSeq(x) \o FlattenSeq(y)
  BY <1>1, <1>2, <1>9, FlattenConcat
<1> QED
  BY <1>5, <1>10 DEF w

-----------------------------------------------------------------------------
(* Cells of a text, its expansion, the elements of an array.               *)

\* Cells, Expanded and Elements as maps.
CellsOf == [x \in Pieces |-> PieceCells(x)]
ExpansionOf(env) ==
    [x \in Pieces |-> IF ~IsRef(x) THEN <<x.lit>>
                      ELSE IF x.ref \in DOMAIN env THEN env[x.ref] ELSE <<>>]
ElementOf(env) ==
    [it \in Items |-> IF it.text = <<>> THEN <<>>
                      ELSE <<IF Grabs THEN Expanded(env, it.text) ELSE Element(it)>>]

LEMMA CellsOfType == MapsTo(CellsOf, Pieces, Str)
  BY PieceCellsType DEF CellsOf, MapsTo

LEMMA CellsMap ==
    ASSUME NEW t \in Seq(Pieces)
    PROVE  Cells(t) = FlatMap(CellsOf, t)
<1>1. \A i \in DOMAIN t : t[i] \in Pieces
  BY ElementOfSeq, LenProperties
<1>2. [i \in DOMAIN t |-> PieceCells(t[i])] = [i \in DOMAIN t |-> CellsOf[t[i]]]
  BY <1>1 DEF CellsOf
<1> QED
  BY <1>2 DEF Cells, FlatMap, Map

LEMMA ExpansionOfType ==
    ASSUME NEW env, IsEnv(env)
    PROVE  MapsTo(ExpansionOf(env), Pieces, Str)
<1> SUFFICES ASSUME NEW x \in Pieces PROVE ExpansionOf(env)[x] \in Str
  BY DEF ExpansionOf, MapsTo
<1>1. CASE ~IsRef(x)
  BY <1>1, PieceKinds DEF ExpansionOf, Str
<1>2. CASE IsRef(x)
  BY <1>2 DEF ExpansionOf, IsEnv, Str
<1> QED
  BY <1>1, <1>2

LEMMA ExpandedMap ==
    ASSUME NEW env, NEW t \in Seq(Pieces)
    PROVE  Expanded(env, t) = FlatMap(ExpansionOf(env), t)
<1>1. \A i \in DOMAIN t : t[i] \in Pieces
  BY ElementOfSeq, LenProperties
<1>2. [i \in DOMAIN t |->
         IF ~IsRef(t[i]) THEN <<t[i].lit>>
         ELSE IF t[i].ref \in DOMAIN env THEN env[t[i].ref] ELSE <<>>]
      = [i \in DOMAIN t |-> ExpansionOf(env)[t[i]]]
  BY <1>1 DEF ExpansionOf
<1> QED
  BY <1>2 DEF Expanded, FlatMap, Map

LEMMA CellsType == \A t \in Seq(Pieces) : Cells(t) \in Str
  BY CellsMap, CellsOfType, FlatMapType DEF Str

LEMMA ExpandedType == \A env : IsEnv(env) => \A t \in Seq(Pieces) : Expanded(env, t) \in Str
  BY ExpandedMap, ExpansionOfType, FlatMapType DEF Str

LEMMA CellsConcat ==
    ASSUME NEW t \in Seq(Pieces), NEW u \in Seq(Pieces)
    PROVE  Cells(t \o u) = Cells(t) \o Cells(u)
<1>1. t \o u \in Seq(Pieces)
  BY ConcatProperties
<1>2. FlatMap(CellsOf, t \o u) = FlatMap(CellsOf, t) \o FlatMap(CellsOf, u)
  BY CellsOfType, FlatMapConcat DEF Str
<1> QED
  BY <1>1, <1>2, CellsMap

LEMMA ExpandedConcat ==
    ASSUME NEW env, IsEnv(env), NEW t \in Seq(Pieces), NEW u \in Seq(Pieces)
    PROVE  Expanded(env, t \o u) = Expanded(env, t) \o Expanded(env, u)
<1>1. t \o u \in Seq(Pieces)
  BY ConcatProperties
<1>2. FlatMap(ExpansionOf(env), t \o u) = FlatMap(ExpansionOf(env), t) \o FlatMap(ExpansionOf(env), u)
  BY ExpansionOfType, FlatMapConcat DEF Str
<1> QED
  BY <1>1, <1>2, ExpandedMap

LEMMA CellsEmpty == Cells(<<>>) = <<>>
  BY CellsMap, FlatMapEmpty, EmptySeq

LEMMA ExpandedEmpty == \A env : Expanded(env, <<>>) = <<>>
  BY ExpandedMap, FlatMapEmpty, EmptySeq

LEMMA CellsOne == \A x \in Pieces : Cells(<<x>>) = PieceCells(x)
<1> SUFFICES ASSUME NEW x \in Pieces PROVE Cells(<<x>>) = PieceCells(x)
  OBVIOUS
<1>1. <<x>> \in Seq(Pieces)
  OBVIOUS
<1>2. FlatMap(CellsOf, <<x>>) = CellsOf[x]
  BY CellsOfType, FlatMapOne DEF Str
<1>3. Cells(<<x>>) = CellsOf[x]
  BY <1>1, <1>2, CellsMap
<1> QED
  BY <1>3 DEF CellsOf

LEMMA ExpandedOne ==
    ASSUME NEW env, IsEnv(env), NEW x \in Pieces
    PROVE  Expanded(env, <<x>>) =
              IF ~IsRef(x) THEN <<x.lit>>
              ELSE IF x.ref \in DOMAIN env THEN env[x.ref] ELSE <<>>
<1>1. <<x>> \in Seq(Pieces)
  OBVIOUS
<1>2. FlatMap(ExpansionOf(env), <<x>>) = ExpansionOf(env)[x]
  BY ExpansionOfType, FlatMapOne DEF Str
<1>3. Expanded(env, <<x>>) = ExpansionOf(env)[x]
  BY <1>1, <1>2, ExpandedMap
<1> QED
  BY <1>3 DEF ExpansionOf

-----------------------------------------------------------------------------
LEMMA ItemKinds ==
    ASSUME NEW it \in Items
    PROVE  /\ it.text \in Texts /\ it.text \in Seq(Pieces)
           /\ it.ver \in BOOLEAN /\ it.quotes \in BOOLEAN /\ it.close \in BOOLEAN
           /\ ~it.quotes => it = Paren
<1>1. <<>> \in Texts
  BY DEF Texts
<1>2. CASE it = Paren
  BY <1>1, <1>2 DEF Paren, Texts
<1>3. CASE it # Paren
  BY <1>3 DEF Items, Texts
<1> QED
  BY <1>2, <1>3

LEMMA ElementType ==
    ASSUME NEW it \in Items
    PROVE  Element(it) \in Str
<1>1. Cells(it.text) \in Str
  BY ItemKinds, CellsType
<1>2. <<"version">> \in Str /\ <<>> \in Str
  BY CharsAre DEF Str
<1> QED
  BY <1>1, <1>2 DEF Element, Str

LEMMA ElementOfType ==
    ASSUME NEW env, IsEnv(env)
    PROVE  MapsTo(ElementOf(env), Items, Seq(Str))
<1> SUFFICES ASSUME NEW it \in Items PROVE ElementOf(env)[it] \in Seq(Str)
  BY DEF ElementOf, MapsTo
<1>1. Element(it) \in Str /\ Expanded(env, it.text) \in Str
  BY ElementType, ItemKinds, ExpandedType
<1> QED
  BY <1>1 DEF ElementOf

LEMMA ElementsMap ==
    ASSUME NEW env, NEW items \in Seq(Items)
    PROVE  Elements(env, items) = FlatMap(ElementOf(env), items)
<1>1. \A i \in DOMAIN items : items[i] \in Items
  BY ElementOfSeq, LenProperties
<1>2. [i \in DOMAIN items |->
         IF items[i].text = <<>> THEN <<>>
         ELSE <<IF Grabs THEN Expanded(env, items[i].text) ELSE Element(items[i])>>]
      = [i \in DOMAIN items |-> ElementOf(env)[items[i]]]
  BY <1>1 DEF ElementOf
<1> QED
  BY <1>2 DEF Elements, FlatMap, Map

LEMMA ElementsType ==
    ASSUME NEW env, IsEnv(env), NEW items \in Seq(Items)
    PROVE  Elements(env, items) \in Seq(Str)
  BY ElementsMap, ElementOfType, FlatMapType

LEMMA ElementsConcat ==
    ASSUME NEW env, IsEnv(env), NEW t \in Seq(Items), NEW u \in Seq(Items)
    PROVE  Elements(env, t \o u) = Elements(env, t) \o Elements(env, u)
<1>1. t \o u \in Seq(Items)
  BY ConcatProperties
<1>2. FlatMap(ElementOf(env), t \o u) = FlatMap(ElementOf(env), t) \o FlatMap(ElementOf(env), u)
  BY ElementOfType, FlatMapConcat
<1> QED
  BY <1>1, <1>2, ElementsMap

LEMMA ElementsEmpty == \A env : Elements(env, <<>>) = <<>>
  BY ElementsMap, FlatMapEmpty, EmptySeq

LEMMA ElementsOne ==
    ASSUME NEW env, IsEnv(env), NEW it \in Items
    PROVE  Elements(env, <<it>>) =
              IF it.text = <<>> THEN <<>>
              ELSE <<IF Grabs THEN Expanded(env, it.text) ELSE Element(it)>>
<1>1. <<it>> \in Seq(Items)
  OBVIOUS
<1>2. FlatMap(ElementOf(env), <<it>>) = ElementOf(env)[it]
  BY ElementOfType, FlatMapOne
<1>3. Elements(env, <<it>>) = ElementOf(env)[it]
  BY <1>1, <1>2, ElementsMap
<1> QED
  BY <1>3 DEF ElementOf

-----------------------------------------------------------------------------
(* The file.                                                               *)

LEMMA LinesAre ==
    ASSUME file \in Files
    PROVE  /\ lines \in Seq(Lines)
           /\ DOMAIN lines = 1..Len(lines) /\ Len(lines) \in Nat
           /\ \A i \in 1..Len(lines) : lines[i] \in Lines
           /\ WellFormed(lines)
<1>1. lines \in Seq(Lines) /\ WellFormed(lines)
  BY PkgbuildAssumption DEF lines
<1> QED
  BY <1>1, LenProperties, ElementOfSeq

LEMMA LineKinds ==
    ASSUME NEW l \in Lines
    PROVE  /\ l.line \in {"array", "items", "assign", "empty", "comment", "other", "build"}
           /\ l.line = "array" => l.key \in Arrays
           /\ HasItems(l) => l.items \in Seq(Items)
           /\ l.line = "assign" => l.var \in Names /\ l.text \in Texts /\ l.text \in Seq(Pieces)
  BY DEF Lines, HasItems, Texts

\* The items of a line, none if it has none.
LineItems(i) == IF HasItems(lines[i]) THEN lines[i].items ELSE <<>>

LEMMA LineItemsType ==
    ASSUME file \in Files, NEW i \in 1..Len(lines)
    PROVE  LineItems(i) \in Seq(Items)
<1>1. lines[i] \in Lines
  BY LinesAre
<1>2. <<>> \in Seq(Items)
  BY EmptySeq
<1> QED
  BY <1>1, <1>2, LineKinds DEF LineItems

-----------------------------------------------------------------------------
(* The environment of a line.                                              *)

\* f[i] is the environment after the first i lines.
Envs(f, n) == f = [i \in 0..n |-> IF i = 0 THEN <<>> ELSE SetTo(f[i - 1], lines[i])]

LEMMA EnvsExist == \A n \in Nat : \E f : Envs(f, n)
<1> DEFINE T == {n \in Nat : \E f : Envs(f, n)}
<1>1. 0 \in T
  <2> DEFINE f == [i \in 0..0 |-> <<>>]
  <2>1. f = [i \in 0..0 |-> IF i = 0 THEN <<>> ELSE SetTo(f[i - 1], lines[i])]
    OBVIOUS
  <2> HIDE DEF f
  <2>2. Envs(f, 0)
    BY <2>1, Zenon DEF Envs
  <2> QED
    BY <2>2
<1>2. ASSUME NEW n \in Nat, n \in T PROVE n + 1 \in T
  <2>1. PICK f : Envs(f, n)
    BY <1>2
  <2>2. \A i \in 0..n : f[i] = IF i = 0 THEN <<>> ELSE SetTo(f[i - 1], lines[i])
    BY <2>1, Zenon DEF Envs
  <2> DEFINE g == [i \in 0..(n + 1) |->
                     IF i <= n THEN f[i] ELSE IF i = 0 THEN <<>> ELSE SetTo(f[i - 1], lines[i])]
  <2>3. ASSUME NEW i \in 0..(n + 1)
        PROVE  g[i] = IF i = 0 THEN <<>> ELSE SetTo(g[i - 1], lines[i])
    <3>1. g[i] = IF i <= n THEN f[i] ELSE IF i = 0 THEN <<>> ELSE SetTo(f[i - 1], lines[i])
      OBVIOUS
    <3>2. i # 0 => g[i - 1] = f[i - 1]
      OBVIOUS
    <3>3. i <= n => i \in 0..n
      OBVIOUS
    <3> HIDE DEF g
    <3> QED
      BY <2>2, <3>1, <3>2, <3>3, Zenon
  <2>4. Envs(g, n + 1)
    BY <2>3, Zenon DEF Envs
  <2> QED
    BY <2>4
<1> HIDE DEF T
<1>3. \A n \in Nat : n \in T
  BY <1>1, <1>2, NatInd, Zenon
<1> QED
  BY <1>3 DEF T

LEMMA EnvironmentIs ==
    ASSUME Len(lines) \in Nat
    PROVE  /\ Environment[0] = <<>>
           /\ \A i \in 1..Len(lines) : Environment[i] = SetTo(Environment[i - 1], lines[i])
<1>1. PICK f : Envs(f, Len(lines))
  BY EnvsExist
<1>2. Environment = [i \in 0..Len(lines) |->
                       IF i = 0 THEN <<>> ELSE SetTo(Environment[i - 1], lines[i])]
  BY <1>1, Zenon DEF Environment, Envs
<1>3. \A i \in 0..Len(lines) : Environment[i] =
         IF i = 0 THEN <<>> ELSE SetTo(Environment[i - 1], lines[i])
  BY <1>2, Zenon
<1>4. 0 \in 0..Len(lines) /\ \A i \in 1..Len(lines) : i \in 0..Len(lines) /\ i # 0
  OBVIOUS
<1> QED
  BY <1>3, <1>4, Zenon

LEMMA SetToType ==
    ASSUME NEW env, IsEnv(env), NEW l \in Lines
    PROVE  IsEnv(SetTo(env, l))
<1>1. CASE l.line # "assign"
  BY <1>1 DEF SetTo
<1>2. CASE l.line = "assign"
  <2> DEFINE e == Expanded(env, l.text)
  <2>1. l.var \in Names /\ e \in Str
    BY <1>2, LineKinds, ExpandedType
  <2> HIDE DEF e
  <2> DEFINE r == [x \in DOMAIN env \cup {l.var} |-> IF x = l.var THEN e ELSE env[x]]
  <2>2. DOMAIN r = {l.var} \cup DOMAIN env
    OBVIOUS
  <2>3. \A v \in DOMAIN r : r[v] = IF v = l.var THEN e ELSE env[v]
    OBVIOUS
  <2>4. SetTo(env, l) = r
    BY <1>2 DEF SetTo, e
  <2> HIDE DEF r
  <2>5. IsEnv(r)
    BY <2>1, <2>2, <2>3 DEF IsEnv
  <2> QED
    BY <2>4, <2>5
<1> QED
  BY <1>1, <1>2

LEMMA EnvironmentType ==
    ASSUME file \in Files
    PROVE  \A i \in 0..Len(lines) : IsEnv(Environment[i])
<1>0. Len(lines) \in Nat
  BY LinesAre
<1> DEFINE T == {n \in Nat : n \in 0..Len(lines) => IsEnv(Environment[n])}
<1>1. 0 \in T
  <2>1. IsEnv(<<>>)
    BY DEF IsEnv
  <2> QED
    BY <1>0, <2>1, EnvironmentIs
<1>2. ASSUME NEW n \in Nat, n \in T PROVE n + 1 \in T
  <2> SUFFICES ASSUME n + 1 \in 0..Len(lines) PROVE IsEnv(Environment[n + 1])
    OBVIOUS
  <2>1. n \in 0..Len(lines) /\ n + 1 \in 1..Len(lines) /\ n + 1 - 1 = n
    BY <1>0
  <2>2. IsEnv(Environment[n]) /\ lines[n + 1] \in Lines
    BY <1>2, <2>1, LinesAre
  <2>3. Environment[n + 1] = SetTo(Environment[n], lines[n + 1])
    BY <1>0, <2>1, EnvironmentIs
  <2> QED
    BY <2>2, <2>3, SetToType
<1> HIDE DEF T
<1>3. \A n \in Nat : n \in T
  BY <1>1, <1>2, NatInd, Zenon
<1>4. \A i \in 0..Len(lines) : i \in Nat
  OBVIOUS
<1> QED
  BY <1>3, <1>4 DEF T

-----------------------------------------------------------------------------
(* The lines that are lost.                                                *)

\* f[i] says whether line i is lost.
Losses(f, n) ==
    f = [i \in 1..n |-> \E a \in EndBefore(i) : ~f[a]]

LEMMA LossesExist == \A n \in Nat : \E f : Losses(f, n)
<1> DEFINE T == {n \in Nat : \E f : Losses(f, n)}
<1>1. 0 \in T
  <2> DEFINE f == [i \in 1..0 |-> TRUE]
  <2>1. Losses(f, 0)
    BY DEF Losses
  <2> QED
    BY <2>1
<1>2. ASSUME NEW n \in Nat, n \in T PROVE n + 1 \in T
  <2>1. PICK f : Losses(f, n)
    BY <1>2
  <2>2. \A i \in 1..n : f[i] = \E a \in EndBefore(i) : ~f[a]
    BY <2>1, Zenon DEF Losses
  <2> DEFINE L(i) == \E a \in EndBefore(i) : ~f[a]
             g == [i \in 1..(n + 1) |-> IF i <= n THEN f[i] ELSE L(i)]
  <2>3. ASSUME NEW i \in 1..(n + 1)
        PROVE  g[i] = \E a \in EndBefore(i) : ~g[a]
    <3>1. g[i] = IF i <= n THEN f[i] ELSE L(i)
      OBVIOUS
    <3>2. ASSUME NEW a \in EndBefore(i) PROVE g[a] = f[a]
      <4>1. a \in 1..(n + 1) /\ a <= n
        BY DEF EndBefore
      <4> HIDE DEF L
      <4> QED
        BY <4>1
    <3>3. i <= n => i \in 1..n
      OBVIOUS
    <3>4. g[i] = L(i)
      <4> HIDE DEF g
      <4> QED
        BY <2>2, <3>1, <3>3, Zenon
    <3>5. L(i) = \E a \in EndBefore(i) : ~g[a]
      <4> HIDE DEF g
      <4> QED
        BY <3>2, Zenon
    <3> QED
      BY <3>4, <3>5, Zenon
  <2> HIDE DEF L
  <2>4. Losses(g, n + 1)
    <3>1. g = [i \in 1..(n + 1) |-> g[i]]
      BY Zenon
    <3> QED
      BY <2>3, <3>1, Zenon DEF Losses
  <2> QED
    BY <2>4
<1> HIDE DEF T
<1>3. \A n \in Nat : n \in T
  BY <1>1, <1>2, NatInd, Zenon
<1> QED
  BY <1>3 DEF T

LEMMA LostIs ==
    ASSUME file \in Files
    PROVE  \A i \in 1..Len(lines) : Lost[i] = \E a \in EndBefore(i) : ~Lost[a]
<1>1. DOMAIN lines = 1..Len(lines) /\ Len(lines) \in Nat
  BY LinesAre
<1>2. PICK f : Losses(f, Len(lines))
  BY <1>1, LossesExist
<1>3. Lost = [i \in DOMAIN lines |-> \E a \in EndBefore(i) : ~Lost[a]]
  BY <1>1, <1>2, Zenon DEF Lost, Losses
<1>4. \A i \in DOMAIN lines : Lost[i] = \E a \in EndBefore(i) : ~Lost[a]
  BY <1>3, Zenon
<1> QED
  BY <1>1, <1>4, Zenon

-----------------------------------------------------------------------------
(* The lines of an array.                                                  *)

LEMMA LeastNat ==
    ASSUME NEW T, T \subseteq Nat, T # {}
    PROVE  \E m \in T : \A x \in T : m <= x
<1>1. \E m \in T : \A x \in T : ~(<<x, m>> \in OpToRel(<, Nat))
  BY NatLessThanWellFounded, WFMin
<1>2. \A x, m \in T : ~(<<x, m>> \in OpToRel(<, Nat)) => m <= x
  BY DEF OpToRel
<1> QED
  BY <1>1, <1>2

LEMMA LineOfIs ==
    ASSUME file \in Files, NEW k, Says(k)
    PROVE  /\ LineOf(k) \in 1..Len(lines)
           /\ IsOf(lines[LineOf(k)], k)
           /\ \A j \in 1..(LineOf(k) - 1) : ~IsOf(lines[j], k)
<1> DEFINE T == {i \in 1..Len(lines) : IsOf(lines[i], k)}
<1>0. DOMAIN lines = 1..Len(lines) /\ Len(lines) \in Nat
  BY LinesAre
<1>1. T # {} /\ T \subseteq Nat
  BY <1>0 DEF Says
<1>2. PICK m \in T : \A x \in T : m <= x
  BY <1>1, LeastNat
<1>3. \A j \in 1..(m - 1) : ~IsOf(lines[j], k)
  BY <1>0, <1>2
<1>4. m \in DOMAIN lines /\ IsOf(lines[m], k)
  BY <1>0, <1>2
<1>5. LineOf(k) \in DOMAIN lines /\ IsOf(lines[LineOf(k)], k)
      /\ \A j \in 1..(LineOf(k) - 1) : ~IsOf(lines[j], k)
  BY <1>3, <1>4, Zenon DEF LineOf
<1> QED
  BY <1>0, <1>5

\* What is known of the lines from a on, when an array begins there.
Shaped(a) ==
    /\ ClosedAt(a) \in a..Len(lines)
    /\ Closes(lines[ClosedAt(a)])
    /\ \A m \in a..(ClosedAt(a) - 1) : ~Closes(lines[m])
    /\ \A m \in (a + 1)..ClosedAt(a) : lines[m].line \in {"items", "empty"}
    /\ \E j \in a..ClosedAt(a) :
          /\ Opens(lines[j])
          /\ \A m \in a..(j - 1) : ~Opens(lines[m]) /\ LineItems(m) = <<>>

LEMMA ClosesItems ==
    ASSUME file \in Files, NEW i \in 1..Len(lines)
    PROVE  Closes(lines[i]) <=> \E n \in 1..Len(LineItems(i)) : LineItems(i)[n].close
<1>1. CASE HasItems(lines[i])
  <2>1. LineItems(i) = lines[i].items
    BY <1>1 DEF LineItems
  <2>2. DOMAIN lines[i].items = 1..Len(lines[i].items)
    BY <2>1, LineItemsType, LenProperties
  <2> QED
    BY <1>1, <2>1, <2>2 DEF Closes
<1>2. CASE ~HasItems(lines[i])
  <2>1. LineItems(i) = <<>>
    BY <1>2 DEF LineItems
  <2>2. ~\E n \in 1..Len(LineItems(i)) : LineItems(i)[n].close
    BY <2>1
  <2> QED
    BY <1>2, <2>2 DEF Closes
<1> QED
  BY <1>1, <1>2

LEMMA ArrayShape ==
    ASSUME file \in Files, OnlyArrays, NEW a \in 1..Len(lines), lines[a].line = "array"
    PROVE  Shaped(a)
<1>0. DOMAIN lines = 1..Len(lines) /\ Len(lines) \in Nat /\ a \in Nat /\ a >= 1
  BY LinesAre
<1>1. ~\A m \in a..Len(lines) : ~Opens(lines[m])
  BY <1>0 DEF OnlyArrays, NeverOpens
<1>a. PICK j \in a..Len(lines) : \E k \in j..Len(lines) :
        /\ Opens(lines[j]) /\ Closes(lines[k])
        /\ \A m \in (a + 1)..k : lines[m].line \in {"items", "empty"}
        /\ \A m \in a..(j - 1) : HasItems(lines[m]) => lines[m].items = <<>>
  BY <1>0, <1>1, LinesAre, Zenon DEF WellFormed
<1>2. PICK k \in j..Len(lines) :
        /\ Opens(lines[j]) /\ Closes(lines[k])
        /\ \A m \in (a + 1)..k : lines[m].line \in {"items", "empty"}
        /\ \A m \in a..(j - 1) : HasItems(lines[m]) => lines[m].items = <<>>
  BY <1>a
<1> DEFINE T == {m \in a..k : Closes(lines[m])}
<1>3. PICK c \in T : \A x \in T : c <= x
  <2>1. T # {} /\ T \subseteq Nat
    BY <1>0, <1>2
  <2> QED
    BY <2>1, LeastNat
<1>4. c \in a..k /\ c \in a..Len(lines) /\ Closes(lines[c])
  BY <1>0, <1>2, <1>3
<1>5. \A m \in a..(c - 1) : ~Closes(lines[m])
  BY <1>0, <1>2, <1>3, <1>4
<1> HIDE DEF T
<1>6. /\ ClosedAt(a) \in a..Len(lines) /\ Closes(lines[ClosedAt(a)])
      /\ \A m \in a..(ClosedAt(a) - 1) : ~Closes(lines[m])
  BY <1>4, <1>5, Zenon DEF ClosedAt
<1>7. ClosedAt(a) <= c
  BY <1>0, <1>4, <1>6
<1>8. \A m \in a..(j - 1) : LineItems(m) = <<>>
  BY <1>2 DEF LineItems
<1>9. j <= ClosedAt(a)
  <2> SUFFICES ASSUME ClosedAt(a) < j PROVE FALSE
    BY <1>0, <1>6
  <2>1. ClosedAt(a) \in a..(j - 1) /\ ClosedAt(a) \in 1..Len(lines)
    BY <1>0, <1>6
  <2>2. LineItems(ClosedAt(a)) = <<>>
    BY <1>8, <2>1
  <2>3. ~Closes(lines[ClosedAt(a)])
    BY <2>1, <2>2, ClosesItems
  <2> QED
    BY <1>6, <2>3
<1> DEFINE U == {m \in a..j : Opens(lines[m])}
<1>10. PICK b \in U : \A x \in U : b <= x
  <2>1. U # {} /\ U \subseteq Nat
    BY <1>0, <1>2
  <2> QED
    BY <2>1, LeastNat
<1>11. b \in a..j /\ Opens(lines[b])
  BY <1>10
<1>12. \A m \in a..(b - 1) : ~Opens(lines[m]) /\ LineItems(m) = <<>>
  BY <1>0, <1>8, <1>10, <1>11
<1> HIDE DEF U
<1>13. b \in a..ClosedAt(a)
  BY <1>0, <1>6, <1>9, <1>11
<1>14. \A m \in (a + 1)..ClosedAt(a) : lines[m].line \in {"items", "empty"}
  BY <1>0, <1>2, <1>4, <1>6, <1>7
<1> QED
  BY <1>6, <1>11, <1>12, <1>13, <1>14 DEF Shaped

\* The items of the lines from a to b.
Parts(a, b) == [n \in 1..(b - a + 1) |-> LineItems(a + n - 1)]
ItemsFrom(a, b) == FlattenSeq(Parts(a, b))

LEMMA PartsType ==
    ASSUME file \in Files, NEW a \in 1..Len(lines), NEW b \in (a - 1)..Len(lines)
    PROVE  Parts(a, b) \in Seq(Seq(Items)) /\ Len(Parts(a, b)) = b - a + 1
           /\ \A n \in 1..(b - a + 1) : Parts(a, b)[n] = LineItems(a + n - 1)
<1>0. Len(lines) \in Nat /\ b - a + 1 \in Nat
  BY LinesAre
<1>1. \A n \in 1..(b - a + 1) : a + n - 1 \in 1..Len(lines)
  BY <1>0
<1>2. \A n \in 1..(b - a + 1) : LineItems(a + n - 1) \in Seq(Items)
  BY <1>1, LineItemsType
<1> QED
  BY <1>0, <1>2 DEF Parts

LEMMA ItemsFromType ==
    ASSUME file \in Files, NEW a \in 1..Len(lines), NEW b \in (a - 1)..Len(lines)
    PROVE  ItemsFrom(a, b) \in Seq(Items)
  BY PartsType, FlattenType DEF ItemsFrom

LEMMA ItemsFromStep ==
    ASSUME file \in Files, NEW a \in 1..Len(lines), NEW b \in (a - 1)..(Len(lines) - 1)
    PROVE  ItemsFrom(a, b + 1) = ItemsFrom(a, b) \o LineItems(b + 1)
<1>0. Len(lines) \in Nat /\ b \in Int /\ a \in Nat /\ b \in (a - 1)..Len(lines)
      /\ b + 1 \in (a - 1)..Len(lines) /\ b + 1 \in 1..Len(lines)
  BY LinesAre
<1> DEFINE x == Parts(a, b)
           y == Parts(a, b + 1)
           w == LineItems(b + 1)
<1>1. x \in Seq(Seq(Items)) /\ Len(x) = b - a + 1
      /\ \A n \in 1..(b - a + 1) : x[n] = LineItems(a + n - 1)
  BY <1>0, PartsType
<1>2. y \in Seq(Seq(Items)) /\ Len(y) = b - a + 2
      /\ \A n \in 1..(b - a + 2) : y[n] = LineItems(a + n - 1)
  <2>1. (b + 1) - a + 1 = b - a + 2
    BY <1>0
  <2> QED
    BY <1>0, <2>1, PartsType
<1>3. w \in Seq(Items)
  BY <1>0, LineItemsType
<1>4. y[b - a + 2] = w
  <2>1. b - a + 2 \in 1..(b - a + 2) /\ a + (b - a + 2) - 1 = b + 1
    BY <1>0
  <2> QED
    BY <1>2, <2>1
<1> HIDE DEF x, y, w
<1>5. y = Append(x, w)
  <2>1. Append(x, w) \in Seq(Seq(Items)) /\ Len(Append(x, w)) = b - a + 2
    BY <1>0, <1>1, <1>3
  <2>2. ASSUME NEW n \in 1..(b - a + 2) PROVE y[n] = Append(x, w)[n]
    <3>1. CASE n = b - a + 2
      BY <1>0, <1>1, <1>3, <1>4, <3>1
    <3>2. CASE n # b - a + 2
      BY <1>0, <1>1, <1>2, <1>3, <3>2
    <3> QED
      BY <3>1, <3>2
  <2> QED
    BY <1>2, <2>1, <2>2, SeqEqual
<1>6. FlattenSeq(y) = FlattenSeq(x) \o w
  BY <1>1, <1>3, <1>5, FlattenAppend
<1> QED
  BY <1>6 DEF ItemsFrom, x, y, w

LEMMA ItemsFromNone ==
    ASSUME file \in Files, NEW a \in 1..Len(lines)
    PROVE  ItemsFrom(a, a - 1) = <<>>
<1>1. a - 1 - a + 1 = 0
  BY LinesAre
<1>2. Parts(a, a - 1) = <<>>
  BY <1>1 DEF Parts
<1> QED
  BY <1>2, FlattenEmpty DEF ItemsFrom

LEMMA ItemsFromEmpty ==
    ASSUME file \in Files, NEW a \in 1..Len(lines), NEW b \in (a - 1)..Len(lines),
           \A m \in a..b : LineItems(m) = <<>>
    PROVE  ItemsFrom(a, b) = <<>>
<1>0. Len(lines) \in Nat /\ a \in Nat /\ b \in Int
  BY LinesAre
<1> DEFINE T == {n \in Nat : n <= b - a + 1 => ItemsFrom(a, a - 1 + n) = <<>>}
<1>1. 0 \in T
  BY <1>0, ItemsFromNone
<1>2. ASSUME NEW n \in Nat, n \in T PROVE n + 1 \in T
  <2> SUFFICES ASSUME n + 1 <= b - a + 1 PROVE ItemsFrom(a, a - 1 + (n + 1)) = <<>>
    OBVIOUS
  <2>1. a - 1 + n \in (a - 1)..(Len(lines) - 1) /\ (a - 1 + n) + 1 = a - 1 + (n + 1)
        /\ (a - 1 + n) + 1 \in a..b /\ n <= b - a + 1
    BY <1>0
  <2>2. ItemsFrom(a, a - 1 + n) = <<>> /\ LineItems((a - 1 + n) + 1) = <<>>
    BY <1>2, <2>1
  <2>3. ItemsFrom(a, (a - 1 + n) + 1) = ItemsFrom(a, a - 1 + n) \o LineItems((a - 1 + n) + 1)
    BY <2>1, ItemsFromStep
  <2>4. <<>> \o <<>> = <<>>
    OBVIOUS
  <2> QED
    BY <2>1, <2>2, <2>3, <2>4
<1> HIDE DEF T
<1>3. \A n \in Nat : n \in T
  BY <1>1, <1>2, NatInd, Zenon
<1>4. b - a + 1 \in Nat /\ a - 1 + (b - a + 1) = b /\ b - a + 1 <= b - a + 1
  BY <1>0
<1>5. b - a + 1 \in T
  BY <1>3, <1>4, Zenon
<1>6. ItemsFrom(a, a - 1 + (b - a + 1)) = <<>>
  BY <1>4, <1>5, Zenon DEF T
<1> QED
  BY <1>4, <1>6, Zenon

LEMMA ItemsOfIs == \A a : ItemsOf(a) = ItemsFrom(a, ClosedAt(a))
  BY DEF ItemsOf, ItemsFrom, Parts, LineItems

-----------------------------------------------------------------------------
(* Reading an array.  a is its first line.                                 *)

\* No "(" has been found up to line i.
Looking(a, i, l) ==
    /\ i \in a..Len(lines)
    /\ \A m \in a..i : ~Opens(lines[m])
    /\ l = <<>>

\* toks are the items left of line i.
Left(i, toks, cb) ==
    /\ toks \in Seq(Items) /\ cb \in BOOLEAN
    /\ \A n \in 1..Len(toks) :
          /\ toks[n].close => n = Len(toks)
          /\ ~(toks[n].text = <<>> /\ toks[n].quotes /\ toks[n].close)
    /\ cb => toks = <<>>
    /\ Closes(lines[i]) <=> cb \/ \E n \in 1..Len(toks) : toks[n].close

Reading(env, a, i, toks, cb, l) ==
    /\ i \in a..ClosedAt(a)
    /\ Left(i, toks, cb)
    /\ l \in Seq(Str)
    /\ Elements(env, ItemsFrom(a, i)) = l \o Elements(env, toks)

IsArray(a) == a \in 1..Len(lines) /\ lines[a].line = "array"

LEMMA LeftAll ==
    ASSUME file \in Files, OnlyArrays, NEW i \in 1..Len(lines)
    PROVE  Left(i, LineItems(i), FALSE)
<1>1. LineItems(i) \in Seq(Items)
  BY LineItemsType
<1>2. DOMAIN lines = 1..Len(lines)
  BY LinesAre
<1>3. \A n \in 1..Len(LineItems(i)) :
          /\ LineItems(i)[n].close => n = Len(LineItems(i))
          /\ ~(LineItems(i)[n].text = <<>> /\ LineItems(i)[n].quotes /\ LineItems(i)[n].close)
  <2>1. CASE HasItems(lines[i])
    <3>1. LineItems(i) = lines[i].items
      BY <2>1 DEF LineItems
    <3>2. DOMAIN lines[i].items = 1..Len(lines[i].items) /\ Len(lines[i].items) \in Nat
      BY <1>1, <3>1, LenProperties
    <3>3. ~HasOddItems(lines[i])
      BY <1>2 DEF OnlyArrays
    <3>4. \A n \in 1..Len(lines[i].items) :
            /\ ~(lines[i].items[n].text = <<>> /\ lines[i].items[n].quotes /\ lines[i].items[n].close)
            /\ ~(lines[i].items[n].close /\ n < Len(lines[i].items))
      BY <2>1, <3>2, <3>3, Zenon DEF HasOddItems
    <3>5. \A n \in 1..Len(lines[i].items) : ~(n < Len(lines[i].items)) => n = Len(lines[i].items)
      BY <3>2
    <3> QED
      BY <3>1, <3>4, <3>5, Zenon
  <2>2. CASE ~HasItems(lines[i])
    <3>1. LineItems(i) = <<>>
      BY <2>2 DEF LineItems
    <3>2. 1..Len(LineItems(i)) = {}
      BY <3>1
    <3> QED
      BY <3>2
  <2> QED
    BY <2>1, <2>2
<1>4. Closes(lines[i]) <=> \E n \in 1..Len(LineItems(i)) : LineItems(i)[n].close
  BY ClosesItems
<1> QED
  BY <1>1, <1>3, <1>4, Zenon DEF Left

LEMMA LookingEarly ==
    ASSUME file \in Files, OnlyArrays, NEW a, IsArray(a), NEW i, NEW l, Looking(a, i, l)
    PROVE  /\ i < ClosedAt(a)
           /\ ItemsFrom(a, i) = <<>>
<1>0. a \in 1..Len(lines) /\ Len(lines) \in Nat /\ i \in a..Len(lines)
  BY LinesAre DEF IsArray, Looking
<1>1. Shaped(a)
  BY <1>0, ArrayShape DEF IsArray
<1>2. PICK j \in a..ClosedAt(a) :
         Opens(lines[j]) /\ \A m \in a..(j - 1) : ~Opens(lines[m]) /\ LineItems(m) = <<>>
  BY <1>1 DEF Shaped
<1>3. ClosedAt(a) \in a..Len(lines)
  BY <1>1 DEF Shaped
<1>4. i < j
  BY <1>0, <1>2, <1>3 DEF Looking
<1>5. i \in (a - 1)..Len(lines) /\ \A m \in a..i : LineItems(m) = <<>>
  BY <1>0, <1>2, <1>3, <1>4
<1>6. ItemsFrom(a, i) = <<>>
  BY <1>0, <1>5, ItemsFromEmpty
<1> QED
  BY <1>0, <1>2, <1>3, <1>4, <1>6

LEMMA ReadingStarts ==
    ASSUME file \in Files, OnlyArrays, NEW env, IsEnv(env), NEW a, IsArray(a),
           NEW i \in a..ClosedAt(a), ItemsFrom(a, i - 1) = <<>>
    PROVE  Reading(env, a, i, LineItems(i), FALSE, <<>>)
<1>0. a \in 1..Len(lines) /\ Len(lines) \in Nat /\ Shaped(a)
  BY LinesAre, ArrayShape DEF IsArray
<1>1. i \in 1..Len(lines) /\ i - 1 \in (a - 1)..(Len(lines) - 1) /\ (i - 1) + 1 = i
  BY <1>0 DEF Shaped
<1>2. ItemsFrom(a, (i - 1) + 1) = ItemsFrom(a, i - 1) \o LineItems((i - 1) + 1)
  BY <1>0, <1>1, ItemsFromStep
<1>3. LineItems(i) \in Seq(Items)
  BY <1>1, LineItemsType
<1>4. <<>> \o LineItems(i) = LineItems(i)
  BY <1>3, ConcatEmptySeq
<1>5. ItemsFrom(a, i) = LineItems(i)
  BY <1>1, <1>2, <1>4, Zenon
<1>6. Elements(env, LineItems(i)) \in Seq(Str)
  BY <1>3, ElementsType
<1>7. <<>> \o Elements(env, LineItems(i)) = Elements(env, LineItems(i))
  BY <1>6, ConcatEmptySeq
<1>8. Left(i, LineItems(i), FALSE) /\ <<>> \in Seq(Str)
  BY <1>1, LeftAll, EmptySeq
<1> QED
  BY <1>5, <1>7, <1>8, Zenon DEF Reading

LEMMA ReadingLine ==
    ASSUME file \in Files, OnlyArrays, NEW env, IsEnv(env), NEW a, IsArray(a), NEW i, NEW l,
           Reading(env, a, i, <<>>, FALSE, l)
    PROVE  /\ i < ClosedAt(a)
           /\ Reading(env, a, i + 1, LineItems(i + 1), FALSE, l)
<1>0. a \in 1..Len(lines) /\ Len(lines) \in Nat /\ Shaped(a)
  BY LinesAre, ArrayShape DEF IsArray
<1>1. i \in a..ClosedAt(a) /\ Left(i, <<>>, FALSE) /\ l \in Seq(Str)
      /\ Elements(env, ItemsFrom(a, i)) = l \o Elements(env, <<>>)
  BY DEF Reading
<1>2. ~Closes(lines[i])
  BY <1>1 DEF Left
<1>3. i # ClosedAt(a) /\ ClosedAt(a) \in a..Len(lines)
  BY <1>0, <1>2 DEF Shaped
<1>4. i + 1 \in a..ClosedAt(a) /\ i + 1 \in 1..Len(lines) /\ i \in (a - 1)..(Len(lines) - 1)
      /\ i \in (a - 1)..Len(lines) /\ i < ClosedAt(a)
  BY <1>0, <1>1, <1>3
<1>5. ItemsFrom(a, i + 1) = ItemsFrom(a, i) \o LineItems(i + 1)
  BY <1>0, <1>4, ItemsFromStep
<1>6. ItemsFrom(a, i) \in Seq(Items) /\ LineItems(i + 1) \in Seq(Items)
  BY <1>0, <1>4, ItemsFromType, LineItemsType
<1>7. Elements(env, ItemsFrom(a, i) \o LineItems(i + 1))
        = Elements(env, ItemsFrom(a, i)) \o Elements(env, LineItems(i + 1))
  BY <1>6, ElementsConcat
<1>8. Elements(env, <<>>) = <<>> /\ l \o <<>> = l
  BY <1>1, ElementsEmpty, ConcatEmptySeq
<1>9. Left(i + 1, LineItems(i + 1), FALSE)
  BY <1>4, LeftAll
<1>10. Elements(env, ItemsFrom(a, i + 1)) = l \o Elements(env, LineItems(i + 1))
  BY <1>1, <1>5, <1>7, <1>8, Zenon
<1> QED
  BY <1>1, <1>4, <1>9, <1>10, Zenon DEF Reading

LEMMA ReadingEnds ==
    ASSUME file \in Files, OnlyArrays, NEW env, IsEnv(env), NEW a, IsArray(a), NEW i, NEW l,
           Reading(env, a, i, <<>>, TRUE, l)
    PROVE  i = ClosedAt(a) /\ l = Elements(env, ItemsOf(a))
<1>0. a \in 1..Len(lines) /\ Len(lines) \in Nat /\ Shaped(a)
  BY LinesAre, ArrayShape DEF IsArray
<1>1. i \in a..ClosedAt(a) /\ Left(i, <<>>, TRUE) /\ l \in Seq(Str)
      /\ Elements(env, ItemsFrom(a, i)) = l \o Elements(env, <<>>)
  BY DEF Reading
<1>2. Closes(lines[i])
  BY <1>1 DEF Left
<1>3. i = ClosedAt(a)
  BY <1>0, <1>1, <1>2 DEF Shaped
<1>4. Elements(env, <<>>) = <<>> /\ l \o <<>> = l
  BY <1>1, ElementsEmpty, ConcatEmptySeq
<1> QED
  BY <1>1, <1>3, <1>4, ItemsOfIs, Zenon

LEMMA LeftTail ==
    ASSUME NEW i, NEW toks, NEW cb, Left(i, toks, cb), toks # <<>>
    PROVE  /\ Left(i, Tail(toks), cb \/ Head(toks).close)
           /\ Head(toks) \in Items
           /\ Head(toks).close \in BOOLEAN
           /\ Head(toks).close => Tail(toks) = <<>>
           /\ ~(Head(toks).text = <<>> /\ Head(toks).quotes /\ Head(toks).close)
           /\ toks = <<Head(toks)>> \o Tail(toks)
           /\ ~cb
<1>1. toks \in Seq(Items) /\ ~cb
  BY DEF Left
<1>2. /\ Len(toks) \in Nat /\ Len(toks) >= 1
      /\ Head(toks) = toks[1] /\ Head(toks) \in Items
      /\ Tail(toks) \in Seq(Items) /\ Len(Tail(toks)) = Len(toks) - 1
      /\ \A n \in 1..(Len(toks) - 1) : Tail(toks)[n] = toks[n + 1]
  BY <1>1, LenProperties, EmptySeq, HeadTailProperties
<1>3. toks = <<Head(toks)>> \o Tail(toks)
  BY <1>1, <1>2
<1>4. Head(toks).close \in BOOLEAN
  BY <1>2, ItemKinds
<1>a. \A n \in 1..Len(toks) :
          /\ toks[n].close => n = Len(toks)
          /\ ~(toks[n].text = <<>> /\ toks[n].quotes /\ toks[n].close)
  BY Zenon DEF Left
<1>b. 1 \in 1..Len(toks)
  BY <1>2
<1>5. /\ Head(toks).close => Len(toks) = 1
      /\ ~(Head(toks).text = <<>> /\ Head(toks).quotes /\ Head(toks).close)
  BY <1>2, <1>a, <1>b, Zenon
<1>6. Head(toks).close => Tail(toks) = <<>>
  BY <1>2, <1>5, EmptySeq
<1>7. \A n \in 1..Len(Tail(toks)) :
          /\ Tail(toks)[n].close => n = Len(Tail(toks))
          /\ ~(Tail(toks)[n].text = <<>> /\ Tail(toks)[n].quotes /\ Tail(toks)[n].close)
  <2> TAKE n \in 1..Len(Tail(toks))
  <2>1. n + 1 \in 1..Len(toks) /\ Tail(toks)[n] = toks[n + 1]
    BY <1>2
  <2>2. /\ toks[n + 1].close => n + 1 = Len(toks)
        /\ ~(toks[n + 1].text = <<>> /\ toks[n + 1].quotes /\ toks[n + 1].close)
    BY <1>a, <2>1, Zenon
  <2>3. n + 1 = Len(toks) => n = Len(Tail(toks))
    <3> DEFINE x == Len(toks)
               y == Len(Tail(toks))
    <3>1. x \in Nat /\ y = x - 1 /\ n \in 1..y
      BY <1>2
    <3>2. n + 1 = x => n = y
      <4> HIDE DEF x, y
      <4> QED
        BY <3>1
    <3> QED
      BY <3>2
  <2> DEFINE x == Tail(toks)[n]
             y == toks[n + 1]
             end == n + 1 = Len(toks)
             last == n = Len(Tail(toks))
  <2>4. x = y /\ (y.close => end) /\ ~(y.text = <<>> /\ y.quotes /\ y.close) /\ (end => last)
    BY <2>1, <2>2, <2>3
  <2>5. (x.close => last) /\ ~(x.text = <<>> /\ x.quotes /\ x.close)
    <3> HIDE DEF x, y, end, last
    <3> QED
      BY <2>4
  <2> QED
    BY <2>5
<1>8. (\E n \in 1..Len(toks) : toks[n].close)
        <=> Head(toks).close \/ \E n \in 1..Len(Tail(toks)) : Tail(toks)[n].close
  <2>1. ASSUME NEW n \in 1..Len(toks), toks[n].close, n # 1
        PROVE  \E m \in 1..Len(Tail(toks)) : Tail(toks)[m].close
    <3>1. n - 1 \in 1..Len(Tail(toks)) /\ (n - 1) + 1 = n
      BY <1>2, <2>1
    <3>2. Tail(toks)[n - 1] = toks[n]
      BY <1>2, <3>1
    <3> QED
      BY <2>1, <3>1, <3>2
  <2>2. ASSUME NEW m \in 1..Len(Tail(toks)), Tail(toks)[m].close
        PROVE  \E n \in 1..Len(toks) : toks[n].close
    <3>1. m + 1 \in 1..Len(toks) /\ Tail(toks)[m] = toks[m + 1]
      BY <1>2
    <3> QED
      BY <2>2, <3>1
  <2>3. 1 \in 1..Len(toks)
    BY <1>2
  <2> QED
    BY <1>2, <2>1, <2>2, <2>3
<1>9. Closes(lines[i]) <=>
        (cb \/ Head(toks).close) \/ \E n \in 1..Len(Tail(toks)) : Tail(toks)[n].close
  BY <1>8, Zenon DEF Left
<1>10. (cb \/ Head(toks).close) \in BOOLEAN /\ ((cb \/ Head(toks).close) => Tail(toks) = <<>>)
  BY <1>1, <1>6
<1>11. Left(i, Tail(toks), cb \/ Head(toks).close)
  BY <1>2, <1>7, <1>9, <1>10, Zenon DEF Left
<1> QED
  BY <1>1, <1>2, <1>3, <1>4, <1>5, <1>6, <1>11

LEMMA ReadingToken ==
    ASSUME NEW env, IsEnv(env), NEW a, NEW i, NEW toks, NEW cb, NEW l,
           Reading(env, a, i, toks, cb, l), toks # <<>>
    PROVE  /\ Head(toks).text = <<>> =>
                Reading(env, a, i, Tail(toks), cb \/ Head(toks).close, l)
           /\ Head(toks).text # <<>> =>
                Reading(env, a, i, Tail(toks), cb \/ Head(toks).close,
                        Append(l, IF Grabs THEN Expanded(env, Head(toks).text)
                                  ELSE Element(Head(toks))))
<1>1. i \in a..ClosedAt(a) /\ Left(i, toks, cb) /\ l \in Seq(Str)
      /\ Elements(env, ItemsFrom(a, i)) = l \o Elements(env, toks)
  BY DEF Reading
<1> DEFINE h == Head(toks)
           rest == Tail(toks)
           e == IF Grabs THEN Expanded(env, h.text) ELSE Element(h)
           after == Elements(env, rest)
<1>2. Left(i, rest, cb \/ h.close) /\ h \in Items /\ toks = <<h>> \o rest
  BY <1>1, LeftTail
<1>3. rest \in Seq(Items) /\ <<h>> \in Seq(Items)
  <2>1. rest \in Seq(Items)
    BY <1>2, Zenon DEF Left
  <2> HIDE DEF h
  <2>2. <<h>> \in Seq(Items)
    BY <1>2
  <2> QED
    BY <2>1, <2>2
<1>4. e \in Str
  BY <1>2, ItemKinds, ElementType, ExpandedType
<1>5. after \in Seq(Str)
  BY <1>3, ElementsType
<1>6. Elements(env, <<h>>) = IF h.text = <<>> THEN <<>> ELSE <<e>>
  BY <1>2, ElementsOne
<1> HIDE DEF h, rest, e
<1>7. Elements(env, toks) = Elements(env, <<h>>) \o after
  BY <1>2, <1>3, ElementsConcat
<1> HIDE DEF after
<1>8. CASE h.text = <<>>
  <2>1. <<>> \o after = after
    BY <1>5, ConcatEmptySeq
  <2>2. Elements(env, ItemsFrom(a, i)) = l \o after
    BY <1>1, <1>6, <1>7, <1>8, <2>1, Zenon
  <2>3. Reading(env, a, i, rest, cb \/ h.close, l)
    BY <1>1, <1>2, <2>2, Zenon DEF Reading, after
  <2> QED
    BY <1>8, <2>3 DEF h, rest
<1>9. CASE h.text # <<>>
  <2>1. l \o (<<e>> \o after) = Append(l, e) \o after
    <3>1. <<e>> \in Seq(Str)
      BY <1>4
    <3>2. l \o (<<e>> \o after) = (l \o <<e>>) \o after
      BY <1>1, <1>5, <3>1, ConcatsAssociate, SMT
    <3>3. l \o <<e>> = Append(l, e)
      BY <1>1, <1>4
    <3> QED
      BY <3>2, <3>3, Zenon
  <2>2. Elements(env, ItemsFrom(a, i)) = Append(l, e) \o after
    BY <1>1, <1>6, <1>7, <1>9, <2>1, Zenon
  <2>3. Append(l, e) \in Seq(Str)
    BY <1>1, <1>4
  <2>4. Reading(env, a, i, rest, cb \/ h.close, Append(l, e))
    BY <1>1, <1>2, <2>2, <2>3, Zenon DEF Reading, after
  <2> QED
    BY <1>9, <2>4 DEF h, rest, e
<1> QED
  BY <1>8, <1>9

-----------------------------------------------------------------------------
(* What the file says does not change.                                     *)

LEMMA FileStays ==
    ASSUME file' = file
    PROVE  /\ lines' = lines /\ Grabs' = Grabs
           /\ Lost' = Lost /\ Environment' = Environment
           /\ \A a : ClosedAt(a)' = ClosedAt(a)
           /\ \A k : Says(k)' = Says(k)
           /\ \A k : LineOf(k)' = LineOf(k)
           /\ \A i : LineItems(i)' = LineItems(i)
<1>1. lines' = lines
  BY DEF lines
<1>2. Grabs' = Grabs
  BY DEF Grabs
<1>3. \A a : ClosedAt(a)' = ClosedAt(a)
  BY <1>1 DEF ClosedAt
<1>4. Lost' = Lost
  <2>1. \A i : EndBefore(i)' = EndBefore(i)
    BY <1>1, <1>3 DEF EndBefore
  <2> QED
    BY <1>1, <2>1 DEF Lost
<1>5. Environment' = Environment
  BY <1>1 DEF Environment
<1>6. \A k : Says(k)' = Says(k)
  BY <1>1 DEF Says
<1>7. \A k : LineOf(k)' = LineOf(k)
  BY <1>1 DEF LineOf
<1>8. \A i : LineItems(i)' = LineItems(i)
  BY <1>1 DEF LineItems
<1> QED
  BY <1>1, <1>2, <1>3, <1>4, <1>5, <1>6, <1>7, <1>8

LEMMA WrittenStays ==
    ASSUME file' = file
    PROVE  /\ \A k : Written(k)' = Written(k)
           /\ \A env, items : Elements(env, items)' = Elements(env, items)
           /\ \A a, i : ItemsFrom(a, i)' = ItemsFrom(a, i)
<1>0. /\ lines' = lines /\ Grabs' = Grabs /\ Environment' = Environment
      /\ \A a : ClosedAt(a)' = ClosedAt(a)
      /\ \A k : LineOf(k)' = LineOf(k)
      /\ \A i : LineItems(i)' = LineItems(i)
  BY FileStays
<1>1. \A env, items : Elements(env, items)' = Elements(env, items)
  BY <1>0 DEF Elements, Element
<1>2. \A a, i : ItemsFrom(a, i)' = ItemsFrom(a, i)
  BY <1>0 DEF ItemsFrom, Parts
<1>3. \A a : ItemsOf(a)' = ItemsOf(a)
  BY <1>0 DEF ItemsOf
<1>4. \A i : Before(i)' = Before(i)
  BY <1>0 DEF Before
<1>5. \A k : Written(k)' = Written(k)
  BY <1>0, <1>1, <1>3, <1>4 DEF Written
<1> QED
  BY <1>1, <1>2, <1>5

LEMMA PreconditionsStay ==
    ASSUME file' = file
    PROVE  /\ OnlyArrays' = OnlyArrays
           /\ ArraysOnce' = ArraysOnce
<1>1. lines' = lines
  BY FileStays
<1>2. EndsInArray' = EndsInArray
  BY <1>1 DEF EndsInArray
<1>3. \A i : NeverOpens(i)' = NeverOpens(i)
  BY <1>1 DEF NeverOpens
<1>4. OnlyArrays' = OnlyArrays
  BY <1>1, <1>2, <1>3 DEF OnlyArrays
<1>5. ArraysOnce' = ArraysOnce
  BY <1>1 DEF ArraysOnce
<1> QED
  BY <1>4, <1>5

-----------------------------------------------------------------------------
(* The places the reader can be at.                                        *)

\* The reader is in its file, and only grab_dependencies substitutes.
Placed ==
    /\ file \in Files
    /\ pc \in {"lines", "substitute", "preamble", "array", "returned", "overrun"}
    /\ at \in 0..Len(lines)
    /\ key \in Arrays
    /\ DOMAIN lists = Arrays
    /\ pc = "substitute" => Grabs

LEMMA NextLineIs ==
    ASSUME Placed, fgets
    PROVE  /\ at' = at + 1 /\ at' \in 1..Len(lines) /\ at \in Nat
           /\ NextLine = lines[at'] /\ NextLine \in Lines
           /\ eof' => at' = Len(lines) /\ ~file.newline
<1>1. at \in 0..Len(lines) /\ Len(lines) \in Nat /\ at < Len(lines) /\ at' = at + 1
  BY LinesAre DEF Placed, fgets
<1>2. at' \in 1..Len(lines)
  BY <1>1
<1>3. NextLine = lines[at'] /\ NextLine \in Lines
  BY <1>1, <1>2, LinesAre DEF Placed, NextLine
<1>4. eof' => at' = Len(lines) /\ ~file.newline
  <2>1. eof' = EofAfter(at')
    BY Zenon DEF fgets
  <2>2. EofAfter(at') => at' = Len(lines) /\ ~file.newline
    BY <1>1, <1>2 DEF EofAfter
  <2> QED
    BY <2>1, <2>2, Zenon
<1> QED
  BY <1>1, <1>2, <1>3, <1>4

LEMMA PlacedInit == PkgbuildInit => Placed
<1> SUFFICES ASSUME PkgbuildInit PROVE Placed
  OBVIOUS
<1>1. file \in Files
  BY DEF PkgbuildInit
<1>2. 0 \in 0..Len(lines)
  BY <1>1, LinesAre
<1> QED
  BY <1>1, <1>2 DEF PkgbuildInit, Placed, Arrays

LEMMA AddKeepsDomain ==
    ASSUME DOMAIN lists = Arrays, NEW text, lists' = Add(text)
    PROVE  DOMAIN lists' = Arrays
  BY DEF Add

\* What a step does to the variables Placed speaks of.
Moves ==
    /\ file' = file
    /\ pc' \in {"lines", "substitute", "preamble", "array", "returned", "overrun"}
    /\ at' \in 0..Len(lines)
    /\ key' \in Arrays
    /\ DOMAIN lists' = Arrays
    /\ pc' = "substitute" => Grabs

LEMMA MovesPlaced == ASSUME Placed, Moves PROVE Placed'
<1>1. lines' = lines /\ Grabs' = Grabs
  BY FileStays DEF Moves
<1> QED
  BY <1>1 DEF Placed, Moves

LEMMA PlacedStep == Placed /\ [PkgbuildStep]_pkgbuildVars => Placed'
<1> SUFFICES ASSUME Placed, [PkgbuildStep]_pkgbuildVars PROVE Moves
  BY MovesPlaced
<1>0. /\ file \in Files /\ pc \in {"lines", "substitute", "preamble", "array", "returned", "overrun"}
      /\ at \in 0..Len(lines) /\ key \in Arrays /\ DOMAIN lists = Arrays
      /\ pc = "substitute" => Grabs
  BY DEF Placed
<1>1. fgets => at' \in 0..Len(lines)
  BY NextLineIs
<1>2. CASE FileEnds
  BY <1>0, <1>2 DEF FileEnds, Moves, arrayVars
<1>3. CASE StopAtBuild
  BY <1>0, <1>1, <1>3 DEF StopAtBuild, Moves, arrayVars
<1>4. CASE SkipLine
  BY <1>0, <1>1, <1>4 DEF SkipLine, Moves, arrayVars
<1>5. CASE Assign
  BY <1>0, <1>1, <1>5 DEF Assign, Substitute, Moves, arrayVars
<1>6. CASE BeginArray
  <2>1. key' \in Arrays
    <3>1. fgets /\ NextLine.line = "array" /\ key' = NextLine.key
      BY <1>6 DEF BeginArray, IsArrayOf, ListOf
    <3> QED
      BY <3>1, NextLineIs, LineKinds
  <2>2. pc' \in {"lines", "preamble", "array", "returned"}
    BY <1>6 DEF BeginArray, EnterArray, AfterArray
  <2> QED
    BY <1>0, <1>1, <1>6, <2>1, <2>2 DEF BeginArray, Moves
<1>7. CASE FindParen
  <2>1. pc' \in {"lines", "preamble", "array", "returned"}
    BY <1>7 DEF FindParen, EnterArray, AfterArray
  <2> QED
    BY <1>0, <1>1, <1>7, <2>1 DEF FindParen, Moves
<1>8. CASE ParenNotFound
  BY <1>0, <1>8 DEF ParenNotFound, AfterArray, Moves
<1>9. CASE NextArrayLine
  <2>1. at' \in 0..Len(lines)
    BY <1>0, <1>1, <1>9 DEF NextArrayLine
  <2>2. pc' \in {"lines", "array", "returned"}
    BY <1>9 DEF NextArrayLine, AfterArray
  <2> QED
    BY <1>0, <1>9, <2>1, <2>2 DEF NextArrayLine, Moves
<1>10. CASE SkipToken
  BY <1>0, <1>10 DEF SkipToken, Moves
<1>11. CASE ReadToken
  <2>1. CASE Grabs
    BY <1>0, <1>11, <2>1 DEF ReadToken, Substitute, Moves
  <2>2. CASE ~Grabs
    <3>1. DOMAIN lists' = Arrays
      BY <1>0, <1>11, <2>2, AddKeepsDomain DEF ReadToken
    <3> QED
      BY <1>0, <1>11, <2>2, <3>1 DEF ReadToken, Moves
  <2> QED
    BY <2>1, <2>2
<1>12. CASE SkipReference
  BY <1>0, <1>12 DEF SkipReference, Moves, arrayVars
<1>13. CASE ReplaceReference
  BY <1>0, <1>13 DEF ReplaceReference, Moves, arrayVars
<1>14. CASE SubstituteReturns
  <2>1. DOMAIN lists' = Arrays
    <3>1. CASE var = <<>>
      BY <1>0, <1>14, <3>1, AddKeepsDomain DEF SubstituteReturns
    <3>2. CASE var # <<>>
      BY <1>0, <1>14, <3>2 DEF SubstituteReturns
    <3> QED
      BY <3>1, <3>2
  <2>2. pc' \in {"lines", "array"}
    BY <1>14 DEF SubstituteReturns
  <2> QED
    BY <1>0, <1>14, <2>1, <2>2 DEF SubstituteReturns, Moves, arrayVars
<1>15. CASE Overrun
  BY <1>0, <1>15 DEF Overrun, Moves, arrayVars
<1>16. CASE UNCHANGED pkgbuildVars
  BY <1>0, <1>16 DEF pkgbuildVars, arrayVars, Moves
<1> QED
  BY <1>2, <1>3, <1>4, <1>5, <1>6, <1>7, <1>8, <1>9, <1>10, <1>11, <1>12, <1>13, <1>14, <1>15, <1>16
     DEF PkgbuildStep, ReadFile, ReadArray, substitute_vars

-----------------------------------------------------------------------------
(* parse_pkgbuild.                                                         *)

\* The precondition of ArraysAsWritten.
Readable == ~Grabs /\ OnlyArrays /\ ArraysOnce

\* What the list of k is to be when n lines have been read.
Due(k, n) == IF Says(k) /\ LineOf(k) <= n /\ ~Lost[LineOf(k)] THEN Written(k) ELSE <<>>

\* The arrays of the first n lines that are read end before the last of these.
ReadTo(n) == \A a \in 1..n : IsArray(a) /\ ~Lost[a] => ClosedAt(a) < n

\* The array of k is being read.
Begun(k, ls) ==
    /\ Says(k) /\ k \in Arrays /\ ~Lost[LineOf(k)]
    /\ ReadTo(LineOf(k) - 1)
    /\ \A o \in Arrays : o # k => ls[o] = Due(o, LineOf(k))

ParsedAs(c, n, k, toks, cb, ls) ==
    /\ c = "lines" => n = Len(lines) \/ ReadTo(n)
    /\ c = "lines" => \A o \in Arrays : ls[o] = Due(o, n)
    /\ c \in {"preamble", "array"} => Begun(k, ls)
    /\ c = "preamble" => Looking(LineOf(k), n, ls[k])
    /\ c = "array" => Reading(Before(LineOf(k)), LineOf(k), n, toks, cb, ls[k])
    /\ c = "returned" => \A o \in Arrays : ls[o] = Due(o, Len(lines))

Parsed == ParsedAs(pc, at, key, tokens, can_break, lists)
\* The inductive invariant of parse_pkgbuild.
ParseInv == Placed /\ (Readable => Parsed)

LEMMA BeforeStays ==
    ASSUME file' = file
    PROVE  \A k : Before(LineOf(k))' = Before(LineOf(k))
  BY FileStays DEF Before

LEMMA LookingStays ==
    ASSUME file' = file
    PROVE  \A a, i, l : Looking(a, i, l)' <=> Looking(a, i, l)
  BY FileStays DEF Looking

LEMMA LeftStays ==
    ASSUME file' = file
    PROVE  \A i, toks, cb : Left(i, toks, cb)' <=> Left(i, toks, cb)
<1> TAKE i, toks, cb
<1>1. lines' = lines
  BY FileStays
<1> QED
  BY <1>1 DEF Left

LEMMA ReadingStays ==
    ASSUME file' = file
    PROVE  \A env, a, i, toks, cb, l : Reading(env, a, i, toks, cb, l)' <=> Reading(env, a, i, toks, cb, l)
<1> TAKE env, a, i, toks, cb, l
<1>1. ClosedAt(a)' = ClosedAt(a)
  BY FileStays
<1>2. Left(i, toks, cb)' <=> Left(i, toks, cb)
  BY LeftStays
<1>3. Elements(env, ItemsFrom(a, i))' = Elements(env, ItemsFrom(a, i))
      /\ Elements(env, toks)' = Elements(env, toks)
  BY WrittenStays
<1> QED
  BY <1>1, <1>2, <1>3, Zenon DEF Reading

LEMMA BegunStays ==
    ASSUME file' = file
    PROVE  /\ \A o, n : Due(o, n)' = Due(o, n)
           /\ \A n : ReadTo(n)' <=> ReadTo(n)
           /\ \A k, ls : Begun(k, ls)' <=> Begun(k, ls)
<1>0. /\ lines' = lines /\ Lost' = Lost
      /\ \A k : Says(k)' = Says(k)
      /\ \A k : LineOf(k)' = LineOf(k)
      /\ \A a : ClosedAt(a)' = ClosedAt(a)
      /\ \A k : Written(k)' = Written(k)
  BY FileStays, WrittenStays
<1>1. \A o, n : Due(o, n)' = Due(o, n)
  BY <1>0 DEF Due
<1>2. \A n : ReadTo(n)' <=> ReadTo(n)
  BY <1>0 DEF ReadTo, IsArray
<1>3. \A k, ls : Begun(k, ls)' <=> Begun(k, ls)
  BY <1>0, <1>1, <1>2 DEF Begun
<1> QED
  BY <1>1, <1>2, <1>3

LEMMA ParsedStays ==
    ASSUME file' = file
    PROVE  \A c, n, k, toks, cb, ls : ParsedAs(c, n, k, toks, cb, ls)' <=> ParsedAs(c, n, k, toks, cb, ls)
<1> TAKE c, n, k, toks, cb, ls
<1>0. lines' = lines /\ LineOf(k)' = LineOf(k) /\ Before(LineOf(k))' = Before(LineOf(k))
  BY FileStays, BeforeStays
<1>1. Looking(LineOf(k), n, ls[k])' <=> Looking(LineOf(k), n, ls[k])
  BY <1>0, LookingStays
<1>2. Reading(Before(LineOf(k)), LineOf(k), n, toks, cb, ls[k])'
        <=> Reading(Before(LineOf(k)), LineOf(k), n, toks, cb, ls[k])
  BY <1>0, ReadingStays
<1>3. /\ \A o, m : Due(o, m)' = Due(o, m)
      /\ ReadTo(n)' <=> ReadTo(n)
      /\ Begun(k, ls)' <=> Begun(k, ls)
  BY BegunStays
<1> QED
  BY <1>0, <1>1, <1>2, <1>3 DEF ParsedAs

-----------------------------------------------------------------------------
LEMMA OnlyOne ==
    ASSUME file \in Files, ArraysOnce, NEW i \in 1..Len(lines), lines[i].line = "array"
    PROVE  Says(lines[i].key) /\ LineOf(lines[i].key) = i
<1> DEFINE k == lines[i].key
<1>0. DOMAIN lines = 1..Len(lines) /\ Len(lines) \in Nat
  BY LinesAre
<1>1. Says(k)
  BY <1>0 DEF Says, IsOf
<1> HIDE DEF k
<1>2. LineOf(k) \in 1..Len(lines) /\ IsOf(lines[LineOf(k)], k)
      /\ \A j \in 1..(LineOf(k) - 1) : ~IsOf(lines[j], k)
  BY <1>1, LineOfIs
<1>3. IsOf(lines[i], k)
  BY DEF IsOf, k
<1>4. ~(i < LineOf(k))
  BY <1>0, <1>2, <1>3
<1>5. ~(LineOf(k) < i)
  BY <1>0, <1>2 DEF ArraysOnce, k
<1>6. LineOf(k) = i
  BY <1>0, <1>2, <1>4, <1>5
<1> QED
  BY <1>1, <1>6 DEF k

LEMMA DueStays ==
    ASSUME file \in Files, NEW n \in 0..Len(lines), NEW m \in n..Len(lines),
           \A i \in (n + 1)..m : lines[i].line = "array" => Lost[i]
    PROVE  \A k : Due(k, m) = Due(k, n)
<1> TAKE k
<1>0. Len(lines) \in Nat
  BY LinesAre
<1>1. CASE Says(k) /\ LineOf(k) <= m /\ ~Lost[LineOf(k)]
  <2>1. LineOf(k) \in 1..Len(lines) /\ lines[LineOf(k)].line = "array"
    BY <1>1, LineOfIs DEF IsOf
  <2>2. LineOf(k) <= n
    BY <1>0, <1>1, <2>1
  <2> QED
    BY <1>1, <2>2 DEF Due
<1>2. CASE ~(Says(k) /\ LineOf(k) <= m /\ ~Lost[LineOf(k)])
  <2>1. ~(Says(k) /\ LineOf(k) <= n /\ ~Lost[LineOf(k)])
    <3>1. CASE Says(k)
      <4>1. LineOf(k) \in 1..Len(lines)
        BY <3>1, LineOfIs
      <4> QED
        BY <1>0, <1>2, <4>1
    <3> QED
      BY <3>1
  <2> QED
    BY <1>2, <2>1 DEF Due
<1> QED
  BY <1>1, <1>2

LEMMA ArrayOfKey ==
    ASSUME file \in Files, OnlyArrays, NEW k, Says(k)
    PROVE  IsArray(LineOf(k)) /\ Shaped(LineOf(k)) /\ lines[LineOf(k)].key = k
           /\ IsEnv(Before(LineOf(k)))
<1>1. IsArray(LineOf(k)) /\ lines[LineOf(k)].key = k
  BY LineOfIs DEF IsOf, IsArray
<1>2. Shaped(LineOf(k))
  BY <1>1, ArrayShape DEF IsArray
<1>3. LineOf(k) - 1 \in 0..Len(lines)
  BY <1>1, LinesAre DEF IsArray
<1> QED
  BY <1>1, <1>2, <1>3, EnvironmentType DEF Before

\* An array that has been opened ends before the end of the file, or there
\* with the end of a line.
LEMMA EndsInLine ==
    ASSUME file \in Files, OnlyArrays, NEW a, IsArray(a), ClosedAt(a) = Len(lines)
    PROVE  file.newline
<1>1. a \in 1..Len(lines) /\ Shaped(a) /\ Len(lines) \in Nat /\ lines \in Seq(Lines)
  BY ArrayShape, LinesAre DEF IsArray
<1>2. Closes(lines[Len(lines)])
  BY <1>1 DEF Shaped
<1>3. Last(lines) = lines[Len(lines)]
  BY DEF Last
<1> QED
  BY <1>2, <1>3 DEF OnlyArrays, EndsInArray

LEMMA NotLost ==
    ASSUME file \in Files, NEW n \in 0..(Len(lines) - 1), ReadTo(n)
    PROVE  ~Lost[n + 1]
<1>0. n + 1 \in 1..Len(lines) /\ (n + 1) - 1 = n /\ n \in Nat /\ Len(lines) \in Nat
  BY LinesAre
<1>1. Lost[n + 1] = \E a \in EndBefore(n + 1) : ~Lost[a]
  BY <1>0, LostIs
<1>2. ASSUME NEW a \in EndBefore(n + 1), ~Lost[a] PROVE FALSE
  <2>1. a \in 1..n /\ lines[a].line = "array" /\ ClosedAt(a) = n
    BY <1>0 DEF EndBefore
  <2>2. IsArray(a)
    BY <1>0, <2>1 DEF IsArray
  <2>3. n < n
    BY <1>2, <2>1, <2>2 DEF ReadTo
  <2> QED
    BY <1>0, <2>3
<1> QED
  BY <1>1, <1>2

LEMMA LostNext ==
    ASSUME file \in Files, OnlyArrays, NEW a, IsArray(a), ~Lost[a], ClosedAt(a) < Len(lines)
    PROVE  Lost[ClosedAt(a) + 1]
<1> DEFINE c == ClosedAt(a)
<1>0. a \in 1..Len(lines) /\ lines[a].line = "array" /\ Shaped(a) /\ Len(lines) \in Nat
  BY ArrayShape, LinesAre DEF IsArray
<1>1. c \in a..Len(lines)
  BY <1>0 DEF Shaped
<1>2. c + 1 \in 1..Len(lines) /\ a \in 1..((c + 1) - 1) /\ c = (c + 1) - 1
  BY <1>0, <1>1
<1>3. a \in EndBefore(c + 1)
  BY <1>0, <1>2 DEF EndBefore
<1>4. Lost[c + 1] = \E b \in EndBefore(c + 1) : ~Lost[b]
  BY <1>2, LostIs
<1> QED
  BY <1>3, <1>4

LEMMA ReadToEnd ==
    ASSUME file \in Files, OnlyArrays, NEW a, IsArray(a), ~Lost[a], ReadTo(a - 1),
           ClosedAt(a) < Len(lines)
    PROVE  ReadTo(ClosedAt(a) + 1)
<1> DEFINE c == ClosedAt(a)
<1>0. a \in 1..Len(lines) /\ lines[a].line = "array" /\ Shaped(a) /\ Len(lines) \in Nat
  BY ArrayShape, LinesAre DEF IsArray
<1>1. c \in a..Len(lines) /\ \A m \in (a + 1)..c : lines[m].line \in {"items", "empty"}
  BY <1>0 DEF Shaped
<1>2. Lost[c + 1]
  BY LostNext
<1> SUFFICES ASSUME NEW b \in 1..(c + 1), IsArray(b), ~Lost[b] PROVE ClosedAt(b) < c + 1
  BY DEF ReadTo
<1>3. b # c + 1
  BY <1>2
<1>4. ~(b \in (a + 1)..c)
  BY <1>1 DEF IsArray
<1>5. b \in 1..(a - 1) \/ b = a
  <2>1. c \in Nat /\ a \in Nat /\ b \in 1..(c + 1)
    BY <1>0, <1>1
  <2> HIDE DEF c
  <2> QED
    BY <1>3, <1>4, <2>1
<1>6. CASE b = a
  BY <1>0, <1>1, <1>6
<1>7. CASE b \in 1..(a - 1)
  <2>1. ClosedAt(b) < a - 1 /\ ClosedAt(b) \in b..Len(lines)
    BY <1>7, ArrayShape DEF ReadTo, IsArray, Shaped
  <2> QED
    BY <1>0, <1>1, <1>7, <2>1
<1> QED
  BY <1>5, <1>6, <1>7

LEMMA ParsedInit == PkgbuildInit => ParseInv
<1> SUFFICES ASSUME PkgbuildInit PROVE ParseInv
  OBVIOUS
<1>1. Placed
  BY PlacedInit
<1>2. file \in Files /\ pc = "lines" /\ at = 0 /\ lists = [k \in Arrays |-> <<>>]
  BY DEF PkgbuildInit
<1>3. ReadTo(0)
  BY DEF ReadTo
<1>4. \A o \in Arrays : lists[o] = Due(o, 0)
  <2> TAKE o \in Arrays
  <2>1. ~(Says(o) /\ LineOf(o) <= 0 /\ ~Lost[LineOf(o)])
    <3>1. Says(o) => LineOf(o) \in 1..Len(lines) /\ Len(lines) \in Nat
      BY <1>2, LineOfIs, LinesAre
    <3> QED
      BY <3>1
  <2>2. lists[o] = <<>>
    BY <1>2
  <2> QED
    BY <2>1, <2>2, Zenon DEF Due
<1>5. Parsed
  BY <1>2, <1>3, <1>4 DEF Parsed, ParsedAs
<1> QED
  BY <1>1, <1>5 DEF ParseInv

\* The next line begins an array.
LEMMA BeginStep ==
    ASSUME Placed, Readable, Parsed, pc = "lines", fgets, IsArrayOf(NextLine), key' = NextLine.key
    PROVE  /\ Begun(key', lists) /\ lists[key'] = <<>>
           /\ LineOf(key') = at' /\ IsArray(at')
<1>1. /\ at' = at + 1 /\ at' \in 1..Len(lines) /\ at \in Nat
      /\ NextLine = lines[at'] /\ NextLine \in Lines
  BY NextLineIs
<1>2. lines[at'].line = "array"
  BY <1>1 DEF IsArrayOf
<1>3. Says(key') /\ LineOf(key') = at' /\ key' \in Arrays
  BY <1>1, <1>2, OnlyOne, LineKinds DEF Placed, Readable
<1>4. ReadTo(at) /\ \A o \in Arrays : lists[o] = Due(o, at)
  <2>1. at # Len(lines)
    BY DEF fgets, Placed
  <2> QED
    BY <2>1 DEF Parsed, ParsedAs
<1>5. ~Lost[at']
  <2>1. at \in 0..(Len(lines) - 1) /\ file \in Files
    BY <1>1, LinesAre DEF Placed
  <2> QED
    BY <1>1, <1>4, <2>1, NotLost
<1>6. lists[key'] = <<>>
  <2>1. ~(LineOf(key') <= at)
    BY <1>1, <1>3
  <2> QED
    BY <1>3, <1>4, <2>1 DEF Due
<1>7. \A o \in Arrays : o # key' => lists[o] = Due(o, at')
  <2> TAKE o \in Arrays
  <2> HAVE o # key'
  <2>1. Says(o) => LineOf(o) # at' /\ LineOf(o) \in Nat
    <3> SUFFICES ASSUME Says(o) PROVE LineOf(o) # at' /\ LineOf(o) \in Nat
      OBVIOUS
    <3>1. IsOf(lines[LineOf(o)], o) /\ LineOf(o) \in 1..Len(lines)
      BY LineOfIs DEF Placed
    <3>2. ~IsOf(lines[at'], o)
      BY <1>1 DEF IsOf
    <3> QED
      BY <3>1, <3>2
  <2>2. Says(o) => (LineOf(o) <= at' <=> LineOf(o) <= at)
    BY <1>1, <2>1
  <2>3. Due(o, at') = Due(o, at)
    BY <2>2 DEF Due
  <2> QED
    BY <1>4, <2>3
<1>8. at' - 1 = at
  BY <1>1
<1>9. Begun(key', lists)
  BY <1>3, <1>4, <1>5, <1>7, <1>8 DEF Begun
<1>10. IsArray(at')
  BY <1>1, <1>2 DEF IsArray
<1> QED
  BY <1>3, <1>6, <1>9, <1>10

\* The elements of an array begin on the line just read.
LEMMA EnterStep ==
    ASSUME Placed, OnlyArrays, fgets, EnterArray(NextLine.items), NEW a, IsArray(a), HasItems(NextLine),
           at' \in a..ClosedAt(a), ItemsFrom(a, at' - 1) = <<>>
    PROVE  /\ pc' = "array" /\ can_break' = FALSE /\ tokens' = LineItems(at')
           /\ \A env : IsEnv(env) => Reading(env, a, at', tokens', can_break', <<>>)
<1>1. file \in Files /\ at' \in 1..Len(lines) /\ NextLine = lines[at'] /\ (eof' => at' = Len(lines) /\ ~file.newline)
  BY NextLineIs DEF Placed
<1>2. Shaped(a) /\ Len(lines) \in Nat
  BY <1>1, ArrayShape, LinesAre DEF IsArray
<1>3. ~eof'
  <2> SUFFICES ASSUME eof' PROVE FALSE
    OBVIOUS
  <2>1. ClosedAt(a) = Len(lines)
    BY <1>1, <1>2 DEF Shaped
  <2> QED
    BY <1>1, <2>1, EndsInLine
<1>4. pc' = "array" /\ can_break' = FALSE /\ tokens' = LineItems(at')
  BY <1>1, <1>3 DEF EnterArray, LineItems
<1>5. \A env : IsEnv(env) => Reading(env, a, at', LineItems(at'), FALSE, <<>>)
  BY <1>1, ReadingStarts
<1> QED
  BY <1>4, <1>5

LEMMA ParsedBegin ==
    ASSUME Placed, Readable, Parsed, BeginArray
    PROVE  ParsedAs(pc', at', key', tokens', can_break', lists')
<1> DEFINE a == LineOf(key')
<1>0. /\ pc = "lines" /\ fgets /\ IsArrayOf(NextLine) /\ key' = NextLine.key
      /\ IF Opens(NextLine) THEN EnterArray(NextLine.items)
         ELSE pc' = "preamble" /\ UNCHANGED <<tokens, can_break>>
      /\ lists' = lists
  BY DEF BeginArray, ListOf
<1>1. Begun(key', lists) /\ lists[key'] = <<>> /\ a = at' /\ IsArray(a)
  BY <1>0, BeginStep
<1>2. /\ file \in Files /\ at' \in 1..Len(lines) /\ NextLine = lines[at'] /\ Len(lines) \in Nat
      /\ OnlyArrays
  BY <1>0, NextLineIs, LinesAre DEF Placed, Readable
<1>3. Shaped(a) /\ IsEnv(Before(a))
  BY <1>1, <1>2, ArrayOfKey DEF Begun
<1>4. CASE Opens(NextLine)
  <2>1. at' \in a..ClosedAt(a)
    BY <1>1, <1>2, <1>3 DEF Shaped
  <2>2. ItemsFrom(a, at' - 1) = <<>>
    BY <1>1, <1>2, ItemsFromNone
  <2>3. HasItems(NextLine) /\ EnterArray(NextLine.items)
    BY <1>0, <1>4 DEF Opens
  <2>4. pc' = "array" /\ Reading(Before(a), a, at', tokens', can_break', <<>>)
    BY <1>0, <1>1, <1>2, <1>3, <2>1, <2>2, <2>3, EnterStep
  <2> QED
    BY <1>0, <1>1, <2>4 DEF ParsedAs
<1>5. CASE ~Opens(NextLine)
  <2>1. Looking(a, at', lists[key'])
    BY <1>1, <1>2, <1>5 DEF Looking
  <2> QED
    BY <1>0, <1>1, <1>5, <2>1 DEF ParsedAs
<1> QED
  BY <1>4, <1>5

LEMMA ParsedFind ==
    ASSUME Placed, Readable, Parsed, FindParen
    PROVE  ParsedAs(pc', at', key', tokens', can_break', lists')
<1> DEFINE a == LineOf(key)
<1>0. /\ pc = "preamble" /\ fgets
      /\ IF eof' \/ Opens(NextLine) THEN EnterArray(NextLine.items)
         ELSE UNCHANGED <<pc, tokens, can_break>>
      /\ lists' = lists /\ key' = key
  BY DEF FindParen
<1>1. Begun(key, lists) /\ Looking(a, at, lists[key])
  BY <1>0 DEF Parsed, ParsedAs
<1>2. /\ file \in Files /\ at' \in 1..Len(lines) /\ NextLine = lines[at'] /\ Len(lines) \in Nat
      /\ OnlyArrays /\ at' = at + 1 /\ at \in Nat /\ (eof' => at' = Len(lines) /\ ~file.newline)
  BY <1>0, NextLineIs, LinesAre DEF Placed, Readable
<1>3. IsArray(a) /\ Shaped(a) /\ IsEnv(Before(a))
  BY <1>1, <1>2, ArrayOfKey DEF Begun
<1>4. at < ClosedAt(a) /\ ItemsFrom(a, at) = <<>> /\ at >= a /\ lists[key] = <<>>
  BY <1>1, <1>2, <1>3, LookingEarly DEF Looking
<1>5. ClosedAt(a) \in a..Len(lines) /\ a \in 1..Len(lines)
  BY <1>3 DEF Shaped, IsArray
<1>6. ~eof'
  <2> SUFFICES ASSUME eof' PROVE FALSE
    OBVIOUS
  <2>1. ClosedAt(a) = Len(lines)
    BY <1>2, <1>4, <1>5
  <2> QED
    BY <1>2, <1>3, <2>1, EndsInLine
<1>7. CASE Opens(NextLine)
  <2>1. at' \in a..ClosedAt(a) /\ at' - 1 = at
    BY <1>2, <1>4, <1>5
  <2>2. HasItems(NextLine) /\ EnterArray(NextLine.items)
    BY <1>0, <1>7 DEF Opens
  <2>3. pc' = "array" /\ Reading(Before(a), a, at', tokens', can_break', <<>>)
    BY <1>0, <1>2, <1>3, <1>4, <2>1, <2>2, EnterStep
  <2> QED
    BY <1>0, <1>1, <1>4, <2>3 DEF ParsedAs
<1>8. CASE ~Opens(NextLine)
  <2>1. Looking(a, at', lists[key])
    <3>1. \A m \in a..at' : ~Opens(lines[m])
      BY <1>1, <1>2, <1>8 DEF Looking
    <3> QED
      BY <1>2, <1>4, <1>5, <3>1 DEF Looking
  <2>2. pc' = "preamble"
    BY <1>0, <1>6, <1>8
  <2> QED
    BY <1>0, <1>1, <2>1, <2>2 DEF ParsedAs
<1> QED
  BY <1>7, <1>8

LEMMA NoParenNotFound ==
    ASSUME Placed, Readable, Parsed, ParenNotFound
    PROVE  FALSE
<1> DEFINE a == LineOf(key)
<1>1. pc = "preamble" /\ at = Len(lines)
  BY DEF ParenNotFound
<1>2. Begun(key, lists) /\ Looking(a, at, lists[key])
  BY <1>1 DEF Parsed, ParsedAs
<1>3. file \in Files /\ OnlyArrays /\ Len(lines) \in Nat
  BY LinesAre DEF Placed, Readable
<1>4. IsArray(a) /\ Shaped(a)
  BY <1>2, <1>3, ArrayOfKey DEF Begun
<1>5. at < ClosedAt(a)
  BY <1>2, <1>3, <1>4, LookingEarly
<1> QED
  BY <1>1, <1>3, <1>4, <1>5 DEF Shaped, IsArray

LEMMA ParsedFileEnds ==
    ASSUME Placed, Readable, Parsed, FileEnds
    PROVE  ParsedAs(pc', at', key', tokens', can_break', lists')
<1>1. pc = "lines" /\ at = Len(lines) /\ pc' = "returned" /\ lists' = lists
  BY DEF FileEnds
<1> QED
  BY <1>1 DEF Parsed, ParsedAs

LEMMA ParsedBuild ==
    ASSUME Placed, Readable, Parsed, StopAtBuild
    PROVE  ParsedAs(pc', at', key', tokens', can_break', lists')
<1>1. pc = "lines" /\ fgets /\ NextLine.line = "build" /\ pc' = "returned" /\ lists' = lists
  BY DEF StopAtBuild
<1>2. /\ file \in Files /\ at' \in 1..Len(lines) /\ NextLine = lines[at'] /\ at' = at + 1 /\ at \in Nat
      /\ Len(lines) \in Nat /\ DOMAIN lines = 1..Len(lines)
  BY <1>1, NextLineIs, LinesAre DEF Placed
<1>3. \A i \in (at + 1)..Len(lines) : lines[i].line # "array"
  <2> SUFFICES ASSUME NEW i \in (at + 1)..Len(lines), lines[i].line = "array" PROVE FALSE
    OBVIOUS
  <2>1. i # at' /\ at' < i /\ i \in DOMAIN lines /\ at' \in DOMAIN lines
    BY <1>1, <1>2
  <2>2. lines[at'].line # "build"
    BY <2>1 DEF Readable, ArraysOnce
  <2> QED
    BY <1>1, <1>2, <2>2
<1>4. \A o : Due(o, Len(lines)) = Due(o, at)
  <2>1. at \in 0..Len(lines) /\ Len(lines) \in at..Len(lines)
    BY <1>2
  <2> QED
    BY <1>2, <1>3, <2>1, DueStays
<1>5. \A o \in Arrays : lists[o] = Due(o, at)
  BY <1>1 DEF Parsed, ParsedAs
<1> QED
  BY <1>1, <1>4, <1>5 DEF ParsedAs

LEMMA ParsedSkip ==
    ASSUME Placed, Readable, Parsed, SkipLine
    PROVE  ParsedAs(pc', at', key', tokens', can_break', lists')
<1>1. pc = "lines" /\ fgets /\ ~IsArrayOf(NextLine) /\ pc' = pc /\ lists' = lists
  BY DEF SkipLine
<1>2. /\ file \in Files /\ at' \in 1..Len(lines) /\ NextLine = lines[at'] /\ at' = at + 1 /\ at \in Nat
      /\ Len(lines) \in Nat
  BY <1>1, NextLineIs, LinesAre DEF Placed
<1>3. lines[at'].line # "array"
  BY <1>1, <1>2 DEF IsArrayOf, Readable
<1>4. \A o : Due(o, at') = Due(o, at)
  <2>1. at \in 0..Len(lines) /\ at' \in at..Len(lines)
        /\ \A i \in (at + 1)..at' : i = at'
    BY <1>2
  <2> QED
    BY <1>2, <1>3, <2>1, DueStays
<1>5. \A o \in Arrays : lists[o] = Due(o, at)
  BY <1>1 DEF Parsed, ParsedAs
<1>6. at # Len(lines) /\ ReadTo(at)
  BY <1>1 DEF fgets, Placed, Parsed, ParsedAs
<1>7. ReadTo(at')
  <2> SUFFICES ASSUME NEW b \in 1..at', IsArray(b), ~Lost[b] PROVE ClosedAt(b) < at'
    BY DEF ReadTo
  <2>1. b # at'
    BY <1>3 DEF IsArray
  <2>2. b \in 1..at
    BY <1>2, <2>1
  <2>3. ClosedAt(b) < at
    BY <1>6, <2>2 DEF ReadTo
  <2>4. ClosedAt(b) \in b..Len(lines)
    BY <1>2, ArrayShape DEF IsArray, Shaped, Readable
  <2> QED
    BY <1>2, <2>3, <2>4
<1> QED
  BY <1>1, <1>4, <1>5, <1>7 DEF ParsedAs

\* The array has been read, and the line after it.
LEMMA ParsedEnd ==
    ASSUME file \in Files, Readable, NEW k, NEW ls, Begun(k, ls),
           ls[k] = Written(k), NEW n \in 0..Len(lines),
           \/ n = ClosedAt(LineOf(k)) /\ n = Len(lines)
           \/ n = ClosedAt(LineOf(k)) + 1
    PROVE  /\ n = Len(lines) \/ ReadTo(n)
           /\ \A o \in Arrays : ls[o] = Due(o, n)
<1> DEFINE a == LineOf(k)
           c == ClosedAt(a)
<1>0. /\ Says(k) /\ k \in Arrays /\ ~Lost[a] /\ ReadTo(a - 1) /\ OnlyArrays
      /\ \A o \in Arrays : o # k => ls[o] = Due(o, a)
  BY DEF Begun, Readable
<1>1. IsArray(a) /\ Shaped(a) /\ Len(lines) \in Nat
  BY <1>0, ArrayOfKey, LinesAre
<1>2. a \in 1..Len(lines) /\ c \in a..Len(lines)
      /\ \A m \in (a + 1)..c : lines[m].line \in {"items", "empty"}
  BY <1>1 DEF IsArray, Shaped
<1>3. n = Len(lines) \/ ReadTo(n)
  BY <1>0, <1>1, <1>2, ReadToEnd
<1>4. \A m \in (a + 1)..n : lines[m].line = "array" => Lost[m]
  <2> SUFFICES ASSUME NEW m \in (a + 1)..n, lines[m].line = "array" PROVE Lost[m]
    OBVIOUS
  <2>1. ~(m \in (a + 1)..c)
    BY <1>2
  <2>2. n = c + 1 /\ m = c + 1 /\ c < Len(lines)
    <3>1. c \in Nat /\ a \in Nat /\ n \in Nat /\ n <= Len(lines) /\ (n = c \/ n = c + 1)
      BY <1>1, <1>2
    <3> HIDE DEF c, a
    <3> QED
      BY <1>1, <2>1, <3>1
  <2> QED
    BY <1>0, <1>1, <2>2, LostNext
<1>5. a \in 0..Len(lines) /\ n \in a..Len(lines) /\ a <= n
  BY <1>1, <1>2
<1>6. \A o : Due(o, n) = Due(o, a)
  BY <1>4, <1>5, DueStays
<1>7. Due(k, n) = Written(k)
  BY <1>0, <1>5 DEF Due
<1>8. \A o \in Arrays : ls[o] = Due(o, n)
  BY <1>0, <1>6, <1>7
<1> QED
  BY <1>3, <1>8

LEMMA ParsedLine ==
    ASSUME Placed, Readable, Parsed, NextArrayLine
    PROVE  ParsedAs(pc', at', key', tokens', can_break', lists')
<1> DEFINE a == LineOf(key)
           env == Before(a)
<1>0. /\ pc = "array" /\ tokens = <<>>
      /\ IF at < Len(lines) THEN fgets ELSE eof' = TRUE /\ UNCHANGED at
      /\ IF eof' \/ can_break THEN AfterArray
         ELSE tokens' = (IF HasItems(NextLine) THEN NextLine.items ELSE <<>>) /\ UNCHANGED pc
      /\ lists' = lists /\ key' = key /\ can_break' = can_break
  BY DEF NextArrayLine
<1>1. Begun(key, lists) /\ Reading(env, a, at, <<>>, can_break, lists[key])
  BY <1>0 DEF Parsed, ParsedAs
<1>2. /\ file \in Files /\ Len(lines) \in Nat /\ at \in 0..Len(lines)
      /\ OnlyArrays /\ ~Grabs
  BY LinesAre DEF Placed, Readable
<1>3. IsArray(a) /\ Shaped(a) /\ IsEnv(env) /\ Says(key)
  BY <1>1, <1>2, ArrayOfKey DEF Begun
<1>4. ClosedAt(a) \in a..Len(lines) /\ a \in 1..Len(lines)
  BY <1>3 DEF Shaped, IsArray
<1>5. fgets => at' = at + 1 /\ at' \in 1..Len(lines) /\ NextLine = lines[at']
               /\ (eof' => at' = Len(lines) /\ ~file.newline)
  BY NextLineIs
<1>b. can_break \in BOOLEAN
  BY <1>1 DEF Reading, Left
<1>6. CASE can_break
  <2>1. Reading(env, a, at, <<>>, TRUE, lists[key])
    BY <1>1, <1>6, <1>b, Zenon
  <2>2. at = ClosedAt(a) /\ lists[key] = Elements(env, ItemsOf(a))
    BY <1>2, <1>3, <2>1, ReadingEnds
  <2>3. lists[key] = Written(key)
    BY <2>2 DEF Written
  <2>4. at' \in 0..Len(lines) /\ ((at' = at /\ at = Len(lines)) \/ at' = at + 1)
    BY <1>0, <1>2, <1>5
  <2>5. (at' = Len(lines) \/ ReadTo(at')) /\ \A o \in Arrays : lists[o] = Due(o, at')
    BY <1>1, <1>2, <2>2, <2>3, <2>4, ParsedEnd
  <2>6. pc' = "lines"
    BY <1>0, <1>2, <1>6 DEF AfterArray
  <2> QED
    BY <1>0, <2>5, <2>6 DEF ParsedAs
<1>7. CASE ~can_break
  <2>1. Reading(env, a, at, <<>>, FALSE, lists[key])
    BY <1>1, <1>7, <1>b, Zenon
  <2>2. at < ClosedAt(a) /\ Reading(env, a, at + 1, LineItems(at + 1), FALSE, lists[key])
    BY <1>2, <1>3, <2>1, ReadingLine
  <2>3. at < Len(lines)
    BY <1>2, <1>4, <2>2
  <2>4. fgets
    BY <1>0, <2>3
  <2>5. ~eof'
    <3> SUFFICES ASSUME eof' PROVE FALSE
      OBVIOUS
    <3>1. ClosedAt(a) = Len(lines) /\ ~file.newline
      BY <1>2, <1>4, <1>5, <2>2, <2>4
    <3> QED
      BY <1>2, <1>3, <3>1, EndsInLine
  <2>6. pc' = "array" /\ tokens' = LineItems(at')
    BY <1>0, <1>5, <1>7, <2>4, <2>5 DEF LineItems
  <2>7. at' = at + 1 /\ can_break' = FALSE
    BY <1>0, <1>5, <1>7, <1>b, <2>4
  <2>8. Reading(env, a, at', tokens', can_break', lists'[key'])
    BY <1>0, <2>2, <2>6, <2>7
  <2> QED
    BY <1>0, <1>1, <2>6, <2>8 DEF ParsedAs
<1> QED
  BY <1>6, <1>7

LEMMA BegunAdd ==
    ASSUME NEW k, NEW ls, Begun(k, ls), DOMAIN ls = Arrays, NEW x
    PROVE  /\ Begun(k, [ls EXCEPT ![k] = Append(@, x)])
           /\ [ls EXCEPT ![k] = Append(@, x)][k] = Append(ls[k], x)
  BY DEF Begun

LEMMA ParsedToken ==
    ASSUME Placed, Readable, Parsed, SkipToken \/ ReadToken
    PROVE  ParsedAs(pc', at', key', tokens', can_break', lists')
<1> DEFINE a == LineOf(key)
           env == Before(a)
           h == Head(tokens)
<1>0. pc = "array" /\ tokens # <<>> /\ key' = key /\ at' = at
  BY DEF SkipToken, ReadToken
<1>1. Begun(key, lists) /\ Reading(env, a, at, tokens, can_break, lists[key])
  BY <1>0 DEF Parsed, ParsedAs
<1>2. /\ file \in Files /\ OnlyArrays /\ ~Grabs /\ DOMAIN lists = Arrays
  BY DEF Placed, Readable
<1>3. IsEnv(env)
  BY <1>1, <1>2, ArrayOfKey DEF Begun
<1>4. /\ h.text = <<>> =>
            Reading(env, a, at, Tail(tokens), can_break \/ h.close, lists[key])
      /\ h.text # <<>> =>
            Reading(env, a, at, Tail(tokens), can_break \/ h.close,
                    Append(lists[key], IF Grabs THEN Expanded(env, h.text) ELSE Element(h)))
  BY <1>0, <1>1, <1>3, ReadingToken
<1>5. /\ h.close \in BOOLEAN /\ (h.close => Tail(tokens) = <<>>)
      /\ ~(h.text = <<>> /\ h.quotes /\ h.close)
      /\ ~can_break /\ can_break \in BOOLEAN
  BY <1>0, <1>1, LeftTail DEF Reading, Left
<1>6. CASE SkipToken
  <2>1. h.text = <<>> /\ pc' = pc /\ lists' = lists
    BY <1>6 DEF SkipToken
  <2>2. Reading(env, a, at, Tail(tokens), can_break \/ h.close, lists[key])
    BY <1>4, <2>1
  <2>3. tokens' = Tail(tokens) /\ can_break' = (can_break \/ h.close)
    <3>1. CASE h = Paren
      <4>1. h.close
        BY <3>1 DEF Paren
      <4>2. tokens' = <<>> /\ can_break' = TRUE
        BY <1>6, <3>1 DEF SkipToken
      <4> QED
        BY <1>5, <4>1, <4>2
    <3>2. CASE h # Paren
      <4>1. ~h.close /\ tokens' = Tail(tokens) /\ can_break' = can_break
        BY <1>6, <3>2 DEF SkipToken
      <4> QED
        BY <1>5, <4>1
    <3> QED
      BY <3>1, <3>2
  <2> HIDE DEF h
  <2>4. Reading(env, a, at, tokens', can_break', lists[key])
    BY <2>2, <2>3
  <2> QED
    BY <1>0, <1>1, <2>1, <2>4 DEF ParsedAs
<1>7. CASE ReadToken
  <2>1. h.text # <<>>
    BY <1>5, <1>7 DEF ReadToken
  <2>2. tokens' = Tail(tokens) /\ can_break' = (can_break \/ h.close) /\ pc' = pc
        /\ lists' = [lists EXCEPT ![key] = Append(@, Element(h))]
    BY <1>2, <1>7 DEF ReadToken, Add
  <2> DEFINE e == Element(h)
  <2>3. Reading(env, a, at, Tail(tokens), can_break \/ h.close, Append(lists[key], e))
    BY <1>2, <1>4, <2>1
  <2> HIDE DEF h, e
  <2>4. Begun(key, lists') /\ lists'[key] = Append(lists[key], e)
    BY <1>1, <1>2, <2>2, BegunAdd DEF e
  <2>5. Reading(env, a, at, tokens', can_break', lists'[key])
    BY <2>2, <2>3, <2>4
  <2> QED
    BY <1>0, <2>2, <2>4, <2>5 DEF ParsedAs
<1> QED
  BY <1>6, <1>7

LEMMA ParseStep == ParseInv /\ [PkgbuildStep]_pkgbuildVars => ParseInv'
<1> SUFFICES ASSUME ParseInv, [PkgbuildStep]_pkgbuildVars PROVE ParseInv'
  OBVIOUS
<1>0. Placed /\ (Readable => Parsed) /\ Placed'
  BY PlacedStep DEF ParseInv
<1>1. file' = file
  BY DEF PkgbuildStep, ReadFile, ReadArray, substitute_vars, FileEnds, StopAtBuild, SkipLine, Assign,
         BeginArray, FindParen, ParenNotFound, NextArrayLine, SkipToken, ReadToken, SkipReference,
         ReplaceReference, Overrun, SubstituteReturns, pkgbuildVars
<1>2. Readable' <=> Readable
  BY <1>1, FileStays, PreconditionsStay DEF Readable
<1>3. \A c, n, k, toks, cb, ls : ParsedAs(c, n, k, toks, cb, ls)' <=> ParsedAs(c, n, k, toks, cb, ls)
  BY <1>1, ParsedStays
<1> SUFFICES ASSUME Readable PROVE ParsedAs(pc', at', key', tokens', can_break', lists')
  BY <1>0, <1>2, <1>3 DEF ParseInv, Parsed
<1>4. Parsed /\ ~Grabs /\ pc # "substitute"
  BY <1>0 DEF Readable, Placed
<1>5. CASE FileEnds
  BY <1>0, <1>4, <1>5, ParsedFileEnds
<1>6. CASE StopAtBuild
  BY <1>0, <1>4, <1>6, ParsedBuild
<1>7. CASE SkipLine
  BY <1>0, <1>4, <1>7, ParsedSkip
<1>8. CASE Assign
  BY <1>4, <1>8 DEF Assign
<1>9. CASE BeginArray
  BY <1>0, <1>4, <1>9, ParsedBegin
<1>10. CASE FindParen
  BY <1>0, <1>4, <1>10, ParsedFind
<1>11. CASE ParenNotFound
  BY <1>0, <1>4, <1>11, NoParenNotFound
<1>12. CASE NextArrayLine
  BY <1>0, <1>4, <1>12, ParsedLine
<1>13. CASE SkipToken \/ ReadToken
  BY <1>0, <1>4, <1>13, ParsedToken
<1>14. CASE substitute_vars
  BY <1>4, <1>14 DEF substitute_vars, SkipReference, ReplaceReference, Overrun, SubstituteReturns
<1>15. CASE UNCHANGED pkgbuildVars
  BY <1>4, <1>15 DEF pkgbuildVars, arrayVars, Parsed
<1> QED
  BY <1>5, <1>6, <1>7, <1>8, <1>9, <1>10, <1>11, <1>12, <1>13, <1>14, <1>15
     DEF PkgbuildStep, ReadFile, ReadArray

LEMMA ParseInvSafe == ParseInv => ArraysAsWritten
<1> SUFFICES ASSUME ParseInv, pc = "returned", ~Grabs, OnlyArrays, ArraysOnce, NEW k \in Arrays
             PROVE  lists[k] = IF Says(k) /\ ~Lost[LineOf(k)] THEN Written(k) ELSE <<>>
  BY DEF ArraysAsWritten
<1>1. lists[k] = Due(k, Len(lines)) /\ file \in Files
  BY DEF ParseInv, Readable, Parsed, ParsedAs, Placed
<1>2. Says(k) => LineOf(k) <= Len(lines)
  BY <1>1, LineOfIs, LinesAre
<1> QED
  BY <1>1, <1>2 DEF Due

\* package.c:272-319: whatever the PKGBUILD and its layout, parse_pkgbuild returns
\* every array as it is written, in the list of that array, unless it begins on the
\* line after an array that was read: then it returns nothing of it.
THEOREM ParsesArrays == PkgbuildSpec => []ArraysAsWritten
<1>1. PkgbuildSpec => []ParseInv
  BY ParsedInit, ParseStep, PTL DEF PkgbuildSpec
<1> QED
  BY <1>1, ParseInvSafe, PTL

-----------------------------------------------------------------------------
(* The buffer of substitute_vars.                                          *)

\* The buffer holds the string cs, as long as len says.
Holds(cs) ==
    /\ cs \in Str /\ Len(cs) <= MaxLen
    /\ DOMAIN str = 1..(MaxLen + 1)
    /\ len = Len(cs)
    /\ \A j \in 1..Len(cs) : str[j] = cs[j]
    /\ str[Len(cs) + 1] = Nul

LEMMA HoldsChars ==
    ASSUME NEW cs, Holds(cs)
    PROVE  /\ Len(cs) \in Nat /\ MaxLen \in Nat
           /\ \A j \in 1..Len(cs) : cs[j] \in Chars /\ str[j] # Nul
           /\ str[Len(cs) + 1] = Nul
<1>1. cs \in Seq(Chars)
  BY DEF Holds, Str
<1>2. \A j \in 1..Len(cs) : cs[j] \in Chars
  BY <1>1, ElementOfSeq
<1>3. Len(cs) \in Nat /\ MaxLen \in Nat
  BY <1>1, LenProperties, CharsAre
<1> QED
  BY <1>2, <1>3, CharsAre DEF Holds

LEMMA NulFromIs ==
    ASSUME NEW cs, Holds(cs), NEW i \in 1..(Len(cs) + 1)
    PROVE  NulFrom(i) = Len(cs) + 1
<1> DEFINE e == Len(cs) + 1
<1>1. Len(cs) \in Nat /\ MaxLen \in Nat /\ str[e] = Nul /\ Len(cs) <= MaxLen
      /\ \A j \in 1..Len(cs) : str[j] # Nul
  BY HoldsChars DEF Holds
<1>2. e \in i..(MaxLen + 1) /\ \A j \in i..(e - 1) : str[j] # Nul
  BY <1>1
<1>3. \A k \in i..(MaxLen + 1) : str[k] = Nul /\ (\A j \in i..(k - 1) : str[j] # Nul) => k = e
  <2> SUFFICES ASSUME NEW k \in i..(MaxLen + 1), str[k] = Nul, \A j \in i..(k - 1) : str[j] # Nul, k # e
               PROVE FALSE
    OBVIOUS
  <2>1. CASE k < e
    <3>1. k \in 1..Len(cs)
      BY <1>1, <2>1
    <3> QED
      BY <1>1, <3>1
  <2>2. CASE k > e
    <3>1. e \in i..(k - 1)
      BY <1>1, <2>2
    <3> QED
      BY <1>1, <3>1
  <2> QED
    BY <1>1, <2>1, <2>2
<1> HIDE DEF e
<1>4. NulFrom(i) \in i..(MaxLen + 1) /\ str[NulFrom(i)] = Nul
      /\ \A j \in i..(NulFrom(i) - 1) : str[j] # Nul
  BY <1>1, <1>2, Zenon DEF NulFrom
<1>5. NulFrom(i) = e
  BY <1>3, <1>4
<1> QED
  BY <1>5 DEF e

LEMMA TextIs ==
    ASSUME NEW cs, Holds(cs)
    PROVE  Text = cs
<1>1. Len(cs) \in Nat /\ cs \in Str /\ \A j \in 1..Len(cs) : str[j] = cs[j]
  BY HoldsChars DEF Holds
<1>2. 1 \in 1..(Len(cs) + 1)
  BY <1>1
<1>3. NulFrom(1) - 1 = Len(cs)
  BY <1>1, <1>2, NulFromIs
<1>4. SubSeq(str, 1, Len(cs)) = [j \in 1..Len(cs) |-> str[j]]
  BY <1>1
<1>5. [j \in 1..Len(cs) |-> str[j]] = [j \in 1..Len(cs) |-> cs[j]]
  BY <1>1
<1>6. [j \in 1..Len(cs) |-> cs[j]] = cs
  BY <1>1 DEF Str
<1> QED
  BY <1>3, <1>4, <1>5, <1>6 DEF Text

LEMMA StrchrNone ==
    ASSUME NEW cs, Holds(cs), NEW i \in 1..(Len(cs) + 1), NEW c \in Chars,
           \A j \in i..Len(cs) : cs[j] # c
    PROVE  strchr(i, c) = 0
<1>1. /\ Len(cs) \in Nat /\ str[Len(cs) + 1] = Nul /\ c # Nul
      /\ \A j \in 1..Len(cs) : str[j] = cs[j]
  BY HoldsChars, CharsAre DEF Holds
<1>2. NulFrom(i) = Len(cs) + 1
  BY NulFromIs
<1>3. ~\E k \in i..(Len(cs) + 1) : str[k] = c
  <2> SUFFICES ASSUME NEW k \in i..(Len(cs) + 1), str[k] = c PROVE FALSE
    OBVIOUS
  <2>1. CASE k = Len(cs) + 1
    BY <1>1, <2>1
  <2>2. CASE k # Len(cs) + 1
    <3>1. k \in i..Len(cs) /\ k \in 1..Len(cs)
      BY <1>1, <2>2
    <3> QED
      BY <1>1, <3>1
  <2> QED
    BY <2>1, <2>2
<1> QED
  BY <1>2, <1>3 DEF strchr

LEMMA StrchrIs ==
    ASSUME NEW cs, Holds(cs), NEW i \in 1..(Len(cs) + 1), NEW c, NEW k \in i..Len(cs),
           cs[k] = c, \A j \in i..(k - 1) : cs[j] # c
    PROVE  strchr(i, c) = k
<1>1. Len(cs) \in Nat /\ \A j \in 1..Len(cs) : str[j] = cs[j]
  BY HoldsChars DEF Holds
<1>2. NulFrom(i) = Len(cs) + 1
  BY NulFromIs
<1>3. k \in i..NulFrom(i) /\ str[k] = c /\ \A j \in i..(k - 1) : str[j] # c
  BY <1>1, <1>2
<1>4. \A m \in i..NulFrom(i) : str[m] = c /\ (\A j \in i..(m - 1) : str[j] # c) => m = k
  <2> SUFFICES ASSUME NEW m \in i..NulFrom(i), str[m] = c, \A j \in i..(m - 1) : str[j] # c, m # k
               PROVE FALSE
    OBVIOUS
  <2>1. CASE m < k
    <3>1. m \in i..(k - 1)
      BY <1>1, <1>2, <2>1
    <3> QED
      BY <1>3, <3>1
  <2>2. CASE m > k
    <3>1. k \in i..(m - 1)
      BY <1>1, <1>2, <2>2
    <3> QED
      BY <1>3, <3>1
  <2> QED
    BY <1>1, <1>2, <2>1, <2>2
<1> DEFINE r == CHOOSE m \in i..NulFrom(i) : str[m] = c /\ \A j \in i..(m - 1) : str[j] # c
<1>5. r \in i..NulFrom(i) /\ str[r] = c /\ \A j \in i..(r - 1) : str[j] # c
  BY <1>3, Zenon
<1>6. strchr(i, c) = r
  BY <1>3, Zenon DEF strchr
<1> HIDE DEF r
<1>7. r = k
  BY <1>4, <1>5
<1> QED
  BY <1>6, <1>7

\* cs is a, then x, then b.
Splits(cs, a, x, b) ==
    /\ Len(a) \in Nat /\ Len(x) \in Nat /\ Len(b) \in Nat
    /\ Len(cs) = Len(a) + Len(x) + Len(b)
    /\ \A j \in 1..Len(a) : cs[j] = a[j]
    /\ \A j \in 1..Len(x) : cs[Len(a) + j] = x[j]
    /\ \A j \in 1..Len(b) : cs[Len(a) + Len(x) + j] = b[j]

LEMMA ConcatIs ==
    ASSUME NEW S, NEW x \in Seq(S), NEW y \in Seq(S)
    PROVE  x \o y \in Seq(S) /\ IsConcat(x \o y, x, y)
<1>1. /\ x \o y \in Seq(S) /\ Len(x \o y) = Len(x) + Len(y)
      /\ \A i \in 1..(Len(x) + Len(y)) :
            (x \o y)[i] = IF i <= Len(x) THEN x[i] ELSE y[i - Len(x)]
  BY ConcatProperties
<1>2. Len(x) \in Nat /\ Len(y) \in Nat
  BY LenProperties
<1> DEFINE z == x \o y
<1> HIDE DEF z
<1>3. \A i \in 1..Len(x) : z[i] = x[i]
  BY <1>1, <1>2 DEF z
<1>4. \A i \in 1..Len(y) : z[Len(x) + i] = y[i]
  <2> TAKE i \in 1..Len(y)
  <2> DEFINE k == Len(x) + i
  <2>1. k \in 1..(Len(x) + Len(y)) /\ ~(k <= Len(x)) /\ k - Len(x) = i
    BY <1>2
  <2> HIDE DEF k
  <2>2. z[k] = y[k - Len(x)]
    BY <1>1, <2>1 DEF z
  <2> QED
    BY <2>1, <2>2 DEF k
<1> QED
  BY <1>1, <1>3, <1>4 DEF IsConcat, z

LEMMA SplitsJoin ==
    ASSUME NEW a, NEW x, NEW b, NEW y, NEW z,
           Len(a) \in Nat, Len(x) \in Nat, Len(b) \in Nat,
           IsConcat(y, x, b), IsConcat(z, a, y)
    PROVE  Splits(z, a, x, b)
<1>1. /\ Len(y) = Len(x) + Len(b)
      /\ \A i \in 1..Len(x) : y[i] = x[i]
      /\ \A i \in 1..Len(b) : y[Len(x) + i] = b[i]
  BY DEF IsConcat
<1>2. /\ Len(z) = Len(a) + Len(y)
      /\ \A i \in 1..Len(a) : z[i] = a[i]
      /\ \A i \in 1..Len(y) : z[Len(a) + i] = y[i]
  BY DEF IsConcat
<1>3. \A j \in 1..Len(x) : z[Len(a) + j] = x[j]
  BY <1>1, <1>2
<1>4. \A j \in 1..Len(b) : z[Len(a) + Len(x) + j] = b[j]
  <2> TAKE j \in 1..Len(b)
  <2>1. Len(x) + j \in 1..Len(y) /\ Len(a) + (Len(x) + j) = Len(a) + Len(x) + j
    BY <1>1
  <2> QED
    BY <1>1, <1>2, <2>1
<1>5. Len(z) = Len(a) + Len(x) + Len(b)
  BY <1>1, <1>2
<1> QED
  BY <1>2, <1>3, <1>4, <1>5 DEF Splits

LEMMA SplitsConcat ==
    ASSUME NEW S, NEW a \in Seq(S), NEW x \in Seq(S), NEW b \in Seq(S)
    PROVE  Splits(a \o (x \o b), a, x, b)
<1>1. x \o b \in Seq(S) /\ IsConcat(x \o b, x, b)
  BY ConcatIs
<1>2. IsConcat(a \o (x \o b), a, x \o b)
  BY <1>1, ConcatIs
<1>3. Len(a) \in Nat /\ Len(x) \in Nat /\ Len(b) \in Nat
  BY LenProperties
<1> QED
  BY <1>1, <1>2, <1>3, SplitsJoin

LEMMA SplitsEqual ==
    ASSUME NEW S, NEW a \in Seq(S), NEW x \in Seq(S), NEW b \in Seq(S), NEW z \in Seq(S),
           Splits(z, a, x, b)
    PROVE  z = a \o (x \o b)
<1> DEFINE w == a \o (x \o b)
<1>1. w \in Seq(S)
  BY ConcatProperties
<1>2. Splits(w, a, x, b)
  BY SplitsConcat
<1> HIDE DEF w
<1>3. Len(z) = Len(w) /\ Len(a) \in Nat /\ Len(x) \in Nat /\ Len(b) \in Nat
      /\ Len(z) = Len(a) + Len(x) + Len(b)
  BY <1>2 DEF Splits
<1>4. ASSUME NEW i \in 1..Len(z) PROVE z[i] = w[i]
  <2>1. CASE i <= Len(a)
    BY <1>2, <1>3, <2>1 DEF Splits
  <2>2. CASE i > Len(a) /\ i <= Len(a) + Len(x)
    <3>1. i - Len(a) \in 1..Len(x) /\ Len(a) + (i - Len(a)) = i
      BY <1>3, <2>2
    <3>2. z[Len(a) + (i - Len(a))] = x[i - Len(a)] /\ w[Len(a) + (i - Len(a))] = x[i - Len(a)]
      BY <1>2, <3>1 DEF Splits
    <3> QED
      BY <3>1, <3>2
  <2>3. CASE i > Len(a) + Len(x)
    <3> DEFINE j == i - Len(a) - Len(x)
    <3>1. j \in 1..Len(b) /\ Len(a) + Len(x) + j = i
      BY <1>3, <2>3
    <3> HIDE DEF j
    <3>2. z[Len(a) + Len(x) + j] = b[j] /\ w[Len(a) + Len(x) + j] = b[j]
      BY <1>2, <3>1 DEF Splits
    <3> QED
      BY <3>1, <3>2
  <2> QED
    BY <1>3, <2>1, <2>2, <2>3
<1> QED
  BY <1>1, <1>3, <1>4, SeqEqual DEF w

-----------------------------------------------------------------------------
(* The reference that is found.                                            *)

LEMMA BracedCells ==
    ASSUME NEW x \in Pieces, IsRef(x), x.brace
    PROVE  /\ Len(PieceCells(x)) = Len(x.ref) + 3
           /\ PieceCells(x)[1] = Dollar /\ PieceCells(x)[2] = LeftBrace
           /\ \A j \in 1..Len(x.ref) : PieceCells(x)[2 + j] = x.ref[j]
           /\ PieceCells(x)[Len(x.ref) + 3] = RightBrace
<1> DEFINE r == x.ref
           u == <<Dollar, LeftBrace>>
           v == <<RightBrace>>
           y == u \o r
           z == y \o v
<1>1. r \in Str /\ u \in Str /\ v \in Str
  BY PieceKinds, CharsAre, NameIsStr DEF Str
<1>2. PieceCells(x) = z
  BY DEF PieceCells
<1>3. Len(u) = 2 /\ u[1] = Dollar /\ u[2] = LeftBrace /\ Len(v) = 1 /\ v[1] = RightBrace
  OBVIOUS
<1>4. Len(r) \in Nat
  BY <1>1, LenProperties DEF Str
<1> HIDE DEF r, u, v
<1>5. y \in Str /\ IsConcat(y, u, r)
  BY <1>1, ConcatIs DEF Str
<1> HIDE DEF y
<1>6. IsConcat(z, y, v)
  BY <1>1, <1>5, ConcatIs DEF Str
<1> HIDE DEF z
<1>7. Len(y) = 2 + Len(r) /\ y[1] = Dollar /\ y[2] = LeftBrace
      /\ \A j \in 1..Len(r) : y[2 + j] = r[j]
  BY <1>3, <1>4, <1>5 DEF IsConcat
<1>8. Len(z) = Len(r) + 3 /\ z[Len(y) + 1] = v[1]
      /\ \A i \in 1..Len(y) : z[i] = y[i]
  BY <1>3, <1>4, <1>6, <1>7 DEF IsConcat
<1>9. z[1] = Dollar /\ z[2] = LeftBrace /\ z[Len(r) + 3] = RightBrace
  <2>1. 1 \in 1..Len(y) /\ 2 \in 1..Len(y) /\ Len(y) + 1 = Len(r) + 3
    BY <1>4, <1>7
  <2> QED
    BY <1>3, <1>7, <1>8, <2>1
<1>10. \A j \in 1..Len(r) : z[2 + j] = r[j]
  <2> TAKE j \in 1..Len(r)
  <2>1. 2 + j \in 1..Len(y)
    BY <1>4, <1>7
  <2> QED
    BY <1>7, <1>8, <2>1
<1> QED
  BY <1>2, <1>8, <1>9, <1>10 DEF r

LEMMA PlainCells ==
    ASSUME NEW x \in Pieces, IsRef(x), ~x.brace
    PROVE  /\ Len(PieceCells(x)) = Len(x.ref) + 1
           /\ PieceCells(x)[1] = Dollar
           /\ \A j \in 1..Len(x.ref) : PieceCells(x)[1 + j] = x.ref[j]
<1> DEFINE r == x.ref
           u == <<Dollar>>
           y == u \o r
<1>1. r \in Str /\ u \in Str
  BY PieceKinds, CharsAre, NameIsStr DEF Str
<1>2. PieceCells(x) = y
  BY DEF PieceCells
<1>3. Len(u) = 1 /\ u[1] = Dollar
  OBVIOUS
<1>4. Len(r) \in Nat
  BY <1>1, LenProperties DEF Str
<1> HIDE DEF r, u
<1>5. IsConcat(y, u, r)
  BY <1>1, ConcatIs DEF Str
<1> HIDE DEF y
<1>6. Len(y) = Len(r) + 1 /\ y[1] = Dollar /\ \A j \in 1..Len(r) : y[1 + j] = r[j]
  BY <1>3, <1>4, <1>5 DEF IsConcat
<1> QED
  BY <1>2, <1>6 DEF r

LEMMA SubSeqIs ==
    ASSUME NEW r, r \in Str, NEW i \in Nat, NEW k \in Nat, k = i + Len(r) - 1,
           \A j \in 1..Len(r) : str[i + j - 1] = r[j]
    PROVE  SubSeq(str, i, k) = r
<1>1. Len(r) \in Nat
  BY LenProperties DEF Str
<1>2. SubSeq(str, i, k) = [j \in 1..Len(r) |-> str[i + j - 1]]
  <2>1. SubSeq(str, i, k) = [j \in 1..(1 + k - i) |-> str[j + i - 1]]
    OBVIOUS
  <2>2. 1 + k - i = Len(r)
    BY <1>1
  <2>3. \A j \in 1..Len(r) : j + i - 1 = i + j - 1
    BY <1>1
  <2> QED
    BY <2>1, <2>2, <2>3
<1>3. [j \in 1..Len(r) |-> str[i + j - 1]] = [j \in 1..Len(r) |-> r[j]]
  OBVIOUS
<1>4. [j \in 1..Len(r) |-> r[j]] = r
  BY DEF Str
<1> QED
  BY <1>2, <1>3, <1>4, Zenon

\* Where a reference x stands, and what is around it.
Stands(cs, a, x, b) ==
    /\ Holds(cs) /\ a \in Str /\ b \in Str /\ x \in Pieces /\ IsRef(x) /\ x.ref # <<>>
    /\ Splits(cs, a, PieceCells(x), b)
    /\ s \in 1..(Len(a) + 1)
    /\ \A j \in s..Len(a) : a[j] # Dollar
    /\ ~x.brace => b = <<>> \/ b[1] \notin NameChars

Found(a, x) ==
    /\ p = Len(a) + 1 /\ IsReference /\ needle = x.ref
    /\ AfterReference = Len(a) + Len(PieceCells(x)) + 1

LEMMA StandsAre ==
    ASSUME NEW cs, NEW a, NEW x, NEW b, Stands(cs, a, x, b)
    PROVE  /\ Len(a) \in Nat /\ Len(b) \in Nat /\ Len(cs) \in Nat /\ Len(x.ref) \in Nat
           /\ Len(x.ref) >= 1 /\ x.ref \in Str
           /\ \A j \in 1..Len(x.ref) : x.ref[j] \in NameChars
           /\ Len(cs) = Len(a) + Len(PieceCells(x)) + Len(b)
           /\ \A j \in 1..Len(PieceCells(x)) :
                 cs[Len(a) + j] = PieceCells(x)[j] /\ str[Len(a) + j] = PieceCells(x)[j]
           /\ \A j \in 1..Len(cs) : str[j] = cs[j]
<1>1. x.ref \in Seq(NameChars) /\ x.ref \in Str
  BY PieceKinds, NameIsStr DEF Stands
<1>2. Len(x.ref) \in Nat /\ Len(x.ref) >= 1 /\ \A j \in 1..Len(x.ref) : x.ref[j] \in NameChars
  <2>1. Len(x.ref) \in Nat /\ \A j \in 1..Len(x.ref) : x.ref[j] \in NameChars
    BY <1>1, LenProperties, ElementOfSeq
  <2>2. Len(x.ref) # 0
    BY <1>1, EmptySeq DEF Stands
  <2> QED
    BY <2>1, <2>2
<1>3. /\ Len(a) \in Nat /\ Len(b) \in Nat /\ Len(PieceCells(x)) \in Nat
      /\ Len(cs) = Len(a) + Len(PieceCells(x)) + Len(b)
      /\ \A j \in 1..Len(PieceCells(x)) : cs[Len(a) + j] = PieceCells(x)[j]
  BY DEF Stands, Splits
<1>4. \A j \in 1..Len(cs) : str[j] = cs[j]
  BY DEF Stands, Holds
<1>5. \A j \in 1..Len(PieceCells(x)) : str[Len(a) + j] = PieceCells(x)[j]
  <2> TAKE j \in 1..Len(PieceCells(x))
  <2>1. Len(a) + j \in 1..Len(cs)
    BY <1>3
  <2> QED
    BY <1>3, <1>4, <2>1
<1>6. Len(cs) \in Nat
  BY <1>3
<1> QED
  BY <1>1, <1>2, <1>3, <1>4, <1>5, <1>6

LEMMA FoundStart ==
    ASSUME NEW cs, NEW a, NEW x, NEW b, Stands(cs, a, x, b)
    PROVE  p = Len(a) + 1
<1> DEFINE n == Len(a)
<1>1. Holds(cs) /\ s \in 1..(n + 1) /\ n \in Nat /\ Len(cs) \in Nat /\ n + 1 <= Len(cs)
      /\ cs[n + 1] = Dollar
  <2>1. Len(PieceCells(x)) >= 1 /\ PieceCells(x)[1] = Dollar
    <3>1. CASE x.brace
      BY <3>1, StandsAre, BracedCells DEF Stands
    <3>2. CASE ~x.brace
      BY <3>2, StandsAre, PlainCells DEF Stands
    <3> QED
      BY <3>1, <3>2
  <2>2. 1 \in 1..Len(PieceCells(x))
    <3>1. Len(PieceCells(x)) \in Nat
      BY DEF Stands, Splits
    <3> QED
      BY <2>1, <3>1
  <2> QED
    BY <2>1, <2>2, StandsAre DEF Stands
<1>2. \A j \in s..n : cs[j] # Dollar
  <2> TAKE j \in s..n
  <2>1. j \in 1..n
    BY <1>1
  <2>2. cs[j] = a[j]
    BY <2>1 DEF Stands, Splits
  <2>3. a[j] # Dollar
    BY DEF Stands
  <2> QED
    BY <2>2, <2>3
<1> HIDE DEF n
<1>3. s \in 1..(Len(cs) + 1) /\ n + 1 \in s..Len(cs) /\ (n + 1) - 1 = n
  BY <1>1
<1>4. strchr(s, Dollar) = n + 1
  BY <1>1, <1>2, <1>3, StrchrIs
<1> QED
  BY <1>4 DEF p, n

LEMMA FoundBraced ==
    ASSUME NEW cs, NEW a, NEW x, NEW b, Stands(cs, a, x, b), x.brace
    PROVE  Found(a, x)
<1> DEFINE n == Len(a)
           r == x.ref
           m == Len(r)
           y == PieceCells(x)
<1>1. p = n + 1
  BY FoundStart
<1>2. /\ n \in Nat /\ m \in Nat /\ m >= 1 /\ Len(cs) \in Nat /\ Len(b) \in Nat /\ r \in Str
      /\ \A j \in 1..m : r[j] \in NameChars
      /\ Len(cs) = n + Len(y) + Len(b)
      /\ \A j \in 1..Len(y) : cs[n + j] = y[j] /\ str[n + j] = y[j]
  BY StandsAre
<1>3. /\ Len(y) = m + 3 /\ y[1] = Dollar /\ y[2] = LeftBrace
      /\ \A j \in 1..m : y[2 + j] = r[j]
      /\ y[m + 3] = RightBrace
  BY BracedCells DEF Stands
<1> HIDE DEF n, m, y, r
<1>4. str[p + 1] = LeftBrace
  <2>1. 2 \in 1..Len(y) /\ n + 2 = (n + 1) + 1
    BY <1>2, <1>3
  <2> QED
    BY <1>1, <1>2, <1>3, <2>1
<1>5. InBraces /\ NameStart = n + 3
  BY <1>1, <1>2, <1>4 DEF InBraces, NameStart
<1>6. \A j \in 1..m : cs[n + 2 + j] = r[j] /\ str[n + 2 + j] = r[j]
  <2> TAKE j \in 1..m
  <2>1. 2 + j \in 1..Len(y) /\ n + (2 + j) = n + 2 + j
    BY <1>2, <1>3
  <2> QED
    BY <1>2, <1>3, <2>1
<1>7. cs[n + m + 3] = RightBrace
  <2>1. m + 3 \in 1..Len(y) /\ n + (m + 3) = n + m + 3
    BY <1>2, <1>3
  <2> QED
    BY <1>2, <1>3, <2>1
<1>8. q = n + m + 3
  <2>1. \A j \in (n + 3)..((n + m + 3) - 1) : cs[j] # RightBrace
    <3> TAKE j \in (n + 3)..((n + m + 3) - 1)
    <3> DEFINE k == j - n - 2
    <3>1. k \in 1..m /\ n + 2 + k = j
      BY <1>2
    <3> HIDE DEF k
    <3>2. cs[n + 2 + k] = r[k] /\ r[k] \in NameChars
      BY <1>2, <1>6, <3>1
    <3> QED
      BY <3>1, <3>2, CharsAre
  <2>2. n + 3 \in 1..(Len(cs) + 1) /\ n + m + 3 \in (n + 3)..Len(cs)
    BY <1>2, <1>3
  <2>3. Holds(cs)
    BY DEF Stands
  <2>4. strchr(n + 3, RightBrace) = n + m + 3
    BY <1>7, <2>1, <2>2, <2>3, StrchrIs
  <2> QED
    BY <1>5, <2>4 DEF q
<1>9. needle = r
  <2>1. \A j \in 1..m : str[(n + 3) + j - 1] = r[j]
    <3> TAKE j \in 1..m
    <3>1. (n + 3) + j - 1 = n + 2 + j
      BY <1>2
    <3> QED
      BY <1>6, <3>1
  <2>2. n + 3 \in Nat /\ n + m + 2 \in Nat /\ n + m + 2 = (n + 3) + m - 1
        /\ (n + m + 3) - 1 = n + m + 2
    BY <1>2
  <2>3. SubSeq(str, n + 3, n + m + 2) = r
    BY <1>2, <2>1, <2>2, SubSeqIs DEF m
  <2> QED
    BY <1>5, <1>8, <2>2, <2>3 DEF needle
<1>10. AfterReference = n + Len(y) + 1
  BY <1>2, <1>3, <1>5, <1>8 DEF AfterReference
<1>11. IsReference
  BY <1>1, <1>2, <1>4, <1>8, CharsAre DEF IsReference
<1> QED
  BY <1>1, <1>9, <1>10, <1>11 DEF Found, n, y, r

LEMMA FoundPlain ==
    ASSUME NEW cs, NEW a, NEW x, NEW b, Stands(cs, a, x, b), ~x.brace
    PROVE  Found(a, x)
<1> DEFINE n == Len(a)
           r == x.ref
           m == Len(r)
           y == PieceCells(x)
           e == n + m + 2
<1>1. p = n + 1
  BY FoundStart
<1>2. /\ n \in Nat /\ m \in Nat /\ m >= 1 /\ Len(cs) \in Nat /\ Len(b) \in Nat /\ r \in Str
      /\ \A j \in 1..m : r[j] \in NameChars
      /\ Len(cs) = n + Len(y) + Len(b)
      /\ \A j \in 1..Len(y) : cs[n + j] = y[j] /\ str[n + j] = y[j]
      /\ \A j \in 1..Len(cs) : str[j] = cs[j]
  BY StandsAre
<1>3. /\ Len(y) = m + 1 /\ y[1] = Dollar /\ \A j \in 1..m : y[1 + j] = r[j]
  BY PlainCells DEF Stands
<1>a. str[e] \notin NameChars
  <2>1. CASE b = <<>>
    <3>1. Len(cs) + 1 = e
      BY <1>2, <1>3, <2>1
    <3>2. str[Len(cs) + 1] = Nul
      BY DEF Stands, Holds
    <3> QED
      BY <3>1, <3>2, CharsAre
  <2>2. CASE b # <<>>
    <3>1. Len(b) # 0
      BY <2>2, EmptySeq DEF Stands, Str
    <3>2. 1 \in 1..Len(b) /\ e \in 1..Len(cs) /\ n + Len(y) + 1 = e
      BY <1>2, <1>3, <3>1
    <3>3. cs[n + Len(y) + 1] = b[1]
      BY <3>2 DEF Stands, Splits
    <3>4. b[1] \notin NameChars
      BY <2>2 DEF Stands
    <3>5. str[e] = cs[e]
      BY <1>2, <3>2
    <3> QED
      BY <3>2, <3>3, <3>4, <3>5
  <2> QED
    BY <2>1, <2>2
<1>b. e <= MaxLen + 1 /\ MaxLen \in Nat
  BY <1>2, <1>3, CharsAre DEF Stands, Holds
<1> HIDE DEF n, m, y, r
<1>4. \A j \in 1..m : str[n + 1 + j] = r[j]
  <2> TAKE j \in 1..m
  <2>1. 1 + j \in 1..Len(y) /\ n + (1 + j) = n + 1 + j
    BY <1>2, <1>3
  <2> QED
    BY <1>2, <1>3, <2>1
<1>5. str[p + 1] \in NameChars
  <2>1. 1 \in 1..m
    BY <1>2
  <2>2. str[n + 1 + 1] = r[1] /\ r[1] \in NameChars
    BY <1>2, <1>4, <2>1
  <2> QED
    BY <1>1, <2>2
<1>6. ~InBraces /\ NameStart = n + 2
  BY <1>1, <1>2, <1>5, CharsAre DEF InBraces, NameStart
<1>7. \A j \in (n + 2)..(e - 1) : str[j] \in NameChars
  <2> TAKE j \in (n + 2)..(e - 1)
  <2> DEFINE k == j - n - 1
  <2>1. k \in 1..m /\ n + 1 + k = j
    BY <1>2
  <2> HIDE DEF k
  <2>2. str[n + 1 + k] = r[k] /\ r[k] \in NameChars
    BY <1>2, <1>4, <2>1
  <2> QED
    BY <2>1, <2>2
<1>c. e \in Nat
  BY <1>2
<1> HIDE DEF e
<1>8. q = e
  <2> DEFINE c == CHOOSE k \in (n + 2)..(MaxLen + 1) :
                     str[k] \notin NameChars /\ \A j \in (n + 2)..(k - 1) : str[j] \in NameChars
  <2>1. e \in (n + 2)..(MaxLen + 1)
    BY <1>2, <1>b DEF e
  <2>2. c \in (n + 2)..(MaxLen + 1) /\ str[c] \notin NameChars
        /\ \A j \in (n + 2)..(c - 1) : str[j] \in NameChars
    BY <1>7, <1>a, <2>1, Zenon
  <2>3. q = c
    BY <1>6, Zenon DEF q
  <2> HIDE DEF c
  <2>4. ~(c < e)
    <3>1. c < e => c \in (n + 2)..(e - 1)
      BY <1>2, <1>b, <1>c, <2>2
    <3> QED
      BY <1>7, <2>2, <3>1
  <2>5. ~(e < c)
    <3>1. e < c => e \in (n + 2)..(c - 1)
      BY <1>2, <1>b, <1>c, <2>1, <2>2
    <3> QED
      BY <1>a, <2>2, <3>1
  <2>6. c = e
    BY <1>2, <1>b, <1>c, <2>2, <2>4, <2>5
  <2> QED
    BY <2>3, <2>6
<1>9. needle = r
  <2>1. \A j \in 1..m : str[(n + 2) + j - 1] = r[j]
    <3> TAKE j \in 1..m
    <3>1. (n + 2) + j - 1 = n + 1 + j
      BY <1>2
    <3> QED
      BY <1>4, <3>1
  <2>2. n + 2 \in Nat /\ e - 1 \in Nat /\ e - 1 = (n + 2) + m - 1
    BY <1>2 DEF e
  <2>3. SubSeq(str, n + 2, e - 1) = r
    BY <1>2, <2>1, <2>2, SubSeqIs DEF m
  <2> QED
    BY <1>6, <1>8, <2>3 DEF needle
<1>10. AfterReference = n + Len(y) + 1
  BY <1>2, <1>3, <1>6, <1>8 DEF AfterReference, e
<1>11. IsReference
  <2>1. e # 0
    BY <1>2 DEF e
  <2>2. str[p + 1] # Nul /\ p # 0
    BY <1>1, <1>2, <1>5, CharsAre
  <2> QED
    BY <1>8, <2>1, <2>2 DEF IsReference
<1> QED
  BY <1>1, <1>9, <1>10, <1>11 DEF Found, n, y, r

-----------------------------------------------------------------------------
(* The reference that is replaced.                                         *)

\* the reference of y cells behind n, before w, has given way to the k of sub
Moved(n, y, k, w) ==
    /\ diff = k - y /\ newlen = n + k + w
    /\ DOMAIN Replaced = DOMAIN str
    /\ \A i \in DOMAIN str : Replaced[i] =
         IF k < y /\ i = n + k + w + 1 THEN Nul
         ELSE IF i \in (n + 1)..(n + k) THEN sub[i - n]
         ELSE IF i \in (n + k + 1)..(n + k + w) THEN str[i - (k - y)]
         ELSE str[i]

LEMMA ReplacedIs ==
    ASSUME NEW n \in Nat, NEW y \in Nat, NEW k \in Nat, NEW w \in Nat,
           p = n + 1, AfterReference = n + y + 1, Len(sub) = k, len = n + y + w
    PROVE  Moved(n, y, k, w)
<1>1. diff = k - y
  BY DEF diff
<1>2. newlen = n + k + w
  BY <1>1 DEF newlen
<1>3. DOMAIN Replaced = DOMAIN str
  BY DEF Replaced
<1>4. ASSUME NEW i \in DOMAIN str
      PROVE  Replaced[i] =
                IF diff < 0 /\ i = newlen + 1 THEN Nul
                ELSE IF i \in p..(p + Len(sub) - 1) THEN sub[i - p + 1]
                ELSE IF i \in (AfterReference + diff)..newlen THEN str[i - diff]
                ELSE str[i]
  BY DEF Replaced
<1>5. /\ diff < 0 <=> k < y
      /\ newlen + 1 = n + k + w + 1
      /\ p + Len(sub) - 1 = n + k
      /\ AfterReference + diff = n + k + 1
  BY <1>1, <1>2
<1>6. \A i \in (n + 1)..(n + k) : i - p + 1 = i - n
  OBVIOUS
<1>7. \A i \in DOMAIN str : Replaced[i] =
                IF k < y /\ i = n + k + w + 1 THEN Nul
                ELSE IF i \in (n + 1)..(n + k) THEN sub[i - p + 1]
                ELSE IF i \in (n + k + 1)..(n + k + w) THEN str[i - (k - y)]
                ELSE str[i]
  BY <1>1, <1>2, <1>4, <1>5, Zenon
<1>8. \A i \in DOMAIN str : Replaced[i] =
                IF k < y /\ i = n + k + w + 1 THEN Nul
                ELSE IF i \in (n + 1)..(n + k) THEN sub[i - n]
                ELSE IF i \in (n + k + 1)..(n + k + w) THEN str[i - (k - y)]
                ELSE str[i]
  BY <1>6, <1>7, Zenon
<1> QED
  BY <1>1, <1>2, <1>3, <1>8, Zenon DEF Moved

LEMMA ReplacedHolds ==
    ASSUME NEW cs, NEW a, NEW x, NEW b, Stands(cs, a, x, b),
           NEW v \in Str, NEW new \in Str, Splits(new, a, v, b), Len(new) <= MaxLen,
           sub = v, Len(v) # Len(PieceCells(x)),
           Len(v) > Len(PieceCells(x)) => Zeros,
           str' = Replaced, len' = newlen
    PROVE  /\ Holds(new)'
           /\ diff = Len(v) - Len(PieceCells(x)) /\ newlen = Len(new)
           /\ p + Len(sub) = Len(a) + Len(v) + 1
           /\ Len(v) > Len(PieceCells(x)) => Zeros'
<1> DEFINE n == Len(a)
           y == Len(PieceCells(x))
           k == Len(v)
           w == Len(b)
<1>1. Found(a, x)
  BY FoundBraced, FoundPlain, Zenon DEF Stands
<1>2. /\ n \in Nat /\ y \in Nat /\ k \in Nat /\ w \in Nat /\ len = n + y + w /\ Len(new) = n + k + w
      /\ Len(cs) = n + y + w
  BY DEF Stands, Splits, Holds
<1>3. p = n + 1 /\ AfterReference = n + y + 1 /\ Len(sub) = k
  BY <1>1 DEF Found
<1>4. \A j \in 1..(n + y + w) : str[j] = cs[j]
  BY <1>2 DEF Stands, Holds
<1>5. /\ \A j \in 1..n : cs[j] = a[j]
      /\ \A j \in 1..w : cs[n + y + j] = b[j]
  BY DEF Stands, Splits
<1>6. /\ \A j \in 1..n : new[j] = a[j]
      /\ \A j \in 1..k : new[n + j] = v[j]
      /\ \A j \in 1..w : new[n + k + j] = b[j]
  BY DEF Splits
<1>7. DOMAIN str = 1..(MaxLen + 1) /\ MaxLen \in Nat /\ str[n + y + w + 1] = Nul
  BY <1>2, CharsAre DEF Stands, Holds
<1>8. n + k + w <= MaxLen /\ k # y
  BY <1>2
<1>9. (k > y => Zeros) /\ sub = v
  OBVIOUS
<1> HIDE DEF n, y, k, w
<1>10. /\ diff = k - y /\ newlen = n + k + w
       /\ DOMAIN Replaced = DOMAIN str
       /\ \A i \in DOMAIN str : Replaced[i] =
            IF k < y /\ i = n + k + w + 1 THEN Nul
            ELSE IF i \in (n + 1)..(n + k) THEN v[i - n]
            ELSE IF i \in (n + k + 1)..(n + k + w) THEN str[i - (k - y)]
            ELSE str[i]
  <2>1. /\ diff = k - y /\ newlen = n + k + w
        /\ DOMAIN Replaced = DOMAIN str
        /\ \A i \in DOMAIN str : Replaced[i] =
             IF k < y /\ i = n + k + w + 1 THEN Nul
             ELSE IF i \in (n + 1)..(n + k) THEN sub[i - n]
             ELSE IF i \in (n + k + 1)..(n + k + w) THEN str[i - (k - y)]
             ELSE str[i]
    <3>1. n \in Nat /\ y \in Nat /\ k \in Nat /\ w \in Nat /\ len = n + y + w
      BY <1>2, Zenon
    <3>2. Moved(n, y, k, w)
      BY <1>3, <3>1, ReplacedIs, Zenon
    <3> QED
      BY <3>2, Zenon DEF Moved
  <2> QED
    BY <1>9, <2>1, Zenon
<1>11. \A j \in 1..(n + k + w) : Replaced[j] = new[j]
  <2> TAKE j \in 1..(n + k + w)
  <2>1. j \in DOMAIN str /\ j # n + k + w + 1
    BY <1>2, <1>7, <1>8
  <2>2. Replaced[j] = IF j \in (n + 1)..(n + k) THEN v[j - n]
                      ELSE IF j \in (n + k + 1)..(n + k + w) THEN str[j - (k - y)]
                      ELSE str[j]
    BY <1>10, <2>1, Zenon
  <2>3. CASE j <= n
    <3>1. j \in 1..n /\ j \in 1..(n + y + w) /\ j \notin (n + 1)..(n + k) /\ j \notin (n + k + 1)..(n + k + w)
      BY <1>2, <2>3
    <3> QED
      BY <1>4, <1>5, <1>6, <2>2, <3>1
  <2>4. CASE j > n /\ j <= n + k
    <3> DEFINE i == j - n
    <3>1. j \in (n + 1)..(n + k) /\ i \in 1..k /\ n + i = j
      BY <1>2, <2>4
    <3> HIDE DEF i
    <3>2. Replaced[j] = v[i]
      BY <2>2, <3>1 DEF i
    <3>3. new[n + i] = v[i]
      BY <1>6, <3>1
    <3> QED
      BY <3>1, <3>2, <3>3
  <2>5. CASE j > n + k
    <3> DEFINE i == j - n - k
    <3>1. /\ j \notin (n + 1)..(n + k) /\ j \in (n + k + 1)..(n + k + w) /\ i \in 1..w
          /\ n + k + i = j /\ j - (k - y) = n + y + i /\ n + y + i \in 1..(n + y + w)
      BY <1>2, <2>5
    <3> HIDE DEF i
    <3>2. Replaced[j] = str[n + y + i]
      BY <2>2, <3>1
    <3>3. str[n + y + i] = b[i] /\ new[n + k + i] = b[i]
      BY <1>4, <1>5, <1>6, <3>1
    <3> QED
      BY <3>1, <3>2, <3>3
  <2> QED
    BY <1>2, <2>3, <2>4, <2>5
<1>12. k > y => \A j \in (n + k + w + 1)..(MaxLen + 1) : Replaced[j] = Nul
  <2> SUFFICES ASSUME k > y, NEW j \in (n + k + w + 1)..(MaxLen + 1) PROVE Replaced[j] = Nul
    OBVIOUS
  <2>1. /\ j \in DOMAIN str /\ j \in (n + y + w + 1)..(MaxLen + 1) /\ ~(k < y)
        /\ j \notin (n + 1)..(n + k) /\ j \notin (n + k + 1)..(n + k + w)
    BY <1>2, <1>7
  <2>2. Replaced[j] = str[j]
    BY <1>10, <2>1, Zenon
  <2>3. str[j] = Nul
    BY <1>2, <1>9, <2>1 DEF Zeros
  <2> QED
    BY <2>2, <2>3
<1>13. Replaced[n + k + w + 1] = Nul
  <2>1. CASE k < y
    <3>1. n + k + w + 1 \in DOMAIN str
      BY <1>2, <1>7, <1>8
    <3> QED
      BY <1>10, <2>1, <3>1, Zenon
  <2>2. CASE k > y
    <3>1. n + k + w + 1 \in (n + k + w + 1)..(MaxLen + 1)
      BY <1>2, <1>7, <1>8
    <3> QED
      BY <1>12, <2>2, <3>1
  <2> QED
    BY <1>2, <1>8, <2>1, <2>2
<1>14. Len(new) = n + k + w
  BY <1>2
<1>15. Holds(new)'
  <2>1. str' = Replaced /\ len' = Len(new) /\ DOMAIN str' = 1..(MaxLen + 1)
    BY <1>7, <1>10, <1>14
  <2>2. (\A j \in 1..Len(new) : str'[j] = new[j]) /\ str'[Len(new) + 1] = Nul
    BY <1>11, <1>13, <1>14, <2>1
  <2>3. new \in Str /\ Len(new) <= MaxLen
    OBVIOUS
  <2> QED
    BY <2>1, <2>2, <2>3 DEF Holds
<1>16. k > y => Zeros'
  <2>1. str' = Replaced /\ len' = n + k + w
    BY <1>10
  <2> QED
    BY <1>12, <2>1 DEF Zeros
<1>17. p + Len(sub) = n + k + 1
  BY <1>2, <1>3
<1> QED
  BY <1>10, <1>14, <1>15, <1>16, <1>17 DEF n, k, y

-----------------------------------------------------------------------------
(* The text in the buffer.                                                 *)

LEMMA SplitAt ==
    ASSUME NEW S, NEW t \in Seq(S), NEW m \in 1..Len(t)
    PROVE  /\ SubSeq(t, 1, m - 1) \in Seq(S) /\ SubSeq(t, m + 1, Len(t)) \in Seq(S) /\ t[m] \in S
           /\ Len(SubSeq(t, 1, m - 1)) = m - 1
           /\ Len(SubSeq(t, m + 1, Len(t))) = Len(t) - m
           /\ \A j \in 1..(m - 1) : SubSeq(t, 1, m - 1)[j] = t[j]
           /\ \A j \in 1..(Len(t) - m) : SubSeq(t, m + 1, Len(t))[j] = t[m + j]
           /\ t = SubSeq(t, 1, m - 1) \o (<<t[m]>> \o SubSeq(t, m + 1, Len(t)))
<1> DEFINE a == SubSeq(t, 1, m - 1)
           b == SubSeq(t, m + 1, Len(t))
           x == t[m]
           v == <<x>>
<1>0. Len(t) \in Nat /\ m \in Nat /\ m >= 1 /\ m <= Len(t)
  BY LenProperties
<1>1. a \in Seq(S) /\ Len(a) = m - 1 /\ \A j \in 1..(m - 1) : a[j] = t[j]
  BY <1>0
<1>2. b \in Seq(S) /\ Len(b) = Len(t) - m /\ \A j \in 1..(Len(t) - m) : b[j] = t[m + j]
  BY <1>0
<1>3. x \in S
  BY ElementOfSeq
<1> HIDE DEF a, b
<1>4. v \in Seq(S) /\ Len(v) = 1 /\ v[1] = x
  BY <1>3
<1> HIDE DEF v
<1>5. Splits(t, a, v, b)
  <2>1. Len(a) \in Nat /\ Len(v) \in Nat /\ Len(b) \in Nat /\ Len(t) = Len(a) + Len(v) + Len(b)
    BY <1>0, <1>1, <1>2, <1>4
  <2>2. \A j \in 1..Len(a) : t[j] = a[j]
    BY <1>1
  <2>3. \A j \in 1..Len(v) : t[Len(a) + j] = v[j]
    BY <1>0, <1>1, <1>4
  <2>4. \A j \in 1..Len(b) : t[Len(a) + Len(v) + j] = b[j]
    <3> TAKE j \in 1..Len(b)
    <3>1. Len(a) + Len(v) + j = m + j /\ j \in 1..(Len(t) - m)
      BY <1>0, <1>1, <1>2, <1>4
    <3> QED
      BY <1>2, <3>1
  <2> QED
    BY <2>1, <2>2, <2>3, <2>4 DEF Splits
<1>6. t = a \o (v \o b)
  BY <1>1, <1>2, <1>4, <1>5, SplitsEqual
<1> QED
  BY <1>1, <1>2, <1>3, <1>6 DEF a, b, v

LEMMA SubSeqConcat ==
    ASSUME NEW S, NEW a \in Seq(S), NEW b \in Seq(S)
    PROVE  /\ Len(a \o b) = Len(a) + Len(b)
           /\ SubSeq(a \o b, 1, Len(a)) = a
           /\ SubSeq(a \o b, Len(a) + 1, Len(a \o b)) = b
           /\ \A j \in 1..Len(b) : (a \o b)[Len(a) + j] = b[j]
<1> DEFINE t == a \o b
           n == Len(a)
           m == Len(b)
<1>1. t \in Seq(S) /\ IsConcat(t, a, b)
  BY ConcatIs
<1>2. n \in Nat /\ m \in Nat
  BY LenProperties
<1> HIDE DEF t
<1>3. Len(t) = n + m /\ (\A i \in 1..n : t[i] = a[i]) /\ \A i \in 1..m : t[n + i] = b[i]
  BY <1>1 DEF IsConcat
<1> HIDE DEF n, m
<1>4. SubSeq(t, 1, n) = a
  <2> DEFINE u == SubSeq(t, 1, n)
  <2>1. u \in Seq(S) /\ Len(u) = n /\ \A i \in 1..n : u[i] = t[i]
    BY <1>1, <1>2, <1>3
  <2> HIDE DEF u
  <2>2. Len(u) = Len(a) /\ \A i \in 1..Len(u) : u[i] = a[i]
    BY <1>3, <2>1 DEF n
  <2>3. u = a
    BY <2>1, <2>2, SeqEqual
  <2> QED
    BY <2>3 DEF u
<1>5. SubSeq(t, n + 1, Len(t)) = b
  <2> DEFINE u == SubSeq(t, n + 1, Len(t))
  <2>1. u \in Seq(S) /\ Len(u) = m /\ \A i \in 1..m : u[i] = t[n + i]
    BY <1>1, <1>2, <1>3
  <2> HIDE DEF u
  <2>2. Len(u) = Len(b) /\ \A i \in 1..Len(u) : u[i] = b[i]
    BY <1>3, <2>1 DEF m
  <2>3. u = b
    BY <2>1, <2>2, SeqEqual
  <2> QED
    BY <2>3 DEF u
<1> QED
  BY <1>3, <1>4, <1>5 DEF t, n, m

\* Nothing in t is found by strchr(s, "$").
IsLits(t) == \A k \in 1..Len(t) : ~IsRef(t[k]) /\ t[k] # Lit(Dollar)

LEMMA LitIs ==
    ASSUME NEW x \in Pieces, ~IsRef(x), x # Lit(Dollar)
    PROVE  x.lit \in Chars \ {Dollar}
<1>1. x \in [lit : Chars]
  BY DEF Pieces, IsRef
<1>2. x = [lit |-> x.lit] /\ x.lit \in Chars
  BY <1>1
<1> QED
  BY <1>2 DEF Lit

LEMMA LitsCells ==
    ASSUME NEW env, NEW t \in Seq(Pieces), IsLits(t)
    PROVE  /\ Cells(t) = Expanded(env, t)
           /\ Cells(t) \in Seq(Chars \ {Dollar})
<1> DEFINE S == Chars \ {Dollar}
           f == [i \in 1..Len(t) |-> <<t[i].lit>>]
<1>1. DOMAIN t = 1..Len(t) /\ Len(t) \in Nat /\ \A i \in 1..Len(t) : t[i] \in Pieces
  BY LenProperties, ElementOfSeq
<1>2. \A i \in 1..Len(t) : ~IsRef(t[i]) /\ t[i].lit \in S
  BY <1>1, LitIs DEF IsLits
<1> HIDE DEF S
<1>3. f \in Seq(Seq(S))
  <2>1. \A i \in 1..Len(t) : <<t[i].lit>> \in Seq(S)
    BY <1>2
  <2> QED
    BY <1>1, <2>1
<1>4. Cells(t) = FlattenSeq(f)
  <2>1. [i \in DOMAIN t |-> PieceCells(t[i])] = f
    BY <1>1, <1>2 DEF PieceCells
  <2> HIDE DEF f
  <2> QED
    BY <2>1, Zenon DEF Cells
<1>5. Expanded(env, t) = FlattenSeq(f)
  <2>1. [i \in DOMAIN t |->
           IF ~IsRef(t[i]) THEN <<t[i].lit>>
           ELSE IF t[i].ref \in DOMAIN env THEN env[t[i].ref] ELSE <<>>] = f
    BY <1>1, <1>2
  <2> HIDE DEF f
  <2> QED
    BY <2>1, Zenon DEF Expanded
<1> HIDE DEF f
<1> QED
  BY <1>3, <1>4, <1>5, FlattenType DEF S

LEMMA NoDollar ==
    ASSUME NEW cs, cs \in Seq(Chars \ {Dollar})
    PROVE  /\ cs \in Str
           /\ \A j \in 1..Len(cs) : cs[j] # Dollar
<1>1. \A j \in 1..Len(cs) : cs[j] \in Chars \ {Dollar}
  BY ElementOfSeq
<1>2. cs \in Seq(Chars)
  BY SeqMonotonic
<1> QED
  BY <1>1, <1>2 DEF Str

-----------------------------------------------------------------------------
\* Of the references behind the first n pieces none grows.
Shrinks(env, t, n) == \A j \in (n + 1)..Len(t) : IsRef(t[j]) => Growth(env, t[j]) < 0

\* done has been expanded, todo has not.
Halfway(env, done, todo) ==
    /\ done \in Seq(Pieces) /\ todo \in Seq(Pieces)
    /\ Holds(Expanded(env, done) \o Cells(todo))
    /\ s = Len(Expanded(env, done)) + 1
    /\ Zeros \/ Shrinks(env, done \o todo, Len(done))

\* The text t is expanded in the buffer, up to some place.
Substituting(env, t) == \E done, todo : t = done \o todo /\ Halfway(env, done, todo)

\* The table of variables is env, for their names.
Agrees(env) ==
    \A v \in Names :
        /\ v \in DOMAIN hash <=> v \in DOMAIN env
        /\ v \in DOMAIN env => hash[v] = env[v]

LEMMA TextsAre ==
    ASSUME NEW t \in Texts
    PROVE  /\ t \in Seq(Pieces) /\ DOMAIN t = 1..Len(t) /\ Len(t) \in Nat
           /\ \A i \in 1..Len(t) : t[i] \in Pieces
           /\ \A i \in 1..(Len(t) - 1) :
                 IsRef(t[i]) /\ ~t[i].brace /\ ~IsRef(t[i + 1]) => t[i + 1].lit \notin NameChars
<1>1. t \in Seq(Pieces)
      /\ \A i \in 1..(Len(t) - 1) :
            IsRef(t[i]) /\ ~t[i].brace /\ ~IsRef(t[i + 1]) => t[i + 1].lit \notin NameChars
  BY DEF Texts
<1> QED
  BY <1>1, LenProperties, ElementOfSeq

\* What ReadsDependencies asks of a text.
Expands(env, t) == Expandable(env, t) /\ Steady(env, t)

LEMMA ExpandableAre ==
    ASSUME NEW env, NEW t \in Texts, Expands(env, t)
    PROVE  /\ \A i \in 1..Len(t) : IsRef(t[i]) => t[i].ref \in DOMAIN env /\ Growth(env, t[i]) # 0
           /\ \A i, j \in 1..Len(t) :
                 IsRef(t[i]) /\ IsRef(t[j]) /\ i < j /\ Growth(env, t[i]) < 0 => Growth(env, t[j]) < 0
           /\ \A i \in 1..Len(t) : t[i] # Lit(Dollar)
           /\ \A i \in 0..Len(t) :
                 Len(Expanded(env, SubSeq(t, 1, i))) + Len(Cells(SubSeq(t, i + 1, Len(t)))) <= MaxLen
<1>1. DOMAIN t = 1..Len(t)
  BY TextsAre
<1>2. \A i \in 1..Len(t) : IsRef(t[i]) => t[i].ref \in DOMAIN env /\ Growth(env, t[i]) # 0
  BY <1>1 DEF Expands, Expandable, Steady, References
<1>3. \A i, j \in 1..Len(t) :
         IsRef(t[i]) /\ IsRef(t[j]) /\ i < j /\ Growth(env, t[i]) < 0 => Growth(env, t[j]) < 0
  BY <1>1 DEF Expands, Expandable, Steady, References
<1> QED
  BY <1>1, <1>2, <1>3 DEF Expands, Expandable, Steady

\* There is room, wherever the text is divided.
LEMMA Room ==
    ASSUME NEW env, IsEnv(env), NEW t \in Texts, Expands(env, t),
           NEW a \in Seq(Pieces), NEW b \in Seq(Pieces), t = a \o b
    PROVE  Len(Expanded(env, a)) + Len(Cells(b)) <= MaxLen
<1>1. Len(a) \in Nat /\ Len(b) \in Nat
  BY LenProperties
<1>2. Len(t) = Len(a) + Len(b) /\ SubSeq(t, 1, Len(a)) = a /\ SubSeq(t, Len(a) + 1, Len(t)) = b
  BY SubSeqConcat
<1>3. Len(a) \in 0..Len(t)
  BY <1>1, <1>2
<1>4. Len(Expanded(env, SubSeq(t, 1, Len(a)))) + Len(Cells(SubSeq(t, Len(a) + 1, Len(t)))) <= MaxLen
  BY <1>3, ExpandableAre
<1> QED
  BY <1>2, <1>4

LEMMA BufferHolds ==
    ASSUME NEW cs \in Str, Len(cs) <= MaxLen, Substitute(cs)
    PROVE  Holds(cs)' /\ Zeros' /\ s' = 1
<1>1. Len(cs) \in Nat /\ MaxLen \in Nat
  BY LenProperties, CharsAre DEF Str
<1>2. str' = [i \in 1..(MaxLen + 1) |-> IF i <= Len(cs) THEN cs[i] ELSE Nul] /\ len' = Len(cs) /\ s' = 1
  BY DEF Substitute, Buffer
<1>3. (\A j \in 1..Len(cs) : str'[j] = cs[j]) /\ str'[Len(cs) + 1] = Nul
      /\ \A j \in (Len(cs) + 1)..(MaxLen + 1) : str'[j] = Nul
  BY <1>1, <1>2
<1> QED
  BY <1>2, <1>3 DEF Holds, Zeros

LEMMA SubstitutingStarts ==
    ASSUME NEW env, IsEnv(env), NEW t \in Texts, Expands(env, t), Substitute(Cells(t))
    PROVE  Substituting(env, t)'
<1>1. t \in Seq(Pieces) /\ <<>> \in Seq(Pieces) /\ Cells(t) \in Str
  BY TextsAre, EmptySeq, CellsType
<1>2. <<>> \o t = t /\ <<>> \o Cells(t) = Cells(t) /\ Len(<<>>) = 0
  BY <1>1, ConcatEmptySeq DEF Str
<1>3. Expanded(env, <<>>) = <<>>
  BY ExpandedEmpty
<1>4. Len(Cells(t)) <= MaxLen
  <2>1. Len(Expanded(env, <<>>)) + Len(Cells(t)) <= MaxLen
    BY <1>1, <1>2, Room
  <2>2. Len(Cells(t)) \in Nat
    BY <1>1, LenProperties DEF Str
  <2> QED
    BY <1>2, <1>3, <2>1, <2>2
<1>5. Holds(Cells(t))' /\ Zeros' /\ s' = 1
  BY <1>1, <1>4, BufferHolds
<1>6. Halfway(env, <<>>, t)'
  <2>a. Expanded(env, <<>>) \o Cells(t) = Cells(t) /\ Len(Expanded(env, <<>>)) = 0
    BY <1>2, <1>3, Zenon
  <2>1. Expanded(env, <<>>) \o Cells(t) = Cells(t) /\ Len(Expanded(env, <<>>)) + 1 = 1
    BY <2>a
  <2>2. Holds(Expanded(env, <<>>) \o Cells(t))'
    BY <1>5, <2>1
  <2> QED
    BY <1>1, <1>5, <2>1, <2>2 DEF Halfway
<1> QED
  BY <1>2, <1>6 DEF Substituting

-----------------------------------------------------------------------------
(* A step of substitute_vars.                                              *)

\* Associativity under names, which the provers match as they stand.
Associate(a, b, c) == a \o (b \o c) = (a \o b) \o c

LEMMA SeqsAssociate ==
    ASSUME NEW S, NEW a \in Seq(S), NEW b \in Seq(S), NEW c \in Seq(S)
    PROVE  Associate(a, b, c)
<1>1. a \o (b \o c) = (a \o b) \o c
  BY ConcatsAssociate, SMT
<1> QED
  BY <1>1, Zenon DEF Associate

LEMMA SeqsConcat ==
    ASSUME NEW S, NEW a \in Seq(S), NEW b \in Seq(S)
    PROVE  a \o b \in Seq(S)
BY ConcatProperties

Regroups(a, b, c, d) == a \o (b \o (c \o d)) = ((a \o b) \o c) \o d

LEMMA TextRegroups ==
    ASSUME NEW S, NEW a \in Seq(S), NEW b \in Seq(S), NEW c \in Seq(S), NEW d \in Seq(S)
    PROVE  Regroups(a, b, c, d)
<1> DEFINE e == c \o d
           f == a \o b
<1>1. e \in Seq(S)
  BY SeqsConcat, Zenon
<1>2. f \in Seq(S)
  BY SeqsConcat, Zenon
<1> HIDE DEF e, f
<1>3. Associate(f, c, d)
  BY <1>2, SeqsAssociate
<1>4. Associate(a, b, e)
  BY <1>1, SeqsAssociate
<1> QED
  BY <1>3, <1>4, Zenon DEF e, f, Associate, Regroups

\* A text whose next reference has been passed.
IsPassed(t, done, lits, x, post) == t = ((done \o lits) \o <<x>>) \o post

LEMMA Passed ==
    ASSUME NEW t, NEW done \in Seq(Pieces), NEW todo, NEW lits \in Seq(Pieces), NEW x \in Pieces,
           NEW post \in Seq(Pieces), t = done \o todo, todo = lits \o (<<x>> \o post)
    PROVE  IsPassed(t, done, lits, x, post)
<1> DEFINE v == <<x>>
<1>1. v \in Seq(Pieces)
  OBVIOUS
<1> HIDE DEF v
<1>2. Regroups(done, lits, v, post)
  BY <1>1, TextRegroups
<1> QED
  BY <1>2, Zenon DEF v, Regroups, IsPassed

Joins(a, v, b, e) == a \o (v \o b) = e \o b

LEMMA ValueJoins ==
    ASSUME NEW a \in Str, NEW v \in Str, NEW b \in Str, NEW e, e = a \o v
    PROVE  Joins(a, v, b, e)
<1>1. a \in Seq(Chars) /\ v \in Seq(Chars) /\ b \in Seq(Chars)
  BY DEF Str
<1>2. Associate(a, v, b)
  BY <1>1, SeqsAssociate
<1> QED
  BY <1>2, Zenon DEF Associate, Joins

\* No reference is left.
LEMMA NoneLeft ==
    ASSUME NEW env, IsEnv(env), NEW done, NEW todo, Halfway(env, done, todo), IsLits(todo)
    PROVE  ~IsReference /\ Text = Expanded(env, done \o todo)
<1> DEFINE e == Expanded(env, done)
           c == Cells(todo)
           cs == e \o c
<1>1. done \in Seq(Pieces) /\ todo \in Seq(Pieces) /\ Holds(cs) /\ s = Len(e) + 1
  BY DEF Halfway
<1>2. e \in Str
  BY <1>1, ExpandedType
<1>3. c = Expanded(env, todo) /\ c \in Seq(Chars \ {Dollar})
  BY <1>1, LitsCells
<1>4. Expanded(env, done \o todo) = e \o Expanded(env, todo)
  BY <1>1, ExpandedConcat
<1> HIDE DEF e, c
<1>5. c \in Str /\ \A j \in 1..Len(c) : c[j] # Dollar
  BY <1>3, NoDollar
<1>6. IsConcat(cs, e, c)
  BY <1>2, <1>5, ConcatIs DEF Str
<1>7. Len(e) \in Nat /\ Len(c) \in Nat
  BY <1>2, <1>5, LenProperties DEF Str
<1>8. Text = Expanded(env, done \o todo)
  <2>1. Text = cs
    BY <1>1, TextIs
  <2> QED
    BY <1>3, <1>4, <2>1
<1> HIDE DEF cs
<1>9. Len(cs) = Len(e) + Len(c) /\ \A j \in 1..Len(c) : cs[Len(e) + j] = c[j]
  BY <1>6 DEF IsConcat
<1>10. \A j \in s..Len(cs) : cs[j] # Dollar
  <2> TAKE j \in s..Len(cs)
  <2> DEFINE k == j - Len(e)
  <2>1. k \in 1..Len(c) /\ Len(e) + k = j
    BY <1>1, <1>7, <1>9
  <2> HIDE DEF k
  <2>2. cs[Len(e) + k] = c[k] /\ c[k] # Dollar
    BY <1>5, <1>9, <2>1
  <2> QED
    BY <2>1, <2>2
<1>11. s \in 1..(Len(cs) + 1)
  BY <1>1, <1>7, <1>9
<1>12. strchr(s, Dollar) = 0
  BY <1>1, <1>10, <1>11, CharsAre, StrchrNone
<1> QED
  BY <1>8, <1>12 DEF IsReference, p

\* The first reference of a text, and what is around it.
Around(t, lits, x, post) ==
    /\ lits \in Seq(Pieces) /\ x \in Pieces /\ post \in Seq(Pieces)
    /\ t = lits \o (<<x>> \o post)
    /\ IsRef(x)

LEMMA FirstReference ==
    ASSUME NEW t \in Seq(Pieces), ~\A k \in 1..Len(t) : ~IsRef(t[k])
    PROVE  \E m \in 1..Len(t) :
              /\ Around(t, SubSeq(t, 1, m - 1), t[m], SubSeq(t, m + 1, Len(t)))
              /\ \A k \in 1..(m - 1) : ~IsRef(t[k])
<1> DEFINE T == {k \in 1..Len(t) : IsRef(t[k])}
<1>1. T # {} /\ T \subseteq Nat
  OBVIOUS
<1>2. PICK m \in T : \A k \in T : m <= k
  BY <1>1, LeastNat
<1>3. m \in 1..Len(t) /\ IsRef(t[m]) /\ Len(t) \in Nat
  BY <1>2, LenProperties
<1>4. \A k \in 1..(m - 1) : ~IsRef(t[k])
  BY <1>2, <1>3
<1>5. Around(t, SubSeq(t, 1, m - 1), t[m], SubSeq(t, m + 1, Len(t)))
  BY <1>3, SplitAt, Zenon DEF Around
<1> QED
  BY <1>3, <1>4, <1>5

\* The character after a reference ends its name.
LEMMA NameEnds ==
    ASSUME NEW post \in Seq(Pieces),
           post # <<>> => (~IsRef(post[1]) => post[1].lit \notin NameChars)
    PROVE  Cells(post) = <<>> \/ Cells(post)[1] \notin NameChars
<1>1. CASE post = <<>>
  BY <1>1, CellsEmpty
<1>2. CASE post # <<>>
  <2> DEFINE y == post[1]
             rest == SubSeq(post, 2, Len(post))
             u == SubSeq(post, 1, 0)
  <2>1. 1 \in 1..Len(post) /\ 1 + 1 = 2 /\ 1 - 1 = 0
    BY <1>2, LenProperties, EmptySeq
  <2>2. y \in Pieces /\ rest \in Seq(Pieces) /\ u \in Seq(Pieces) /\ Len(u) = 0 /\ post = u \o (<<y>> \o rest)
    BY <2>1, SplitAt
  <2> HIDE DEF y, rest, u
  <2>3. <<y>> \in Seq(Pieces)
    BY <2>2
  <2>4. <<y>> \o rest \in Seq(Pieces)
    BY <2>2, <2>3, ConcatProperties
  <2>5. u = <<>>
    BY <2>2, EmptySeq
  <2>6. post = <<y>> \o rest
    BY <2>2, <2>4, <2>5, ConcatEmptySeq
  <2>7. Cells(post) = PieceCells(y) \o Cells(rest)
    BY <2>2, <2>3, <2>6, CellsConcat, CellsOne
  <2>8. PieceCells(y) \in Str /\ Cells(rest) \in Str
    BY <2>2, PieceCellsType, CellsType
  <2>9. Len(PieceCells(y)) \in Nat /\ Len(PieceCells(y)) >= 1 /\ PieceCells(y)[1] \notin NameChars
    <3>1. CASE ~IsRef(y)
      <4>1. PieceCells(y) = <<y.lit>> /\ y.lit \notin NameChars
        BY <1>2, <3>1 DEF PieceCells, y
      <4> QED
        BY <4>1
    <3>2. CASE IsRef(y)
      <4>1. Len(y.ref) \in Nat
        BY <2>2, <3>2, PieceKinds, LenProperties
      <4>2. CASE y.brace
        BY <2>2, <3>2, <4>1, <4>2, BracedCells, CharsAre
      <4>3. CASE ~y.brace
        BY <2>2, <3>2, <4>1, <4>3, PlainCells, CharsAre
      <4> QED
        BY <4>2, <4>3
    <3> QED
      BY <3>1, <3>2
  <2> DEFINE c == PieceCells(y)
             d == Cells(rest)
  <2> HIDE DEF c, d
  <2>10. IsConcat(c \o d, c, d)
    BY <2>8, ConcatIs DEF Str, c, d
  <2>11. 1 \in 1..Len(c)
    BY <2>9 DEF c
  <2>12. (c \o d)[1] = c[1]
    BY <2>10, <2>11 DEF IsConcat
  <2> QED
    BY <2>7, <2>9, <2>12 DEF c, d
<1> QED
  BY <1>1, <1>2

\* The same of the buffer.
LEMMA BufferAround ==
    ASSUME NEW env, IsEnv(env), NEW done, NEW todo, Halfway(env, done, todo),
           NEW lits, NEW x, NEW post, Around(todo, lits, x, post), IsLits(lits), x.ref # <<>>,
           ~x.brace => (Cells(post) = <<>> \/ Cells(post)[1] \notin NameChars)
    PROVE  /\ Stands(Expanded(env, done) \o Cells(todo), Expanded(env, done) \o Cells(lits), x, Cells(post))
           /\ Expanded(env, done) \o Cells(lits) = Expanded(env, done \o lits)
           /\ Expanded(env, done \o lits) \in Str
<1> DEFINE e == Expanded(env, done)
           l == Cells(lits)
           y == PieceCells(x)
           b == Cells(post)
           a == e \o l
           cs == e \o Cells(todo)
<1>1. done \in Seq(Pieces) /\ todo \in Seq(Pieces) /\ Holds(cs) /\ s = Len(e) + 1
  BY DEF Halfway
<1>2. lits \in Seq(Pieces) /\ x \in Pieces /\ post \in Seq(Pieces) /\ IsRef(x)
      /\ todo = lits \o (<<x>> \o post)
  BY DEF Around
<1>3. e \in Str /\ l \in Str /\ y \in Str /\ b \in Str
  BY <1>1, <1>2, ExpandedType, CellsType, PieceCellsType
<1>4. Cells(todo) = l \o (y \o b)
  <2>1. <<x>> \in Seq(Pieces)
    BY <1>2
  <2>2. <<x>> \o post \in Seq(Pieces)
    BY <1>2, <2>1, ConcatProperties
  <2>3. Cells(<<x>> \o post) = y \o b
    BY <1>2, <2>1, CellsConcat, CellsOne
  <2>4. Cells(lits \o (<<x>> \o post)) = l \o Cells(<<x>> \o post)
    BY <1>2, <2>2, CellsConcat
  <2> QED
    BY <1>2, <2>3, <2>4, Zenon
<1>5. l = Expanded(env, lits) /\ l \in Seq(Chars \ {Dollar})
  BY <1>2, LitsCells
<1>6. a = Expanded(env, done \o lits)
  <2>1. Expanded(env, done \o lits) = e \o Expanded(env, lits)
    BY <1>1, <1>2, ExpandedConcat
  <2> QED
    BY <1>5, <2>1, Zenon
<1> HIDE DEF e, l, y, b
<1>7. a \in Str /\ IsConcat(a, e, l)
  BY <1>3, ConcatIs DEF Str
<1>8. cs = a \o (y \o b)
  <2> DEFINE z == y \o b
  <2>1. z \in Seq(Chars) /\ e \in Seq(Chars) /\ l \in Seq(Chars)
    BY <1>3, ConcatIs DEF Str
  <2> HIDE DEF z
  <2>2. e \o (l \o z) = (e \o l) \o z
    BY <2>1, ConcatsAssociate, SMT
  <2> QED
    BY <1>4, <2>2, Zenon DEF z
<1>9. \A j \in 1..Len(l) : l[j] # Dollar
  BY <1>5, NoDollar
<1>10. Len(e) \in Nat /\ Len(l) \in Nat
  BY <1>3, LenProperties DEF Str
<1> HIDE DEF a, cs
<1>11. Splits(cs, a, y, b)
  BY <1>3, <1>7, <1>8, SplitsConcat DEF Str
<1>12. Len(a) = Len(e) + Len(l) /\ \A j \in 1..Len(l) : a[Len(e) + j] = l[j]
  BY <1>7 DEF IsConcat
<1>13. s \in 1..(Len(a) + 1)
  BY <1>1, <1>10, <1>12
<1>14. \A j \in s..Len(a) : a[j] # Dollar
  <2> TAKE j \in s..Len(a)
  <2> DEFINE k == j - Len(e)
  <2>1. k \in 1..Len(l) /\ Len(e) + k = j
    BY <1>1, <1>10, <1>12
  <2> HIDE DEF k
  <2>2. a[Len(e) + k] = l[k] /\ l[k] # Dollar
    BY <1>9, <1>12, <2>1
  <2> QED
    BY <2>1, <2>2
<1>15. ~x.brace => (b = <<>> \/ b[1] \notin NameChars)
  BY DEF b
<1>16. Stands(cs, a, x, b)
  BY <1>1, <1>2, <1>3, <1>7, <1>11, <1>13, <1>14, <1>15, Zenon DEF Stands, y
<1> QED
  BY <1>6, <1>7, <1>16 DEF cs, a, b, e, l

\* A reference is left.
LEMMA OneLeft ==
    ASSUME NEW env, IsEnv(env), Agrees(env), NEW t \in Texts, Expands(env, t),
           NEW done, NEW todo, t = done \o todo, Halfway(env, done, todo), ~IsLits(todo)
    PROVE  /\ IsReference /\ IsKnown /\ Fits /\ diff # 0
           /\ ~RunsOver
           /\ ReplaceReference => Substituting(env, t)'
<1>1. done \in Seq(Pieces) /\ todo \in Seq(Pieces) /\ s = Len(Expanded(env, done)) + 1
      /\ (Zeros \/ Shrinks(env, t, Len(done)))
  BY DEF Halfway
<1>2. Len(done) \in Nat /\ Len(todo) \in Nat /\ Len(t) = Len(done) + Len(todo)
      /\ \A j \in 1..Len(todo) : t[Len(done) + j] = todo[j]
  BY <1>1, SubSeqConcat, LenProperties
<1>3. \A j \in 1..Len(todo) : todo[j] # Lit(Dollar)
  <2> TAKE j \in 1..Len(todo)
  <2>1. Len(done) + j \in 1..Len(t)
    BY <1>2
  <2>2. t[Len(done) + j] # Lit(Dollar)
    BY <2>1, ExpandableAre
  <2> QED
    BY <1>2, <2>2
<1>4. ~\A k \in 1..Len(todo) : ~IsRef(todo[k])
  BY <1>3 DEF IsLits
<1>5. PICK m \in 1..Len(todo) :
         /\ Around(todo, SubSeq(todo, 1, m - 1), todo[m], SubSeq(todo, m + 1, Len(todo)))
         /\ \A k \in 1..(m - 1) : ~IsRef(todo[k])
  BY <1>1, <1>4, FirstReference
<1> DEFINE lits == SubSeq(todo, 1, m - 1)
           x == todo[m]
           post == SubSeq(todo, m + 1, Len(todo))
           n == Len(done) + m
<1>6. Around(todo, lits, x, post)
  BY <1>5
<1>7. /\ Len(lits) = m - 1 /\ Len(post) = Len(todo) - m
      /\ \A j \in 1..(m - 1) : lits[j] = todo[j]
      /\ \A j \in 1..(Len(todo) - m) : post[j] = todo[m + j]
  BY <1>1, SplitAt
<1>8. t[n] = x /\ n \in 1..Len(t) /\ n \in Nat
  BY <1>2
<1> HIDE DEF lits, x, post
<1>9. lits \in Seq(Pieces) /\ x \in Pieces /\ post \in Seq(Pieces) /\ IsRef(x)
      /\ todo = lits \o (<<x>> \o post)
  BY <1>6 DEF Around
<1>10. IsLits(lits)
  <2>1. \A k \in 1..(m - 1) : k \in 1..Len(todo)
    BY <1>2
  <2> QED
    BY <1>3, <1>5, <1>7, <2>1 DEF IsLits
<1>11. x.ref \in DOMAIN env /\ Growth(env, x) # 0
  BY <1>8, <1>9, ExpandableAre
<1> DEFINE v == env[x.ref]
           b == Cells(post)
           e == Expanded(env, done)
           a == Expanded(env, done \o lits)
           after == (done \o lits) \o <<x>>
<1>12. v \in Str /\ x.ref \in Names /\ x.ref \in Seq(NameChars) /\ x.ref # <<>>
  BY <1>9, <1>11, CharsAre, PieceKinds DEF IsEnv
<1>13. Growth(env, x) = Len(v) - Len(PieceCells(x))
  BY DEF Growth
<1>14. ~x.brace => b = <<>> \/ b[1] \notin NameChars
  <2> SUFFICES ASSUME ~x.brace PROVE b = <<>> \/ b[1] \notin NameChars
    OBVIOUS
  <2>1. ASSUME post # <<>>, ~IsRef(post[1]) PROVE post[1].lit \notin NameChars
    <3>1. Len(post) # 0 /\ Len(post) \in Nat
      BY <1>9, <2>1, EmptySeq, LenProperties
    <3>2. 1 \in 1..(Len(todo) - m) /\ m + 1 \in 1..Len(todo) /\ Len(done) + (m + 1) = n + 1
          /\ n \in 1..(Len(t) - 1)
      BY <1>2, <1>7, <3>1
    <3>3. post[1] = t[n + 1]
      BY <1>2, <1>7, <3>2
    <3>4. IsRef(t[n]) /\ ~t[n].brace /\ ~IsRef(t[n + 1])
      BY <1>8, <1>9, <2>1, <3>3
    <3>5. t[n + 1].lit \notin NameChars
      BY <3>2, <3>4, TextsAre
    <3> QED
      BY <3>3, <3>5
  <2> QED
    BY <1>9, <2>1, NameEnds
<1>15. /\ Stands(e \o Cells(todo), e \o Cells(lits), x, b)
       /\ e \o Cells(lits) = a /\ a \in Str
  BY <1>6, <1>10, <1>12, <1>14, BufferAround
<1> DEFINE cs == e \o Cells(todo)
<1>16. Stands(cs, a, x, b)
  BY <1>15
<1>17. b \in Str
  BY <1>9, CellsType
<1>18. done \o lits \in Seq(Pieces) /\ <<x>> \in Seq(Pieces)
  BY <1>1, <1>9, ConcatProperties
<1>19. after \in Seq(Pieces) /\ Len(after) = n
  <2>1. Len(done \o lits) = Len(done) + Len(lits) /\ Len(<<x>>) = 1
    BY <1>1, <1>9, ConcatProperties
  <2>2. Len(after) = Len(done \o lits) + Len(<<x>>)
    BY <1>18, ConcatProperties
  <2>3. after \in Seq(Pieces)
    BY <1>18, ConcatProperties
  <2> HIDE DEF after
  <2> QED
    BY <1>2, <1>7, <2>1, <2>2, <2>3
<1>20. Expanded(env, after) = a \o v
  <2>1. Expanded(env, after) = a \o Expanded(env, <<x>>)
    BY <1>18, ExpandedConcat
  <2>2. Expanded(env, <<x>>) = v
    BY <1>9, <1>11, ExpandedOne
  <2> QED
    BY <2>1, <2>2, Zenon
<1>21. t = after \o post
  <2>1. IsPassed(t, done, lits, x, post)
    BY <1>1, <1>9, Passed, Zenon
  <2> QED
    BY <2>1, Zenon DEF IsPassed
<1> DEFINE new == a \o (v \o b)
<1>22. new = Expanded(env, after) \o b
  <2>1. Joins(a, v, b, Expanded(env, after))
    <3> HIDE DEF a, v, b, after
    <3> QED
      BY <1>12, <1>15, <1>17, <1>20, ValueJoins, Zenon
  <2> QED
    BY <2>1, Zenon DEF Joins
<1>23. new \in Str /\ Splits(new, a, v, b)
  <2>1. v \o b \in Str
    BY <1>12, <1>17, ConcatIs DEF Str
  <2>2. new \in Str
    BY <1>15, <2>1, ConcatIs DEF Str
  <2> QED
    BY <1>12, <1>15, <1>17, <2>2, SplitsConcat DEF Str
<1>24. Len(new) <= MaxLen
  <2>1. Len(Expanded(env, after)) + Len(b) <= MaxLen
    BY <1>9, <1>19, <1>21, Room
  <2>2. Expanded(env, after) \in Str
    BY <1>19, ExpandedType
  <2>3. Len(Expanded(env, after) \o b) = Len(Expanded(env, after)) + Len(b)
    BY <1>17, <2>2, ConcatProperties DEF Str
  <2> QED
    BY <1>22, <2>1, <2>3, Zenon
<1>25. Found(a, x)
  BY <1>16, FoundBraced, FoundPlain
<1>26. IsReference /\ needle = x.ref
  BY <1>25 DEF Found
<1>27. needle \in DOMAIN hash /\ sub = v
  BY <1>11, <1>12, <1>26 DEF Agrees, sub
<1>28. IsKnown
  BY <1>12, <1>26, <1>27 DEF IsKnown
<1>29. Len(v) > Len(PieceCells(x)) => Zeros
  <2> SUFFICES ASSUME Len(v) > Len(PieceCells(x)), ~Zeros PROVE FALSE
    OBVIOUS
  <2>1. Shrinks(env, t, Len(done))
    BY <1>1
  <2>2. n \in (Len(done) + 1)..Len(t)
    BY <1>2
  <2>3. Growth(env, x) < 0
    BY <1>8, <1>9, <2>1, <2>2 DEF Shrinks
  <2>4. Len(v) \in Nat /\ Len(PieceCells(x)) \in Nat
    BY <1>16, <1>23 DEF Stands, Splits
  <2> QED
    BY <1>13, <2>3, <2>4
<1> HIDE DEF v, b, e, a, after, cs, new, n
<1>30. Len(v) \in Nat /\ Len(PieceCells(x)) \in Nat /\ Len(v) # Len(PieceCells(x))
  BY <1>11, <1>13, <1>16, <1>23 DEF Stands, Splits
<1>31. diff = Len(v) - Len(PieceCells(x)) /\ newlen = Len(new)
  <2>1. /\ Len(a) \in Nat /\ Len(b) \in Nat /\ Len(cs) = Len(a) + Len(PieceCells(x)) + Len(b)
        /\ Len(new) = Len(a) + Len(v) + Len(b)
        /\ len = Len(cs)
    BY <1>16, <1>23 DEF Stands, Splits, Holds
  <2>2. p = Len(a) + 1 /\ AfterReference = Len(a) + Len(PieceCells(x)) + 1
    BY <1>25 DEF Found
  <2>3. Len(sub) = Len(v)
    BY <1>27
  <2>4. diff = Len(v) - Len(PieceCells(x))
    BY <1>30, <2>1, <2>2, <2>3 DEF diff
  <2> QED
    BY <1>30, <2>1, <2>4 DEF newlen
<1>32. diff # 0 /\ Fits
  <2>1. Len(new) \in Nat
    BY <1>23, LenProperties DEF Str
  <2> QED
    BY <1>24, <1>30, <1>31, <2>1 DEF Fits
<1>33. ~RunsOver
  <2>1. /\ Len(a) \in Nat /\ Len(b) \in Nat /\ Len(new) = Len(a) + Len(v) + Len(b)
        /\ p = Len(a) + 1 /\ Len(sub) = Len(v)
    BY <1>16, <1>23, <1>25, <1>27 DEF Stands, Splits, Found
  <2>2. p + Len(sub) - 1 <= Len(new) /\ MaxLen \in Nat
    BY <1>30, <2>1, CharsAre
  <2>3. p + Len(sub) - 1 <= MaxLen /\ newlen <= MaxLen
    BY <1>24, <1>30, <1>31, <2>1, <2>2
  <2> QED
    BY <1>30, <1>31, <2>1, <2>2, <2>3 DEF RunsOver
<1>34. ASSUME ReplaceReference PROVE Substituting(env, t)'
  <2>1. str' = Replaced /\ len' = newlen /\ s' = p + Len(sub)
    BY <1>32, <1>34 DEF ReplaceReference
  <2>2. /\ Holds(new)'
        /\ p + Len(sub) = Len(a) + Len(v) + 1
        /\ Len(v) > Len(PieceCells(x)) => Zeros'
    BY <1>12, <1>16, <1>23, <1>24, <1>27, <1>29, <1>30, <2>1, ReplacedHolds
  <2>3. s' = Len(Expanded(env, after)) + 1
    <3>1. Len(a \o v) = Len(a) + Len(v)
      BY <1>12, <1>15, ConcatProperties DEF Str
    <3> QED
      BY <1>20, <2>1, <2>2, <3>1, Zenon
  <2>4. Zeros' \/ Shrinks(env, t, Len(after))
    <3>1. CASE Len(v) > Len(PieceCells(x))
      BY <2>2, <3>1
    <3>2. CASE ~(Len(v) > Len(PieceCells(x)))
      <4>1. Growth(env, t[n]) < 0 /\ IsRef(t[n]) /\ n \in 1..Len(t) /\ Len(after) = n
        BY <1>8, <1>9, <1>13, <1>19, <1>30, <3>2 DEF v
      <4>2. \A j \in (n + 1)..Len(t) : IsRef(t[j]) => Growth(env, t[j]) < 0
        <5> TAKE j \in (n + 1)..Len(t)
        <5>1. j \in 1..Len(t) /\ n < j
          BY <1>2, <4>1
        <5> QED
          BY <4>1, <5>1, ExpandableAre
      <4> QED
        BY <4>1, <4>2 DEF Shrinks
    <3> QED
      BY <3>1, <3>2
  <2>5. Halfway(env, after, post)'
    <3>1. new = Expanded(env, after) \o Cells(post)
      BY <1>22 DEF b
    <3>2. Holds(Expanded(env, after) \o Cells(post))'
      BY <2>2, <3>1
    <3> QED
      BY <1>9, <1>19, <1>21, <2>3, <2>4, <3>2 DEF Halfway
  <2> QED
    BY <1>21, <2>5 DEF Substituting
<1> QED
  BY <1>26, <1>28, <1>32, <1>34, <1>33

-----------------------------------------------------------------------------
(* substitute_vars, whatever it is called for.                             *)

LEMMA SubstituteStep ==
    ASSUME NEW env, IsEnv(env), Agrees(env), NEW t \in Texts, Expands(env, t),
           Substituting(env, t)
    PROVE  /\ ~SkipReference /\ ~Overrun
           /\ ReplaceReference => Substituting(env, t)'
           /\ SubstituteReturns => Text = Expanded(env, t)
<1>1. PICK done, todo : t = done \o todo /\ Halfway(env, done, todo)
  BY DEF Substituting
<1>2. CASE IsLits(todo)
  <2>1. ~IsReference /\ Text = Expanded(env, t)
    BY <1>1, <1>2, NoneLeft
  <2> QED
    BY <2>1 DEF SkipReference, ReplaceReference, Overrun
<1>3. CASE ~IsLits(todo)
  <2>1. IsReference /\ IsKnown /\ Fits /\ ~RunsOver /\ (ReplaceReference => Substituting(env, t)')
    BY <1>1, <1>3, OneLeft
  <2> QED
    BY <2>1 DEF SkipReference, Overrun, SubstituteReturns
<1> QED
  BY <1>2, <1>3

-----------------------------------------------------------------------------
(* The table of variables.                                                 *)

LEMMA AgreesStays ==
    ASSUME hash' = hash
    PROVE  \A env : Agrees(env)' <=> Agrees(env)
  BY DEF Agrees

\* The value of a variable that had none.
LEMMA AgreesInsert ==
    ASSUME NEW env, Agrees(env), NEW l \in Lines, l.line = "assign", l.var \notin DOMAIN env,
           NEW after, after = SetTo(env, l), hash' = Insert(l.var, Expanded(env, l.text))
    PROVE  Agrees(after)'
<1> DEFINE v == l.var
           val == Expanded(env, l.text)
<1>1. v \in Names
  BY LineKinds
<1>2. after = [x \in DOMAIN env \cup {v} |-> IF x = v THEN val ELSE env[x]]
  BY DEF SetTo
<1>3. hash' = [x \in DOMAIN hash \cup {v} |-> IF x \in DOMAIN hash THEN hash[x] ELSE val]
  BY DEF Insert
<1> HIDE DEF v, val
<1>4. v \notin DOMAIN hash
  BY <1>1 DEF Agrees, v
<1> SUFFICES ASSUME NEW x \in Names
             PROVE  /\ x \in DOMAIN hash' <=> x \in DOMAIN after
                    /\ x \in DOMAIN after => hash'[x] = after[x]
  BY DEF Agrees
<1>5. (x \in DOMAIN hash <=> x \in DOMAIN env) /\ (x \in DOMAIN env => hash[x] = env[x])
  BY DEF Agrees
<1> QED
  BY <1>2, <1>3, <1>4, <1>5

\* What is assigned to anything else changes nothing.
LEMMA AgreesOther ==
    ASSUME NEW env, Agrees(env), NEW v, v \notin Names, NEW val, hash' = Insert(v, val)
    PROVE  Agrees(env)'
<1>1. hash' = [x \in DOMAIN hash \cup {v} |-> IF x \in DOMAIN hash THEN hash[x] ELSE val]
  BY DEF Insert
<1> SUFFICES ASSUME NEW x \in Names
             PROVE  /\ x \in DOMAIN hash' <=> x \in DOMAIN env
                    /\ x \in DOMAIN env => hash'[x] = env[x]
  BY DEF Agrees
<1>2. (x \in DOMAIN hash <=> x \in DOMAIN env) /\ (x \in DOMAIN env => hash[x] = env[x])
  BY DEF Agrees
<1> QED
  BY <1>1, <1>2

-----------------------------------------------------------------------------
(* The environment of the file.                                            *)

LEMMA EnvironmentSame ==
    ASSUME file \in Files, NEW a \in 0..Len(lines), NEW b \in a..Len(lines),
           \A i \in (a + 1)..b : lines[i].line # "assign"
    PROVE  Environment[b] = Environment[a]
<1>0. Len(lines) \in Nat
  BY LinesAre
<1> DEFINE T == {n \in Nat : a + n <= b => Environment[a + n] = Environment[a]}
<1>1. 0 \in T
  BY <1>0
<1>2. ASSUME NEW n \in Nat, n \in T PROVE n + 1 \in T
  <2> SUFFICES ASSUME a + (n + 1) <= b PROVE Environment[a + (n + 1)] = Environment[a]
    OBVIOUS
  <2> DEFINE i == a + (n + 1)
  <2>1. i \in 1..Len(lines) /\ i - 1 = a + n /\ a + n <= b /\ i \in (a + 1)..b
    BY <1>0
  <2>2. Environment[a + n] = Environment[a]
    BY <1>2, <2>1
  <2> HIDE DEF i
  <2>3. Environment[i] = SetTo(Environment[i - 1], lines[i])
    BY <1>0, <2>1, EnvironmentIs
  <2>4. SetTo(Environment[i - 1], lines[i]) = Environment[i - 1]
    BY <2>1 DEF SetTo
  <2>5. Environment[i] = Environment[a]
    BY <2>1, <2>2, <2>3, <2>4
  <2> QED
    BY <2>5 DEF i
<1> HIDE DEF T
<1>3. \A n \in Nat : n \in T
  BY <1>1, <1>2, NatInd, Zenon
<1>4. b - a \in Nat /\ a + (b - a) = b /\ b <= b
  BY <1>0
<1>5. b - a \in T
  BY <1>3, <1>4, Zenon
<1>6. a + (b - a) <= b => Environment[a + (b - a)] = Environment[a]
  BY <1>5, Zenon DEF T
<1> QED
  BY <1>4, <1>6

\* Only an assignment gives a variable a value.
LEMMA EnvironmentNames ==
    ASSUME file \in Files
    PROVE  \A n \in 0..Len(lines) : \A x \in DOMAIN Environment[n] :
              \E j \in 1..n : lines[j].line = "assign" /\ lines[j].var = x
<1>0. Len(lines) \in Nat
  BY LinesAre
<1> DEFINE Assigned(n, x) == \E j \in 1..n : lines[j].line = "assign" /\ lines[j].var = x
           T == {n \in Nat : n <= Len(lines) => \A x \in DOMAIN Environment[n] : Assigned(n, x)}
<1>1. 0 \in T
  BY <1>0, EnvironmentIs
<1>2. ASSUME NEW n \in Nat, n \in T PROVE n + 1 \in T
  <2> SUFFICES ASSUME n + 1 <= Len(lines), NEW x \in DOMAIN Environment[n + 1]
               PROVE  Assigned(n + 1, x)
    OBVIOUS
  <2>1. n + 1 \in 1..Len(lines) /\ (n + 1) - 1 = n /\ n <= Len(lines)
    BY <1>0
  <2>2. Environment[n + 1] = SetTo(Environment[n], lines[n + 1])
    BY <1>0, <2>1, EnvironmentIs
  <2>3. x \in DOMAIN Environment[n] \/ (lines[n + 1].line = "assign" /\ x = lines[n + 1].var)
    BY <2>2 DEF SetTo
  <2>4. CASE x \in DOMAIN Environment[n]
    <3>1. PICK j \in 1..n : lines[j].line = "assign" /\ lines[j].var = x
      BY <1>2, <2>1, <2>4
    <3>2. j \in 1..(n + 1)
      OBVIOUS
    <3> QED
      BY <3>1, <3>2
  <2>5. CASE lines[n + 1].line = "assign" /\ x = lines[n + 1].var
    <3>1. n + 1 \in 1..(n + 1)
      OBVIOUS
    <3> QED
      BY <2>5, <3>1
  <2> QED
    BY <2>3, <2>4, <2>5
<1> HIDE DEF T
<1>3. \A n \in Nat : n \in T
  BY <1>1, <1>2, NatInd, Zenon
<1>4. \A n \in 0..Len(lines) : n \in Nat /\ n <= Len(lines)
  BY <1>0
<1> QED
  BY <1>3, <1>4 DEF T

LEMMA NewName ==
    ASSUME file \in Files, AssignsOnce, NEW n \in 1..Len(lines), lines[n].line = "assign"
    PROVE  lines[n].var \notin DOMAIN Before(n)
<1>0. DOMAIN lines = 1..Len(lines) /\ Len(lines) \in Nat /\ n - 1 \in 0..Len(lines)
  BY LinesAre
<1> SUFFICES ASSUME lines[n].var \in DOMAIN Environment[n - 1] PROVE FALSE
  BY DEF Before
<1>1. PICK j \in 1..(n - 1) : lines[j].line = "assign" /\ lines[j].var = lines[n].var
  BY <1>0, EnvironmentNames
<1>2. j \in DOMAIN lines /\ n \in DOMAIN lines /\ n # j
  BY <1>0
<1> QED
  BY <1>1, <1>2 DEF AssignsOnce

-----------------------------------------------------------------------------
(* grab_dependencies.                                                      *)

\* The precondition of DepsAsWritten.
Grabbable == Grabs /\ OnlyArrays /\ Says("depends") /\ ExpandsAll /\ SteadyAll
D == LineOf("depends")

LEMMA DependsLine ==
    ASSUME file \in Files, Grabbable
    PROVE  /\ D \in 1..Len(lines) /\ Len(lines) \in Nat /\ Shaped(D) /\ IsArray(D)
           /\ IsEnv(Before(D))
           /\ OnlyArrays /\ Grabs /\ AssignsOnce
           /\ \A n \in 1..(D - 1) : ~IsArrayOf(lines[n])
           /\ IsArrayOf(lines[D]) /\ lines[D].key = "depends"
           /\ ClosedAt(D) \in D..Len(lines)
           /\ \A n \in 1..ClosedAt(D) : \A t \in Substitutes(n) : Expands(Before(n), t)
<1>1. Says("depends") /\ OnlyArrays /\ Grabs /\ ExpandsAll /\ SteadyAll
  BY DEF Grabbable
<1>2. IsArray(D) /\ Shaped(D) /\ lines[D].key = "depends" /\ IsEnv(Before(D))
  BY <1>1, ArrayOfKey DEF D
<1>3. \A n \in 1..(D - 1) : ~IsOf(lines[n], "depends")
  BY <1>1, LineOfIs DEF D
<1>4. \A n \in 1..(D - 1) : ~IsArrayOf(lines[n])
  BY <1>1, <1>3 DEF IsOf, IsArrayOf
<1>5. IsArrayOf(lines[D])
  BY <1>2 DEF IsArrayOf, IsArray
<1>6. AssignsOnce /\ \A n \in 1..ClosedAt(D) : \A t \in Substitutes(n) : Expands(Before(n), t)
  BY <1>1 DEF ExpandsAll, SteadyAll, Expands, D
<1> QED
  BY <1>1, <1>2, <1>4, <1>5, <1>6, LinesAre DEF IsArray, Shaped

\* The elements of the array are expanded as on its first line.
LEMMA ItemsExpandable ==
    ASSUME file \in Files, Grabbable, NEW n \in D..ClosedAt(D)
    PROVE  \A j \in 1..Len(LineItems(n)) : Expands(Before(D), LineItems(n)[j].text)
<1>0. /\ D \in 1..Len(lines) /\ Len(lines) \in Nat /\ Shaped(D) /\ IsArray(D)
      /\ ClosedAt(D) \in D..Len(lines)
      /\ \A m \in 1..ClosedAt(D) : \A t \in Substitutes(m) : Expands(Before(m), t)
  BY DependsLine
<1>1. Before(n) = Before(D)
  <2>1. D - 1 \in 0..Len(lines) /\ n - 1 \in (D - 1)..Len(lines)
    BY <1>0
  <2>2. \A i \in ((D - 1) + 1)..(n - 1) : lines[i].line # "assign"
    <3> TAKE i \in ((D - 1) + 1)..(n - 1)
    <3>1. i = D \/ i \in (D + 1)..ClosedAt(D)
      BY <1>0
    <3> QED
      BY <1>0, <3>1 DEF IsArray, Shaped
  <2>3. Environment[n - 1] = Environment[D - 1]
    BY <2>1, <2>2, EnvironmentSame
  <2> QED
    BY <2>3 DEF Before
<1>2. n \in 1..ClosedAt(D) /\ n \in 1..Len(lines)
  BY <1>0
<1> TAKE j \in 1..Len(LineItems(n))
<1>3. CASE HasItems(lines[n])
  <2>1. LineItems(n) = lines[n].items /\ LineItems(n) \in Seq(Items)
    BY <1>2, <1>3, LineItemsType DEF LineItems
  <2>2. j \in DOMAIN lines[n].items
    BY <2>1, LenProperties
  <2>3. lines[n].line # "assign"
    BY <1>3 DEF HasItems
  <2>4. Substitutes(n) = {lines[n].items[m].text : m \in DOMAIN lines[n].items}
    BY <1>3, <2>3 DEF Substitutes
  <2>5. lines[n].items[j].text \in Substitutes(n)
    BY <2>2, <2>4
  <2>6. Expands(Before(n), lines[n].items[j].text)
    BY <1>0, <1>2, <2>5
  <2> QED
    BY <1>1, <2>1, <2>6
<1>4. CASE ~HasItems(lines[n])
  <2>1. Len(LineItems(n)) = 0
    BY <1>4 DEF LineItems
  <2> QED
    BY <2>1
<1> QED
  BY <1>3, <1>4

LEMMA TextExpandable ==
    ASSUME file \in Files, Grabbable, NEW n \in 1..(D - 1), lines[n].line = "assign"
    PROVE  Expands(Before(n), lines[n].text)
<1>0. /\ D \in 1..Len(lines) /\ Len(lines) \in Nat /\ ClosedAt(D) \in D..Len(lines)
      /\ \A m \in 1..ClosedAt(D) : \A t \in Substitutes(m) : Expands(Before(m), t)
  BY DependsLine
<1>1. n \in 1..ClosedAt(D)
  BY <1>0
<1>2. Substitutes(n) = {lines[n].text}
  <2>1. ~HasItems(lines[n])
    BY DEF HasItems
  <2> QED
    BY <2>1 DEF Substitutes
<1> QED
  BY <1>0, <1>1, <1>2

-----------------------------------------------------------------------------
(* The inductive invariant.                                                *)

\* The table holds what the first n lines say.
Knows(n) == \E env : env = Environment[n] /\ Agrees(env)

\* Lines before the array are read.
InLines == at < D /\ lists["depends"] = <<>> /\ Knows(at)

\* The value of a variable is read.
InValue ==
    /\ at \in 1..(D - 1) /\ lists["depends"] = <<>>
    /\ lines[at].line = "assign" /\ var = lines[at].var
    /\ \E env, t : /\ env = Before(at) /\ t = lines[at].text
                   /\ Agrees(env) /\ Substituting(env, t)

\* An array, or an element of one, is taken for a variable.
InOther ==
    /\ at \in 1..(D - 1) /\ lists["depends"] = <<>>
    /\ var \notin Names /\ var # <<>>
    /\ Knows(at)

\* The array "depends" is read.
InDepends == key = "depends" /\ var = <<>>

InPreamble ==
    /\ InDepends /\ Knows(D - 1)
    /\ Looking(D, at, lists["depends"])

AllExpandable(env, toks) == \A n \in 1..Len(toks) : Expands(env, toks[n].text)

InArray ==
    /\ InDepends
    /\ \E env : /\ env = Before(D) /\ Agrees(env)
                /\ AllExpandable(env, tokens)
                /\ Reading(env, D, at, tokens, can_break, lists["depends"])

\* An element is read.
InElement ==
    /\ InDepends
    /\ \E env, t : /\ env = Before(D) /\ Agrees(env)
                   /\ AllExpandable(env, tokens)
                   /\ t \in Texts /\ Expands(env, t) /\ Substituting(env, t)
                   /\ Reading(env, D, at, tokens, can_break,
                              Append(lists["depends"], Expanded(env, t)))

\* What is known at each label.
Grabbed ==
    /\ pc = "lines" => InLines
    /\ pc = "substitute" => InValue \/ InOther \/ InElement
    /\ pc = "preamble" => InPreamble
    /\ pc = "array" => InArray
    /\ pc = "returned" => lists["depends"] = Written("depends")

\* The inductive invariant of grab_dependencies.
GrabInv == Placed /\ (Grabbable => Grabbed)

LEMMA GrabInit == PkgbuildInit => GrabInv
<1> SUFFICES ASSUME PkgbuildInit PROVE GrabInv
  OBVIOUS
<1>1. Placed /\ file \in Files
  BY PlacedInit DEF Placed
<1>2. pc = "lines" /\ at = 0 /\ hash = <<>> /\ lists = [k \in Arrays |-> <<>>]
  BY DEF PkgbuildInit
<1> SUFFICES ASSUME Grabbable PROVE InLines
  BY <1>1, <1>2 DEF GrabInv, Grabbed
<1>3. D \in 1..Len(lines) /\ Len(lines) \in Nat
  BY <1>1, DependsLine
<1>4. Environment[0] = <<>>
  BY <1>3, EnvironmentIs
<1>5. Agrees(<<>>)
  BY <1>2 DEF Agrees
<1>6. Knows(at)
  BY <1>2, <1>4, <1>5 DEF Knows
<1>7. lists["depends"] = <<>>
  BY <1>2 DEF Arrays
<1> QED
  BY <1>2, <1>3, <1>6, <1>7 DEF InLines

LEMMA GrabStays ==
    ASSUME file' = file
    PROVE  /\ Grabbable' <=> Grabbable
           /\ D' = D /\ lines' = lines /\ Environment' = Environment
           /\ \A i : Before(i)' = Before(i)
           /\ Written("depends")' = Written("depends")
<1>0. /\ lines' = lines /\ Grabs' = Grabs /\ Environment' = Environment
      /\ \A a : ClosedAt(a)' = ClosedAt(a)
      /\ \A k : Says(k)' = Says(k)
      /\ \A k : LineOf(k)' = LineOf(k)
  BY FileStays
<1>1. \A i : Before(i)' = Before(i)
  BY <1>0 DEF Before
<1>2. \A i : Substitutes(i)' = Substitutes(i)
  BY <1>0 DEF Substitutes
<1>3. AssignsOnce' <=> AssignsOnce
  BY <1>0 DEF AssignsOnce
<1>4. LineOf("depends")' = LineOf("depends")
  BY <1>0
<1>5. ClosedAt(LineOf("depends"))' = ClosedAt(LineOf("depends"))
  <2>1. \A a : ClosedAt(a)' = ClosedAt(a)
    BY <1>0
  <2> QED
    BY <1>4, <2>1
<1>6. (ExpandsAll' <=> ExpandsAll) /\ (SteadyAll' <=> SteadyAll)
  <2>1. \A env, text : (Expandable(env, text)' <=> Expandable(env, text))
                       /\ (Steady(env, text)' <=> Steady(env, text))
    BY DEF Expandable, Steady, References, Growth
  <2> QED
    BY <1>1, <1>2, <1>3, <1>5, <2>1 DEF ExpandsAll, SteadyAll
<1>7. OnlyArrays' = OnlyArrays
  BY PreconditionsStay
<1>8. Grabbable' <=> Grabbable
  <2>1. Says("depends")' = Says("depends") /\ Grabs' = Grabs
    BY <1>0
  <2> QED
    BY <1>6, <1>7, <2>1 DEF Grabbable
<1>9. Written("depends")' = Written("depends")
  BY WrittenStays
<1> QED
  BY <1>0, <1>1, <1>4, <1>8, <1>9 DEF D

-----------------------------------------------------------------------------
(* The steps of grab_dependencies.                                         *)

LEMMA GrabFacts ==
    ASSUME Placed, Grabbable
    PROVE  /\ file \in Files /\ Grabs /\ OnlyArrays /\ AssignsOnce
           /\ D \in 1..Len(lines) /\ Len(lines) \in Nat /\ Shaped(D) /\ IsArray(D)
           /\ IsEnv(Before(D)) /\ ClosedAt(D) \in D..Len(lines)
           /\ at \in 0..Len(lines) /\ DOMAIN lists = Arrays
  BY DependsLine DEF Placed

\* A line before the array.
LEMMA LineBefore ==
    ASSUME Placed, Grabbable, InLines, fgets
    PROVE  /\ at' = at + 1 /\ at' \in 1..D /\ at' - 1 = at /\ at' \in 1..Len(lines)
           /\ NextLine = lines[at'] /\ NextLine \in Lines
           /\ at' = D <=> IsArrayOf(NextLine)
           /\ Environment[at'] = SetTo(Environment[at], NextLine)
<1>0. /\ file \in Files /\ D \in 1..Len(lines) /\ Len(lines) \in Nat /\ at < D
      /\ \A n \in 1..(D - 1) : ~IsArrayOf(lines[n])
      /\ IsArrayOf(lines[D])
  BY GrabFacts, DependsLine DEF InLines
<1>1. at' = at + 1 /\ at' \in 1..Len(lines) /\ at \in Nat /\ NextLine = lines[at'] /\ NextLine \in Lines
  BY NextLineIs
<1>2. at' \in 1..D /\ at' - 1 = at
  BY <1>0, <1>1
<1>3. at' = D <=> IsArrayOf(NextLine)
  <2>1. CASE at' = D
    BY <1>0, <1>1, <2>1
  <2>2. CASE at' # D
    <3>1. at' \in 1..(D - 1)
      BY <1>0, <1>2, <2>2
    <3> QED
      BY <1>0, <1>1, <2>2, <3>1
  <2> QED
    BY <2>1, <2>2
<1>4. Environment[at'] = SetTo(Environment[at], NextLine)
  <2>1. Environment[at'] = SetTo(Environment[at' - 1], lines[at'])
    BY <1>0, <1>1, EnvironmentIs
  <2> QED
    BY <1>1, <1>2, <2>1
<1> QED
  BY <1>1, <1>2, <1>3, <1>4

LEMMA NoEndOfLines ==
    ASSUME Placed, Grabbable, Grabbed
    PROVE  ~FileEnds /\ ~StopAtBuild
<1>1. Grabs /\ D \in 1..Len(lines) /\ Len(lines) \in Nat
  BY GrabFacts
<1>2. ~FileEnds
  <2> SUFFICES ASSUME FileEnds PROVE FALSE
    OBVIOUS
  <2>1. pc = "lines" /\ at = Len(lines)
    BY DEF FileEnds
  <2>2. at < D
    BY <2>1 DEF Grabbed, InLines
  <2> QED
    BY <1>1, <2>1, <2>2
<1> QED
  BY <1>1, <1>2 DEF StopAtBuild

LEMMA GrabSkip ==
    ASSUME Placed, Grabbable, Grabbed, SkipLine, file' = file
    PROVE  Grabbed'
<1>0. pc = "lines" /\ fgets /\ ~IsArrayOf(NextLine) /\ pc' = pc /\ lists' = lists /\ hash' = hash
      /\ (Grabs => ~IsAssigned(NextLine))
  BY DEF SkipLine
<1>1. InLines /\ Grabs /\ D \in 1..Len(lines) /\ Len(lines) \in Nat
  BY <1>0, GrabFacts DEF Grabbed
<1>2. /\ at' \in 1..D /\ at' # D /\ at' - 1 = at
      /\ Environment[at'] = SetTo(Environment[at], NextLine)
  BY <1>0, <1>1, LineBefore
<1>3. Environment[at'] = Environment[at]
  BY <1>0, <1>1, <1>2 DEF IsAssigned, SetTo
<1>4. PICK env : env = Environment[at] /\ Agrees(env)
  BY <1>1 DEF InLines, Knows
<1>5. Agrees(env)' /\ D' = D /\ Environment' = Environment
  BY <1>0, <1>4, AgreesStays, GrabStays
<1>6. at' < D /\ lists["depends"] = <<>>
  BY <1>1, <1>2 DEF InLines
<1>7. InLines'
  BY <1>0, <1>3, <1>4, <1>5, <1>6 DEF InLines, Knows
<1> QED
  BY <1>0, <1>7 DEF Grabbed

\* What a line that is no assignment is taken to assign to.
LEMMA OtherNames ==
    ASSUME file \in Files, AssignsOnce, NEW n \in 1..Len(lines), IsAssigned(lines[n]),
           lines[n].line # "assign", NEW v \in AssignedTo(lines[n])
    PROVE  v \notin Names /\ v # <<>>
<1>1. n \in DOMAIN lines /\ lines[n] \in Lines
  BY LinesAre
<1>2. CASE lines[n].line = "array"
  <2>1. v = <<lines[n].key>> /\ lines[n].key \in Arrays
    BY <1>1, <1>2, LineKinds DEF AssignedTo
  <2>2. lines[n].key \notin NameChars
    BY <2>1, CharsAre
  <2>3. Len(v) = 1 /\ v[1] = lines[n].key
    BY <2>1
  <2>4. v \notin Seq(NameChars)
    <3> SUFFICES ASSUME v \in Seq(NameChars) PROVE FALSE
      OBVIOUS
    <3>1. v[1] \in NameChars
      BY <2>3, ElementOfSeq
    <3> QED
      BY <2>2, <2>3, <3>1
  <2> QED
    BY <2>3, <2>4, CharsAre
<1>3. CASE lines[n].line = "items"
  <2>1. v # <<>>
    BY <1>3 DEF AssignedTo
  <2> QED
    BY <1>1, <1>3, <2>1 DEF AssignsOnce
<1> QED
  BY <1>2, <1>3 DEF IsAssigned

LEMMA GrabAssign ==
    ASSUME Placed, Grabbable, Grabbed, Assign, file' = file
    PROVE  Grabbed'
<1>0. /\ pc = "lines" /\ fgets /\ ~IsArrayOf(NextLine) /\ IsAssigned(NextLine)
      /\ var' \in AssignedTo(NextLine)
      /\ Substitute(Value(NextLine)) /\ pc' = "substitute" /\ lists' = lists /\ hash' = hash
  BY DEF Assign, Substitute
<1>1. InLines /\ Grabs /\ D \in 1..Len(lines) /\ Len(lines) \in Nat /\ AssignsOnce /\ file \in Files
  BY <1>0, GrabFacts DEF Grabbed
<1>2. /\ at' \in 1..D /\ at' # D /\ at' - 1 = at /\ at' \in 1..Len(lines)
      /\ NextLine = lines[at'] /\ NextLine \in Lines
      /\ Environment[at'] = SetTo(Environment[at], NextLine)
  BY <1>0, <1>1, LineBefore
<1>3. PICK env : env = Environment[at] /\ Agrees(env)
  BY <1>1 DEF InLines, Knows
<1>4. /\ Agrees(env)' /\ D' = D /\ Environment' = Environment /\ lines' = lines
      /\ \A i : Before(i)' = Before(i)
  BY <1>0, <1>3, AgreesStays, GrabStays
<1>5. at' \in 1..(D - 1) /\ lists["depends"] = <<>>
  BY <1>1, <1>2 DEF InLines
<1>6. CASE NextLine.line = "assign"
  <2>0. var' = NextLine.var
    BY <1>0, <1>6 DEF AssignedTo
  <2>1. PICK t : t = NextLine.text
    OBVIOUS
  <2>2. t \in Texts /\ Before(at') = env
    BY <1>2, <1>3, <1>6, <2>1, LineKinds DEF Before
  <2>3. Expands(env, t)
    BY <1>1, <1>2, <1>5, <1>6, <2>1, <2>2, TextExpandable
  <2>4. Value(NextLine) = Cells(t)
    <3>1. DOMAIN lines = 1..Len(lines)
      BY <1>1, LinesAre
    <3>2. ~NextLine.quoted
      BY <1>2, <1>6, <1>1, <3>1 DEF AssignsOnce
    <3> QED
      BY <1>6, <2>1, <3>2 DEF Value
  <2>5. IsEnv(env)
    <3>1. at \in 0..Len(lines)
      BY DEF Placed
    <3> QED
      BY <1>1, <1>3, <3>1, EnvironmentType
  <2>6. Substituting(env, t)'
    BY <1>0, <2>2, <2>3, <2>4, <2>5, SubstitutingStarts
  <2>7. (\E e, u : /\ e = Before(at) /\ u = lines[at].text
                   /\ Agrees(e) /\ Substituting(e, u))'
    <3>1. Before(at)' = env /\ (lines[at].text)' = t
      BY <1>2, <1>4, <2>1, <2>2 DEF Before
    <3> QED
      BY <1>4, <2>6, <3>1
  <2>8. InValue'
    BY <1>0, <1>2, <1>4, <1>5, <1>6, <2>0, <2>7 DEF InValue
  <2> QED
    BY <1>0, <2>8 DEF Grabbed
<1>7. CASE NextLine.line # "assign"
  <2>1. var' \notin Names /\ var' # <<>>
    BY <1>0, <1>1, <1>2, <1>7, OtherNames
  <2>3. Environment[at'] = env
    BY <1>2, <1>3, <1>7 DEF SetTo
  <2>4. Knows(at)'
    BY <1>4, <2>3 DEF Knows
  <2>5. InOther'
    BY <1>0, <1>4, <1>5, <2>1, <2>4 DEF InOther
  <2> QED
    BY <1>0, <2>5 DEF Grabbed
<1> QED
  BY <1>6, <1>7

-----------------------------------------------------------------------------
(* The array is entered.                                                   *)

LEMMA ReadingMoves ==
    ASSUME file' = file, NEW env, Reading(env, D, at', tokens', can_break', lists'["depends"])
    PROVE  Reading(env, D, at, tokens, can_break, lists["depends"])'
<1>1. D' = D
  BY GrabStays
<1> QED
  BY <1>1, ReadingStays

LEMMA LookingMoves ==
    ASSUME file' = file, Looking(D, at', lists'["depends"])
    PROVE  Looking(D, at, lists["depends"])'
<1>1. D' = D
  BY GrabStays
<1> QED
  BY <1>1, LookingStays

\* The elements of a line are to be read.
LEMMA ArrayGoesOn ==
    ASSUME Placed, Grabbable, file' = file, hash' = hash, NEW env, env = Before(D), Agrees(env),
           pc' = "array", InDepends', at' \in D..ClosedAt(D), tokens' = LineItems(at'),
           Reading(env, D, at', tokens', can_break', lists'["depends"])
    PROVE  Grabbed'
<1>1. file \in Files
  BY DEF Placed
<1>2. Before(D)' = env /\ Agrees(env)'
  <2>1. D' = D /\ \A i : Before(i)' = Before(i)
    BY GrabStays
  <2> QED
    BY <2>1, AgreesStays
<1>3. AllExpandable(env, tokens')
  BY <1>1, ItemsExpandable DEF AllExpandable
<1>4. AllExpandable(env, tokens)'
  <2>1. \A e, text : Expands(e, text)' <=> Expands(e, text)
    BY DEF Expands, Expandable, Steady, References, Growth
  <2> QED
    BY <1>3, <2>1 DEF AllExpandable
<1>5. Reading(env, D, at, tokens, can_break, lists["depends"])'
  BY ReadingMoves
<1>6. InArray'
  BY <1>2, <1>4, <1>5 DEF InArray
<1> QED
  BY <1>6 DEF Grabbed

LEMMA GrabBegin ==
    ASSUME Placed, Grabbable, Grabbed, BeginArray, file' = file
    PROVE  Grabbed'
<1>0. /\ pc = "lines" /\ fgets /\ IsArrayOf(NextLine) /\ key' = NextLine.key /\ var' = <<>>
      /\ IF Opens(NextLine) THEN EnterArray(NextLine.items)
         ELSE pc' = "preamble" /\ UNCHANGED <<tokens, can_break>>
      /\ lists' = lists /\ hash' = hash
  BY DEF BeginArray, ListOf
<1>1. /\ InLines /\ Grabs /\ D \in 1..Len(lines) /\ Len(lines) \in Nat /\ OnlyArrays /\ IsArray(D)
      /\ ClosedAt(D) \in D..Len(lines) /\ file \in Files /\ IsEnv(Before(D))
  BY <1>0, GrabFacts DEF Grabbed
<1>2. at' = D /\ at' - 1 = at /\ NextLine = lines[at']
  BY <1>0, <1>1, LineBefore
<1>3. NextLine.key = "depends" /\ lists["depends"] = <<>>
  BY <1>0, <1>1 DEF IsArrayOf, InLines
<1>4. PICK env : env = Environment[at] /\ Agrees(env)
  BY <1>1 DEF InLines, Knows
<1>5. env = Before(D)
  BY <1>2, <1>4 DEF Before
<1>6. /\ Agrees(env)' /\ D' = D /\ Environment' = Environment /\ lines' = lines
  BY <1>0, <1>4, AgreesStays, GrabStays
<1>7. InDepends'
  BY <1>0, <1>3 DEF InDepends
<1>8. CASE Opens(NextLine)
  <2>1. at' \in D..ClosedAt(D) /\ ItemsFrom(D, at' - 1) = <<>>
    BY <1>1, <1>2, ItemsFromNone
  <2>2. HasItems(NextLine) /\ EnterArray(NextLine.items)
    BY <1>0, <1>8 DEF Opens
  <2>3. /\ pc' = "array" /\ can_break' = FALSE /\ tokens' = LineItems(at')
        /\ Reading(env, D, at', tokens', can_break', <<>>)
    BY <1>0, <1>1, <1>5, <2>1, <2>2, EnterStep
  <2>4. Reading(env, D, at', tokens', can_break', lists'["depends"])
    BY <1>0, <1>3, <2>3
  <2> QED
    BY <1>0, <1>4, <1>5, <1>7, <2>1, <2>3, <2>4, ArrayGoesOn
<1>9. CASE ~Opens(NextLine)
  <2>1. Looking(D, at', lists'["depends"])
    BY <1>0, <1>1, <1>2, <1>3, <1>9 DEF Looking
  <2>2. Knows(D - 1)'
    BY <1>4, <1>5, <1>6 DEF Knows, Before
  <2>3. InPreamble'
    BY <1>7, <2>1, <2>2, LookingMoves DEF InPreamble
  <2> QED
    BY <1>0, <1>9, <2>3 DEF Grabbed
<1> QED
  BY <1>8, <1>9

LEMMA GrabFind ==
    ASSUME Placed, Grabbable, Grabbed, FindParen, file' = file
    PROVE  Grabbed'
<1>0. /\ pc = "preamble" /\ fgets
      /\ IF eof' \/ Opens(NextLine) THEN EnterArray(NextLine.items)
         ELSE UNCHANGED <<pc, tokens, can_break>>
      /\ lists' = lists /\ key' = key /\ var' = var /\ hash' = hash
  BY DEF FindParen
<1>1. /\ InPreamble /\ Grabs /\ D \in 1..Len(lines) /\ Len(lines) \in Nat /\ OnlyArrays /\ IsArray(D)
      /\ ClosedAt(D) \in D..Len(lines) /\ file \in Files /\ IsEnv(Before(D))
  BY <1>0, GrabFacts DEF Grabbed
<1>2. /\ at' \in 1..Len(lines) /\ NextLine = lines[at']
      /\ at' = at + 1 /\ at \in Nat /\ (eof' => at' = Len(lines) /\ ~file.newline)
  BY <1>0, NextLineIs
<1>3. Looking(D, at, lists["depends"]) /\ InDepends
  BY <1>1 DEF InPreamble
<1>4. at < ClosedAt(D) /\ ItemsFrom(D, at) = <<>> /\ at >= D /\ lists["depends"] = <<>>
  BY <1>1, <1>3, LookingEarly DEF Looking
<1>5. PICK env : env = Environment[D - 1] /\ Agrees(env)
  BY <1>1 DEF InPreamble, Knows
<1>6. env = Before(D) /\ Agrees(env)' /\ D' = D /\ Environment' = Environment /\ InDepends'
  BY <1>0, <1>3, <1>5, AgreesStays, GrabStays DEF Before, InDepends
<1>7. ~eof'
  <2> SUFFICES ASSUME eof' PROVE FALSE
    OBVIOUS
  <2>1. ClosedAt(D) = Len(lines)
    BY <1>1, <1>2, <1>4
  <2> QED
    BY <1>1, <1>2, <2>1, EndsInLine
<1>8. CASE Opens(NextLine)
  <2>1. at' \in D..ClosedAt(D) /\ at' - 1 = at
    BY <1>1, <1>2, <1>4
  <2>2. HasItems(NextLine) /\ EnterArray(NextLine.items)
    BY <1>0, <1>8 DEF Opens
  <2>3. /\ pc' = "array" /\ can_break' = FALSE /\ tokens' = LineItems(at')
        /\ Reading(env, D, at', tokens', can_break', <<>>)
    BY <1>0, <1>1, <1>4, <1>6, <2>1, <2>2, EnterStep
  <2>4. Reading(env, D, at', tokens', can_break', lists'["depends"])
    BY <1>0, <1>4, <2>3
  <2> QED
    BY <1>0, <1>5, <1>6, <2>1, <2>3, <2>4, ArrayGoesOn
<1>9. CASE ~Opens(NextLine)
  <2>1. Looking(D, at', lists'["depends"])
    <3>1. \A m \in D..at' : ~Opens(lines[m])
      BY <1>1, <1>2, <1>3, <1>9 DEF Looking
    <3>2. at' \in D..Len(lines)
      BY <1>1, <1>2, <1>4
    <3> QED
      BY <1>0, <1>4, <3>1, <3>2 DEF Looking
  <2>2. Knows(D - 1)'
    BY <1>5, <1>6 DEF Knows
  <2>3. InPreamble' /\ pc' = "preamble"
    BY <1>0, <1>6, <1>7, <1>9, <2>1, <2>2, LookingMoves DEF InPreamble
  <2> QED
    BY <2>3 DEF Grabbed
<1> QED
  BY <1>8, <1>9

LEMMA GrabNotFound ==
    ASSUME Placed, Grabbable, Grabbed
    PROVE  ~ParenNotFound
<1> SUFFICES ASSUME ParenNotFound PROVE FALSE
  OBVIOUS
<1>1. pc = "preamble" /\ at = Len(lines)
  BY DEF ParenNotFound
<1>2. Looking(D, at, lists["depends"])
  BY <1>1 DEF Grabbed, InPreamble
<1>3. file \in Files /\ OnlyArrays /\ IsArray(D) /\ ClosedAt(D) \in D..Len(lines)
      /\ D \in 1..Len(lines) /\ Len(lines) \in Nat
  BY GrabFacts
<1>4. at < ClosedAt(D)
  BY <1>2, <1>3, LookingEarly
<1> QED
  BY <1>1, <1>3, <1>4

-----------------------------------------------------------------------------
(* The array is read.                                                      *)

LEMMA GrabLine ==
    ASSUME Placed, Grabbable, Grabbed, NextArrayLine, file' = file
    PROVE  Grabbed'
<1>0. /\ pc = "array" /\ tokens = <<>>
      /\ IF at < Len(lines) THEN fgets ELSE eof' = TRUE /\ UNCHANGED at
      /\ IF eof' \/ can_break THEN AfterArray
         ELSE tokens' = (IF HasItems(NextLine) THEN NextLine.items ELSE <<>>) /\ UNCHANGED pc
      /\ lists' = lists /\ key' = key /\ var' = var /\ can_break' = can_break /\ hash' = hash
  BY DEF NextArrayLine
<1>1. /\ InArray /\ Grabs /\ D \in 1..Len(lines) /\ Len(lines) \in Nat /\ OnlyArrays /\ IsArray(D)
      /\ ClosedAt(D) \in D..Len(lines) /\ file \in Files /\ at \in 0..Len(lines)
  BY <1>0, GrabFacts DEF Grabbed
<1>2. PICK env : /\ env = Before(D) /\ Agrees(env)
                 /\ Reading(env, D, at, tokens, can_break, lists["depends"])
  BY <1>1 DEF InArray
<1>3. IsEnv(env) /\ InDepends'
  BY <1>0, <1>1, <1>2, GrabFacts DEF InArray, InDepends
<1>4. can_break \in BOOLEAN
  BY <1>2 DEF Reading, Left
<1>5. fgets => at' = at + 1 /\ at' \in 1..Len(lines) /\ NextLine = lines[at']
               /\ (eof' => at' = Len(lines) /\ ~file.newline)
  BY NextLineIs
<1>6. CASE can_break
  <2>1. Reading(env, D, at, <<>>, TRUE, lists["depends"])
    BY <1>0, <1>2, <1>4, <1>6, Zenon
  <2>2. lists["depends"] = Elements(env, ItemsOf(D))
    BY <1>1, <1>3, <2>1, ReadingEnds
  <2>3. lists'["depends"] = Written("depends")
    BY <1>0, <1>2, <2>2 DEF Written, D
  <2>4. pc' = "returned"
    BY <1>0, <1>1, <1>6 DEF AfterArray
  <2> QED
    BY <2>3, <2>4, GrabStays DEF Grabbed
<1>7. CASE ~can_break
  <2>1. Reading(env, D, at, <<>>, FALSE, lists["depends"])
    BY <1>0, <1>2, <1>4, <1>7, Zenon
  <2>2. at < ClosedAt(D) /\ Reading(env, D, at + 1, LineItems(at + 1), FALSE, lists["depends"])
    BY <1>1, <1>3, <2>1, ReadingLine
  <2>3. at < Len(lines)
    BY <1>1, <2>2
  <2>4. fgets
    BY <1>0, <2>3
  <2>5. ~eof'
    <3> SUFFICES ASSUME eof' PROVE FALSE
      OBVIOUS
    <3>1. ClosedAt(D) = Len(lines) /\ ~file.newline
      BY <1>1, <1>5, <2>2, <2>4
    <3> QED
      BY <1>1, <3>1, EndsInLine
  <2>6. pc' = "array" /\ tokens' = LineItems(at')
    BY <1>0, <1>5, <1>7, <2>4, <2>5 DEF LineItems
  <2>7. at' = at + 1 /\ can_break' = FALSE
    BY <1>0, <1>4, <1>5, <1>7, <2>4
  <2>8. Reading(env, D, at', tokens', can_break', lists'["depends"])
    BY <1>0, <2>2, <2>6, <2>7
  <2>9. at' \in D..ClosedAt(D)
    <3>1. at \in D..ClosedAt(D)
      BY <2>1 DEF Reading
    <3> QED
      BY <1>1, <2>2, <2>7, <3>1
  <2> QED
    BY <1>0, <1>2, <1>3, <2>6, <2>8, <2>9, ArrayGoesOn
<1> QED
  BY <1>6, <1>7

LEMMA ExpandableTail ==
    ASSUME NEW env, NEW toks, toks \in Seq(Items), toks # <<>>, AllExpandable(env, toks)
    PROVE  AllExpandable(env, Tail(toks)) /\ Expands(env, Head(toks).text)
<1>1. /\ Len(toks) \in Nat /\ Len(toks) >= 1 /\ Head(toks) = toks[1]
      /\ Len(Tail(toks)) = Len(toks) - 1
      /\ \A n \in 1..(Len(toks) - 1) : Tail(toks)[n] = toks[n + 1]
  BY LenProperties, EmptySeq, HeadTailProperties
<1>2. Expands(env, Head(toks).text)
  <2>1. 1 \in 1..Len(toks)
    BY <1>1
  <2> QED
    BY <1>1, <2>1 DEF AllExpandable
<1>3. ASSUME NEW n \in 1..Len(Tail(toks)) PROVE Expands(env, Tail(toks)[n].text)
  <2>1. n + 1 \in 1..Len(toks) /\ Tail(toks)[n] = toks[n + 1]
    BY <1>1
  <2>2. Expands(env, toks[n + 1].text)
    BY <2>1 DEF AllExpandable
  <2> QED
    BY <2>1, <2>2
<1> QED
  BY <1>2, <1>3 DEF AllExpandable

LEMMA ExpandableStays ==
    \A env, toks : AllExpandable(env, toks)' <=> AllExpandable(env, toks)
<1>1. \A e, text : Expands(e, text)' <=> Expands(e, text)
  BY DEF Expands, Expandable, Steady, References, Growth
<1> QED
  BY <1>1 DEF AllExpandable

LEMMA GrabToken ==
    ASSUME Placed, Grabbable, Grabbed, SkipToken \/ ReadToken, file' = file
    PROVE  Grabbed'
<1> DEFINE h == Head(tokens)
<1>0. pc = "array" /\ tokens # <<>> /\ key' = key /\ at' = at /\ var' = var /\ hash' = hash
  BY DEF SkipToken, ReadToken
<1>1. InArray /\ Grabs /\ IsEnv(Before(D))
  BY <1>0, GrabFacts DEF Grabbed
<1>2. PICK env : /\ env = Before(D) /\ Agrees(env) /\ AllExpandable(env, tokens)
                 /\ Reading(env, D, at, tokens, can_break, lists["depends"])
  BY <1>1 DEF InArray
<1>3. InDepends' /\ Before(D)' = env /\ Agrees(env)' /\ D' = D
  <2>1. InDepends'
    BY <1>0, <1>1 DEF InArray, InDepends
  <2>2. D' = D /\ \A i : Before(i)' = Before(i)
    BY GrabStays
  <2> QED
    BY <1>0, <1>2, <2>1, <2>2, AgreesStays
<1>4. /\ h.text = <<>> =>
            Reading(env, D, at, Tail(tokens), can_break \/ h.close, lists["depends"])
      /\ h.text # <<>> =>
            Reading(env, D, at, Tail(tokens), can_break \/ h.close,
                    Append(lists["depends"], IF Grabs THEN Expanded(env, h.text) ELSE Element(h)))
  BY <1>0, <1>1, <1>2, ReadingToken
<1>5. /\ h \in Items /\ h.close \in BOOLEAN /\ (h.close => Tail(tokens) = <<>>)
      /\ ~(h.text = <<>> /\ h.quotes /\ h.close)
      /\ ~can_break /\ can_break \in BOOLEAN /\ tokens \in Seq(Items)
  BY <1>0, <1>2, LeftTail DEF Reading, Left
<1>6. AllExpandable(env, Tail(tokens)) /\ Expands(env, h.text)
  BY <1>0, <1>2, <1>5, ExpandableTail
<1>7. CASE SkipToken
  <2>1. h.text = <<>> /\ pc' = pc /\ lists' = lists
    BY <1>7 DEF SkipToken
  <2>2. Reading(env, D, at, Tail(tokens), can_break \/ h.close, lists["depends"])
    BY <1>4, <2>1
  <2>3. tokens' = Tail(tokens) /\ can_break' = (can_break \/ h.close)
    <3>1. CASE h = Paren
      <4>1. h.close
        BY <3>1 DEF Paren
      <4>2. tokens' = <<>> /\ can_break' = TRUE
        BY <1>7, <3>1 DEF SkipToken
      <4> QED
        BY <1>5, <4>1, <4>2
    <3>2. CASE h # Paren
      <4>1. ~h.close /\ tokens' = Tail(tokens) /\ can_break' = can_break
        BY <1>7, <3>2 DEF SkipToken
      <4> QED
        BY <1>5, <4>1
    <3> QED
      BY <3>1, <3>2
  <2> HIDE DEF h
  <2>4. Reading(env, D, at', tokens', can_break', lists'["depends"])
    BY <1>0, <2>1, <2>2, <2>3
  <2>5. Reading(env, D, at, tokens, can_break, lists["depends"])'
    BY <2>4, ReadingMoves
  <2>6. AllExpandable(env, tokens)'
    BY <1>6, <2>3, ExpandableStays
  <2>7. InArray'
    BY <1>3, <2>5, <2>6 DEF InArray
  <2> QED
    BY <1>0, <2>1, <2>7 DEF Grabbed
<1>8. CASE ReadToken
  <2>1. h.text # <<>>
    BY <1>5, <1>8 DEF ReadToken
  <2>2. tokens' = Tail(tokens) /\ can_break' = (can_break \/ h.close) /\ lists' = lists
        /\ Substitute(Element(h)) /\ pc' = "substitute"
    BY <1>1, <1>8 DEF ReadToken, Substitute
  <2>3. PICK t : t = h.text
    OBVIOUS
  <2>4. t \in Texts /\ Cells(t) \in Str /\ Expands(env, t)
    BY <1>5, <1>6, <2>3, ItemKinds, CellsType
  <2>5. Element(h) = Cells(t)
    <3>1. Cells(t) \o <<>> = Cells(t)
      BY <2>4, ConcatEmptySeq DEF Str
    <3> QED
      BY <1>1, <2>3, <3>1 DEF Element
  <2>6. Substituting(env, t)'
    BY <1>1, <1>2, <2>2, <2>4, <2>5, SubstitutingStarts
  <2>7. Reading(env, D, at, Tail(tokens), can_break \/ h.close,
                Append(lists["depends"], Expanded(env, t)))
    BY <1>1, <1>4, <2>1, <2>3
  <2> HIDE DEF h
  <2> DEFINE l == Append(lists["depends"], Expanded(env, t))
  <2>8. Reading(env, D, at', tokens', can_break', l)
    BY <1>0, <2>2, <2>7
  <2>9. l' = l /\ (Reading(env, D, at, tokens, can_break, l))'
    BY <1>3, <2>2, <2>8, ReadingStays
  <2>10. AllExpandable(env, tokens)'
    BY <1>6, <2>2, ExpandableStays
  <2>11. InElement'
    <3>1. Expands(env, t)'
      BY <2>4 DEF Expands, Expandable, Steady, References, Growth
    <3> QED
      BY <1>3, <2>4, <2>6, <2>9, <2>10, <3>1 DEF InElement
  <2> QED
    BY <2>2, <2>11 DEF Grabbed
<1> QED
  BY <1>7, <1>8

-----------------------------------------------------------------------------
(* A text is substituted.                                                  *)

LEMMA GrabValue ==
    ASSUME Placed, Grabbable, InValue, file' = file, pc = "substitute", substitute_vars
    PROVE  Grabbed'
<1>1. /\ file \in Files /\ AssignsOnce /\ D \in 1..Len(lines) /\ Len(lines) \in Nat
  BY GrabFacts
<1>2. /\ at \in 1..(D - 1) /\ lists["depends"] = <<>>
      /\ lines[at].line = "assign" /\ var = lines[at].var
  BY DEF InValue
<1>3. PICK env, t : env = Before(at) /\ t = lines[at].text /\ Agrees(env) /\ Substituting(env, t)
  BY DEF InValue
<1>4. PICK l : l = lines[at]
  OBVIOUS
<1>5. at \in 1..Len(lines) /\ at - 1 \in 0..Len(lines) /\ l \in Lines
  BY <1>1, <1>2, <1>4, LinesAre
<1>6. IsEnv(env)
  BY <1>1, <1>3, <1>5, EnvironmentType DEF Before
<1>7. t \in Texts /\ Expands(env, t) /\ l.var \in Names
  BY <1>1, <1>2, <1>3, <1>4, <1>5, LineKinds, TextExpandable
<1>8. /\ ~SkipReference /\ ~Overrun
      /\ ReplaceReference => Substituting(env, t)'
      /\ SubstituteReturns => Text = Expanded(env, t)
  BY <1>3, <1>6, <1>7, SubstituteStep
<1>9. D' = D /\ lines' = lines /\ Environment' = Environment /\ \A i : Before(i)' = Before(i)
  BY GrabStays
<1>10. CASE ReplaceReference
  <2>1. pc' = pc /\ at' = at /\ hash' = hash /\ var' = var /\ lists' = lists
    BY <1>10 DEF ReplaceReference, arrayVars
  <2>2. Agrees(env)' /\ Substituting(env, t)'
    BY <1>3, <1>8, <1>10, <2>1, AgreesStays
  <2>3. Before(at)' = env
    BY <1>3, <1>9, <2>1 DEF Before
  <2>4. InValue'
    BY <1>2, <1>3, <1>9, <2>1, <2>2, <2>3 DEF InValue
  <2> QED
    BY <2>1, <2>4 DEF Grabbed
<1>11. CASE SubstituteReturns
  <2>1. var # <<>>
    BY <1>2, <1>4, <1>7, CharsAre
  <2>2. hash' = Insert(var, Text) /\ pc' = "lines" /\ lists' = lists /\ at' = at
    BY <1>11, <2>1 DEF SubstituteReturns
  <2>3. PICK after : after = SetTo(env, l)
    OBVIOUS
  <2>4. l.var \notin DOMAIN env
    BY <1>1, <1>2, <1>3, <1>4, <1>5, NewName
  <2>5. hash' = Insert(l.var, Expanded(env, l.text))
    BY <1>2, <1>3, <1>4, <1>8, <1>11, <2>2
  <2>6. Agrees(after)'
    BY <1>2, <1>3, <1>4, <1>5, <2>3, <2>4, <2>5, AgreesInsert
  <2>7. Environment[at] = after
    BY <1>1, <1>3, <1>4, <1>5, <2>3, EnvironmentIs DEF Before
  <2>8. Knows(at)'
    BY <1>9, <2>2, <2>6, <2>7 DEF Knows
  <2>9. InLines'
    BY <1>1, <1>2, <1>9, <2>2, <2>8 DEF InLines
  <2> QED
    BY <2>2, <2>9 DEF Grabbed
<1> QED
  BY <1>8, <1>10, <1>11 DEF substitute_vars

LEMMA GrabOther ==
    ASSUME Placed, Grabbable, InOther, file' = file, pc = "substitute", substitute_vars
    PROVE  Grabbed'
<1>1. D \in 1..Len(lines) /\ Len(lines) \in Nat
  BY GrabFacts
<1>2. at \in 1..(D - 1) /\ lists["depends"] = <<>>
  BY DEF InOther
<1>3. var \notin Names /\ var # <<>>
  BY DEF InOther
<1>4. PICK env : env = Environment[at] /\ Agrees(env)
  BY DEF InOther, Knows
<1>5. D' = D /\ lines' = lines /\ Environment' = Environment
  BY GrabStays
<1>6. CASE SkipReference \/ ReplaceReference
  <2>1. pc' = pc /\ at' = at /\ hash' = hash /\ var' = var /\ lists' = lists
    BY <1>6 DEF SkipReference, ReplaceReference, arrayVars
  <2>2. Agrees(env)'
    BY <1>4, <2>1, AgreesStays
  <2>3. InOther'
    BY <1>2, <1>3, <1>4, <1>5, <2>1, <2>2 DEF InOther, Knows
  <2> QED
    BY <2>1, <2>3 DEF Grabbed
<1>7. CASE SubstituteReturns
  <2>2. hash' = Insert(var, Text) /\ pc' = "lines" /\ lists' = lists /\ at' = at
    BY <1>3, <1>7 DEF SubstituteReturns
  <2>3. PICK val : val = Text
    OBVIOUS
  <2>5. Agrees(env)'
    BY <1>3, <1>4, <2>2, <2>3, AgreesOther
  <2>6. InLines'
    BY <1>1, <1>2, <1>4, <1>5, <2>2, <2>5 DEF InLines, Knows
  <2> QED
    BY <2>2, <2>6 DEF Grabbed
<1>8. CASE Overrun
  BY <1>8 DEF Overrun, Grabbed
<1> QED
  BY <1>6, <1>7, <1>8 DEF substitute_vars

LEMMA GrabElement ==
    ASSUME Placed, Grabbable, InElement, file' = file, pc = "substitute", substitute_vars
    PROVE  Grabbed'
<1>1. IsEnv(Before(D)) /\ DOMAIN lists = Arrays
  BY GrabFacts
<1>2. InDepends
  BY DEF InElement
<1>3. PICK env, t :
         /\ env = Before(D) /\ Agrees(env)
         /\ AllExpandable(env, tokens)
         /\ t \in Texts /\ Expands(env, t) /\ Substituting(env, t)
         /\ Reading(env, D, at, tokens, can_break, Append(lists["depends"], Expanded(env, t)))
  BY DEF InElement
<1>4. /\ ~SkipReference /\ ~Overrun
      /\ ReplaceReference => Substituting(env, t)'
      /\ SubstituteReturns => Text = Expanded(env, t)
  BY <1>1, <1>3, SubstituteStep
<1>5. D' = D /\ Before(D)' = env
  BY <1>3, GrabStays
<1>6. CASE ReplaceReference
  <2>1. /\ pc' = pc /\ at' = at /\ hash' = hash /\ var' = var /\ lists' = lists
        /\ key' = key /\ tokens' = tokens /\ can_break' = can_break
    BY <1>6 DEF ReplaceReference, arrayVars
  <2>2. Agrees(env)' /\ Substituting(env, t)' /\ AllExpandable(env, tokens)' /\ Expands(env, t)'
    <3>1. Agrees(env)' /\ Substituting(env, t)'
      BY <1>3, <1>4, <1>6, <2>1, AgreesStays
    <3>2. AllExpandable(env, tokens)'
      BY <1>3, <2>1, ExpandableStays
    <3>3. Expands(env, t)'
      BY <1>3 DEF Expands, Expandable, Steady, References, Growth
    <3> QED
      BY <3>1, <3>2, <3>3
  <2> DEFINE l == Append(lists["depends"], Expanded(env, t))
  <2>3. l' = l /\ (Reading(env, D, at, tokens, can_break, l))'
    BY <1>3, <1>5, <2>1, ReadingStays
  <2>4. InElement'
    BY <1>2, <1>3, <1>5, <2>1, <2>2, <2>3 DEF InElement, InDepends
  <2> QED
    BY <2>1, <2>4 DEF Grabbed
<1>7. CASE SubstituteReturns
  <2>1. /\ lists' = [lists EXCEPT !["depends"] = Append(@, Expanded(env, t))]
        /\ pc' = "array" /\ hash' = hash /\ at' = at /\ var' = var
        /\ key' = key /\ tokens' = tokens /\ can_break' = can_break
    BY <1>2, <1>4, <1>7 DEF SubstituteReturns, Add, InDepends, arrayVars
  <2>2. lists'["depends"] = Append(lists["depends"], Expanded(env, t))
    BY <1>1, <2>1 DEF Arrays
  <2>3. Reading(env, D, at', tokens', can_break', lists'["depends"])
    BY <1>3, <2>1, <2>2
  <2>4. Reading(env, D, at, tokens, can_break, lists["depends"])'
    BY <2>3, ReadingMoves
  <2>5. Agrees(env)' /\ AllExpandable(env, tokens)'
    BY <1>3, <2>1, AgreesStays, ExpandableStays
  <2>6. InArray'
    BY <1>2, <1>5, <2>1, <2>4, <2>5 DEF InArray, InDepends
  <2> QED
    BY <2>1, <2>6 DEF Grabbed
<1> QED
  BY <1>4, <1>6, <1>7 DEF substitute_vars

LEMMA GrabUnchanged ==
    ASSUME Placed, Grabbable, Grabbed, UNCHANGED pkgbuildVars
    PROVE  Grabbed'
<1>1. /\ file' = file /\ pc' = pc /\ at' = at /\ hash' = hash /\ var' = var /\ lists' = lists
      /\ key' = key /\ tokens' = tokens /\ can_break' = can_break
      /\ str' = str /\ len' = len /\ s' = s
  BY DEF pkgbuildVars, arrayVars, textVars
<1>2. D' = D /\ lines' = lines /\ Environment' = Environment
      /\ (\A i : Before(i)' = Before(i)) /\ Written("depends")' = Written("depends")
  BY <1>1, GrabStays
<1>3. \A env : Agrees(env)' <=> Agrees(env)
  BY <1>1, AgreesStays
<1>4. \A env, t : Substituting(env, t)' <=> Substituting(env, t)
  BY <1>1 DEF Substituting, Halfway, Holds, Zeros
<1>5. Knows(at)' <=> Knows(at)
  BY <1>1, <1>2, <1>3 DEF Knows
<1>6. CASE pc = "lines"
  <2>1. InLines'
    BY <1>1, <1>2, <1>5, <1>6 DEF Grabbed, InLines
  <2> QED
    BY <1>1, <1>6, <2>1 DEF Grabbed
<1>7. CASE pc = "substitute"
  <2>1. CASE InValue
    <3>1. InValue'
      BY <1>1, <1>2, <1>3, <1>4, <2>1 DEF InValue
    <3> QED
      BY <1>1, <1>7, <3>1 DEF Grabbed
  <2>2. CASE InOther
    <3>1. InOther'
      BY <1>1, <1>2, <1>5, <2>2 DEF InOther
    <3> QED
      BY <1>1, <1>7, <3>1 DEF Grabbed
  <2>3. CASE InElement
    <3>1. PICK env, t :
             /\ env = Before(D) /\ Agrees(env)
             /\ AllExpandable(env, tokens)
             /\ t \in Texts /\ Expands(env, t) /\ Substituting(env, t)
             /\ Reading(env, D, at, tokens, can_break, Append(lists["depends"], Expanded(env, t)))
      BY <2>3 DEF InElement
    <3> DEFINE l == Append(lists["depends"], Expanded(env, t))
    <3>2. (Reading(env, D, at, tokens, can_break, l))'
      BY <1>1, <1>2, <3>1, ReadingStays
    <3>3. Expands(env, t)'
      BY <3>1 DEF Expands, Expandable, Steady, References, Growth
    <3>4. Agrees(env)' /\ Substituting(env, t)' /\ AllExpandable(env, tokens)'
      BY <1>1, <1>3, <1>4, <3>1, ExpandableStays
    <3>5. InElement'
      BY <1>1, <1>2, <2>3, <3>1, <3>2, <3>3, <3>4 DEF InElement, InDepends
    <3> QED
      BY <1>1, <1>7, <3>5 DEF Grabbed
  <2> QED
    BY <1>7, <2>1, <2>2, <2>3 DEF Grabbed
<1>8. CASE pc = "preamble"
  <2>1. Looking(D, at, lists["depends"]) /\ InDepends /\ Knows(D - 1)
    BY <1>8 DEF Grabbed, InPreamble
  <2>2. Looking(D, at, lists["depends"])'
    BY <1>1, <2>1, LookingMoves
  <2>3. InPreamble'
    BY <1>1, <1>2, <1>3, <2>1, <2>2 DEF InPreamble, InDepends, Knows
  <2> QED
    BY <1>1, <1>8, <2>3 DEF Grabbed
<1>9. CASE pc = "array"
  <2>1. InDepends
    BY <1>9 DEF Grabbed, InArray
  <2>2. PICK env : /\ env = Before(D) /\ Agrees(env) /\ AllExpandable(env, tokens)
                   /\ Reading(env, D, at, tokens, can_break, lists["depends"])
    BY <1>9 DEF Grabbed, InArray
  <2>3. Reading(env, D, at, tokens, can_break, lists["depends"])'
    BY <1>1, <2>2, ReadingMoves
  <2>4. Agrees(env)' /\ AllExpandable(env, tokens)'
    BY <1>1, <1>3, <2>2, ExpandableStays
  <2>5. InArray'
    BY <1>1, <1>2, <2>1, <2>2, <2>3, <2>4 DEF InArray, InDepends
  <2> QED
    BY <1>1, <1>9, <2>5 DEF Grabbed
<1>10. CASE pc = "returned"
  BY <1>1, <1>2, <1>10 DEF Grabbed
<1>11. CASE pc \notin {"lines", "substitute", "preamble", "array", "returned"}
  BY <1>1, <1>11 DEF Grabbed
<1> QED
  BY <1>6, <1>7, <1>8, <1>9, <1>10, <1>11

-----------------------------------------------------------------------------
LEMMA GrabStep == GrabInv /\ [PkgbuildStep]_pkgbuildVars => GrabInv'
<1> SUFFICES ASSUME GrabInv, [PkgbuildStep]_pkgbuildVars PROVE GrabInv'
  OBVIOUS
<1>0. Placed /\ (Grabbable => Grabbed) /\ Placed'
  BY PlacedStep DEF GrabInv
<1>1. file' = file
  BY DEF PkgbuildStep, ReadFile, ReadArray, substitute_vars, FileEnds, StopAtBuild, SkipLine, Assign,
         BeginArray, FindParen, ParenNotFound, NextArrayLine, SkipToken, ReadToken, SkipReference,
         ReplaceReference, Overrun, SubstituteReturns, pkgbuildVars
<1> SUFFICES ASSUME Grabbable PROVE Grabbed'
  BY <1>0, <1>1, GrabStays DEF GrabInv
<1>2. Grabbed
  BY <1>0
<1>3. CASE FileEnds \/ StopAtBuild
  BY <1>0, <1>2, <1>3, NoEndOfLines
<1>4. CASE SkipLine
  BY <1>0, <1>1, <1>2, <1>4, GrabSkip
<1>5. CASE Assign
  BY <1>0, <1>1, <1>2, <1>5, GrabAssign
<1>6. CASE BeginArray
  BY <1>0, <1>1, <1>2, <1>6, GrabBegin
<1>7. CASE FindParen
  BY <1>0, <1>1, <1>2, <1>7, GrabFind
<1>8. CASE ParenNotFound
  BY <1>0, <1>2, <1>8, GrabNotFound
<1>9. CASE NextArrayLine
  BY <1>0, <1>1, <1>2, <1>9, GrabLine
<1>10. CASE SkipToken \/ ReadToken
  BY <1>0, <1>1, <1>2, <1>10, GrabToken
<1>11. CASE substitute_vars
  <2>1. pc = "substitute"
    BY <1>11 DEF substitute_vars, SkipReference, ReplaceReference, Overrun, SubstituteReturns
  <2>2. InValue \/ InOther \/ InElement
    BY <1>2, <2>1 DEF Grabbed
  <2> QED
    BY <1>0, <1>1, <1>11, <2>1, <2>2, GrabValue, GrabOther, GrabElement
<1>12. CASE UNCHANGED pkgbuildVars
  BY <1>0, <1>2, <1>12, GrabUnchanged
<1> QED
  BY <1>3, <1>4, <1>5, <1>6, <1>7, <1>8, <1>9, <1>10, <1>11, <1>12
     DEF PkgbuildStep, ReadFile, ReadArray

LEMMA GrabInvSafe == GrabInv => DepsAsWritten
  BY DEF GrabInv, Grabbed, Grabbable, DepsAsWritten

\* package.c:324-385: whatever is assigned in a PKGBUILD and however its array is laid
\* out, grab_dependencies returns the elements of "depends" as bash expands them,
\* although it substitutes in place.
THEOREM ReadsDependencies == PkgbuildSpec => []DepsAsWritten
<1>1. PkgbuildSpec => []GrabInv
  BY GrabInit, GrabStep, PTL DEF PkgbuildSpec
<1> QED
  BY <1>1, GrabInvSafe, PTL

-----------------------------------------------------------------------------
(* The buffer, whatever is substituted.                                    *)

\* The last cell is a nul, whatever stands before it.
Kept ==
    /\ DOMAIN str = 1..(MaxLen + 1)
    /\ len \in 0..MaxLen
    /\ \A j \in 1..(MaxLen + 1) : str[j] \in Chars \cup {Nul}
    /\ str[MaxLen + 1] = Nul

\* The values of the variables are strings.
TableKept == \A v \in DOMAIN hash : hash[v] \in Str

\* The items of the line that are left fit the buffer.
ItemsFit == \A n \in 1..Len(tokens) : Len(Cells(tokens[n].text)) <= MaxLen

\* The inductive invariant of the buffer.
BufferInv ==
    /\ Placed
    /\ eof \in BOOLEAN /\ can_break \in BOOLEAN
    /\ tokens \in Seq(Items) /\ ItemsFit
    /\ Kept /\ s \in 1..(MaxLen + 1)
    /\ TableKept

LEMMA BufferInvSafe == BufferInv => PkgbuildTypeOK
  BY DEF BufferInv, Kept, Placed, PkgbuildTypeOK

\* There is a nul to stop at.
LEMMA NulFromFinds ==
    ASSUME Kept, NEW i \in 1..(MaxLen + 1)
    PROVE  /\ NulFrom(i) \in i..(MaxLen + 1)
           /\ str[NulFrom(i)] = Nul
           /\ \A j \in i..(NulFrom(i) - 1) : str[j] # Nul
<1> DEFINE IsEnd(k) == str[k] = Nul /\ \A j \in i..(k - 1) : str[j] # Nul
           T == {k \in Nat : k \in i..(MaxLen + 1) /\ str[k] = Nul}
<1>1. MaxLen + 1 \in T /\ T \subseteq Nat
  BY CharsAre DEF Kept
<1>2. PICK k \in T : \A j \in T : k <= j
  <2> HIDE DEF T
  <2> QED
    BY <1>1, LeastNat
<1>3. \A j \in i..(k - 1) : j \in Nat /\ j \in i..(MaxLen + 1) /\ ~(k <= j)
  BY <1>2, CharsAre
<1>4. \A j \in i..(k - 1) : str[j] # Nul
  BY <1>2, <1>3
<1>5. k \in i..(MaxLen + 1) /\ IsEnd(k)
  BY <1>2, <1>4
<1>6. \E n \in i..(MaxLen + 1) : IsEnd(n)
  BY <1>5
<1>7. NulFrom(i) = CHOOSE n \in i..(MaxLen + 1) : IsEnd(n)
  BY DEF NulFrom
<1> DEFINE r == CHOOSE n \in i..(MaxLen + 1) : IsEnd(n)
<1>8. r \in i..(MaxLen + 1) /\ IsEnd(r)
  BY <1>6, Zenon
<1> HIDE DEF r
<1> QED
  BY <1>7, <1>8 DEF r

LEMMA KeptText ==
    ASSUME Kept
    PROVE  Text \in Str
<1>1. MaxLen \in Nat /\ 1 \in 1..(MaxLen + 1)
  BY CharsAre
<1> DEFINE n == NulFrom(1) - 1
<1>2. NulFrom(1) \in 1..(MaxLen + 1) /\ \A j \in 1..n : str[j] # Nul
  BY <1>1, NulFromFinds
<1>3. n \in Nat /\ n <= MaxLen
  BY <1>1, <1>2
<1> HIDE DEF n
<1>4. \A j \in 1..n : str[j] \in Chars
  BY <1>1, <1>2, <1>3 DEF Kept
<1>5. SubSeq(str, 1, n) = [j \in 1..n |-> str[j]]
  BY <1>3
<1>6. [j \in 1..n |-> str[j]] \in Seq(Chars)
  BY <1>3, <1>4
<1> QED
  BY <1>5, <1>6 DEF Text, Str, n

\* strchr finds a character of the string.
LEMMA StrchrFinds ==
    ASSUME Kept, NEW i \in 1..(MaxLen + 1), NEW c \in Chars, strchr(i, c) # 0
    PROVE  /\ strchr(i, c) \in i..MaxLen
           /\ str[strchr(i, c)] = c
           /\ \A j \in i..strchr(i, c) : str[j] # Nul
<1>1. MaxLen \in Nat /\ c # Nul /\ str[MaxLen + 1] = Nul
  BY CharsAre DEF Kept
<1> DEFINE e == NulFrom(i)
           IsFirst(k) == str[k] = c /\ \A j \in i..(k - 1) : str[j] # c
<1>2. e \in i..(MaxLen + 1) /\ str[e] = Nul /\ \A j \in i..(e - 1) : str[j] # Nul
  BY NulFromFinds
<1>3. \E k \in i..e : str[k] = c
  BY DEF strchr
<1>4. strchr(i, c) = CHOOSE k \in i..e : IsFirst(k)
  BY <1>3 DEF strchr
<1> HIDE DEF e
<1>5. \E k \in i..e : IsFirst(k)
  <2> DEFINE T == {k \in Nat : k \in i..e /\ str[k] = c}
  <2>1. PICK k \in T : \A j \in T : k <= j
    <3>1. T # {} /\ T \subseteq Nat
      BY <1>3
    <3> HIDE DEF T
    <3> QED
      BY <3>1, LeastNat
  <2>2. \A j \in i..(k - 1) : j \in Nat /\ j \in i..e /\ ~(k <= j)
    BY <1>2, <2>1
  <2>3. \A j \in i..(k - 1) : str[j] # c
    BY <2>1, <2>2
  <2> QED
    BY <2>1, <2>3
<1> DEFINE r == CHOOSE k \in i..e : IsFirst(k)
<1>6. r \in i..e /\ IsFirst(r)
  BY <1>5, Zenon
<1> HIDE DEF r
<1>7. r # e
  BY <1>1, <1>2, <1>6
<1>8. r \in i..MaxLen
  BY <1>1, <1>2, <1>6, <1>7
<1>9. ASSUME NEW j \in i..r PROVE str[j] # Nul
  <2>1. j \in i..(e - 1)
    BY <1>1, <1>2, <1>6, <1>7, <1>9
  <2> QED
    BY <1>2, <2>1
<1> QED
  BY <1>4, <1>6, <1>8, <1>9 DEF r

\* The reference found lies in the string.
LEMMA ReferenceInside ==
    ASSUME Kept, s \in 1..(MaxLen + 1), IsReference
    PROVE  /\ p \in 1..MaxLen
           /\ AfterReference \in (p + 1)..(MaxLen + 1)
           /\ \A j \in p..(AfterReference - 1) : str[j] # Nul
<1>1. MaxLen \in Nat /\ str[MaxLen + 1] = Nul
  BY CharsAre DEF Kept
<1>2. Dollar \in Chars /\ RightBrace \in Chars
  BY CharsAre
<1>3. p \in s..MaxLen /\ str[p] # Nul
  <2>1. p = strchr(s, Dollar) /\ strchr(s, Dollar) # 0
    BY DEF IsReference, p
  <2>2. p \in s..MaxLen /\ str[p] = Dollar
    BY <1>2, <2>1, StrchrFinds
  <2> QED
    BY <1>2, <2>2, CharsAre
<1>4. p \in 1..MaxLen /\ str[p + 1] # Nul /\ q # 0
  BY <1>1, <1>3 DEF IsReference
<1>5. p + 1 \in 1..MaxLen
  <2>1. p + 1 # MaxLen + 1
    BY <1>1, <1>4
  <2> QED
    BY <1>1, <1>4, <2>1
<1>6. CASE InBraces
  <2>1. NameStart = p + 2 /\ q = strchr(p + 2, RightBrace) /\ AfterReference = q + 1
    BY <1>6 DEF NameStart, q, AfterReference
  <2>2. p + 2 \in 1..(MaxLen + 1)
    BY <1>1, <1>4, <1>5
  <2>3. q \in (p + 2)..MaxLen /\ \A j \in (p + 2)..q : str[j] # Nul
    BY <1>2, <1>4, <2>1, <2>2, StrchrFinds
  <2>4. q + 1 \in (p + 1)..(MaxLen + 1)
    BY <1>1, <1>4, <2>3
  <2>5. ASSUME NEW j \in p..q PROVE str[j] # Nul
    <3>1. j = p \/ j = p + 1 \/ j \in (p + 2)..q
      BY <1>4, <2>3
    <3> QED
      BY <1>3, <1>4, <2>3, <3>1
  <2>6. (q + 1) - 1 = q
    BY <2>3
  <2> QED
    BY <1>4, <2>1, <2>4, <2>5, <2>6
<1>7. CASE ~InBraces
  <2> DEFINE i == p + 1
             IsEnd(k) == str[k] \notin NameChars /\ \A j \in i..(k - 1) : str[j] \in NameChars
  <2>1. AfterReference = q /\ q = CHOOSE k \in i..(MaxLen + 1) : IsEnd(k)
    BY <1>7 DEF NameStart, q, AfterReference
  <2>2. i \in 1..MaxLen
    BY <1>5
  <2>3. str[MaxLen + 1] \notin NameChars
    BY <1>1, CharsAre
  <2>4. \E k \in i..(MaxLen + 1) : IsEnd(k)
    <3> DEFINE T == {k \in Nat : k \in i..(MaxLen + 1) /\ str[k] \notin NameChars}
    <3>1. PICK k \in T : \A j \in T : k <= j
      <4>1. MaxLen + 1 \in T /\ T \subseteq Nat
        BY <1>1, <2>2, <2>3
      <4> HIDE DEF T
      <4> QED
        BY <4>1, LeastNat
    <3>2. \A j \in i..(k - 1) : j \in Nat /\ j \in i..(MaxLen + 1) /\ ~(k <= j)
      BY <1>1, <2>2, <3>1
    <3>3. \A j \in i..(k - 1) : str[j] \in NameChars
      BY <3>1, <3>2
    <3>4. k \in i..(MaxLen + 1)
      BY <1>1, <2>2, <3>1
    <3> QED
      BY <3>1, <3>3, <3>4
  <2> DEFINE r == CHOOSE k \in i..(MaxLen + 1) : IsEnd(k)
  <2>5. r \in i..(MaxLen + 1) /\ IsEnd(r)
    BY <2>4, Zenon
  <2> HIDE DEF r
  <2>6. ASSUME NEW j \in p..(r - 1) PROVE str[j] # Nul
    <3>1. j = p \/ j \in i..(r - 1)
      BY <1>4
    <3>2. Nul \notin NameChars
      BY CharsAre
    <3> QED
      BY <1>3, <2>5, <3>1, <3>2
  <2> QED
    BY <1>4, <2>1, <2>5, <2>6 DEF r
<1> QED
  BY <1>6, <1>7

-----------------------------------------------------------------------------
(* Steps of substitute_vars.                                               *)

LEMMA KeptBySubstitute ==
    ASSUME NEW cs \in Str, Len(cs) <= MaxLen, Substitute(cs)
    PROVE  Kept' /\ s' \in 1..(MaxLen + 1)
<1>1. Len(cs) \in Nat /\ MaxLen \in Nat /\ \A j \in 1..Len(cs) : cs[j] \in Chars
  BY LenProperties, ElementOfSeq, CharsAre DEF Str
<1>2. str' = [i \in 1..(MaxLen + 1) |-> IF i <= Len(cs) THEN cs[i] ELSE Nul] /\ len' = Len(cs) /\ s' = 1
  BY DEF Substitute, Buffer
<1>3. DOMAIN str' = 1..(MaxLen + 1) /\ str'[MaxLen + 1] = Nul
  BY <1>1, <1>2
<1>4. \A j \in 1..(MaxLen + 1) : str'[j] \in Chars \cup {Nul}
  BY <1>1, <1>2
<1> QED
  BY <1>1, <1>2, <1>3, <1>4 DEF Kept

\* The value that replaces a reference, and what it does to the positions.
LEMMA ReplacementIs ==
    ASSUME Kept, TableKept, s \in 1..(MaxLen + 1), IsReference, IsKnown
    PROVE  /\ p \in 1..MaxLen /\ AfterReference \in (p + 1)..(MaxLen + 1)
           /\ len \in 0..MaxLen /\ MaxLen \in Nat
           /\ sub \in Str /\ Len(sub) \in Nat
           /\ diff = Len(sub) - (AfterReference - p) /\ diff \in Int
           /\ newlen = len + diff
<1>1. p \in 1..MaxLen /\ AfterReference \in (p + 1)..(MaxLen + 1)
  BY ReferenceInside
<1>2. len \in 0..MaxLen /\ MaxLen \in Nat
  BY CharsAre DEF Kept
<1>3. sub \in Str /\ Len(sub) \in Nat
  BY LenProperties DEF IsKnown, sub, TableKept, Str
<1>4. diff = Len(sub) - (AfterReference - p) /\ newlen = len + diff
  BY DEF diff, newlen
<1>5. diff \in Int
  BY <1>1, <1>3, <1>4
<1> QED
  BY <1>1, <1>2, <1>3, <1>4, <1>5

LEMMA KeptByReplace ==
    ASSUME BufferInv, ReplaceReference
    PROVE  Kept' /\ s' \in 1..(MaxLen + 1)
<1>1. Kept /\ s \in 1..(MaxLen + 1) /\ TableKept
  BY DEF BufferInv
<1>2. IsReference /\ IsKnown /\ Fits /\ ~RunsOver
  BY DEF ReplaceReference
<1>3. /\ p \in 1..MaxLen /\ AfterReference \in (p + 1)..(MaxLen + 1)
      /\ len \in 0..MaxLen /\ MaxLen \in Nat
      /\ sub \in Str /\ Len(sub) \in Nat
      /\ diff = Len(sub) - (AfterReference - p) /\ diff \in Int
      /\ newlen = len + diff
  BY <1>1, <1>2, ReplacementIs
<1>4. CASE diff = 0
  <2>1. s' = p /\ str' = str /\ len' = len
    BY <1>4 DEF ReplaceReference
  <2> QED
    BY <1>1, <1>3, <2>1 DEF Kept
<1>5. CASE diff # 0
  <2>1. s' = p + Len(sub) /\ str' = Replaced /\ len' = newlen
    BY <1>5 DEF ReplaceReference
  <2>2. newlen \in 0..MaxLen
    BY <1>2, <1>3, <1>5 DEF Fits
  <2>3. p + Len(sub) - 1 <= MaxLen
    BY <1>2, <1>3, <1>5 DEF RunsOver
  <2> DEFINE from == p
             upto == p + Len(sub) - 1
             rest == AfterReference + diff
  <2>4. /\ DOMAIN Replaced = DOMAIN str
        /\ \A i \in DOMAIN str : Replaced[i] =
              IF diff < 0 /\ i = newlen + 1 THEN Nul
              ELSE IF i \in from..upto THEN sub[i - from + 1]
              ELSE IF i \in rest..newlen THEN str[i - diff]
              ELSE str[i]
    BY DEF Replaced
  <2>5. from \in 1..MaxLen /\ upto <= MaxLen /\ upto = from + Len(sub) - 1 /\ rest \in Int
    BY <1>3, <2>3
  <2>6. ASSUME NEW i \in rest..newlen PROVE i - diff \in 1..(MaxLen + 1)
    BY <1>3, <2>2, <2>6
  <2> HIDE DEF from, upto, rest
  <2>7. /\ DOMAIN str = 1..(MaxLen + 1) /\ str[MaxLen + 1] = Nul
        /\ \A j \in 1..(MaxLen + 1) : str[j] \in Chars \cup {Nul}
    BY <1>1 DEF Kept
  <2>8. \A j \in 1..Len(sub) : sub[j] \in Chars
    BY <1>3, ElementOfSeq DEF Str
  <2>9. ASSUME NEW i \in 1..(MaxLen + 1) PROVE Replaced[i] \in Chars \cup {Nul}
    <3>1. ASSUME i \in from..upto PROVE i - from + 1 \in 1..Len(sub)
      BY <1>3, <2>5, <3>1
    <3>2. i \in from..upto => sub[i - from + 1] \in Chars
      BY <2>8, <3>1
    <3>3. i \in rest..newlen => str[i - diff] \in Chars \cup {Nul}
      BY <2>6, <2>7
    <3>4. str[i] \in Chars \cup {Nul}
      BY <2>7
    <3> QED
      BY <2>4, <2>7, <3>2, <3>3, <3>4, Zenon
  <2>10. Replaced[MaxLen + 1] = Nul
    <3>1. /\ MaxLen + 1 \in DOMAIN str
          /\ MaxLen + 1 \notin from..upto /\ MaxLen + 1 \notin rest..newlen
      BY <1>3, <2>2, <2>5, <2>7
    <3> QED
      BY <2>4, <2>7, <3>1, Zenon
  <2>11. Kept'
    BY <2>1, <2>2, <2>4, <2>7, <2>9, <2>10 DEF Kept
  <2>12. s' \in 1..(MaxLen + 1)
    BY <1>3, <2>1, <2>3
  <2> QED
    BY <2>11, <2>12
<1> QED
  BY <1>4, <1>5

LEMMA BufferSubstitutes ==
    ASSUME BufferInv, substitute_vars, Placed'
    PROVE  BufferInv'
<1>1. /\ eof \in BOOLEAN /\ can_break \in BOOLEAN /\ tokens \in Seq(Items)
      /\ Kept /\ s \in 1..(MaxLen + 1) /\ TableKept /\ ItemsFit
  BY DEF BufferInv
<1>2. eof' = eof /\ can_break' = can_break /\ tokens' = tokens /\ ItemsFit'
  <2>1. eof' = eof /\ can_break' = can_break /\ tokens' = tokens
    BY DEF substitute_vars, SkipReference, ReplaceReference, Overrun, SubstituteReturns, arrayVars
  <2> QED
    BY <1>1, <2>1 DEF ItemsFit
<1>3. CASE SkipReference
  <2>1. str' = str /\ len' = len /\ hash' = hash /\ s' = AfterReference /\ IsReference
    BY <1>3 DEF SkipReference
  <2>2. p \in 1..MaxLen /\ AfterReference \in (p + 1)..(MaxLen + 1)
    BY <1>1, <2>1, ReferenceInside
  <2>3. s' \in 1..(MaxLen + 1)
    BY <2>1, <2>2
  <2> QED
    BY <1>1, <1>2, <2>1, <2>3 DEF BufferInv, Kept, TableKept
<1>4. CASE ReplaceReference
  <2>1. Kept' /\ s' \in 1..(MaxLen + 1)
    BY <1>4, KeptByReplace
  <2>2. hash' = hash
    BY <1>4 DEF ReplaceReference
  <2> QED
    BY <1>1, <1>2, <2>1, <2>2 DEF BufferInv, TableKept
<1>5. CASE SubstituteReturns
  <2>1. str' = str /\ len' = len /\ s' = s
    BY <1>5 DEF SubstituteReturns, textVars
  <2>2. TableKept'
    <3>1. CASE hash' = hash
      BY <1>1, <3>1 DEF TableKept
    <3>2. CASE hash' = Insert(var, Text)
      <4>1. Text \in Str
        BY <1>1, KeptText
      <4>2. hash' = [x \in DOMAIN hash \cup {var} |-> IF x \in DOMAIN hash THEN hash[x] ELSE Text]
        BY <3>2 DEF Insert
      <4> HIDE DEF TableKept
      <4>3. ASSUME NEW x \in DOMAIN hash' PROVE hash'[x] \in Str
        <5>1. x \in DOMAIN hash \cup {var}
          BY <4>2
        <5>2. hash'[x] = IF x \in DOMAIN hash THEN hash[x] ELSE Text
          BY <4>2, <5>1, Zenon
        <5> QED
          BY <1>1, <4>1, <5>2, Zenon DEF TableKept
      <4> QED
        BY <4>3 DEF TableKept
    <3> QED
      BY <1>5, <3>1, <3>2 DEF SubstituteReturns
  <2> QED
    BY <1>1, <1>2, <2>1, <2>2 DEF BufferInv, Kept
<1>6. CASE Overrun
  <2>1. str' = str /\ len' = len /\ s' = s /\ hash' = hash
    BY <1>6 DEF Overrun, textVars
  <2> QED
    BY <1>1, <1>2, <2>1 DEF BufferInv, Kept, TableKept
<1> QED
  BY <1>3, <1>4, <1>5, <1>6 DEF substitute_vars

-----------------------------------------------------------------------------
(* What the rest of the reader puts into the buffer.                       *)

LEMMA LineFits ==
    ASSUME Placed, fgets
    PROVE  FitsBuffer(NextLine)
<1>1. file \in Files /\ NextLine = lines[at'] /\ at' \in DOMAIN lines
  <2>1. file \in Files
    BY DEF Placed
  <2> QED
    BY <2>1, NextLineIs, LinesAre
<1> QED
  BY <1>1, LinesFit DEF lines

LEMMA ArrayTextType ==
    ASSUME NEW items \in Seq(Items)
    PROVE  ArrayText(items) \in Seq(Pieces)
<1> DEFINE f == [i \in DOMAIN items |-> <<Lit("space")>> \o items[i].text]
<1>1. DOMAIN items = 1..Len(items) /\ Len(items) \in Nat
      /\ \A i \in 1..Len(items) : items[i] \in Items
  BY LenProperties, ElementOfSeq
<1>2. <<Lit("space")>> \in Seq(Pieces)
  BY CharsAre DEF Lit, Pieces
<1>3. ASSUME NEW i \in 1..Len(items)
      PROVE  <<Lit("space")>> \o items[i].text \in Seq(Pieces)
  <2>1. items[i].text \in Seq(Pieces)
    BY <1>1, ItemKinds
  <2> QED
    BY <1>2, <2>1, ConcatProperties
<1>4. f \in Seq(Seq(Pieces))
  BY <1>1, <1>3
<1> HIDE DEF f
<1>5. FlattenSeq(f) \in Seq(Pieces)
  BY <1>4, FlattenType
<1> QED
  BY <1>5 DEF ArrayText, f

\* A line has a first version condition if it has one.
LEMMA FirstConditionIs ==
    ASSUME NEW l \in Lines, HasItems(l), Conditions(l) # {}
    PROVE  FirstCondition(l) \in 1..Len(l.items) /\ Len(l.items) \in Nat /\ l.items \in Seq(Items)
<1>1. l.items \in Seq(Items) /\ Len(l.items) \in Nat /\ DOMAIN l.items = 1..Len(l.items)
  BY LineKinds, LenProperties
<1> DEFINE T == Conditions(l)
           IsFirst(k) == \A j \in T : k <= j
<1>2. T # {} /\ T \subseteq 1..Len(l.items)
  BY <1>1 DEF Conditions
<1>3. T \subseteq Nat
  BY <1>1, <1>2
<1> HIDE DEF T
<1>4. \E k \in T : IsFirst(k)
  BY <1>2, <1>3, LeastNat
<1>5. (CHOOSE k \in T : IsFirst(k)) \in T
  BY <1>4, Zenon
<1>6. FirstCondition(l) \in T
  BY <1>5 DEF FirstCondition, T
<1> QED
  BY <1>1, <1>2, <1>6

LEMMA ValueType ==
    ASSUME NEW l \in Lines, IsAssigned(l)
    PROVE  Value(l) \in Str
<1>1. CASE l.line = "array"
  <2>1. l.items \in Seq(Items)
    BY <1>1, LineKinds DEF HasItems
  <2>2. ArrayText(l.items) \in Seq(Pieces)
    BY <2>1, ArrayTextType
  <2> QED
    BY <1>1, <2>2, CellsType DEF Value
<1>2. CASE l.line = "assign"
  <2>1. Cells(l.text) \in Str
    BY <1>2, LineKinds, CellsType
  <2>2. <<"quote">> \in Str
    BY CharsAre DEF Str
  <2> QED
    BY <1>2, <2>1, <2>2 DEF Value, Str
<1>3. CASE l.line = "items"
  <2>1. FirstCondition(l) \in 1..Len(l.items) /\ Len(l.items) \in Nat /\ l.items \in Seq(Items)
    BY <1>3, FirstConditionIs DEF IsAssigned, HasItems
  <2>2. AfterCondition(l) \in Seq(Items)
    BY <2>1, SubSeqProperties DEF AfterCondition
  <2>3. Cells(ArrayText(AfterCondition(l))) \in Str
    BY <2>2, ArrayTextType, CellsType
  <2>4. <<"version">> \in Str
    BY CharsAre DEF Str
  <2> QED
    BY <1>3, <2>3, <2>4 DEF Value, Str
<1> QED
  BY <1>1, <1>2, <1>3 DEF IsAssigned

LEMMA BufferAssigns ==
    ASSUME BufferInv, Assign, Placed'
    PROVE  BufferInv'
<1>1. /\ Placed /\ can_break \in BOOLEAN /\ tokens \in Seq(Items) /\ ItemsFit /\ TableKept
  BY DEF BufferInv
<1>2. /\ fgets /\ Grabs /\ ~IsArrayOf(NextLine) /\ IsAssigned(NextLine)
      /\ Substitute(Value(NextLine)) /\ eof' = EofAfter(at')
      /\ hash' = hash /\ can_break' = can_break /\ tokens' = tokens
  BY DEF Assign, arrayVars, fgets
<1>3. NextLine \in Lines /\ FitsBuffer(NextLine)
  BY <1>1, <1>2, NextLineIs, LineFits
<1>4. Value(NextLine) \in Str /\ Len(Value(NextLine)) <= MaxLen
  BY <1>2, <1>3, ValueType DEF FitsBuffer, IsArrayOf
<1>5. Kept' /\ s' \in 1..(MaxLen + 1)
  BY <1>2, <1>4, KeptBySubstitute
<1>6. eof' \in BOOLEAN
  BY <1>2 DEF EofAfter
<1> QED
  BY <1>1, <1>2, <1>5, <1>6 DEF BufferInv, TableKept, ItemsFit

LEMMA BufferRests ==
    ASSUME BufferInv, Placed', UNCHANGED <<hash, textVars>>,
           eof' \in BOOLEAN, can_break' \in BOOLEAN, tokens' \in Seq(Items), ItemsFit'
    PROVE  BufferInv'
  BY DEF BufferInv, Kept, TableKept, textVars

LEMMA EofType == ASSUME fgets PROVE eof' \in BOOLEAN
  BY DEF fgets, EofAfter

LEMMA NoTokens == ASSUME tokens' = <<>> PROVE tokens' \in Seq(Items) /\ ItemsFit'
  BY DEF ItemsFit

LEMMA SameTokens ==
    ASSUME BufferInv, tokens' = tokens
    PROVE  tokens' \in Seq(Items) /\ ItemsFit'
  BY DEF BufferInv, ItemsFit

LEMMA LineTokens ==
    ASSUME Placed, fgets, HasItems(NextLine), tokens' = NextLine.items
    PROVE  tokens' \in Seq(Items) /\ ItemsFit'
<1>1. NextLine \in Lines /\ FitsBuffer(NextLine)
  BY NextLineIs, LineFits
<1>2. tokens' \in Seq(Items)
  BY <1>1, LineKinds
<1>3. DOMAIN NextLine.items = 1..Len(tokens')
  BY <1>2, LenProperties
<1> QED
  BY <1>1, <1>2, <1>3 DEF FitsBuffer, ItemsFit

LEMMA TailTokens ==
    ASSUME BufferInv, tokens # <<>>, tokens' = Tail(tokens)
    PROVE  tokens' \in Seq(Items) /\ ItemsFit'
<1>1. tokens \in Seq(Items) /\ ItemsFit
  BY DEF BufferInv
<1>2. /\ Tail(tokens) \in Seq(Items) /\ Len(Tail(tokens)) = Len(tokens) - 1 /\ Len(tokens) \in Nat
      /\ \A n \in 1..(Len(tokens) - 1) : Tail(tokens)[n] = tokens[n + 1] /\ n + 1 \in 1..Len(tokens)
  BY <1>1
<1> QED
  BY <1>1, <1>2 DEF ItemsFit

LEMMA EnterTokens ==
    ASSUME Placed, fgets, Opens(NextLine) \/ eof', EnterArray(NextLine.items)
    PROVE  tokens' \in Seq(Items) /\ ItemsFit' /\ can_break' \in BOOLEAN
<1>1. can_break' \in BOOLEAN
  BY DEF EnterArray
<1>2. CASE eof'
  BY <1>1, <1>2, NoTokens DEF EnterArray, AfterArray
<1>3. CASE ~eof'
  <2>1. HasItems(NextLine) /\ tokens' = NextLine.items
    BY <1>3 DEF EnterArray, Opens
  <2> QED
    BY <1>1, <2>1, LineTokens
<1> QED
  BY <1>2, <1>3

LEMMA BufferReadsToken ==
    ASSUME BufferInv, ReadToken, Placed'
    PROVE  BufferInv'
<1>1. /\ Placed /\ eof \in BOOLEAN /\ can_break \in BOOLEAN /\ tokens \in Seq(Items)
      /\ ItemsFit /\ TableKept
  BY DEF BufferInv
<1>2. tokens # <<>> /\ tokens' = Tail(tokens) /\ can_break' = (can_break \/ Head(tokens).close)
      /\ eof' = eof /\ hash' = hash
  BY DEF ReadToken
<1>3. tokens' \in Seq(Items) /\ ItemsFit'
  BY <1>2, TailTokens
<1>4. 1 \in 1..Len(tokens) /\ Head(tokens) = tokens[1] /\ tokens[1] \in Items
  <2>1. Len(tokens) \in Nat /\ Len(tokens) # 0
    BY <1>1, <1>2, LenProperties, EmptySeq
  <2> QED
    BY <1>1, <2>1, ElementOfSeq
<1>5. can_break' \in BOOLEAN
  <2>1. tokens[1].close \in BOOLEAN
    BY <1>4, ItemKinds
  <2> QED
    BY <1>2, <1>4, <2>1
<1>6. CASE Grabs
  <2>1. Element(tokens[1]) = Cells(tokens[1].text) \o <<>>
    BY <1>6 DEF Element
  <2>2. Cells(tokens[1].text) \in Str
    BY <1>4, ItemKinds, CellsType
  <2>3. Element(tokens[1]) = Cells(tokens[1].text)
    BY <2>1, <2>2, ConcatEmptySeq DEF Str
  <2>4. Len(Cells(tokens[1].text)) <= MaxLen
    BY <1>1, <1>4 DEF ItemsFit
  <2>5. Substitute(Cells(tokens[1].text))
    BY <1>4, <1>6, <2>3 DEF ReadToken
  <2>6. Kept' /\ s' \in 1..(MaxLen + 1)
    BY <2>2, <2>4, <2>5, KeptBySubstitute
  <2> QED
    BY <1>1, <1>2, <1>3, <1>5, <2>6 DEF BufferInv, TableKept
<1>7. CASE ~Grabs
  <2>1. UNCHANGED <<hash, textVars>>
    BY <1>2, <1>7 DEF ReadToken
  <2> QED
    BY <1>1, <1>2, <1>3, <1>5, <2>1, BufferRests
<1> QED
  BY <1>6, <1>7

LEMMA BufferInit == PkgbuildInit => BufferInv
<1> SUFFICES ASSUME PkgbuildInit PROVE BufferInv
  OBVIOUS
<1>1. Placed
  BY PlacedInit
<1>2. /\ eof = FALSE /\ can_break = FALSE /\ tokens = <<>> /\ hash = <<>> /\ s = 1 /\ len = 0
      /\ str = [i \in 1..(MaxLen + 1) |-> IF i <= Len(<<>>) THEN <<>>[i] ELSE Nul]
  BY DEF PkgbuildInit, Buffer
<1>3. MaxLen \in Nat
  BY CharsAre
<1>4. Kept /\ s \in 1..(MaxLen + 1)
  BY <1>2, <1>3 DEF Kept
<1>5. ItemsFit /\ TableKept
  BY <1>2 DEF ItemsFit, TableKept
<1>6. eof \in BOOLEAN /\ can_break \in BOOLEAN /\ tokens \in Seq(Items)
  BY <1>2, EmptySeq
<1> QED
  BY <1>1, <1>4, <1>5, <1>6 DEF BufferInv

LEMMA BufferStep == BufferInv /\ [PkgbuildStep]_pkgbuildVars => BufferInv'
<1> SUFFICES ASSUME BufferInv, [PkgbuildStep]_pkgbuildVars PROVE BufferInv'
  OBVIOUS
<1>0. Placed /\ eof \in BOOLEAN /\ can_break \in BOOLEAN
  BY DEF BufferInv
<1>1. Placed'
  BY <1>0, PlacedStep
<1>2. CASE FileEnds
  <2>1. UNCHANGED <<hash, textVars, tokens, can_break>> /\ eof' = TRUE
    BY <1>2 DEF FileEnds, arrayVars
  <2> QED
    BY <1>0, <1>1, <2>1, SameTokens, BufferRests
<1>3. CASE StopAtBuild \/ SkipLine
  <2>1. UNCHANGED <<hash, textVars, tokens, can_break>> /\ fgets
    BY <1>3 DEF StopAtBuild, SkipLine, arrayVars
  <2> QED
    BY <1>0, <1>1, <2>1, EofType, SameTokens, BufferRests
<1>4. CASE Assign
  BY <1>1, <1>4, BufferAssigns
<1>5. CASE BeginArray
  <2>1. UNCHANGED <<hash, textVars>> /\ fgets
    BY <1>5 DEF BeginArray
  <2>2. tokens' \in Seq(Items) /\ ItemsFit' /\ can_break' \in BOOLEAN
    <3>1. CASE Opens(NextLine)
      BY <1>0, <1>5, <3>1, EnterTokens DEF BeginArray
    <3>2. CASE ~Opens(NextLine)
      BY <1>0, <1>5, <3>2, SameTokens DEF BeginArray
    <3> QED
      BY <3>1, <3>2
  <2> QED
    BY <1>1, <2>1, <2>2, EofType, BufferRests
<1>6. CASE FindParen
  <2>1. UNCHANGED <<hash, textVars>> /\ fgets
    BY <1>6 DEF FindParen
  <2>2. tokens' \in Seq(Items) /\ ItemsFit' /\ can_break' \in BOOLEAN
    <3>1. CASE eof' \/ Opens(NextLine)
      BY <1>0, <1>6, <3>1, EnterTokens DEF FindParen
    <3>2. CASE ~(eof' \/ Opens(NextLine))
      BY <1>0, <1>6, <3>2, SameTokens DEF FindParen
    <3> QED
      BY <3>1, <3>2
  <2> QED
    BY <1>1, <2>1, <2>2, EofType, BufferRests
<1>7. CASE ParenNotFound
  <2>1. UNCHANGED <<hash, textVars, can_break>> /\ eof' = TRUE /\ tokens' = <<>>
    BY <1>7 DEF ParenNotFound, AfterArray
  <2> QED
    BY <1>0, <1>1, <2>1, NoTokens, BufferRests
<1>8. CASE NextArrayLine
  <2>1. UNCHANGED <<hash, textVars, can_break>> /\ eof' \in BOOLEAN
    BY <1>8, EofType DEF NextArrayLine
  <2>2. tokens' \in Seq(Items) /\ ItemsFit'
    <3>1. CASE eof' \/ can_break
      BY <1>8, <3>1, NoTokens DEF NextArrayLine, AfterArray
    <3>2. CASE ~(eof' \/ can_break)
      <4>1. fgets /\ tokens' = (IF HasItems(NextLine) THEN NextLine.items ELSE <<>>)
        BY <1>8, <3>2 DEF NextArrayLine
      <4> QED
        BY <1>0, <4>1, LineTokens, NoTokens
    <3> QED
      BY <3>1, <3>2
  <2> QED
    BY <1>0, <1>1, <2>1, <2>2, BufferRests
<1>9. CASE SkipToken
  <2>1. UNCHANGED <<hash, textVars, eof>> /\ tokens # <<>>
    BY <1>9 DEF SkipToken
  <2>2. tokens' = <<>> \/ tokens' = Tail(tokens)
    BY <1>9 DEF SkipToken
  <2>3. can_break' \in BOOLEAN
    BY <1>0, <1>9 DEF SkipToken
  <2> QED
    BY <1>0, <1>1, <2>1, <2>2, <2>3, NoTokens, TailTokens, BufferRests
<1>10. CASE ReadToken
  BY <1>1, <1>10, BufferReadsToken
<1>11. CASE substitute_vars
  BY <1>1, <1>11, BufferSubstitutes
<1>12. CASE UNCHANGED pkgbuildVars
  <2>1. UNCHANGED <<hash, textVars, eof, tokens, can_break>>
    BY <1>12 DEF pkgbuildVars, arrayVars
  <2> QED
    BY <1>0, <1>1, <2>1, SameTokens, BufferRests
<1> QED
  BY <1>2, <1>3, <1>4, <1>5, <1>6, <1>7, <1>8, <1>9, <1>10, <1>11, <1>12
     DEF PkgbuildStep, ReadFile, ReadArray

\* What the length says holds up to where the reference ends, so that the new
\* length is the end of the value at least.
LEMMA OverrunRegrows ==
    ASSUME BufferInv, Overrun
    PROVE  Regrows
<1>1. Kept /\ s \in 1..(MaxLen + 1) /\ TableKept
  BY DEF BufferInv
<1>2. pc = "substitute" /\ IsReference /\ IsKnown /\ Fits /\ RunsOver
  BY DEF Overrun
<1>3. /\ p \in 1..MaxLen /\ AfterReference \in (p + 1)..(MaxLen + 1)
      /\ len \in 0..MaxLen /\ MaxLen \in Nat
      /\ Len(sub) \in Nat
      /\ diff = Len(sub) - (AfterReference - p) /\ diff \in Int
      /\ newlen = len + diff
  BY <1>1, <1>2, ReplacementIs
<1>4. diff > 0 /\ newlen <= MaxLen /\ p + Len(sub) - 1 > MaxLen
  BY <1>2, <1>3 DEF RunsOver, Fits
<1>5. AfterReference - 1 > len
  BY <1>3, <1>4
<1>6. AfterReference - 1 \in (len + 1)..(MaxLen + 1) /\ AfterReference - 1 \in p..(AfterReference - 1)
  BY <1>3, <1>5
<1>7. str[AfterReference - 1] # Nul
  BY <1>1, <1>2, <1>6, ReferenceInside
<1>8. ~Zeros
  BY <1>6, <1>7 DEF Zeros
<1> QED
  BY <1>2, <1>4, <1>8 DEF Regrows

\* No other step ends there.
LEMMA OnlyOverrun ==
    ASSUME PkgbuildStep, pc' = "overrun"
    PROVE  Overrun
<1>1. CASE ReadFile
  BY <1>1 DEF ReadFile, FileEnds, StopAtBuild, SkipLine, Assign, Substitute, BeginArray, EnterArray, AfterArray
<1>2. CASE ReadArray
  BY <1>2 DEF ReadArray, FindParen, ParenNotFound, NextArrayLine, SkipToken, ReadToken, Substitute,
              EnterArray, AfterArray
<1>3. CASE substitute_vars
  BY <1>3 DEF substitute_vars, SkipReference, ReplaceReference, SubstituteReturns
<1> QED
  BY <1>1, <1>2, <1>3 DEF PkgbuildStep

\* package.c:93-158: whatever the PKGBUILD assigns, the buffer keeps its last nul and
\* the length and the search stay in it, up to the step that overruns it, if one does.
THEOREM StaysUntilOverrun == PkgbuildSpec => []PkgbuildTypeOK
<1>1. PkgbuildSpec => []BufferInv
  BY BufferInit, BufferStep, PTL DEF PkgbuildSpec
<1> QED
  BY <1>1, BufferInvSafe, PTL

\* package.c:102 and 142: the test newlen > maxlen is enough for every text but one
\* that grows after it has shrunk; only there can a value be copied past the end.
THEOREM OverrunOnlyRegrown == PkgbuildSpec => OverrunsOnlyRegrown
<1>1. BufferInv /\ [PkgbuildStep]_pkgbuildVars => [pc' = "overrun" => Regrows]_pkgbuildVars
  BY OverrunRegrows, OnlyOverrun
<1>2. PkgbuildSpec => []BufferInv
  BY BufferInit, BufferStep, PTL DEF PkgbuildSpec
<1> QED
  BY <1>1, <1>2, PTL DEF PkgbuildSpec, OverrunsOnlyRegrown
=============================================================================
