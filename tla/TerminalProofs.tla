--------------------------- MODULE TerminalProofs ---------------------------
(***************************************************************************)
(* What the terminal keeps for every size of its buffers, caps and boxes:  *)
(* the prompt (Prompt) never breaks a label and never loses the text of a  *)
(* paste that is still in the line, and the log (Screen) shows the end of  *)
(* every stream, each delta once, in rows that fill its box.               *)
(*                                                                         *)
(* Both speak of sequences of sequences: the cells that a key prints, the  *)
(* texts of the lines of one kind, the rows of the log.  The first part    *)
(* says what flattening them does when one is added, dropped or grown.     *)
(***************************************************************************)
EXTENDS Prompt, Screen, Integers, SequenceTheorems, WellFoundedInduction, TLAPS

(* Flattening. *)

LEMMA LeastElement ==
  ASSUME NEW T \in SUBSET Nat, T # {}
  PROVE  \E x \in T : \A y \in T : x <= y
<1>1. \E x \in T : \A y \in T : ~ (<<y, x>> \in OpToRel(<, Nat))
  BY WFMin, NatLessThanWellFounded
<1>2. \A x, y \in Nat : ~ (<<y, x>> \in OpToRel(<, Nat)) => x <= y
  BY DEF OpToRel
<1> QED BY <1>1, <1>2

\* Induction, for a set of numbers.
LEMMA AllNumbers ==
  ASSUME NEW T \in SUBSET Nat, 0 \in T, \A n \in T : n + 1 \in T
  PROVE  T = Nat
<1> SUFFICES ASSUME T # Nat PROVE FALSE
  OBVIOUS
<1>1. (Nat \ T) \in SUBSET Nat /\ Nat \ T # {}
  OBVIOUS
<1>2. PICK x \in Nat \ T : \A y \in Nat \ T : x <= y
  BY <1>1, LeastElement
<1>3. x # 0 /\ x - 1 \in Nat /\ ~ (x <= x - 1) /\ (x - 1) + 1 = x
  OBVIOUS
<1>4. x - 1 \in T
  BY <1>2, <1>3
<1> QED BY <1>3, <1>4

-----------------------------------------------------------------------------
(* Flattening.  FlattenSeq picks a function of partial concatenations; there is one, and its
   values are sequences. *)

Joined(s, f, i) == IF i = 1 THEN s[i] ELSE f[i - 1] \o s[i]
Joins(s, f, n)  == f = [i \in 1 .. n |-> Joined(s, f, i)]

LEMMA JoinsExist ==
  ASSUME NEW s, NEW n \in Nat
  PROVE  \E f : Joins(s, f, n)
<1> DEFINE T == {m \in Nat : \E f : Joins(s, f, m)}
<1>1. 0 \in T
  <2> DEFINE f == [i \in 1 .. 0 |-> s[i]]
  <2>1. f = [i \in 1 .. 0 |-> Joined(s, f, i)]
    OBVIOUS
  <2> HIDE DEF f
  <2> QED BY <2>1 DEF Joins, Joined
<1>2. ASSUME NEW m \in T PROVE m + 1 \in T
  <2>1. PICK f : Joins(s, f, m)
    OBVIOUS
  <2>m. m \in Nat
    OBVIOUS
  <2> HIDE DEF T
  <2> DEFINE last == IF m = 0 THEN s[1] ELSE f[m] \o s[m + 1]
  <2>2. (m = 0 => last = s[1]) /\ (m # 0 => last = f[m] \o s[m + 1])
    OBVIOUS
  <2> HIDE DEF last
  <2> DEFINE g == [i \in 1 .. m + 1 |-> IF i <= m THEN f[i] ELSE last]
  <2>3. /\ g = [i \in 1 .. m + 1 |-> g[i]]
        /\ \A i \in 1 .. m : g[i] = f[i]
        /\ g[m + 1] = last
    BY <2>m
  <2> HIDE DEF g
  <2>4. ASSUME NEW i \in 1 .. m + 1 PROVE g[i] = Joined(s, g, i)
    <3>1. CASE i <= m
      <4>1. i \in 1 .. m /\ (i # 1 => i - 1 \in 1 .. m)
        BY <2>m, <3>1
      <4>2. f[i] = IF i = 1 THEN s[i] ELSE f[i - 1] \o s[i]
        BY <2>1, <4>1 DEF Joins, Joined
      <4> QED BY <2>3, <4>1, <4>2 DEF Joined
    <3>2. CASE i = m + 1
      <4>1. m = 0 => i = 1
        BY <3>2
      <4>2. m # 0 => i # 1 /\ i - 1 = m /\ m \in 1 .. m
        BY <2>m, <3>2
      <4>3. m # 0 => g[i - 1] = f[m]
        BY <2>3, <4>2
      <4> QED BY <2>3, <2>2, <3>2, <4>1, <4>2, <4>3 DEF Joined
    <3> QED BY <2>m, <3>1, <3>2
  <2>5. g = [i \in 1 .. m + 1 |-> Joined(s, g, i)]
    BY <2>3, <2>4
  <2> QED BY <2>m, <2>5 DEF Joins, T
<1> HIDE DEF T
<1>3. T = Nat
  <2>1. T \in SUBSET Nat
    BY DEF T
  <2> QED BY <1>1, <1>2, <2>1, AllNumbers
<1> QED BY <1>3 DEF T

LEMMA JoinsAreSequences ==
  ASSUME NEW S, NEW s \in Seq(Seq(S)), NEW n \in Nat, n <= Len(s), NEW f, Joins(s, f, n)
  PROVE  \A i \in 1 .. n : f[i] \in Seq(S)
<1> DEFINE T == {m \in Nat : m + 1 <= n => f[m + 1] \in Seq(S)}
<1>1. Len(s) \in Nat /\ \A i \in 1 .. Len(s) : s[i] \in Seq(S)
  BY ElementOfSeq
<1>2. 0 \in T
  BY <1>1 DEF Joins, Joined
<1>3. ASSUME NEW m \in T PROVE m + 1 \in T
  <2> SUFFICES ASSUME (m + 1) + 1 <= n PROVE f[(m + 1) + 1] \in Seq(S)
    OBVIOUS
  <2>1. (m + 1) + 1 \in 1 .. n /\ (m + 1) + 1 \in 1 .. Len(s) /\ (m + 1) + 1 # 1
        /\ ((m + 1) + 1) - 1 = m + 1 /\ m + 1 <= n
    BY <1>1
  <2>2. f[(m + 1) + 1] = f[m + 1] \o s[(m + 1) + 1]
    BY <2>1 DEF Joins, Joined
  <2> QED BY <1>1, <2>1, <2>2
<1>4. T = Nat
  <2>1. T \in SUBSET Nat
    OBVIOUS
  <2> HIDE DEF T
  <2> QED BY <1>2, <1>3, <2>1, AllNumbers
<1>5. ASSUME NEW i \in 1 .. n PROVE f[i] \in Seq(S)
  <2>1. i - 1 \in Nat /\ (i - 1) + 1 = i /\ i <= n
    OBVIOUS
  <2>2. i - 1 \in T
    BY <1>4, <2>1
  <2> QED BY <2>1, <2>2
<1> QED BY <1>5

LEMMA FlattenJoins ==
  ASSUME NEW s, NEW n \in Nat \ {0}, Len(s) = n
  PROVE  \E f : Joins(s, f, n) /\ FlattenSeq(s) = f[n]
<1> DEFINE join == CHOOSE f : Joins(s, f, Len(s))
<1>1. FlattenSeq(s) = join[Len(s)]
  BY DEF FlattenSeq, Joins, Joined
<1>2. Joins(s, join, Len(s))
  BY JoinsExist
<1> QED BY <1>1, <1>2

LEMMA FlattenIsSeq ==
  ASSUME NEW S, NEW s \in Seq(Seq(S))
  PROVE  FlattenSeq(s) \in Seq(S)
<1>1. Len(s) \in Nat
  OBVIOUS
<1>2. CASE Len(s) = 0
  <2>1. FlattenSeq(s) = s
    BY <1>2, Zenon DEF FlattenSeq
  <2>2. s = <<>>
    BY <1>2
  <2> QED BY <2>1, <2>2
<1>3. CASE Len(s) # 0
  <2>1. PICK f : Joins(s, f, Len(s)) /\ FlattenSeq(s) = f[Len(s)]
    BY <1>1, <1>3, FlattenJoins
  <2>2. \A i \in 1 .. Len(s) : f[i] \in Seq(S)
    BY <1>1, <2>1, JoinsAreSequences
  <2> QED BY <1>1, <1>3, <2>1, <2>2
<1> QED BY <1>2, <1>3

\* Two functions of partial concatenations agree where the sequences do.
LEMMA JoinsAgree ==
  ASSUME NEW s, NEW t, NEW f, NEW g, NEW m \in Nat, NEW n \in Nat, m <= n,
         Joins(s, f, m), Joins(t, g, n), \A i \in 1 .. m : s[i] = t[i]
  PROVE  \A i \in 1 .. m : f[i] = g[i]
<1> DEFINE T == {j \in Nat : j + 1 <= m => f[j + 1] = g[j + 1]}
<1>1. 0 \in T
  <2> SUFFICES ASSUME 1 <= m PROVE f[1] = g[1]
    OBVIOUS
  <2>1. 1 \in 1 .. m /\ 1 \in 1 .. n
    OBVIOUS
  <2> QED BY <2>1 DEF Joins, Joined
<1>2. ASSUME NEW j \in T PROVE j + 1 \in T
  <2> SUFFICES ASSUME (j + 1) + 1 <= m PROVE f[(j + 1) + 1] = g[(j + 1) + 1]
    OBVIOUS
  <2>1. (j + 1) + 1 \in 1 .. m /\ (j + 1) + 1 \in 1 .. n /\ (j + 1) + 1 # 1
        /\ ((j + 1) + 1) - 1 = j + 1 /\ j + 1 <= m
    OBVIOUS
  <2>2. f[(j + 1) + 1] = f[j + 1] \o s[(j + 1) + 1] /\ g[(j + 1) + 1] = g[j + 1] \o t[(j + 1) + 1]
    BY <2>1 DEF Joins, Joined
  <2> QED BY <2>1, <2>2
<1>3. T = Nat
  <2>1. T \in SUBSET Nat
    OBVIOUS
  <2> HIDE DEF T
  <2> QED BY <1>1, <1>2, <2>1, AllNumbers
<1>4. ASSUME NEW i \in 1 .. m PROVE f[i] = g[i]
  <2>1. i - 1 \in Nat /\ (i - 1) + 1 = i /\ i <= m
    OBVIOUS
  <2>2. i - 1 \in T
    BY <1>3, <2>1
  <2> QED BY <2>1, <2>2
<1> QED BY <1>4

LEMMA FlattenEmpty ==
  FlattenSeq(<<>>) = <<>>
BY DEF FlattenSeq

LEMMA FlattenOne ==
  ASSUME NEW s, Len(s) = 1
  PROVE  FlattenSeq(s) = s[1]
<1>1. ASSUME NEW n \in Nat \ {0}, n = 1 PROVE \E f : Joins(s, f, n) /\ FlattenSeq(s) = f[n]
  BY <1>1, FlattenJoins
<1>2. PICK f : Joins(s, f, 1) /\ FlattenSeq(s) = f[1]
  BY <1>1
<1> QED BY <1>2 DEF Joins, Joined

\* What is appended is flattened at the end.
LEMMA FlattenLonger ==
  ASSUME NEW s, NEW t, NEW n \in Nat \ {0}, Len(s) = n, Len(t) = n + 1, \A i \in 1 .. n : s[i] = t[i]
  PROVE  FlattenSeq(t) = FlattenSeq(s) \o t[n + 1]
<1>1. PICK f : Joins(s, f, n) /\ FlattenSeq(s) = f[n]
  BY FlattenJoins
<1>2. PICK g : Joins(t, g, n + 1) /\ FlattenSeq(t) = g[n + 1]
  BY FlattenJoins
<1>3. \A i \in 1 .. n : f[i] = g[i]
  BY <1>1, <1>2, JoinsAgree
<1>4. n + 1 \in 1 .. n + 1 /\ n + 1 # 1 /\ (n + 1) - 1 = n /\ n \in 1 .. n
  OBVIOUS
<1>5. g[n + 1] = g[n] \o t[n + 1]
  BY <1>2, <1>4 DEF Joins, Joined
<1> QED BY <1>1, <1>2, <1>3, <1>4, <1>5

LEMMA FlattenAppend ==
  ASSUME NEW S, NEW s \in Seq(Seq(S)), NEW x \in Seq(S)
  PROVE  FlattenSeq(Append(s, x)) = FlattenSeq(s) \o x
<1> DEFINE t == Append(s, x)
<1>1. /\ Len(s) \in Nat /\ Len(t) = Len(s) + 1
      /\ \A i \in 1 .. Len(s) : s[i] = t[i]
      /\ t[Len(s) + 1] = x
  OBVIOUS
<1> HIDE DEF t
<1>2. CASE Len(s) = 0
  <2>1. s = <<>>
    BY <1>2
  <2>2. FlattenSeq(t) = x
    BY <1>1, <1>2, FlattenOne
  <2> QED BY <2>1, <2>2, FlattenEmpty DEF t
<1>3. CASE Len(s) # 0
  <2>1. FlattenSeq(t) = FlattenSeq(s) \o t[Len(s) + 1]
    BY <1>1, <1>3, FlattenLonger
  <2> QED BY <1>1, <2>1 DEF t
<1> QED BY <1>2, <1>3

\* Induction over the places of a sequence.
LEMMA OneByOne ==
  ASSUME NEW n \in Nat, NEW T, 1 \in T, \A i \in 1 .. n : i # 1 /\ i - 1 \in T => i \in T
  PROVE  \A i \in 1 .. n : i \in T
<1> DEFINE R == {j \in Nat : j + 1 <= n => j + 1 \in T}
<1>1. 0 \in R
  OBVIOUS
<1>2. ASSUME NEW j \in R PROVE j + 1 \in R
  <2> SUFFICES ASSUME (j + 1) + 1 <= n PROVE (j + 1) + 1 \in T
    OBVIOUS
  <2>1. (j + 1) + 1 \in 1 .. n /\ (j + 1) + 1 # 1 /\ ((j + 1) + 1) - 1 = j + 1 /\ j + 1 <= n
    OBVIOUS
  <2>2. j + 1 \in T
    BY <2>1
  <2> QED BY <2>1, <2>2
<1>3. R = Nat
  <2>1. R \in SUBSET Nat
    OBVIOUS
  <2> HIDE DEF R
  <2> QED BY <1>1, <1>2, <2>1, AllNumbers
<1>4. ASSUME NEW i \in 1 .. n PROVE i \in T
  <2>1. i - 1 \in Nat /\ (i - 1) + 1 = i /\ i <= n
    OBVIOUS
  <2>2. i - 1 \in R
    BY <1>3, <2>1
  <2> QED BY <2>1, <2>2
<1> QED BY <1>4

\* Concatenation, as a name of its own.
Cat(a, b) == a \o b

LEMMA CatIs ==
  ASSUME NEW S
  PROVE  /\ \A u, v, w \in Seq(S) : Cat(Cat(u, v), w) = Cat(u, Cat(v, w))
         /\ \A u, v \in Seq(S) : Cat(u, v) \in Seq(S) /\ Len(Cat(u, v)) = Len(u) + Len(v)
         /\ \A u \in Seq(S) : Cat(u, <<>>) = u /\ Cat(<<>>, u) = u
         /\ \A u \in Seq(S) : Len(u) \in Nat
<1>1. \A u, v, w \in Seq(S) : (u \o v) \o w = u \o (v \o w)
  BY ConcatAssociative
<1>2. \A u, v \in Seq(S) : u \o v \in Seq(S) /\ Len(u \o v) = Len(u) + Len(v)
  BY ConcatProperties
<1>3. \A u \in Seq(S) : u \o <<>> = u /\ <<>> \o u = u
  BY ConcatEmptySeq
<1>4. \A u \in Seq(S) : Len(u) \in Nat
  BY LenProperties
<1> QED BY <1>1, <1>2, <1>3, <1>4 DEF Cat

\* The partial concatenations of n sequences.
Partial(S, s, f, n) ==
  /\ \A i \in 1 .. n : f[i] \in Seq(S) /\ s[i] \in Seq(S)
  /\ f[1] = s[1]
  /\ \A i \in 1 .. n : i # 1 => f[i] = Cat(f[i - 1], s[i])

LEMMA FlattenOf ==
  ASSUME NEW S, NEW s \in Seq(Seq(S)), NEW n \in Nat \ {0}, Len(s) = n
  PROVE  \E f : Partial(S, s, f, n) /\ FlattenSeq(s) = f[n]
<1>1. PICK f : Joins(s, f, n) /\ FlattenSeq(s) = f[n]
  BY FlattenJoins
<1>2. \A i \in 1 .. n : f[i] \in Seq(S)
  BY <1>1, JoinsAreSequences
<1>3. \A i \in 1 .. n : s[i] \in Seq(S)
  BY ElementOfSeq
<1>4. ASSUME NEW i \in 1 .. n PROVE f[i] = IF i = 1 THEN s[i] ELSE f[i - 1] \o s[i]
  BY <1>1 DEF Joins, Joined
<1>5. Partial(S, s, f, n)
  <2>1. 1 \in 1 .. n
    OBVIOUS
  <2>2. f[1] = s[1]
    BY <1>4, <2>1
  <2> QED BY <1>2, <1>3, <1>4, <2>2 DEF Partial, Cat
<1> QED BY <1>1, <1>5

\* Nothing flattens to nothing.
LEMMA PartialNone ==
  ASSUME NEW S, NEW s, NEW f, NEW n \in Nat \ {0}, Partial(S, s, f, n), \A i \in 1 .. n : s[i] = <<>>
  PROVE  f[n] = <<>>
<1> DEFINE T == {i \in 1 .. n : f[i] = <<>>}
<1>1. 1 \in T
  BY DEF Partial
<1>2. ASSUME NEW i \in 1 .. n, i # 1, i - 1 \in T PROVE i \in T
  <2>1. f[i] = <<>> \o <<>>
    BY <1>2 DEF Partial, Cat
  <2> QED BY <2>1
<1> HIDE DEF T
<1>3. n \in T
  <2>1. \A i \in 1 .. n : i \in T
    BY <1>1, <1>2, OneByOne
  <2> QED BY <2>1
<1> QED BY <1>3 DEF T

LEMMA FlattenNone ==
  ASSUME NEW S, NEW s \in Seq(Seq(S)), \A i \in 1 .. Len(s) : s[i] = <<>>
  PROVE  FlattenSeq(s) = <<>>
<1>1. Len(s) \in Nat
  OBVIOUS
<1>2. CASE Len(s) = 0
  <2>1. s = <<>>
    BY <1>2
  <2> QED BY <2>1, FlattenEmpty
<1>3. ASSUME NEW n \in Nat \ {0}, n = Len(s) PROVE FlattenSeq(s) = <<>>
  <2>1. PICK f : Partial(S, s, f, n) /\ FlattenSeq(s) = f[n]
    BY <1>3, FlattenOf
  <2>2. f[n] = <<>>
    BY <1>3, <2>1, PartialNone
  <2> QED BY <2>1, <2>2
<1> QED BY <1>1, <1>2, <1>3

Shifted(s, t, n)     == \A i \in 1 .. n : t[i] = s[i + 1]
LongerAt(s, t, n, x, b) ==
  /\ x \in 1 .. n /\ t[x] = Cat(s[x], b)
  /\ \A i \in 1 .. n : i # x => t[i] = s[i]
  /\ \A i \in 1 .. n : i > x => s[i] = <<>>

\* The first of the sequences comes first.
LEMMA PartialFirst ==
  ASSUME NEW S, NEW s, NEW f, NEW t, NEW g, NEW n \in Nat \ {0},
         Partial(S, s, f, n + 1), Partial(S, t, g, n), Shifted(s, t, n)
  PROVE  f[n + 1] = Cat(s[1], g[n])
<1>a. \A u, v, w \in Seq(S) : Cat(Cat(u, v), w) = Cat(u, Cat(v, w))
  BY CatIs
<1> DEFINE T == {i \in 1 .. n : f[i + 1] = Cat(s[1], g[i])}
<1>0. s[1] \in Seq(S)
  <2>1. 1 \in 1 .. n + 1
    OBVIOUS
  <2> QED BY <2>1 DEF Partial
<1>1. 1 \in T
  <2>1. 1 \in 1 .. n /\ 1 + 1 \in 1 .. n + 1 /\ 1 + 1 # 1 /\ (1 + 1) - 1 = 1
    OBVIOUS
  <2>2. f[1 + 1] = Cat(f[1], s[1 + 1]) /\ f[1] = s[1] /\ g[1] = t[1] /\ t[1] = s[1 + 1]
    BY <2>1 DEF Partial, Shifted
  <2>3. f[1 + 1] = Cat(s[1], g[1])
    BY <2>2
  <2> QED BY <2>1, <2>3
<1>2. ASSUME NEW i \in 1 .. n, i # 1, i - 1 \in T PROVE i \in T
  <2>1. i - 1 \in 1 .. n /\ (i - 1) + 1 = i /\ i + 1 \in 1 .. n + 1 /\ i + 1 # 1 /\ (i + 1) - 1 = i
    BY <1>2
  <2>2. f[i] = Cat(s[1], g[i - 1])
    BY <1>2, <2>1
  <2>3. f[i + 1] = Cat(f[i], t[i])
    BY <2>1 DEF Partial, Shifted
  <2>4. g[i] = Cat(g[i - 1], t[i]) /\ g[i - 1] \in Seq(S) /\ t[i] \in Seq(S)
    BY <1>2, <2>1 DEF Partial
  <2>5. Cat(Cat(s[1], g[i - 1]), t[i]) = Cat(s[1], Cat(g[i - 1], t[i]))
    BY <1>0, <1>a, <2>4, Zenon
  <2>6. f[i + 1] = Cat(s[1], g[i])
    BY <2>2, <2>3, <2>4, <2>5, Zenon
  <2> QED BY <2>6
<1> HIDE DEF T
<1>3. n \in T
  <2>1. \A i \in 1 .. n : i \in T
    BY <1>1, <1>2, OneByOne
  <2> QED BY <2>1
<1> QED BY <1>3 DEF T

LEMMA FlattenFirst ==
  ASSUME NEW S, NEW s \in Seq(Seq(S)), NEW t \in Seq(Seq(S)), Len(s) = Len(t) + 1,
         \A i \in 1 .. Len(t) : t[i] = s[i + 1]
  PROVE  FlattenSeq(s) = s[1] \o FlattenSeq(t)
<1>1. Len(t) \in Nat /\ s[1] \in Seq(S)
  <2>1. Len(t) \in Nat /\ 1 \in 1 .. Len(s)
    OBVIOUS
  <2> QED BY <2>1, ElementOfSeq
<1>2. CASE Len(t) = 0
  <2>1. t = <<>>
    BY <1>2
  <2>2. FlattenSeq(s) = s[1]
    BY <1>2, FlattenOne
  <2>3. s[1] \o <<>> = s[1]
    BY <1>1, ConcatEmptySeq
  <2> QED BY <2>1, <2>2, <2>3, FlattenEmpty
<1>3. ASSUME NEW n \in Nat \ {0}, n = Len(t) PROVE FlattenSeq(s) = s[1] \o FlattenSeq(t)
  <2>1. PICK g : Partial(S, t, g, n) /\ FlattenSeq(t) = g[n]
    BY <1>3, FlattenOf
  <2>2. ASSUME NEW m \in Nat \ {0}, m = n + 1
        PROVE  \E f : Partial(S, s, f, m) /\ FlattenSeq(s) = f[m]
    BY <1>3, <2>2, FlattenOf
  <2>3. PICK f : Partial(S, s, f, n + 1) /\ FlattenSeq(s) = f[n + 1]
    BY <2>2
  <2>4. Shifted(s, t, n)
    BY <1>3 DEF Shifted
  <2>5. f[n + 1] = Cat(s[1], g[n])
    BY <2>1, <2>3, <2>4, PartialFirst
  <2> QED BY <2>1, <2>3, <2>5 DEF Cat
<1> QED BY <1>1, <1>2, <1>3

\* What is added to the last of the sequences that holds anything is added to the whole.
LEMMA PartialGrown ==
  ASSUME NEW S, NEW s, NEW f, NEW t, NEW g, NEW n \in Nat \ {0}, Partial(S, s, f, n), Partial(S, t, g, n),
         NEW b \in Seq(S), NEW x, LongerAt(s, t, n, x, b)
  PROVE  g[n] = Cat(f[n], b)
<1>b. /\ x \in 1 .. n /\ t[x] = Cat(s[x], b)
      /\ \A i \in 1 .. n : i # x => t[i] = s[i]
      /\ \A i \in 1 .. n : i > x => s[i] = <<>>
  BY DEF LongerAt
<1>a. \A u, v, w \in Seq(S) : Cat(Cat(u, v), w) = Cat(u, Cat(v, w))
  BY CatIs
<1> DEFINE T == {i \in 1 .. n : g[i] = IF i < x THEN f[i] ELSE Cat(f[i], b)}
<1>1. 1 \in T
  <2>1. 1 \in 1 .. n /\ f[1] = s[1] /\ g[1] = t[1]
    BY DEF Partial
  <2>2. CASE 1 < x
    BY <1>b, <2>1, <2>2
  <2>3. CASE ~ (1 < x)
    <3>1. x = 1
      BY <1>b, <2>3
    <3> QED BY <1>b, <2>1, <2>3, <3>1
  <2> QED BY <2>2, <2>3
<1>2. ASSUME NEW i \in 1 .. n, i # 1, i - 1 \in T PROVE i \in T
  <2>1. /\ i - 1 \in 1 .. n /\ f[i] = Cat(f[i - 1], s[i]) /\ g[i] = Cat(g[i - 1], t[i])
        /\ f[i - 1] \in Seq(S) /\ s[i] \in Seq(S)
    BY <1>2 DEF Partial
  <2>2. g[i - 1] = IF i - 1 < x THEN f[i - 1] ELSE Cat(f[i - 1], b)
    BY <1>2
  <2>3. CASE i < x
    <3>1. i - 1 < x /\ t[i] = s[i]
      BY <1>b, <2>3
    <3>2. g[i] = f[i]
      BY <2>1, <2>2, <3>1
    <3> QED BY <2>3, <3>2
  <2>4. CASE i = x
    <3>1. i - 1 < x /\ ~ (i < x)
      BY <1>b, <2>4
    <3>2. g[i] = Cat(f[i - 1], Cat(s[i], b))
      BY <1>b, <2>1, <2>2, <2>4, <3>1
    <3>3. Cat(f[i - 1], Cat(s[i], b)) = Cat(Cat(f[i - 1], s[i]), b)
      BY <1>a, <2>1, Zenon
    <3>4. g[i] = Cat(f[i], b)
      BY <2>1, <3>2, <3>3, Zenon
    <3> QED BY <3>1, <3>4
  <2>5. CASE i > x
    <3>1. ~ (i - 1 < x) /\ ~ (i < x) /\ i # x
      BY <1>b, <2>5
    <3>2. t[i] = <<>> /\ s[i] = <<>>
      BY <1>b, <2>5, <3>1
    <3>3. Cat(f[i - 1], b) \in Seq(S)
      BY <2>1, CatIs, Zenon
    <3>4. Cat(f[i - 1], <<>>) = f[i - 1] /\ Cat(Cat(f[i - 1], b), <<>>) = Cat(f[i - 1], b)
      BY <2>1, <3>3, CatIs, Zenon
    <3>5. g[i] = Cat(f[i], b)
      BY <2>1, <2>2, <3>1, <3>2, <3>4, Zenon
    <3> QED BY <3>1, <3>5
  <2> QED BY <1>b, <2>3, <2>4, <2>5
<1> HIDE DEF T
<1>3. n \in T
  <2>1. \A i \in 1 .. n : i \in T
    BY <1>1, <1>2, OneByOne
  <2> QED BY <2>1
<1>4. ~ (n < x)
  BY <1>b
<1> QED BY <1>3, <1>4 DEF T

LEMMA FlattenGrown ==
  ASSUME NEW S, NEW s \in Seq(Seq(S)), NEW t \in Seq(Seq(S)), Len(s) = Len(t), NEW b \in Seq(S),
         NEW x, LongerAt(s, t, Len(s), x, b)
  PROVE  FlattenSeq(t) = Cat(FlattenSeq(s), b)
<1>1. ASSUME NEW n \in Nat \ {0}, n = Len(s) PROVE FlattenSeq(t) = Cat(FlattenSeq(s), b)
  <2>1. PICK f : Partial(S, s, f, n) /\ FlattenSeq(s) = f[n]
    BY <1>1, FlattenOf
  <2>2. PICK g : Partial(S, t, g, n) /\ FlattenSeq(t) = g[n]
    BY <1>1, FlattenOf
  <2>3. LongerAt(s, t, n, x, b)
    BY <1>1
  <2>4. g[n] = Cat(f[n], b)
    BY <2>1, <2>2, <2>3, PartialGrown
  <2> QED BY <2>1, <2>2, <2>4
<1>2. Len(s) \in Nat \ {0}
  BY DEF LongerAt
<1> QED BY <1>1, <1>2

\* Sequences of at most three cells each.
LEMMA PartialBound ==
  ASSUME NEW S, NEW s, NEW f, NEW n \in Nat \ {0}, Partial(S, s, f, n), \A i \in 1 .. n : Len(s[i]) <= 3
  PROVE  Len(f[n]) <= 3 * n
<1> DEFINE T == {i \in 1 .. n : Len(f[i]) <= 3 * i}
<1>1. 1 \in T
  <2>1. 1 \in 1 .. n /\ f[1] = s[1]
    BY DEF Partial
  <2>2. Len(s[1]) <= 3
    BY <2>1
  <2> QED BY <2>1, <2>2
<1>2. ASSUME NEW i \in 1 .. n, i # 1, i - 1 \in T PROVE i \in T
  <2>1. i - 1 \in 1 .. n /\ f[i] = Cat(f[i - 1], s[i]) /\ f[i - 1] \in Seq(S) /\ s[i] \in Seq(S)
    BY <1>2 DEF Partial
  <2>a. /\ \A u, v \in Seq(S) : Len(Cat(u, v)) = Len(u) + Len(v)
        /\ \A u \in Seq(S) : Len(u) \in Nat
    BY DEF Cat
  <2>2. Len(f[i]) = Len(f[i - 1]) + Len(s[i]) /\ Len(f[i - 1]) \in Nat /\ Len(s[i]) \in Nat
    BY <2>1, <2>a, Zenon
  <2>3. Len(f[i - 1]) <= 3 * (i - 1) /\ Len(s[i]) <= 3
    BY <1>2
  <2>4. i \in Nat /\ 3 * i = 3 * (i - 1) + 3
    OBVIOUS
  <2>5. \A a, b, c \in Int : a <= c /\ b <= 3 => a + b <= c + 3
    OBVIOUS
  <2>6. Len(f[i - 1]) + Len(s[i]) <= 3 * (i - 1) + 3
    <3>1. Len(f[i - 1]) \in Int /\ Len(s[i]) \in Int /\ 3 * (i - 1) \in Int
      BY <2>2, <2>4
    <3> QED BY <2>3, <2>5, <3>1, Zenon
  <2>7. Len(f[i]) <= 3 * i
    BY <2>2, <2>4, <2>6
  <2> QED BY <2>7
<1> HIDE DEF T
<1>3. n \in T
  <2>1. \A i \in 1 .. n : i \in T
    BY <1>1, <1>2, OneByOne
  <2> QED BY <2>1
<1> QED BY <1>3 DEF T

LEMMA FlattenBound ==
  ASSUME NEW S, NEW s \in Seq(Seq(S)), \A i \in 1 .. Len(s) : Len(s[i]) <= 3
  PROVE  Len(FlattenSeq(s)) <= 3 * Len(s)
<1>1. Len(s) \in Nat
  OBVIOUS
<1>2. CASE Len(s) = 0
  <2>1. s = <<>>
    BY <1>2
  <2> QED BY <1>2, <2>1, FlattenEmpty
<1>3. ASSUME NEW n \in Nat \ {0}, n = Len(s) PROVE Len(FlattenSeq(s)) <= 3 * n
  <2>1. PICK f : Partial(S, s, f, n) /\ FlattenSeq(s) = f[n]
    BY <1>3, FlattenOf
  <2>2. \A i \in 1 .. n : Len(s[i]) <= 3
    BY <1>3
  <2>3. Len(f[n]) <= 3 * n
    BY <2>1, <2>2, PartialBound
  <2> QED BY <2>1, <2>3
<1> QED BY <1>1, <1>2, <1>3

(***************************************************************************)
(* The prompt.                                                             *)
(***************************************************************************)

(* The invariant. *)

\* The labels of a text whose numbers are not in the set of old ones.
Open(t, old) == {i \in 1 .. Len(t) : t[i].kind = "open" /\ t[i].n \notin old}
Single(t, old) == \A i, j \in Open(t, old) : t[i].n = t[j].n => i = j
Apart(t, u, old) == \A i \in Open(t, old), j \in Open(u, old) : t[i].n # u[j].n
Counted(t, old, n) == \A i \in Open(t, old) : t[i].n <= n

Labelled(t, u, old, n) ==
  /\ Single(t, old) /\ Single(u, old) /\ Apart(t, u, old)
  /\ Counted(t, old, n) /\ Counted(u, old, n)

LabelInv ==
  /\ Labelled(input, draft, Recorded, pasted)
  /\ index = 0 => draft = <<>>

\* The end of a report is the last piece of a burst; what is held back is all of a report but
\* that.
ReadInv ==
  /\ stdin \in Seq(Pieces) /\ held \in Seq(Pieces)
  /\ \A i \in 1 .. Len(stdin) : stdin[i] = "body" => i + 1 = Len(stdin) /\ stdin[i + 1] = "end"
  /\ held # <<>> => held[Len(held)] = "body" /\ Len(stdin) = 1 /\ stdin[1] = "end"

TextOK ==
  /\ input \in Seq(Cells) /\ cursor \in 0 .. Len(input)
  /\ pasted \in 0 .. MaxPastes
  /\ DOMAIN blocks \subseteq 1 .. pasted /\ \A n \in DOMAIN blocks : blocks[n] \in Nat
  /\ history \in Seq(Seq(Cells)) /\ Len(history) <= MaxHistory
  /\ index \in 0 .. Len(history) /\ draft \in Seq(Cells)
  /\ menu \in BOOLEAN

TextInv == TextOK /\ LabelInv

-----------------------------------------------------------------------------
(* Texts. *)

LEMMA CellsAre ==
  /\ \A n \in Nat : \A k \in {"char", "space", "open", "close", "content"} :
       Cell(k, n) \in Cells /\ Cell(k, n).kind = k /\ Cell(k, n).n = n
  /\ \A c \in Cells : c.n \in Nat
BY DEF Cell, Cells

LEMMA WordsAreText ==
  ASSUME NEW S, NEW s \in Seq(S)
  PROVE  /\ Words(s) \in Seq(Cells) /\ Len(Words(s)) = Len(s) /\ Len(s) \in Nat
         /\ \A i \in 1 .. Len(s) : Words(s)[i].kind # "open"
<1>1. Len(s) \in Nat
  OBVIOUS
<1>2. ASSUME NEW i \in 1 .. Len(s)
      PROVE  LET c == Cell(IF s[i] = "space" THEN "space" ELSE "char", 0) IN c \in Cells /\ c.kind # "open"
  BY CellsAre
<1> QED BY <1>1, <1>2 DEF Words

LEMMA LabelIsText ==
  ASSUME NEW n \in Nat
  PROVE  /\ Label(n) \in Seq(Cells) /\ Len(Label(n)) = 2
         /\ Label(n)[1] = Cell("open", n) /\ Label(n)[2] = Cell("close", n)
BY CellsAre DEF Label

\* A text with the cells after p, up to q, replaced.
Spliced(t, p, mid, q) == SubSeq(t, 1, p) \o mid \o SubSeq(t, q + 1, Len(t))

LEMMA SplicedText ==
  ASSUME NEW S, NEW t \in Seq(S), NEW p \in Nat, NEW q \in Nat, p <= q, q <= Len(t), NEW mid \in Seq(S)
  PROVE  /\ Spliced(t, p, mid, q) \in Seq(S)
         /\ Len(Spliced(t, p, mid, q)) = p + Len(mid) + (Len(t) - q)
         /\ \A i \in 1 .. Len(Spliced(t, p, mid, q)) :
              /\ i <= p => Spliced(t, p, mid, q)[i] = t[i]
              /\ p < i /\ i <= p + Len(mid) => Spliced(t, p, mid, q)[i] = mid[i - p]
              /\ i > p + Len(mid) => Spliced(t, p, mid, q)[i] = t[i - p - Len(mid) + q]
<1> DEFINE a == SubSeq(t, 1, p)
           b == SubSeq(t, q + 1, Len(t))
<1>1. Len(t) \in Nat /\ Len(mid) \in Nat
  OBVIOUS
<1>2. a \in Seq(S) /\ Len(a) = p /\ \A i \in 1 .. p : a[i] = t[i]
  <2>1. \A i \in 1 .. p : t[i] \in S
    BY <1>1, ElementOfSeq
  <2> QED BY <2>1, SubSeqProperties
<1>3. b \in Seq(S) /\ Len(b) = Len(t) - q /\ \A i \in 1 .. Len(t) - q : b[i] = t[q + i]
  <2>1. \A i \in q + 1 .. Len(t) : t[i] \in S
    BY <1>1, ElementOfSeq
  <2>2. q + 1 \in Int /\ Len(t) \in Int
    BY <1>1
  <2>3. /\ b \in Seq(S)
        /\ Len(b) = IF q + 1 <= Len(t) THEN Len(t) - (q + 1) + 1 ELSE 0
        /\ \A i \in 1 .. Len(t) - (q + 1) + 1 : b[i] = t[(q + 1) + i - 1]
    BY <2>1, <2>2, SubSeqProperties
  <2> QED BY <1>1, <2>3
<1> HIDE DEF a, b
<1> DEFINE c == a \o mid
<1>4. /\ c \in Seq(S) /\ Len(c) = p + Len(mid)
      /\ \A i \in 1 .. p + Len(mid) : c[i] = IF i <= p THEN a[i] ELSE mid[i - p]
  BY <1>2, ConcatProperties
<1>5. Spliced(t, p, mid, q) = c \o b
  BY DEF Spliced, a, b, c
<1> HIDE DEF c
<1> DEFINE u == c \o b
<1>6. /\ u \in Seq(S) /\ Len(u) = Len(c) + Len(b)
      /\ \A i \in 1 .. Len(c) + Len(b) : u[i] = IF i <= Len(c) THEN c[i] ELSE b[i - Len(c)]
  <2>1. b \in Seq(S) /\ c \in Seq(S)
    BY <1>3, <1>4
  <2> QED BY <2>1, ConcatProperties
<1> HIDE DEF u
<1>7. ASSUME NEW i \in 1 .. Len(u)
      PROVE  /\ i <= p => u[i] = t[i]
             /\ p < i /\ i <= p + Len(mid) => u[i] = mid[i - p]
             /\ i > p + Len(mid) => u[i] = t[i - p - Len(mid) + q]
  <2>1. i \in 1 .. Len(c) + Len(b)
    BY <1>6
  <2>2. i <= p => i \in 1 .. p /\ i \in 1 .. p + Len(mid) /\ i <= Len(c)
    BY <1>1, <1>4
  <2>3. p < i /\ i <= p + Len(mid) => i \in 1 .. p + Len(mid) /\ ~ (i <= p) /\ i <= Len(c)
    BY <1>1, <1>4
  <2>4. i > p + Len(mid) => i - Len(c) \in 1 .. Len(t) - q /\ ~ (i <= Len(c))
                            /\ q + (i - Len(c)) = i - p - Len(mid) + q
    BY <1>1, <1>3, <1>4, <2>1
  <2>5. i <= p => u[i] = t[i]
    BY <1>2, <1>4, <1>6, <2>1, <2>2
  <2>6. p < i /\ i <= p + Len(mid) => u[i] = mid[i - p]
    BY <1>4, <1>6, <2>1, <2>3
  <2>7. i > p + Len(mid) => u[i] = t[i - p - Len(mid) + q]
    BY <1>3, <1>6, <2>1, <2>4
  <2> QED BY <2>5, <2>6, <2>7
<1>8. Len(u) = p + Len(mid) + (Len(t) - q)
  BY <1>1, <1>3, <1>4, <1>6
<1> QED BY <1>5, <1>6, <1>7, <1>8 DEF u

LEMMA SplicedCells ==
  ASSUME NEW t \in Seq(Cells), NEW p \in Nat, NEW q \in Nat, p <= q, q <= Len(t), NEW mid \in Seq(Cells)
  PROVE  /\ Spliced(t, p, mid, q) \in Seq(Cells)
         /\ Len(Spliced(t, p, mid, q)) = p + Len(mid) + (Len(t) - q)
BY SplicedText

\* The cells around the replaced ones bring no label in twice.
LEMMA SplicedLabels ==
  ASSUME NEW t \in Seq(Cells), NEW u \in Seq(Cells), NEW old, NEW n \in Nat, Labelled(t, u, old, n),
         NEW p \in Nat, NEW q \in Nat, p <= q, q <= Len(t), NEW mid \in Seq(Cells),
         \A i \in 1 .. Len(mid) : mid[i].kind # "open"
  PROVE  Labelled(Spliced(t, p, mid, q), u, old, n)
<1> DEFINE w == Spliced(t, p, mid, q)
           from(i) == IF i <= p THEN i ELSE i - p - Len(mid) + q
<1>0. /\ Len(w) = p + Len(mid) + (Len(t) - q)
      /\ \A i \in 1 .. Len(w) :
           /\ i <= p => w[i] = t[i]
           /\ p < i /\ i <= p + Len(mid) => w[i] = mid[i - p]
           /\ i > p + Len(mid) => w[i] = t[i - p - Len(mid) + q]
  BY SplicedText
<1>1. Len(t) \in Nat /\ Len(mid) \in Nat /\ Len(w) \in Nat
  BY <1>0
<1> HIDE DEF w
<1>2. ASSUME NEW i \in Open(w, old)
      PROVE  from(i) \in Open(t, old) /\ t[from(i)].n = w[i].n /\ (i <= p \/ i > p + Len(mid))
  <2>1. /\ i \in 1 .. Len(w) /\ w[i].kind = "open" /\ w[i].n \notin old
        /\ Len(w) = p + Len(mid) + (Len(t) - q)
    BY <1>0 DEF Open
  <2>2. CASE i <= p
    <3>1. w[i] = t[from(i)] /\ from(i) \in 1 .. Len(t)
      BY <1>1, <2>1, <2>2, <1>0
    <3> HIDE DEF from
    <3> QED BY <2>1, <2>2, <3>1 DEF Open
  <2>3. CASE p < i /\ i <= p + Len(mid)
    <3>1. w[i] = mid[i - p] /\ i - p \in 1 .. Len(mid)
      BY <1>1, <2>1, <2>3, <1>0
    <3> QED BY <2>1, <3>1
  <2>4. CASE i > p + Len(mid)
    <3>1. w[i] = t[from(i)] /\ from(i) \in 1 .. Len(t)
      BY <1>1, <2>1, <2>4, <1>0
    <3> HIDE DEF from
    <3> QED BY <2>1, <2>4, <3>1 DEF Open
  <2> QED BY <1>1, <2>1, <2>2, <2>3, <2>4
<1>3. ASSUME NEW i \in Open(w, old), NEW j \in Open(w, old), from(i) = from(j) PROVE i = j
  <2>1. (i <= p \/ i > p + Len(mid)) /\ (j <= p \/ j > p + Len(mid)) /\ i \in Int /\ j \in Int
    BY <1>2 DEF Open
  <2> QED BY <1>1, <1>3, <2>1
<1> HIDE DEF from
<1>4. Single(w, old)
  BY <1>2, <1>3 DEF Labelled, Single
<1>5. Apart(w, u, old) /\ Counted(w, old, n)
  BY <1>2 DEF Labelled, Apart, Counted
<1> QED BY <1>4, <1>5 DEF Labelled, w

\* A label with a number of its own, put where the cursor is.
LEMMA PastedLabel ==
  ASSUME NEW t \in Seq(Cells), NEW u \in Seq(Cells), NEW old, NEW n \in Nat, Labelled(t, u, old, n),
         NEW p \in Nat, p <= Len(t)
  PROVE  Labelled(Spliced(t, p, Label(n + 1), p), u, old, n + 1)
<1> DEFINE w == Spliced(t, p, Label(n + 1), p)
           from(i) == IF i <= p THEN i ELSE i - 2
<1> DEFINE l == Label(n + 1)
<1>l. l \in Seq(Cells) /\ Len(l) = 2 /\ l[1].n = n + 1 /\ l[2].kind = "close"
  <2>1. n + 1 \in Nat
    OBVIOUS
  <2>2. /\ Cell("open", n + 1).n = n + 1
        /\ Cell("close", n + 1).kind = "close"
    BY <2>1, CellsAre
  <2>3. /\ l \in Seq(Cells) /\ Len(l) = 2
        /\ l[1] = Cell("open", n + 1) /\ l[2] = Cell("close", n + 1)
    BY <2>1, LabelIsText
  <2> QED BY <2>2, <2>3
<1> HIDE DEF l
<1>0. /\ Len(w) = p + 2 + (Len(t) - p)
      /\ \A i \in 1 .. Len(w) :
           /\ i <= p => w[i] = t[i]
           /\ p < i /\ i <= p + 2 => w[i] = l[i - p]
           /\ i > p + 2 => w[i] = t[i - p - 2 + p]
  <2>1. /\ Len(w) = p + Len(l) + (Len(t) - p)
        /\ \A i \in 1 .. Len(w) :
             /\ i <= p => w[i] = t[i]
             /\ p < i /\ i <= p + Len(l) => w[i] = l[i - p]
             /\ i > p + Len(l) => w[i] = t[i - p - Len(l) + p]
    BY <1>l, SplicedText DEF l
  <2> QED BY <1>l, <2>1
<1>1. Len(t) \in Nat /\ Len(w) \in Nat
  BY <1>0
<1> HIDE DEF w
<1>2. ASSUME NEW i \in Open(w, old), i # p + 1
      PROVE  from(i) \in Open(t, old) /\ t[from(i)].n = w[i].n /\ (i <= p \/ i > p + 2)
  <2>1. /\ i \in 1 .. Len(w) /\ w[i].kind = "open" /\ w[i].n \notin old
        /\ Len(w) = p + 2 + (Len(t) - p)
    BY <1>0 DEF Open
  <2>2. CASE i <= p
    <3>1. w[i] = t[from(i)] /\ from(i) \in 1 .. Len(t)
      BY <1>1, <2>1, <2>2, <1>0
    <3> HIDE DEF from
    <3> QED BY <2>1, <2>2, <3>1 DEF Open
  <2>3. CASE i = p + 2
    <3>1. w[i] = l[2]
      BY <1>1, <2>1, <2>3, <1>0
    <3> QED BY <1>l, <2>1, <3>1
  <2>4. CASE i > p + 2
    <3>1. w[i] = t[from(i)] /\ from(i) \in 1 .. Len(t)
      BY <1>1, <2>1, <2>4, <1>0
    <3> HIDE DEF from
    <3> QED BY <2>1, <2>4, <3>1 DEF Open
  <2> QED BY <1>1, <1>2, <2>1, <2>2, <2>3, <2>4
<1>3. ASSUME NEW i \in Open(w, old), NEW j \in Open(w, old), i # p + 1, j # p + 1, from(i) = from(j)
      PROVE  i = j
  <2>1. (i <= p \/ i > p + 2) /\ (j <= p \/ j > p + 2) /\ i \in Int /\ j \in Int
    BY <1>2, <1>3 DEF Open
  <2> QED BY <1>1, <1>3, <2>1
<1>4. p + 1 \in 1 .. Len(w) /\ w[p + 1].n = n + 1
  <2>1. p + 1 \in 1 .. Len(w)
    BY <1>0, <1>1
  <2>2. w[p + 1] = l[1]
    BY <1>0, <1>1, <2>1
  <2> QED BY <1>l, <2>1, <2>2
<1>5. ASSUME NEW i \in Open(w, old), i # p + 1 PROVE w[i].n <= n /\ w[i].n # n + 1 /\ w[i].n \in Nat
  <2>1. from(i) \in Open(t, old) /\ t[from(i)].n = w[i].n
    BY <1>2, <1>5
  <2>2. t[from(i)].n <= n /\ from(i) \in 1 .. Len(t)
    BY <2>1 DEF Labelled, Counted, Open
  <2>3. t[from(i)].n \in Nat
    BY <2>2, ElementOfSeq, CellsAre
  <2> QED BY <2>1, <2>2, <2>3
<1> HIDE DEF from
<1>6. Single(w, old)
  BY <1>2, <1>3, <1>4, <1>5 DEF Labelled, Single
<1>7. Counted(w, old, n + 1)
  BY <1>4, <1>5 DEF Counted
<1>8. ASSUME NEW j \in Open(u, old) PROVE u[j].n <= n /\ u[j].n \in Nat
  <2>1. u[j].n <= n /\ j \in 1 .. Len(u)
    BY DEF Labelled, Counted, Open
  <2> QED BY <2>1, ElementOfSeq, CellsAre
<1>9. Apart(w, u, old) /\ Counted(u, old, n + 1)
  BY <1>2, <1>4, <1>8 DEF Labelled, Apart, Counted
<1> QED BY <1>6, <1>7, <1>9 DEF Labelled, w

\* A text out of the history has no label of its own.
LEMMA NoLabels ==
  ASSUME NEW t, NEW u, NEW old, NEW n, Labelled(t, u, old, n), NEW h, Open(h, old) = {}
  PROVE  Labelled(h, u, old, n) /\ Labelled(h, t, old, n)
BY DEF Labelled, Single, Apart, Counted

LEMMA EmptyText ==
  \A old : Open(<<>>, old) = {}
BY DEF Open

-----------------------------------------------------------------------------
(* What the keys do to the message. *)

LEMMA PiecesOfText ==
  ASSUME NEW t \in Seq(Cells), NEW a \in 0 .. Len(t), NEW b \in 0 .. Len(t)
  PROVE  SubSeq(t, 1, a) \in Seq(Cells) /\ SubSeq(t, b + 1, Len(t)) \in Seq(Cells)
<1>1. \A i \in 1 .. a : t[i] \in Cells
  BY ElementOfSeq
<1>2. \A i \in b + 1 .. Len(t) : t[i] \in Cells
  BY ElementOfSeq
<1> QED BY <1>1, <1>2, SubSeqProperties

LEMMA SplicedForms ==
  ASSUME NEW t \in Seq(Cells), NEW a \in 0 .. Len(t)
  PROVE  /\ \A b \in 0 .. Len(t) :
              SubSeq(t, 1, a) \o SubSeq(t, b + 1, Len(t)) = Spliced(t, a, <<>>, b)
         /\ SubSeq(t, 1, a) = Spliced(t, a, <<>>, Len(t))
         /\ SubSeq(t, a + 1, Len(t)) = Spliced(t, 0, <<>>, a)
         /\ \A mid \in Seq(Cells) : t \o mid = Spliced(t, Len(t), mid, Len(t))
<1>0. Len(t) \in Nat /\ Len(t) \in 0 .. Len(t) /\ 0 \in 0 .. Len(t)
  OBVIOUS
<1>1. SubSeq(t, 1, a) \in Seq(Cells) /\ SubSeq(t, 1, a) \o <<>> = SubSeq(t, 1, a)
  BY <1>0, PiecesOfText, ConcatEmptySeq
<1>2. SubSeq(t, Len(t) + 1, Len(t)) = <<>> /\ SubSeq(t, 1, 0) = <<>>
  BY <1>0, SubSeqEmpty
<1>3. \A b \in 0 .. Len(t) : SubSeq(t, 1, a) \o SubSeq(t, b + 1, Len(t)) = Spliced(t, a, <<>>, b)
  BY <1>1, Zenon DEF Spliced
<1>4. SubSeq(t, 1, a) = Spliced(t, a, <<>>, Len(t))
  BY <1>1, <1>2, Zenon DEF Spliced
<1>5. SubSeq(t, a + 1, Len(t)) = Spliced(t, 0, <<>>, a)
  <2>1. SubSeq(t, a + 1, Len(t)) \in Seq(Cells)
    BY PiecesOfText
  <2>2. <<>> \o SubSeq(t, a + 1, Len(t)) = SubSeq(t, a + 1, Len(t)) /\ <<>> \in Seq(Cells)
    BY <2>1, ConcatEmptySeq
  <2>3. <<>> \o <<>> = <<>>
    OBVIOUS
  <2> QED BY <1>2, <2>2, <2>3, Zenon DEF Spliced
<1>6. ASSUME NEW mid \in Seq(Cells) PROVE t \o mid = Spliced(t, Len(t), mid, Len(t))
  <2>1. SubSeq(t, 1, Len(t)) = t
    BY SubSeqFull
  <2>2. t \o mid \in Seq(Cells) /\ (t \o mid) \o <<>> = t \o mid
    BY ConcatProperties, ConcatEmptySeq
  <2> QED BY <1>2, <2>1, <2>2, Zenon DEF Spliced
<1> QED BY <1>3, <1>4, <1>5, <1>6

LEMMA RecordedStays ==
  history' = history => Recorded' = Recorded
BY DEF Recorded

\* Every edit of the message replaces a stretch of it.
LEMMA EditKeepsInv ==
  ASSUME TextInv, NEW p \in Nat, NEW q \in Nat, p <= q, q <= Len(input), NEW mid \in Seq(Cells),
         \A i \in 1 .. Len(mid) : mid[i].kind # "open",
         input' = Spliced(input, p, mid, q), cursor' \in 0 .. p + Len(mid) + (Len(input) - q),
         DOMAIN blocks' \subseteq DOMAIN blocks, \A n \in DOMAIN blocks' : blocks'[n] = blocks[n],
         UNCHANGED <<pasted, history, index, draft>>, menu' \in BOOLEAN
  PROVE  TextInv'
<1>1. input' \in Seq(Cells) /\ Len(input') = p + Len(mid) + (Len(input) - q)
  <2>1. input \in Seq(Cells)
    BY DEF TextInv, TextOK
  <2>2. /\ Spliced(input, p, mid, q) \in Seq(Cells)
        /\ Len(Spliced(input, p, mid, q)) = p + Len(mid) + (Len(input) - q)
    BY <2>1, SplicedCells, Zenon
  <2> QED BY <2>2
<1>2. TextOK'
  BY <1>1 DEF TextInv, TextOK
<1>3. pasted \in Nat /\ Labelled(input, draft, Recorded, pasted) /\ input \in Seq(Cells) /\ draft \in Seq(Cells)
  BY PromptAssumption DEF TextInv, TextOK, LabelInv
<1>4. Labelled(input', draft, Recorded, pasted)
  BY <1>3, SplicedLabels
<1>5. LabelInv'
  BY <1>4, RecordedStays DEF TextInv, LabelInv
<1> QED BY <1>2, <1>5 DEF TextInv

LEMMA CutKeepsInv ==
  ASSUME TextInv, NEW p \in 0 .. Len(input), NEW q \in 0 .. Len(input), p <= q,
         input' = Spliced(input, p, <<>>, q), cursor' \in 0 .. p + (Len(input) - q),
         DOMAIN blocks' \subseteq DOMAIN blocks, \A n \in DOMAIN blocks' : blocks'[n] = blocks[n],
         UNCHANGED <<pasted, history, index, draft>>, menu' \in BOOLEAN
  PROVE  TextInv'
<1>1. p \in Nat /\ q \in Nat /\ q <= Len(input) /\ Len(input) \in Nat
  BY DEF TextInv, TextOK
<1>2. ASSUME NEW mid, mid = <<>> PROVE TextInv'
  <2>1. mid \in Seq(Cells) /\ Len(mid) = 0 /\ \A i \in 1 .. Len(mid) : mid[i].kind # "open"
    BY <1>2
  <2>2. p + Len(mid) + (Len(input) - q) = p + (Len(input) - q)
    BY <1>1, <2>1
  <2>3. input' = Spliced(input, p, mid, q)
    BY <1>2
  <2> QED BY <1>1, <2>1, <2>2, <2>3, EditKeepsInv
<1> QED BY <1>2

LEMMA CursorKeepsInv ==
  ASSUME TextInv, input' = input, cursor' \in 0 .. Len(input), menu' \in BOOLEAN,
         UNCHANGED <<blocks, pasted, history, index, draft>>
  PROVE  TextInv'
BY RecordedStays DEF TextInv, TextOK, LabelInv

LEMMA ClearKeepsInv ==
  ASSUME TextInv, input' = <<>>, cursor' = 0, menu' \in BOOLEAN,
         UNCHANGED <<blocks, pasted, history, index, draft>>
  PROVE  TextInv'
<1>1. Labelled(<<>>, draft, Recorded, pasted)
  BY EmptyText, NoLabels DEF TextInv, LabelInv
<1> QED BY <1>1, RecordedStays DEF TextInv, TextOK, LabelInv

LEMMA IdleKeepsInv ==
  ASSUME TextInv, UNCHANGED typed
  PROVE  TextInv'
BY RecordedStays DEF TextInv, TextOK, LabelInv, typed, text, past

LEMMA MenuKeyKeepsInv ==
  ASSUME TextInv, NEW key, NEW chars \in Seq(Pieces), MenuKey(key, chars)
  PROVE  TextInv'
<1>1. UNCHANGED <<blocks, pasted, history, index, draft>> /\ input \in Seq(Cells) /\ cursor \in 0 .. Len(input)
      /\ menu \in BOOLEAN /\ Len(input) \in Nat
  BY DEF MenuKey, past, TextInv, TextOK
<1>2. CASE input' = <<>> /\ cursor' = 0 /\ menu' = FALSE
  BY <1>1, <1>2, ClearKeepsInv
<1>3. CASE UNCHANGED <<text, menu>>
  BY <1>1, <1>3, CursorKeepsInv DEF text
<1>4. CASE /\ Len(input) > 1 /\ input' = Front(input)
           /\ cursor' = (IF cursor = 0 THEN 0 ELSE cursor - 1) /\ UNCHANGED menu
  <2>1. Len(input) - 1 \in 0 .. Len(input) /\ Len(input) \in 0 .. Len(input) /\ Len(input) - 1 <= Len(input)
    BY <1>1, <1>4
  <2>2. input' = Spliced(input, Len(input) - 1, <<>>, Len(input))
    BY <1>1, <1>4, <2>1, SplicedForms DEF Front
  <2>3. cursor' \in 0 .. (Len(input) - 1) + (Len(input) - Len(input))
    BY <1>1, <1>4
  <2> QED BY <1>1, <1>4, <2>1, <2>2, <2>3, CutKeepsInv
<1>5. CASE Becomes(input \o Words(chars), cursor + Len(chars)) /\ UNCHANGED menu
  <2>1. /\ Words(chars) \in Seq(Cells) /\ Len(Words(chars)) = Len(chars) /\ Len(chars) \in Nat
        /\ \A i \in 1 .. Len(Words(chars)) : Words(chars)[i].kind # "open"
    BY WordsAreText
  <2>2. input' = Spliced(input, Len(input), Words(chars), Len(input))
    BY <1>1, <1>5, <2>1, SplicedForms DEF Becomes
  <2>3. cursor' \in 0 .. Len(input) + Len(Words(chars)) + (Len(input) - Len(input))
    BY <1>1, <1>5, <2>1 DEF Becomes
  <2> QED BY <1>1, <1>5, <2>1, <2>2, <2>3, EditKeepsInv
<1> QED BY <1>2, <1>3, <1>4, <1>5 DEF MenuKey, Becomes

LEMMA GreatestOf ==
  ASSUME NEW n \in Nat, NEW T \in SUBSET (0 .. n), T # {}
  PROVE  Greatest(T) \in T
<1> DEFINE below == {n - i : i \in T}
<1>1. below \in SUBSET Nat /\ below # {}
  <2>1. ASSUME NEW i \in T PROVE n - i \in Nat
    <3>1. i \in 0 .. n
      OBVIOUS
    <3> QED BY <3>1
  <2>2. \A b \in below : b \in Nat
    BY <2>1
  <2>3. PICK i : i \in T
    OBVIOUS
  <2>4. n - i \in below
    BY <2>3
  <2> HIDE DEF below
  <2> QED BY <2>2, <2>4
<1>2. PICK x \in below : \A y \in below : x <= y
  BY <1>1, LeastElement
<1>3. PICK i \in T : x = n - i
  BY <1>2
<1>4. \A y \in T : i >= y
  <2> TAKE y \in T
  <2>1. n - i <= n - y
    BY <1>2, <1>3
  <2>2. i \in Int /\ y \in Int
    OBVIOUS
  <2> QED BY <2>1, <2>2
<1> QED BY <1>3, <1>4 DEF Greatest

LEMMA LeastOf ==
  ASSUME NEW T \in SUBSET Nat, T # {}
  PROVE  Least(T) \in T
BY LeastElement DEF Least

LEMMA WordsAreInside ==
  ASSUME NEW t \in Seq(Cells), NEW p \in 0 .. Len(t)
  PROVE  WordLeft(t, p) \in 0 .. p /\ WordRight(t, p) \in 0 .. Len(t)
<1>0. Len(t) \in Nat /\ p \in Nat
  OBVIOUS
<1> DEFINE L == {0} \cup {q \in 1 .. p - 1 : (t[q].kind \in {"space", "open"})
                                              /\ (\E r \in q + 1 .. p : t[r].kind # "space")}
           R == {Len(t)} \cup {q \in p + 1 .. Len(t) - 1 :
                                (t[q].kind # "space") /\ (t[q].kind = "open" \/ t[q + 1].kind = "space")}
<1>1. L \in SUBSET (0 .. p) /\ L # {}
  BY <1>0
<1>2. R \in SUBSET (0 .. Len(t)) /\ R \in SUBSET Nat /\ R # {}
  BY <1>0
<1>3. WordLeft(t, p) = Greatest(L) /\ WordRight(t, p) = Least(R)
  BY DEF WordLeft, WordRight
<1> HIDE DEF L, R
<1>4. Greatest(L) \in L /\ Least(R) \in R
  BY <1>0, <1>1, <1>2, GreatestOf, LeastOf
<1> QED BY <1>1, <1>2, <1>3, <1>4

LEMMA Places ==
  ASSUME NEW l \in Nat, NEW c \in 0 .. l
  PROVE  /\ c \in Nat /\ c <= l /\ c \in 0 .. l /\ 0 \in 0 .. l /\ l \in 0 .. l /\ 0 <= c
         /\ 0 \in 0 .. 0 + (l - c)
         /\ (IF c = 0 THEN 0 ELSE c - 1) \in 0 .. l
         /\ (IF c < l THEN c + 1 ELSE c) \in 0 .. l
         /\ \A p \in 0 .. c : p \in 0 .. l /\ p <= c /\ p \in 0 .. p + (l - c)
OBVIOUS

LEMMA EditKeyKeepsInv ==
  ASSUME TextInv, NEW key \in {"^A", "^E", "^U", "^W", "left", "right", "word left", "word right"}, Edit(key)
  PROVE  TextInv'
<1>1. UNCHANGED <<blocks, pasted, history, index, draft, menu>>
  <2>1. UNCHANGED <<blocks, pasted, past, menu>>
    BY Zenon DEF Edit
  <2> QED BY <2>1 DEF past
<1>2. input \in Seq(Cells) /\ cursor \in 0 .. Len(input) /\ menu \in BOOLEAN
  BY DEF TextInv, TextOK
<1>3. WordLeft(input, cursor) \in 0 .. cursor /\ WordRight(input, cursor) \in 0 .. Len(input)
  BY <1>2, WordsAreInside
<1>4. Len(input) \in Nat
  BY <1>2, LenProperties, Zenon
<1>5. CASE key = "^U"
  <2>1. Becomes(After, 0)
    BY <1>5, Zenon DEF Edit
  <2>2. input' = Spliced(input, 0, <<>>, cursor) /\ cursor' = 0
    BY <1>2, <2>1, SplicedForms DEF Becomes, After
  <2>3. 0 \in 0 .. Len(input) /\ 0 <= cursor /\ 0 \in 0 .. 0 + (Len(input) - cursor)
    BY <1>2, <1>4, Places, Zenon
  <2> QED BY <1>1, <1>2, <2>2, <2>3, CutKeepsInv
<1>6. CASE key = "^W"
  <2> DEFINE p == WordLeft(input, cursor)
  <2>1. Becomes(SubSeq(input, 1, p) \o After, p)
    BY <1>6, Zenon DEF Edit
  <2>2. input' = SubSeq(input, 1, p) \o SubSeq(input, cursor + 1, Len(input)) /\ cursor' = p
    BY <2>1, Zenon DEF Becomes, After
  <2>3. p \in 0 .. Len(input) /\ p <= cursor /\ p \in 0 .. p + (Len(input) - cursor)
    BY <1>2, <1>3, <1>4, Places, Zenon
  <2> HIDE DEF p
  <2>4. input' = Spliced(input, p, <<>>, cursor)
    BY <1>2, <2>2, <2>3, SplicedForms
  <2> QED BY <1>1, <1>2, <2>2, <2>3, <2>4, CutKeepsInv
<1>7. CASE key \notin {"^U", "^W"}
  <2> DEFINE places == {0, Len(input), IF cursor = 0 THEN 0 ELSE cursor - 1,
                        IF cursor < Len(input) THEN cursor + 1 ELSE cursor,
                        WordLeft(input, cursor), WordRight(input, cursor)}
  <2>1. PICK c \in places : Becomes(input, c)
    BY <1>7, ZenonT(40) DEF Edit
  <2>2. places \subseteq 0 .. Len(input)
    <3>1. /\ cursor \in 0 .. Len(input) /\ 0 \in 0 .. Len(input) /\ Len(input) \in 0 .. Len(input)
          /\ (IF cursor = 0 THEN 0 ELSE cursor - 1) \in 0 .. Len(input)
          /\ (IF cursor < Len(input) THEN cursor + 1 ELSE cursor) \in 0 .. Len(input)
      BY <1>2, <1>4, Places, Zenon
    <3>2. WordLeft(input, cursor) \in 0 .. Len(input)
      BY <1>2, <1>3, <1>4, Places, Zenon
    <3> QED BY <1>3, <3>1, <3>2
  <2>3. input' = input /\ cursor' \in 0 .. Len(input)
    BY <2>1, <2>2 DEF Becomes
  <2> QED BY <1>1, <1>2, <2>3, CursorKeepsInv
<1> QED BY <1>5, <1>6, <1>7

LEMMA CutToEndKeepsInv ==
  ASSUME TextInv, CutToEnd
  PROVE  TextInv'
<1>1. UNCHANGED <<pasted, history, index, draft, menu>> /\ input \in Seq(Cells)
      /\ cursor \in 0 .. Len(input) /\ menu \in BOOLEAN /\ Len(input) \in Nat
  BY DEF CutToEnd, past, TextInv, TextOK
<1>2. DOMAIN blocks' \subseteq DOMAIN blocks /\ \A n \in DOMAIN blocks' : blocks'[n] = blocks[n]
  BY DEF CutToEnd, Without
<1>3. input' = Spliced(input, cursor, <<>>, Len(input)) /\ cursor' = cursor
  BY <1>1, SplicedForms DEF CutToEnd, Becomes, Before
<1>4. Len(input) \in 0 .. Len(input) /\ cursor <= Len(input) /\ cursor' \in 0 .. cursor + (Len(input) - Len(input))
  BY <1>1, <1>3
<1> QED BY <1>1, <1>2, <1>3, <1>4, CutKeepsInv

LEMMA TypeKeepsInv ==
  ASSUME TextInv, NEW chars \in Seq(Pieces), Type(chars)
  PROVE  TextInv'
<1>1. UNCHANGED <<blocks, pasted, history, index, draft, menu>> /\ input \in Seq(Cells)
      /\ cursor \in 0 .. Len(input) /\ menu \in BOOLEAN /\ Len(input) \in Nat /\ cursor \in Nat
  BY DEF Type, past, TextInv, TextOK
<1>2. /\ Words(chars) \in Seq(Cells) /\ Len(Words(chars)) = Len(chars) /\ Len(chars) \in Nat
      /\ \A i \in 1 .. Len(Words(chars)) : Words(chars)[i].kind # "open"
  BY WordsAreText
<1>3. input' = Spliced(input, cursor, Words(chars), cursor) /\ cursor' = cursor + Len(chars)
  BY DEF Type, Becomes, Before, After, Spliced
<1>4. cursor <= cursor /\ cursor <= Len(input)
      /\ cursor' \in 0 .. cursor + Len(Words(chars)) + (Len(input) - cursor)
  BY <1>1, <1>2, <1>3
<1> QED BY <1>1, <1>2, <1>3, <1>4, EditKeepsInv

LEMMA SuffixOfTwo ==
  ASSUME NEW a, Len(a) = 2, NEW t, Len(t) \in Nat, IsSuffix(a, t)
  PROVE  2 <= Len(t) /\ t[Len(t) - 1] = a[1] /\ t[Len(t)] = a[2]
<1> DEFINE ra == Reverse(a)
           rt == Reverse(t)
<1>1. /\ ra = [i \in 1 .. 2 |-> a[(2 - i) + 1]]
      /\ rt = [i \in 1 .. Len(t) |-> t[(Len(t) - i) + 1]]
  BY DEF Reverse
<1>2. Len(ra) = 2 /\ Len(rt) = Len(t)
  BY <1>1
<1>3. ra[1] = a[2] /\ ra[2] = a[1]
  BY <1>1
<1>4. 2 <= Len(t) => rt[1] = t[Len(t)] /\ rt[2] = t[Len(t) - 1]
  <2> SUFFICES ASSUME 2 <= Len(t) PROVE rt[1] = t[Len(t)] /\ rt[2] = t[Len(t) - 1]
    OBVIOUS
  <2>1. 1 \in 1 .. Len(t) /\ 2 \in 1 .. Len(t) /\ (Len(t) - 1) + 1 = Len(t) /\ (Len(t) - 2) + 1 = Len(t) - 1
    OBVIOUS
  <2> QED BY <1>1, <2>1
<1>5. IsPrefix(ra, rt)
  BY DEF IsSuffix
<1> HIDE DEF ra, rt
<1>6. 2 <= Len(t) /\ SubSeq(ra, 1, 2) = SubSeq(rt, 1, 2)
  BY <1>2, <1>5 DEF IsPrefix
<1>7. SubSeq(ra, 1, 2)[1] = ra[1] /\ SubSeq(ra, 1, 2)[2] = ra[2]
  OBVIOUS
<1>8. SubSeq(rt, 1, 2)[1] = rt[1] /\ SubSeq(rt, 1, 2)[2] = rt[2]
  OBVIOUS
<1> QED BY <1>3, <1>4, <1>6, <1>7, <1>8

\* The label that ends a text is its last two cells.
LEMMA TrailingLabel ==
  ASSUME NEW t \in Seq(Cells), NEW n \in Nat, IsSuffix(Label(n), t)
  PROVE  2 <= Len(t) /\ t[Len(t) - 1].kind = "open" /\ t[Len(t) - 1].n = n
<1> DEFINE a == Label(n)
<1>1. Len(a) = 2 /\ a[1] = Cell("open", n)
  BY LabelIsText
<1>2. IsSuffix(a, t) /\ Len(t) \in Nat
  OBVIOUS
<1> HIDE DEF a
<1>3. 2 <= Len(t) /\ t[Len(t) - 1] = a[1]
  BY <1>1, <1>2, SuffixOfTwo
<1> QED BY <1>1, <1>3, CellsAre

LEMMA BackspaceKeepsInv ==
  ASSUME TextInv, Backspace
  PROVE  TextInv'
<1> DEFINE whole == cursor = Len(input) /\ Trailing(input) # {}
           width == IF whole THEN 2 ELSE IF cursor > 0 THEN 1 ELSE 0
<1>1. input \in Seq(Cells) /\ cursor \in 0 .. Len(input) /\ menu \in BOOLEAN /\ pasted \in Nat
      /\ DOMAIN blocks \subseteq 1 .. pasted
  BY PromptAssumption DEF TextInv, TextOK
<1>2. Len(input) \in Nat
  BY <1>1, LenProperties, Zenon
<1>3. whole => 2 <= Len(input)
  <2> SUFFICES ASSUME whole PROVE 2 <= Len(input)
    OBVIOUS
  <2>1. PICK n \in DOMAIN blocks : IsSuffix(Label(n), input)
    BY DEF Trailing
  <2>2. n \in Nat
    BY <1>1, <2>1
  <2> QED BY <1>1, <2>1, <2>2, TrailingLabel
<1>4. cursor - width \in 0 .. Len(input) /\ cursor - width <= cursor
      /\ cursor - width \in 0 .. (cursor - width) + (Len(input) - cursor)
  BY <1>1, <1>2, <1>3
<1>5. input' = SubSeq(input, 1, cursor - width) \o SubSeq(input, cursor + 1, Len(input))
      /\ cursor' = cursor - width
  BY DEF Backspace, Becomes, After
<1>6. UNCHANGED <<pasted, history, index, draft, menu>>
  BY DEF Backspace, past
<1>7. DOMAIN blocks' \subseteq DOMAIN blocks /\ \A n \in DOMAIN blocks' : blocks'[n] = blocks[n]
  BY DEF Backspace, Without
<1> HIDE DEF whole, width
<1>8. input' = Spliced(input, cursor - width, <<>>, cursor)
  BY <1>1, <1>4, <1>5, SplicedForms
<1> QED BY <1>1, <1>4, <1>5, <1>6, <1>7, <1>8, CutKeepsInv

LEMMA PastedText ==
  ASSUME NEW t \in Seq(Cells), NEW c \in 0 .. Len(t), NEW n \in Nat
  PROVE  /\ Spliced(t, c, Label(n + 1), c) \in Seq(Cells)
         /\ c + 2 \in 0 .. Len(Spliced(t, c, Label(n + 1), c))
<1> DEFINE l == Label(n + 1)
<1>1. l \in Seq(Cells) /\ Len(l) = 2
  BY LabelIsText
<1>2. Len(t) \in Nat /\ c \in Nat /\ c <= Len(t) /\ c <= c
  OBVIOUS
<1> HIDE DEF l
<1> DEFINE w == Spliced(t, c, l, c)
<1>3. w \in Seq(Cells) /\ Len(w) = c + Len(l) + (Len(t) - c)
  BY <1>1, <1>2, SplicedCells, Zenon
<1> HIDE DEF w
<1>4. c + 2 \in 0 .. Len(w)
  BY <1>1, <1>2, <1>3
<1> QED BY <1>3, <1>4 DEF l, w

LEMMA PasteKeepsInv ==
  ASSUME TextInv, Paste
  PROVE  TextInv'
<1> DEFINE n == 1 + pasted
<1>1. /\ input \in Seq(Cells) /\ draft \in Seq(Cells) /\ cursor \in 0 .. Len(input) /\ pasted \in 0 .. MaxPastes
      /\ DOMAIN blocks \subseteq 1 .. pasted /\ \A m \in DOMAIN blocks : blocks[m] \in Nat
      /\ MaxPastes \in Nat /\ Labelled(input, draft, Recorded, pasted)
  BY PromptAssumption DEF TextInv, TextOK, LabelInv
<1>2. Len(input) \in Nat /\ pasted \in Nat /\ cursor \in Nat /\ cursor <= Len(input) /\ cursor <= cursor
      /\ pasted + 1 \in Nat /\ n = pasted + 1
  <2>1. Len(input) \in Nat
    BY <1>1, LenProperties, Zenon
  <2> QED BY <1>1, <2>1
<1>3. input' = Spliced(input, cursor, Label(pasted + 1), cursor) /\ cursor' = cursor + 2
  BY <1>2, Zenon DEF Paste, Becomes, Before, After, Spliced, NextNumber
<1>4. pasted < MaxPastes /\ pasted' = pasted + 1 /\ UNCHANGED <<history, index, draft, menu>>
  BY DEF Paste, past
<1>5. /\ DOMAIN blocks' = DOMAIN blocks \cup {n}
      /\ \A m \in DOMAIN blocks' : blocks'[m] = (IF m = n THEN 1 + pasted ELSE blocks[m])
  BY DEF Paste, NextNumber
<1>7. input' \in Seq(Cells) /\ cursor' \in 0 .. Len(input')
  <2>1. /\ Spliced(input, cursor, Label(pasted + 1), cursor) \in Seq(Cells)
        /\ cursor + 2 \in 0 .. Len(Spliced(input, cursor, Label(pasted + 1), cursor))
    BY <1>1, <1>2, PastedText, Zenon
  <2> QED BY <1>3, <2>1, Zenon
<1>8. Labelled(input', draft, Recorded, pasted + 1)
  <2>1. Labelled(Spliced(input, cursor, Label(pasted + 1), cursor), draft, Recorded, pasted + 1)
    BY <1>1, <1>2, PastedLabel, Zenon
  <2> QED BY <1>3, <2>1, Zenon
<1>9. pasted' \in 0 .. MaxPastes
  BY <1>1, <1>2, <1>4
<1>10. DOMAIN blocks' \subseteq 1 .. pasted' /\ \A m \in DOMAIN blocks' : blocks'[m] \in Nat
  BY <1>1, <1>2, <1>4, <1>5
<1>11. TextOK'
  BY <1>1, <1>4, <1>7, <1>9, <1>10 DEF TextOK, TextInv
<1>12. LabelInv'
  BY <1>4, <1>8, RecordedStays DEF LabelInv, TextInv
<1> QED BY <1>11, <1>12 DEF TextInv

LEMMA OpenMenuKeepsInv ==
  ASSUME TextInv, OpenMenu, input = <<>>
  PROVE  TextInv'
<1> DEFINE w == Words(<<"/">>)
<1>1. w \in Seq(Cells) /\ Len(w) = 1 /\ \A i \in 1 .. Len(w) : w[i].kind # "open"
  <2>1. ASSUME NEW s, s = <<"/">> PROVE s \in Seq({"/"}) /\ Len(s) = 1
    BY <2>1
  <2>2. ASSUME NEW s, s = <<"/">>
        PROVE  /\ Words(s) \in Seq(Cells) /\ Len(Words(s)) = 1
               /\ \A i \in 1 .. Len(Words(s)) : Words(s)[i].kind # "open"
    BY <2>1, <2>2, WordsAreText
  <2> QED BY <2>2
<1>2. input' = w /\ cursor' = 1 /\ menu' = TRUE /\ UNCHANGED <<blocks, pasted, history, index, draft>>
  BY DEF OpenMenu, Becomes, past
<1> HIDE DEF w
<1>3. Open(w, Recorded) = {}
  BY <1>1 DEF Open
<1>4. Labelled(w, draft, Recorded, pasted)
  BY <1>3, NoLabels DEF TextInv, LabelInv
<1>5. TextOK'
  <2>1. input' \in Seq(Cells) /\ cursor' \in 0 .. Len(input') /\ menu' \in BOOLEAN
    BY <1>1, <1>2
  <2> QED BY <1>2, <2>1 DEF TextInv, TextOK
<1>6. LabelInv'
  BY <1>2, <1>4, RecordedStays DEF TextInv, LabelInv
<1> QED BY <1>5, <1>6 DEF TextInv

LEMMA Exchanged ==
  ASSUME NEW t, NEW u, NEW old, NEW n, Labelled(t, u, old, n)
  PROVE  Labelled(u, t, old, n)
BY DEF Labelled, Apart

LEMMA FromTheHistory ==
  ASSUME NEW i \in 1 .. Len(history), history \in Seq(Seq(Cells))
  PROVE  history[i] \in Seq(Cells) /\ Open(history[i], Recorded) = {}
<1>1. history[i] \in Seq(Cells)
  BY ElementOfSeq
<1>2. Opened(history[i]) \subseteq Recorded
  BY DEF Recorded
<1>3. ASSUME NEW j \in Open(history[i], Recorded) PROVE FALSE
  BY <1>2, <1>3 DEF Open, Opened
<1> QED BY <1>1, <1>3

LEMMA RecallKeepsInv ==
  ASSUME TextInv, NEW key \in {"up", "down"}, Recall(key)
  PROVE  TextInv'
<1> DEFINE to == IF key = "up" THEN index + 1 ELSE index - 1
           t  == IF to = 0 THEN draft ELSE history[Len(history) + 1 - to]
<1>1. CASE UNCHANGED typed
  BY <1>1, IdleKeepsInv
<1>2. CASE history # <<>> /\ to \in 0 .. Len(history)
  <2>1. /\ index' = to /\ draft' = (IF index = 0 THEN input ELSE IF to = 0 THEN <<>> ELSE draft)
        /\ input' = t /\ cursor' = Len(t)
        /\ UNCHANGED <<history, blocks, pasted, menu>>
    BY <1>2 DEF Recall, Becomes, AtEnd
  <2>2. /\ input \in Seq(Cells) /\ draft \in Seq(Cells) /\ history \in Seq(Seq(Cells))
        /\ index \in 0 .. Len(history) /\ Labelled(input, draft, Recorded, pasted)
    BY DEF TextInv, TextOK, LabelInv
  <2>3. Len(history) \in Nat
    BY <2>2, LenProperties, Zenon
  <2>4. to \in 0 .. Len(history) /\ (index = 0 => to # 0) /\ index \in Nat
    BY <1>2, <2>2, <2>3
  <2>5. to # 0 => Len(history) + 1 - to \in 1 .. Len(history)
    BY <2>3, <2>4
  <2> HIDE DEF to
  <2>6. to # 0 => t \in Seq(Cells) /\ Open(t, Recorded) = {}
    BY <2>2, <2>5, FromTheHistory
  <2>7. to = 0 => t = draft
    OBVIOUS
  <2> HIDE DEF t
  <2>8. Labelled(t, draft', Recorded, pasted)
    <3>1. CASE index = 0
      BY <2>1, <2>2, <2>4, <2>6, <3>1, NoLabels
    <3>2. CASE index # 0 /\ to = 0
      BY <2>1, <2>2, <2>7, <3>2, EmptyText, NoLabels, Exchanged
    <3>3. CASE index # 0 /\ to # 0
      BY <2>1, <2>2, <2>6, <3>3, NoLabels
    <3> QED BY <3>1, <3>2, <3>3
  <2>9. t \in Seq(Cells) /\ draft' \in Seq(Cells) /\ (to = 0 => draft' = <<>>)
    BY <2>1, <2>2, <2>4, <2>6, <2>7
  <2>10. input' \in Seq(Cells) /\ cursor' \in 0 .. Len(input')
    <3>1. Len(t) \in Nat
      BY <2>9, LenProperties, Zenon
    <3> QED BY <2>1, <2>9, <3>1
  <2>11. TextOK'
    BY <2>1, <2>4, <2>9, <2>10 DEF TextInv, TextOK
  <2>12. LabelInv'
    BY <2>1, <2>8, <2>9, RecordedStays DEF LabelInv
  <2> QED BY <2>11, <2>12 DEF TextInv
<1> QED BY <1>1, <1>2 DEF Recall

LEMMA ResolvedIsText ==
  ASSUME NEW t \in Seq(Cells), \A n \in DOMAIN blocks : blocks[n] \in Nat
  PROVE  Resolved(t) \in Seq(Cells)
<1> DEFINE Known(i) == LabelAt(t, i) /\ t[i].n \in DOMAIN blocks
           Part(i)  == IF Known(i) THEN <<Cell("content", blocks[t[i].n])>>
                       ELSE IF i > 1 /\ Known(i - 1) THEN <<>> ELSE <<t[i]>>
           parts    == [i \in 1 .. Len(t) |-> Part(i)]
<1>1. ASSUME NEW i \in 1 .. Len(t) PROVE Part(i) \in Seq(Cells)
  <2>1. t[i] \in Cells
    BY ElementOfSeq
  <2>2. Known(i) => Cell("content", blocks[t[i].n]) \in Cells
    BY CellsAre
  <2> HIDE DEF Known
  <2> QED BY <2>1, <2>2
<1>2. Len(t) \in Nat
  OBVIOUS
<1> HIDE DEF Part
<1>3. parts \in Seq(Seq(Cells))
  BY <1>1, <1>2
<1>4. Resolved(t) = FlattenSeq(parts)
  BY Zenon DEF Resolved, Part
<1> HIDE DEF parts
<1> QED BY <1>3, <1>4, FlattenIsSeq

LEMMA RememberedIsHistory ==
  ASSUME NEW t \in Seq(Cells), history \in Seq(Seq(Cells)), Len(history) <= MaxHistory
  PROVE  Remembered(t) \in Seq(Seq(Cells)) /\ Len(Remembered(t)) <= MaxHistory
<1> DEFINE all == Append(history, t)
           from == 1 + IF Len(all) > MaxHistory THEN 1 ELSE 0
<1>1. all \in Seq(Seq(Cells)) /\ Len(all) = Len(history) + 1 /\ Len(history) \in Nat
  OBVIOUS
<1>2. MaxHistory \in Nat
  BY PromptAssumption
<1> HIDE DEF all
<1>3. from \in {1, 2} /\ from <= Len(all) + 1 /\ Len(all) - from + 1 <= MaxHistory
  BY <1>1, <1>2
<1> HIDE DEF from
<1>4. \A i \in from .. Len(all) : all[i] \in Seq(Cells)
  <2>1. \A i \in from .. Len(all) : i \in 1 .. Len(all)
    BY <1>1, <1>3
  <2> QED BY <1>1, <2>1, ElementOfSeq
<1>5. /\ SubSeq(all, from, Len(all)) \in Seq(Seq(Cells))
      /\ Len(SubSeq(all, from, Len(all))) = IF from <= Len(all) THEN Len(all) - from + 1 ELSE 0
  BY <1>1, <1>3, <1>4, SubSeqProperties
<1>6. Len(SubSeq(all, from, Len(all))) <= MaxHistory
  BY <1>1, <1>2, <1>3, <1>5
<1>7. Remembered(t) = (IF history # <<>> /\ Last(history) = t THEN history ELSE SubSeq(all, from, Len(all)))
  BY Zenon DEF Remembered, all, from
<1> QED BY <1>5, <1>6, <1>7

LEMMA SubmitKeepsInv ==
  ASSUME TextInv, Submit
  PROVE  TextInv'
<1>1. CASE UNCHANGED typed
  BY <1>1, IdleKeepsInv
<1>2. CASE ~ Blank(input)
  <2>1. /\ history' = Remembered(Resolved(input)) /\ index' = 0 /\ draft' = <<>>
        /\ input' = <<>> /\ cursor' = 0 /\ UNCHANGED <<blocks, pasted, menu>>
    BY <1>2 DEF Submit, Becomes
  <2>2. Resolved(input) \in Seq(Cells)
    BY ResolvedIsText DEF TextInv, TextOK
  <2>3. history' \in Seq(Seq(Cells)) /\ Len(history') <= MaxHistory
    BY <2>1, <2>2, RememberedIsHistory DEF TextInv, TextOK
  <2>4. Len(history') \in Nat
    BY <2>3, LenProperties, Zenon
  <2>5. TextOK'
    BY <2>1, <2>3, <2>4 DEF TextInv, TextOK
  <2>6. \A old, n : Labelled(<<>>, <<>>, old, n)
    BY EmptyText DEF Labelled, Single, Apart, Counted
  <2>7. LabelInv'
    BY <2>1, <2>6 DEF LabelInv
  <2> QED BY <2>5, <2>7 DEF TextInv
<1> QED BY <1>1, <1>2 DEF Submit

-----------------------------------------------------------------------------
(* The handler. *)

LEMMA MessageKeyCases ==
  ASSUME NEW key, NEW chars, MessageKey(key, chars)
  PROVE  \/ CutToEnd
         \/ key \in {"^A", "^E", "^U", "^W", "left", "right", "word left", "word right"} /\ Edit(key)
         \/ key \in {"up", "down"} /\ Recall(key)
         \/ Submit \/ Backspace \/ (input = <<>> /\ OpenMenu) \/ Paste \/ Type(chars)
<1>1. CASE key = "^K"
  BY <1>1, Zenon DEF MessageKey
<1>2. CASE key \in {"^A", "^E", "^U", "^W", "left", "right", "word left", "word right"}
  BY <1>2, Zenon DEF MessageKey
<1>3. CASE key \in {"up", "down"}
  BY <1>3, Zenon DEF MessageKey
<1>4. CASE key = "return"
  BY <1>4, Zenon DEF MessageKey
<1>5. CASE key = "backspace"
  BY <1>5, Zenon DEF MessageKey
<1>6. CASE key = "/" /\ input = <<>>
  BY <1>6, Zenon DEF MessageKey
<1>7. CASE key = "paste"
  BY <1>7, Zenon DEF MessageKey
<1> QED BY <1>1, <1>2, <1>3, <1>4, <1>5, <1>6, <1>7, ZenonT(40) DEF MessageKey

LEMMA MessageKeyKeepsInv ==
  ASSUME TextInv, NEW key, NEW chars \in Seq(Pieces), MessageKey(key, chars)
  PROVE  TextInv'
<1>2. CASE CutToEnd
  BY <1>2, CutToEndKeepsInv
<1>3. CASE key \in {"^A", "^E", "^U", "^W", "left", "right", "word left", "word right"} /\ Edit(key)
  BY <1>3, EditKeyKeepsInv
<1>4. CASE key \in {"up", "down"} /\ Recall(key)
  BY <1>4, RecallKeepsInv
<1>5. CASE Submit
  BY <1>5, SubmitKeepsInv
<1>6. CASE Backspace
  BY <1>6, BackspaceKeepsInv
<1>7. CASE input = <<>> /\ OpenMenu
  BY <1>7, OpenMenuKeepsInv
<1>8. CASE Paste
  BY <1>8, PasteKeepsInv
<1>9. CASE Type(chars)
  BY <1>9, TypeKeepsInv
<1> QED BY <1>2, <1>3, <1>4, <1>5, <1>6, <1>7, <1>8, <1>9, MessageKeyCases

LEMMA AnswerKeepsQuestions ==
  ASSUME asked \subseteq Questions, NEW key, Answer(key)
  PROVE  asked' \subseteq Questions
BY DEF Answer, Questions

LEMMA KeyCases ==
  ASSUME NEW key, NEW chars, Key(key, chars)
  PROVE  \/ UNCHANGED <<typed, asked>>
         \/ Answer(key) /\ UNCHANGED typed
         \/ asked = {} /\ MenuKey(key, chars) /\ UNCHANGED asked
         \/ asked = {} /\ asked' = {"quit"} /\ UNCHANGED typed
         \/ asked = {} /\ MessageKey(key, chars) /\ UNCHANGED asked
BY DEF Key

LEMMA KeyKeepsInv ==
  ASSUME TextInv, asked \subseteq Questions, NEW key, NEW chars \in Seq(Pieces), Key(key, chars)
  PROVE  TextInv' /\ asked' \subseteq Questions
<1>2. CASE UNCHANGED <<typed, asked>>
  BY <1>2, IdleKeepsInv
<1>3. CASE Answer(key) /\ UNCHANGED typed
  BY <1>3, IdleKeepsInv, AnswerKeepsQuestions
<1>4. CASE MenuKey(key, chars) /\ UNCHANGED asked
  BY <1>4, MenuKeyKeepsInv
<1>5. CASE asked' = {"quit"} /\ UNCHANGED typed
  BY <1>5, IdleKeepsInv DEF Questions
<1>6. CASE MessageKey(key, chars) /\ UNCHANGED asked
  BY <1>6, MessageKeyKeepsInv
<1> QED BY <1>2, <1>3, <1>4, <1>5, <1>6, KeyCases

LEMMA StrippedIs ==
  ASSUME NEW chunk \in Seq(Pieces), chunk # <<>>
  PROVE  \E off \in {0, 1} :
           /\ off = 1 <=> chunk[1] = "esc"
           /\ Stripped(chunk) \in Seq(Pieces)
           /\ Len(Stripped(chunk)) = Len(chunk) - off
           /\ \A i \in 1 .. Len(chunk) - off : Stripped(chunk)[i] = chunk[i + off]
<1>1. /\ Tail(chunk) \in Seq(Pieces) /\ Len(Tail(chunk)) = Len(chunk) - 1 /\ Len(chunk) \in Nat
      /\ \A i \in 1 .. Len(chunk) - 1 : Tail(chunk)[i] = chunk[i + 1]
      /\ Head(chunk) = chunk[1]
  OBVIOUS
<1>2. CASE chunk[1] = "esc"
  <2>1. Stripped(chunk) = Tail(chunk)
    BY <1>1, <1>2 DEF Stripped
  <2> QED BY <1>1, <1>2, <2>1
<1>3. CASE chunk[1] # "esc"
  <2>1. Stripped(chunk) = chunk
    BY <1>1, <1>3 DEF Stripped
  <2>2. Len(chunk) = Len(chunk) - 0 /\ \A i \in 1 .. Len(chunk) - 0 : chunk[i] = chunk[i + 0]
    BY <1>1
  <2> WITNESS 0 \in {0, 1}
  <2> QED BY <1>1, <1>3, <2>1, <2>2
<1> QED BY <1>2, <1>3

LEMMA PrintedIs ==
  ASSUME NEW s \in Seq(Pieces)
  PROVE  Printed(s) \in Seq(Pieces)
<1> DEFINE parts == [i \in 1 .. Len(s) |-> IF s[i] = "esc" THEN <<>> ELSE <<s[i]>>]
<1>1. parts \in Seq(Seq(Pieces))
  <2>1. \A i \in 1 .. Len(s) : s[i] \in Pieces
    BY ElementOfSeq
  <2>2. Len(s) \in Nat
    OBVIOUS
  <2> QED BY <2>1, <2>2
<1> HIDE DEF parts
<1>2. FlattenSeq(parts) \in Seq(Pieces)
  BY <1>1, FlattenIsSeq
<1> QED BY <1>2 DEF Printed, parts

LEMMA HandleKeepsInv ==
  ASSUME TextInv, asked \subseteq Questions, NEW chunk \in Seq(Pieces), chunk # <<>>, Handle(chunk)
  PROVE  TextInv' /\ asked' \subseteq Questions
<1>1. Printed(Stripped(chunk)) \in Seq(Pieces)
  BY StrippedIs, PrintedIs
<1>2. UNCHANGED <<typed, asked>> \/ Key(KeyOf(chunk), Printed(Stripped(chunk)))
  BY DEF Handle
<1>3. CASE UNCHANGED <<typed, asked>>
  BY <1>3, IdleKeepsInv
<1>4. CASE Key(KeyOf(chunk), Printed(Stripped(chunk)))
  BY <1>1, <1>4, KeyKeepsInv
<1> QED BY <1>2, <1>3, <1>4

-----------------------------------------------------------------------------
(* What is read. *)

LEMMA PiecesAre ==
  "esc" \in Pieces /\ "body" \in Pieces /\ "end" \in Pieces /\ "paste" \in Pieces /\ "y" \in Pieces /\ "up" \in Pieces
BY DEF Pieces, Arrows

LEMMA Tuples ==
  ASSUME NEW S, NEW a \in S, NEW b \in S, NEW c \in S
  PROVE  /\ <<a>> \in Seq(S) /\ Len(<<a>>) = 1 /\ <<a>>[1] = a
         /\ <<a, b>> \in Seq(S) /\ Len(<<a, b>>) = 2 /\ <<a, b>>[1] = a /\ <<a, b>>[2] = b
         /\ <<a, b, c>> \in Seq(S) /\ Len(<<a, b, c>>) = 3
         /\ <<a, b, c>>[1] = a /\ <<a, b, c>>[2] = b /\ <<a, b, c>>[3] = c
OBVIOUS

LEMMA ReportIs ==
  Report \in Seq(Pieces) /\ Len(Report) = 3 /\ Report[1] = "esc" /\ Report[2] = "body" /\ Report[3] = "end"
BY PiecesAre, Tuples, Zenon DEF Report

\* The body of a report stands second in a stroke, behind its escape.
LEMMA StrokesAre ==
  ASSUME NEW s \in Strokes
  PROVE  /\ s \in Seq(Pieces) /\ s # <<>>
         /\ \A i \in 1 .. Len(s) : s[i] = "body" => i = 2 /\ s[1] = "esc"
<1>1. CASE s = Report
  BY <1>1, ReportIs
<1>2. ASSUME NEW k \in Pieces, k # "body", s = <<k>>
      PROVE  s \in Seq(Pieces) /\ Len(s) = 1 /\ s[1] # "body"
  BY <1>2
<1>3. CASE s \in {<<"esc", a>> : a \in Arrows}
  <2>1. PICK a \in Arrows : s = <<"esc", a>>
    BY <1>3
  <2>2. a \in Pieces /\ a # "body"
    BY DEF Pieces, Arrows
  <2>3. s \in Seq(Pieces) /\ Len(s) = 2 /\ s[1] = "esc" /\ s[2] = a
    BY <2>1, <2>2, PiecesAre, Tuples, Zenon
  <2> QED BY <2>2, <2>3
<1>4. CASE s \in {<<k>> : k \in Controls \cup Letters}
  <2>1. PICK k \in Controls \cup Letters : s = <<k>>
    BY <1>4
  <2>2. k \in Pieces /\ k # "body"
    BY PromptAssumption DEF Pieces, Controls
  <2> QED BY <1>2, <2>1, <2>2
<1>5. CASE s = <<"esc">> \/ s = <<"paste">>
  <2>1. PICK k \in {"esc", "paste"} : s = <<k>>
    BY <1>5
  <2> QED BY <1>2, <2>1, PiecesAre
<1> QED BY <1>1, <1>3, <1>4, <1>5 DEF Strokes

LEMMA BurstsAre ==
  ASSUME NEW s \in Bursts
  PROVE  /\ s \in Seq(Pieces)
         /\ \A i \in 1 .. Len(s) : s[i] = "body" => i + 1 = Len(s) /\ s[i + 1] = "end"
<1>1. CASE s = Report
  BY <1>1, ReportIs
<1>2. CASE s = <<"y">> \o Report
  <2> DEFINE y == <<"y">>
  <2>1. y \in Seq(Pieces) /\ Len(y) = 1 /\ y[1] = "y"
    BY PiecesAre, Tuples, Zenon
  <2> HIDE DEF y
  <2>2. /\ y \o Report \in Seq(Pieces) /\ Len(y \o Report) = Len(y) + Len(Report)
        /\ \A i \in 1 .. Len(y) + Len(Report) :
             (y \o Report)[i] = IF i <= Len(y) THEN y[i] ELSE Report[i - Len(y)]
    BY <2>1, ReportIs, ConcatProperties
  <2>3. s = y \o Report
    BY <1>2 DEF y
  <2>4. s \in Seq(Pieces) /\ Len(s) = 4 /\ \A i \in 1 .. 4 : s[i] = IF i <= 1 THEN "y" ELSE Report[i - 1]
    BY <2>1, <2>2, <2>3, ReportIs
  <2>5. s[1] = "y" /\ s[2] = "esc" /\ s[3] = "body" /\ s[4] = "end"
    BY <2>4, ReportIs
  <2> QED BY <2>4, <2>5
<1>3. CASE s = <<"esc", "up">>
  <2>1. s \in Seq(Pieces) /\ Len(s) = 2 /\ s[1] = "esc" /\ s[2] = "up"
    BY <1>3, PiecesAre, Tuples, Zenon
  <2> QED BY <2>1
<1> QED BY <1>1, <1>2, <1>3 DEF Bursts

\* A stroke that comes alone is never held back.
LEMMA PressKeepsReadInv ==
  ASSUME ReadInv, NEW s \in Strokes, Press(s)
  PROVE  ReadInv'
<1>1. held = <<>> /\ stdin' = stdin /\ stdin = <<>>
  <2>1. stdin = <<>> /\ stdin' = stdin
    BY DEF Press
  <2>2. Len(stdin) # 1
    BY <2>1
  <2> QED BY <2>1, <2>2 DEF ReadInv
<1>2. PICK off \in {0, 1} :
        /\ off = 1 <=> s[1] = "esc"
        /\ Len(Stripped(s)) = Len(s) - off
        /\ \A i \in 1 .. Len(s) - off : Stripped(s)[i] = s[i + off]
  BY StrokesAre, StrippedIs
<1>3. Len(s) \in Nat /\ \A i \in 1 .. Len(s) : s[i] = "body" => i = 2 /\ s[1] = "esc"
  BY StrokesAre, LenProperties
<1>4. ~ HasLead(Stripped(s))
  <2> SUFFICES ASSUME NEW i \in 1 .. Len(Stripped(s)) - 1, Stripped(s)[i + 1] = "body" PROVE FALSE
    BY DEF HasLead, Holds
  <2>1. i + 1 \in 1 .. Len(s) - off /\ (i + 1) + off \in 1 .. Len(s)
    BY <1>2, <1>3
  <2>2. s[(i + 1) + off] = "body"
    BY <1>2, <2>1
  <2>3. (i + 1) + off = 2 /\ off = 1
    BY <1>2, <1>3, <2>1, <2>2
  <2> QED BY <2>3
<1>5. UNCHANGED held
  BY <1>1, <1>4, Zenon DEF Press, Handle, Buffered
<1> QED BY <1>1, <1>5 DEF ReadInv

LEMMA BurstKeepsReadInv ==
  ASSUME ReadInv, NEW s \in Bursts, Burst(s)
  PROVE  ReadInv'
<1>1. held = <<>> /\ stdin' = s /\ held' = held
  <2>1. stdin = <<>> /\ stdin' = s /\ held' = held
    BY DEF Burst
  <2>2. Len(stdin) # 1
    BY <2>1
  <2> QED BY <2>1, <2>2 DEF ReadInv
<1>2. /\ s \in Seq(Pieces)
      /\ \A i \in 1 .. Len(s) : s[i] = "body" => i + 1 = Len(s) /\ s[i + 1] = "end"
  BY BurstsAre
<1> QED BY <1>1, <1>2 DEF ReadInv

\* What is left of a burst, and what was taken of it.
LEMMA PortionsOf ==
  ASSUME NEW s \in Seq(Pieces), NEW k \in 1 .. Len(s)
  PROVE  /\ SubSeq(s, 1, k) \in Seq(Pieces) /\ SubSeq(s, 1, k) # <<>> /\ Len(SubSeq(s, 1, k)) = k
         /\ SubSeq(s, k + 1, Len(s)) \in Seq(Pieces) /\ Len(SubSeq(s, k + 1, Len(s))) = Len(s) - k
         /\ \A i \in 1 .. k : SubSeq(s, 1, k)[i] = s[i]
         /\ \A i \in 1 .. Len(s) - k : SubSeq(s, k + 1, Len(s))[i] = s[i + k]
<1>0. Len(s) \in Nat /\ k \in Int /\ k + 1 \in Int
  OBVIOUS
<1>1. \A i \in 1 .. k : s[i] \in Pieces
  BY ElementOfSeq
<1>2. \A i \in k + 1 .. Len(s) : s[i] \in Pieces
  BY ElementOfSeq
<1>3. /\ SubSeq(s, 1, k) \in Seq(Pieces) /\ Len(SubSeq(s, 1, k)) = k
      /\ \A i \in 1 .. k : SubSeq(s, 1, k)[i] = s[i]
  BY <1>0, <1>1, SubSeqProperties
<1>4. /\ SubSeq(s, k + 1, Len(s)) \in Seq(Pieces)
      /\ Len(SubSeq(s, k + 1, Len(s))) = (IF k + 1 <= Len(s) THEN Len(s) - (k + 1) + 1 ELSE 0)
      /\ \A i \in 1 .. Len(s) - (k + 1) + 1 : SubSeq(s, k + 1, Len(s))[i] = s[(k + 1) + i - 1]
  BY <1>0, <1>2, SubSeqProperties
<1>5. Len(SubSeq(s, k + 1, Len(s))) = Len(s) - k /\ Len(s) - (k + 1) + 1 = Len(s) - k
  BY <1>0, <1>4
<1>6. ASSUME NEW i \in 1 .. Len(s) - k PROVE SubSeq(s, k + 1, Len(s))[i] = s[i + k]
  <2>1. i \in 1 .. Len(s) - (k + 1) + 1 /\ (k + 1) + i - 1 = i + k
    BY <1>0
  <2> QED BY <1>4, <2>1
<1>7. SubSeq(s, 1, k) # <<>>
  BY <1>3
<1> QED BY <1>3, <1>4, <1>5, <1>6, <1>7

\* What is held back is waiting for the one piece that is left; anything else goes on to the
\* keys, or is a whole report.
LEMMA ReadKeepsReadInv ==
  ASSUME ReadInv, NEW k \in 1 .. Len(stdin), Read(k)
  PROVE  ReadInv'
<1> DEFINE chunk == SubSeq(stdin, 1, k)
           char  == Stripped(chunk)
<1>1. /\ stdin \in Seq(Pieces) /\ held \in Seq(Pieces) /\ Len(stdin) \in Nat
      /\ \A i \in 1 .. Len(stdin) : stdin[i] = "body" => i + 1 = Len(stdin) /\ stdin[i + 1] = "end"
      /\ held # <<>> => held[Len(held)] = "body" /\ Len(stdin) = 1 /\ stdin[1] = "end"
  BY LenProperties DEF ReadInv
<1>2. /\ chunk \in Seq(Pieces) /\ chunk # <<>> /\ Len(chunk) = k /\ \A i \in 1 .. k : chunk[i] = stdin[i]
      /\ stdin' \in Seq(Pieces) /\ Len(stdin') = Len(stdin) - k
      /\ \A i \in 1 .. Len(stdin) - k : stdin'[i] = stdin[i + k]
  <2>1. stdin' = SubSeq(stdin, k + 1, Len(stdin))
    BY DEF Read
  <2> QED BY <1>1, <2>1, PortionsOf
<1>3. /\ Buffered(chunk) =>
           held' = IF HasReport(held \o char) \/ Len(held \o char) >= MaxHeld THEN <<>> ELSE held \o char
      /\ ~ Buffered(chunk) => held' = held
  BY DEF Read, Handle
<1> HIDE DEF chunk
<1>4. PICK off \in {0, 1} :
        /\ off = 1 <=> chunk[1] = "esc"
        /\ char \in Seq(Pieces) /\ Len(char) = k - off
        /\ \A i \in 1 .. k - off : char[i] = chunk[i + off]
  BY <1>2, StrippedIs
<1>5. Buffered(chunk) <=> held # <<>> \/ HasLead(char)
  BY DEF Buffered
<1> HIDE DEF char
<1>6. \A i \in 1 .. Len(stdin') : stdin'[i] = "body" => i + 1 = Len(stdin') /\ stdin'[i + 1] = "end"
  <2> SUFFICES ASSUME NEW i \in 1 .. Len(stdin'), stdin'[i] = "body"
               PROVE  i + 1 = Len(stdin') /\ stdin'[i + 1] = "end"
    OBVIOUS
  <2>1. i + k \in 1 .. Len(stdin) /\ stdin[i + k] = "body" /\ i \in Nat
    BY <1>1, <1>2
  <2>2. (i + k) + 1 = Len(stdin) /\ stdin[(i + k) + 1] = "end"
    BY <1>1, <2>1
  <2>3. i + 1 = Len(stdin') /\ i + 1 \in 1 .. Len(stdin) - k /\ (i + 1) + k = (i + k) + 1
    BY <1>1, <1>2, <2>1, <2>2
  <2> QED BY <1>2, <2>2, <2>3
<1>7. CASE held # <<>>
  <2>1. k = 1 /\ chunk[1] = "end"
    <3>1. Len(stdin) = 1 /\ stdin[1] = "end"
      BY <1>1, <1>7
    <3>2. k = 1
      BY <3>1
    <3> QED BY <1>2, <3>1, <3>2
  <2>2. off = 0 /\ Len(char) = 1 /\ char[1] = "end"
    BY <1>4, <2>1
  <2>3. Len(held) \in Nat /\ Len(held) # 0
    BY <1>1, <1>7, EmptySeq
  <2>4. /\ Len(held \o char) = Len(held) + 1
        /\ (held \o char)[Len(held)] = "body" /\ (held \o char)[Len(held) + 1] = "end"
    BY <1>1, <1>4, <1>7, <2>2, <2>3, ConcatProperties
  <2> DEFINE combined == held \o char
  <2>5. HasReport(combined)
    <3> HIDE DEF combined
    <3>1. Len(held) \in 1 .. Len(combined) - 1
      BY <2>3, <2>4 DEF combined
    <3> QED BY <2>4, <3>1 DEF HasReport, Holds, combined
  <2>6. held' = <<>>
    BY <1>3, <1>5, <1>7, <2>5
  <2> QED BY <1>2, <1>6, <2>6 DEF ReadInv
<1>8. CASE held = <<>> /\ HasLead(char)
  <2>1. PICK i \in 1 .. Len(char) - 1 : char[i + 1] = "body"
    BY <1>8 DEF HasLead, Holds
  <2> DEFINE p == (i + 1) + off
  <2>2. p \in 1 .. k /\ p \in 1 .. Len(stdin) /\ i + 1 \in 1 .. k - off /\ p \in Nat /\ k \in Nat /\ k <= Len(stdin)
    BY <1>1, <1>4
  <2>3. stdin[p] = "body"
    BY <1>2, <1>4, <2>1, <2>2
  <2>4. p + 1 = Len(stdin) /\ stdin[p + 1] = "end"
    BY <1>1, <2>2, <2>3
  <2>5. held \o char = char
    BY <1>4, <1>8, ConcatEmptySeq
  <2>6. CASE k = p
    <3>1. Len(stdin') = 1 /\ stdin'[1] = "end"
      <4>1. Len(stdin) - k = 1 /\ 1 \in 1 .. Len(stdin) - k /\ 1 + k = p + 1
        BY <2>2, <2>4, <2>6
      <4> QED BY <1>2, <2>4, <4>1
    <3>2. Len(char) = i + 1
      BY <1>4, <2>2, <2>6
    <3>3. held' = <<>> \/ held' = char
      BY <1>3, <1>5, <1>8, <2>5
    <3> QED BY <1>2, <1>4, <1>6, <2>1, <3>1, <3>2, <3>3 DEF ReadInv
  <2>7. CASE k = p + 1
    <3>1. i + 1 \in 1 .. Len(char) - 1 /\ (i + 1) + 1 \in 1 .. k - off /\ ((i + 1) + 1) + off = p + 1
      BY <1>4, <2>2, <2>7
    <3>2. char[(i + 1) + 1] = "end"
      BY <1>2, <1>4, <2>4, <2>7, <3>1
    <3>3. HasReport(char)
      BY <2>1, <3>1, <3>2 DEF HasReport, Holds
    <3>4. held' = <<>>
      BY <1>3, <1>5, <1>8, <2>5, <3>3
    <3> QED BY <1>2, <1>6, <3>4 DEF ReadInv
  <2> QED BY <2>2, <2>4, <2>6, <2>7
<1>9. CASE held = <<>> /\ ~ HasLead(char)
  BY <1>2, <1>3, <1>5, <1>6, <1>9 DEF ReadInv
<1> QED BY <1>7, <1>8, <1>9

-----------------------------------------------------------------------------
(* Every step. *)

PromptIInv == TextInv /\ ReadInv /\ asked \subseteq Questions

LEMMA NothingTyped ==
  /\ \A S : <<>> \in Seq(S)
  /\ Len(<<>>) = 0 /\ DOMAIN <<>> = {} /\ 0 \in 0 .. 0 /\ 0 \in 0 .. MaxPastes /\ 0 <= MaxHistory
  /\ \A l \in Nat : 0 \in 0 .. l
BY PromptAssumption

LEMMA InitHasInv ==
  ASSUME Init
  PROVE  PromptIInv
<1>1. TextOK
  BY NothingTyped DEF Init, TextOK
<1>2. \A old, n : Labelled(<<>>, <<>>, old, n)
  BY EmptyText DEF Labelled, Single, Apart, Counted
<1>3. LabelInv
  BY <1>2 DEF Init, LabelInv
<1>4. ReadInv /\ asked \subseteq Questions
  BY DEF Init, ReadInv, Questions
<1> QED BY <1>1, <1>3, <1>4 DEF PromptIInv, TextInv

LEMMA RestartKeepsInv ==
  ASSUME PromptIInv, Restart
  PROVE  PromptIInv'
<1>1. /\ stdin' = <<>> /\ held' = <<>> /\ input' = <<>> /\ cursor' = 0 /\ blocks' = <<>> /\ pasted' = 0
      /\ index' = 0 /\ draft' = <<>> /\ menu' = FALSE /\ history' \in {history, <<>>}
      /\ asked' \in {{}, {"resume"}}
  BY DEF Restart, Becomes
<1>2. history' \in Seq(Seq(Cells)) /\ Len(history') <= MaxHistory /\ Len(history') \in Nat
  <2>1. history \in Seq(Seq(Cells)) /\ Len(history) <= MaxHistory /\ Len(history) \in Nat
    BY LenProperties DEF PromptIInv, TextInv, TextOK
  <2>2. CASE history' = history
    BY <2>1, <2>2
  <2>3. CASE history' = <<>>
    BY <2>3, NothingTyped
  <2> QED BY <1>1, <2>2, <2>3
<1>3. TextOK'
  <2>1. input' \in Seq(Cells) /\ cursor' \in 0 .. Len(input') /\ draft' \in Seq(Cells)
    BY <1>1, NothingTyped
  <2>2. pasted' \in 0 .. MaxPastes /\ DOMAIN blocks' = {}
    BY <1>1, NothingTyped
  <2>3. index' \in 0 .. Len(history') /\ menu' \in BOOLEAN
    BY <1>1, <1>2, NothingTyped, Zenon
  <2> QED BY <1>2, <2>1, <2>2, <2>3 DEF TextOK
<1>4. \A old, n : Labelled(<<>>, <<>>, old, n)
  BY EmptyText DEF Labelled, Single, Apart, Counted
<1>5. LabelInv'
  BY <1>1, <1>4 DEF LabelInv
<1>6. ReadInv' /\ asked' \subseteq Questions
  BY <1>1 DEF ReadInv, Questions
<1> QED BY <1>3, <1>5, <1>6 DEF PromptIInv, TextInv

LEMMA NextKeepsInv ==
  ASSUME PromptIInv, [Next]_vars
  PROVE  PromptIInv'
<1>0. TextInv /\ ReadInv /\ asked \subseteq Questions
  BY DEF PromptIInv
<1>1. ASSUME NEW s \in Strokes, Press(s) PROVE PromptIInv'
  <2>1. ReadInv'
    BY <1>0, <1>1, PressKeepsReadInv
  <2>2. TextInv' /\ asked' \subseteq Questions
    BY <1>0, <1>1, StrokesAre, HandleKeepsInv DEF Press
  <2> QED BY <2>1, <2>2 DEF PromptIInv
<1>2. ASSUME NEW s \in Bursts, Burst(s) PROVE PromptIInv'
  <2>1. ReadInv'
    BY <1>0, <1>2, BurstKeepsReadInv
  <2>2. UNCHANGED <<typed, asked>>
    BY <1>2 DEF Burst
  <2> QED BY <1>0, <2>1, <2>2, IdleKeepsInv DEF PromptIInv
<1>3. ASSUME NEW k \in 1 .. Len(stdin), Read(k) PROVE PromptIInv'
  <2>1. ReadInv'
    BY <1>0, <1>3, ReadKeepsReadInv
  <2>2. stdin \in Seq(Pieces)
    BY <1>0 DEF ReadInv
  <2>3. SubSeq(stdin, 1, k) \in Seq(Pieces) /\ SubSeq(stdin, 1, k) # <<>>
    BY <2>2, PortionsOf
  <2>4. TextInv' /\ asked' \subseteq Questions
    BY <1>0, <1>3, <2>3, HandleKeepsInv DEF Read
  <2> QED BY <2>1, <2>4 DEF PromptIInv
<1>4. CASE AskApproval \/ BeginQuitting
  <2>1. UNCHANGED <<stdin, held, typed>> /\ asked' \subseteq Questions
    BY <1>0, <1>4 DEF AskApproval, BeginQuitting, Questions
  <2>2. ReadInv'
    BY <1>0, <2>1 DEF ReadInv
  <2> QED BY <1>0, <2>1, <2>2, IdleKeepsInv DEF PromptIInv
<1>5. CASE Restart
  BY <1>5, RestartKeepsInv
<1>6. CASE UNCHANGED vars
  <2>1. UNCHANGED typed /\ UNCHANGED <<stdin, held, asked>>
    BY <1>6 DEF vars, typed, text, past
  <2>2. ReadInv'
    BY <1>0, <2>1 DEF ReadInv
  <2> QED BY <1>0, <2>1, <2>2, IdleKeepsInv DEF PromptIInv
<1> QED BY <1>1, <1>2, <1>3, <1>4, <1>5, <1>6 DEF Next

THEOREM PromptInvariant == Spec => []PromptIInv
<1>1. Init => PromptIInv
  BY InitHasInv
<1>2. PromptIInv /\ [Next]_vars => PromptIInv'
  BY NextKeepsInv
<1> QED BY <1>1, <1>2, PTL DEF Spec

\* The types, the cursor inside the message, and a keyboard that is heard.
THEOREM PromptHolds == Spec => []PromptInv
<1>1. PromptIInv => PromptInv
  <2> SUFFICES ASSUME PromptIInv PROVE PromptInv
    OBVIOUS
  <2>1. TypeOK
    BY DEF PromptIInv, TextInv, TextOK, ReadInv, TypeOK
  <2>2. KeyboardIsNeverHeld
    <3> SUFFICES ASSUME held # <<>> PROVE stdin # <<>> /\ Head(stdin) = "end"
      BY DEF KeyboardIsNeverHeld
    <3>1. stdin \in Seq(Pieces) /\ Len(stdin) = 1 /\ stdin[1] = "end"
      BY DEF PromptIInv, ReadInv
    <3> QED BY <3>1
  <2> QED BY <2>1, <2>2 DEF PromptInv
<1> QED BY <1>1, PromptInvariant, PTL

-----------------------------------------------------------------------------
(* The labels and their blocks. *)

Kept ==
  \A n \in (Attached \cap Attached' \cap DOMAIN blocks) \ Recorded :
    n \in DOMAIN blocks' /\ blocks'[n] = blocks[n]

LEMMA LabelsAreOpen ==
  ASSUME NEW t, NEW old, NEW n \in LabelsOf(t), n \notin old
  PROVE  \E i \in Open(t, old) : t[i].n = n
BY DEF LabelsOf, LabelAt, Open

\* A label that is cut off is not in what is left, nor in the draft.
LEMMA LostLabel ==
  ASSUME NEW t \in Seq(Cells), NEW u, NEW old, NEW m, Labelled(t, u, old, m),
         NEW x \in 1 .. Len(t), t[x].kind = "open", t[x].n \notin old, NEW p \in Nat, p < x
  PROVE  t[x].n \notin LabelsOf(SubSeq(t, 1, p)) /\ t[x].n \notin LabelsOf(u)
<1>1. x \in Open(t, old)
  BY DEF Open
<1>2. ASSUME t[x].n \in LabelsOf(u) PROVE FALSE
  BY <1>1, <1>2, LabelsAreOpen DEF Labelled, Apart
<1> DEFINE w == SubSeq(t, 1, p)
<1>3. Len(w) = p /\ \A i \in 1 .. p : w[i] = t[i] /\ i \in 1 .. Len(t) /\ i # x
  <2>1. Len(t) \in Nat /\ p <= Len(t) /\ \A i \in 1 .. p : i \in 1 .. Len(t) /\ i # x
    OBVIOUS
  <2>2. \A i \in 1 .. p : t[i] \in Cells
    BY <2>1, ElementOfSeq
  <2> QED BY <2>1, <2>2, SubSeqProperties
<1> HIDE DEF w
<1>4. ASSUME t[x].n \in LabelsOf(w) PROVE FALSE
  <2>1. PICK i \in Open(w, old) : w[i].n = t[x].n
    <3>1. ASSUME NEW n, n = t[x].n PROVE \E i \in Open(w, old) : w[i].n = n
      BY <1>4, <3>1, LabelsAreOpen
    <3> QED BY <3>1
  <2>2. i \in 1 .. p /\ w[i].kind = "open" /\ w[i].n \notin old
    BY <1>3, <2>1 DEF Open
  <2>3. i \in Open(t, old) /\ t[i].n = t[x].n /\ i # x
    BY <1>3, <2>1, <2>2 DEF Open
  <2> QED BY <1>1, <2>3 DEF Labelled, Single
<1> QED BY <1>2, <1>4 DEF w

LEMMA CutToEndKeepsLabels ==
  ASSUME TextInv, CutToEnd
  PROVE  Kept
<1>1. /\ input \in Seq(Cells) /\ cursor \in 0 .. Len(input) /\ Labelled(input, draft, Recorded, pasted)
      /\ input' = SubSeq(input, 1, cursor) /\ draft' = draft
  BY DEF TextInv, TextOK, LabelInv, CutToEnd, Becomes, Before, past
<1>2. CASE blocks' = blocks
  BY <1>2 DEF Kept
<1>3. CASE LabelAt(After, 1) /\ blocks' = Without(After[1].n)
  <2>1. Len(After) >= 2 /\ After[1].kind = "open"
    BY <1>3 DEF LabelAt
  <2>2. cursor + 1 \in 1 .. Len(input) /\ After[1] = input[cursor + 1]
    <3>1. Len(input) \in Nat /\ cursor \in Nat /\ cursor <= Len(input)
      BY <1>1
    <3>2. \A i \in cursor + 1 .. Len(input) : input[i] \in Cells
      BY <1>1, <3>1, ElementOfSeq
    <3>3. /\ Len(After) = (IF cursor + 1 <= Len(input) THEN Len(input) - (cursor + 1) + 1 ELSE 0)
          /\ \A i \in 1 .. Len(input) - (cursor + 1) + 1 : After[i] = input[(cursor + 1) + i - 1]
      BY <3>1, <3>2, SubSeqProperties DEF After
    <3>4. cursor + 1 <= Len(input)
      BY <2>1, <3>1, <3>3
    <3>5. 1 \in 1 .. Len(input) - (cursor + 1) + 1 /\ (cursor + 1) + 1 - 1 = cursor + 1
          /\ cursor + 1 \in 1 .. Len(input)
      BY <3>1, <3>4
    <3> QED BY <3>3, <3>5
  <2> DEFINE x == cursor + 1
  <2>3. x \in 1 .. Len(input) /\ input[x].kind = "open" /\ cursor \in Nat /\ cursor < x
    BY <1>1, <2>1, <2>2
  <2>4. blocks' = Without(input[x].n)
    BY <1>3, <2>2
  <2> HIDE DEF x
  <2>5. input[x].n \notin Recorded => input[x].n \notin LabelsOf(input') /\ input[x].n \notin LabelsOf(draft')
    BY <1>1, <2>3, LostLabel
  <2>6. input[x].n \notin Recorded => input[x].n \notin Attached'
    BY <2>5 DEF Attached
  <2> QED BY <2>4, <2>6 DEF Kept, Without
<1> QED BY <1>2, <1>3 DEF CutToEnd

LEMMA BackspaceKeepsLabels ==
  ASSUME TextInv, Backspace
  PROVE  Kept
<1>1. /\ input \in Seq(Cells) /\ cursor \in 0 .. Len(input) /\ Labelled(input, draft, Recorded, pasted)
      /\ draft' = draft /\ Len(input) \in Nat
  BY LenProperties DEF TextInv, TextOK, LabelInv, Backspace, past
<1>2. CASE blocks' = blocks
  BY <1>2 DEF Kept
<1>3. CASE cursor = Len(input) /\ Trailing(input) # {}
  <2> DEFINE m == CHOOSE n \in Trailing(input) : TRUE
             x == Len(input) - 1
  <2>1. m \in Trailing(input)
    BY <1>3
  <2>2. blocks' = Without(m) /\ input' = SubSeq(input, 1, cursor - 2) \o SubSeq(input, cursor + 1, Len(input))
    BY <1>3, Zenon DEF Backspace, Becomes, After
  <2> HIDE DEF m
  <2>3. m \in DOMAIN blocks /\ IsSuffix(Label(m), input)
    BY <2>1 DEF Trailing
  <2>4. m \in Nat
    BY <2>3, PromptAssumption DEF TextInv, TextOK
  <2>5. 2 <= Len(input) /\ input[x].kind = "open" /\ input[x].n = m
    BY <1>1, <2>3, <2>4, TrailingLabel
  <2>6. x \in 1 .. Len(input) /\ cursor - 2 \in Nat /\ cursor - 2 < x /\ cursor - 2 \in 0 .. Len(input)
    BY <1>1, <1>3, <2>5
  <2>7. input' = SubSeq(input, 1, cursor - 2)
    <3>1. SubSeq(input, cursor + 1, Len(input)) = <<>>
      BY <1>1, <1>3, SubSeqEmpty
    <3>2. SubSeq(input, 1, cursor - 2) \in Seq(Cells)
      BY <1>1, <2>6, PiecesOfText
    <3> QED BY <2>2, <3>1, <3>2, ConcatEmptySeq
  <2> HIDE DEF x
  <2>8. m \notin Recorded => m \notin LabelsOf(input') /\ m \notin LabelsOf(draft')
    BY <1>1, <2>5, <2>6, <2>7, LostLabel
  <2>9. m \notin Recorded => m \notin Attached'
    BY <2>8 DEF Attached
  <2> QED BY <2>2, <2>9 DEF Kept, Without
<1> QED BY <1>2, <1>3 DEF Backspace

LEMMA PasteKeepsLabels ==
  ASSUME TextInv, Paste
  PROVE  Kept
<1>1. DOMAIN blocks \subseteq 1 .. pasted /\ pasted \in Nat
  BY PromptAssumption DEF TextInv, TextOK
<1>2. \A n \in DOMAIN blocks : n # 1 + pasted
  BY <1>1
<1>3. /\ DOMAIN blocks' = DOMAIN blocks \cup {1 + pasted}
      /\ \A n \in DOMAIN blocks' : blocks'[n] = (IF n = 1 + pasted THEN 1 + pasted ELSE blocks[n])
  BY DEF Paste, NextNumber
<1> QED BY <1>2, <1>3 DEF Kept

LEMMA RestartKeepsLabels ==
  ASSUME Restart
  PROVE  Kept
<1>1. input' = <<>> /\ index' = 0
  BY DEF Restart, Becomes
<1>2. LabelsOf(<<>>) = {}
  BY DEF LabelsOf
<1>3. Attached' = {}
  BY <1>1, <1>2 DEF Attached
<1> QED BY <1>3 DEF Kept

LEMMA HandleChangesBlocks ==
  ASSUME NEW chunk, Handle(chunk)
  PROVE  blocks' = blocks \/ CutToEnd \/ Backspace \/ Paste
<1>1. UNCHANGED <<typed, asked>> \/ Key(KeyOf(chunk), Printed(Stripped(chunk)))
  BY DEF Handle
<1>2. CASE UNCHANGED typed
  BY <1>2 DEF typed
<1>3. ASSUME NEW key, NEW chars, MenuKey(key, chars) PROVE blocks' = blocks
  BY <1>3 DEF MenuKey
<1>4. ASSUME NEW key, NEW chars, MessageKey(key, chars) PROVE blocks' = blocks \/ CutToEnd \/ Backspace \/ Paste
  <2>1. ASSUME Edit(key) PROVE blocks' = blocks
    BY <2>1, Zenon DEF Edit
  <2>2. ASSUME Recall(key) PROVE blocks' = blocks
    BY <2>2 DEF Recall, typed
  <2>3. Submit => blocks' = blocks
    BY DEF Submit, typed
  <2>4. OpenMenu \/ Type(chars) => blocks' = blocks
    BY DEF OpenMenu, Type
  <2> QED BY <1>4, <2>1, <2>2, <2>3, <2>4, MessageKeyCases
<1> QED BY <1>1, <1>2, <1>3, <1>4, KeyCases

LEMMA NextKeepsLabels ==
  ASSUME PromptIInv, [Next]_vars
  PROVE  Kept
<1>1. TextInv
  BY DEF PromptIInv
<1>2. blocks' = blocks \/ CutToEnd \/ Backspace \/ Paste \/ Restart
  <2>1. CASE (\E s \in Strokes : Press(s)) \/ (\E k \in 1 .. Len(stdin) : Read(k))
    BY <2>1, HandleChangesBlocks DEF Press, Read
  <2>2. CASE (\E s \in Bursts : Burst(s)) \/ AskApproval \/ BeginQuitting \/ UNCHANGED vars
    BY <2>2 DEF Burst, AskApproval, BeginQuitting, vars, typed
  <2> QED BY <2>1, <2>2 DEF Next
<1>3. blocks' = blocks => Kept
  BY DEF Kept
<1> QED BY <1>1, <1>2, <1>3, CutToEndKeepsLabels, BackspaceKeepsLabels, PasteKeepsLabels, RestartKeepsLabels

\* A label that stays in the message keeps its block.
THEOREM PastesStay == Spec => PastesStayAttached
<1>1. PromptIInv /\ [Next]_vars => Kept
  BY NextKeepsLabels
<1> QED BY <1>1, PromptInvariant, PTL DEF Spec, PastesStayAttached, Kept

-----------------------------------------------------------------------------
(* The questions. *)

LEMMA AnsweringIsShown ==
  Answering = Shown
BY DEF Answering, Shown

LEMMA HandleAnswers ==
  ASSUME NEW chunk, Handle(chunk), Shown \notin {"none", "quitting"}
  PROVE  asked \ asked' \subseteq {Shown} /\ typed' = typed
<1>1. asked # {}
  BY DEF Shown
<1>2. UNCHANGED <<typed, asked>> \/ Key(KeyOf(chunk), Printed(Stripped(chunk)))
  BY DEF Handle
<1>3. ASSUME NEW key, Answer(key) PROVE asked \ asked' \subseteq {Shown}
  BY <1>3, AnsweringIsShown DEF Answer
<1>4. UNCHANGED <<typed, asked>> \/ \E key : Answer(key) /\ UNCHANGED typed
  BY <1>1, <1>2, KeyCases
<1> QED BY <1>3, <1>4

LEMMA NextAnswers ==
  ASSUME [Next]_vars, Shown \notin {"none", "quitting"}
  PROVE  asked \ asked' \subseteq {Shown} /\ typed' = typed
<1>1. CASE (\E s \in Strokes : Press(s)) \/ (\E k \in 1 .. Len(stdin) : Read(k))
  BY <1>1, HandleAnswers DEF Press, Read
<1>2. CASE (\E s \in Bursts : Burst(s)) \/ AskApproval \/ BeginQuitting \/ UNCHANGED vars
  BY <1>2 DEF Burst, AskApproval, BeginQuitting, vars, typed, text, past
<1>3. ~ Restart
  BY DEF Restart, Shown
<1> QED BY <1>1, <1>2, <1>3 DEF Next

\* A key answers the question that is shown.
THEOREM AnswersGoWhereTheyShould == Spec => AnswersGoToTheQuestionShown
<1>1. [Next]_vars /\ Shown \notin {"none", "quitting"} => asked \ asked' \subseteq {Shown} /\ typed' = typed
  BY NextAnswers
<1> QED BY <1>1, PTL DEF Spec, AnswersGoToTheQuestionShown

(***************************************************************************)
(* The log.                                                                *)
(***************************************************************************)

-----------------------------------------------------------------------------
(* Lines, and the text of a kind in them. *)

\* What a line adds to the text of a kind, and the text of a kind in some lines.
Part(line, kind)   == IF line.kind = kind THEN line.text ELSE <<>>
Parts(lines, kind) == [i \in DOMAIN lines |-> Part(lines[i], kind)]
Texts(lines, kind) == FlattenSeq(Parts(lines, kind))

\* The lines but the oldest.
Dropped(lines, rest) ==
    /\ rest \in Seq(Line) /\ Len(lines) = Len(rest) + 1
    /\ \A i \in 1 .. Len(rest) : rest[i] = lines[i + 1]

\* The same lines, with other texts in those of one kind.
Redone(lines, again, kind) ==
    /\ again \in Seq(Line) /\ Len(again) = Len(lines)
    /\ \A i \in 1 .. Len(lines) : /\ again[i].id = lines[i].id /\ again[i].kind = lines[i].kind
                                  /\ lines[i].kind # kind => again[i].text = lines[i].text

LEMMA LineFields ==
  ASSUME NEW line \in Line
  PROVE  /\ line.id \in 1 .. MaxId /\ line.kind \in Kinds /\ line.text \in Seq(Nat)
         /\ line.id \in Nat /\ line.id # 0
BY ConstantsAssumption DEF Line, ConstantsAssumption

LEMMA LinesOf ==
  ASSUME NEW lines \in Seq(Line)
  PROVE  /\ Len(lines) \in Nat /\ DOMAIN lines = 1 .. Len(lines)
         /\ \A i \in 1 .. Len(lines) : lines[i] \in Line
BY ElementOfSeq

LEMMA PartsOf ==
  ASSUME NEW lines \in Seq(Line), NEW kind
  PROVE  /\ Parts(lines, kind) \in Seq(Seq(Nat))
         /\ Len(Parts(lines, kind)) = Len(lines)
         /\ \A i \in 1 .. Len(lines) : Parts(lines, kind)[i] = Part(lines[i], kind)
<1>1. Len(lines) \in Nat /\ DOMAIN lines = 1 .. Len(lines)
  BY LinesOf
<1>2. \A i \in 1 .. Len(lines) : Part(lines[i], kind) \in Seq(Nat)
  <2> SUFFICES ASSUME NEW i \in 1 .. Len(lines) PROVE Part(lines[i], kind) \in Seq(Nat)
    OBVIOUS
  <2>1. lines[i] \in Line
    BY LinesOf
  <2>2. lines[i].text \in Seq(Nat)
    BY <2>1, LineFields
  <2>3. << >> \in Seq(Nat)
    OBVIOUS
  <2> QED BY <2>2, <2>3 DEF Part
<1>3. Parts(lines, kind) = [i \in 1 .. Len(lines) |-> Part(lines[i], kind)]
  BY <1>1 DEF Parts
<1> QED BY <1>1, <1>2, <1>3

LEMMA TextsIn ==
  ASSUME NEW lines \in Seq(Line), NEW kind
  PROVE  Texts(lines, kind) \in Seq(Nat)
BY PartsOf, FlattenIsSeq DEF Texts

LEMMA AppendIs ==
  ASSUME NEW lines \in Seq(Line), NEW line \in Line
  PROVE  /\ Append(lines, line) \in Seq(Line) /\ Len(Append(lines, line)) = Len(lines) + 1
         /\ \A i \in 1 .. Len(lines) : Append(lines, line)[i] = lines[i]
         /\ Append(lines, line)[Len(lines) + 1] = line
BY AppendProperties

LEMMA TextsAppend ==
  ASSUME NEW lines \in Seq(Line), NEW line \in Line, NEW kind
  PROVE  Texts(Append(lines, line), kind) = Cat(Texts(lines, kind), Part(line, kind))
<1> DEFINE more == Append(lines, line)
<1>1. more \in Seq(Line) /\ Len(more) = Len(lines) + 1 /\ Len(lines) \in Nat
      /\ (\A i \in 1 .. Len(lines) : more[i] = lines[i]) /\ more[Len(lines) + 1] = line
  BY AppendIs, LinesOf
<1> HIDE DEF more
<1>2. /\ Parts(lines, kind) \in Seq(Seq(Nat)) /\ Len(Parts(lines, kind)) = Len(lines)
      /\ \A i \in 1 .. Len(lines) : Parts(lines, kind)[i] = Part(lines[i], kind)
  BY PartsOf
<1>3. /\ Parts(more, kind) \in Seq(Seq(Nat)) /\ Len(Parts(more, kind)) = Len(more)
      /\ \A i \in 1 .. Len(more) : Parts(more, kind)[i] = Part(more[i], kind)
  BY <1>1, PartsOf
<1>4. Part(line, kind) \in Seq(Nat)
  <2>1. line.text \in Seq(Nat) /\ << >> \in Seq(Nat)
    BY LineFields
  <2> QED BY <2>1 DEF Part
<1>5. Parts(more, kind) = Append(Parts(lines, kind), Part(line, kind))
  <2> DEFINE b == Append(Parts(lines, kind), Part(line, kind))
  <2>1. /\ b \in Seq(Seq(Nat)) /\ Len(b) = Len(lines) + 1
        /\ \A i \in 1 .. Len(lines) : b[i] = Parts(lines, kind)[i]
        /\ b[Len(lines) + 1] = Part(line, kind)
    <3> DEFINE p == Parts(lines, kind)
               q == Part(line, kind)
    <3>1. p \in Seq(Seq(Nat)) /\ q \in Seq(Nat) /\ Len(p) = Len(lines)
      BY <1>2, <1>4
    <3> HIDE DEF p, q
    <3>2. /\ Append(p, q) \in Seq(Seq(Nat)) /\ Len(Append(p, q)) = Len(lines) + 1
          /\ \A i \in 1 .. Len(lines) : Append(p, q)[i] = p[i]
          /\ Append(p, q)[Len(lines) + 1] = q
      BY <3>1, AppendProperties
    <3> QED BY <3>2 DEF p, q
  <2> HIDE DEF b
  <2>2. ASSUME NEW i \in 1 .. Len(lines) + 1 PROVE Parts(more, kind)[i] = b[i]
    <3>1. CASE i \in 1 .. Len(lines)
      BY <1>1, <1>2, <1>3, <2>1, <3>1
    <3>2. CASE i = Len(lines) + 1
      BY <1>1, <1>3, <2>1, <3>2
    <3> QED BY <1>1, <3>1, <3>2
  <2>3. Parts(more, kind) = b
    BY <1>1, <1>3, <2>1, <2>2, SeqEqual
  <2> QED BY <2>3 DEF b
<1> QED BY <1>2, <1>4, <1>5, FlattenAppend DEF Texts, Cat, more

LEMMA TextsDrop ==
  ASSUME NEW lines \in Seq(Line), NEW rest, Dropped(lines, rest), NEW kind
  PROVE  Texts(lines, kind) = Cat(Part(lines[1], kind), Texts(rest, kind)) /\ Part(lines[1], kind) \in Seq(Nat)
<1>1. rest \in Seq(Line) /\ Len(lines) = Len(rest) + 1 /\ Len(rest) \in Nat
      /\ \A i \in 1 .. Len(rest) : rest[i] = lines[i + 1]
  BY LinesOf DEF Dropped
<1>2. /\ Parts(lines, kind) \in Seq(Seq(Nat)) /\ Len(Parts(lines, kind)) = Len(lines)
      /\ \A i \in 1 .. Len(lines) : Parts(lines, kind)[i] = Part(lines[i], kind)
  BY PartsOf
<1>3. /\ Parts(rest, kind) \in Seq(Seq(Nat)) /\ Len(Parts(rest, kind)) = Len(rest)
      /\ \A i \in 1 .. Len(rest) : Parts(rest, kind)[i] = Part(rest[i], kind)
  BY <1>1, PartsOf
<1>4. Len(Parts(lines, kind)) = Len(Parts(rest, kind)) + 1
  BY <1>1, <1>2, <1>3
<1>5. \A i \in 1 .. Len(Parts(rest, kind)) : Parts(rest, kind)[i] = Parts(lines, kind)[i + 1]
  <2> SUFFICES ASSUME NEW i \in 1 .. Len(rest) PROVE Parts(rest, kind)[i] = Parts(lines, kind)[i + 1]
    BY <1>3
  <2>1. i + 1 \in 1 .. Len(lines)
    BY <1>1
  <2> QED BY <1>1, <1>2, <1>3, <2>1
<1>6. FlattenSeq(Parts(lines, kind)) = Parts(lines, kind)[1] \o FlattenSeq(Parts(rest, kind))
  BY <1>2, <1>3, <1>4, <1>5, FlattenFirst
<1>7. 1 \in 1 .. Len(lines)
  BY <1>1
<1>8. Parts(lines, kind)[1] \in Seq(Nat)
  BY <1>2, <1>7, ElementOfSeq
<1> QED BY <1>2, <1>6, <1>7, <1>8 DEF Texts, Cat

LEMMA TextsSame ==
  ASSUME NEW lines \in Seq(Line), NEW again \in Seq(Line), Len(again) = Len(lines), NEW kind,
         \A i \in 1 .. Len(lines) : Part(again[i], kind) = Part(lines[i], kind)
  PROVE  Texts(again, kind) = Texts(lines, kind)
<1>1. /\ Parts(lines, kind) \in Seq(Seq(Nat)) /\ Len(Parts(lines, kind)) = Len(lines)
      /\ \A i \in 1 .. Len(lines) : Parts(lines, kind)[i] = Part(lines[i], kind)
  BY PartsOf
<1>2. /\ Parts(again, kind) \in Seq(Seq(Nat)) /\ Len(Parts(again, kind)) = Len(again)
      /\ \A i \in 1 .. Len(again) : Parts(again, kind)[i] = Part(again[i], kind)
  BY PartsOf
<1>3. \A i \in 1 .. Len(lines) : Parts(again, kind)[i] = Parts(lines, kind)[i]
  BY <1>1, <1>2
<1>4. Parts(again, kind) = Parts(lines, kind)
  BY <1>1, <1>2, <1>3, SeqEqual
<1> QED BY <1>4 DEF Texts

LEMMA TextsNone ==
  ASSUME NEW lines \in Seq(Line), NEW kind, \A i \in 1 .. Len(lines) : lines[i].kind # kind
  PROVE  Texts(lines, kind) = << >>
<1>1. /\ Parts(lines, kind) \in Seq(Seq(Nat)) /\ Len(Parts(lines, kind)) = Len(lines)
      /\ \A i \in 1 .. Len(lines) : Parts(lines, kind)[i] = Part(lines[i], kind)
  BY PartsOf
<1>2. \A i \in 1 .. Len(Parts(lines, kind)) : Parts(lines, kind)[i] = << >>
  BY <1>1 DEF Part
<1> QED BY <1>1, <1>2, FlattenNone DEF Texts

LEMMA TextsGrown ==
  ASSUME NEW lines \in Seq(Line), NEW again \in Seq(Line), Len(again) = Len(lines), NEW kind,
         NEW b \in Seq(Nat), NEW x \in 1 .. Len(lines),
         Part(again[x], kind) = Cat(Part(lines[x], kind), b),
         \A i \in 1 .. Len(lines) : i # x => Part(again[i], kind) = Part(lines[i], kind),
         \A i \in 1 .. Len(lines) : i > x => Part(lines[i], kind) = << >>
  PROVE  Texts(again, kind) = Cat(Texts(lines, kind), b)
<1>1. /\ Parts(lines, kind) \in Seq(Seq(Nat)) /\ Len(Parts(lines, kind)) = Len(lines)
      /\ \A i \in 1 .. Len(lines) : Parts(lines, kind)[i] = Part(lines[i], kind)
  BY PartsOf
<1>2. /\ Parts(again, kind) \in Seq(Seq(Nat)) /\ Len(Parts(again, kind)) = Len(again)
      /\ \A i \in 1 .. Len(again) : Parts(again, kind)[i] = Part(again[i], kind)
  BY PartsOf
<1> DEFINE s == Parts(lines, kind)
           t == Parts(again, kind)
<1>3. /\ s \in Seq(Seq(Nat)) /\ t \in Seq(Seq(Nat)) /\ Len(s) = Len(t) /\ x \in 1 .. Len(s)
      /\ t[x] = Cat(s[x], b)
      /\ \A i \in 1 .. Len(s) : i # x => t[i] = s[i]
      /\ \A i \in 1 .. Len(s) : i > x => s[i] = << >>
  BY <1>1, <1>2
<1>5. LongerAt(s, t, Len(s), x, b)
  BY <1>3 DEF LongerAt
<1> HIDE DEF s, t
<1>4. FlattenSeq(t) = Cat(FlattenSeq(s), b)
  BY <1>3, <1>5, FlattenGrown, Zenon
<1> QED BY <1>4 DEF s, t, Texts

-----------------------------------------------------------------------------
(* The end of a stream. *)

\* A text that ends with delta n and leaves none out.
Ends(deltas, n) == /\ deltas \in Seq(Nat) /\ Len(deltas) <= n
                   /\ \A i \in 1 .. Len(deltas) : deltas[i] = (n - Len(deltas)) + i

LEMMA CatAt ==
  ASSUME NEW a \in Seq(Nat), NEW b \in Seq(Nat)
  PROVE  /\ Cat(a, b) \in Seq(Nat) /\ Len(Cat(a, b)) = Len(a) + Len(b) /\ Len(a) \in Nat /\ Len(b) \in Nat
         /\ \A i \in 1 .. Len(b) : Cat(a, b)[Len(a) + i] = b[i]
         /\ \A i \in 1 .. Len(a) : Cat(a, b)[i] = a[i]
BY DEF Cat

LEMMA EndsTail ==
  ASSUME NEW a \in Seq(Nat), NEW b \in Seq(Nat), NEW n \in Nat, Ends(Cat(a, b), n)
  PROVE  Ends(b, n)
<1>1. /\ Len(Cat(a, b)) = Len(a) + Len(b) /\ Len(a) \in Nat /\ Len(b) \in Nat
      /\ \A i \in 1 .. Len(b) : Cat(a, b)[Len(a) + i] = b[i]
  BY CatAt
<1>2. ASSUME NEW i \in 1 .. Len(b) PROVE b[i] = (n - Len(b)) + i
  <2>1. Len(a) + i \in 1 .. Len(Cat(a, b))
    BY <1>1
  <2>2. Cat(a, b)[Len(a) + i] = (n - Len(Cat(a, b))) + (Len(a) + i)
    BY <2>1 DEF Ends
  <2>3. (n - (Len(a) + Len(b))) + (Len(a) + i) = (n - Len(b)) + i
    BY <1>1
  <2> QED BY <1>1, <2>2, <2>3
<1>3. Len(b) <= n
  BY <1>1 DEF Ends
<1> QED BY <1>2, <1>3 DEF Ends

LEMMA EndsNone ==
  ASSUME NEW n \in Nat
  PROVE  Ends(<< >>, n)
BY DEF Ends

LEMMA EndsNext ==
  ASSUME NEW a, NEW n \in Nat, Ends(a, n)
  PROVE  Ends(Append(a, n + 1), n + 1) /\ Len(Append(a, n + 1)) = Len(a) + 1
<1>1. a \in Seq(Nat) /\ Len(a) \in Nat /\ Len(a) <= n /\ \A i \in 1 .. Len(a) : a[i] = (n - Len(a)) + i
  BY DEF Ends
<1> DEFINE b == Append(a, n + 1)
<1>2. /\ b \in Seq(Nat) /\ Len(b) = Len(a) + 1 /\ (\A i \in 1 .. Len(a) : b[i] = a[i])
      /\ b[Len(a) + 1] = n + 1
  BY <1>1, AppendProperties
<1> HIDE DEF b
<1>3. ASSUME NEW i \in 1 .. Len(b) PROVE b[i] = ((n + 1) - Len(b)) + i
  <2>1. CASE i \in 1 .. Len(a)
    BY <1>1, <1>2, <2>1
  <2>2. CASE i = Len(a) + 1
    BY <1>1, <1>2, <2>2
  <2> QED BY <1>1, <1>2, <2>1, <2>2
<1>4. Ends(b, n + 1)
  BY <1>1, <1>2, <1>3 DEF Ends
<1> QED BY <1>2, <1>4 DEF b

LEMMA CatAppend ==
  ASSUME NEW a \in Seq(Nat), NEW b \in Seq(Nat), NEW x \in Nat
  PROVE  Cat(a, Append(b, x)) = Append(Cat(a, b), x)
<1>1. \A c \in Seq(Nat) : Append(c, x) = c \o <<x>>
  BY AppendIsConcat
<1>2. a \o b \in Seq(Nat) /\ <<x>> \in Seq(Nat)
  OBVIOUS
<1>3. (a \o b) \o <<x>> = a \o (b \o <<x>>)
  BY <1>2, ConcatAssociative
<1>4. Append(a \o b, x) = (a \o b) \o <<x>> /\ Append(b, x) = b \o <<x>>
  BY <1>1, <1>2
<1> QED BY <1>3, <1>4 DEF Cat

-----------------------------------------------------------------------------
(* The cap. *)

LEMMA CappedIs ==
  ASSUME NEW lines \in Seq(Line), Len(lines) <= MaxLogEntries + 1
  PROVE  \/ Len(lines) <= MaxLogEntries /\ Capped(lines) = lines
         \/ /\ Len(lines) = MaxLogEntries + 1 /\ Len(Capped(lines)) = MaxLogEntries
            /\ Dropped(lines, Capped(lines))
<1>1. MaxLogEntries \in Nat \ {0} /\ Len(lines) \in Nat
  BY LinesOf, ConstantsAssumption DEF ConstantsAssumption
<1>2. CASE Len(lines) <= MaxLogEntries
  <2>1. MaxOf(1, Len(lines) - MaxLogEntries + 1) = 1
    BY <1>1, <1>2 DEF MaxOf
  <2>2. Capped(lines) = SubSeq(lines, 1, Len(lines))
    BY <2>1 DEF Capped
  <2>3. SubSeq(lines, 1, Len(lines)) = lines
    OBVIOUS
  <2> QED BY <1>2, <2>2, <2>3
<1>3. CASE Len(lines) = MaxLogEntries + 1
  <2>1. MaxOf(1, Len(lines) - MaxLogEntries + 1) = 2
    BY <1>1, <1>3 DEF MaxOf
  <2>2. Capped(lines) = SubSeq(lines, 2, Len(lines))
    BY <2>1 DEF Capped
  <2> DEFINE rest == SubSeq(lines, 2, Len(lines))
  <2>3. /\ rest \in Seq(Line) /\ Len(rest) = Len(lines) - 1
        /\ \A i \in 1 .. Len(rest) : rest[i] = lines[i + 1]
    BY <1>1, <1>3
  <2> HIDE DEF rest
  <2>4. Dropped(lines, rest) /\ Len(rest) = MaxLogEntries
    BY <1>1, <1>3, <2>3 DEF Dropped
  <2> QED BY <1>3, <2>2, <2>4 DEF rest
<1> QED BY <1>1, <1>2, <1>3

-----------------------------------------------------------------------------
(* The invariant. *)

\* Some lines, under ids below the next one, each once.
Listed(lines, next) ==
    /\ lines \in Seq(Line) /\ next \in Nat
    /\ \A i, j \in 1 .. Len(lines) : lines[i].id = lines[j].id => i = j
    /\ \A i \in 1 .. Len(lines) : lines[i].id < next

\* Until the cap drops a line, the log holds them all.
Whole(lines, next) ==
    next <= MaxLogEntries + 1 => /\ Len(lines) = next - 1
                                 /\ \A i \in 1 .. Len(lines) : lines[i].id = i

\* The id of a line that may be written to.
Writes(lines, next, kind, id) ==
    /\ id \in Nat /\ id < next
    /\ \A i \in 1 .. Len(lines) : lines[i].id = id => lines[i].kind = kind

\* The line that a kind streams into is the last of its kind.
Behind(lines, kind, id) ==
    id # 0 => \A i \in 1 .. Len(lines) :
                 lines[i].kind = kind => \E j \in i .. Len(lines) : lines[j].id = id

\* A stream of deltas, in the lines of its kind and in its buffer.
NothingMissing(lines, next, kind, buf, n) ==
    /\ Ends(Cat(Texts(lines, kind), buf), n)
    /\ next <= MaxLogEntries + 1 => Len(Cat(Texts(lines, kind), buf)) = n

Stream(lines, next, kind, id, buf, n) ==
    /\ buf \in Seq(Nat) /\ n \in Nat
    /\ NothingMissing(lines, next, kind, buf, n)
    /\ Writes(lines, next, kind, id)
    /\ Behind(lines, kind, id)

\* A line that the lines can take: a new one, under the next id, or one that the cap dropped.
Takes(lines, next, line, later) ==
    /\ line \in Line /\ next \in Nat /\ later \in Nat /\ next <= later /\ line.id < later
    /\ \A i \in 1 .. Len(lines) : lines[i].id # line.id
    /\ later <= MaxLogEntries + 1 => later = next + 1 /\ line.id = next

-----------------------------------------------------------------------------
(* A line is added. *)

LEMMA AppendListed ==
  ASSUME NEW lines, NEW next, NEW line, NEW later, Listed(lines, next), Takes(lines, next, line, later)
  PROVE  Listed(Append(lines, line), later)
<1> DEFINE more == Append(lines, line)
<1>1. /\ lines \in Seq(Line) /\ line \in Line /\ Len(lines) \in Nat
      /\ \A i \in 1 .. Len(lines) : lines[i] \in Line
  BY LinesOf DEF Listed, Takes
<1>2. /\ more \in Seq(Line) /\ Len(more) = Len(lines) + 1
      /\ \A i \in 1 .. Len(lines) : more[i] = lines[i]
      /\ more[Len(lines) + 1] = line
  BY <1>1, AppendIs
<1> HIDE DEF more
<1>3. \A i \in 1 .. Len(lines) : lines[i].id \in Nat
  BY <1>1, LineFields
<1>4. ASSUME NEW i \in 1 .. Len(more) PROVE more[i].id < later
  <2>1. CASE i \in 1 .. Len(lines)
    <3>1. lines[i].id < next /\ next <= later /\ next \in Nat /\ later \in Nat /\ lines[i].id \in Nat
      BY <1>3, <2>1 DEF Listed, Takes
    <3>2. more[i] = lines[i]
      BY <1>2, <2>1
    <3> QED BY <3>1, <3>2
  <2>2. CASE i = Len(lines) + 1
    BY <1>2, <2>2 DEF Takes
  <2> QED BY <1>1, <1>2, <2>1, <2>2
<1>5. ASSUME NEW i \in 1 .. Len(more), NEW j \in 1 .. Len(more), more[i].id = more[j].id PROVE i = j
  <2>1. \A k \in 1 .. Len(lines) : lines[k].id # line.id
    BY DEF Takes
  <2>2. (i \in 1 .. Len(lines) \/ i = Len(lines) + 1) /\ (j \in 1 .. Len(lines) \/ j = Len(lines) + 1)
    BY <1>1, <1>2
  <2>3. \A k, l \in 1 .. Len(lines) : lines[k].id = lines[l].id => k = l
    BY DEF Listed
  <2> QED BY <1>2, <1>5, <2>1, <2>2, <2>3
<1>6. later \in Nat
  BY DEF Takes
<1> QED BY <1>2, <1>4, <1>5, <1>6 DEF Listed, more

LEMMA DropListed ==
  ASSUME NEW lines, NEW next, NEW rest, Listed(lines, next), Dropped(lines, rest)
  PROVE  Listed(rest, next)
<1>1. /\ rest \in Seq(Line) /\ Len(lines) = Len(rest) + 1 /\ Len(rest) \in Nat
      /\ \A i \in 1 .. Len(rest) : rest[i] = lines[i + 1]
  BY LinesOf DEF Dropped
<1>2. \A i \in 1 .. Len(rest) : i + 1 \in 1 .. Len(lines)
  BY <1>1
<1>3. \A i, j \in 1 .. Len(rest) : rest[i].id = rest[j].id => i = j
  <2> SUFFICES ASSUME NEW i \in 1 .. Len(rest), NEW j \in 1 .. Len(rest), rest[i].id = rest[j].id PROVE i = j
    OBVIOUS
  <2>1. lines[i + 1].id = lines[j + 1].id /\ i + 1 \in 1 .. Len(lines) /\ j + 1 \in 1 .. Len(lines)
    BY <1>1, <1>2
  <2>2. i + 1 = j + 1
    BY <2>1 DEF Listed
  <2> QED BY <2>2
<1>4. \A i \in 1 .. Len(rest) : rest[i].id < next
  BY <1>1, <1>2 DEF Listed
<1> QED BY <1>1, <1>3, <1>4 DEF Listed

LEMMA PushListed ==
  ASSUME NEW lines, NEW next, NEW line, NEW later, Listed(lines, next), Whole(lines, next),
         Takes(lines, next, line, later), Len(lines) <= MaxLogEntries
  PROVE  /\ Listed(Capped(Append(lines, line)), later)
         /\ Whole(Capped(Append(lines, line)), later)
         /\ Len(Capped(Append(lines, line))) <= MaxLogEntries
<1> DEFINE more == Append(lines, line)
<1>0. MaxLogEntries \in Nat
  BY ConstantsAssumption DEF ConstantsAssumption
<1>1. lines \in Seq(Line) /\ line \in Line /\ Len(lines) \in Nat
  BY LinesOf DEF Listed, Takes
<1>2. /\ more \in Seq(Line) /\ Len(more) = Len(lines) + 1
      /\ \A i \in 1 .. Len(lines) : more[i] = lines[i]
      /\ more[Len(lines) + 1] = line
  BY <1>1, AppendIs
<1>3. Listed(more, later)
  BY AppendListed
<1>4. Len(more) <= MaxLogEntries + 1
  BY <1>0, <1>1, <1>2
<1> HIDE DEF more
<1>5. ASSUME later <= MaxLogEntries + 1
      PROVE  /\ Len(more) <= MaxLogEntries /\ Len(more) = later - 1
             /\ \A i \in 1 .. Len(more) : more[i].id = i
  <2>1. later = next + 1 /\ line.id = next /\ next \in Nat
    BY <1>5 DEF Takes
  <2>2. Len(lines) = next - 1 /\ \A i \in 1 .. Len(lines) : lines[i].id = i
    BY <1>0, <1>5, <2>1 DEF Whole
  <2>3. Len(more) = later - 1 /\ Len(more) <= MaxLogEntries
    BY <1>0, <1>2, <1>5, <2>1, <2>2
  <2>4. ASSUME NEW i \in 1 .. Len(more) PROVE more[i].id = i
    <3>1. CASE i \in 1 .. Len(lines)
      BY <1>2, <2>2, <3>1
    <3>2. CASE i = Len(lines) + 1
      BY <1>2, <2>1, <2>2, <3>2
    <3> QED BY <1>1, <1>2, <3>1, <3>2
  <2> QED BY <2>3, <2>4
<1>6. CASE Len(more) <= MaxLogEntries /\ Capped(more) = more
  <2>1. Whole(more, later)
    BY <1>5 DEF Whole
  <2> QED BY <1>3, <1>6, <2>1 DEF more
<1>7. CASE /\ Len(more) = MaxLogEntries + 1 /\ Len(Capped(more)) = MaxLogEntries
           /\ Dropped(more, Capped(more))
  <2>1. ~ (later <= MaxLogEntries + 1)
    BY <1>0, <1>5, <1>7
  <2>2. Whole(Capped(more), later)
    BY <2>1 DEF Whole
  <2>3. Listed(Capped(more), later)
    BY <1>3, <1>7, DropListed
  <2>4. Len(Capped(more)) <= MaxLogEntries
    BY <1>0, <1>7
  <2> QED BY <2>2, <2>3, <2>4 DEF more
<1> QED BY <1>2, <1>4, <1>6, <1>7, CappedIs

-----------------------------------------------------------------------------
(* What the streams keep when a line is added, when one is dropped, and when one is rewritten. *)

LEMMA WritesAppend ==
  ASSUME NEW lines, NEW next, NEW line, NEW later, lines \in Seq(Line), Takes(lines, next, line, later),
         NEW kind, NEW id, Writes(lines, next, kind, id), line.id = id => line.kind = kind
  PROVE  Writes(Append(lines, line), later, kind, id)
<1> DEFINE more == Append(lines, line)
<1>1. /\ Len(more) = Len(lines) + 1 /\ Len(lines) \in Nat
      /\ \A i \in 1 .. Len(lines) : more[i] = lines[i]
      /\ more[Len(lines) + 1] = line
  BY AppendIs, LinesOf DEF Takes
<1> HIDE DEF more
<1>2. ASSUME NEW i \in 1 .. Len(more), more[i].id = id PROVE more[i].kind = kind
  <2>1. i \in 1 .. Len(lines) \/ i = Len(lines) + 1
    BY <1>1
  <2> QED BY <1>1, <1>2, <2>1 DEF Writes
<1>3. id \in Nat /\ id < later
  BY DEF Writes, Takes
<1> QED BY <1>2, <1>3 DEF Writes, more

LEMMA BehindAppend ==
  ASSUME NEW lines, NEW next, NEW line, NEW later, lines \in Seq(Line), Takes(lines, next, line, later),
         NEW kind, NEW id, Behind(lines, kind, id), line.kind # kind
  PROVE  Behind(Append(lines, line), kind, id)
<1> DEFINE more == Append(lines, line)
<1>1. /\ Len(more) = Len(lines) + 1 /\ Len(lines) \in Nat
      /\ \A i \in 1 .. Len(lines) : more[i] = lines[i]
      /\ more[Len(lines) + 1] = line
  BY AppendIs, LinesOf DEF Takes
<1> HIDE DEF more
<1>2. ASSUME id # 0, NEW i \in 1 .. Len(more), more[i].kind = kind
      PROVE  \E j \in i .. Len(more) : more[j].id = id
  <2>1. i \in 1 .. Len(lines)
    BY <1>1, <1>2
  <2>2. lines[i].kind = kind
    BY <1>1, <1>2, <2>1
  <2>3. PICK j \in i .. Len(lines) : lines[j].id = id
    BY <1>2, <2>1, <2>2 DEF Behind
  <2>4. j \in i .. Len(more) /\ j \in 1 .. Len(lines)
    BY <1>1, <2>1
  <2> QED BY <1>1, <2>3, <2>4
<1> QED BY <1>2 DEF Behind, more

LEMMA CatNone ==
  ASSUME NEW a \in Seq(Nat)
  PROVE  Cat(a, << >>) = a /\ Cat(<< >>, a) = a
BY ConcatEmptySeq DEF Cat

\* A line of another kind.
LEMMA StreamAppend ==
  ASSUME NEW lines, NEW next, NEW line, NEW later, lines \in Seq(Line), Takes(lines, next, line, later),
         NEW kind, NEW id, NEW buf, NEW n, Stream(lines, next, kind, id, buf, n),
         line.kind # kind, line.id # id
  PROVE  Stream(Append(lines, line), later, kind, id, buf, n)
<1>1. line \in Line /\ MaxLogEntries \in Nat /\ next \in Nat /\ later \in Nat
  BY ConstantsAssumption DEF ConstantsAssumption, Takes
<1>2. Texts(Append(lines, line), kind) = Texts(lines, kind)
  <2>1. Texts(Append(lines, line), kind) = Cat(Texts(lines, kind), Part(line, kind))
    BY <1>1, TextsAppend
  <2>2. Part(line, kind) = << >>
    BY DEF Part
  <2>3. Texts(lines, kind) \in Seq(Nat)
    BY TextsIn
  <2>4. Cat(Texts(lines, kind), << >>) = Texts(lines, kind)
    BY <2>3, CatNone
  <2> QED BY <2>1, <2>2, <2>4
<1>3. later <= MaxLogEntries + 1 => next <= MaxLogEntries + 1
  BY <1>1 DEF Takes
<1>4. NothingMissing(Append(lines, line), later, kind, buf, n)
  BY <1>2, <1>3 DEF NothingMissing, Stream
<1>5. Writes(Append(lines, line), later, kind, id)
  BY WritesAppend DEF Stream
<1>6. Behind(Append(lines, line), kind, id)
  BY BehindAppend DEF Stream
<1> QED BY <1>4, <1>5, <1>6 DEF Stream

\* The line that a kind starts to stream into, with what was in the buffer.
LEMMA StreamNew ==
  ASSUME NEW lines, NEW next, NEW line, NEW later, lines \in Seq(Line), Takes(lines, next, line, later),
         NEW kind, NEW id, NEW buf, NEW n, Stream(lines, next, kind, id, buf, n),
         line.kind = kind, line.id = next, line.text = buf
  PROVE  Stream(Append(lines, line), later, kind, next, << >>, n)
<1> DEFINE more == Append(lines, line)
<1>0. line \in Line /\ MaxLogEntries \in Nat /\ next \in Nat /\ later \in Nat /\ Len(lines) \in Nat
      /\ buf \in Seq(Nat) /\ n \in Nat
  BY ConstantsAssumption, LinesOf DEF ConstantsAssumption, Takes, Stream
<1>1. /\ more \in Seq(Line) /\ Len(more) = Len(lines) + 1
      /\ \A i \in 1 .. Len(lines) : more[i] = lines[i]
      /\ more[Len(lines) + 1] = line
  BY <1>0, AppendIs
<1>2. Texts(more, kind) = Cat(Texts(lines, kind), buf)
  <2>1. Texts(Append(lines, line), kind) = Cat(Texts(lines, kind), Part(line, kind))
    BY <1>0, TextsAppend
  <2>2. Part(line, kind) = buf
    BY DEF Part
  <2> QED BY <2>1, <2>2
<1> HIDE DEF more
<1>3. Cat(Texts(more, kind), << >>) = Cat(Texts(lines, kind), buf)
  <2>1. Texts(more, kind) \in Seq(Nat)
    BY <1>1, TextsIn
  <2>2. Cat(Texts(more, kind), << >>) = Texts(more, kind)
    BY <2>1, CatNone
  <2> QED BY <1>2, <2>2
<1>4. later <= MaxLogEntries + 1 => next <= MaxLogEntries + 1
  BY <1>0 DEF Takes
<1>5. NothingMissing(more, later, kind, << >>, n)
  BY <1>3, <1>4 DEF NothingMissing, Stream
<1>6. Writes(more, later, kind, next)
  <2>1. next < later
    BY DEF Takes
  <2>2. ASSUME NEW i \in 1 .. Len(more), more[i].id = next PROVE more[i].kind = kind
    <3>1. i \in 1 .. Len(lines) \/ i = Len(lines) + 1
      BY <1>0, <1>1
    <3> QED BY <1>1, <2>2, <3>1 DEF Takes
  <2> QED BY <1>0, <2>1, <2>2 DEF Writes
<1>7. Behind(more, kind, next)
  <2>1. ASSUME NEW i \in 1 .. Len(more) PROVE \E j \in i .. Len(more) : more[j].id = next
    <3>1. Len(lines) + 1 \in i .. Len(more)
      BY <1>0, <1>1
    <3> QED BY <1>1, <3>1
  <2> QED BY <2>1 DEF Behind
<1>8. << >> \in Seq(Nat)
  OBVIOUS
<1> QED BY <1>0, <1>5, <1>6, <1>7, <1>8 DEF Stream, more

LEMMA WritesDrop ==
  ASSUME NEW lines, NEW next, NEW rest, lines \in Seq(Line), Dropped(lines, rest),
         NEW kind, NEW id, Writes(lines, next, kind, id)
  PROVE  Writes(rest, next, kind, id)
<1>1. /\ rest \in Seq(Line) /\ Len(lines) = Len(rest) + 1 /\ Len(rest) \in Nat
      /\ \A i \in 1 .. Len(rest) : rest[i] = lines[i + 1]
  BY LinesOf DEF Dropped
<1>2. \A i \in 1 .. Len(rest) : i + 1 \in 1 .. Len(lines)
  BY <1>1
<1> QED BY <1>1, <1>2 DEF Writes

LEMMA StreamDrop ==
  ASSUME NEW lines, NEW next, NEW rest, lines \in Seq(Line), Dropped(lines, rest), ~ (next <= MaxLogEntries + 1),
         NEW kind, NEW id, NEW buf, NEW n, Stream(lines, next, kind, id, buf, n)
  PROVE  Stream(rest, next, kind, id, buf, n)
<1>0. buf \in Seq(Nat) /\ n \in Nat
  BY DEF Stream
<1>1. /\ rest \in Seq(Line) /\ Len(lines) = Len(rest) + 1 /\ Len(rest) \in Nat
      /\ \A i \in 1 .. Len(rest) : rest[i] = lines[i + 1]
  BY LinesOf DEF Dropped
<1>2. Ends(Cat(Texts(rest, kind), buf), n)
  <2> DEFINE a == Part(lines[1], kind)
             b == Texts(rest, kind)
  <2>1. Texts(lines, kind) = Cat(a, b) /\ a \in Seq(Nat) /\ b \in Seq(Nat)
    BY <1>1, TextsDrop, TextsIn
  <2>2. Ends(Cat(Texts(lines, kind), buf), n)
    BY DEF Stream, NothingMissing
  <2> HIDE DEF a, b
  <2>6. \A u, v, w \in Seq(Nat) : Cat(Cat(u, v), w) = Cat(u, Cat(v, w))
    BY CatIs
  <2>3. Cat(Cat(a, b), buf) = Cat(a, Cat(b, buf)) /\ Cat(b, buf) \in Seq(Nat)
    BY <1>0, <2>1, <2>6, CatAt, Zenon
  <2>4. Ends(Cat(a, Cat(b, buf)), n)
    BY <2>1, <2>2, <2>3
  <2>5. Ends(Cat(b, buf), n)
    BY <1>0, <2>1, <2>3, <2>4, EndsTail
  <2> QED BY <2>5 DEF b
<1>3. NothingMissing(rest, next, kind, buf, n)
  BY <1>2 DEF NothingMissing
<1>4. Writes(rest, next, kind, id)
  BY WritesDrop DEF Stream
<1>5. Behind(rest, kind, id)
  <2>1. ASSUME id # 0, NEW i \in 1 .. Len(rest), rest[i].kind = kind
        PROVE  \E j \in i .. Len(rest) : rest[j].id = id
    <3>1. i + 1 \in 1 .. Len(lines) /\ lines[i + 1].kind = kind
      BY <1>1, <2>1
    <3>2. PICK j \in i + 1 .. Len(lines) : lines[j].id = id
      BY <2>1, <3>1 DEF Stream, Behind
    <3>3. j - 1 \in i .. Len(rest) /\ j - 1 \in 1 .. Len(rest) /\ (j - 1) + 1 = j
      BY <1>1, <3>1
    <3> QED BY <1>1, <3>2, <3>3
  <2> QED BY <2>1 DEF Behind
<1> QED BY <1>0, <1>3, <1>4, <1>5 DEF Stream

\* What the cap does to lines that are longer by one.
LEMMA NothingIsDropped ==
  ASSUME NEW lines, NEW next, NEW line, NEW later, Listed(lines, next), Whole(lines, next),
         Takes(lines, next, line, later), Len(lines) <= MaxLogEntries
  PROVE  /\ Append(lines, line) \in Seq(Line) /\ Len(Append(lines, line)) <= MaxLogEntries + 1
         /\ later <= MaxLogEntries + 1 => Len(Append(lines, line)) <= MaxLogEntries
<1>1. lines \in Seq(Line) /\ line \in Line /\ Len(lines) \in Nat /\ MaxLogEntries \in Nat
  BY LinesOf, ConstantsAssumption DEF Listed, Takes, ConstantsAssumption
<1>2. Append(lines, line) \in Seq(Line) /\ Len(Append(lines, line)) = Len(lines) + 1
  BY <1>1, AppendIs
<1>3. ASSUME later <= MaxLogEntries + 1 PROVE Len(lines) + 1 <= MaxLogEntries
  <2>1. later = next + 1 /\ next \in Nat
    BY <1>3 DEF Takes
  <2>2. Len(lines) = next - 1
    BY <1>1, <1>3, <2>1 DEF Whole
  <2> QED BY <1>1, <1>3, <2>1, <2>2
<1> QED BY <1>1, <1>2, <1>3

LEMMA CappedWrites ==
  ASSUME NEW more \in Seq(Line), Len(more) <= MaxLogEntries + 1,
         NEW later, NEW kind, NEW id, Writes(more, later, kind, id)
  PROVE  Writes(Capped(more), later, kind, id)
<1>1. CASE Capped(more) = more
  BY <1>1
<1>2. CASE Dropped(more, Capped(more))
  BY <1>2, WritesDrop
<1> QED BY <1>1, <1>2, CappedIs

LEMMA CappedStream ==
  ASSUME NEW more \in Seq(Line), Len(more) <= MaxLogEntries + 1,
         NEW later, later <= MaxLogEntries + 1 => Len(more) <= MaxLogEntries,
         NEW kind, NEW id, NEW buf, NEW n, Stream(more, later, kind, id, buf, n)
  PROVE  Stream(Capped(more), later, kind, id, buf, n)
<1>0. MaxLogEntries \in Nat
  BY ConstantsAssumption DEF ConstantsAssumption
<1>1. CASE Capped(more) = more
  BY <1>1
<1>2. CASE Len(more) = MaxLogEntries + 1 /\ Dropped(more, Capped(more))
  <2>1. ~ (later <= MaxLogEntries + 1)
    BY <1>0, <1>2
  <2> QED BY <1>2, <2>1, StreamDrop
<1> QED BY <1>1, <1>2, CappedIs

\* A line of another kind is pushed.
LEMMA PushStream ==
  ASSUME NEW lines, NEW next, NEW line, NEW later, Listed(lines, next), Whole(lines, next),
         Takes(lines, next, line, later), Len(lines) <= MaxLogEntries,
         NEW kind, NEW id, NEW buf, NEW n, Stream(lines, next, kind, id, buf, n),
         line.kind # kind, line.id # id
  PROVE  Stream(Capped(Append(lines, line)), later, kind, id, buf, n)
<1>1. /\ Append(lines, line) \in Seq(Line) /\ Len(Append(lines, line)) <= MaxLogEntries + 1
      /\ later <= MaxLogEntries + 1 => Len(Append(lines, line)) <= MaxLogEntries
  BY NothingIsDropped
<1>2. Stream(Append(lines, line), later, kind, id, buf, n)
  BY StreamAppend DEF Listed
<1> QED BY <1>1, <1>2, CappedStream

LEMMA PushNew ==
  ASSUME NEW lines, NEW next, NEW line, NEW later, Listed(lines, next), Whole(lines, next),
         Takes(lines, next, line, later), Len(lines) <= MaxLogEntries,
         NEW kind, NEW id, NEW buf, NEW n, Stream(lines, next, kind, id, buf, n),
         line.kind = kind, line.id = next, line.text = buf
  PROVE  Stream(Capped(Append(lines, line)), later, kind, next, << >>, n)
<1>1. /\ Append(lines, line) \in Seq(Line) /\ Len(Append(lines, line)) <= MaxLogEntries + 1
      /\ later <= MaxLogEntries + 1 => Len(Append(lines, line)) <= MaxLogEntries
  BY NothingIsDropped
<1>2. Stream(Append(lines, line), later, kind, next, << >>, n)
  BY StreamNew DEF Listed
<1> QED BY <1>1, <1>2, CappedStream

LEMMA PushWrites ==
  ASSUME NEW lines, NEW next, NEW line, NEW later, Listed(lines, next), Whole(lines, next),
         Takes(lines, next, line, later), Len(lines) <= MaxLogEntries,
         NEW kind, NEW id, Writes(lines, next, kind, id), line.id = id => line.kind = kind
  PROVE  Writes(Capped(Append(lines, line)), later, kind, id)
<1>1. /\ Append(lines, line) \in Seq(Line) /\ Len(Append(lines, line)) <= MaxLogEntries + 1
  BY NothingIsDropped
<1>2. Writes(Append(lines, line), later, kind, id)
  BY WritesAppend DEF Listed
<1> QED BY <1>1, <1>2, CappedWrites

-----------------------------------------------------------------------------
(* Lines are rewritten in place. *)

LEMMA RedoneListed ==
  ASSUME NEW lines, NEW next, NEW again, NEW kind, Listed(lines, next), Whole(lines, next), Redone(lines, again, kind)
  PROVE  Listed(again, next) /\ Whole(again, next) /\ Len(again) = Len(lines)
BY DEF Listed, Whole, Redone

LEMMA RedoneWrites ==
  ASSUME NEW lines, NEW next, NEW again, NEW changed, Redone(lines, again, changed),
         NEW kind, NEW id, Writes(lines, next, kind, id)
  PROVE  Writes(again, next, kind, id)
BY DEF Writes, Redone

LEMMA RedoneBehind ==
  ASSUME NEW lines, NEW again, NEW changed, lines \in Seq(Line), Redone(lines, again, changed),
         NEW kind, NEW id, Behind(lines, kind, id)
  PROVE  Behind(again, kind, id)
<1>1. /\ Len(again) = Len(lines) /\ Len(lines) \in Nat
      /\ \A i \in 1 .. Len(lines) : again[i].id = lines[i].id /\ again[i].kind = lines[i].kind
  BY LinesOf DEF Redone
<1>2. ASSUME id # 0, NEW i \in 1 .. Len(again), again[i].kind = kind
      PROVE  \E j \in i .. Len(again) : again[j].id = id
  <2>1. PICK j \in i .. Len(lines) : lines[j].id = id
    BY <1>1, <1>2 DEF Behind
  <2>2. j \in 1 .. Len(lines) /\ j \in i .. Len(again)
    BY <1>1
  <2> QED BY <1>1, <2>1, <2>2
<1> QED BY <1>2 DEF Behind

LEMMA RedoneStream ==
  ASSUME NEW lines, NEW next, NEW again, NEW changed, lines \in Seq(Line), Redone(lines, again, changed),
         NEW kind, NEW id, NEW buf, NEW n, Stream(lines, next, kind, id, buf, n), kind # changed
  PROVE  Stream(again, next, kind, id, buf, n)
<1>1. Texts(again, kind) = Texts(lines, kind)
  <2>1. again \in Seq(Line) /\ Len(again) = Len(lines)
    BY DEF Redone
  <2>2. \A i \in 1 .. Len(lines) : Part(again[i], kind) = Part(lines[i], kind)
    BY DEF Redone, Part
  <2> QED BY <2>1, <2>2, TextsSame
<1>2. NothingMissing(again, next, kind, buf, n)
  BY <1>1 DEF Stream, NothingMissing
<1>3. Writes(again, next, kind, id)
  BY RedoneWrites DEF Stream
<1>4. Behind(again, kind, id)
  BY RedoneBehind DEF Stream
<1> QED BY <1>2, <1>3, <1>4 DEF Stream

\* The same lines, with b added to the text of the one under an id.
LongerIn(lines, again, kind, id, b) ==
    /\ Redone(lines, again, kind)
    /\ \A i \in 1 .. Len(lines) : /\ lines[i].id = id => again[i].text = Cat(lines[i].text, b)
                                  /\ lines[i].id # id => again[i] = lines[i]

LEMMA ExtendedIs ==
  ASSUME NEW lines, NEW next, lines \in Seq(Line), NEW kind, NEW id, Writes(lines, next, kind, id), NEW b \in Seq(Nat)
  PROVE  LongerIn(lines, Extended(lines, id, b), kind, id, b)
<1> DEFINE again == Extended(lines, id, b)
<1>1. /\ Len(lines) \in Nat /\ DOMAIN lines = 1 .. Len(lines)
      /\ \A i \in 1 .. Len(lines) : lines[i] \in Line
  BY LinesOf
<1>2. again = [i \in 1 .. Len(lines) |-> IF lines[i].id = id THEN [lines[i] EXCEPT !.text = @ \o b] ELSE lines[i]]
  BY <1>1 DEF Extended
<1>3. Len(again) = Len(lines)
  BY <1>1, <1>2
<1>4. ASSUME NEW i \in 1 .. Len(lines)
      PROVE  again[i] = IF lines[i].id = id THEN [lines[i] EXCEPT !.text = @ \o b] ELSE lines[i]
  BY <1>2
<1> HIDE DEF again
<1>5. ASSUME NEW line \in Line
      PROVE  LET l == [line EXCEPT !.text = @ \o b] IN
             l \in Line /\ l.id = line.id /\ l.kind = line.kind /\ l.text = Cat(line.text, b)
  <2>1. line.text \o b \in Seq(Nat)
    <3>1. line.text \in Seq(Nat)
      BY LineFields
    <3> QED BY <3>1
  <2> QED BY <2>1 DEF Line, Cat
<1>6. ASSUME NEW i \in 1 .. Len(lines)
      PROVE  /\ again[i] \in Line /\ again[i].id = lines[i].id /\ again[i].kind = lines[i].kind
             /\ lines[i].id = id => again[i].text = Cat(lines[i].text, b)
             /\ lines[i].id # id => again[i] = lines[i]
  <2>1. lines[i] \in Line
    BY <1>1
  <2> QED BY <1>4, <1>5, <2>1
<1>7. again \in Seq(Line)
  <2>1. again = [i \in 1 .. Len(lines) |-> again[i]]
    BY <1>2 DEF again
  <2> QED BY <1>1, <1>6, <2>1
<1>8. Redone(lines, again, kind)
  <2>1. \A i \in 1 .. Len(lines) : lines[i].kind # kind => lines[i].id # id
    BY DEF Writes
  <2> QED BY <1>3, <1>6, <1>7, <2>1 DEF Redone
<1> QED BY <1>6, <1>8 DEF again, LongerIn

\* The buffer goes into the line that streams, or is lost with a line that the cap dropped.
LEMMA StreamExtended ==
  ASSUME NEW lines, NEW next, Listed(lines, next), Whole(lines, next),
         NEW kind, NEW id, NEW buf, NEW n, Stream(lines, next, kind, id, buf, n), id # 0
  PROVE  Stream(Extended(lines, id, buf), next, kind, id, << >>, n)
<1> DEFINE again == Extended(lines, id, buf)
<1>0. lines \in Seq(Line) /\ buf \in Seq(Nat) /\ n \in Nat /\ Len(lines) \in Nat /\ Texts(lines, kind) \in Seq(Nat)
  BY LinesOf, TextsIn DEF Listed, Stream
<1>w. Writes(lines, next, kind, id) /\ Behind(lines, kind, id)
  BY DEF Stream
<1>1. /\ Redone(lines, again, kind)
      /\ \A i \in 1 .. Len(lines) :
            /\ lines[i].id = id => again[i].text = Cat(lines[i].text, buf)
            /\ lines[i].id # id => again[i] = lines[i]
  <2>1. LongerIn(lines, again, kind, id, buf)
    BY <1>0, <1>w, ExtendedIs
  <2> QED BY <2>1 DEF LongerIn
<1> HIDE DEF again
<1>2. again \in Seq(Line) /\ Len(again) = Len(lines) /\ Texts(again, kind) \in Seq(Nat)
      /\ \A i \in 1 .. Len(lines) : again[i].kind = lines[i].kind
  BY <1>1, TextsIn DEF Redone
<1>3. Cat(Texts(again, kind), << >>) = Texts(again, kind)
  BY <1>2, CatNone
<1>4. ASSUME NEW x \in 1 .. Len(lines), lines[x].id = id
      PROVE  NothingMissing(again, next, kind, << >>, n)
  <2>1. lines[x].kind = kind /\ again[x].kind = kind
    BY <1>w, <1>2, <1>4 DEF Writes
  <2>2. Part(again[x], kind) = Cat(Part(lines[x], kind), buf)
    BY <1>1, <1>4, <2>1 DEF Part
  <2>3. ASSUME NEW i \in 1 .. Len(lines), i # x PROVE Part(again[i], kind) = Part(lines[i], kind)
    <3>1. lines[i].id # id
      BY <1>4, <2>3 DEF Listed
    <3> QED BY <1>1, <3>1
  <2>4. ASSUME NEW i \in 1 .. Len(lines), i > x PROVE Part(lines[i], kind) = << >>
    <3> SUFFICES ASSUME lines[i].kind = kind PROVE FALSE
      BY DEF Part
    <3>1. PICK j \in i .. Len(lines) : lines[j].id = id
      BY <1>w DEF Behind
    <3>2. j \in 1 .. Len(lines) /\ j # x
      BY <1>0, <2>4
    <3> QED BY <1>4, <3>1, <3>2 DEF Listed
  <2>5. Texts(again, kind) = Cat(Texts(lines, kind), buf)
    BY <1>0, <1>2, <2>2, <2>3, <2>4, TextsGrown
  <2> QED BY <1>3, <2>5 DEF Stream, NothingMissing
<1>5. ASSUME \A x \in 1 .. Len(lines) : lines[x].id # id
      PROVE  NothingMissing(again, next, kind, << >>, n)
  <2>1. \A i \in 1 .. Len(lines) : lines[i].kind # kind
    <3> SUFFICES ASSUME NEW i \in 1 .. Len(lines), lines[i].kind = kind PROVE FALSE
      OBVIOUS
    <3>1. PICK j \in i .. Len(lines) : lines[j].id = id
      BY <1>w DEF Behind
    <3>2. j \in 1 .. Len(lines)
      BY <1>0
    <3> QED BY <1>5, <3>1, <3>2
  <2>2. \A i \in 1 .. Len(again) : again[i].kind # kind
    BY <1>2, <2>1
  <2>3. Texts(again, kind) = << >>
    BY <1>2, <2>2, TextsNone
  <2>4. ~ (next <= MaxLogEntries + 1)
    <3> SUFFICES ASSUME next <= MaxLogEntries + 1 PROVE FALSE
      OBVIOUS
    <3>1. Len(lines) = next - 1 /\ \A i \in 1 .. Len(lines) : lines[i].id = i
      BY DEF Whole
    <3>2. id \in 1 .. Len(lines)
      BY <1>0, <1>w, <3>1 DEF Writes, Listed
    <3> QED BY <1>5, <3>1, <3>2
  <2>5. Ends(<< >>, n)
    BY <1>0, EndsNone
  <2> QED BY <1>3, <2>3, <2>4, <2>5 DEF NothingMissing
<1>6. NothingMissing(again, next, kind, << >>, n)
  BY <1>4, <1>5
<1>7. Writes(again, next, kind, id)
  BY <1>1, <1>w, RedoneWrites
<1>8. Behind(again, kind, id)
  BY <1>0, <1>1, <1>w, RedoneBehind
<1>9. << >> \in Seq(Nat)
  OBVIOUS
<1> QED BY <1>0, <1>6, <1>7, <1>8, <1>9 DEF Stream, again

-----------------------------------------------------------------------------
(* The log, the two streams and the bar together. *)

LogOK(lines, next, a, ab, an, r, rb, rn, bar) ==
    /\ Listed(lines, next) /\ Whole(lines, next) /\ Len(lines) <= MaxLogEntries /\ next >= 1
    /\ Stream(lines, next, "assistant", a, ab, an)
    /\ Stream(lines, next, "reasoning", r, rb, rn)
    /\ Writes(lines, next, "bar", bar)
    /\ bar # 0 => bar # a /\ bar # r

LEMMA KindsDiffer ==
  /\ "assistant" # "reasoning" /\ "assistant" # "bar" /\ "reasoning" # "bar"
  /\ {"user", "status", "tool", "diff", "assistant", "reasoning", "bar"} \subseteq Kinds
BY DEF Kinds

\* A new line.
LEMMA NewTakes ==
  ASSUME NEW lines, NEW next, Listed(lines, next), next >= 1, next <= MaxId, NEW kind \in Kinds, NEW b \in Seq(Nat)
  PROVE  /\ Takes(lines, next, NewLine(next, kind, b), next + 1)
         /\ NewLine(next, kind, b).id = next
         /\ NewLine(next, kind, b).kind = kind
         /\ NewLine(next, kind, b).text = b
<1>1. next \in Nat /\ MaxId \in Nat /\ MaxLogEntries \in Nat
  BY ConstantsAssumption DEF Listed, ConstantsAssumption
<1>2. next \in 1 .. MaxId /\ next + 1 \in Nat /\ next <= next + 1 /\ next < next + 1
  BY <1>1
<1>3. NewLine(next, kind, b) \in Line
  BY <1>2 DEF NewLine, Line
<1>4. /\ NewLine(next, kind, b).id = next
      /\ NewLine(next, kind, b).kind = kind
      /\ NewLine(next, kind, b).text = b
  BY DEF NewLine
<1>5. \A i \in 1 .. Len(lines) : lines[i].id # next
  <2> SUFFICES ASSUME NEW i \in 1 .. Len(lines), lines[i].id = next PROVE FALSE
    OBVIOUS
  <2>1. lines[i].id < next
    BY DEF Listed
  <2> QED BY <1>1, <2>1
<1> HIDE DEF NewLine
<1> QED BY <1>1, <1>2, <1>3, <1>4, <1>5 DEF Takes

LEMMA NewWrites ==
  ASSUME NEW lines, NEW next, NEW line, NEW later, Listed(lines, next), Whole(lines, next),
         Takes(lines, next, line, later), Len(lines) <= MaxLogEntries, line.id = next,
         NEW kind, line.kind = kind
  PROVE  Writes(Capped(Append(lines, line)), later, kind, next)
<1> DEFINE more == Append(lines, line)
<1>0. lines \in Seq(Line) /\ line \in Line /\ next \in Nat /\ next < later
  BY DEF Listed, Takes
<1>1. /\ Len(more) = Len(lines) + 1 /\ Len(lines) \in Nat
      /\ \A i \in 1 .. Len(lines) : more[i] = lines[i]
      /\ more[Len(lines) + 1] = line
  BY <1>0, AppendIs, LinesOf
<1>2. more \in Seq(Line) /\ Len(more) <= MaxLogEntries + 1
  BY NothingIsDropped
<1> HIDE DEF more
<1>3. ASSUME NEW i \in 1 .. Len(more), more[i].id = next PROVE more[i].kind = kind
  <2>1. i \in 1 .. Len(lines) \/ i = Len(lines) + 1
    BY <1>1
  <2> QED BY <1>1, <1>3, <2>1 DEF Takes
<1>4. Writes(more, later, kind, next)
  BY <1>0, <1>3 DEF Writes
<1>5. Writes(Capped(more), later, kind, next)
  BY <1>2, <1>4, CappedWrites
<1> QED BY <1>5 DEF more

LEMMA PushKeepsLog ==
  ASSUME NEW lines, NEW next, NEW a, NEW ab, NEW an, NEW r, NEW rb, NEW rn, NEW bar,
         LogOK(lines, next, a, ab, an, r, rb, rn, bar), next <= MaxId,
         NEW kind \in {"user", "status", "tool", "diff"}, NEW b \in Seq(Nat)
  PROVE  LogOK(Push(lines, next, kind, b), next + 1, a, ab, an, r, rb, rn, bar)
<1> DEFINE line == NewLine(next, kind, b)
<1>1. Listed(lines, next) /\ Whole(lines, next) /\ Len(lines) <= MaxLogEntries /\ next >= 1 /\ next \in Nat
  BY DEF LogOK, Listed
<1>2. kind \in Kinds /\ kind # "assistant" /\ kind # "reasoning" /\ kind # "bar"
  BY DEF Kinds
<1>3. Takes(lines, next, line, next + 1) /\ line.id = next /\ line.kind = kind
  BY <1>1, <1>2, NewTakes
<1>4. Push(lines, next, kind, b) = Capped(Append(lines, line))
  BY DEF Push
<1> HIDE DEF line
<1>5. /\ Stream(lines, next, "assistant", a, ab, an) /\ Stream(lines, next, "reasoning", r, rb, rn)
      /\ Writes(lines, next, "bar", bar)
  BY DEF LogOK
<1>6. next # a /\ next # r /\ next # bar
  BY <1>1, <1>5 DEF Stream, Writes
<1>7. Stream(Capped(Append(lines, line)), next + 1, "assistant", a, ab, an)
  BY <1>1, <1>2, <1>3, <1>5, <1>6, PushStream
<1>8. Stream(Capped(Append(lines, line)), next + 1, "reasoning", r, rb, rn)
  BY <1>1, <1>2, <1>3, <1>5, <1>6, PushStream
<1>9. Writes(Capped(Append(lines, line)), next + 1, "bar", bar)
  BY <1>1, <1>3, <1>5, <1>6, PushWrites
<1>10. /\ Listed(Capped(Append(lines, line)), next + 1) /\ Whole(Capped(Append(lines, line)), next + 1)
       /\ Len(Capped(Append(lines, line))) <= MaxLogEntries
  BY <1>1, <1>3, PushListed
<1>11. next + 1 >= 1 /\ (bar # 0 => bar # a /\ bar # r)
  BY <1>1 DEF LogOK
<1> QED BY <1>4, <1>7, <1>8, <1>9, <1>10, <1>11 DEF LogOK

\* A new bar.
LEMMA NewBarKeepsLog ==
  ASSUME NEW lines, NEW next, NEW a, NEW ab, NEW an, NEW r, NEW rb, NEW rn, NEW bar,
         LogOK(lines, next, a, ab, an, r, rb, rn, bar), next <= MaxId, NEW b \in Seq(Nat)
  PROVE  LogOK(Push(lines, next, "bar", b), next + 1, a, ab, an, r, rb, rn, next)
<1> DEFINE line == NewLine(next, "bar", b)
<1>1. Listed(lines, next) /\ Whole(lines, next) /\ Len(lines) <= MaxLogEntries /\ next >= 1 /\ next \in Nat
  BY DEF LogOK, Listed
<1>3. Takes(lines, next, line, next + 1) /\ line.id = next /\ line.kind = "bar"
  BY <1>1, KindsDiffer, NewTakes
<1>4. Push(lines, next, "bar", b) = Capped(Append(lines, line))
  BY DEF Push
<1> HIDE DEF line
<1>5. /\ Stream(lines, next, "assistant", a, ab, an) /\ Stream(lines, next, "reasoning", r, rb, rn)
  BY DEF LogOK
<1>6. next # a /\ next # r
  BY <1>1, <1>5 DEF Stream, Writes
<1>7. Stream(Capped(Append(lines, line)), next + 1, "assistant", a, ab, an)
  BY <1>1, <1>3, <1>5, <1>6, KindsDiffer, PushStream
<1>8. Stream(Capped(Append(lines, line)), next + 1, "reasoning", r, rb, rn)
  BY <1>1, <1>3, <1>5, <1>6, KindsDiffer, PushStream
<1>9. Writes(Capped(Append(lines, line)), next + 1, "bar", next)
  BY <1>1, <1>3, NewWrites
<1>10. /\ Listed(Capped(Append(lines, line)), next + 1) /\ Whole(Capped(Append(lines, line)), next + 1)
       /\ Len(Capped(Append(lines, line))) <= MaxLogEntries
  BY <1>1, <1>3, PushListed
<1>11. next + 1 >= 1
  BY <1>1
<1> QED BY <1>4, <1>6, <1>7, <1>8, <1>9, <1>10, <1>11 DEF LogOK

\* The bar whose line the cap dropped.
LEMMA BarBackKeepsLog ==
  ASSUME NEW lines, NEW next, NEW a, NEW ab, NEW an, NEW r, NEW rb, NEW rn, NEW bar,
         LogOK(lines, next, a, ab, an, r, rb, rn, bar), bar \in 1 .. MaxId, NEW b \in Seq(Nat),
         \A i \in 1 .. Len(lines) : lines[i].id # bar
  PROVE  LogOK(Push(lines, bar, "bar", b), next, a, ab, an, r, rb, rn, bar)
<1> DEFINE line == NewLine(bar, "bar", b)
<1>0. MaxLogEntries \in Nat
  BY ConstantsAssumption DEF ConstantsAssumption
<1>1. Listed(lines, next) /\ Whole(lines, next) /\ Len(lines) <= MaxLogEntries /\ next >= 1 /\ next \in Nat
  BY DEF LogOK, Listed
<1>2. /\ Stream(lines, next, "assistant", a, ab, an) /\ Stream(lines, next, "reasoning", r, rb, rn)
      /\ Writes(lines, next, "bar", bar) /\ bar # a /\ bar # r /\ bar < next /\ bar \in Nat
  BY DEF LogOK, Writes
<1>3. ~ (next <= MaxLogEntries + 1)
  <2> SUFFICES ASSUME next <= MaxLogEntries + 1 PROVE FALSE
    OBVIOUS
  <2>1. Len(lines) = next - 1 /\ \A i \in 1 .. Len(lines) : lines[i].id = i
    BY <1>1 DEF Whole
  <2>2. bar \in 1 .. Len(lines)
    BY <1>1, <1>2, <2>1
  <2> QED BY <2>1, <2>2
<1>4. line \in Line /\ line.id = bar /\ line.kind = "bar"
  BY KindsDiffer DEF NewLine, Line
<1>5. Push(lines, bar, "bar", b) = Capped(Append(lines, line))
  BY DEF Push
<1> HIDE DEF line
<1>6. Takes(lines, next, line, next)
  BY <1>1, <1>2, <1>3, <1>4 DEF Takes
<1>7. Stream(Capped(Append(lines, line)), next, "assistant", a, ab, an)
  BY <1>1, <1>2, <1>4, <1>6, KindsDiffer, PushStream
<1>8. Stream(Capped(Append(lines, line)), next, "reasoning", r, rb, rn)
  BY <1>1, <1>2, <1>4, <1>6, KindsDiffer, PushStream
<1>9. Writes(Capped(Append(lines, line)), next, "bar", bar)
  BY <1>1, <1>2, <1>4, <1>6, PushWrites
<1>10. /\ Listed(Capped(Append(lines, line)), next) /\ Whole(Capped(Append(lines, line)), next)
       /\ Len(Capped(Append(lines, line))) <= MaxLogEntries
  BY <1>1, <1>6, PushListed
<1> QED BY <1>1, <1>2, <1>5, <1>7, <1>8, <1>9, <1>10 DEF LogOK

\* The bar is rewritten in its line.
LEMMA BarAgainKeepsLog ==
  ASSUME NEW lines, NEW next, NEW a, NEW ab, NEW an, NEW r, NEW rb, NEW rn, NEW bar,
         LogOK(lines, next, a, ab, an, r, rb, rn, bar), NEW again, Redone(lines, again, "bar")
  PROVE  LogOK(again, next, a, ab, an, r, rb, rn, bar)
<1>1. Listed(lines, next) /\ Whole(lines, next) /\ Len(lines) <= MaxLogEntries /\ next >= 1 /\ lines \in Seq(Line)
  BY DEF LogOK, Listed
<1>2. Listed(again, next) /\ Whole(again, next) /\ Len(again) = Len(lines)
  BY <1>1, RedoneListed
<1>3. /\ Stream(lines, next, "assistant", a, ab, an) /\ Stream(lines, next, "reasoning", r, rb, rn)
      /\ Writes(lines, next, "bar", bar)
  BY DEF LogOK
<1>4. /\ Stream(again, next, "assistant", a, ab, an) /\ Stream(again, next, "reasoning", r, rb, rn)
  BY <1>1, <1>3, RedoneStream, KindsDiffer
<1>5. Writes(again, next, "bar", bar)
  BY <1>3, RedoneWrites
<1>6. bar # 0 => bar # a /\ bar # r
  BY DEF LogOK
<1> QED BY <1>1, <1>2, <1>4, <1>5, <1>6 DEF LogOK

\* A buffer is flushed: nothing happens, or its line grows, or it gets one.
LEMMA FlushCases ==
  ASSUME NEW lines, NEW next, NEW id, NEW kind, NEW b
  PROVE  \/ b = << >> /\ Flushed(<<lines, next, id>>, kind, b) = <<lines, next, id>> /\ Owes(b, id) = 0
         \/ /\ b # << >> /\ id # 0 /\ Owes(b, id) = 0
            /\ Flushed(<<lines, next, id>>, kind, b) = <<Extended(lines, id, b), next, id>>
         \/ /\ b # << >> /\ id = 0 /\ Owes(b, id) = 1
            /\ Flushed(<<lines, next, id>>, kind, b)
                 = <<Capped(Append(lines, NewLine(next, kind, b))), next + 1, next>>
BY DEF Flushed, Owes, Push

LEMMA AnswerFlushKeepsLog ==
  ASSUME NEW lines, NEW next, NEW a, NEW ab, NEW an, NEW r, NEW rb, NEW rn, NEW bar,
         LogOK(lines, next, a, ab, an, r, rb, rn, bar), next + Owes(ab, a) <= MaxId + 1
  PROVE  LET out == Flushed(<<lines, next, a>>, "assistant", ab) IN
         LogOK(out[1], out[2], out[3], << >>, an, r, rb, rn, bar) /\ out[2] = next + Owes(ab, a)
<1> DEFINE out == Flushed(<<lines, next, a>>, "assistant", ab)
<1>1. Listed(lines, next) /\ Whole(lines, next) /\ Len(lines) <= MaxLogEntries /\ next >= 1
      /\ next \in Nat /\ lines \in Seq(Line) /\ MaxId \in Nat
  BY ConstantsAssumption DEF LogOK, Listed, ConstantsAssumption
<1>2. /\ Stream(lines, next, "assistant", a, ab, an) /\ Stream(lines, next, "reasoning", r, rb, rn)
      /\ Writes(lines, next, "bar", bar) /\ Writes(lines, next, "assistant", a)
      /\ ab \in Seq(Nat) /\ bar < next /\ bar \in Nat /\ r < next /\ r \in Nat
  BY DEF LogOK, Stream, Writes
<1>3. CASE ab = << >> /\ out = <<lines, next, a>> /\ Owes(ab, a) = 0
  BY <1>1, <1>3
<1>4. CASE out = <<Extended(lines, a, ab), next, a>> /\ a # 0 /\ Owes(ab, a) = 0
  <2> DEFINE again == Extended(lines, a, ab)
  <2>1. Redone(lines, again, "assistant")
    BY <1>1, <1>2, ExtendedIs DEF LongerIn
  <2>2. Listed(again, next) /\ Whole(again, next) /\ Len(again) = Len(lines)
    BY <1>1, <2>1, RedoneListed
  <2>3. Stream(again, next, "assistant", a, << >>, an)
    BY <1>1, <1>2, <1>4, StreamExtended
  <2>4. Stream(again, next, "reasoning", r, rb, rn)
    BY <1>1, <1>2, <2>1, RedoneStream, KindsDiffer
  <2>5. Writes(again, next, "bar", bar)
    BY <1>2, <2>1, RedoneWrites
  <2>6. bar # 0 => bar # a /\ bar # r
    BY DEF LogOK
  <2> HIDE DEF again
  <2>7. LogOK(again, next, a, << >>, an, r, rb, rn, bar)
    BY <1>1, <2>2, <2>3, <2>4, <2>5, <2>6 DEF LogOK
  <2> QED BY <1>1, <1>4, <2>7 DEF again
<1>5. CASE /\ a = 0 /\ Owes(ab, a) = 1
           /\ out = <<Capped(Append(lines, NewLine(next, "assistant", ab))), next + 1, next>>
  <2> DEFINE line == NewLine(next, "assistant", ab)
             more == Capped(Append(lines, line))
  <2>1. next <= MaxId
    BY <1>1, <1>5
  <2>2. /\ Takes(lines, next, line, next + 1) /\ line.id = next /\ line.kind = "assistant" /\ line.text = ab
    BY <1>1, <1>2, <2>1, KindsDiffer, NewTakes
  <2> HIDE DEF line
  <2>3. Stream(more, next + 1, "assistant", next, << >>, an)
    BY <1>1, <1>2, <2>2, PushNew
  <2>4. Stream(more, next + 1, "reasoning", r, rb, rn)
    <3>1. next # r
      BY <1>1, <1>2
    <3> QED BY <1>1, <1>2, <2>2, <3>1, PushStream, KindsDiffer
  <2>5. Writes(more, next + 1, "bar", bar)
    <3>1. next # bar
      BY <1>1, <1>2
    <3> QED BY <1>1, <1>2, <2>2, <3>1, PushWrites
  <2>6. Listed(more, next + 1) /\ Whole(more, next + 1) /\ Len(more) <= MaxLogEntries
    BY <1>1, <2>2, PushListed
  <2>7. bar # 0 => bar # next /\ bar # r
    BY <1>1, <1>2 DEF LogOK
  <2> HIDE DEF more
  <2>8. LogOK(more, next + 1, next, << >>, an, r, rb, rn, bar)
    BY <1>1, <2>3, <2>4, <2>5, <2>6, <2>7 DEF LogOK
  <2> QED BY <1>5, <2>8 DEF more, line
<1> QED BY <1>3, <1>4, <1>5, FlushCases

LEMMA ReasoningFlushKeepsLog ==
  ASSUME NEW lines, NEW next, NEW a, NEW ab, NEW an, NEW r, NEW rb, NEW rn, NEW bar,
         LogOK(lines, next, a, ab, an, r, rb, rn, bar), next + Owes(rb, r) <= MaxId + 1
  PROVE  LET out == Flushed(<<lines, next, r>>, "reasoning", rb) IN
         LogOK(out[1], out[2], a, ab, an, out[3], << >>, rn, bar) /\ out[2] = next + Owes(rb, r)
<1> DEFINE out == Flushed(<<lines, next, r>>, "reasoning", rb)
<1>1. Listed(lines, next) /\ Whole(lines, next) /\ Len(lines) <= MaxLogEntries /\ next >= 1
      /\ next \in Nat /\ lines \in Seq(Line) /\ MaxId \in Nat
  BY ConstantsAssumption DEF LogOK, Listed, ConstantsAssumption
<1>2. /\ Stream(lines, next, "assistant", a, ab, an) /\ Stream(lines, next, "reasoning", r, rb, rn)
      /\ Writes(lines, next, "bar", bar) /\ Writes(lines, next, "reasoning", r)
      /\ rb \in Seq(Nat) /\ bar < next /\ bar \in Nat /\ a < next /\ a \in Nat
  BY DEF LogOK, Stream, Writes
<1>3. CASE rb = << >> /\ out = <<lines, next, r>> /\ Owes(rb, r) = 0
  BY <1>1, <1>3
<1>4. CASE out = <<Extended(lines, r, rb), next, r>> /\ r # 0 /\ Owes(rb, r) = 0
  <2> DEFINE again == Extended(lines, r, rb)
  <2>1. Redone(lines, again, "reasoning")
    BY <1>1, <1>2, ExtendedIs DEF LongerIn
  <2>2. Listed(again, next) /\ Whole(again, next) /\ Len(again) = Len(lines)
    BY <1>1, <2>1, RedoneListed
  <2>3. Stream(again, next, "reasoning", r, << >>, rn)
    BY <1>1, <1>2, <1>4, StreamExtended
  <2>4. Stream(again, next, "assistant", a, ab, an)
    BY <1>1, <1>2, <2>1, RedoneStream, KindsDiffer
  <2>5. Writes(again, next, "bar", bar)
    BY <1>2, <2>1, RedoneWrites
  <2>6. bar # 0 => bar # a /\ bar # r
    BY DEF LogOK
  <2> HIDE DEF again
  <2>7. LogOK(again, next, a, ab, an, r, << >>, rn, bar)
    BY <1>1, <2>2, <2>3, <2>4, <2>5, <2>6 DEF LogOK
  <2> QED BY <1>1, <1>4, <2>7 DEF again
<1>5. CASE /\ r = 0 /\ Owes(rb, r) = 1
           /\ out = <<Capped(Append(lines, NewLine(next, "reasoning", rb))), next + 1, next>>
  <2> DEFINE line == NewLine(next, "reasoning", rb)
             more == Capped(Append(lines, line))
  <2>1. next <= MaxId
    BY <1>1, <1>5
  <2>2. /\ Takes(lines, next, line, next + 1) /\ line.id = next /\ line.kind = "reasoning" /\ line.text = rb
    BY <1>1, <1>2, <2>1, KindsDiffer, NewTakes
  <2> HIDE DEF line
  <2>3. Stream(more, next + 1, "reasoning", next, << >>, rn)
    BY <1>1, <1>2, <2>2, PushNew
  <2>4. Stream(more, next + 1, "assistant", a, ab, an)
    <3>1. next # a
      BY <1>1, <1>2
    <3> QED BY <1>1, <1>2, <2>2, <3>1, PushStream, KindsDiffer
  <2>5. Writes(more, next + 1, "bar", bar)
    <3>1. next # bar
      BY <1>1, <1>2
    <3> QED BY <1>1, <1>2, <2>2, <3>1, PushWrites
  <2>6. Listed(more, next + 1) /\ Whole(more, next + 1) /\ Len(more) <= MaxLogEntries
    BY <1>1, <2>2, PushListed
  <2>7. bar # 0 => bar # a /\ bar # next
    BY <1>1, <1>2 DEF LogOK
  <2> HIDE DEF more
  <2>8. LogOK(more, next + 1, a, ab, an, next, << >>, rn, bar)
    BY <1>1, <2>3, <2>4, <2>5, <2>6, <2>7 DEF LogOK
  <2> QED BY <1>5, <2>8 DEF more, line
<1> QED BY <1>3, <1>4, <1>5, FlushCases

\* A delta goes into a buffer.
LEMMA StreamDelta ==
  ASSUME NEW lines, NEW next, lines \in Seq(Line), NEW kind, NEW id, NEW buf, NEW n,
         Stream(lines, next, kind, id, buf, n)
  PROVE  Stream(lines, next, kind, id, Append(buf, n + 1), n + 1)
<1>1. buf \in Seq(Nat) /\ n \in Nat /\ n + 1 \in Nat /\ Texts(lines, kind) \in Seq(Nat)
  BY TextsIn DEF Stream
<1>2. Cat(Texts(lines, kind), Append(buf, n + 1)) = Append(Cat(Texts(lines, kind), buf), n + 1)
  BY <1>1, CatAppend
<1>3. Ends(Cat(Texts(lines, kind), buf), n)
  BY DEF Stream, NothingMissing
<1>4. /\ Ends(Append(Cat(Texts(lines, kind), buf), n + 1), n + 1)
      /\ Len(Append(Cat(Texts(lines, kind), buf), n + 1)) = Len(Cat(Texts(lines, kind), buf)) + 1
  BY <1>1, <1>3, EndsNext
<1>5. NothingMissing(lines, next, kind, Append(buf, n + 1), n + 1)
  BY <1>2, <1>4 DEF NothingMissing, Stream
<1>6. Append(buf, n + 1) \in Seq(Nat)
  BY <1>1
<1> QED BY <1>1, <1>5, <1>6 DEF Stream

\* A stream lets go of its line.
LEMMA StreamReleased ==
  ASSUME NEW lines, NEW next, Listed(lines, next), next >= 1, NEW kind, NEW id, NEW buf, NEW n,
         Stream(lines, next, kind, id, buf, n)
  PROVE  Stream(lines, next, kind, 0, buf, n)
<1>1. \A i \in 1 .. Len(lines) : lines[i].id # 0
  BY LinesOf, LineFields DEF Listed
<1>2. Writes(lines, next, kind, 0) /\ Behind(lines, kind, 0)
  BY <1>1 DEF Writes, Behind, Listed
<1> QED BY <1>2 DEF Stream

LEMMA DeltaKeepsLog ==
  ASSUME NEW lines, NEW next, NEW a, NEW ab, NEW an, NEW r, NEW rb, NEW rn, NEW bar,
         LogOK(lines, next, a, ab, an, r, rb, rn, bar)
  PROVE  /\ LogOK(lines, next, a, Append(ab, an + 1), an + 1, r, rb, rn, bar)
         /\ LogOK(lines, next, a, ab, an, r, Append(rb, rn + 1), rn + 1, bar)
<1>1. lines \in Seq(Line)
  BY DEF LogOK, Listed
<1>2. /\ Stream(lines, next, "assistant", a, Append(ab, an + 1), an + 1)
      /\ Stream(lines, next, "reasoning", r, Append(rb, rn + 1), rn + 1)
  BY <1>1, StreamDelta DEF LogOK
<1> QED BY <1>2 DEF LogOK

LEMMA ReleaseKeepsLog ==
  ASSUME NEW lines, NEW next, NEW a, NEW ab, NEW an, NEW r, NEW rb, NEW rn, NEW bar,
         LogOK(lines, next, a, ab, an, r, rb, rn, bar)
  PROVE  LogOK(lines, next, 0, ab, an, 0, rb, rn, bar) /\ LogOK(lines, next, a, ab, an, r, rb, rn, 0)
<1>1. Listed(lines, next) /\ next >= 1 /\ next \in Nat
  BY DEF LogOK, Listed
<1>2. /\ Stream(lines, next, "assistant", 0, ab, an)
      /\ Stream(lines, next, "reasoning", 0, rb, rn)
  BY <1>1, StreamReleased DEF LogOK
<1>3. \A i \in 1 .. Len(lines) : lines[i].id # 0
  BY LinesOf, LineFields DEF LogOK, Listed
<1>4. Writes(lines, next, "bar", 0)
  BY <1>1, <1>3 DEF Writes
<1> QED BY <1>2, <1>4 DEF LogOK

-----------------------------------------------------------------------------
(* The inductive invariant. *)

\* The log, with the room that is left for the text in the buffers.
LogInv ==
    /\ LogOK(log, nextId, asId, asBuf, said, reId, reBuf, thought, barId)
    /\ nextId + Owed <= MaxId + 1

AgentOK ==
    /\ phase \in {"idle", "reply", "tool"} /\ reply \in 0 .. MaxReplies /\ turnStarted \in BOOLEAN
    /\ said <= MaxDeltas /\ thought <= MaxDeltas
    /\ updates \in 0 .. MaxUpdates

\* A running call has a line.
ToolsOK ==
    /\ toolId \in Nat /\ toolId < nextId /\ (phase = "tool" => toolId # 0)
    /\ doneTools \subseteq 1 .. MaxId /\ closed \subseteq 1 .. MaxId

ViewOK ==
    /\ offset \in 0 .. (3 * MaxLogEntries)
    /\ drag \in [kind : {"none", "still", "rows", "stray"}, pressed : BOOLEAN,
                  anchor : 0 .. (3 * MaxLogEntries), head : Int]

ScreenIInv == LogInv /\ AgentOK /\ ToolsOK /\ ViewOK

LEMMA OwesIs ==
  ASSUME NEW b, NEW id
  PROVE  Owes(b, id) \in {0, 1} /\ (b = << >> => Owes(b, id) = 0)
BY DEF Owes

LEMMA OwedIs == Owed \in 0 .. 2 /\ Owed = Owes(asBuf, asId) + Owes(reBuf, reId)
<1>1. Owes(asBuf, asId) \in {0, 1} /\ Owes(reBuf, reId) \in {0, 1}
  BY OwesIs
<1> QED BY <1>1 DEF Owed

LEMMA LogTypes ==
  ASSUME LogInv
  PROVE  /\ log \in Seq(Line) /\ Len(log) <= MaxLogEntries /\ Len(log) \in Nat /\ DOMAIN log = 1 .. Len(log)
         /\ \A i, j \in DOMAIN log : log[i].id = log[j].id => i = j
         /\ nextId \in 1 .. (MaxId + 1)
         /\ said \in Nat /\ thought \in Nat
         /\ asBuf \in Seq(Nat) /\ reBuf \in Seq(Nat)
         /\ {asId, reId, barId} \subseteq 0 .. MaxId
<1>0. MaxId \in Nat
  BY ConstantsAssumption DEF ConstantsAssumption
<1>1. Listed(log, nextId) /\ nextId >= 1 /\ Len(log) <= MaxLogEntries
  BY DEF LogInv, LogOK
<1>2. Stream(log, nextId, "assistant", asId, asBuf, said) /\ Stream(log, nextId, "reasoning", reId, reBuf, thought)
      /\ Writes(log, nextId, "bar", barId)
  BY DEF LogInv, LogOK
<1>3. nextId \in 1 .. (MaxId + 1)
  <2>1. nextId + Owed <= MaxId + 1 /\ Owed \in 0 .. 2
    BY OwedIs DEF LogInv
  <2>2. nextId \in Nat
    BY <1>1 DEF Listed
  <2> QED BY <1>0, <1>1, <2>1, <2>2
<1>4. log \in Seq(Line) /\ Len(log) \in Nat /\ DOMAIN log = 1 .. Len(log)
  BY <1>1, LinesOf DEF Listed
<1>5. \A i, j \in DOMAIN log : log[i].id = log[j].id => i = j
  BY <1>1, <1>4 DEF Listed
<1>6. asId \in Nat /\ asId < nextId /\ reId \in Nat /\ reId < nextId /\ barId \in Nat /\ barId < nextId
      /\ said \in Nat /\ thought \in Nat /\ asBuf \in Seq(Nat) /\ reBuf \in Seq(Nat)
  BY <1>2 DEF Stream, Writes
<1>7. {asId, reId, barId} \subseteq 0 .. MaxId
  BY <1>0, <1>3, <1>6
<1> QED BY <1>1, <1>3, <1>4, <1>5, <1>6, <1>7

LEMMA InvIsTyped ==
  ScreenIInv => ScreenTypeOK
<1> SUFFICES ASSUME ScreenIInv PROVE ScreenTypeOK
  OBVIOUS
<1>0. MaxId \in Nat /\ MaxDeltas \in Nat
  BY ConstantsAssumption DEF ConstantsAssumption
<1>1. /\ log \in Seq(Line) /\ Len(log) <= MaxLogEntries
      /\ \A i, j \in DOMAIN log : log[i].id = log[j].id => i = j
      /\ nextId \in 1 .. (MaxId + 1)
      /\ said \in Nat /\ thought \in Nat
      /\ asBuf \in Seq(Nat) /\ reBuf \in Seq(Nat)
      /\ {asId, reId, barId} \subseteq 0 .. MaxId
  BY LogTypes DEF ScreenIInv
<1>2. toolId \in 0 .. MaxId
  BY <1>0, <1>1 DEF ScreenIInv, ToolsOK
<1>3. {said, thought} \subseteq 0 .. MaxDeltas
  BY <1>0, <1>1 DEF ScreenIInv, AgentOK
<1>4. {asId, reId, toolId, barId} \subseteq 0 .. MaxId
  BY <1>1, <1>2
<1> QED BY <1>1, <1>3, <1>4 DEF ScreenTypeOK, ScreenIInv, AgentOK, ToolsOK, ViewOK

-----------------------------------------------------------------------------
(* What the log keeps. *)

\* A line that is no part of a stream and no bar.
LEMMA PushKeepsInv ==
  ASSUME LogInv, HasRoom(1), NEW kind \in {"user", "status", "tool", "diff"}, NEW b \in Seq(Nat),
         log' = Push(log, nextId, kind, b), nextId' = nextId + 1, UNCHANGED streamVars, UNCHANGED barId
  PROVE  LogInv' /\ nextId < nextId'
<1>1. nextId \in Nat /\ MaxId \in Nat /\ Owed \in 0 .. 2
  BY LogTypes, OwedIs, ConstantsAssumption DEF ConstantsAssumption
<1>2. nextId <= MaxId /\ (nextId + 1) + Owed <= MaxId + 1 /\ nextId < nextId + 1
  BY <1>1 DEF HasRoom
<1>3. LogOK(Push(log, nextId, kind, b), nextId + 1, asId, asBuf, said, reId, reBuf, thought, barId)
  BY <1>2, PushKeepsLog DEF LogInv
<1>4. asId' = asId /\ asBuf' = asBuf /\ said' = said /\ reId' = reId /\ reBuf' = reBuf /\ thought' = thought
  BY DEF streamVars
<1>5. Owed' = Owed
  BY <1>4 DEF Owed, Owes
<1> QED BY <1>2, <1>3, <1>4, <1>5 DEF LogInv

LEMMA SameLogInv ==
  ASSUME LogInv, UNCHANGED <<log, nextId, streamVars, barId>>
  PROVE  LogInv' /\ nextId' = nextId
BY DEF LogInv, Owed, Owes, streamVars

\* Both buffers.
LEMMA BothFlushedIs ==
  ASSUME LogInv
  PROVE  /\ LogOK(BothFlushed.log, BothFlushed.next, BothFlushed.as, << >>, said, BothFlushed.re, << >>, thought, barId)
         /\ BothFlushed.next = nextId + Owed
<1> DEFINE a == AnswerFlushed(log, nextId)
           r == ReasoningFlushed(a[1], a[2])
<1>0. nextId \in Nat /\ MaxId \in Nat
  BY LogTypes, ConstantsAssumption DEF ConstantsAssumption
<1>1. Owes(asBuf, asId) \in {0, 1} /\ Owes(reBuf, reId) \in {0, 1} /\ Owed = Owes(asBuf, asId) + Owes(reBuf, reId)
  BY OwesIs, OwedIs
<1>2. nextId + Owed <= MaxId + 1
  BY DEF LogInv
<1>3. LogOK(a[1], a[2], a[3], << >>, said, reId, reBuf, thought, barId) /\ a[2] = nextId + Owes(asBuf, asId)
  <2>1. nextId + Owes(asBuf, asId) <= MaxId + 1
    BY <1>0, <1>1, <1>2
  <2> QED BY <2>1, AnswerFlushKeepsLog DEF LogInv, AnswerFlushed
<1> HIDE DEF a
<1>4. LogOK(r[1], r[2], a[3], << >>, said, r[3], << >>, thought, barId) /\ r[2] = a[2] + Owes(reBuf, reId)
  <2>1. a[2] + Owes(reBuf, reId) <= MaxId + 1
    BY <1>0, <1>1, <1>2, <1>3
  <2>2. \A b : LogOK(a[1], a[2], a[3], b, said, reId, reBuf, thought, barId)
               => LogOK(r[1], r[2], a[3], b, said, r[3], << >>, thought, barId) /\ r[2] = a[2] + Owes(reBuf, reId)
    BY <2>1, ReasoningFlushKeepsLog DEF ReasoningFlushed
  <2> QED BY <1>3, <2>2
<1>5. BothFlushed = [log |-> r[1], next |-> r[2], as |-> a[3], re |-> r[3]]
  BY DEF BothFlushed, a
<1> HIDE DEF r
<1>6. r[2] = nextId + Owed
  BY <1>0, <1>1, <1>3, <1>4
<1> QED BY <1>4, <1>5, <1>6

LEMMA FinalizedIs ==
  ASSUME LogInv
  PROVE  /\ LogOK(Finalized.log, Finalized.next, Finalized.as, << >>, said, Finalized.re, << >>, thought, barId)
         /\ Finalized.next = nextId + Owed
<1>a. PICK l, next, a, r : BothFlushed = [log |-> l, next |-> next, as |-> a, re |-> r]
  BY DEF BothFlushed
<1>1. /\ Finalized.log = BothFlushed.log /\ Finalized.next = BothFlushed.next
      /\ Finalized.as = 0 /\ Finalized.re = 0
  BY <1>a DEF Finalized
<1>2. ASSUME NEW b, NEW lines, NEW m, NEW x, NEW y, LogOK(lines, m, x, b, said, y, b, thought, barId)
      PROVE  LogOK(lines, m, 0, b, said, 0, b, thought, barId)
  BY <1>2, ReleaseKeepsLog
<1>3. LogOK(BothFlushed.log, BothFlushed.next, 0, << >>, said, 0, << >>, thought, barId)
  BY <1>2, BothFlushedIs
<1> QED BY <1>1, <1>3, BothFlushedIs

LEMMA StreamsKeepsInv ==
  ASSUME NEW f, f.next <= MaxId + 1, f.next \in Nat,
         LogOK(f.log, f.next, f.as, << >>, said, f.re, << >>, thought, barId), Streams(f), barId' = barId
  PROVE  LogInv' /\ nextId' = f.next
<1>1. /\ log' = f.log /\ nextId' = f.next /\ asId' = f.as /\ reId' = f.re
      /\ asBuf' = << >> /\ reBuf' = << >> /\ said' = said /\ thought' = thought
  BY DEF Streams
<1>2. Owed' = 0
  BY <1>1 DEF Owed, Owes
<1> QED BY <1>1, <1>2 DEF LogInv

-----------------------------------------------------------------------------
(* The window. *)

Row == Nat \X Nat

LEMMA RowsAre ==
  ASSUME NEW line \in Line
  PROVE  RowsOf(line) \in Seq(Row) /\ Len(RowsOf(line)) <= 3
<1>1. line.id \in Nat
  BY LineFields
<1>2. /\ <<line.id, 0>> \in Row /\ <<line.id, 1>> \in Row /\ <<line.id, 2>> \in Row /\ <<line.id, 3>> \in Row
  BY <1>1 DEF Row
<1>3. ASSUME NEW x \in Row, NEW y \in Row, NEW z \in Row
      PROVE  /\ <<x>> \in Seq(Row) /\ Len(<<x>>) <= 3
             /\ <<x, y>> \in Seq(Row) /\ Len(<<x, y>>) <= 3
             /\ Append(<<x, y>>, z) \in Seq(Row) /\ Len(Append(<<x, y>>, z)) <= 3
  OBVIOUS
<1> DEFINE two == << <<line.id, 1>>, <<line.id, 2>> >>
<1>4. RowsOf(line) \in {Append(two, <<line.id, 3>>), two, << <<line.id, 0>> >>}
  BY DEF RowsOf
<1> QED BY <1>2, <1>3, <1>4

LEMMA AllRowsAre ==
  ASSUME log \in Seq(Line), Len(log) <= MaxLogEntries
  PROVE  AllRows \in Seq(Row) /\ Len(AllRows) \in Nat /\ Len(AllRows) <= 3 * MaxLogEntries
<1> DEFINE s == [i \in DOMAIN log |-> RowsOf(log[i])]
<1>1. /\ Len(log) \in Nat /\ DOMAIN log = 1 .. Len(log)
      /\ \A i \in 1 .. Len(log) : log[i] \in Line
  BY LinesOf
<1>2. s = [i \in 1 .. Len(log) |-> RowsOf(log[i])]
  BY <1>1
<1>3. \A i \in 1 .. Len(log) : RowsOf(log[i]) \in Seq(Row) /\ Len(RowsOf(log[i])) <= 3
  BY <1>1, RowsAre
<1>4. /\ s \in Seq(Seq(Row)) /\ Len(s) = Len(log)
      /\ \A i \in 1 .. Len(s) : Len(s[i]) <= 3
  BY <1>1, <1>2, <1>3
<1>5. AllRows = FlattenSeq(s)
  BY DEF AllRows
<1> HIDE DEF s
<1>6. FlattenSeq(s) \in Seq(Row)
  BY <1>4, FlattenIsSeq
<1>7. Len(FlattenSeq(s)) <= 3 * Len(s)
  BY <1>4, FlattenBound
<1>8. \A q \in Seq(Row) : Len(q) \in Nat
  BY LenProperties
<1>9. MaxLogEntries \in Nat
  BY ConstantsAssumption DEF ConstantsAssumption
<1>10. Len(FlattenSeq(s)) \in Nat
  BY <1>6, <1>8
<1>11. \A m, n, k \in Nat : m <= n /\ k <= 3 * m => k <= 3 * n
  OBVIOUS
<1> QED BY <1>1, <1>4, <1>5, <1>6, <1>7, <1>9, <1>10, <1>11

\* The numbers of the window, in the order the render computes them.
LEMMA WindowIs ==
  ASSUME NEW n \in Nat, n = Len(AllRows), offset \in Nat
  PROVE  LET w == Window IN
         /\ w.rows = AllRows
         /\ w.maxScroll \in 0 .. n /\ w.clamped \in 0 .. n
         /\ w.start \in 0 .. w.end /\ w.end \in 0 .. n
         /\ w.firstRow \in Nat
         /\ w.banner + (w.end - w.start) <= LogHeight
         /\ w.end > w.start => w.firstRow + (w.end - w.start) - 1 = LogHeight
         /\ offset >= w.maxScroll => w.start = 0
         /\ offset = 0 => w.end = n
<1> DEFINE maxScroll == MaxOf(0, n - Scrollable)
           clamped == MinOf(offset, maxScroll)
           banner == IF clamped > 0 THEN 1 ELSE 0
           end == n - clamped
           start == MaxOf(0, end - (LogHeight - banner))
           gap == MaxOf(0, LogHeight - (banner + (end - start)))
<1>0. LogHeight \in Nat /\ LogHeight >= 2 /\ Scrollable = LogHeight - 1
  BY ConstantsAssumption DEF ConstantsAssumption, Scrollable
<1>1. Window = [rows |-> AllRows, maxScroll |-> maxScroll, clamped |-> clamped, banner |-> banner,
                start |-> start, end |-> end, firstRow |-> 1 + gap + banner]
  BY DEF Window
<1>2. maxScroll \in 0 .. n /\ (maxScroll = n - (LogHeight - 1) \/ (maxScroll = 0 /\ n <= LogHeight - 1))
  BY <1>0 DEF MaxOf
<1> HIDE DEF maxScroll
<1>3. /\ clamped \in 0 .. n /\ clamped <= maxScroll
      /\ offset >= maxScroll => clamped = maxScroll
      /\ offset = 0 => clamped = 0
  BY <1>2 DEF MinOf
<1> HIDE DEF clamped
<1>4. banner \in {0, 1} /\ (clamped > 0 <=> banner = 1) /\ end \in 0 .. n
  BY <1>3
<1>5. end = n - clamped
  OBVIOUS
<1> HIDE DEF banner, end
<1>6. start \in 0 .. end /\ (start = end - (LogHeight - banner) \/ (start = 0 /\ end <= LogHeight - banner))
      /\ end - start <= LogHeight - banner
  BY <1>0, <1>4 DEF MaxOf
<1> HIDE DEF start
<1>7. gap = LogHeight - (banner + (end - start)) /\ gap \in Nat
  BY <1>0, <1>4, <1>6 DEF MaxOf
<1> HIDE DEF gap
<1>8. offset >= maxScroll => start = 0
  <2> SUFFICES ASSUME offset >= maxScroll PROVE start = 0
    OBVIOUS
  <2>1. clamped = maxScroll
    BY <1>3
  <2>2. CASE maxScroll = 0
    <3>1. n <= LogHeight - 1 /\ end = n /\ banner = 0
      BY <1>0, <1>2, <1>3, <1>4, <1>5, <2>1, <2>2
    <3> QED BY <1>0, <1>6, <3>1
  <2>3. CASE maxScroll # 0
    <3>1. maxScroll = n - (LogHeight - 1) /\ end = LogHeight - 1 /\ banner = 1
      BY <1>0, <1>2, <1>3, <1>4, <1>5, <2>1, <2>3
    <3> QED BY <1>0, <1>6, <3>1
  <2> QED BY <2>2, <2>3
<1>9. offset = 0 => end = n
  BY <1>3, <1>5
<1>10. 1 + gap + banner \in Nat /\ (end > start => (1 + gap + banner) + (end - start) - 1 = LogHeight)
  BY <1>0, <1>4, <1>6, <1>7
<1>11. banner + (end - start) <= LogHeight
  BY <1>0, <1>4, <1>6
<1> QED BY <1>1, <1>2, <1>3, <1>4, <1>6, <1>8, <1>9, <1>10, <1>11

LEMMA InvFits ==
  ScreenIInv => WindowFits
<1> SUFFICES ASSUME ScreenIInv PROVE WindowFits
  OBVIOUS
<1>1. Len(AllRows) \in Nat /\ offset \in Nat
  BY LogTypes, AllRowsAre DEF ScreenIInv, ViewOK
<1> QED BY <1>1, WindowIs DEF WindowFits

-----------------------------------------------------------------------------
(* What the log shows is the end of the stream. *)

LEMMA EndsIsTail ==
  ASSUME NEW deltas, NEW n \in Nat, Ends(deltas, n)
  PROVE  IsTailOf(deltas, n)
<1> DEFINE all == [i \in 1 .. n |-> i]
           s == Reverse(deltas)
           t == Reverse(all)
<1>1. deltas \in Seq(Nat) /\ Len(deltas) \in Nat /\ Len(deltas) <= n
      /\ \A i \in 1 .. Len(deltas) : deltas[i] = (n - Len(deltas)) + i
  BY DEF Ends
<1>2. Len(all) = n /\ \A i \in 1 .. n : all[i] = i
  OBVIOUS
<1> HIDE DEF all
<1>3. Len(s) = Len(deltas) /\ \A i \in 1 .. Len(deltas) : s[i] = deltas[(Len(deltas) - i) + 1]
  BY <1>1 DEF Reverse
<1>4. Len(t) = n /\ \A i \in 1 .. n : t[i] = all[(n - i) + 1]
  BY <1>2 DEF Reverse
<1> HIDE DEF s, t
<1>5. ASSUME NEW i \in 1 .. Len(deltas) PROVE s[i] = t[i]
  <2>1. (Len(deltas) - i) + 1 \in 1 .. Len(deltas) /\ (n - i) + 1 \in 1 .. n /\ i \in 1 .. n
    BY <1>1
  <2>2. s[i] = (n - Len(deltas)) + ((Len(deltas) - i) + 1) /\ t[i] = (n - i) + 1
    BY <1>1, <1>2, <1>3, <1>4, <2>1
  <2> QED BY <1>1, <2>2
<1>6. SubSeq(s, 1, Len(s)) = SubSeq(t, 1, Len(s))
  <2>1. \A i \in 1 .. Len(deltas) : s[i] \in Int /\ t[i] \in Int
    <3>1. ASSUME NEW i \in 1 .. Len(deltas) PROVE s[i] \in Int
      <4>1. (Len(deltas) - i) + 1 \in 1 .. Len(deltas)
        BY <1>1
      <4> QED BY <1>1, <1>3, <4>1
    <3> QED BY <1>5, <3>1
  <2> DEFINE m == Len(deltas)
  <2>2. m \in Nat
    BY <1>1
  <2>3. \A i \in 1 .. m : s[i] \in Int /\ t[i] \in Int /\ s[i] = t[i]
    BY <1>5, <2>1
  <2> HIDE DEF m
  <2>4. /\ SubSeq(s, 1, m) \in Seq(Int) /\ Len(SubSeq(s, 1, m)) = m
        /\ \A i \in 1 .. m : SubSeq(s, 1, m)[i] = s[i]
    BY <2>2, <2>3, SubSeqProperties
  <2>5. /\ SubSeq(t, 1, m) \in Seq(Int) /\ Len(SubSeq(t, 1, m)) = m
        /\ \A i \in 1 .. m : SubSeq(t, 1, m)[i] = t[i]
    BY <2>2, <2>3, SubSeqProperties
  <2>6. SubSeq(s, 1, m) = SubSeq(t, 1, m)
    BY <2>3, <2>4, <2>5, SeqEqual
  <2> QED BY <1>3, <2>6 DEF m
<1>7. IsPrefix(s, t)
  BY <1>1, <1>3, <1>4, <1>6 DEF IsPrefix
<1> QED BY <1>7 DEF IsTailOf, IsSuffix, s, t, all

LEMMA InvKeepsText ==
  ScreenIInv => StreamedTextIsKept
<1> SUFFICES ASSUME ScreenIInv PROVE StreamedTextIsKept
  OBVIOUS
<1>1. \A kind : Streamed(kind) = Texts(log, kind)
  BY DEF Streamed, Texts, Parts, Part
<1>2. /\ Stream(log, nextId, "assistant", asId, asBuf, said)
      /\ Stream(log, nextId, "reasoning", reId, reBuf, thought)
  BY DEF ScreenIInv, LogInv, LogOK
<1>3. /\ said \in Nat /\ thought \in Nat
      /\ Ends(Cat(Texts(log, "assistant"), asBuf), said)
      /\ Ends(Cat(Texts(log, "reasoning"), reBuf), thought)
      /\ nextId <= MaxLogEntries + 1 => Len(Cat(Texts(log, "assistant"), asBuf)) = said
      /\ nextId <= MaxLogEntries + 1 => Len(Cat(Texts(log, "reasoning"), reBuf)) = thought
  BY <1>2 DEF Stream, NothingMissing
<1>4. /\ IsTailOf(Cat(Texts(log, "assistant"), asBuf), said)
      /\ IsTailOf(Cat(Texts(log, "reasoning"), reBuf), thought)
  BY <1>3, EndsIsTail
<1> QED BY <1>1, <1>3, <1>4 DEF StreamedTextIsKept, Cat

-----------------------------------------------------------------------------
(* The actions. *)

LEMMA IdsIn ==
  ASSUME LogInv, NEW kind
  PROVE  Ids(kind) \subseteq 1 .. MaxId
<1>1. DOMAIN log = 1 .. Len(log) /\ \A i \in 1 .. Len(log) : log[i] \in Line
  BY LogTypes, LinesOf
<1>2. \A i \in DOMAIN log : log[i].id \in 1 .. MaxId
  BY <1>1, LineFields
<1> QED BY <1>2 DEF Ids

LEMMA TurnStartsIs ==
  ASSUME ScreenIInv, TurnStarts
  PROVE  turnStarted' \in BOOLEAN /\ closed' \subseteq 1 .. MaxId
<1>1. Ids("diff") \subseteq 1 .. MaxId /\ closed \subseteq 1 .. MaxId
  BY IdsIn DEF ScreenIInv, ToolsOK
<1> QED BY <1>1 DEF TurnStarts

LEMMA EmptyIsText == << >> \in Seq(Nat)
OBVIOUS

LEMMA SameViewOK ==
  ASSUME ViewOK, UNCHANGED viewVars
  PROVE  ViewOK'
BY DEF ViewOK, viewVars

LEMMA SameToolsOK ==
  ASSUME ToolsOK, nextId \in Nat, nextId' \in Nat, nextId <= nextId',
         UNCHANGED toolVars, closed' \subseteq 1 .. MaxId, phase' = phase \/ phase' # "tool"
  PROVE  ToolsOK'
<1>1. toolId' = toolId /\ doneTools' = doneTools /\ toolId \in Nat /\ toolId < nextId
  BY DEF ToolsOK, toolVars
<1>2. toolId' < nextId'
  BY <1>1
<1> QED BY <1>1, <1>2 DEF ToolsOK

LEMMA InvParts ==
  ASSUME ScreenIInv
  PROVE  /\ LogInv /\ AgentOK /\ ToolsOK /\ ViewOK /\ nextId \in Nat /\ nextId + 1 \in Nat /\ nextId <= nextId + 1
         /\ closed \subseteq 1 .. MaxId
<1>1. LogInv /\ AgentOK /\ ToolsOK /\ ViewOK
  BY DEF ScreenIInv
<1>2. nextId \in Nat
  BY <1>1, LogTypes
<1> QED BY <1>1, <1>2 DEF ToolsOK

\* A line of the user's, of a notice, of a tool or of a diff, and nothing else of the log.
LEMMA LineKeepsLog ==
  ASSUME ScreenIInv, HasRoom(1), NEW kind \in {"user", "status", "tool", "diff"},
         log' = Push(log, nextId, kind, << >>), nextId' = nextId + 1, UNCHANGED streamVars, UNCHANGED barVars
  PROVE  LogInv'
<1>1. barId' = barId
  BY DEF barVars
<1>2. LogInv
  BY InvParts
<1>3. \A b \in Seq(Nat) : log' = Push(log, nextId, kind, b) => LogInv'
  BY <1>1, <1>2, PushKeepsInv
<1> QED BY <1>3, EmptyIsText

LEMMA SubmitKeepsScreen ==
  ASSUME ScreenIInv, SubmitMessage
  PROVE  ScreenIInv'
<1>0. "user" \in {"user", "status", "tool", "diff"}
  OBVIOUS
<1>1. LogInv'
  BY <1>0, LineKeepsLog DEF SubmitMessage
<1>2. AgentOK'
  <2>1. reply' \in 0 .. MaxReplies
    BY InvParts, ConstantsAssumption DEF SubmitMessage, AgentOK, ConstantsAssumption
  <2> QED BY <2>1, InvParts DEF SubmitMessage, AgentOK, streamVars, barVars
<1>3. ToolsOK'
  <2>1. nextId' = nextId + 1 /\ UNCHANGED toolVars /\ closed' = closed /\ phase' # "tool"
    BY DEF SubmitMessage
  <2> QED BY <2>1, InvParts, SameToolsOK
<1>4. ViewOK'
  BY InvParts, SameViewOK DEF SubmitMessage
<1> QED BY <1>1, <1>2, <1>3, <1>4 DEF ScreenIInv

\* A delta takes room for a line at most.
LEMMA DeltaHasRoom ==
  ASSUME ScreenIInv, HasRoom(1), nextId' = nextId, asId' = asId, reId' = reId,
         asBuf' = asBuf \/ reBuf' = reBuf
  PROVE  nextId' + Owed' <= MaxId + 1
<1>1. nextId \in Nat /\ MaxId \in Nat
  BY InvParts, ConstantsAssumption DEF ConstantsAssumption
<1>2. Owed = Owes(asBuf, asId) + Owes(reBuf, reId) /\ Owed' = Owes(asBuf', asId') + Owes(reBuf', reId')
  BY DEF Owed
<1>3. /\ Owes(asBuf, asId) \in {0, 1} /\ Owes(reBuf, reId) \in {0, 1}
      /\ Owes(asBuf', asId') \in {0, 1} /\ Owes(reBuf', reId') \in {0, 1}
  BY OwesIs
<1>4. nextId + Owed + 1 <= MaxId + 1
  BY DEF HasRoom
<1>5. Owes(asBuf', asId') = Owes(asBuf, asId) \/ Owes(reBuf', reId') = Owes(reBuf, reId)
  BY DEF Owes
<1>6. Owed' <= Owed + 1
  BY <1>2, <1>3, <1>5
<1>7. Owed \in Nat /\ Owed' \in Nat
  BY <1>2, <1>3
<1>8. \A x, y \in Nat : x <= y + 1 /\ nextId + y + 1 <= MaxId + 1 => nextId + x <= MaxId + 1
  BY <1>1
<1>9. nextId + Owed' <= MaxId + 1
  BY <1>4, <1>6, <1>7, <1>8
<1> QED BY <1>9

LEMMA ThinkKeepsScreen ==
  ASSUME ScreenIInv, Think
  PROVE  ScreenIInv'
<1>0. /\ log' = log /\ nextId' = nextId /\ said' = said /\ asBuf' = asBuf /\ asId' = asId /\ reId' = reId
      /\ barId' = barId /\ thought' = thought + 1 /\ reBuf' = Append(reBuf, thought + 1)
      /\ phase' = phase /\ reply' = reply /\ updates' = updates /\ thought < MaxDeltas /\ HasRoom(1)
      /\ TurnStarts /\ UNCHANGED toolVars /\ UNCHANGED viewVars
  BY DEF Think, barVars
<1>1. LogInv'
  <2>1. nextId' + Owed' <= MaxId + 1
    BY <1>0, DeltaHasRoom
  <2>2. LogOK(log, nextId, asId, asBuf, said, reId, Append(reBuf, thought + 1), thought + 1, barId)
    BY InvParts, DeltaKeepsLog DEF LogInv
  <2> QED BY <1>0, <2>1, <2>2 DEF LogInv
<1>2. AgentOK'
  <2>1. thought \in Nat /\ MaxDeltas \in Nat
    BY InvParts, LogTypes, ConstantsAssumption DEF ConstantsAssumption
  <2>2. thought' <= MaxDeltas
    BY <1>0, <2>1
  <2> QED BY <1>0, <2>2, InvParts, TurnStartsIs DEF AgentOK
<1>3. ToolsOK'
  BY <1>0, InvParts, TurnStartsIs, SameToolsOK
<1>4. ViewOK'
  BY <1>0, InvParts, SameViewOK
<1> QED BY <1>1, <1>2, <1>3, <1>4 DEF ScreenIInv

LEMMA SayKeepsScreen ==
  ASSUME ScreenIInv, Say
  PROVE  ScreenIInv'
<1>0. /\ log' = log /\ nextId' = nextId /\ thought' = thought /\ reBuf' = reBuf /\ asId' = asId /\ reId' = reId
      /\ barId' = barId /\ said' = said + 1 /\ asBuf' = Append(asBuf, said + 1)
      /\ phase' = phase /\ reply' = reply /\ updates' = updates /\ said < MaxDeltas /\ HasRoom(1)
      /\ TurnStarts /\ UNCHANGED toolVars /\ UNCHANGED viewVars
  BY DEF Say, barVars
<1>1. LogInv'
  <2>1. nextId' + Owed' <= MaxId + 1
    BY <1>0, DeltaHasRoom
  <2>2. LogOK(log, nextId, asId, Append(asBuf, said + 1), said + 1, reId, reBuf, thought, barId)
    BY InvParts, DeltaKeepsLog DEF LogInv
  <2> QED BY <1>0, <2>1, <2>2 DEF LogInv
<1>2. AgentOK'
  <2>1. said \in Nat /\ MaxDeltas \in Nat
    BY InvParts, LogTypes, ConstantsAssumption DEF ConstantsAssumption
  <2>2. said' <= MaxDeltas
    BY <1>0, <2>1
  <2> QED BY <1>0, <2>2, InvParts, TurnStartsIs DEF AgentOK
<1>3. ToolsOK'
  BY <1>0, InvParts, TurnStartsIs, SameToolsOK
<1>4. ViewOK'
  BY <1>0, InvParts, SameViewOK
<1> QED BY <1>1, <1>2, <1>3, <1>4 DEF ScreenIInv

LEMMA FlushedRoom ==
  ASSUME ScreenIInv
  PROVE  nextId + Owed \in Nat /\ nextId <= nextId + Owed /\ nextId + Owed <= MaxId + 1
<1>1. nextId \in Nat /\ Owed \in 0 .. 2
  BY InvParts, OwedIs
<1> QED BY <1>1 DEF ScreenIInv, LogInv

LEMMA AnswerEndsKeepsScreen ==
  ASSUME ScreenIInv, AnswerEnds
  PROVE  ScreenIInv'
<1>0. /\ Streams(Finalized) /\ phase' = "idle" /\ UNCHANGED <<reply, turnStarted, barVars, toolVars, closed, viewVars>>
  BY DEF AnswerEnds
<1>1. LogInv' /\ nextId' = nextId + Owed
  BY <1>0, InvParts, FlushedRoom, FinalizedIs, StreamsKeepsInv DEF barVars
<1>2. AgentOK'
  BY <1>0, InvParts DEF AgentOK, Streams, barVars
<1>3. ToolsOK'
  BY <1>0, <1>1, FlushedRoom, InvParts, SameToolsOK
<1>4. ViewOK'
  BY <1>0, InvParts, SameViewOK
<1> QED BY <1>1, <1>2, <1>3, <1>4 DEF ScreenIInv

LEMMA TickKeepsScreen ==
  ASSUME ScreenIInv, Tick
  PROVE  ScreenIInv'
<1>0. /\ Streams(BothFlushed) /\ UNCHANGED <<agentVars, barVars, toolVars, closed, viewVars>>
  BY DEF Tick
<1>1. LogInv' /\ nextId' = nextId + Owed
  BY <1>0, InvParts, FlushedRoom, BothFlushedIs, StreamsKeepsInv DEF barVars
<1>2. AgentOK'
  BY <1>0, InvParts DEF AgentOK, Streams, barVars, agentVars
<1>3. ToolsOK'
  BY <1>0, <1>1, FlushedRoom, InvParts, SameToolsOK DEF agentVars
<1>4. ViewOK'
  BY <1>0, InvParts, SameViewOK
<1> QED BY <1>1, <1>2, <1>3, <1>4 DEF ScreenIInv

LEMMA ToolStartsKeepsScreen ==
  ASSUME ScreenIInv, ToolStarts
  PROVE  ScreenIInv'
<1> DEFINE f == Finalized
           g == [f EXCEPT !.log = Push(@, f.next, "tool", << >>), !.next = @ + 1]
<1>0. /\ Streams(g) /\ toolId' = f.next /\ phase' = "tool" /\ TurnStarts /\ HasRoom(1)
      /\ UNCHANGED <<reply, doneTools, barVars, viewVars>>
  BY DEF ToolStarts
<1>1. /\ LogOK(f.log, f.next, f.as, << >>, said, f.re, << >>, thought, barId)
      /\ f.next = nextId + Owed
  BY InvParts, FinalizedIs
<1>2. f.next \in Nat /\ f.next + 1 \in Nat /\ f.next >= nextId /\ f.next <= MaxId /\ f.next + 1 <= MaxId + 1 /\ f.next # 0
  <2>1. nextId \in Nat /\ Owed \in 0 .. 2 /\ MaxId \in Nat /\ nextId >= 1
    BY InvParts, LogTypes, OwedIs, ConstantsAssumption DEF ConstantsAssumption
  <2>2. nextId + Owed + 1 <= MaxId + 1
    BY <1>0 DEF HasRoom
  <2> QED BY <1>1, <2>1, <2>2
<1>3. PICK l, m, a, r : BothFlushed = [log |-> l, next |-> m, as |-> a, re |-> r]
  BY DEF BothFlushed
<1>4. g.log = Push(f.log, f.next, "tool", << >>) /\ g.next = f.next + 1 /\ g.as = f.as /\ g.re = f.re
  BY <1>3 DEF Finalized
<1> HIDE DEF f, g
<1>5. "tool" \in {"user", "status", "tool", "diff"}
  OBVIOUS
<1>6. LogOK(g.log, g.next, g.as, << >>, said, g.re, << >>, thought, barId)
  <2>1. \A b \in Seq(Nat) : LogOK(f.log, f.next, f.as, b, said, f.re, b, thought, barId)
           => LogOK(Push(f.log, f.next, "tool", b), f.next + 1, f.as, b, said, f.re, b, thought, barId)
    BY <1>2, <1>5, PushKeepsLog
  <2> QED BY <1>1, <1>4, <2>1, EmptyIsText
<1>7. LogInv' /\ nextId' = g.next
  BY <1>0, <1>2, <1>4, <1>6, StreamsKeepsInv DEF barVars
<1>8. AgentOK'
  BY <1>0, InvParts, TurnStartsIs DEF AgentOK, Streams, barVars
<1>9. ToolsOK'
  BY <1>0, <1>2, <1>4, <1>7, InvParts, TurnStartsIs DEF ToolsOK
<1>10. ViewOK'
  BY <1>0, InvParts, SameViewOK
<1> QED BY <1>7, <1>8, <1>9, <1>10 DEF ScreenIInv

LEMMA ToolEndsKeepsScreen ==
  ASSUME ScreenIInv, ToolEnds
  PROVE  ScreenIInv'
<1>0. /\ phase = "tool" /\ reply < MaxReplies /\ doneTools' = doneTools \cup {toolId} /\ toolId' = 0
      /\ phase' = "reply" /\ reply' = reply + 1 /\ turnStarted' = FALSE
      /\ UNCHANGED <<streamVars, barVars, closed, viewVars>>
  BY DEF ToolEnds
<1>1. LogInv' /\ nextId' \in {nextId, nextId + 1}
  <2>1. CASE UNCHANGED <<log, nextId>>
    BY <1>0, <2>1, InvParts, SameLogInv DEF barVars
  <2>2. CASE HasRoom(1) /\ log' = Push(log, nextId, "diff", << >>) /\ nextId' = nextId + 1
    <3>1. "diff" \in {"user", "status", "tool", "diff"}
      OBVIOUS
    <3> QED BY <1>0, <2>2, <3>1, LineKeepsLog
  <2> QED BY <2>1, <2>2 DEF ToolEnds
<1>2. AgentOK'
  <2>1. reply' \in 0 .. MaxReplies
    BY <1>0, InvParts, ConstantsAssumption DEF AgentOK, ConstantsAssumption
  <2> QED BY <1>0, <2>1, InvParts DEF AgentOK, streamVars, barVars
<1>3. ToolsOK'
  <2>1. toolId \in 1 .. MaxId
    <3>1. toolId \in Nat /\ toolId # 0 /\ toolId < nextId
      BY <1>0, InvParts DEF ToolsOK
    <3>2. nextId \in 1 .. (MaxId + 1) /\ MaxId \in Nat
      BY InvParts, LogTypes, ConstantsAssumption DEF ConstantsAssumption
    <3> QED BY <3>1, <3>2
  <2>2. 0 < nextId'
    BY <1>1, InvParts, LogTypes
  <2> QED BY <1>0, <2>1, <2>2, InvParts DEF ToolsOK
<1>4. ViewOK'
  BY <1>0, InvParts, SameViewOK
<1> QED BY <1>1, <1>2, <1>3, <1>4 DEF ScreenIInv

LEMMA ReplyFailsKeepsScreen ==
  ASSUME ScreenIInv, ReplyFails
  PROVE  ScreenIInv'
<1>0. "status" \in {"user", "status", "tool", "diff"}
  OBVIOUS
<1>1. LogInv'
  BY <1>0, LineKeepsLog DEF ReplyFails
<1>2. AgentOK'
  <2>1. reply' \in 0 .. MaxReplies
    BY InvParts, ConstantsAssumption DEF ReplyFails, AgentOK, ConstantsAssumption
  <2>2. phase' \in {"idle", "reply", "tool"} /\ turnStarted' \in BOOLEAN
    BY InvParts DEF ReplyFails, AgentOK
  <2> QED BY <2>1, <2>2, InvParts DEF ReplyFails, AgentOK, streamVars, barVars
<1>3. ToolsOK'
  <2>1. nextId' = nextId + 1 /\ UNCHANGED toolVars /\ closed' = closed /\ (phase' = phase \/ phase' # "tool")
    BY DEF ReplyFails
  <2> QED BY <2>1, InvParts, SameToolsOK
<1>4. ViewOK'
  BY InvParts, SameViewOK DEF ReplyFails
<1> QED BY <1>1, <1>2, <1>3, <1>4 DEF ScreenIInv

\* A notice in a line of its own, whatever it does to the view and to the folds.
LEMMA NoticeKeepsScreen ==
  ASSUME ScreenIInv, HasRoom(1), log' = Push(log, nextId, "status", << >>), nextId' = nextId + 1,
         UNCHANGED <<streamVars, agentVars, barVars, toolVars>>, closed' \subseteq 1 .. MaxId, ViewOK'
  PROVE  ScreenIInv'
<1>0. "status" \in {"user", "status", "tool", "diff"}
  OBVIOUS
<1>1. LogInv'
  BY <1>0, LineKeepsLog
<1>2. AgentOK'
  BY InvParts DEF AgentOK, agentVars, streamVars, barVars
<1>3. ToolsOK'
  BY InvParts, SameToolsOK DEF agentVars
<1> QED BY <1>1, <1>2, <1>3 DEF ScreenIInv

\* Nothing but the view and the folds.
LEMMA ViewKeepsScreen ==
  ASSUME ScreenIInv, UNCHANGED <<log, nextId, streamVars, agentVars, barVars, toolVars>>,
         closed' \subseteq 1 .. MaxId, ViewOK'
  PROVE  ScreenIInv'
<1>1. LogInv' /\ nextId' = nextId
  BY InvParts, SameLogInv DEF barVars
<1>2. AgentOK'
  BY InvParts DEF AgentOK, agentVars, streamVars, barVars
<1>3. ToolsOK'
  <2>1. nextId' \in Nat /\ nextId <= nextId'
    BY <1>1, InvParts
  <2> QED BY <2>1, InvParts, SameToolsOK DEF agentVars
<1> QED BY <1>1, <1>2, <1>3 DEF ScreenIInv

\* The bar rewritten in place.
InPlace(lines, id, b) ==
    [i \in DOMAIN lines |-> IF lines[i].id = id THEN [lines[i] EXCEPT !.text = b] ELSE lines[i]]

Rewritten(lines, again, id, b) ==
    /\ Redone(lines, again, "bar")
    /\ \A i \in 1 .. Len(lines) : lines[i].id = id => again[i].text = b

LEMMA InPlaceIs ==
  ASSUME NEW lines, NEW next, lines \in Seq(Line), NEW id, Writes(lines, next, "bar", id), NEW b \in Seq(Nat)
  PROVE  Rewritten(lines, InPlace(lines, id, b), id, b)
<1> DEFINE again == InPlace(lines, id, b)
<1>1. /\ Len(lines) \in Nat /\ DOMAIN lines = 1 .. Len(lines)
      /\ \A i \in 1 .. Len(lines) : lines[i] \in Line
  BY LinesOf
<1>2. again = [i \in 1 .. Len(lines) |-> IF lines[i].id = id THEN [lines[i] EXCEPT !.text = b] ELSE lines[i]]
  BY <1>1 DEF InPlace
<1>3. Len(again) = Len(lines) /\ again = [i \in 1 .. Len(lines) |-> again[i]]
  BY <1>1, <1>2
<1>4. ASSUME NEW i \in 1 .. Len(lines)
      PROVE  again[i] = IF lines[i].id = id THEN [lines[i] EXCEPT !.text = b] ELSE lines[i]
  BY <1>2
<1> HIDE DEF again
<1>5. ASSUME NEW line \in Line
      PROVE  LET l == [line EXCEPT !.text = b] IN
             l \in Line /\ l.id = line.id /\ l.kind = line.kind /\ l.text = b
  BY DEF Line
<1>6. ASSUME NEW i \in 1 .. Len(lines)
      PROVE  /\ again[i] \in Line /\ again[i].id = lines[i].id /\ again[i].kind = lines[i].kind
             /\ lines[i].id = id => again[i].text = b
             /\ lines[i].id # id => again[i] = lines[i]
  <2>1. lines[i] \in Line
    BY <1>1
  <2> QED BY <1>4, <1>5, <2>1
<1>7. again \in Seq(Line)
  BY <1>1, <1>3, <1>6
<1>8. Redone(lines, again, "bar")
  <2>1. \A i \in 1 .. Len(lines) : lines[i].kind # "bar" => lines[i].id # id
    BY DEF Writes
  <2> QED BY <1>3, <1>6, <1>7, <2>1 DEF Redone
<1> QED BY <1>6, <1>8 DEF again, Rewritten

LEMMA BarUpdateKeepsScreen ==
  ASSUME ScreenIInv, BarUpdate
  PROVE  ScreenIInv'
<1>0. /\ updates < MaxUpdates /\ updates' = updates + 1
      /\ UNCHANGED <<streamVars, agentVars, toolVars, closed, viewVars>>
  BY DEF BarUpdate
<1>1. updates \in Nat /\ <<updates + 1>> \in Seq(Nat)
  <2>1. updates \in Nat /\ updates + 1 \in Nat
    BY InvParts, ConstantsAssumption DEF AgentOK, ConstantsAssumption
  <2> QED BY <2>1
<1>2. /\ LogOK(log, nextId, asId, asBuf, said, reId, reBuf, thought, barId)
      /\ nextId \in 1 .. (MaxId + 1) /\ barId \in 0 .. MaxId /\ MaxId \in Nat /\ Owed \in 0 .. 2
      /\ nextId + Owed <= MaxId + 1 /\ DOMAIN log = 1 .. Len(log)
  BY InvParts, LogTypes, OwedIs, ConstantsAssumption DEF LogInv, ConstantsAssumption
<1>3. /\ asId' = asId /\ asBuf' = asBuf /\ said' = said /\ reId' = reId /\ reBuf' = reBuf /\ thought' = thought
      /\ Owed' = Owed
  BY <1>0 DEF streamVars, Owed, Owes
<1> DEFINE b == <<updates + 1>>
<1>4. LogInv' /\ nextId' \in {nextId, nextId + 1}
  <2>1. CASE barId = 0 /\ HasRoom(1) /\ barId' = nextId /\ nextId' = nextId + 1 /\ log' = Push(log, nextId, "bar", b)
    <3>1. nextId <= MaxId /\ (nextId + 1) + Owed <= MaxId + 1
      BY <1>2, <2>1 DEF HasRoom
    <3>2. LogOK(Push(log, nextId, "bar", b), nextId + 1, asId, asBuf, said, reId, reBuf, thought, nextId)
      BY <1>1, <1>2, <3>1, NewBarKeepsLog
    <3> QED BY <1>3, <2>1, <3>1, <3>2 DEF LogInv
  <2>2. CASE barId # 0 /\ log' = Redrawn(barId, b) /\ barId' = barId /\ nextId' = nextId
    <3>1. CASE \E i \in DOMAIN log : log[i].id = barId
      <4>1. log' = InPlace(log, barId, b)
        BY <2>2, <3>1 DEF Redrawn, InPlace
      <4>2. Redone(log, InPlace(log, barId, b), "bar")
        BY <1>1, <1>2, InPlaceIs DEF LogOK, Listed, Rewritten
      <4>3. LogOK(InPlace(log, barId, b), nextId, asId, asBuf, said, reId, reBuf, thought, barId)
        BY <1>2, <4>2, BarAgainKeepsLog
      <4> QED BY <1>2, <1>3, <2>2, <4>1, <4>3 DEF LogInv
    <3>2. CASE \A i \in DOMAIN log : log[i].id # barId
      <4>1. log' = Push(log, barId, "bar", b)
        BY <2>2, <3>2 DEF Redrawn
      <4>2. barId \in 1 .. MaxId
        BY <1>2, <2>2
      <4>3. LogOK(Push(log, barId, "bar", b), nextId, asId, asBuf, said, reId, reBuf, thought, barId)
        BY <1>1, <1>2, <3>2, <4>2, BarBackKeepsLog
      <4> QED BY <1>2, <1>3, <2>2, <4>1, <4>3 DEF LogInv
    <3> QED BY <3>1, <3>2
  <2> QED BY <2>1, <2>2 DEF BarUpdate
<1>5. AgentOK'
  <2>1. updates' \in 0 .. MaxUpdates
    BY <1>0, <1>1, ConstantsAssumption DEF ConstantsAssumption
  <2> QED BY <1>0, <1>3, <2>1, InvParts DEF AgentOK, agentVars
<1>6. ToolsOK'
  <2>1. nextId' \in Nat /\ nextId <= nextId'
    BY <1>4, InvParts
  <2> QED BY <1>0, <2>1, InvParts, SameToolsOK DEF agentVars
<1>7. ViewOK'
  BY <1>0, InvParts, SameViewOK
<1> QED BY <1>4, <1>5, <1>6, <1>7 DEF ScreenIInv

LEMMA BarEndKeepsScreen ==
  ASSUME ScreenIInv, BarEnd
  PROVE  ScreenIInv'
<1>0. barId' = 0 /\ UNCHANGED <<log, nextId, updates, streamVars, agentVars, toolVars, closed, viewVars>>
  BY DEF BarEnd
<1>1. LogOK(log, nextId, asId, asBuf, said, reId, reBuf, thought, 0)
  BY InvParts, ReleaseKeepsLog DEF LogInv
<1>2. LogInv' /\ nextId' = nextId
  BY <1>0, <1>1, InvParts DEF LogInv, Owed, Owes, streamVars
<1>3. AgentOK'
  BY <1>0, InvParts DEF AgentOK, agentVars, streamVars
<1>4. ToolsOK'
  <2>1. nextId' \in Nat /\ nextId <= nextId'
    BY <1>2, InvParts
  <2> QED BY <1>0, <2>1, InvParts, SameToolsOK DEF agentVars
<1>5. ViewOK'
  BY <1>0, InvParts, SameViewOK
<1> QED BY <1>2, <1>3, <1>4, <1>5 DEF ScreenIInv

\* The window of a state of the invariant.
LEMMA WindowBounds ==
  ASSUME ScreenIInv
  PROVE  /\ Window.rows = AllRows /\ AllRows \in Seq(Row)
         /\ Window.maxScroll \in 0 .. (3 * MaxLogEntries)
         /\ Window.start \in 0 .. (3 * MaxLogEntries) /\ Window.end \in 0 .. (3 * MaxLogEntries)
         /\ Window.end - Window.start \in Nat
         /\ Window.firstRow \in Nat /\ LogHeight \in Nat /\ MaxLogEntries \in Nat
<1>1. AllRows \in Seq(Row) /\ Len(AllRows) \in Nat /\ Len(AllRows) <= 3 * MaxLogEntries
  BY InvParts, LogTypes, AllRowsAre
<1>2. offset \in Nat
  BY InvParts DEF ViewOK
<1>3. LogHeight \in Nat /\ MaxLogEntries \in Nat
  BY ConstantsAssumption DEF ConstantsAssumption
<1>4. ASSUME NEW n \in Nat, n = Len(AllRows)
      PROVE  /\ Window.rows = AllRows
             /\ Window.maxScroll \in 0 .. n /\ Window.start \in 0 .. Window.end /\ Window.end \in 0 .. n
             /\ Window.firstRow \in Nat
  BY <1>2, <1>4, WindowIs
<1>5. /\ Window.rows = AllRows
      /\ Window.maxScroll \in 0 .. Len(AllRows) /\ Window.start \in 0 .. Window.end /\ Window.end \in 0 .. Len(AllRows)
      /\ Window.firstRow \in Nat
  BY <1>1, <1>4
<1>6. \A x \in 0 .. Len(AllRows) : x \in 0 .. (3 * MaxLogEntries)
  BY <1>1, <1>3
<1>7. Window.start \in 0 .. Len(AllRows) /\ Window.end - Window.start \in Nat
  BY <1>1, <1>5
<1> QED BY <1>1, <1>3, <1>5, <1>6, <1>7

LEMMA ScrollKeepsScreen ==
  ASSUME ScreenIInv, Scroll
  PROVE  ScreenIInv'
<1>0. UNCHANGED <<log, nextId, streamVars, agentVars, barVars, toolVars, closed, drag>>
  BY DEF Scroll
<1>1. PICK n \in {-(LogHeight - 1), -1, 1, LogHeight - 1} : offset' = ScrolledBy(Window, n)
  BY DEF Scroll
<1>2. offset' \in 0 .. (3 * MaxLogEntries)
  <2>1. offset \in Nat /\ n \in Int
    <3>1. LogHeight \in Nat
      BY WindowBounds
    <3> QED BY <3>1, InvParts DEF ViewOK
  <2> DEFINE m == Window.maxScroll
  <2>2. m \in 0 .. (3 * MaxLogEntries) /\ MaxLogEntries \in Nat
    BY WindowBounds
  <2>3. offset' = MaxOf(0, MinOf(m, offset + n))
    BY <1>1 DEF ScrolledBy
  <2> HIDE DEF m
  <2> QED BY <2>1, <2>2, <2>3 DEF MaxOf, MinOf
<1>3. ViewOK'
  BY <1>0, <1>2, InvParts DEF ViewOK
<1> QED BY <1>0, <1>3, InvParts, ViewKeepsScreen

LEMMA JumpKeepsScreen ==
  ASSUME ScreenIInv, JumpToTail
  PROVE  ScreenIInv'
<1>0. /\ HasRoom(1) /\ offset' = 0 /\ log' = Push(log, nextId, "status", << >>) /\ nextId' = nextId + 1
      /\ UNCHANGED <<streamVars, agentVars, barVars, toolVars, closed, drag>>
  BY DEF JumpToTail
<1>1. ViewOK'
  BY <1>0, InvParts, ConstantsAssumption DEF ViewOK, ConstantsAssumption
<1> QED BY <1>0, <1>1, InvParts, NoticeKeepsScreen

\* The row of the log under the pointer.
LEMMA AnchorIs ==
  ASSUME ScreenIInv, NEW r \in Nat
  PROVE  /\ LogRow(Window, r) \in Int
         /\ IsLogBodyRow(Window, r) => LogRow(Window, r) \in 0 .. (3 * MaxLogEntries)
<1> DEFINE s == Window.start
           e == Window.end
           f == Window.firstRow
<1>1. s \in Nat /\ e \in Nat /\ f \in Nat /\ e <= 3 * MaxLogEntries /\ MaxLogEntries \in Nat
  BY WindowBounds
<1>2. LogRow(Window, r) = s + (r - f) /\ (IsLogBodyRow(Window, r) => r >= f /\ r < f + (e - s))
  BY DEF LogRow, IsLogBodyRow
<1> HIDE DEF s, e, f
<1> QED BY <1>1, <1>2

LEMMA PressKeepsScreen ==
  ASSUME ScreenIInv, PressLog
  PROVE  ScreenIInv'
<1>0. UNCHANGED <<log, nextId, streamVars, agentVars, barVars, toolVars, closed, offset>>
  BY DEF PressLog
<1>1. PICK r \in 1 .. LogHeight :
         /\ IsLogBodyRow(Window, r)
         /\ drag' = [kind |-> "still", pressed |-> TRUE,
                     anchor |-> Anchor(Window, r), head |-> Anchor(Window, r)]
  BY DEF PressLog
<1>2. Anchor(Window, r) \in 0 .. (3 * MaxLogEntries) /\ Anchor(Window, r) \in Int
  BY <1>1, AnchorIs DEF Anchor
<1>3. ViewOK'
  BY <1>0, <1>1, <1>2, InvParts DEF ViewOK
<1> QED BY <1>0, <1>3, InvParts, ViewKeepsScreen

LEMMA MotionKeepsScreen ==
  ASSUME ScreenIInv, Motion
  PROVE  ScreenIInv'
<1>0. UNCHANGED <<log, nextId, streamVars, agentVars, barVars, toolVars, closed, offset>>
  BY DEF Motion
<1>1. PICK r \in 1 .. (LogHeight + 1) :
         drag' = IF drag.kind = "none"
                 THEN [kind |-> "stray", pressed |-> FALSE, anchor |-> Window.start, head |-> Window.start]
                 ELSE [drag EXCEPT !.kind = "rows", !.head = LogRow(Window, r)]
  BY DEF Motion
<1>2. LogRow(Window, r) \in Int /\ Window.start \in 0 .. (3 * MaxLogEntries) /\ Window.start \in Int
  <2>1. r \in Nat
    OBVIOUS
  <2>2. LogRow(Window, r) \in Int
    BY <2>1, AnchorIs
  <2>3. Window.start \in 0 .. (3 * MaxLogEntries)
    BY WindowBounds
  <2> QED BY <2>2, <2>3
<1>3. ViewOK'
  <2> DEFINE s == Window.start
             h == LogRow(Window, r)
  <2>1. s \in 0 .. (3 * MaxLogEntries) /\ s \in Int /\ h \in Int
    BY <1>2
  <2>2. drag' \in {[kind |-> "stray", pressed |-> FALSE, anchor |-> s, head |-> s],
                   [drag EXCEPT !.kind = "rows", !.head = h]}
    BY <1>1
  <2>3. drag \in [kind : {"none", "still", "rows", "stray"}, pressed : BOOLEAN,
                   anchor : 0 .. (3 * MaxLogEntries), head : Int]
    BY InvParts DEF ViewOK
  <2> HIDE DEF s, h
  <2>4. drag' \in [kind : {"none", "still", "rows", "stray"}, pressed : BOOLEAN,
                    anchor : 0 .. (3 * MaxLogEntries), head : Int]
    <3>1. CASE drag' = [kind |-> "stray", pressed |-> FALSE, anchor |-> s, head |-> s]
      BY <2>1, <3>1
    <3>2. CASE drag' = [drag EXCEPT !.kind = "rows", !.head = h]
      BY <2>1, <2>3, <3>2
    <3> QED BY <2>2, <3>1, <3>2
  <2> QED BY <1>0, <2>4, InvParts DEF ViewOK
<1> QED BY <1>0, <1>3, InvParts, ViewKeepsScreen

LEMMA NoDragIsOK ==
  ASSUME ScreenIInv, drag' = NoDrag, offset' = offset
  PROVE  ViewOK'
BY InvParts, ConstantsAssumption DEF ViewOK, NoDrag, ConstantsAssumption

LEMMA ClickKeepsScreen ==
  ASSUME ScreenIInv, Click
  PROVE  ScreenIInv'
<1>0. drag' = NoDrag /\ UNCHANGED <<log, nextId, streamVars, agentVars, barVars, toolVars, offset>>
  BY DEF Click
<1>1. \/ closed' = closed
      \/ \E id \in Ids("diff") : closed' = Toggled(closed, id)
  BY DEF Click
<1>2. closed' \subseteq 1 .. MaxId
  <2>1. Ids("diff") \subseteq 1 .. MaxId /\ closed \subseteq 1 .. MaxId
    BY InvParts, IdsIn
  <2> QED BY <1>1, <2>1 DEF Toggled
<1> QED BY <1>0, <1>2, NoDragIsOK, ViewKeepsScreen

LEMMA CopyKeepsScreen ==
  ASSUME ScreenIInv, Copy
  PROVE  ScreenIInv'
<1>0. /\ drag' = NoDrag /\ HasRoom(1) /\ log' = Push(log, nextId, "status", << >>) /\ nextId' = nextId + 1
      /\ UNCHANGED <<streamVars, agentVars, barVars, toolVars, closed, offset>>
  BY DEF Copy
<1> QED BY <1>0, NoDragIsOK, InvParts, NoticeKeepsScreen

LEMMA NothingCopiedKeepsScreen ==
  ASSUME ScreenIInv, NothingCopied
  PROVE  ScreenIInv'
<1>0. drag' = NoDrag /\ UNCHANGED <<log, nextId, streamVars, agentVars, barVars, toolVars, closed, offset>>
  BY DEF NothingCopied
<1> QED BY <1>0, NoDragIsOK, InvParts, ViewKeepsScreen

LEMMA FoldAllKeepsScreen ==
  ASSUME ScreenIInv, FoldAll
  PROVE  ScreenIInv'
<1>0. /\ closed' = (closed \ Flipped) \cup (Flipped \ closed)
      /\ HasRoom(1) /\ log' = Push(log, nextId, "status", << >>) /\ nextId' = nextId + 1
      /\ UNCHANGED <<streamVars, agentVars, barVars, toolVars, viewVars>>
  BY DEF FoldAll
<1>1. closed' \subseteq 1 .. MaxId
  <2>1. Flipped \subseteq Ids("diff")
    BY DEF Flipped
  <2>2. Ids("diff") \subseteq 1 .. MaxId /\ closed \subseteq 1 .. MaxId
    BY InvParts, IdsIn
  <2> QED BY <1>0, <2>1, <2>2
<1>2. ViewOK'
  BY <1>0, InvParts, SameViewOK
<1> QED BY <1>0, <1>1, <1>2, NoticeKeepsScreen

-----------------------------------------------------------------------------
LEMMA InitHasScreenInv ==
  ScreenInit => ScreenIInv
<1> SUFFICES ASSUME ScreenInit PROVE ScreenIInv
  OBVIOUS
<1>0. MaxLogEntries \in Nat /\ {MaxId, MaxDeltas, MaxReplies, MaxUpdates} \subseteq Nat
  BY ConstantsAssumption DEF ConstantsAssumption
<1>1. \A kind : Texts(log, kind) = << >>
  <2>1. log \in Seq(Line) /\ Len(log) = 0 /\ log = << >>
    BY DEF ScreenInit
  <2>2. \A i \in 1 .. Len(log) : FALSE
    BY <2>1
  <2> QED BY <2>1, <2>2, TextsNone
<1>2. Cat(<< >>, << >>) = << >> /\ Len(<< >>) = 0 /\ << >> \in Seq(Nat) /\ << >> \in Seq(Line) /\ Ends(<< >>, 0)
  <2>1. Cat(<< >>, << >>) = << >>
    BY DEF Cat
  <2>2. Ends(<< >>, 0)
    BY DEF Ends
  <2> QED BY <2>1, <2>2
<1>3. \A kind : Stream(log, nextId, kind, 0, << >>, 0)
  BY <1>1, <1>2 DEF Stream, NothingMissing, Writes, Behind, ScreenInit
<1>4. LogOK(log, nextId, asId, asBuf, said, reId, reBuf, thought, barId)
  BY <1>0, <1>2, <1>3 DEF LogOK, Listed, Whole, Writes, ScreenInit
<1>5. nextId + Owed <= MaxId + 1
  <2>1. Owed = 0 /\ nextId = 1
    BY DEF ScreenInit, Owed, Owes
  <2> QED BY <1>0, <2>1
<1>6. AgentOK
  <2>1. phase = "idle" /\ turnStarted \in BOOLEAN
    BY DEF ScreenInit
  <2>2. reply \in 0 .. MaxReplies /\ said <= MaxDeltas /\ thought <= MaxDeltas /\ updates \in 0 .. MaxUpdates
    BY <1>0 DEF ScreenInit
  <2> QED BY <2>1, <2>2 DEF AgentOK
<1>7. ToolsOK
  BY <1>0 DEF ToolsOK, ScreenInit
<1>8. ViewOK
  BY <1>0 DEF ViewOK, ScreenInit, NoDrag
<1> QED BY <1>4, <1>5, <1>6, <1>7, <1>8 DEF ScreenIInv, LogInv

LEMMA NextKeepsScreen ==
  ScreenIInv /\ [ScreenNext]_screenVars => ScreenIInv'
<1> SUFFICES ASSUME ScreenIInv, [ScreenNext]_screenVars PROVE ScreenIInv'
  OBVIOUS
<1>1. CASE SubmitMessage
  BY <1>1, SubmitKeepsScreen
<1>2. CASE Think
  BY <1>2, ThinkKeepsScreen
<1>3. CASE Say
  BY <1>3, SayKeepsScreen
<1>4. CASE AnswerEnds
  BY <1>4, AnswerEndsKeepsScreen
<1>5. CASE ToolStarts
  BY <1>5, ToolStartsKeepsScreen
<1>6. CASE ToolEnds
  BY <1>6, ToolEndsKeepsScreen
<1>7. CASE ReplyFails
  BY <1>7, ReplyFailsKeepsScreen
<1>8. CASE Tick
  BY <1>8, TickKeepsScreen
<1>9. CASE Notice
  <2>1. ViewOK'
    BY <1>9, InvParts, SameViewOK DEF Notice
  <2> QED BY <1>9, <2>1, InvParts, NoticeKeepsScreen DEF Notice
<1>10. CASE BarUpdate
  BY <1>10, BarUpdateKeepsScreen
<1>11. CASE BarEnd
  BY <1>11, BarEndKeepsScreen
<1>12. CASE Scroll
  BY <1>12, ScrollKeepsScreen
<1>13. CASE JumpToTail
  BY <1>13, JumpKeepsScreen
<1>14. CASE PressLog
  BY <1>14, PressKeepsScreen
<1>15. CASE Motion
  BY <1>15, MotionKeepsScreen
<1>16. CASE Click
  BY <1>16, ClickKeepsScreen
<1>17. CASE Copy
  BY <1>17, CopyKeepsScreen
<1>18. CASE NothingCopied
  BY <1>18, NothingCopiedKeepsScreen
<1>19. CASE FoldAll
  BY <1>19, FoldAllKeepsScreen
<1>20. CASE UNCHANGED screenVars
  <2>1. UNCHANGED <<log, nextId, streamVars, agentVars, barVars, toolVars, closed, viewVars>>
    BY <1>20 DEF screenVars
  <2>2. ViewOK'
    BY <2>1, InvParts, SameViewOK
  <2> QED BY <2>1, <2>2, InvParts, ViewKeepsScreen
<1> QED BY <1>1, <1>2, <1>3, <1>4, <1>5, <1>6, <1>7, <1>8, <1>9, <1>10, <1>11, <1>12, <1>13,
           <1>14, <1>15, <1>16, <1>17, <1>18, <1>19, <1>20 DEF ScreenNext

\* The invariant that carries the others: whatever is appended, dropped or rewritten, a line
\* stands under its id once, a stream ends with its last delta and its open line is the last of
\* its kind, and the bar and the two streams write to lines of their own (src/tui/App.tsx).
THEOREM ScreenInvariant == ScreenSpec => []ScreenIInv
<1>1. ScreenInit => ScreenIInv
  BY InitHasScreenInv
<1>2. ScreenIInv /\ [ScreenNext]_screenVars => ScreenIInv'
  BY NextKeepsScreen
<1> QED BY <1>1, <1>2, PTL DEF ScreenSpec

\* In every state the text of the answers and of the reasoning is the end of what was streamed,
\* every delta once and in order, and all of it as long as the cap has dropped no line; and the
\* rows drawn fill the box from its bottom, for every height and every cap.
THEOREM ScreenHolds == ScreenSpec => []ScreenInv
<1>1. ScreenIInv => ScreenInv
  BY InvIsTyped, InvKeepsText, InvFits DEF ScreenInv
<1> QED BY <1>1, ScreenInvariant, PTL

-----------------------------------------------------------------------------
(* The bar. *)

LEMMA OnlyUpdatesUpdate ==
  ASSUME [ScreenNext]_screenVars, updates' # updates
  PROVE  BarUpdate
BY DEF ScreenNext, screenVars, barVars, SubmitMessage, Think, Say, AnswerEnds, ToolStarts, ToolEnds, ReplyFails,
       Tick, Notice, BarEnd, Scroll, JumpToTail, PressLog, Motion, Click, Copy, NothingCopied, FoldAll

\* The line pushed last is in the log, which grew by one at most.
LEMMA PushedIs ==
  ASSUME NEW lines \in Seq(Line), Len(lines) <= MaxLogEntries, NEW id \in 1 .. MaxId, NEW b \in Seq(Nat)
  PROVE  /\ \E i \in DOMAIN Push(lines, id, "bar", b) :
                Push(lines, id, "bar", b)[i].id = id /\ Push(lines, id, "bar", b)[i].text = b
         /\ Len(Push(lines, id, "bar", b)) <= Len(lines) + 1
<1> DEFINE line == NewLine(id, "bar", b)
           more == Append(lines, line)
<1>0. MaxLogEntries \in Nat \ {0} /\ Len(lines) \in Nat
  BY LinesOf, ConstantsAssumption DEF ConstantsAssumption
<1>1. line \in Line /\ line.id = id /\ line.text = b
  BY KindsDiffer DEF NewLine, Line
<1>2. Push(lines, id, "bar", b) = Capped(more)
  BY DEF Push
<1> HIDE DEF line
<1>3. more \in Seq(Line) /\ Len(more) = Len(lines) + 1 /\ more[Len(lines) + 1] = line
  BY <1>1, AppendIs
<1> HIDE DEF more
<1>4. Len(more) <= MaxLogEntries + 1
  BY <1>0, <1>3
<1>5. CASE Capped(more) = more
  <2>1. DOMAIN more = 1 .. Len(more) /\ Len(lines) + 1 \in 1 .. Len(more)
    BY <1>0, <1>3, LinesOf
  <2>2. Len(more) <= Len(lines) + 1
    BY <1>0, <1>3
  <2> QED BY <1>1, <1>2, <1>3, <1>5, <2>1, <2>2
<1>6. CASE /\ Len(more) = MaxLogEntries + 1 /\ Len(Capped(more)) = MaxLogEntries
           /\ Dropped(more, Capped(more))
  <2>1. /\ Capped(more) \in Seq(Line)
        /\ \A i \in 1 .. Len(Capped(more)) : Capped(more)[i] = more[i + 1]
    BY <1>6 DEF Dropped
  <2>2. DOMAIN Capped(more) = 1 .. MaxLogEntries /\ MaxLogEntries \in 1 .. MaxLogEntries
    BY <1>0, <1>6, <2>1, LinesOf
  <2>3. Capped(more)[MaxLogEntries] = line
    BY <1>0, <1>3, <1>6, <2>1, <2>2
  <2>4. Len(Capped(more)) <= Len(lines) + 1
    BY <1>0, <1>3, <1>6
  <2> QED BY <1>1, <1>2, <2>2, <2>3, <2>4
<1> QED BY <1>3, <1>4, <1>5, <1>6, CappedIs

\* What ProgressIsShown asks of a step.
BarShown ==
    /\ \E i \in DOMAIN log' : log'[i].id = barId' /\ log'[i].text = <<updates'>>
    /\ \A i, j \in DOMAIN log' : log'[i].id = log'[j].id => i = j
    /\ barId # 0 => Len(log') <= Len(log) + (IF \E i \in DOMAIN log : log[i].id = barId
                                            THEN 0 ELSE 1)

LEMMA UpdateShowsBar ==
  ASSUME ScreenIInv, ScreenIInv', BarUpdate
  PROVE  BarShown
<1> DEFINE b == <<updates + 1>>
<1>0. /\ log \in Seq(Line) /\ Len(log) <= MaxLogEntries /\ Len(log) \in Nat /\ DOMAIN log = 1 .. Len(log)
      /\ nextId \in 1 .. (MaxId + 1) /\ barId \in 0 .. MaxId /\ MaxId \in Nat /\ Owed \in 0 .. 2
      /\ Writes(log, nextId, "bar", barId)
  BY InvParts, LogTypes, OwedIs, ConstantsAssumption DEF LogInv, LogOK, ConstantsAssumption
<1>1. updates' = updates + 1 /\ b \in Seq(Nat)
  <2>1. updates + 1 \in Nat
    BY InvParts, ConstantsAssumption DEF AgentOK, ConstantsAssumption
  <2> QED BY <2>1 DEF BarUpdate
<1>2. \A i, j \in DOMAIN log' : log'[i].id = log'[j].id => i = j
  <2>1. Listed(log', nextId')
    BY DEF ScreenIInv, LogInv, LogOK
  <2>2. DOMAIN log' = 1 .. Len(log')
    BY <2>1, LinesOf DEF Listed
  <2> QED BY <2>1, <2>2 DEF Listed
<1>3. CASE barId = 0 /\ HasRoom(1) /\ barId' = nextId /\ log' = Push(log, nextId, "bar", b)
  <2>1. nextId \in 1 .. MaxId
    BY <1>0, <1>3 DEF HasRoom
  <2>2. \E i \in DOMAIN log' : log'[i].id = nextId /\ log'[i].text = b
    BY <1>0, <1>1, <1>3, <2>1, PushedIs
  <2> QED BY <1>1, <1>2, <1>3, <2>2 DEF BarShown
<1>4. CASE barId # 0 /\ log' = Redrawn(barId, b) /\ barId' = barId
  <2>1. CASE \E i \in DOMAIN log : log[i].id = barId
    <3>1. log' = InPlace(log, barId, b)
      BY <1>4, <2>1 DEF Redrawn, InPlace
    <3>2. /\ Redone(log, log', "bar")
          /\ \A i \in 1 .. Len(log) : log[i].id = barId => log'[i].text = b
      <4>1. Rewritten(log, InPlace(log, barId, b), barId, b)
        BY <1>0, <1>1, InPlaceIs
      <4> QED BY <3>1, <4>1 DEF Rewritten
    <3>3. Len(log') = Len(log) /\ DOMAIN log' = 1 .. Len(log) /\ \A i \in 1 .. Len(log) : log'[i].id = log[i].id
      BY <3>2, LinesOf DEF Redone
    <3>4. \E i \in DOMAIN log' : log'[i].id = barId /\ log'[i].text = b
      BY <1>0, <2>1, <3>2, <3>3
    <3>5. Len(log') <= Len(log) + 0
      BY <1>0, <3>3
    <3> QED BY <1>1, <1>2, <1>4, <2>1, <3>4, <3>5 DEF BarShown
  <2>2. CASE ~ \E i \in DOMAIN log : log[i].id = barId
    <3>1. log' = Push(log, barId, "bar", b)
      BY <1>4, <2>2 DEF Redrawn
    <3>2. barId \in 1 .. MaxId
      BY <1>0, <1>4
    <3>3. /\ \E i \in DOMAIN log' : log'[i].id = barId /\ log'[i].text = b
          /\ Len(log') <= Len(log) + 1
      BY <1>0, <1>1, <3>1, <3>2, PushedIs
    <3> QED BY <1>1, <1>2, <1>4, <2>2, <3>3 DEF BarShown
  <2> QED BY <2>1, <2>2
<1> QED BY <1>3, <1>4 DEF BarUpdate

\* After an update the bar is one line of the log, with the newest text, even when the cap had
\* dropped its line; and it takes no second line while its first is there (App.tsx, onTransient).
THEOREM ProgressStays == ScreenSpec => ProgressIsShown
<1>1. ScreenIInv /\ ScreenIInv' /\ [ScreenNext]_screenVars => [updates' # updates => BarShown]_screenVars
  BY OnlyUpdatesUpdate, UpdateShowsBar
<1> QED BY <1>1, ScreenInvariant, PTL DEF ScreenSpec, ProgressIsShown, BarShown
=============================================================================
