------------------------ MODULE HttpConnectionProofs ------------------------
(***************************************************************************)
(* Theorems about HttpConnection, for any requests that are well formed    *)
(* and any number of them.                                                 *)
(***************************************************************************)
EXTENDS HttpConnection, WellFoundedInduction, TLAPS

-----------------------------------------------------------------------------
(* Least and greatest numbers, which the searches of the parser are about  *)

LEMMA Least ==
    ASSUME NEW T, T \subseteq Nat, T # {}
    PROVE  \E x \in T : \A y \in T : x <= y
<1> DEFINE R == OpToRel(<, Nat)
<1>1. IsWellFoundedOn(R, Nat)
  BY NatLessThanWellFounded, Zenon
<1>2. \A x, y \in Nat : x < y => <<x, y>> \in R
  BY DEF OpToRel
<1> HIDE DEF R
<1>3. PICK x \in T : \A y \in T : <<y, x>> \notin R
  BY <1>1, WFMin, Zenon
<1>4. ASSUME NEW y \in T PROVE x <= y
  <2>1. CASE y < x
    BY <1>2, <1>3, <2>1, Zenon
  <2>2. CASE ~(y < x)
    BY <2>2
  <2> QED
    BY <2>1, <2>2
<1> QED
  BY <1>4

LEMMA MinIs ==
    ASSUME NEW T, T \subseteq Nat, T # {}
    PROVE  Min(T) \in T /\ \A y \in T : Min(T) <= y
  BY Least DEF Min

LEMMA MaxIs ==
    ASSUME NEW n \in Nat, NEW T, T \subseteq 0..n, T # {}
    PROVE  Max(T) \in T /\ \A y \in T : Max(T) >= y
<1> DEFINE U == {k \in Nat : n - k \in T}
<1>1. U \subseteq Nat /\ U # {}
  <2>1. PICK y \in T : TRUE
    OBVIOUS
  <2>2. y \in 0..n
    BY <2>1
  <2>3. n - y \in Nat /\ n - (n - y) = y
    BY <2>2
  <2>4. n - y \in U
    BY <2>1, <2>3
  <2> QED
    BY <2>4
<1>2. PICK k \in U : \A l \in U : k <= l
  <2> HIDE DEF U
  <2> QED
    BY <1>1, Least
<1>3. \A y \in T : y \in 0..n /\ n - y \in Nat /\ n - (n - y) = y
  OBVIOUS
<1>4. \A y \in T : n - k >= y
  BY <1>2, <1>3
<1>5. n - k \in T
  BY <1>2
<1> QED
  BY <1>4, <1>5 DEF Max

(* The least and the greatest are the only ones of which this is so.       *)
LEMMA MinAt ==
    ASSUME NEW T, T \subseteq Nat, NEW x \in T, \A y \in T : x <= y
    PROVE  Min(T) = x
<1>1. Min(T) \in T /\ Min(T) <= x
  BY MinIs
<1>2. x <= Min(T)
  BY <1>1
<1>3. x \in Nat /\ Min(T) \in Nat
  BY <1>1
<1> QED
  BY <1>1, <1>2, <1>3

LEMMA MaxAt ==
    ASSUME NEW n \in Nat, NEW T, T \subseteq 0..n, NEW x \in T, \A y \in T : y <= x
    PROVE  Max(T) = x
<1>1. Max(T) \in T /\ Max(T) >= x
  BY MaxIs
<1>2. Max(T) <= x
  BY <1>1
<1>3. x \in 0..n /\ Max(T) \in 0..n
  BY <1>1
<1> QED
  BY <1>1, <1>2, <1>3

-----------------------------------------------------------------------------
(* Texts put together of parts                                             *)

(* The part is in the text behind its first o characters.                  *)
LiesAt(text, o, part) ==
    /\ o \in Nat /\ o + Len(part) <= Len(text)
    /\ \A m \in 1..Len(part) : text[o + m] = part[m]

LEMMA ConcatIs ==
    ASSUME NEW S, NEW a \in Seq(S), NEW b \in Seq(S)
    PROVE  /\ a \o b \in Seq(S)
           /\ Len(a \o b) = Len(a) + Len(b)
           /\ Len(a) \in Nat /\ Len(b) \in Nat
           /\ \A m \in 1..Len(a) : (a \o b)[m] = a[m]
           /\ \A m \in 1..Len(b) : (a \o b)[Len(a) + m] = b[m]
  OBVIOUS

LEMMA EmptyBehind ==
    ASSUME NEW S, NEW a \in Seq(S)
    PROVE  a \o <<>> = a /\ <<>> \o a = a
  OBVIOUS

LEMMA NotEmpty ==
    ASSUME NEW S, NEW a \in Seq(S), a # <<>>
    PROVE  Len(a) \in Nat \ {0} /\ 1 \in 1..Len(a)
  OBVIOUS

LEMMA FirstOfTwo ==
    ASSUME NEW S, NEW a \in Seq(S), NEW b \in Seq(S)
    PROVE  /\ a # <<>> => (a \o b)[1] = a[1] /\ a \o b # <<>>
           /\ a = <<>> => a \o b = b
<1>1. CASE a = <<>>
  BY <1>1, EmptyBehind
<1>2. CASE a # <<>>
  <2>1. Len(a) \in Nat \ {0} /\ 1 \in 1..Len(a)
    BY <1>2, NotEmpty
  <2>2. (a \o b)[1] = a[1] /\ Len(a \o b) = Len(a) + Len(b) /\ Len(b) \in Nat
    BY <2>1, ConcatIs
  <2>3. Len(a \o b) # 0
    BY <2>1, <2>2
  <2>4. a \o b # <<>>
    BY <2>3
  <2> QED
    BY <1>2, <2>2, <2>4
<1> QED
  BY <1>1, <1>2

LEMMA SubSeqIs ==
    ASSUME NEW S, NEW s \in Seq(S), NEW a \in 1..Len(s) + 1, NEW b \in 0..Len(s)
    PROVE  /\ SubSeq(s, a, b) \in Seq(S)
           /\ Len(SubSeq(s, a, b)) = IF a <= b THEN b - a + 1 ELSE 0
           /\ \A m \in 1..Len(SubSeq(s, a, b)) : SubSeq(s, a, b)[m] = s[a + m - 1]
<1>1. CASE a <= b
  <2>1. \A m \in a..b : s[m] \in S
    OBVIOUS
  <2> QED
    BY <1>1, <2>1
<1>2. CASE ~(a <= b)
  <2>1. SubSeq(s, a, b) = <<>>
    BY <1>2
  <2> QED
    BY <1>2, <2>1
<1> QED
  BY <1>1, <1>2

(* Both parts of a text of two are in it.                                  *)
LEMMA ConcatLies ==
    ASSUME NEW S, NEW a \in Seq(S), NEW b \in Seq(S)
    PROVE  LiesAt(a \o b, 0, a) /\ LiesAt(a \o b, Len(a), b)
<1> DEFINE c == a \o b
<1>1. /\ Len(c) = Len(a) + Len(b)
      /\ Len(a) \in Nat /\ Len(b) \in Nat
      /\ \A m \in 1..Len(a) : c[m] = a[m]
      /\ \A m \in 1..Len(b) : c[Len(a) + m] = b[m]
  BY ConcatIs
<1> HIDE DEF c
<1>2. LiesAt(c, 0, a)
  BY <1>1 DEF LiesAt
<1>3. LiesAt(c, Len(a), b)
  BY <1>1 DEF LiesAt
<1> QED
  BY <1>2, <1>3 DEF c

(* A part of a part is a part of the whole.                                *)
LEMMA LiesWithin ==
    ASSUME NEW t, NEW u, NEW v, NEW o, NEW p, LiesAt(t, o, u), LiesAt(u, p, v),
           Len(t) \in Nat, Len(u) \in Nat, Len(v) \in Nat
    PROVE  LiesAt(t, o + p, v)
<1>1. \A m \in 1..Len(v) : p + m \in 1..Len(u) /\ o + (p + m) = (o + p) + m
  BY DEF LiesAt
<1>2. \A m \in 1..Len(v) : t[(o + p) + m] = v[m]
  BY <1>1 DEF LiesAt
<1> QED
  BY <1>2 DEF LiesAt

(* The parts from the first to each                                        *)
Growing(S, s, n, f) ==
    /\ f \in [1..n -> Seq(S)]
    /\ \A i \in 1..n : f[i] = IF i = 1 THEN s[i] ELSE f[i - 1] \o s[i]

LEMMA GrowingStep ==
    ASSUME NEW S, NEW s \in Seq(Seq(S)), NEW n \in Nat, n < Len(s),
           NEW f, Growing(S, s, n, f)
    PROVE  \E g : Growing(S, s, n + 1, g)
<1> DEFINE next == IF n = 0 THEN s[n + 1] ELSE f[n] \o s[n + 1]
           g == [i \in 1..n + 1 |-> IF i = n + 1 THEN next ELSE f[i]]
<1>1. s[n + 1] \in Seq(S)
  OBVIOUS
<1>2. next \in Seq(S)
  <2>1. CASE n = 0
    BY <1>1, <2>1
  <2>2. CASE n # 0
    <3>1. f[n] \in Seq(S)
      BY <2>2 DEF Growing
    <3> QED
      BY <1>1, <2>2, <3>1
  <2> QED
    BY <2>1, <2>2
<1> HIDE DEF next
<1>3. g \in [1..n + 1 -> Seq(S)]
  BY <1>2 DEF Growing
<1>4. ASSUME NEW i \in 1..n + 1
      PROVE  g[i] = IF i = 1 THEN s[i] ELSE g[i - 1] \o s[i]
  <2>1. CASE i = n + 1
    <3>1. g[i] = next
      BY <2>1
    <3>2. i # 1 => i - 1 \in 1..n /\ g[i - 1] = f[i - 1] /\ i - 1 = n /\ n # 0
      BY <2>1
    <3>3. i = 1 => n = 0
      BY <2>1
    <3> QED
      BY <2>1, <3>1, <3>2, <3>3 DEF next
  <2>2. CASE i # n + 1
    <3>1. i \in 1..n /\ g[i] = f[i]
      BY <2>2
    <3>2. i # 1 => i - 1 \in 1..n /\ i - 1 # n + 1 /\ g[i - 1] = f[i - 1]
      BY <3>1
    <3>3. f[i] = IF i = 1 THEN s[i] ELSE f[i - 1] \o s[i]
      BY <3>1, Zenon DEF Growing
    <3> HIDE DEF g
    <3> QED
      BY <3>1, <3>2, <3>3
  <2> QED
    BY <2>1, <2>2
<1>5. Growing(S, s, n + 1, g)
  <2> HIDE DEF g
  <2> QED
    BY <1>3, <1>4 DEF Growing
<1> QED
  BY <1>5

LEMMA GrowingExists ==
    ASSUME NEW S, NEW s \in Seq(Seq(S))
    PROVE  \E f : Growing(S, s, Len(s), f)
<1> DEFINE T == {n \in 0..Len(s) : ~ \E f : Growing(S, s, n, f)}
<1>1. CASE T = {}
  <2>1. Len(s) \in 0..Len(s)
    OBVIOUS
  <2> QED
    BY <1>1, <2>1
<1>2. CASE T # {}
  <2>1. PICK n \in T : \A k \in T : n <= k
    <3>1. T \subseteq Nat
      OBVIOUS
    <3> HIDE DEF T
    <3> QED
      BY <1>2, <3>1, Least
  <2>2. n # 0
    <3>1. Growing(S, s, 0, [i \in 1..0 |-> <<>>])
      BY DEF Growing
    <3> QED
      BY <2>1, <3>1
  <2>3. n - 1 \in 0..Len(s) /\ n - 1 \in Nat /\ n - 1 < Len(s) /\ n - 1 + 1 = n
    BY <2>2
  <2>4. PICK f : Growing(S, s, n - 1, f)
    BY <2>1, <2>3
  <2>5. \E g : Growing(S, s, n - 1 + 1, g)
    BY <2>3, <2>4, GrowingStep
  <2> QED
    BY <2>1, <2>3, <2>5
<1> QED
  BY <1>1, <1>2

(* What FlattenSeq takes the last of                                       *)
Flat(s) ==
    CHOOSE f : f = [i \in 1..Len(s) |-> IF i = 1 THEN s[i] ELSE f[i - 1] \o s[i]]

LEMMA FlatGrows ==
    ASSUME NEW S, NEW s \in Seq(Seq(S))
    PROVE  Growing(S, s, Len(s), Flat(s))
<1> DEFINE f == Flat(s)
<1>1. \E g : g = [i \in 1..Len(s) |-> IF i = 1 THEN s[i] ELSE g[i - 1] \o s[i]]
  <2>1. PICK g : Growing(S, s, Len(s), g)
    BY GrowingExists
  <2>2. g = [i \in 1..Len(s) |-> g[i]]
    BY <2>1, Zenon DEF Growing
  <2>3. \A i \in 1..Len(s) : g[i] = IF i = 1 THEN s[i] ELSE g[i - 1] \o s[i]
    BY <2>1, Zenon DEF Growing
  <2> QED
    BY <2>2, <2>3, Zenon
<1>2. f = [i \in 1..Len(s) |-> IF i = 1 THEN s[i] ELSE f[i - 1] \o s[i]]
  BY <1>1, Zenon DEF Flat
<1> HIDE DEF f
<1>3. DOMAIN f = 1..Len(s) /\ f = [i \in 1..Len(s) |-> f[i]]
  BY <1>2, Zenon
<1>4. \A i \in 1..Len(s) : f[i] = IF i = 1 THEN s[i] ELSE f[i - 1] \o s[i]
  BY <1>2, Zenon
<1>5. \A i \in 1..Len(s) : f[i] \in Seq(S)
  <2> DEFINE T == {i \in 1..Len(s) : f[i] \notin Seq(S)}
  <2>1. CASE T # {}
    <3>1. PICK i \in T : \A k \in T : i <= k
      <4>1. T \subseteq Nat
        OBVIOUS
      <4> HIDE DEF T
      <4> QED
        BY <2>1, <4>1, Least
    <3>2. s[i] \in Seq(S)
      OBVIOUS
    <3>3. i # 1
      BY <1>4, <3>1, <3>2
    <3>4. i - 1 \in 1..Len(s) /\ i - 1 \notin T
      BY <3>1, <3>3
    <3>5. f[i - 1] \in Seq(S)
      BY <3>4
    <3>6. f[i] = f[i - 1] \o s[i]
      BY <1>4, <3>3
    <3>7. f[i] \in Seq(S)
      BY <3>2, <3>5, <3>6
    <3> QED
      BY <3>1, <3>7
  <2> QED
    BY <2>1
<1>6. f \in [1..Len(s) -> Seq(S)]
  BY <1>3, <1>5
<1> QED
  BY <1>4, <1>6 DEF Growing, f

(* Where the parts of FlattenSeq(s) end                                    *)
Offsets(s, off) ==
    /\ off \in [0..Len(s) -> Nat] /\ off[0] = 0
    /\ \A i \in 1..Len(s) : off[i] = off[i - 1] + Len(s[i])
    /\ Len(FlattenSeq(s)) = off[Len(s)]
    /\ \A i \in 1..Len(s) : LiesAt(FlattenSeq(s), off[i - 1], s[i])

Off(s) == CHOOSE off : Offsets(s, off)

LEMMA FlatParts ==
    ASSUME NEW S, NEW s \in Seq(Seq(S)), NEW i \in 1..Len(s), NEW j \in i..Len(s)
    PROVE  LiesAt(Flat(s)[j], 0, Flat(s)[i])
<1> DEFINE f == Flat(s)
           T == {k \in i..Len(s) : ~LiesAt(f[k], 0, f[i])}
<1>1. \A k \in 1..Len(s) : f[k] \in Seq(S) /\ s[k] \in Seq(S)
  BY FlatGrows DEF Growing
<1>2. \A k \in 1..Len(s) : k # 1 => f[k] = f[k - 1] \o s[k]
  <2>1. Growing(S, s, Len(s), f)
    BY FlatGrows
  <2> QED
    BY <2>1, Zenon DEF Growing
<1> HIDE DEF f
<1>3. CASE T # {}
  <2>1. PICK k \in T : \A l \in T : k <= l
    <3>1. T \subseteq Nat
      OBVIOUS
    <3> HIDE DEF T
    <3> QED
      BY <1>3, <3>1, Least
  <2>2. k # i
    <3>1. f[i] \in Seq(S)
      BY <1>1
    <3>2. LiesAt(f[i], 0, f[i])
      BY <3>1 DEF LiesAt
    <3> QED
      BY <2>1, <3>2
  <2>3. k \in 1..Len(s) /\ k # 1 /\ k - 1 \in i..Len(s) /\ k - 1 \in 1..Len(s)
    BY <2>2
  <2>4. LiesAt(f[k - 1], 0, f[i])
    BY <2>1, <2>3
  <2>5. f[k] = f[k - 1] \o s[k] /\ f[k - 1] \in Seq(S) /\ s[k] \in Seq(S)
        /\ f[k] \in Seq(S) /\ f[i] \in Seq(S)
    BY <1>1, <1>2, <2>3
  <2>6. LiesAt(f[k], 0, f[k - 1])
    BY <2>5, ConcatLies
  <2>7. \A u \in Seq(S) : Len(u) \in Nat
    OBVIOUS
  <2>9. LiesAt(f[k], 0 + 0, f[i])
    BY <2>4, <2>5, <2>6, <2>7, LiesWithin
  <2> QED
    BY <2>1, <2>9
<1> QED
  BY <1>3 DEF f

LEMMA FlattenIs ==
    ASSUME NEW S, NEW s \in Seq(Seq(S))
    PROVE  FlattenSeq(s) \in Seq(S) /\ Offsets(s, Off(s))
<1> DEFINE f == Flat(s)
           all == FlattenSeq(s)
           off == [i \in 0..Len(s) |-> IF i = 0 THEN 0 ELSE Len(f[i])]
<1>1. Len(s) \in Nat
  OBVIOUS
<1>0. Growing(S, s, Len(s), f)
  BY FlatGrows
<1>2. \A k \in 1..Len(s) : f[k] \in Seq(S) /\ s[k] \in Seq(S)
  <2>1. f \in [1..Len(s) -> Seq(S)]
    BY <1>0 DEF Growing
  <2> HIDE DEF f
  <2>2. \A k \in 1..Len(s) : f[k] \in Seq(S)
    BY <2>1, Zenon
  <2>3. \A k \in 1..Len(s) : s[k] \in Seq(S)
    OBVIOUS
  <2> QED
    BY <2>2, <2>3
<1>3. \A k \in 1..Len(s) : f[k] = IF k = 1 THEN s[k] ELSE f[k - 1] \o s[k]
  BY <1>0, Zenon DEF Growing
<1>4. Len(s) # 0 => all = f[Len(s)]
  BY Zenon DEF FlattenSeq, Flat
<1>5. Len(s) = 0 => s = <<>> /\ all = <<>>
  BY DEF FlattenSeq
<1>6. \A i, j \in 1..Len(s) : i <= j => LiesAt(f[j], 0, f[i])
  BY FlatParts
<1> HIDE DEF f, all
<1>7. all \in Seq(S)
  BY <1>1, <1>2, <1>4, <1>5
<1>8. off \in [0..Len(s) -> Nat] /\ off[0] = 0
  BY <1>1, <1>2
<1>9. ASSUME NEW i \in 1..Len(s)
      PROVE  off[i] = off[i - 1] + Len(s[i]) /\ LiesAt(f[i], off[i - 1], s[i])
  <2>1. CASE i = 1
    <3>1. f[i] = s[i] /\ s[i] \in Seq(S) /\ off[i] = Len(f[i]) /\ off[i - 1] = 0
      BY <1>2, <1>3, <2>1
    <3> HIDE DEF off
    <3> QED
      BY <3>1 DEF LiesAt
  <2>2. CASE i # 1
    <3>1. i - 1 \in 1..Len(s)
      BY <1>1, <2>2
    <3>0. off[i] = Len(f[i]) /\ off[i - 1] = Len(f[i - 1])
      BY <2>2, <3>1
    <3> HIDE DEF off
    <3>2. /\ f[i] = f[i - 1] \o s[i] /\ f[i - 1] \in Seq(S) /\ s[i] \in Seq(S)
          /\ off[i] = Len(f[i]) /\ off[i - 1] = Len(f[i - 1])
      BY <1>2, <1>3, <2>2, <3>0, <3>1
    <3>3. Len(f[i - 1] \o s[i]) = Len(f[i - 1]) + Len(s[i])
      BY <3>2, ConcatIs
    <3>4. LiesAt(f[i - 1] \o s[i], Len(f[i - 1]), s[i])
      BY <3>2, ConcatLies
    <3> QED
      BY <3>2, <3>3, <3>4
  <2> QED
    BY <2>1, <2>2
<1>10. Len(all) = off[Len(s)]
  BY <1>1, <1>4, <1>5
<1>11. ASSUME NEW i \in 1..Len(s) PROVE LiesAt(all, off[i - 1], s[i])
  <2>1. all = f[Len(s)] /\ Len(s) \in 1..Len(s)
    BY <1>1, <1>4
  <2>2. LiesAt(all, 0, f[i])
    BY <1>6, <2>1
  <2>3. Len(all) \in Nat /\ Len(f[i]) \in Nat /\ Len(s[i]) \in Nat
    BY <1>2, <1>7
  <2>4. LiesAt(f[i], off[i - 1], s[i])
    BY <1>9
  <2>5. off[i - 1] \in Nat
    BY <1>8
  <2> HIDE DEF off
  <2>6. LiesAt(all, 0 + off[i - 1], s[i])
    BY <2>2, <2>3, <2>4, LiesWithin
  <2> QED
    BY <2>5, <2>6
<1>12. Offsets(s, off)
  <2> HIDE DEF off
  <2> QED
    BY <1>8, <1>9, <1>10, <1>11 DEF Offsets, all
<1> HIDE DEF off
<1>13. Offsets(s, Off(s))
  BY <1>12, Zenon DEF Off
<1> QED
  BY <1>7, <1>13 DEF all

-----------------------------------------------------------------------------
(* The search of get_chunk                                                 *)

LEMMA BeginAt ==
    ASSUME NEW S, NEW text \in Seq(S), NEW prefix, NEW b \in 0..Len(text),
           \A m \in 1..b : text[m] = prefix,
           b < Len(text) => text[b + 1] # prefix
    PROVE  BeginOf(text, prefix) = b + 1
<1> DEFINE T == {i \in DOMAIN text : text[i] # prefix} \union {Len(text) + 1}
<1>1. T \subseteq Nat /\ b + 1 \in T
  OBVIOUS
<1>2. \A y \in T : b + 1 <= y
  OBVIOUS
<1>3. BeginOf(text, prefix) = Min(T)
  BY DEF BeginOf
<1> HIDE DEF T
<1> QED
  BY <1>1, <1>2, <1>3, MinAt

LEMMA BeginIn ==
    ASSUME NEW S, NEW text \in Seq(S), NEW prefix
    PROVE  BeginOf(text, prefix) \in 1..Len(text) + 1
<1> DEFINE T == {i \in DOMAIN text : text[i] # prefix} \union {Len(text) + 1}
<1>1. T \subseteq 1..Len(text) + 1 /\ T \subseteq Nat /\ T # {}
  OBVIOUS
<1>2. BeginOf(text, prefix) = Min(T)
  BY DEF BeginOf
<1> HIDE DEF T
<1>3. Min(T) \in T
  BY <1>1, MinIs
<1> QED
  BY <1>1, <1>2, <1>3

(* What get_chunk takes is in the text.                                    *)
LEMMA ChunkIn ==
    ASSUME NEW S, NEW text \in Seq(S), NEW prefix, NEW stops
    PROVE  LET c == GetChunk(text, prefix, stops) IN
           /\ c.size \in 0..Len(text) /\ c.value \in Seq(S)
           /\ c.size > 0 => text[c.size] \in stops
<1> DEFINE c == GetChunk(text, prefix, stops)
           from == BeginOf(text, prefix)
           found == {k \in from..Len(text) : text[k] \in stops}
<1>1. from \in 1..Len(text) + 1
  BY BeginIn
<1> HIDE DEF from
<1>2. CASE found = {}
  <2>1. c = [size |-> 0, value |-> <<>>]
    BY <1>2 DEF GetChunk, from
  <2> HIDE DEF c
  <2> QED
    BY <2>1 DEF c
<1>3. CASE found # {}
  <2>1. c = [size |-> Min(found), value |-> SubSeq(text, from, Min(found) - 1)]
    BY <1>3 DEF GetChunk, from
  <2>2. Min(found) \in found
    <3>1. found \subseteq Nat
      BY <1>1
    <3> HIDE DEF found
    <3> QED
      BY <1>3, <3>1, MinIs
  <2>3. Min(found) \in 1..Len(text) /\ text[Min(found)] \in stops /\ from <= Min(found)
    BY <1>1, <2>2
  <2>4. SubSeq(text, from, Min(found) - 1) \in Seq(S)
    <3> DEFINE last == Min(found) - 1
    <3>1. last \in 0..Len(text)
      BY <2>3
    <3> HIDE DEF last
    <3>2. SubSeq(text, from, last) \in Seq(S)
      BY <1>1, <3>1, SubSeqIs
    <3> QED
      BY <3>2 DEF last
  <2> HIDE DEF c, found
  <2> QED
    BY <2>1, <2>3, <2>4 DEF c
<1> QED
  BY <1>2, <1>3

(* The text is, as far as it goes, b prefix characters, the token, and one *)
(* of the stops.                                                           *)
Shows(text, b, prefix, token, stops) ==
    \A m \in 1..Len(text) :
        /\ m <= b => text[m] = prefix
        /\ m = b + 1 => text[m] # prefix
        /\ b < m /\ m <= b + Len(token) => text[m] = token[m - b] /\ text[m] \notin stops
        /\ m = b + Len(token) + 1 => text[m] \in stops

LEMMA ChunkShown ==
    ASSUME NEW S, NEW text \in Seq(S), NEW token \in Seq(S), NEW b \in Nat,
           NEW prefix, NEW stops, Shows(text, b, prefix, token, stops)
    PROVE  GetChunk(text, prefix, stops) =
             IF b + Len(token) + 1 <= Len(text)
             THEN [size |-> b + Len(token) + 1, value |-> token]
             ELSE [size |-> 0, value |-> <<>>]
<1> DEFINE c == GetChunk(text, prefix, stops)
           from == BeginOf(text, prefix)
           found == {k \in from..Len(text) : text[k] \in stops}
           size == b + Len(token) + 1
<1>1. Len(text) \in Nat /\ Len(token) \in Nat
  OBVIOUS
<1>2. from = IF b <= Len(text) THEN b + 1 ELSE Len(text) + 1
  <2>1. CASE b <= Len(text)
    <3>1. b \in 0..Len(text) /\ (\A m \in 1..b : text[m] = prefix)
          /\ (b < Len(text) => text[b + 1] # prefix)
      BY <1>1, <2>1 DEF Shows
    <3> QED
      BY <2>1, <3>1, BeginAt
  <2>2. CASE b > Len(text)
    <3>1. Len(text) \in 0..Len(text) /\ (\A m \in 1..Len(text) : text[m] = prefix)
      BY <1>1, <2>2 DEF Shows
    <3>2. BeginOf(text, prefix) = Len(text) + 1
      BY <1>1, <3>1, BeginAt
    <3> QED
      BY <1>1, <2>2, <3>2
  <2> QED
    BY <1>1, <2>1, <2>2
<1> HIDE DEF from
<1>3. CASE size <= Len(text)
  <2>1. size \in found
    BY <1>1, <1>2, <1>3 DEF Shows
  <2>2. \A y \in found : size <= y
    BY <1>1, <1>2, <1>3 DEF Shows
  <2>3. Min(found) = size
    <3>1. found \subseteq Nat
      BY <1>1, <1>2
    <3> HIDE DEF found, size
    <3> QED
      BY <2>1, <2>2, <3>1, MinAt
  <2>4. c = [size |-> Min(found), value |-> SubSeq(text, from, Min(found) - 1)]
    BY <2>1 DEF GetChunk, from
  <2>5. SubSeq(text, b + 1, b + Len(token)) = token
    <3>1. \A m \in 1..Len(token) : text[b + m] = token[m]
      BY <1>1, <1>3 DEF Shows
    <3>2. b + Len(token) <= Len(text)
      BY <1>1, <1>3
    <3> QED
      BY <1>1, <3>1, <3>2
  <2>6. from = b + 1 /\ size - 1 = b + Len(token)
    BY <1>1, <1>2, <1>3
  <2> HIDE DEF c, found
  <2> QED
    BY <1>3, <2>3, <2>4, <2>5, <2>6 DEF c
<1>4. CASE ~(size <= Len(text))
  <2>1. found = {}
    BY <1>1, <1>2, <1>4 DEF Shows
  <2> QED
    BY <1>4, <2>1 DEF GetChunk, from
<1> QED
  BY <1>3, <1>4

-----------------------------------------------------------------------------
(* The bytes of a request                                                  *)

Bytes == Letters \union Signs

(* No other sign is a blank or a semicolon.                                *)
LEMMA SignsDiffer ==
    /\ Blank # Semicolon /\ Blank # Nul /\ Semicolon # Nul
    /\ "?" # Blank /\ ":" # Blank /\ "&" # Blank /\ "=" # Blank
    /\ "CR" # Blank /\ "LF" # Blank /\ "K" # Blank
    /\ "?" # Semicolon /\ ":" # Semicolon /\ "&" # Semicolon /\ "=" # Semicolon
    /\ "CR" # Semicolon /\ "LF" # Semicolon /\ "K" # Semicolon
  BY Zenon DEF Blank, Semicolon, Nul

LEMMA TextIs == Text = Seq(Bytes)
  BY DEF Text, Bytes

(* Every character of texts put together is one of a text.                 *)
LEMMA FlattenFrom ==
    ASSUME NEW S, NEW s \in Seq(Seq(S)), NEW x \in 1..Len(FlattenSeq(s))
    PROVE  \E i \in 1..Len(s) : \E m \in 1..Len(s[i]) :
              x = Off(s)[i - 1] + m /\ FlattenSeq(s)[x] = s[i][m]
<1> DEFINE off == Off(s)
           T == {i \in 1..Len(s) : x <= off[i]}
<1>1. Len(s) \in Nat /\ \A i \in 1..Len(s) : Len(s[i]) \in Nat
  OBVIOUS
<1>2. Offsets(s, off)
  BY FlattenIs
<1> HIDE DEF off
<1>3. /\ off \in [0..Len(s) -> Nat] /\ off[0] = 0
      /\ \A i \in 1..Len(s) : off[i] = off[i - 1] + Len(s[i])
      /\ Len(FlattenSeq(s)) = off[Len(s)]
  BY <1>2 DEF Offsets
<1>0. \A k \in 0..Len(s) : off[k] \in Nat
  BY <1>3, Zenon
<1>4. T \subseteq Nat /\ T # {}
  <2>1. Len(s) # 0
    BY <1>3
  <2>2. Len(s) \in T
    BY <1>1, <1>3, <2>1
  <2> QED
    BY <2>2
<1>5. PICK i \in T : \A k \in T : i <= k
  <2> HIDE DEF T
  <2> QED
    BY <1>4, Least
<1>6. off[i - 1] < x
  <2>1. CASE i = 1
    BY <1>3, <2>1
  <2>2. CASE i # 1
    <3>1. i - 1 \in 1..Len(s) /\ i - 1 \notin T
      BY <1>1, <1>5, <2>2
    <3>2. off[i - 1] \in Nat
      BY <1>1, <1>0, <3>1
    <3> QED
      BY <3>1, <3>2
  <2> QED
    BY <2>1, <2>2
<1>7. i \in 1..Len(s) /\ off[i - 1] \in Nat /\ x \in Nat /\ x <= off[i]
  <2>1. i \in 1..Len(s) /\ i - 1 \in 0..Len(s) /\ x <= off[i]
    BY <1>1, <1>5
  <2>2. x \in Nat
    <3>1. Len(FlattenSeq(s)) \in Nat
      BY <1>1, <1>3, <1>0
    <3> QED
      BY <3>1
  <2> QED
    BY <1>0, <2>1, <2>2
<1>8. off[i] = off[i - 1] + Len(s[i]) /\ LiesAt(FlattenSeq(s), off[i - 1], s[i])
  BY <1>2, <1>7 DEF Offsets
<1>9. x - off[i - 1] \in 1..Len(s[i]) /\ x = off[i - 1] + (x - off[i - 1])
  BY <1>1, <1>6, <1>7, <1>8
<1>10. FlattenSeq(s)[off[i - 1] + (x - off[i - 1])] = s[i][x - off[i - 1]]
  BY <1>8, <1>9 DEF LiesAt
<1> QED
  BY <1>7, <1>9, <1>10 DEF off

(* The first character is the first of a text.                             *)
LEMMA FlattenFirst ==
    ASSUME NEW S, NEW s \in Seq(Seq(S)), 1 \in 1..Len(FlattenSeq(s))
    PROVE  \E i \in 1..Len(s) : FlattenSeq(s)[1] = s[i][1] /\ s[i] # <<>>
<1>1. PICK i \in 1..Len(s) : \E m \in 1..Len(s[i]) :
        1 = Off(s)[i - 1] + m /\ FlattenSeq(s)[1] = s[i][m]
  BY FlattenFrom
<1>2. PICK m \in 1..Len(s[i]) : 1 = Off(s)[i - 1] + m /\ FlattenSeq(s)[1] = s[i][m]
  BY <1>1
<1>3. Off(s)[i - 1] \in Nat
  <2>1. Off(s) \in [0..Len(s) -> Nat]
    BY FlattenIs DEF Offsets
  <2>2. i - 1 \in 0..Len(s)
    OBVIOUS
  <2> QED
    BY <2>1, <2>2
<1>4. Len(s[i]) \in Nat /\ (s[i] = <<>> => Len(s[i]) = 0)
  OBVIOUS
<1>5. m = 1 /\ s[i] # <<>>
  BY <1>2, <1>3, <1>4
<1> QED
  BY <1>2, <1>5

LEMMA FlattenWithout ==
    ASSUME NEW s \in Seq(Text), NEW signs,
           \A i \in 1..Len(s) : s[i] \in Without(signs)
    PROVE  FlattenSeq(s) \in Without(signs)
<1>1. FlattenSeq(s) \in Text
  BY FlattenIs, TextIs
<1>2. DOMAIN FlattenSeq(s) = 1..Len(FlattenSeq(s))
  BY <1>1, TextIs
<1>3. ASSUME NEW x \in DOMAIN FlattenSeq(s) PROVE FlattenSeq(s)[x] \notin signs
  <2>1. PICK i \in 1..Len(s) : \E m \in 1..Len(s[i]) : FlattenSeq(s)[x] = s[i][m]
    BY <1>2, <1>3, FlattenFrom, Zenon, TextIs
  <2>2. s[i] \in Text
    BY TextIs
  <2>3. DOMAIN s[i] = 1..Len(s[i])
    BY <2>2, TextIs
  <2>4. \A m \in DOMAIN s[i] : s[i][m] \notin signs
    BY Zenon DEF Without
  <2> QED
    BY <2>1, <2>3, <2>4, Zenon
<1> QED
  BY <1>1, <1>3, Zenon DEF Without

LEMMA ConcatWithout ==
    ASSUME NEW signs, NEW a \in Without(signs), NEW b \in Without(signs)
    PROVE  a \o b \in Without(signs)
<1>1. a \in Text /\ b \in Text
  BY Zenon DEF Without
<1>2. /\ \A m \in 1..Len(a) : a[m] \notin signs
      /\ \A m \in 1..Len(b) : b[m] \notin signs
  BY <1>1 DEF Without
<1>3. a \o b \in Text
  BY <1>1, TextIs
<1>4. \A x \in DOMAIN (a \o b) : (a \o b)[x] \notin signs
  BY <1>1, <1>2, TextIs
<1> QED
  BY <1>3, <1>4, Zenon DEF Without

(* A text with another behind it                                           *)
LEMMA Extended ==
    ASSUME NEW a \in Text, NEW b \in Text
    PROVE  /\ a \o b \in Text /\ Len(a \o b) = Len(a) + Len(b)
           /\ Len(a) \in Nat /\ Len(b) \in Nat
           /\ LiesAt(a \o b, 0, a) /\ LiesAt(a \o b, Len(a), b)
           /\ \A p \in Text : \A o : LiesAt(a, o, p) => LiesAt(a \o b, o, p)
<1>1. /\ a \o b \in Text /\ Len(a \o b) = Len(a) + Len(b)
      /\ Len(a) \in Nat /\ Len(b) \in Nat
  BY ConcatIs, TextIs
<1>2. LiesAt(a \o b, 0, a) /\ LiesAt(a \o b, Len(a), b)
  BY ConcatLies, TextIs
<1>3. ASSUME NEW p \in Text, NEW o, LiesAt(a, o, p)
      PROVE  LiesAt(a \o b, o, p)
  <2>1. Len(p) \in Nat /\ Len(a \o b) \in Nat /\ o \in Nat
    BY <1>1, <1>3, TextIs DEF LiesAt
  <2>2. LiesAt(a \o b, 0 + o, p)
    BY <1>1, <1>2, <1>3, <2>1, LiesWithin
  <2> QED
    BY <2>1, <2>2
<1> QED
  BY <1>1, <1>2, <1>3

(* Signs that are in no pair                                               *)
PairSigns == {Blank, "&", Semicolon, "CR", "LF", Nul}

LEMMA PairsAre ==
    ASSUME NEW pairs \in Pairs
    PROVE  Len(pairs) \in Nat /\ DOMAIN pairs = 1..Len(pairs)
<1> DEFINE Q == {p \in Seq(Without({Blank, "&", Semicolon, "CR", "LF", Nul})) :
                   Len(p) \in 1..2 /\ p[1] \in Without(Signs)}
<1>1. pairs \in Seq(Q)
  BY Zenon DEF Pairs
<1> HIDE DEF Q
<1> QED
  BY <1>1

LEMMA PairIs ==
    ASSUME NEW pairs \in Pairs, NEW i \in DOMAIN pairs
    PROVE  /\ pairs[i] \in Seq(Without(PairSigns)) /\ Len(pairs[i]) \in 1..2
           /\ pairs[i][1] \in Without(Signs)
           /\ \A j \in 1..Len(pairs[i]) : pairs[i][j] \in Without(PairSigns)
<1> DEFINE Q == {p \in Seq(Without(PairSigns)) :
                   Len(p) \in 1..2 /\ p[1] \in Without(Signs)}
<1>0. pairs \in Seq(Q)
  BY Zenon DEF Pairs, PairSigns
<1>1. pairs[i] \in Q
  <2> HIDE DEF Q
  <2> QED
    BY <1>0
<1>2. /\ pairs[i] \in Seq(Without(PairSigns)) /\ Len(pairs[i]) \in 1..2
      /\ pairs[i][1] \in Without(Signs)
  BY <1>1, Zenon
<1> HIDE DEF Q
<1>3. \A j \in 1..Len(pairs[i]) : pairs[i][j] \in Without(PairSigns)
  BY <1>2
<1> QED
  BY <1>2, <1>3

LEMMA WithoutIs ==
    ASSUME NEW signs, NEW t \in Without(signs)
    PROVE  /\ t \in Text /\ Len(t) \in Nat /\ DOMAIN t = 1..Len(t)
           /\ \A i \in 1..Len(t) : t[i] \notin signs
<1>1. t \in Text /\ \A i \in DOMAIN t : t[i] \notin signs
  BY Zenon DEF Without
<1>2. Len(t) \in Nat /\ DOMAIN t = 1..Len(t)
  BY <1>1, TextIs
<1> QED
  BY <1>1, <1>2

LEMMA WithoutFewer ==
    ASSUME NEW signs, NEW fewer \in SUBSET signs, NEW t \in Without(signs)
    PROVE  t \in Without(fewer)
  BY Zenon DEF Without

(* A text of one or of two signs                                           *)
LEMMA SignTexts ==
    ASSUME NEW c \in Bytes, NEW d \in Bytes, NEW signs, c \notin signs, d \notin signs
    PROVE  <<c>> \in Without(signs) /\ <<c, d>> \in Without(signs) /\ <<>> \in Without(signs)
<1>1. <<c>> \in Text /\ <<c, d>> \in Text /\ <<>> \in Text
  BY TextIs
<1>2. /\ \A i \in DOMAIN <<c>> : <<c>>[i] = c
      /\ \A i \in DOMAIN <<c, d>> : <<c, d>>[i] \in {c, d}
      /\ DOMAIN <<>> = {}
  OBVIOUS
<1> QED
  BY <1>1, <1>2, Zenon DEF Without

LEMMA PairTextIs ==
    ASSUME NEW pairs \in Pairs, NEW i \in DOMAIN pairs
    PROVE  /\ PairText(pairs[i]) \in Without(PairSigns)
           /\ PairText(pairs[i]) # <<>> => PairText(pairs[i])[1] \notin {Blank, "?"}
<1> DEFINE p == pairs[i]
<1>1. /\ Len(p) \in 1..2 /\ p[1] \in Without(Signs) /\ p[1] \in Without(PairSigns)
      /\ Len(p) = 2 => p[2] \in Without(PairSigns)
  BY PairIs
<1>2. <<"=">> \in Without(PairSigns)
  <2>1. "=" \in Bytes /\ "=" \notin PairSigns
    BY SignsDiffer DEF PairSigns, Nul, Bytes, Signs
  <2> QED
    BY <2>1, SignTexts
<1>3. /\ p[1] \in Text /\ Len(p[1]) \in Nat
      /\ \A m \in 1..Len(p[1]) : p[1][m] \notin {Blank, "?"}
  <2>1. /\ p[1] \in Text /\ Len(p[1]) \in Nat
        /\ \A m \in 1..Len(p[1]) : p[1][m] \notin Signs
    BY <1>1, WithoutIs
  <2> HIDE DEF p
  <2> QED
    BY <2>1 DEF Signs
<1> HIDE DEF p
<1>4. CASE Len(p) = 1
  <2>1. PairText(p) = p[1]
    <3>1. p[1] \o <<>> = p[1]
      BY <1>3, EmptyBehind, TextIs
    <3> QED
      BY <1>4, <3>1 DEF PairText
  <2>2. p[1] # <<>> => p[1][1] \notin {Blank, "?"}
    BY <1>3, NotEmpty, TextIs
  <2> QED
    BY <1>1, <2>1, <2>2 DEF p
<1>5. CASE Len(p) # 1
  <2>1. Len(p) = 2 /\ p[2] \in Without(PairSigns)
    BY <1>1, <1>5
  <2>2. PairText(p) = p[1] \o (<<"=">> \o p[2])
    BY <1>5 DEF PairText
  <2>3. <<"=">> \o p[2] \in Without(PairSigns)
    BY <1>2, <2>1, ConcatWithout
  <2>4. PairText(p) \in Without(PairSigns)
    BY <1>1, <2>2, <2>3, ConcatWithout
  <2>5. PairText(p)[1] \notin {Blank, "?"}
    <3>1. p[2] \in Text
      BY <2>1, WithoutIs
    <3>2. /\ <<"=">> \o p[2] \in Text
          /\ (<<"=">> \o p[2])[1] = "=" /\ <<"=">> \o p[2] # <<>>
      <4>1. <<"=">> \in Text /\ <<"=">>[1] = "=" /\ <<"=">> # <<>>
        BY <1>2, WithoutIs
      <4> QED
        BY <3>1, <4>1, FirstOfTwo, TextIs
    <3>3. PairText(p)[1] = IF p[1] = <<>> THEN "=" ELSE p[1][1]
      <4> DEFINE behind == <<"=">> \o p[2]
      <4>1. behind \in Seq(Bytes) /\ p[1] \in Seq(Bytes) /\ behind[1] = "="
        BY <1>3, <3>2, TextIs
      <4> HIDE DEF behind
      <4>2. (p[1] \o behind)[1] = IF p[1] = <<>> THEN "=" ELSE p[1][1]
        BY <4>1, FirstOfTwo
      <4> QED
        BY <2>2, <4>2 DEF behind
    <3>4. p[1] # <<>> => p[1][1] \notin {Blank, "?"}
      BY <1>3, NotEmpty, TextIs
    <3> QED
      BY <3>3, <3>4, SignsDiffer
  <2> QED
    BY <2>4, <2>5 DEF p
<1> QED
  BY <1>4, <1>5

(* The parts a text of pairs is put together of                            *)
PairParts(pairs, separator) ==
    [i \in DOMAIN pairs |-> (IF i = 1 THEN <<>> ELSE separator) \o PairText(pairs[i])]

LEMMA PairPartsAre ==
    ASSUME NEW pairs \in Pairs, NEW signs \in SUBSET PairSigns,
           NEW separator \in Without(signs)
    PROVE  /\ PairParts(pairs, separator) \in Seq(Text)
           /\ Len(PairParts(pairs, separator)) = Len(pairs)
           /\ Len(pairs) \in Nat /\ DOMAIN pairs = 1..Len(pairs)
           /\ \A i \in DOMAIN pairs : PairParts(pairs, separator)[i] \in Without(signs)
           /\ PairsText(pairs, separator) = FlattenSeq(PairParts(pairs, separator))
<1> DEFINE s == PairParts(pairs, separator)
<1>1. Len(pairs) \in Nat /\ DOMAIN pairs = 1..Len(pairs)
  BY PairsAre
<1>2. ASSUME NEW i \in DOMAIN pairs PROVE s[i] \in Without(signs)
  <2>1. s[i] = (IF i = 1 THEN <<>> ELSE separator) \o PairText(pairs[i])
    BY DEF PairParts
  <2>2. PairText(pairs[i]) \in Without(signs)
    BY PairTextIs, WithoutFewer
  <2>3. <<>> \in Without(signs)
    BY TextIs DEF Without
  <2> QED
    BY <2>1, <2>2, <2>3, ConcatWithout
<1>3. DOMAIN s = DOMAIN pairs
  BY DEF PairParts
<1>4. \A i \in DOMAIN pairs : s[i] \in Text
  BY <1>2, WithoutIs
<1>5. s = [i \in 1..Len(pairs) |-> s[i]]
  BY <1>1 DEF PairParts
<1> HIDE DEF s
<1>6. s \in Seq(Text) /\ Len(s) = Len(pairs)
  BY <1>1, <1>4, <1>5
<1>7. PairsText(pairs, separator) = FlattenSeq(PairParts(pairs, separator))
  BY DEF PairsText, PairParts
<1> QED
  BY <1>1, <1>2, <1>6, <1>7 DEF s

LEMMA PairsTextIs ==
    ASSUME NEW pairs \in Pairs, NEW signs \in SUBSET PairSigns,
           NEW separator \in Without(signs), separator # <<>>,
           separator[1] \notin {Blank, "?"}
    PROVE  /\ PairsText(pairs, separator) \in Without(signs)
           /\ PairsText(pairs, separator) # <<>> =>
                PairsText(pairs, separator)[1] \notin {Blank, "?"}
<1> DEFINE s == PairParts(pairs, separator)
           t == PairsText(pairs, separator)
<1>1. /\ s \in Seq(Text) /\ Len(s) = Len(pairs)
      /\ Len(pairs) \in Nat /\ DOMAIN pairs = 1..Len(pairs)
      /\ \A i \in DOMAIN pairs : s[i] \in Without(signs)
      /\ t = FlattenSeq(s)
  BY PairPartsAre
<1>2. t \in Without(signs)
  <2> HIDE DEF s, t
  <2> QED
    BY <1>1, FlattenWithout
<1>3. \A i \in DOMAIN pairs :
        s[i] = (IF i = 1 THEN <<>> ELSE separator) \o PairText(pairs[i])
  BY DEF PairParts
<1>4. ASSUME t # <<>> PROVE t[1] \notin {Blank, "?"}
  <2> HIDE DEF s, t
  <2>1. t \in Seq(Bytes) /\ s \in Seq(Seq(Bytes)) /\ separator \in Seq(Bytes)
    BY <1>1, <1>2, WithoutIs, TextIs
  <2>2. 1 \in 1..Len(FlattenSeq(s))
    BY <1>1, <1>4, <2>1, NotEmpty
  <2>7. PICK i \in 1..Len(s) : t[1] = s[i][1] /\ s[i] # <<>>
    BY <1>1, <2>1, <2>2, FlattenFirst
  <2>8. /\ PairText(pairs[i]) \in Seq(Bytes)
        /\ PairText(pairs[i]) # <<>> => PairText(pairs[i])[1] \notin {Blank, "?"}
    <3>1. PairText(pairs[i]) \in Without(PairSigns)
      BY <1>1, PairTextIs
    <3>2. PairText(pairs[i]) # <<>> => PairText(pairs[i])[1] \notin {Blank, "?"}
      BY <1>1, PairTextIs
    <3> QED
      BY <3>1, <3>2, WithoutIs, TextIs
  <2>9. CASE i = 1
    <3>1. s[i] = <<>> \o PairText(pairs[i])
      BY <1>1, <1>3, <2>9
    <3>2. s[i] = PairText(pairs[i])
      BY <2>8, <3>1, EmptyBehind
    <3> QED
      BY <2>7, <2>8, <3>2
  <2>10. CASE i # 1
    <3>1. s[i] = separator \o PairText(pairs[i])
      BY <1>1, <1>3, <2>10
    <3>2. (separator \o PairText(pairs[i]))[1] = separator[1]
      BY <2>1, <2>8, FirstOfTwo, Zenon
    <3> QED
      BY <2>7, <3>1, <3>2
  <2> QED
    BY <2>9, <2>10
<1> QED
  BY <1>2, <1>4

(* The parameters of the uri and the cookies as text                       *)
LEMMA QueryIs ==
    ASSUME NEW pairs \in Pairs
    PROVE  /\ PairsText(pairs, <<"&">>) \in Without(PairSigns \ {"&"})
           /\ PairsText(pairs, <<"&">>) # <<>> => PairsText(pairs, <<"&">>)[1] \notin {Blank, "?"}
<1>1. "&" \in Bytes /\ "&" \notin PairSigns \ {"&"}
  BY DEF Bytes, Signs
<1>2. <<"&">> \in Without(PairSigns \ {"&"})
  BY <1>1, SignTexts
<1>3. <<"&">> # <<>> /\ <<"&">>[1] \notin {Blank, "?"}
  BY SignsDiffer
<1> QED
  BY <1>2, <1>3, PairsTextIs

LEMMA CookiesAre ==
    ASSUME NEW pairs \in Pairs
    PROVE  /\ PairsText(pairs, <<Semicolon, Blank>>) \in Without(PairSigns \ {Semicolon, Blank})
           /\ PairsText(pairs, <<Semicolon, Blank>>) # <<>> =>
                PairsText(pairs, <<Semicolon, Blank>>)[1] \notin {Blank, "?"}
<1>1. Semicolon \in Bytes /\ Blank \in Bytes
  BY DEF Bytes, Signs
<1>2. <<Semicolon, Blank>> \in Without(PairSigns \ {Semicolon, Blank})
  BY <1>1, SignTexts
<1>3. <<Semicolon, Blank>> # <<>> /\ <<Semicolon, Blank>>[1] \notin {Blank, "?"}
  BY SignsDiffer
<1> QED
  BY <1>2, <1>3, PairsTextIs

(* What WellFormed says, for the proofs that need it                       *)
LEMMA FormIs ==
    ASSUME NEW form \in Forms
    PROVE  /\ form.method \in Word /\ form.version \in Word
           /\ form.uri \in Without({Blank, "?"}) \ {<<>>}
           /\ form.query \in Pairs /\ form.cookies \in Pairs /\ form.fields \in Pairs
           /\ form.headers \in Seq(Word \X Without(LineEnds))
           /\ \A i \in DOMAIN form.headers :
                form.headers[i][2] # <<>> => form.headers[i][2][1] # Blank
           /\ form.body \in Text
<1>1. WellFormed(form)
  BY FormsAssumption
<1> QED
  BY <1>1, Zenon DEF WellFormed

LEMMA WordIs ==
    ASSUME NEW w \in Word
    PROVE  /\ w \in Text /\ w # <<>> /\ Len(w) \in Nat \ {0} /\ DOMAIN w = 1..Len(w)
           /\ \A i \in 1..Len(w) : w[i] \notin Signs
<1>1. w \in Without(Signs) /\ w # <<>>
  BY Zenon DEF Word
<1>2. w \in Text /\ DOMAIN w = 1..Len(w) /\ \A i \in 1..Len(w) : w[i] \notin Signs
  BY <1>1, WithoutIs
<1>3. Len(w) \in Nat \ {0}
  BY <1>1, <1>2, NotEmpty, TextIs
<1> QED
  BY <1>1, <1>2, <1>3

(* What is written on the lines of headers                                 *)
LEMMA LinesAre ==
    ASSUME NEW form \in Forms
    PROVE  /\ Len(Lines(form)) \in Nat /\ DOMAIN Lines(form) = 1..Len(Lines(form))
           /\ \A i \in 1..Len(Lines(form)) :
                /\ Lines(form)[i][1] \in Word
                /\ Lines(form)[i][2] \in Without(LineEnds)
                /\ Lines(form)[i][2] # <<>> => Lines(form)[i][2][1] # Blank
<1> DEFINE cookies == PairsText(form.cookies, <<Semicolon, Blank>>)
           L == Word \X Without(LineEnds)
<1>1. form.headers \in Seq(L)
  BY FormIs
<1>2. /\ cookies \in Without(PairSigns \ {Semicolon, Blank})
      /\ cookies # <<>> => cookies[1] # Blank
  BY FormIs, CookiesAre
<1>3. <<Cookie, cookies>> \in L
  <2>1. LineEnds \in SUBSET (PairSigns \ {Semicolon, Blank})
    BY SignsDiffer DEF LineEnds, PairSigns
  <2> HIDE DEF cookies
  <2>2. cookies \in Without(LineEnds)
    BY <1>2, <2>1, WithoutFewer
  <2>3. Cookie \in Word
    <3>1. "K" \in Bytes /\ "K" \notin Signs
      BY LettersAssumption, SignsDiffer DEF Bytes, Signs, Nul
    <3>2. <<"K">> \in Without(Signs)
      BY <3>1, SignTexts
    <3>3. <<"K">> # <<>>
      OBVIOUS
    <3> QED
      BY <3>2, <3>3 DEF Word, Cookie
  <2> QED
    BY <2>2, <2>3
<1>4. \A i \in DOMAIN form.headers :
        form.headers[i][2] # <<>> => form.headers[i][2][1] # Blank
  BY FormIs
<1>5. Lines(form) = IF form.cookies = <<>> THEN form.headers
                    ELSE <<<<Cookie, cookies>>>> \o form.headers
  BY <1>1, EmptyBehind DEF Lines
<1> HIDE DEF L, cookies
<1>6. Lines(form) \in Seq(L)
  BY <1>1, <1>3, <1>5
<1>7. Len(Lines(form)) \in Nat /\ DOMAIN Lines(form) = 1..Len(Lines(form))
  BY <1>6
<1>8. \A i \in 1..Len(Lines(form)) : Lines(form)[i] \in L
  BY <1>6
<1>9. ASSUME NEW i \in 1..Len(Lines(form)), Lines(form)[i][2] # <<>>
      PROVE  Lines(form)[i][2][1] # Blank
  <2>1. CASE form.cookies = <<>>
    BY <1>4, <1>5, <1>7, <1>9, <2>1
  <2>2. CASE form.cookies # <<>>
    <3>1. /\ Lines(form)[1] = <<Cookie, cookies>>
          /\ i # 1 => i - 1 \in DOMAIN form.headers /\ Lines(form)[i] = form.headers[i - 1]
      <4> DEFINE one == <<<<Cookie, cookies>>>>
      <4>1. one \in Seq(L) /\ Len(one) = 1 /\ one[1] = <<Cookie, cookies>>
        BY <1>3
      <4>2. Lines(form) = one \o form.headers
        BY <1>5, <2>2
      <4> HIDE DEF one
      <4>3. /\ Len(one \o form.headers) = Len(one) + Len(form.headers)
            /\ \A m \in 1..Len(one) : (one \o form.headers)[m] = one[m]
            /\ \A m \in 1..Len(form.headers) :
                 (one \o form.headers)[Len(one) + m] = form.headers[m]
        <5> DEFINE h == form.headers
        <5>1. h \in Seq(L) /\ one \in Seq(L)
          BY <1>1, <4>1
        <5> HIDE DEF h
        <5>2. /\ Len(one \o h) = Len(one) + Len(h)
              /\ \A m \in 1..Len(one) : (one \o h)[m] = one[m]
              /\ \A m \in 1..Len(h) : (one \o h)[Len(one) + m] = h[m]
          BY <5>1, ConcatIs
        <5> QED
          BY <5>2 DEF h
      <4>4. Len(form.headers) \in Nat /\ DOMAIN form.headers = 1..Len(form.headers)
        BY <1>1
      <4>5. Lines(form)[1] = <<Cookie, cookies>>
        BY <4>1, <4>2, <4>3
      <4>6. ASSUME i # 1
            PROVE  i - 1 \in DOMAIN form.headers /\ Lines(form)[i] = form.headers[i - 1]
        <5>1. i - 1 \in 1..Len(form.headers) /\ Len(one) + (i - 1) = i
          BY <1>7, <4>1, <4>2, <4>3, <4>4, <4>6
        <5> QED
          BY <4>2, <4>3, <4>4, <5>1
      <4> QED
        BY <4>5, <4>6
    <3>2. CASE i = 1
      <4>1. Lines(form)[i][2] = cookies
        BY <3>1, <3>2
      <4> QED
        BY <1>2, <1>9, <4>1, Zenon
    <3>3. CASE i # 1
      BY <1>4, <1>9, <3>1, <3>3
    <3> QED
      BY <3>2, <3>3
  <2> QED
    BY <2>1, <2>2
<1>10. \A i \in 1..Len(Lines(form)) :
         Lines(form)[i][1] \in Word /\ Lines(form)[i][2] \in Without(LineEnds)
  BY <1>8 DEF L
<1> QED
  BY <1>7, <1>9, <1>10

LEMMA SignsAre ==
    /\ <<Blank>> \in Text /\ Len(<<Blank>>) = 1
    /\ <<"CR", "LF">> \in Text /\ Len(<<"CR", "LF">>) = 2
    /\ <<":", Blank>> \in Text /\ Len(<<":", Blank>>) = 2
    /\ <<"?">> \in Text /\ Len(<<"?">>) = 1
    /\ <<Nul>> \in Text /\ Len(<<Nul>>) = 1
    /\ <<"&">> \in Text /\ Len(<<"&">>) = 1
<1>1. {Blank, "CR", "LF", ":", "?", "&", Nul} \subseteq Bytes
  BY DEF Bytes, Signs
<1>2. \A c, d \in Bytes : <<c>> \in Text /\ <<c, d>> \in Text
  BY TextIs
<1>3. \A c, d \in Bytes : Len(<<c>>) = 1 /\ Len(<<c, d>>) = 2
  OBVIOUS
<1> QED
  BY <1>1, <1>2, <1>3

(* Where the parts of a header line are                                    *)
LineLayout(key, value) ==
    LET h == HeaderLine(key, value) IN
    /\ h \in Text /\ Len(h) = Len(key) + 2 + Len(value) + 2
    /\ LiesAt(h, 0, key)
    /\ LiesAt(h, Len(key), <<":", Blank>>)
    /\ LiesAt(h, Len(key) + 2, value)
    /\ LiesAt(h, Len(key) + 2 + Len(value), <<"CR", "LF">>)

LEMMA HeaderLineIs ==
    ASSUME NEW key \in Text, NEW value \in Text
    PROVE  LineLayout(key, value)
<1> DEFINE a == key \o <<":", Blank>>
           b == a \o value
           h == b \o <<"CR", "LF">>
<1>1. h = HeaderLine(key, value)
  BY DEF HeaderLine, Line
<1>2. /\ a \in Text /\ Len(a) = Len(key) + 2 /\ Len(key) \in Nat
      /\ LiesAt(a, 0, key) /\ LiesAt(a, Len(key), <<":", Blank>>)
  BY SignsAre, Extended
<1> HIDE DEF a
<1>3. /\ b \in Text /\ Len(b) = Len(a) + Len(value) /\ Len(value) \in Nat
      /\ LiesAt(b, 0, key) /\ LiesAt(b, Len(key), <<":", Blank>>)
      /\ LiesAt(b, Len(a), value)
  BY <1>2, SignsAre, Extended
<1> HIDE DEF b
<1>4. /\ h \in Text /\ Len(h) = Len(b) + 2
      /\ LiesAt(h, 0, key) /\ LiesAt(h, Len(key), <<":", Blank>>)
      /\ LiesAt(h, Len(a), value) /\ LiesAt(h, Len(b), <<"CR", "LF">>)
  BY <1>3, SignsAre, Extended
<1> HIDE DEF h
<1>5. Len(b) = Len(key) + 2 + Len(value)
  BY <1>2, <1>3
<1> QED
  BY <1>1, <1>2, <1>4, <1>5 DEF LineLayout

LEMMA LineTextsAre ==
    ASSUME NEW form \in Forms
    PROVE  /\ LineTexts(form) \in Seq(Text) /\ Len(LineTexts(form)) = Len(Lines(form))
           /\ \A i \in 1..Len(Lines(form)) :
                LineTexts(form)[i] = HeaderLine(Lines(form)[i][1], Lines(form)[i][2])
<1> DEFINE s == LineTexts(form)
           n == Len(Lines(form))
<1>1. n \in Nat /\ DOMAIN Lines(form) = 1..n
  BY LinesAre
<1>2. s = [i \in 1..n |-> HeaderLine(Lines(form)[i][1], Lines(form)[i][2])]
  BY <1>1 DEF LineTexts
<1>3. ASSUME NEW i \in 1..n
      PROVE  HeaderLine(Lines(form)[i][1], Lines(form)[i][2]) \in Text
  <2>1. Lines(form)[i][1] \in Word /\ Lines(form)[i][2] \in Without(LineEnds)
    BY LinesAre
  <2>2. Lines(form)[i][1] \in Text /\ Lines(form)[i][2] \in Text
    BY <2>1, WordIs, WithoutIs
  <2> QED
    BY <2>2, HeaderLineIs DEF LineLayout
<1> HIDE DEF s, n
<1>4. \A i \in 1..n : s[i] = HeaderLine(Lines(form)[i][1], Lines(form)[i][2])
  BY <1>2
<1>5. s \in Seq(Text) /\ Len(s) = n
  BY <1>1, <1>2, <1>3
<1> QED
  BY <1>4, <1>5 DEF s, n

LEMMA QueryTextIs ==
    ASSUME NEW form \in Forms
    PROVE  QueryText(form) \in Text
<1>1. PairsText(form.query, <<"&">>) \in Text
  <2>1. form.query \in Pairs
    BY FormIs
  <2>2. PairsText(form.query, <<"&">>) \in Without(PairSigns \ {"&"})
    BY <2>1, QueryIs
  <2> QED
    BY <2>2, WithoutIs
<1>2. <<>> \in Text
  BY TextIs
<1> QED
  BY <1>1, <1>2, SignsAre, Extended DEF QueryText

LEMMA BodyTextIs ==
    ASSUME NEW form \in Forms
    PROVE  BodyText(form) \in Text
<1>1. PairsText(form.fields, <<"&">>) \in Text
  <2>1. form.fields \in Pairs
    BY FormIs
  <2>2. PairsText(form.fields, <<"&">>) \in Without(PairSigns \ {"&"})
    BY <2>1, QueryIs
  <2> QED
    BY <2>2, WithoutIs
<1> QED
  BY <1>1, FormIs DEF BodyText

(* Where the parts of a request are in its bytes                           *)
AtUri(form) == Len(form.method) + 1
AtParams(form) == AtUri(form) + Len(form.uri)
AtVersion(form) == AtParams(form) + Len(QueryText(form)) + 1
AtHeaders(form) == AtVersion(form) + Len(form.version) + 2
AtLine(form, j) == AtHeaders(form) + Off(LineTexts(form))[j]
AtBody(form) == AtLine(form, Len(Lines(form))) + 2

Layout(form, e) ==
    /\ e \in Text /\ Len(e) = AtBody(form) + Len(BodyText(form))
    /\ LiesAt(e, 0, form.method) /\ LiesAt(e, Len(form.method), <<Blank>>)
    /\ LiesAt(e, AtUri(form), form.uri)
    /\ LiesAt(e, AtParams(form), QueryText(form))
    /\ LiesAt(e, AtParams(form) + Len(QueryText(form)), <<Blank>>)
    /\ LiesAt(e, AtVersion(form), form.version)
    /\ LiesAt(e, AtVersion(form) + Len(form.version), <<"CR", "LF">>)
    /\ \A j \in 1..Len(Lines(form)) : LiesAt(e, AtLine(form, j - 1), LineTexts(form)[j])
    /\ LiesAt(e, AtLine(form, Len(Lines(form))), <<"CR", "LF">>)
    /\ LiesAt(e, AtBody(form), BodyText(form))

(* The first line of a request                                             *)
LEMMA RequestLineIs ==
    ASSUME NEW form \in Forms
    PROVE  LET l == Line(RequestLine(form)) IN
           /\ l \in Text /\ Len(l) = AtHeaders(form)
           /\ LiesAt(l, 0, form.method) /\ LiesAt(l, Len(form.method), <<Blank>>)
           /\ LiesAt(l, AtUri(form), form.uri)
           /\ LiesAt(l, AtParams(form), QueryText(form))
           /\ LiesAt(l, AtParams(form) + Len(QueryText(form)), <<Blank>>)
           /\ LiesAt(l, AtVersion(form), form.version)
           /\ LiesAt(l, AtVersion(form) + Len(form.version), <<"CR", "LF">>)
<1> DEFINE m == form.method
           u == form.uri
           q == QueryText(form)
           v == form.version
           blank == <<Blank>>
           crlf == <<"CR", "LF">>
           a == m \o blank
           b == a \o u
           c == b \o q
           d == c \o blank
           r == d \o v
           l == r \o crlf
<1>1. /\ m \in Text /\ u \in Text /\ q \in Text /\ v \in Text
      /\ blank \in Text /\ Len(blank) = 1 /\ crlf \in Text /\ Len(crlf) = 2
  <2>1. m \in Text /\ v \in Text
    BY FormIs, WordIs
  <2>2. u \in Text
    <3>1. u \in Without({Blank, "?"})
      BY FormIs
    <3> QED
      BY <3>1, WithoutIs
  <2> QED
    BY <2>1, <2>2, QueryTextIs, SignsAre
<1>2. l = Line(RequestLine(form))
  BY DEF Line, RequestLine
<1> HIDE DEF m, u, q, v, blank, crlf
<1>3. /\ a \in Text /\ Len(a) = Len(m) + Len(blank) /\ Len(m) \in Nat
      /\ LiesAt(a, 0, m) /\ LiesAt(a, Len(m), blank)
  BY <1>1, Extended
<1> HIDE DEF a
<1>4. /\ b \in Text /\ Len(b) = Len(a) + Len(u) /\ Len(u) \in Nat
      /\ LiesAt(b, 0, m) /\ LiesAt(b, Len(m), blank) /\ LiesAt(b, Len(a), u)
  BY <1>1, <1>3, Extended
<1> HIDE DEF b
<1>5. /\ c \in Text /\ Len(c) = Len(b) + Len(q) /\ Len(q) \in Nat
      /\ LiesAt(c, 0, m) /\ LiesAt(c, Len(m), blank) /\ LiesAt(c, Len(a), u)
      /\ LiesAt(c, Len(b), q)
  BY <1>1, <1>4, Extended
<1> HIDE DEF c
<1>6. /\ d \in Text /\ Len(d) = Len(c) + Len(blank)
      /\ LiesAt(d, 0, m) /\ LiesAt(d, Len(m), blank) /\ LiesAt(d, Len(a), u)
      /\ LiesAt(d, Len(b), q) /\ LiesAt(d, Len(c), blank)
  BY <1>1, <1>5, Extended
<1> HIDE DEF d
<1>7. /\ r \in Text /\ Len(r) = Len(d) + Len(v) /\ Len(v) \in Nat
      /\ LiesAt(r, 0, m) /\ LiesAt(r, Len(m), blank) /\ LiesAt(r, Len(a), u)
      /\ LiesAt(r, Len(b), q) /\ LiesAt(r, Len(c), blank) /\ LiesAt(r, Len(d), v)
  BY <1>1, <1>6, Extended
<1> HIDE DEF r
<1>8. /\ l \in Text /\ Len(l) = Len(r) + Len(crlf)
      /\ LiesAt(l, 0, m) /\ LiesAt(l, Len(m), blank) /\ LiesAt(l, Len(a), u)
      /\ LiesAt(l, Len(b), q) /\ LiesAt(l, Len(c), blank) /\ LiesAt(l, Len(d), v)
      /\ LiesAt(l, Len(r), crlf)
  BY <1>1, <1>7, Extended
<1> HIDE DEF l
<1>9. /\ Len(a) = AtUri(form) /\ Len(b) = AtParams(form)
      /\ Len(c) = AtParams(form) + Len(q) /\ Len(d) = AtVersion(form)
      /\ Len(r) = AtVersion(form) + Len(v) /\ Len(l) = AtHeaders(form)
  BY <1>1, <1>3, <1>4, <1>5, <1>6, <1>7, <1>8
     DEF AtUri, AtParams, AtVersion, AtHeaders, m, u, q, v
<1> QED
  BY <1>2, <1>8, <1>9 DEF m, u, q, v, blank, crlf

(* The header lines are where the offsets say.                             *)
LEMMA HeadersAre ==
    ASSUME NEW form \in Forms
    PROVE  LET h == FlattenSeq(LineTexts(form))
               off == Off(LineTexts(form))
               n == Len(Lines(form))
           IN /\ h \in Text /\ n \in Nat /\ off \in [0..n -> Nat] /\ off[0] = 0
              /\ Len(h) = off[n]
              /\ \A j \in 1..n : /\ off[j] = off[j - 1] + Len(LineTexts(form)[j])
                                 /\ LiesAt(h, off[j - 1], LineTexts(form)[j])
<1> DEFINE s == LineTexts(form)
           n == Len(Lines(form))
<1>1. s \in Seq(Text) /\ Len(s) = n
  BY LineTextsAre
<1>2. n \in Nat
  BY LinesAre
<1> HIDE DEF s, n
<1>3. FlattenSeq(s) \in Text /\ Offsets(s, Off(s))
  BY <1>1, FlattenIs, TextIs
<1> QED
  BY <1>1, <1>2, <1>3 DEF Offsets, s, n

LEMMA EncodeIs ==
    ASSUME NEW form \in Forms
    PROVE  Layout(form, Encode(form))
<1> DEFINE l == Line(RequestLine(form))
           h == FlattenSeq(LineTexts(form))
           off == Off(LineTexts(form))
           n == Len(Lines(form))
           crlf == <<"CR", "LF">>
           a == l \o h
           b == a \o crlf
           e == b \o BodyText(form)
           Above(t) ==
                    /\ LiesAt(t, 0, form.method) /\ LiesAt(t, Len(form.method), <<Blank>>)
                    /\ LiesAt(t, AtUri(form), form.uri)
                    /\ LiesAt(t, AtParams(form), QueryText(form))
                    /\ LiesAt(t, AtParams(form) + Len(QueryText(form)), <<Blank>>)
                    /\ LiesAt(t, AtVersion(form), form.version)
                    /\ LiesAt(t, AtVersion(form) + Len(form.version), crlf)
           Below(t) == \A j \in 1..n : LiesAt(t, AtLine(form, j - 1), LineTexts(form)[j])
<1>1. e = Encode(form)
  <2>1. Line(<<>>) = <<"CR", "LF">>
    BY SignsAre, EmptyBehind, TextIs DEF Line
  <2> QED
    BY <2>1 DEF Encode
<1>2. l \in Text /\ Len(l) = AtHeaders(form) /\ Above(l)
  BY RequestLineIs
<1>3. /\ h \in Text /\ n \in Nat /\ off \in [0..n -> Nat] /\ Len(h) = off[n]
      /\ \A j \in 1..n : LiesAt(h, off[j - 1], LineTexts(form)[j])
  BY HeadersAre
<1>4. crlf \in Text /\ Len(crlf) = 2 /\ BodyText(form) \in Text /\ <<Blank>> \in Text
  BY SignsAre, BodyTextIs
<1>5. /\ form.method \in Text /\ form.uri \in Text /\ QueryText(form) \in Text
      /\ form.version \in Text
  <2>1. form.uri \in Without({Blank, "?"})
    BY FormIs
  <2> QED
    BY <2>1, FormIs, WordIs, WithoutIs, QueryTextIs
<1>6. ASSUME NEW t \in Text, NEW u \in Text, Above(t) PROVE Above(t \o u)
  BY <1>4, <1>5, <1>6, Extended
<1>7. \A j \in 1..n : LineTexts(form)[j] \in Text /\ Len(LineTexts(form)[j]) \in Nat
  <2> DEFINE s == LineTexts(form)
  <2>1. s \in Seq(Text) /\ Len(s) = n
    BY LineTextsAre
  <2> HIDE DEF s, n
  <2>2. \A j \in 1..n : s[j] \in Text
    BY <2>1
  <2>3. \A x \in Text : Len(x) \in Nat
    BY TextIs
  <2> QED
    BY <2>2, <2>3 DEF s
<1>8. ASSUME NEW t \in Text, NEW u \in Text, Below(t) PROVE Below(t \o u)
  BY <1>7, <1>8, Extended
<1> HIDE DEF Above, l, h, off, n, crlf
<1>9. /\ a \in Text /\ Len(a) = Len(l) + Len(h) /\ Len(l) \in Nat /\ Len(h) \in Nat
      /\ Above(a) /\ LiesAt(a, Len(l), h)
  BY <1>2, <1>3, <1>6, Extended
<1>10. Below(a)
  <2>1. ASSUME NEW j \in 1..n PROVE LiesAt(a, AtLine(form, j - 1), LineTexts(form)[j])
    <3>1. LiesAt(h, off[j - 1], LineTexts(form)[j]) /\ Len(LineTexts(form)[j]) \in Nat
      BY <1>3, <1>7
    <3>2. Len(a) \in Nat
      BY <1>9
    <3> HIDE DEF a
    <3>3. LiesAt(a, Len(l) + off[j - 1], LineTexts(form)[j])
      BY <1>9, <3>1, <3>2, LiesWithin
    <3> QED
      BY <1>2, <3>3 DEF AtLine, off
  <2> QED
    BY <2>1
<1> HIDE DEF a, Below
<1>11. /\ b \in Text /\ Len(b) = Len(a) + Len(crlf) /\ Above(b) /\ Below(b)
       /\ LiesAt(b, Len(a), crlf)
  BY <1>4, <1>6, <1>8, <1>9, <1>10, Extended
<1> HIDE DEF b
<1>12. /\ e \in Text /\ Len(e) = Len(b) + Len(BodyText(form)) /\ Above(e) /\ Below(e)
       /\ LiesAt(e, Len(a), crlf) /\ LiesAt(e, Len(b), BodyText(form))
       /\ Len(b) \in Nat /\ Len(BodyText(form)) \in Nat
  BY <1>4, <1>6, <1>8, <1>11, Extended
<1> HIDE DEF e
<1>13. Len(a) = AtLine(form, n) /\ Len(b) = AtBody(form)
  BY <1>2, <1>3, <1>4, <1>9, <1>11 DEF AtLine, AtBody, off, n
<1> QED
  BY <1>1, <1>12, <1>13 DEF Layout, Above, Below, n, crlf

-----------------------------------------------------------------------------
(* atoi                                                                    *)

(* The numbers of the first digits                                         *)
Counts(d, n, u) ==
    /\ u \in [0..n -> Nat]
    /\ \A i \in 0..n : u[i] = IF i = 0 THEN 0 ELSE 10 * u[i - 1] + d[i]

LEMMA CountsExist ==
    ASSUME NEW last \in Nat, NEW d \in [1..last -> 0..9]
    PROVE  \E u : Counts(d, last, u)
<1> DEFINE T == {n \in 0..last : ~ \E u : Counts(d, n, u)}
<1>1. CASE T = {}
  <2>1. last \in 0..last
    OBVIOUS
  <2> QED
    BY <1>1, <2>1
<1>2. CASE T # {}
  <2>1. PICK n \in T : \A k \in T : n <= k
    <3>1. T \subseteq Nat
      OBVIOUS
    <3> HIDE DEF T
    <3> QED
      BY <1>2, <3>1, Least
  <2>2. n # 0
    <3>1. Counts(d, 0, [i \in 0..0 |-> 0])
      BY DEF Counts
    <3> QED
      BY <2>1, <3>1
  <2>3. n - 1 \in 0..last /\ n \in 1..last /\ n - 1 < n
    BY <2>2
  <2>4. PICK u : Counts(d, n - 1, u)
    BY <2>1, <2>3
  <2>5. u[n - 1] \in Nat /\ d[n] \in Nat
    <3>1. n - 1 \in 0..n - 1
      BY <2>3
    <3>2. u[n - 1] \in Nat
      BY <2>4, <3>1, Zenon DEF Counts
    <3> QED
      BY <2>3, <3>2
  <2> DEFINE next == 10 * u[n - 1] + d[n]
             w == [i \in 0..n |-> IF i = n THEN next ELSE u[i]]
  <2>6. next \in Nat
    BY <2>5
  <2> HIDE DEF next
  <2>7. w \in [0..n -> Nat]
    <3>1. \A i \in 0..n - 1 : u[i] \in Nat
      BY <2>4, Zenon DEF Counts
    <3>2. \A i \in 0..n : i # n => i \in 0..n - 1
      BY <2>3
    <3> QED
      BY <2>6, <3>1, <3>2
  <2>8. ASSUME NEW i \in 0..n
        PROVE  w[i] = IF i = 0 THEN 0 ELSE 10 * w[i - 1] + d[i]
    <3>1. CASE i = n
      <4>1. w[i] = next /\ w[i - 1] = u[n - 1] /\ i # 0
        BY <2>3, <3>1
      <4> HIDE DEF w
      <4> QED
        BY <3>1, <4>1 DEF next
    <3>2. CASE i # n
      <4>1. i \in 0..n - 1 /\ w[i] = u[i]
        BY <2>3, <3>2
      <4>2. i # 0 => w[i - 1] = u[i - 1]
        BY <2>3, <4>1
      <4>3. u[i] = IF i = 0 THEN 0 ELSE 10 * u[i - 1] + d[i]
        BY <2>4, <4>1, Zenon DEF Counts
      <4> HIDE DEF w
      <4> QED
        BY <4>1, <4>2, <4>3
    <3> QED
      BY <3>1, <3>2
  <2>9. Counts(d, n, w)
    <3> HIDE DEF w
    <3> QED
      BY <2>7, <2>8 DEF Counts
  <2> QED
    BY <2>1, <2>9
<1> QED
  BY <1>1, <1>2

DigitOf(c) == CHOOSE d \in 0..9 : Digits[d + 1] = c
NumberTo(value, last) ==
    CHOOSE u : u = [i \in 0..last |->
                      IF i = 0 THEN 0 ELSE 10 * u[i - 1] + DigitOf(value[i])]
DigitsEnd(value) ==
    Min({i \in DOMAIN value : value[i] \notin Range(Digits)} \union {Len(value) + 1})

LEMMA LengthIs ==
    ASSUME NEW value \in Text
    PROVE  LengthIn(value) \in Nat
<1> DEFINE T == {i \in DOMAIN value : value[i] \notin Range(Digits)} \union {Len(value) + 1}
           last == DigitsEnd(value) - 1
           d == [i \in 1..last |-> DigitOf(value[i])]
           u == NumberTo(value, last)
<1>1. DOMAIN value = 1..Len(value) /\ Len(value) \in Nat
  BY TextIs
<1>2. DigitsEnd(value) \in T /\ \A y \in T : DigitsEnd(value) <= y
  <2>1. T \subseteq Nat /\ T # {}
    BY <1>1
  <2>2. DigitsEnd(value) = Min(T)
    BY DEF DigitsEnd
  <2> HIDE DEF T
  <2> QED
    BY <2>1, <2>2, MinIs
<1>3. last \in 0..Len(value)
  BY <1>1, <1>2
<1>4. \A i \in 1..last : value[i] \in Range(Digits)
  <2> SUFFICES ASSUME NEW i \in 1..last, value[i] \notin Range(Digits) PROVE FALSE
    OBVIOUS
  <2>1. i \in T /\ i < DigitsEnd(value)
    BY <1>1, <1>2, <1>3
  <2> QED
    BY <1>2, <2>1
<1>5. \A c \in Range(Digits) : DigitOf(c) \in 0..9
  <2>1. \A c \in Range(Digits) : \E x \in 0..9 : Digits[x + 1] = c
    <3>1. DOMAIN Digits = 1..10
      BY DEF Digits
    <3>2. \A j \in 1..10 : j - 1 \in 0..9 /\ (j - 1) + 1 = j
      OBVIOUS
    <3> QED
      BY <3>1, <3>2 DEF Range
  <2> QED
    BY <2>1, Zenon DEF DigitOf
<1> HIDE DEF last
<1>6. d \in [1..last -> 0..9] /\ \A i \in 1..last : d[i] = DigitOf(value[i])
  BY <1>4, <1>5
<1> HIDE DEF d
<1>7. PICK w : Counts(d, last, w)
  BY <1>3, <1>6, CountsExist
<1>8. w = [i \in 0..last |-> IF i = 0 THEN 0 ELSE 10 * w[i - 1] + DigitOf(value[i])]
  <2>1. w = [i \in 0..last |-> w[i]]
    BY <1>7, Zenon DEF Counts
  <2>2. \A i \in 0..last : w[i] = IF i = 0 THEN 0 ELSE 10 * w[i - 1] + d[i]
    BY <1>7, Zenon DEF Counts
  <2>3. \A i \in 0..last : i # 0 => i \in 1..last
    BY <1>3
  <2>4. \A i \in 0..last : w[i] = IF i = 0 THEN 0 ELSE 10 * w[i - 1] + DigitOf(value[i])
    BY <1>6, <2>2, <2>3, Zenon
  <2> QED
    BY <2>1, <2>4, Zenon
<1>9. u = [i \in 0..last |-> IF i = 0 THEN 0 ELSE 10 * u[i - 1] + DigitOf(value[i])]
  BY <1>8, Zenon DEF NumberTo
<1> HIDE DEF u
<1>10. \A i \in 0..last : u[i] = IF i = 0 THEN 0 ELSE 10 * u[i - 1] + DigitOf(value[i])
  BY <1>9, Zenon
<1>11. \A i \in 0..last : u[i] \in Nat
  <2> DEFINE U == {i \in 0..last : u[i] \notin Nat}
  <2>1. CASE U # {}
    <3>1. PICK i \in U : \A k \in U : i <= k
      <4>1. U \subseteq Nat
        BY <1>3
      <4> HIDE DEF U
      <4> QED
        BY <2>1, <4>1, Least
    <3>2. i # 0
      BY <1>3, <1>10, <3>1
    <3>3. i - 1 \in 0..last /\ i \in 1..last /\ i - 1 \notin U
      BY <1>3, <3>1, <3>2
    <3>4. u[i - 1] \in Nat /\ DigitOf(value[i]) \in Nat
      BY <1>4, <1>5, <3>3
    <3>5. u[i] = 10 * u[i - 1] + DigitOf(value[i])
      BY <1>10, <3>2
    <3>6. u[i] \in Nat
      BY <3>4, <3>5
    <3> QED
      BY <3>1, <3>6
  <2> QED
    BY <2>1
<1>12. LengthIn(value) = u[last]
  BY Zenon DEF LengthIn, NumberTo, DigitOf, DigitsEnd, u, last
<1> QED
  BY <1>3, <1>11, <1>12

-----------------------------------------------------------------------------
(* The invariant: where the parser is in the stream, and what it has read  *)

(* The request that is read, where it starts, and the place in the stream  *)
(* behind what the call has processed                                      *)
K == Len(out) + 1
StartOf(k) == IF k = 1 THEN 0 ELSE ends[k - 1]
Gone == Arrived - Len(buf)
Pos == Gone + ptr

TypeInv ==
    /\ TypeOK /\ ptr \in 0..Len(buf)
    /\ buf \in Text /\ wire \in Text /\ stream \in Text
    /\ ends \in Seq(Nat) /\ Len(ends) = Len(sent)

(* A call that went on behind its buffer: nothing follows but requests the *)
(* client sends.                                                           *)
LostInv == TypeOK /\ conn = "lost" /\ pc = "wait" /\ ~joined

(* The buffer and the wire go on where the stream was processed to, and    *)
(* the stream is the requests.                                             *)
StreamInv ==
    /\ LiesAt(stream, Gone, buf) /\ LiesAt(stream, Arrived, wire)
    /\ Len(stream) = StartOf(Len(sent) + 1)
    /\ \A k \in 1..Len(sent) : /\ LiesAt(stream, StartOf(k), Encode(sent[k]))
                               /\ ends[k] = StartOf(k) + Len(Encode(sent[k]))

(* The requests end one behind the other.                                  *)
OrderInv == \A i, j \in 1..Len(sent) : i <= j => ends[i] <= ends[j]

(* What of a request is read by the time its parts have been               *)
Read(method, uri, params, version, headers, cookies, body) ==
    [method |-> method, uri |-> uri, params |-> params, version |-> version,
     headers |-> headers, cookies |-> cookies, body |-> body]

ParamsText(form) ==
    IF form.query = <<>> THEN <<>> ELSE PairsText(form.query, <<"&">>) \o <<Nul>>

CookiePairs(form) ==
    ParseString(PairsText(form.cookies, <<Semicolon, Blank>>) \o <<Nul>>, Semicolon, TRUE)

KeptLine(form, i) ==
    IF Lines(form)[i][1] = Cookie THEN <<Cookie, CookiePairs(form)[1][1]>> ELSE Lines(form)[i]

HeadersTo(form, j) == [i \in 1..j |-> KeptLine(form, i)]

CookiesTo(form, j) == IF form.cookies # <<>> /\ j >= 1 THEN CookiePairs(form) ELSE <<>>

LengthTo(form, j) ==
    IF \E i \in 1..j : Lines(form)[i][1] = ContentLength THEN Len(BodyText(form)) ELSE Absent

ReadTo(form, j, body) ==
    Read(form.method, form.uri, ParamsText(form), form.version,
         HeadersTo(form, j), CookiesTo(form, j), body)

(* The stages, at p bytes of the request                                   *)
AtStart(p) == stage = "method" /\ p = 0 /\ req = NewRequest /\ length = Absent

InUri(form, p) ==
    /\ stage = "uri" /\ p = AtUri(form) /\ length = Absent
    /\ req = Read(form.method, <<>>, <<>>, <<>>, <<>>, <<>>, <<>>)

InParams(form, p) ==
    /\ stage = "params" /\ length = Absent
    /\ p = AtParams(form) + (IF form.query = <<>> THEN 1 ELSE 0)
    /\ req = Read(form.method, form.uri, <<>>, <<>>, <<>>, <<>>, <<>>)

InVersion(form, p) ==
    /\ stage = "version" /\ p = AtVersion(form) /\ length = Absent
    /\ req = Read(form.method, form.uri, ParamsText(form), <<>>, <<>>, <<>>, <<>>)

InHeaders(form, p) ==
    /\ stage = "headers"
    /\ \E j \in 0..Len(Lines(form)) :
          /\ p = AtLine(form, j)
          /\ req = ReadTo(form, j, <<>>) /\ length = LengthTo(form, j)

InBody(form, p) ==
    /\ stage = "body"
    /\ \E b \in 0..Len(BodyText(form)) :
          /\ p = AtBody(form) + b
          /\ req = ReadTo(form, Len(Lines(form)), SubSeq(BodyText(form), 1, b))
          /\ length = LengthTo(form, Len(Lines(form)))
          /\ b # 0 => b < length
          /\ ptr = 0 => length > 0

InRequest(form, p) ==
    \/ InUri(form, p) \/ InParams(form, p) \/ InVersion(form, p)
    \/ InHeaders(form, p) \/ InBody(form, p)

PlaceInv ==
    /\ Len(out) \in 0..Len(sent)
    /\ \/ Pos >= StartOf(K) /\ AtStart(Pos - StartOf(K))
       \/ /\ Pos >= StartOf(K) /\ K <= Len(sent)
          /\ InRequest(sent[K], Pos - StartOf(K))

(* No piece was cut where the parser is not prepared for it.               *)
PieceInv == ~CutsLineEnd(Arrived) /\ ~Overtakes(Arrived)

(* Waiting for bytes, the request is not complete.                         *)
WaitInv == pc = "wait" /\ K <= Len(sent) => Arrived < ends[K]

OutInv ==
    /\ \E S : out \in Seq(S)
    /\ \A i \in 1..Len(out) : SameRequest(out[i], sent[i])

(* What holds as long as the parser follows the stream                     *)
Followed == PlaceInv /\ PieceInv /\ WaitInv /\ OutInv

IInv == \/ TypeInv /\ StreamInv /\ OrderInv /\ (joined => Followed)
        \/ LostInv

LEMMA RestIs ==
    ASSUME TypeInv
    PROVE  /\ Rest \in Text /\ Len(Rest) = Len(buf) - ptr
           /\ Len(buf) \in Nat /\ ptr \in 0..Len(buf) /\ Len(Rest) \in 0..Len(buf)
           /\ \A m \in 1..Len(Rest) : Rest[m] = buf[ptr + m]
<1>1. buf \in Seq(Bytes) /\ ptr \in 0..Len(buf)
  BY TextIs DEF TypeInv, TypeOK
<1>2. Len(buf) \in Nat /\ ptr + 1 \in 1..Len(buf) + 1 /\ Len(buf) \in 0..Len(buf)
  BY <1>1
<1>3. /\ Rest \in Seq(Bytes)
      /\ Len(Rest) = IF ptr + 1 <= Len(buf) THEN Len(buf) - (ptr + 1) + 1 ELSE 0
      /\ \A m \in 1..Len(Rest) : Rest[m] = buf[ptr + 1 + m - 1]
  BY <1>1, <1>2, SubSeqIs DEF Rest
<1>4. Len(Rest) = Len(buf) - ptr
  BY <1>1, <1>2, <1>3
<1>5. \A m \in 1..Len(Rest) : ptr + 1 + m - 1 = ptr + m
  BY <1>1, <1>2, <1>4
<1>6. \A m \in 1..Len(Rest) : Rest[m] = buf[ptr + m]
  BY <1>3, <1>5
<1> QED
  BY <1>1, <1>2, <1>3, <1>4, <1>6, TextIs

(* A step that leaves the bytes where they are, and moves on in the buffer *)
Moves ==
    /\ UNCHANGED <<sent, stream, ends, wire, buf>>
    /\ ptr' \in 0..Len(buf)

(* A step that returns from the call and drops n bytes                     *)
Drops(n) ==
    /\ UNCHANGED <<sent, stream, ends, wire>>
    /\ n \in 0..Len(buf)
    /\ ReturnCall(n)

(* The types of what is not bytes                                          *)
ControlTypes ==
    /\ pc \in {"wait", "run"}
    /\ stage \in {"method", "uri", "params", "version", "headers", "body"}
    /\ length \in Nat \union {Absent}
    /\ conn \in {"open", "closing", "gone", "lost"}
    /\ joined \in BOOLEAN

LEMMA MovesKeeps ==
    ASSUME TypeInv, StreamInv, Moves, ControlTypes'
    PROVE  TypeInv' /\ StreamInv'
<1>1. TypeInv'
  BY DEF TypeInv, TypeOK, Moves, ControlTypes
<1>2. StreamInv'
  BY DEF StreamInv, Moves, Gone, Arrived, StartOf
<1> QED
  BY <1>1, <1>2

LEMMA CutIs ==
    ASSUME TypeInv, NEW n \in 0..Len(buf)
    PROVE  /\ CutFromHead(buf, n) \in Text /\ Len(CutFromHead(buf, n)) = Len(buf) - n
           /\ \A m \in 1..Len(buf) - n : CutFromHead(buf, n)[m] = buf[n + m]
<1>1. buf \in Seq(Bytes) /\ Len(buf) \in Nat
  BY TextIs DEF TypeInv
<1>2. CutFromHead(buf, n) = SubSeq(buf, n + 1, Len(buf))
  BY <1>1 DEF CutFromHead
<1>3. n + 1 \in 1..Len(buf) + 1 /\ Len(buf) \in 0..Len(buf)
  BY <1>1
<1> DEFINE c == SubSeq(buf, n + 1, Len(buf))
<1>4. /\ c \in Seq(Bytes)
      /\ Len(c) = IF n + 1 <= Len(buf) THEN Len(buf) - (n + 1) + 1 ELSE 0
      /\ \A m \in 1..Len(c) : c[m] = buf[n + 1 + m - 1]
  BY <1>1, <1>3, SubSeqIs
<1> HIDE DEF c
<1>5. Len(c) = Len(buf) - n
  BY <1>1, <1>4
<1>6. \A m \in 1..Len(c) : n + 1 + m - 1 = n + m
  BY <1>1, <1>5
<1>7. \A m \in 1..Len(buf) - n : c[m] = buf[n + m]
  BY <1>4, <1>5, <1>6
<1> QED
  BY <1>2, <1>4, <1>5, <1>7, TextIs DEF c

LEMMA DropsKeeps ==
    ASSUME TypeInv, StreamInv, NEW n, Drops(n), ControlTypes'
    PROVE  TypeInv' /\ StreamInv' /\ Gone' = Gone + n /\ ptr' = 0 /\ Arrived' = Arrived
           /\ Len(buf') = Len(buf) - n /\ Arrived \in Int /\ Len(buf) \in Nat
<1>1. /\ n \in 0..Len(buf) /\ buf' = CutFromHead(buf, n) /\ ptr' = 0
      /\ UNCHANGED <<sent, stream, ends, wire>>
  BY DEF Drops, ReturnCall
<1>2. /\ buf' \in Text /\ Len(buf') = Len(buf) - n
      /\ \A m \in 1..Len(buf) - n : buf'[m] = buf[n + m]
  BY <1>1, CutIs
<1>3. \A t \in Text : Len(t) \in Nat
  BY TextIs
<1>4. Len(buf) \in Nat /\ Len(stream) \in Nat /\ Len(wire) \in Nat /\ Len(buf') \in Nat
  BY <1>2, <1>3 DEF TypeInv
<1>5. TypeInv'
  BY <1>1, <1>2, <1>4 DEF TypeInv, TypeOK, ControlTypes
<1>6. Arrived' = Arrived /\ Arrived \in Int
  BY <1>1, <1>4 DEF Arrived
<1>7. Gone' = Gone + n
  BY <1>1, <1>2, <1>4, <1>6 DEF Gone
<1>8. LiesAt(stream, Gone, buf)
  BY DEF StreamInv
<1>9. LiesAt(stream', Gone', buf')
  <2>1. Gone \in Nat /\ Gone + Len(buf) <= Len(stream)
        /\ \A m \in 1..Len(buf) : stream[Gone + m] = buf[m]
    BY <1>8 DEF LiesAt
  <2>2. ASSUME NEW m \in 1..Len(buf') PROVE stream[Gone' + m] = buf'[m]
    <3>1. n + m \in 1..Len(buf) /\ Gone + (n + m) = Gone' + m
      BY <1>1, <1>2, <1>4, <1>7, <2>1
    <3> QED
      BY <1>2, <2>1, <3>1
  <2>3. Gone' \in Nat /\ Gone' + Len(buf') <= Len(stream)
    BY <1>1, <1>2, <1>4, <1>7, <2>1
  <2> QED
    BY <1>1, <2>2, <2>3 DEF LiesAt
<1>10. StreamInv'
  BY <1>1, <1>6, <1>9 DEF StreamInv, StartOf
<1> QED
  BY <1>1, <1>2, <1>4, <1>5, <1>6, <1>7, <1>10

LEMMA AppendIs ==
    ASSUME NEW S, NEW s \in Seq(S), NEW e \in S
    PROVE  /\ Append(s, e) \in Seq(S) /\ Len(Append(s, e)) = Len(s) + 1 /\ Len(s) \in Nat
           /\ \A i \in 1..Len(s) : Append(s, e)[i] = s[i]
           /\ Append(s, e)[Len(s) + 1] = e
  OBVIOUS

(* A text between two others                                               *)
LEMMA LiesJoined ==
    ASSUME NEW t \in Text, NEW a \in Text, NEW b \in Text, NEW o \in Nat,
           LiesAt(t, o, a), LiesAt(t, o + Len(a), b)
    PROVE  LiesAt(t, o, a \o b)
<1>1. /\ Len(a \o b) = Len(a) + Len(b) /\ Len(a) \in Nat /\ Len(b) \in Nat
      /\ \A m \in 1..Len(a) : (a \o b)[m] = a[m]
      /\ \A m \in 1..Len(b) : (a \o b)[Len(a) + m] = b[m]
  BY ConcatIs, TextIs
<1>2. ASSUME NEW m \in 1..Len(a \o b) PROVE t[o + m] = (a \o b)[m]
  <2>1. CASE m <= Len(a)
    BY <1>1, <2>1 DEF LiesAt
  <2>2. CASE m > Len(a)
    <3>1. m - Len(a) \in 1..Len(b) /\ Len(a) + (m - Len(a)) = m
          /\ o + Len(a) + (m - Len(a)) = o + m
      BY <1>1, <2>2
    <3>2. t[o + Len(a) + (m - Len(a))] = b[m - Len(a)]
      BY <3>1 DEF LiesAt
    <3>3. (a \o b)[Len(a) + (m - Len(a))] = b[m - Len(a)]
      BY <1>1, <3>1
    <3> QED
      BY <3>1, <3>2, <3>3
  <2> QED
    BY <1>1, <2>1, <2>2
<1>3. o + Len(a \o b) <= Len(t)
  BY <1>1 DEF LiesAt
<1> QED
  BY <1>2, <1>3 DEF LiesAt

LEMMA SendKeeps ==
    ASSUME TypeInv, StreamInv, Send
    PROVE  /\ TypeInv' /\ StreamInv' /\ Arrived' = Arrived /\ Gone' = Gone
           /\ Len(sent') = Len(sent) + 1 /\ Len(sent) \in Nat
           /\ \A k \in 1..Len(sent) + 1 : StartOf(k)' = StartOf(k)
           /\ \A k \in 1..Len(sent) : sent'[k] = sent[k] /\ ends'[k] = ends[k]
           /\ \E form \in Forms :
                /\ sent'[Len(sent) + 1] = form
                /\ stream' = stream \o Encode(form)
                /\ ends'[Len(sent) + 1] = Len(stream) + Len(Encode(form))
<1>1. PICK form \in Forms :
        /\ sent' = Append(sent, form)
        /\ wire' = wire \o Encode(form) /\ stream' = stream \o Encode(form)
        /\ ends' = Append(ends, Len(stream) + Len(Encode(form)))
  BY DEF Send
<1>2. UNCHANGED <<joined, buf, pc, ptr, stage, req, length, out, conn>> /\ Len(sent) < MaxRequests
  BY DEF Send, parserVars
<1> DEFINE bytes == Encode(form)
<1>3. bytes \in Text
  BY EncodeIs DEF Layout
<1> HIDE DEF bytes
<1>4. sent \in Seq(Forms) /\ ends \in Seq(Nat) /\ Len(ends) = Len(sent)
      /\ buf \in Text /\ wire \in Text /\ stream \in Text
  BY DEF TypeInv, TypeOK
<1>5. \A t \in Text : Len(t) \in Nat
  BY TextIs
<1>6. /\ sent' \in Seq(Forms) /\ Len(sent') = Len(sent) + 1 /\ Len(sent) \in Nat
      /\ sent'[Len(sent) + 1] = form
      /\ \A k \in 1..Len(sent) : sent'[k] = sent[k]
  BY <1>1, <1>4, AppendIs
<1>7. Len(stream) + Len(bytes) \in Nat
  BY <1>3, <1>4, <1>5
<1>8. /\ ends' \in Seq(Nat) /\ Len(ends') = Len(ends) + 1
      /\ ends'[Len(ends) + 1] = Len(stream) + Len(bytes)
      /\ \A k \in 1..Len(ends) : ends'[k] = ends[k]
  BY <1>1, <1>4, <1>7, AppendIs DEF bytes
<1>9. /\ stream' \in Text /\ Len(stream') = Len(stream) + Len(bytes)
      /\ wire' \in Text /\ Len(wire') = Len(wire) + Len(bytes)
      /\ LiesAt(stream', Len(stream), bytes)
      /\ \A p \in Text : \A o : LiesAt(stream, o, p) => LiesAt(stream', o, p)
  BY <1>1, <1>3, <1>4, Extended DEF bytes
<1>10. Arrived' = Arrived /\ Gone' = Gone /\ Arrived \in Int
  BY <1>2, <1>3, <1>4, <1>5, <1>9 DEF Arrived, Gone
<1>11. TypeInv'
  BY <1>1, <1>2, <1>4, <1>6, <1>8, <1>9, BoundAssumption DEF TypeInv, TypeOK
<1>12. LiesAt(stream, Gone, buf) /\ LiesAt(stream, Arrived, wire)
  BY DEF StreamInv
<1>13. LiesAt(stream', Gone', buf')
  BY <1>2, <1>4, <1>9, <1>10, <1>12
<1>14. LiesAt(stream', Arrived', wire')
  <2>1. Arrived \in Nat /\ Arrived + Len(wire) = Len(stream)
    BY <1>4, <1>5, <1>12 DEF Arrived, LiesAt
  <2>2. LiesAt(stream', Arrived, wire)
    BY <1>4, <1>9, <1>12
  <2>3. LiesAt(stream', Arrived, wire \o bytes)
    BY <1>3, <1>4, <1>9, <2>1, <2>2, LiesJoined
  <2> QED
    BY <1>1, <1>10, <2>3 DEF bytes
<1>15. ASSUME NEW k \in 1..Len(sent) + 1 PROVE StartOf(k)' = StartOf(k)
  <2>1. CASE k = 1
    BY <2>1 DEF StartOf
  <2>2. CASE k # 1
    <3>1. k - 1 \in 1..Len(ends)
      BY <1>4, <1>6, <2>2
    <3> QED
      BY <1>8, <2>2, <3>1 DEF StartOf
  <2> QED
    BY <2>1, <2>2
<1>16. Len(stream') = (StartOf(Len(sent) + 1))'
  <2>1. Len(sent') + 1 - 1 = Len(sent) + 1 /\ Len(sent') + 1 # 1
    BY <1>6
  <2>2. ends'[Len(sent) + 1] = Len(stream')
    BY <1>4, <1>8, <1>9
  <2> QED
    BY <2>1, <2>2 DEF StartOf
<1>17. ASSUME NEW k \in 1..Len(sent')
       PROVE  /\ LiesAt(stream', StartOf(k)', Encode(sent'[k]))
              /\ ends'[k] = StartOf(k)' + Len(Encode(sent'[k]))
  <2>1. CASE k = Len(sent) + 1
    <3>1. Len(stream) = StartOf(Len(sent) + 1) /\ k \in 1..Len(sent) + 1
      BY <1>6, <2>1 DEF StreamInv
    <3>2. StartOf(k)' = Len(stream) /\ sent'[k] = form
      BY <1>6, <1>15, <2>1, <3>1
    <3>3. ends'[k] = Len(stream) + Len(bytes)
      BY <1>4, <1>8, <2>1
    <3> QED
      BY <1>9, <3>2, <3>3 DEF bytes
  <2>2. CASE k # Len(sent) + 1
    <3>1. k \in 1..Len(sent) /\ k \in 1..Len(sent) + 1 /\ k \in 1..Len(ends)
      BY <1>4, <1>6, <2>2
    <3>2. sent'[k] = sent[k] /\ StartOf(k)' = StartOf(k) /\ ends'[k] = ends[k]
      BY <1>6, <1>8, <1>15, <3>1
    <3>3. LiesAt(stream, StartOf(k), Encode(sent[k])) /\ ends[k] = StartOf(k) + Len(Encode(sent[k]))
      BY <3>1 DEF StreamInv
    <3>4. Encode(sent[k]) \in Text
      <4>1. sent[k] \in Forms
        BY <1>4, <3>1
      <4> QED
        BY <4>1, EncodeIs DEF Layout
    <3> QED
      BY <1>9, <3>2, <3>3, <3>4
  <2> QED
    BY <2>1, <2>2
<1>18. StreamInv'
  BY <1>13, <1>14, <1>16, <1>17 DEF StreamInv
<1>19. \A k \in 1..Len(sent) : ends'[k] = ends[k]
  BY <1>4, <1>8
<1>20. ends'[Len(sent) + 1] = Len(stream) + Len(Encode(form))
  BY <1>4, <1>8 DEF bytes
<1> QED
  BY <1>1, <1>6, <1>10, <1>11, <1>15, <1>18, <1>19, <1>20

LEMMA ReceiveKeeps ==
    ASSUME TypeInv, StreamInv, Receive
    PROVE  /\ TypeInv' /\ StreamInv' /\ Gone' = Gone /\ Len(buf') \in Nat
           /\ \E n \in 1..Len(wire) :
                /\ Arrived' = Arrived + n
                /\ joined' => joined /\ ~CutsLineEnd(Arrived + n) /\ ~Overtakes(Arrived + n)
<1>1. PICK n \in 1..Len(wire) :
        /\ buf' = buf \o SubSeq(wire, 1, n)
        /\ wire' = SubSeq(wire, n + 1, Len(wire))
        /\ joined' = (joined /\ ~CutsLineEnd(Arrived + n) /\ ~Overtakes(Arrived + n))
  BY DEF Receive
<1>2. /\ pc' = "run" /\ UNCHANGED <<sent, stream, ends, ptr, stage, req, length, out, conn>>
  BY DEF Receive, parserVars
<1> DEFINE a == SubSeq(wire, 1, n)
           b == SubSeq(wire, n + 1, Len(wire))
<1>3. buf \in Text /\ wire \in Text /\ stream \in Text
  BY DEF TypeInv
<1>4. \A t \in Text : Len(t) \in Nat
  BY TextIs
<1>5. /\ a \in Text /\ Len(a) = n /\ \A m \in 1..n : a[m] = wire[m]
  <2>1. wire \in Seq(Bytes) /\ 1 \in 1..Len(wire) + 1 /\ n \in 0..Len(wire) /\ 1 <= n
    BY <1>3, <1>4, TextIs
  <2>2. /\ a \in Seq(Bytes) /\ Len(a) = n - 1 + 1
        /\ \A m \in 1..Len(a) : a[m] = wire[1 + m - 1]
    BY <2>1, SubSeqIs
  <2> HIDE DEF a
  <2>3. Len(a) = n /\ \A m \in 1..n : 1 + m - 1 = m
    BY <2>1, <2>2
  <2> QED
    BY <2>2, <2>3, TextIs
<1>6. /\ b \in Text /\ Len(b) = Len(wire) - n /\ \A m \in 1..Len(b) : b[m] = wire[n + m]
  <2>1. /\ wire \in Seq(Bytes) /\ n + 1 \in 1..Len(wire) + 1 /\ Len(wire) \in 0..Len(wire)
        /\ n \in 1..Len(wire) /\ Len(wire) \in Nat
    BY <1>3, <1>4, TextIs
  <2>2. /\ b \in Seq(Bytes)
        /\ Len(b) = IF n + 1 <= Len(wire) THEN Len(wire) - (n + 1) + 1 ELSE 0
        /\ \A m \in 1..Len(b) : b[m] = wire[n + 1 + m - 1]
    BY <2>1, SubSeqIs
  <2> HIDE DEF b
  <2>3. Len(b) = Len(wire) - n
    BY <2>1, <2>2
  <2>4. \A m \in 1..Len(b) : n + 1 + m - 1 = n + m
    BY <2>1, <2>3
  <2> QED
    BY <2>2, <2>3, <2>4, TextIs
<1> HIDE DEF a, b
<1>7. /\ buf' \in Text /\ Len(buf') = Len(buf) + n
  BY <1>1, <1>3, <1>5, Extended DEF a
<1>8. wire' \in Text /\ Len(wire') = Len(wire) - n
  BY <1>1, <1>6 DEF b
<1>9. Len(buf) \in Nat /\ Len(wire) \in Nat /\ Len(stream) \in Nat /\ n \in 1..Len(wire)
  BY <1>3, <1>4
<1>10. Arrived' = Arrived + n /\ Gone' = Gone
  BY <1>2, <1>7, <1>8, <1>9 DEF Arrived, Gone
<1>11. joined' \in BOOLEAN /\ (joined' => joined /\ ~CutsLineEnd(Arrived + n) /\ ~Overtakes(Arrived + n))
  BY <1>1, Zenon
<1>12. TypeInv'
  <2>1. ptr' \in 0..Len(buf')
    BY <1>2, <1>7, <1>9 DEF TypeInv, TypeOK
  <2> QED
    BY <1>2, <1>7, <1>8, <1>11, <2>1 DEF TypeInv, TypeOK
<1>13. LiesAt(stream, Gone, buf) /\ LiesAt(stream, Arrived, wire)
  BY DEF StreamInv
<1>14. LiesAt(stream, Arrived, a) /\ LiesAt(stream, Arrived + n, b)
  <2>1. Arrived \in Nat /\ Arrived + Len(wire) <= Len(stream)
        /\ \A m \in 1..Len(wire) : stream[Arrived + m] = wire[m]
    BY <1>13 DEF LiesAt
  <2>2. LiesAt(stream, Arrived, a)
    <3>1. \A m \in 1..Len(a) : m \in 1..Len(wire) /\ a[m] = wire[m]
      BY <1>5, <1>9
    <3>2. Arrived + Len(a) <= Len(stream)
      BY <1>5, <1>9, <2>1
    <3> QED
      BY <2>1, <3>1, <3>2 DEF LiesAt
  <2>3. ASSUME NEW m \in 1..Len(b) PROVE stream[Arrived + n + m] = b[m]
    <3>1. n + m \in 1..Len(wire) /\ Arrived + (n + m) = Arrived + n + m
      BY <1>6, <1>9, <2>1
    <3> QED
      BY <1>6, <2>1, <3>1
  <2>4. LiesAt(stream, Arrived + n, b)
    BY <1>6, <1>9, <2>1, <2>3 DEF LiesAt
  <2> QED
    BY <2>2, <2>4
<1>15. LiesAt(stream, Gone, buf \o a)
  <2>1. Gone \in Nat /\ Gone + Len(buf) = Arrived
    BY <1>9, <1>13 DEF Gone, LiesAt
  <2> QED
    BY <1>3, <1>5, <1>13, <1>14, <2>1, LiesJoined
<1>16. StreamInv'
  <2>1. LiesAt(stream', Gone', buf') /\ LiesAt(stream', Arrived', wire')
    BY <1>1, <1>2, <1>10, <1>14, <1>15 DEF a, b
  <2> QED
    BY <1>2, <2>1 DEF StreamInv, StartOf
<1>17. Len(buf') \in Nat
  BY <1>4, <1>7
<1> QED
  BY <1>10, <1>11, <1>12, <1>16, <1>17

LEMMA TailIs ==
    ASSUME NEW t \in Text, t # <<>>
    PROVE  /\ Tail(t) \in Text /\ Len(Tail(t)) = Len(t) - 1 /\ Len(t) \in Nat \ {0}
           /\ \A m \in 1..Len(t) - 1 : Tail(t)[m] = t[m + 1]
  BY TextIs

(* What get_chunk finds in the rest of the buffer is in it.                *)
LEMMA ChunkIsText ==
    ASSUME NEW t \in Text, NEW prefix, NEW stops
    PROVE  /\ GetChunk(t, prefix, stops).size \in 0..Len(t)
           /\ GetChunk(t, prefix, stops).value \in Text
  BY ChunkIn, TextIs

LEMMA KeyIs ==
    ASSUME NEW t \in Text
    PROVE  LineEndAfter(t, GetChunk(t, Blank, LineEnds).size)
             + GetChunk(t, Blank, LineEnds).size \in 0..Len(t)
<1> DEFINE s == GetChunk(t, Blank, LineEnds).size
<1>0. Len(t) \in Nat
  BY TextIs
<1>1. s \in 0..Len(t)
  BY ChunkIsText
<1> HIDE DEF s
<1>2. LineEndAfter(t, s) + s \in 0..Len(t)
  BY <1>0, <1>1 DEF LineEndAfter
<1> QED
  BY <1>2 DEF s

LEMMA AfterKeyIs ==
    ASSUME TypeInv
    PROVE  LET size == GetChunk(Rest, Blank, {":"}).size IN
           /\ AfterKey \in Text /\ Len(AfterKey) = Len(Rest) - size
           /\ \A m \in 1..Len(AfterKey) : AfterKey[m] = Rest[size + m]
<1> DEFINE size == GetChunk(Rest, Blank, {":"}).size
<1>1. Rest \in Seq(Bytes) /\ Len(Rest) \in Nat
  BY RestIs, TextIs
<1>2. size \in 0..Len(Rest)
  BY <1>1, ChunkIsText, TextIs
<1> HIDE DEF size
<1>3. AfterKey = SubSeq(Rest, size + 1, Len(Rest))
  BY DEF AfterKey, size
<1>4. size + 1 \in 1..Len(Rest) + 1 /\ Len(Rest) \in 0..Len(Rest)
  BY <1>1, <1>2
<1>5. /\ AfterKey \in Seq(Bytes)
      /\ Len(AfterKey) = IF size + 1 <= Len(Rest) THEN Len(Rest) - (size + 1) + 1 ELSE 0
      /\ \A m \in 1..Len(AfterKey) : AfterKey[m] = Rest[size + 1 + m - 1]
  BY <1>1, <1>3, <1>4, SubSeqIs
<1>6. Len(AfterKey) = Len(Rest) - size
  <2> DEFINE l == Len(Rest)
             a == Len(AfterKey)
  <2>1. /\ l \in Nat /\ size \in 0..l
        /\ a = IF size + 1 <= l THEN l - (size + 1) + 1 ELSE 0
    BY <1>1, <1>2, <1>5
  <2> HIDE DEF l, a
  <2>2. a = l - size
    BY <2>1
  <2> QED
    BY <2>2 DEF l, a
<1>7. \A m \in 1..Len(AfterKey) : size + 1 + m - 1 = size + m
  BY <1>1, <1>2, <1>6
<1>8. \A m \in 1..Len(AfterKey) : AfterKey[m] = Rest[size + m]
  BY <1>5, <1>7
<1> QED
  BY <1>5, <1>6, <1>8, TextIs DEF size

(* The part of the body in the buffer is no more than the buffer.          *)
LEMMA BodyPartIs ==
    ASSUME TypeInv, length # Absent
    PROVE  /\ BodyPart \in Text /\ Len(BodyPart) \in 0..Len(Rest)
           /\ length \in Nat
           /\ Len(BodyPart) = IF Len(Rest) < length THEN Len(Rest) ELSE length
           /\ Len(Rest) < length => BodyPart = Rest
           /\ \A m \in 1..Len(BodyPart) : BodyPart[m] = Rest[m]
<1>1. Rest \in Seq(Bytes) /\ Len(Rest) \in Nat /\ length \in Nat
  BY RestIs, TextIs DEF TypeInv, TypeOK
<1>2. CASE Len(Rest) < length
  BY <1>1, <1>2, TextIs DEF BodyPart
<1>3. CASE ~(Len(Rest) < length)
  <2>1. 1 \in 1..Len(Rest) + 1 /\ length \in 0..Len(Rest)
    BY <1>1, <1>3
  <2>2. /\ SubSeq(Rest, 1, length) \in Seq(Bytes)
        /\ Len(SubSeq(Rest, 1, length)) = IF 1 <= length THEN length - 1 + 1 ELSE 0
        /\ \A m \in 1..Len(SubSeq(Rest, 1, length)) :
             SubSeq(Rest, 1, length)[m] = Rest[1 + m - 1]
    BY <1>1, <2>1, SubSeqIs
  <2>3. BodyPart = SubSeq(Rest, 1, length)
    BY <1>3 DEF BodyPart
  <2>4. BodyPart \in Seq(Bytes) /\ Len(BodyPart) = length
    BY <1>1, <2>2, <2>3
  <2>5. \A m \in 1..length : 1 + m - 1 = m
    BY <1>1
  <2>6. \A m \in 1..Len(BodyPart) : BodyPart[m] = Rest[m]
    BY <2>2, <2>3, <2>4, <2>5
  <2> QED
    BY <1>1, <1>3, <2>1, <2>4, <2>6, TextIs
<1> QED
  BY <1>2, <1>3

(* Every step of a call moves on within the buffer, or drops what it has   *)
(* processed of it; only ReadPastEnd goes on behind it.                    *)
LEMMA ParseMoves ==
    ASSUME TypeInv, Parse, ~ReadPastEnd
    PROVE  ControlTypes' /\ (Moves \/ \E n : Drops(n))
<1> USE DEF inVars, parserVars
<1>1. /\ Rest \in Text /\ Len(Rest) = Len(buf) - ptr /\ Len(buf) \in Nat
      /\ ptr \in 0..Len(buf) /\ Len(Rest) \in 0..Len(buf)
  BY RestIs
<1>2. \A n \in 0..Len(Rest) : ptr + n \in 0..Len(buf)
  BY <1>1
<1>3. ControlTypes
  BY DEF TypeInv, TypeOK, ControlTypes
<1>4. CASE Method
  <2>1. GetChunk(Rest, Blank, {Blank}).size \in 0..Len(Rest)
    BY <1>1, ChunkIsText
  <2>2. Moves
    BY <1>2, <1>4, <2>1 DEF Method, Pass, Moves
  <2>3. ControlTypes'
    BY <1>3, <1>4 DEF Method, ControlTypes, In
  <2> QED
    BY <2>2, <2>3
<1>5. CASE Uri
  <2> DEFINE s == GetChunk(Rest, Blank, {"?", Blank}).size
  <2>1. s \in 0..Len(Rest)
    BY <1>1, ChunkIsText
  <2>2. s > 0 /\ ptr' = ptr + IF Rest[s] = "?" THEN s - 1 ELSE s
    BY <1>5 DEF Uri, Pass
  <2> HIDE DEF s
  <2>3. (IF Rest[s] = "?" THEN s - 1 ELSE s) \in 0..Len(Rest)
    BY <1>1, <2>1, <2>2
  <2>4. Moves
    BY <1>2, <1>5, <2>2, <2>3 DEF Uri, Moves
  <2>5. ControlTypes'
    BY <1>3, <1>5 DEF Uri, ControlTypes, In
  <2> QED
    BY <2>4, <2>5
<1>6. CASE Params
  <2> DEFINE s == GetChunk(Tail(Rest), "?", {Blank}).size
  <2>1. Rest # <<>>
    BY <1>6 DEF Params, AtMark
  <2>2. Tail(Rest) \in Text /\ Len(Tail(Rest)) = Len(Rest) - 1
    BY <1>1, <2>1, TailIs
  <2>3. s \in 0..Len(Tail(Rest))
    BY <2>2, ChunkIsText
  <2>4. ptr' = ptr + (s + 1)
    BY <1>6 DEF Params, Pass
  <2> HIDE DEF s
  <2>5. s + 1 \in 0..Len(Rest)
    BY <1>1, <2>2, <2>3
  <2>6. Moves
    BY <1>2, <1>6, <2>4, <2>5 DEF Params, Moves
  <2>7. ControlTypes'
    BY <1>3, <1>6 DEF Params, ControlTypes, In
  <2> QED
    BY <2>6, <2>7
<1>7. CASE UnsetSize
  <2>1. Moves
    BY <1>1, <1>7 DEF UnsetSize, Moves
  <2>2. ControlTypes'
    BY <1>3, <1>7 DEF UnsetSize, ControlTypes
  <2> QED
    BY <2>1, <2>2
<1>8. CASE Version
  <2> DEFINE s == GetChunk(Rest, Blank, LineEnds).size
  <2>1. LineEndAfter(Rest, s) + s \in 0..Len(Rest) /\ s \in 0..Len(Rest)
    BY <1>1, KeyIs, ChunkIsText
  <2>2. ptr' = ptr + (s + LineEndAfter(Rest, s))
    BY <1>8 DEF Version, Pass
  <2> HIDE DEF s
  <2>3. LineEndAfter(Rest, s) \in 0..1
    BY DEF LineEndAfter
  <2>4. s + LineEndAfter(Rest, s) \in 0..Len(Rest)
    BY <2>1, <2>3
  <2>5. Moves
    BY <1>2, <1>8, <2>2, <2>4 DEF Version, Moves
  <2>6. ControlTypes'
    BY <1>3, <1>8 DEF Version, WantsVersion, ControlTypes, In
  <2> QED
    BY <2>5, <2>6
<1>9. CASE Header
  <2> DEFINE k == GetChunk(Rest, Blank, {":"}).size
             c == GetChunk(AfterKey, Blank, LineEnds)
             s == c.size
  <2>1. k \in 0..Len(Rest)
    BY <1>1, ChunkIsText
  <2>2. AfterKey \in Text /\ Len(AfterKey) = Len(Rest) - k
    BY AfterKeyIs
  <2>3. LineEndAfter(AfterKey, s) + s \in 0..Len(AfterKey) /\ s \in 0..Len(AfterKey)
        /\ c.value \in Text
    BY <2>2, KeyIs, ChunkIsText
  <2>4. ptr' = ptr + (k + s + LineEndAfter(AfterKey, s))
    BY <1>9 DEF Header, Pass
  <2>5. LengthIn(c.value) \in Nat
    BY <2>3, LengthIs
  <2>6. ControlTypes'
    BY <1>3, <1>9, <2>5 DEF Header, ControlTypes, In
  <2> DEFINE e == LineEndAfter(AfterKey, s)
  <2>7. e \in 0..1
    BY DEF LineEndAfter
  <2>7a. e + s \in 0..Len(AfterKey) /\ s \in 0..Len(AfterKey)
    BY <2>3
  <2> HIDE DEF k, c, s, e
  <2>8. k + s + e \in 0..Len(Rest)
    BY <1>1, <2>1, <2>2, <2>7, <2>7a
  <2>9. Moves
    BY <1>2, <1>9, <2>4, <2>8 DEF Header, Moves, e
  <2> QED
    BY <2>6, <2>9
<1>10. CASE EndHeaders
  <2>1. Moves
    BY <1>1, <1>10 DEF EndHeaders, AtEmptyLine, Pass, Moves
  <2>2. ControlTypes'
    BY <1>3, <1>10 DEF EndHeaders, ControlTypes, In
  <2> QED
    BY <2>1, <2>2
<1>11. ASSUME NEW n, ReturnCall(n) PROVE pc' \in {"wait", "run"}
  BY <1>11 DEF ReturnCall
<1>12. CASE NeedMore
  <2>1. Drops(ptr)
    BY <1>1, <1>12 DEF NeedMore, Drops
  <2>2. ControlTypes'
    BY <1>3, <1>11, <1>12 DEF NeedMore, ControlTypes
  <2> QED
    BY <2>1, <2>2
<1>13. ASSUME NEW r, NEW n, Deliver(r, n) PROVE ControlTypes'
  BY <1>3, <1>11, <1>13 DEF Deliver, ControlTypes
<1>14. CASE EmptyBody
  <2>1. Drops(ptr)
    BY <1>1, <1>14 DEF EmptyBody, Deliver, Drops
  <2> QED
    BY <1>13, <1>14, <2>1 DEF EmptyBody
<1>15. CASE LastPart \/ MoreBody
  <2>1. length # Absent
    BY <1>15 DEF LastPart, MoreBody, NoBody
  <2>2. Len(BodyPart) \in 0..Len(Rest)
    BY <2>1, BodyPartIs
  <2>3. Drops(ptr + Len(BodyPart))
    BY <1>2, <1>15, <2>2 DEF LastPart, MoreBody, Deliver, Drops
  <2>4. ControlTypes'
    BY <1>3, <1>11, <1>13, <1>15 DEF LastPart, MoreBody, ControlTypes
  <2> QED
    BY <2>3, <2>4
<1> QED
  BY <1>4, <1>5, <1>6, <1>7, <1>8, <1>9, <1>10, <1>12, <1>14, <1>15 DEF Parse

LEMMA BytesKeep ==
    ASSUME TypeInv, StreamInv, [Next]_vars, ~ReadPastEnd
    PROVE  TypeInv' /\ StreamInv'
<1>1. CASE Parse
  <2>1. ControlTypes' /\ (Moves \/ \E n : Drops(n))
    BY <1>1, ParseMoves
  <2> QED
    BY <2>1, MovesKeeps, DropsKeeps
<1>2. CASE Send
  BY <1>2, SendKeeps
<1>3. CASE Receive
  BY <1>3, ReceiveKeeps
<1>4. CASE Flush \/ PeerCloses \/ UNCHANGED vars
  <2>1. UNCHANGED <<sent, stream, ends, wire, buf, ptr, stage, length, joined>>
        /\ pc' = pc /\ conn' \in {conn, "gone"}
    BY <1>4 DEF Flush, PeerCloses, vars, inVars, parserVars
  <2>2. Moves
    BY <2>1 DEF Moves, TypeInv, TypeOK
  <2>3. ControlTypes'
    BY <2>1 DEF ControlTypes, TypeInv, TypeOK
  <2> QED
    BY <2>2, <2>3, MovesKeeps
<1> QED
  BY <1>1, <1>2, <1>3, <1>4 DEF Next

LEMMA BytesInit == Init => TypeInv /\ StreamInv
<1> SUFFICES ASSUME Init PROVE TypeInv /\ StreamInv
  OBVIOUS
<1>1. <<>> \in Text /\ Len(<<>>) = 0
  BY TextIs
<1>2. TypeInv
  BY <1>1, BoundAssumption DEF Init, TypeInv, TypeOK, Absent
<1>2a. stream = <<>> /\ wire = <<>> /\ buf = <<>>
  BY DEF Init
<1>2b. Len(stream) = 0 /\ Len(wire) = 0 /\ Len(buf) = 0
  BY <1>1, <1>2a, Zenon
<1>3. Arrived = 0 /\ Gone = 0
  BY <1>2b DEF Arrived, Gone
<1>4. StreamInv
  BY <1>1, <1>3 DEF Init, StreamInv, LiesAt, StartOf
<1> QED
  BY <1>2, <1>4

LEMMA Loses == ASSUME TypeInv, ReadPastEnd PROVE LostInv'
<1>1. ptr = Len(buf)
  BY RestIs DEF ReadPastEnd
<1> QED
  BY <1>1 DEF ReadPastEnd, Pass, In, TypeInv, TypeOK, LostInv, parserVars

LEMMA LostKeeps == ASSUME LostInv, [Next]_vars PROVE LostInv'
<1>1. CASE Send
  <2>1. PICK form \in Forms : sent' = Append(sent, form)
    BY <1>1 DEF Send
  <2> QED
    BY <1>1, <2>1, BoundAssumption DEF Send, LostInv, TypeOK, parserVars
<1>2. CASE UNCHANGED vars
  BY <1>2 DEF vars, inVars, parserVars, LostInv, TypeOK
<1>3. ~Parse
  BY DEF LostInv, Parse, Method, Uri, Params, ReadPastEnd, Version,
         WantsVersion, Header, EndHeaders, NeedMore, UnsetSize, EmptyBody,
         LastPart, MoreBody, In
<1>4. ~Receive /\ ~Flush /\ ~PeerCloses
  BY DEF LostInv, Receive, Flush, PeerCloses
<1> QED
  BY <1>1, <1>2, <1>3, <1>4 DEF Next

(* The variables keep their types; in particular a call of process_data    *)
(* goes on behind the end of its buffer over nothing but the byte behind a *)
(* uri (http.cpp:172), whatever the bytes are and however they are cut:    *)
(* get_chunk finds nothing beyond the text it is given.                    *)
THEOREM StaysInBuffer == Spec => []TypeOK
<1> DEFINE Inv == (TypeInv /\ StreamInv) \/ LostInv
<1>1. Init => Inv
  BY BytesInit
<1>2. Inv /\ [Next]_vars => Inv'
  <2>1. ASSUME LostInv, [Next]_vars PROVE LostInv'
    BY <2>1, LostKeeps
  <2>2. ASSUME TypeInv, StreamInv, ReadPastEnd PROVE LostInv'
    BY <2>2, Loses
  <2>3. ASSUME TypeInv, StreamInv, [Next]_vars, ~ReadPastEnd
        PROVE  (TypeInv /\ StreamInv)'
    BY <2>3, BytesKeep
  <2> QED
    BY <2>1, <2>2, <2>3
<1>3. Inv => TypeOK
  BY DEF TypeInv, LostInv
<1> QED
  BY <1>1, <1>2, <1>3, PTL DEF Spec

-----------------------------------------------------------------------------
(* What the parser finds in the bytes of a request                         *)

(* The text is what follows p bytes of e, as far as both go.               *)
Sees(t, e, p) == \A m \in 1..Len(t) : p + m <= Len(e) => t[m] = e[p + m]

(* The search finds the token, and ends with character n, once that is     *)
(* there.                                                                  *)
Finds(t, prefix, stops, n, token) ==
    LET c == GetChunk(t, prefix, stops) IN
    IF n <= Len(t) THEN c.size = n /\ c.value = token ELSE c.size = 0

LEMMA TokenSeen ==
    ASSUME NEW e \in Text, NEW t \in Text, NEW p \in Nat, Sees(t, e, p),
           NEW b \in Nat, NEW token \in Text, NEW prefix, NEW stops,
           p + b + Len(token) + 1 <= Len(e),
           \A m \in 1..b : e[p + m] = prefix,
           e[p + b + 1] # prefix,
           \A m \in 1..Len(token) : e[p + b + m] = token[m] /\ token[m] \notin stops,
           e[p + b + Len(token) + 1] \in stops
    PROVE  Finds(t, prefix, stops, b + Len(token) + 1, token)
<1>1. Len(e) \in Nat /\ Len(t) \in Nat /\ Len(token) \in Nat
  BY TextIs
<1>2. ASSUME NEW m \in 1..Len(t)
      PROVE  /\ m <= b => t[m] = prefix
             /\ m = b + 1 => t[m] # prefix
             /\ b < m /\ m <= b + Len(token) => t[m] = token[m - b] /\ t[m] \notin stops
             /\ m = b + Len(token) + 1 => t[m] \in stops
  <2>1. m <= b + Len(token) + 1 => t[m] = e[p + m]
    BY <1>1 DEF Sees
  <2>2. m <= b => t[m] = prefix
    BY <1>1, <2>1
  <2>3. m = b + 1 => t[m] # prefix
    BY <1>1, <2>1
  <2>4. ASSUME b < m, m <= b + Len(token) PROVE t[m] = token[m - b] /\ t[m] \notin stops
    <3>1. m - b \in 1..Len(token) /\ p + b + (m - b) = p + m
      BY <1>1, <2>4
    <3> QED
      BY <2>1, <2>4, <3>1
  <2>5. m = b + Len(token) + 1 => t[m] \in stops
    BY <1>1, <2>1
  <2> QED
    BY <2>2, <2>3, <2>4, <2>5
<1>3. Shows(t, b, prefix, token, stops)
  BY <1>2 DEF Shows
<1>4. GetChunk(t, prefix, stops) =
        IF b + Len(token) + 1 <= Len(t)
        THEN [size |-> b + Len(token) + 1, value |-> token]
        ELSE [size |-> 0, value |-> <<>>]
  BY <1>3, TextIs, ChunkShown
<1> QED
  BY <1>4 DEF Finds

(* The numbers of a request                                                *)
LEMMA Numbers ==
    ASSUME NEW form \in Forms
    PROVE  /\ Encode(form) \in Text
           /\ Len(Encode(form)) = AtBody(form) + Len(BodyText(form))
           /\ Len(form.method) \in Nat \ {0} /\ Len(form.uri) \in Nat \ {0}
           /\ Len(form.version) \in Nat \ {0}
           /\ Len(QueryText(form)) \in Nat /\ Len(BodyText(form)) \in Nat
           /\ AtUri(form) \in Nat /\ AtParams(form) \in Nat /\ AtVersion(form) \in Nat
           /\ AtHeaders(form) \in Nat /\ AtBody(form) \in Nat
           /\ Len(Lines(form)) \in Nat
           /\ \A j \in 0..Len(Lines(form)) : AtLine(form, j) \in Nat
           /\ AtLine(form, 0) = AtHeaders(form)
<1>1. Encode(form) \in Text /\ Len(Encode(form)) = AtBody(form) + Len(BodyText(form))
  BY EncodeIs DEF Layout
<1>2. Len(form.method) \in Nat \ {0} /\ Len(form.version) \in Nat \ {0}
  BY FormIs, WordIs
<1>3. Len(form.uri) \in Nat \ {0}
  <2>1. form.uri \in Text /\ form.uri # <<>>
    BY FormIs DEF Without
  <2> QED
    BY <2>1, NotEmpty, TextIs
<1>4. \A t \in Text : Len(t) \in Nat
  BY TextIs
<1>5. Len(QueryText(form)) \in Nat /\ Len(BodyText(form)) \in Nat
  BY <1>4, QueryTextIs, BodyTextIs
<1>6. AtUri(form) \in Nat /\ AtParams(form) \in Nat /\ AtVersion(form) \in Nat
      /\ AtHeaders(form) \in Nat
  <2>1. AtUri(form) \in Nat
    BY <1>2 DEF AtUri
  <2>2. AtParams(form) \in Nat
    BY <1>3, <2>1 DEF AtParams
  <2>3. AtVersion(form) \in Nat
    BY <1>5, <2>2 DEF AtVersion
  <2>4. AtHeaders(form) \in Nat
    BY <1>2, <2>3 DEF AtHeaders
  <2> QED
    BY <2>1, <2>2, <2>3, <2>4
<1> DEFINE off == Off(LineTexts(form))
           n == Len(Lines(form))
<1>7. n \in Nat /\ off \in [0..n -> Nat] /\ off[0] = 0
  BY HeadersAre
<1> HIDE DEF off, n
<1>8. \A j \in 0..n : off[j] \in Nat
  BY <1>7
<1>9. ASSUME NEW j \in 0..n PROVE AtHeaders(form) + off[j] \in Nat
  BY <1>6, <1>8
<1>10. AtHeaders(form) + off[0] = AtHeaders(form)
  BY <1>6, <1>7
<1>11. \A j \in 0..n : AtLine(form, j) \in Nat
  BY <1>9 DEF AtLine, off
<1>12. AtLine(form, 0) = AtHeaders(form)
  BY <1>10 DEF AtLine, off
<1>13. AtLine(form, n) \in Nat
  BY <1>7, <1>11
<1>14. AtBody(form) \in Nat
  BY <1>13 DEF AtBody, n
<1> QED
  BY <1>1, <1>2, <1>3, <1>5, <1>6, <1>7, <1>11, <1>12, <1>14 DEF n

(* The method is found at the start of a request, the uri behind it.       *)
LEMMA MethodSeen ==
    ASSUME NEW form \in Forms, NEW t \in Text, Sees(t, Encode(form), 0)
    PROVE  Finds(t, Blank, {Blank}, AtUri(form), form.method)
<1> DEFINE e == Encode(form)
           w == form.method
<1>1. Layout(form, e)
  BY EncodeIs
<1>2. /\ e \in Text /\ Len(e) \in Nat /\ Len(w) \in Nat \ {0} /\ w \in Text
      /\ \A m \in 1..Len(w) : w[m] \notin Signs
  BY <1>1, FormIs, WordIs, TextIs DEF Layout
<1>3. LiesAt(e, 0, w) /\ LiesAt(e, Len(w), <<Blank>>)
  BY <1>1 DEF Layout
<1> HIDE DEF e, w
<1>4. Len(w) + 1 <= Len(e) /\ e[Len(w) + 1] = Blank
  BY <1>3, SignsAre DEF LiesAt
<1>5. \A m \in 1..Len(w) : e[m] = w[m]
  BY <1>2, <1>3 DEF LiesAt
<1>6. Blank \in Signs
  BY DEF Signs
<1>7. \A m \in 1..Len(w) : e[0 + 0 + m] = w[m] /\ w[m] \notin {Blank}
  BY <1>2, <1>5, <1>6
<1>8. e[0 + 0 + 1] # Blank
  BY <1>2, <1>7
<1>9. 0 + 0 + Len(w) + 1 <= Len(e) /\ e[0 + 0 + Len(w) + 1] \in {Blank}
  BY <1>2, <1>4
<1>10. Finds(t, Blank, {Blank}, 0 + Len(w) + 1, w)
  <2>1. \A m \in 1..0 : e[0 + m] = Blank
    OBVIOUS
  <2>2. Sees(t, e, 0)
    BY DEF e
  <2> QED
    BY <1>2, <1>7, <1>8, <1>9, <2>1, <2>2, TokenSeen, ZenonT(60)
<1>11. 0 + Len(w) + 1 = AtUri(form)
  BY <1>2 DEF AtUri, w
<1> QED
  BY <1>10, <1>11 DEF w

LEMMA UriSeen ==
    ASSUME NEW form \in Forms, NEW t \in Text, Sees(t, Encode(form), AtUri(form))
    PROVE  /\ Finds(t, Blank, {"?", Blank}, Len(form.uri) + 1, form.uri)
           /\ Len(form.uri) + 1 <= Len(t) =>
                (t[Len(form.uri) + 1] = "?" <=> form.query # <<>>)
<1> DEFINE e == Encode(form)
           w == form.uri
           q == QueryText(form)
           p == AtUri(form)
<1>1. Layout(form, e)
  BY EncodeIs
<1>2. /\ e \in Text /\ w \in Text /\ q \in Text
      /\ p \in Nat /\ Len(e) \in Nat /\ Len(w) \in Nat \ {0} /\ Len(q) \in Nat
      /\ \A m \in 1..Len(w) : w[m] \notin {Blank, "?"}
  <2>1. w \in Without({Blank, "?"})
    BY FormIs
  <2>2. w \in Text /\ \A m \in 1..Len(w) : w[m] \notin {Blank, "?"}
    BY <2>1, WithoutIs
  <2> QED
    BY <2>2, Numbers, TextIs, QueryTextIs
<1>3. LiesAt(e, p, w) /\ LiesAt(e, p + Len(w), q) /\ LiesAt(e, p + Len(w) + Len(q), <<Blank>>)
  BY <1>1 DEF Layout, AtParams
<1>4. form.query # <<>> => Len(q) >= 1 /\ q[1] = "?"
  <2>1. ASSUME form.query # <<>> PROVE Len(q) >= 1 /\ q[1] = "?"
    <3>1. q = <<"?">> \o PairsText(form.query, <<"&">>)
      BY <2>1 DEF QueryText
    <3>2. PairsText(form.query, <<"&">>) \in Text
      BY FormIs, QueryIs, WithoutIs
    <3> HIDE DEF q
    <3>3. LiesAt(q, 0, <<"?">>)
      BY <3>1, <3>2, SignsAre, Extended
    <3> QED
      BY <1>2, <3>3, SignsAre DEF LiesAt
  <2> QED
    BY <2>1
<1>5. form.query = <<>> => Len(q) = 0
  <2>1. form.query = <<>> => q = <<>>
    BY DEF QueryText
  <2> QED
    BY <2>1
<1> HIDE DEF e, w, q, p
<1>6. p + Len(w) + 1 <= Len(e)
      /\ e[p + Len(w) + 1] = IF form.query = <<>> THEN Blank ELSE "?"
  <2>1. p + Len(w) + Len(q) + 1 <= Len(e) /\ e[p + Len(w) + Len(q) + 1] = Blank
    BY <1>3, SignsAre DEF LiesAt
  <2>2. \A m \in 1..Len(q) : e[p + Len(w) + m] = q[m]
    BY <1>3 DEF LiesAt
  <2>3. CASE form.query = <<>>
    BY <1>2, <1>5, <2>1, <2>3
  <2>4. CASE form.query # <<>>
    BY <1>2, <1>4, <2>1, <2>2, <2>4
  <2> QED
    BY <2>3, <2>4
<1>7. \A m \in 1..Len(w) : e[p + m] = w[m]
  BY <1>3 DEF LiesAt
<1>8. Sees(t, e, p)
  BY DEF e, p
<1>9. /\ \A m \in 1..Len(w) : e[p + 0 + m] = w[m] /\ w[m] \notin {"?", Blank}
      /\ p + 0 + Len(w) + 1 <= Len(e) /\ e[p + 0 + Len(w) + 1] \in {"?", Blank}
  BY <1>2, <1>6, <1>7
<1>10. e[p + 0 + 1] # Blank
  BY <1>2, <1>9
<1>11. Finds(t, Blank, {"?", Blank}, 0 + Len(w) + 1, w)
  <2>1. \A m \in 1..0 : e[p + m] = Blank
    OBVIOUS
  <2> QED
    BY <1>2, <1>8, <1>9, <1>10, <2>1, TokenSeen
<1>12. Finds(t, Blank, {"?", Blank}, Len(w) + 1, w)
  BY <1>2, <1>11
<1>13. ASSUME Len(w) + 1 <= Len(t)
       PROVE  t[Len(w) + 1] = "?" <=> form.query # <<>>
  <2>1. Len(w) + 1 \in 1..Len(t) /\ p + (Len(w) + 1) = p + Len(w) + 1
    BY <1>2, <1>13, TextIs
  <2>2. t[Len(w) + 1] = e[p + Len(w) + 1]
    BY <1>6, <1>8, <2>1 DEF Sees
  <2> QED
    BY <1>6, <2>2, SignsDiffer
<1> QED
  BY <1>12, <1>13 DEF w

(* The text of the parameters is found behind the question mark.           *)
LEMMA ParamsSeen ==
    ASSUME NEW form \in Forms, NEW t \in Text, form.query # <<>>,
           Sees(t, Encode(form), AtParams(form) + 1)
    PROVE  LET text == PairsText(form.query, <<"&">>) IN
           /\ Finds(t, "?", {Blank}, Len(text) + 1, text)
           /\ text \in Text /\ Len(text) \in Nat
           /\ Len(QueryText(form)) = Len(text) + 1
           /\ Encode(form)[AtParams(form) + 1] = "?"
           /\ \A m \in 1..Len(text) : Encode(form)[AtParams(form) + 1 + m] = text[m]
<1> DEFINE e == Encode(form)
           w == PairsText(form.query, <<"&">>)
           q == QueryText(form)
           p == AtParams(form)
<1>1. Layout(form, e)
  BY EncodeIs
<1>2. p \in Nat /\ e \in Text /\ Len(e) \in Nat
  BY <1>1, Numbers, TextIs DEF Layout
<1>3. w \in Without(PairSigns \ {"&"}) /\ (w # <<>> => w[1] \notin {Blank, "?"})
  BY FormIs, QueryIs
<1>4. w \in Text /\ Len(w) \in Nat /\ \A m \in 1..Len(w) : w[m] # Blank
  <2>1. Blank \in PairSigns \ {"&"}
    BY SignsDiffer DEF PairSigns
  <2>2. w \in Text /\ Len(w) \in Nat /\ \A m \in 1..Len(w) : w[m] \notin PairSigns \ {"&"}
    BY <1>3, WithoutIs
  <2> HIDE DEF w
  <2> QED
    BY <2>1, <2>2
<1>5. q = <<"?">> \o w
  BY DEF QueryText
<1>6. LiesAt(e, p, q) /\ LiesAt(e, p + Len(q), <<Blank>>)
  BY <1>1 DEF Layout
<1> HIDE DEF e, w, q, p
<1>7. /\ Len(q) = 1 + Len(w) /\ q[1] = "?"
      /\ \A m \in 1..Len(w) : q[1 + m] = w[m]
  <2>1. LiesAt(q, 0, <<"?">>) /\ LiesAt(q, 1, w) /\ Len(q) = 1 + Len(w)
    BY <1>4, <1>5, SignsAre, Extended
  <2>2. q[1] = "?"
    BY <2>1, SignsAre DEF LiesAt
  <2>3. \A m \in 1..Len(w) : q[1 + m] = w[m]
    BY <2>1 DEF LiesAt
  <2> QED
    BY <2>1, <2>2, <2>3
<1>8. /\ p + Len(q) + 1 <= Len(e) /\ e[p + Len(q) + 1] = Blank
      /\ \A m \in 1..Len(q) : e[p + m] = q[m]
  <2>1. p + Len(q) + 1 <= Len(e) /\ e[p + Len(q) + 1] = Blank
    BY <1>6, SignsAre DEF LiesAt
  <2>2. \A m \in 1..Len(q) : e[p + m] = q[m]
    BY <1>6 DEF LiesAt
  <2> QED
    BY <2>1, <2>2
<1>9. ASSUME NEW m \in 1..Len(w) PROVE e[p + 1 + m] = w[m]
  <2>1. 1 + m \in 1..Len(q) /\ p + 1 + m = p + (1 + m)
    BY <1>2, <1>4, <1>7
  <2> QED
    BY <1>7, <1>8, <2>1
<1>10. p + 1 + Len(w) + 1 <= Len(e) /\ e[p + 1 + Len(w) + 1] = Blank
  <2>1. p + 1 + Len(w) + 1 = p + Len(q) + 1
    BY <1>2, <1>4, <1>7
  <2> QED
    BY <1>8, <2>1
<1>11. e[p + 1 + 1] # "?"
  <2>1. CASE w = <<>>
    <3>1. Len(w) = 0
      BY <2>1
    <3>2. p + 1 + Len(w) + 1 = p + 1 + 1
      BY <1>2, <3>1
    <3> QED
      BY <1>10, <3>2, SignsDiffer
  <2>2. CASE w # <<>>
    <3>1. 1 \in 1..Len(w)
      BY <1>4, <2>2, NotEmpty, TextIs
    <3> QED
      BY <1>3, <1>9, <2>2, <3>1
  <2> QED
    BY <2>1, <2>2
<1>12. Finds(t, "?", {Blank}, 0 + Len(w) + 1, w)
  <2> DEFINE r == p + 1
  <2>1. r \in Nat /\ Sees(t, e, r)
    BY <1>2 DEF e, p
  <2>2. /\ e[r + 1] # "?" /\ r + Len(w) + 1 <= Len(e) /\ e[r + Len(w) + 1] = Blank
        /\ \A m \in 1..Len(w) : e[r + m] = w[m]
    BY <1>9, <1>10, <1>11
  <2> HIDE DEF r
  <2>3. /\ e[r + 0 + 1] # "?" /\ r + 0 + Len(w) + 1 <= Len(e)
        /\ e[r + 0 + Len(w) + 1] \in {Blank}
        /\ \A m \in 1..Len(w) : e[r + 0 + m] = w[m] /\ w[m] \notin {Blank}
    BY <1>4, <2>1, <2>2
  <2>4. \A m \in 1..0 : e[r + m] = "?"
    OBVIOUS
  <2> QED
    BY <1>2, <1>4, <2>1, <2>3, <2>4, TokenSeen
<1>13. Finds(t, "?", {Blank}, Len(w) + 1, w)
  BY <1>4, <1>12
<1>14. Len(q) = Len(w) + 1 /\ e[p + 1] = "?"
  BY <1>4, <1>7, <1>8
<1> QED
  BY <1>4, <1>9, <1>13, <1>14 DEF e, w, q, p

LEMMA VersionSeen ==
    ASSUME NEW form \in Forms, NEW t \in Text, Sees(t, Encode(form), AtVersion(form))
    PROVE  LET n == Len(form.version) IN
           /\ Finds(t, Blank, LineEnds, n + 1, form.version)
           /\ AtHeaders(form) = AtVersion(form) + n + 2
           /\ AtHeaders(form) <= Len(Encode(form))
           /\ Encode(form)[AtVersion(form) + 1] \notin Signs
           /\ Encode(form)[AtVersion(form) + n] \notin Signs
           /\ Encode(form)[AtVersion(form) + n + 1] = "CR"
           /\ Encode(form)[AtVersion(form) + n + 2] = "LF"
<1> DEFINE e == Encode(form)
           w == form.version
           p == AtVersion(form)
<1>1. Layout(form, e)
  BY EncodeIs
<1>2. p \in Nat /\ e \in Text /\ Len(e) \in Nat
  BY <1>1, Numbers, TextIs DEF Layout
<1>3. w \in Text /\ Len(w) \in Nat \ {0} /\ \A m \in 1..Len(w) : w[m] \notin Signs
  BY FormIs, WordIs
<1>4. LiesAt(e, p, w) /\ LiesAt(e, p + Len(w), <<"CR", "LF">>)
  BY <1>1 DEF Layout
<1>5. AtHeaders(form) = p + Len(w) + 2
  BY DEF AtHeaders
<1>6. Sees(t, e, p)
  OBVIOUS
<1> HIDE DEF e, w, p
<1>7. /\ p + Len(w) + 2 <= Len(e)
      /\ e[p + Len(w) + 1] = "CR" /\ e[p + Len(w) + 2] = "LF"
  <2>1. Len(<<"CR", "LF">>) = 2
    BY SignsAre
  <2>2. 1 \in 1..Len(<<"CR", "LF">>) /\ 2 \in 1..Len(<<"CR", "LF">>)
    BY <2>1
  <2> QED
    BY <1>4, <2>1, <2>2 DEF LiesAt
<1>8. \A m \in 1..Len(w) : e[p + m] = w[m]
  BY <1>4 DEF LiesAt
<1>9. Blank \in Signs /\ LineEnds \subseteq Signs /\ "CR" \in LineEnds
  BY DEF Signs, LineEnds
<1>10. e[p + 1] \notin Signs /\ e[p + Len(w)] \notin Signs
  BY <1>3, <1>8
<1>11. Finds(t, Blank, LineEnds, Len(w) + 1, w)
  <2>1. /\ e[p + 0 + 1] # Blank /\ p + 0 + Len(w) + 1 <= Len(e)
        /\ e[p + 0 + Len(w) + 1] \in LineEnds
        /\ \A m \in 1..Len(w) : e[p + 0 + m] = w[m] /\ w[m] \notin LineEnds
    BY <1>2, <1>3, <1>7, <1>8, <1>9, <1>10
  <2>2. \A m \in 1..0 : e[p + m] = Blank
    OBVIOUS
  <2>3. Finds(t, Blank, LineEnds, 0 + Len(w) + 1, w)
    BY <1>2, <1>3, <1>6, <2>1, <2>2, TokenSeen
  <2> QED
    BY <1>3, <2>3
<1>12. AtHeaders(form) <= Len(e)
  BY <1>5, <1>7
<1> QED
  BY <1>5, <1>7, <1>10, <1>11, <1>12 DEF e, w, p

(* A header line, of which the key is found first, and then the value      *)
LEMMA LineSeen ==
    ASSUME NEW form \in Forms, NEW j \in 1..Len(Lines(form))
    PROVE  LET key == Lines(form)[j][1]
               value == Lines(form)[j][2]
               e == Encode(form)
               p == AtLine(form, j - 1)
               q == p + Len(key) + 1
           IN
           /\ p \in Nat /\ q \in Nat /\ Len(key) \in Nat \ {0} /\ Len(value) \in Nat
           /\ key \in Word /\ value \in Text
           /\ AtLine(form, j) = q + Len(value) + 3
           /\ AtLine(form, j) <= Len(e)
           /\ \A t \in Text : Sees(t, e, p) => Finds(t, Blank, {":"}, Len(key) + 1, key)
           /\ \A t \in Text : Sees(t, e, q) => Finds(t, Blank, LineEnds, Len(value) + 2, value)
           /\ e[p + 1] \notin LineEnds
           /\ e[q + Len(value) + 1] \notin LineEnds
           /\ e[q + Len(value) + 2] = "CR" /\ e[q + Len(value) + 3] = "LF"
<1> DEFINE e == Encode(form)
           key == Lines(form)[j][1]
           value == Lines(form)[j][2]
           h == HeaderLine(key, value)
           p == AtLine(form, j - 1)
           q == p + Len(key) + 1
           off == Off(LineTexts(form))
<1>1. Layout(form, e)
  BY EncodeIs
<1>2. /\ key \in Word /\ value \in Without(LineEnds) /\ (value # <<>> => value[1] # Blank)
      /\ j - 1 \in 0..Len(Lines(form)) /\ Len(Lines(form)) \in Nat
  BY LinesAre
<1>3. p \in Nat /\ e \in Text /\ Len(e) \in Nat
  <2>1. p \in Nat
    BY <1>2, Numbers, Zenon
  <2>2. e \in Text
    BY <1>1 DEF Layout
  <2> QED
    BY <2>1, <2>2, TextIs
<1>4. key \in Text /\ Len(key) \in Nat \ {0} /\ \A m \in 1..Len(key) : key[m] \notin Signs
  BY <1>2, WordIs
<1>5. value \in Text /\ Len(value) \in Nat /\ \A m \in 1..Len(value) : value[m] \notin LineEnds
  BY <1>2, WithoutIs
<1>6. LineTexts(form)[j] = h
  BY LineTextsAre
<1>7. LiesAt(e, p, h)
  BY <1>1, <1>6 DEF Layout
<1>8. LineLayout(key, value)
  BY <1>4, <1>5, HeaderLineIs
<1>9. /\ Len(h) = Len(key) + 2 + Len(value) + 2 /\ Len(h) \in Nat
      /\ LiesAt(h, 0, key) /\ LiesAt(h, Len(key), <<":", Blank>>)
      /\ LiesAt(h, Len(key) + 2, value)
      /\ LiesAt(h, Len(key) + 2 + Len(value), <<"CR", "LF">>)
  <2>1. h \in Text
    BY <1>8 DEF LineLayout
  <2>2. Len(h) \in Nat
    BY <2>1, TextIs
  <2> QED
    BY <1>8, <2>2 DEF LineLayout
<1>10. AtLine(form, j) = p + Len(h) 
  <2>1. off[j] = off[j - 1] + Len(LineTexts(form)[j]) /\ off[j - 1] \in Nat
    BY <1>2, HeadersAre
  <2>2. AtHeaders(form) \in Nat
    BY Numbers
  <2>3. off[j] = off[j - 1] + Len(h)
    BY <1>6, <2>1, Zenon
  <2> DEFINE x == off[j - 1]
             y == off[j]
             n == Len(h)
  <2>3a. x \in Nat /\ n \in Nat /\ y = x + n
    BY <1>9, <2>1, <2>3
  <2> HIDE DEF x, y, n
  <2>4. AtHeaders(form) + y = AtHeaders(form) + x + n
    BY <2>2, <2>3a
  <2> QED
    BY <2>4 DEF AtLine, off, x, y, n
<1>11. key \in Word
  BY <1>2
<1>12. value # <<>> => value[1] # Blank
  BY <1>2
<1> HIDE DEF e, key, value, h, p, off
<1>13. Len(<<":", Blank>>) = 2 /\ Len(<<"CR", "LF">>) = 2
  BY SignsAre
<1>14. /\ p + Len(h) <= Len(e) /\ \A m \in 1..Len(h) : e[p + m] = h[m]
  BY <1>7 DEF LiesAt
<1>15. /\ \A m \in 1..Len(key) : h[m] = key[m]
       /\ h[Len(key) + 1] = ":" /\ h[Len(key) + 2] = Blank
       /\ \A m \in 1..Len(value) : h[Len(key) + 2 + m] = value[m]
       /\ h[Len(key) + 2 + Len(value) + 1] = "CR"
       /\ h[Len(key) + 2 + Len(value) + 2] = "LF"
  <2>1. \A m \in 1..Len(key) : h[m] = key[m]
    BY <1>4, <1>9 DEF LiesAt
  <2>2. h[Len(key) + 1] = ":" /\ h[Len(key) + 2] = Blank
    <3>1. 1 \in 1..Len(<<":", Blank>>) /\ 2 \in 1..Len(<<":", Blank>>)
      BY <1>13
    <3> QED
      BY <1>9, <3>1 DEF LiesAt
  <2>3. \A m \in 1..Len(value) : h[Len(key) + 2 + m] = value[m]
    BY <1>9 DEF LiesAt
  <2>4. h[Len(key) + 2 + Len(value) + 1] = "CR" /\ h[Len(key) + 2 + Len(value) + 2] = "LF"
    <3>1. 1 \in 1..Len(<<"CR", "LF">>) /\ 2 \in 1..Len(<<"CR", "LF">>)
      BY <1>13
    <3> QED
      BY <1>9, <3>1 DEF LiesAt
  <2> QED
    BY <2>1, <2>2, <2>3, <2>4
<1>16. /\ \A m \in 1..Len(key) : e[p + m] = key[m]
       /\ e[p + Len(key) + 1] = ":" /\ e[q + 1] = Blank
       /\ q \in Nat
       /\ \A m \in 1..Len(value) : e[q + 1 + m] = value[m]
       /\ e[q + Len(value) + 2] = "CR" /\ e[q + Len(value) + 3] = "LF"
       /\ q + Len(value) + 3 <= Len(e)
  <2>1. \A m \in 1..Len(key) : e[p + m] = key[m]
    BY <1>4, <1>5, <1>9, <1>14, <1>15
  <2>2. /\ e[p + (Len(key) + 1)] = ":" /\ e[p + (Len(key) + 2)] = Blank
        /\ e[p + (Len(key) + 2 + Len(value) + 1)] = "CR"
        /\ e[p + (Len(key) + 2 + Len(value) + 2)] = "LF"
    BY <1>4, <1>5, <1>9, <1>14, <1>15
  <2>3. ASSUME NEW m \in 1..Len(value) PROVE e[q + 1 + m] = value[m]
    <3>1. Len(key) + 2 + m \in 1..Len(h)
      BY <1>4, <1>5, <1>9
    <3>2. q + 1 + m = p + (Len(key) + 2 + m)
      BY <1>3, <1>4, <1>5
    <3> QED
      BY <1>14, <1>15, <3>1, <3>2
  <2>4. /\ p + Len(key) + 1 = p + (Len(key) + 1) /\ q + 1 = p + (Len(key) + 2)
        /\ q + Len(value) + 2 = p + (Len(key) + 2 + Len(value) + 1)
        /\ q + Len(value) + 3 = p + (Len(key) + 2 + Len(value) + 2)
        /\ q + Len(value) + 3 = p + Len(h) /\ q \in Nat
    BY <1>3, <1>4, <1>5, <1>9
  <2> HIDE DEF q
  <2> QED
    BY <1>14, <2>1, <2>2, <2>3, <2>4
<1>17. AtLine(form, j) = q + Len(value) + 3
  BY <1>3, <1>4, <1>5, <1>9, <1>10
<1>18. Blank \in Signs /\ LineEnds \subseteq Signs /\ "CR" \in LineEnds /\ ":" \in Signs
       /\ Blank \notin LineEnds
  BY SignsDiffer DEF Signs, LineEnds
<1>19. ASSUME NEW t \in Text, Sees(t, e, p)
       PROVE  Finds(t, Blank, {":"}, Len(key) + 1, key)
  <2>1. /\ p + 0 + Len(key) + 1 <= Len(e)
        /\ e[p + 0 + Len(key) + 1] \in {":"}
    BY <1>3, <1>4, <1>5, <1>16
  <2>2. \A m \in 1..Len(key) : e[p + 0 + m] = key[m] /\ key[m] \notin {":"}
    BY <1>3, <1>4, <1>16, <1>18
  <2>3. e[p + 0 + 1] # Blank
    BY <1>4, <1>18, <2>2
  <2>4. \A m \in 1..0 : e[p + m] = Blank
    OBVIOUS
  <2>5. Finds(t, Blank, {":"}, 0 + Len(key) + 1, key)
    BY <1>3, <1>4, <1>19, <2>1, <2>2, <2>3, <2>4, TokenSeen
  <2> QED
    BY <1>4, <2>5
<1>20. ASSUME NEW t \in Text, Sees(t, e, q)
       PROVE  Finds(t, Blank, LineEnds, Len(value) + 2, value)
  <2> HIDE DEF q
  <2>1. /\ q + 1 + Len(value) + 1 <= Len(e)
        /\ e[q + 1 + Len(value) + 1] \in LineEnds
    <3>1. q + 1 + Len(value) + 1 = q + Len(value) + 2
      BY <1>5, <1>16
    <3> QED
      BY <1>3, <1>5, <1>16, <1>18, <3>1
  <2>2. \A m \in 1..Len(value) : e[q + 1 + m] = value[m] /\ value[m] \notin LineEnds
    BY <1>5, <1>16
  <2>3. e[q + 1 + 1] # Blank
    <3>1. CASE value = <<>>
      <4>1. Len(value) = 0
        BY <3>1
      <4>2. q + 1 + 1 = q + 1 + Len(value) + 1
        BY <1>16, <4>1
      <4> QED
        BY <1>18, <2>1, <4>2
    <3>2. CASE value # <<>>
      <4>1. 1 \in 1..Len(value)
        BY <1>5, <3>2, NotEmpty, TextIs
      <4> QED
        BY <1>12, <2>2, <3>2, <4>1
    <3> QED
      BY <3>1, <3>2
  <2>4. \A m \in 1..1 : e[q + m] = Blank
    BY <1>16
  <2>5. Finds(t, Blank, LineEnds, 1 + Len(value) + 1, value)
    BY <1>3, <1>5, <1>16, <1>20, <2>1, <2>2, <2>3, <2>4, TokenSeen, ZenonT(60)
  <2>6. 1 + Len(value) + 1 = Len(value) + 2
    BY <1>5
  <2> QED
    BY <2>5, <2>6
<1>21. e[p + 1] \notin LineEnds
  <2>1. 1 \in 1..Len(key)
    BY <1>4
  <2>2. e[p + 1] = key[1] /\ key[1] \notin Signs
    BY <1>4, <1>16, <2>1
  <2> QED
    BY <1>18, <2>2
<1>22. e[q + Len(value) + 1] \notin LineEnds
  <2> HIDE DEF q
  <2>1. CASE value = <<>>
    <3>1. Len(value) = 0
      BY <2>1
    <3>2. q + Len(value) + 1 = q + 1
      BY <1>16, <3>1
    <3> QED
      BY <1>16, <1>18, <3>2
  <2>2. CASE value # <<>>
    <3>1. Len(value) \in 1..Len(value)
      BY <1>5, <2>2, NotEmpty, TextIs
    <3>2. q + Len(value) + 1 = q + 1 + Len(value)
      BY <1>5, <1>16
    <3> QED
      BY <1>5, <1>16, <3>1, <3>2
  <2> QED
    BY <2>1, <2>2
<1>23. AtLine(form, j) <= Len(e)
  BY <1>16, <1>17
<1> QED
  BY <1>3, <1>4, <1>5, <1>11, <1>16, <1>17, <1>19, <1>20, <1>21, <1>22, <1>23
     DEF e, key, value, p

(* The empty line and the body                                             *)
LEMMA EndSeen ==
    ASSUME NEW form \in Forms
    PROVE  LET e == Encode(form)
               p == AtLine(form, Len(Lines(form)))
           IN
           /\ p \in Nat /\ AtBody(form) = p + 2 /\ AtBody(form) <= Len(e)
           /\ e[p + 1] = "CR" /\ e[p + 2] = "LF"
           /\ \A m \in 1..Len(BodyText(form)) : e[AtBody(form) + m] = BodyText(form)[m]
<1> DEFINE e == Encode(form)
           p == AtLine(form, Len(Lines(form)))
<1>1. LiesAt(e, p, <<"CR", "LF">>) /\ LiesAt(e, AtBody(form), BodyText(form))
  BY EncodeIs DEF Layout
<1>2. AtBody(form) = p + 2
  BY DEF AtBody
<1> HIDE DEF e, p
<1>3. 1 \in 1..Len(<<"CR", "LF">>) /\ 2 \in 1..Len(<<"CR", "LF">>)
  BY SignsAre
<1>4. p \in Nat /\ e[p + 1] = "CR" /\ e[p + 2] = "LF"
  BY <1>1, <1>3 DEF LiesAt
<1>5. \A m \in 1..Len(BodyText(form)) : e[AtBody(form) + m] = BodyText(form)[m]
  BY <1>1 DEF LiesAt
<1>6. p + 2 <= Len(e)
  BY <1>1, SignsAre DEF LiesAt
<1> QED
  BY <1>2, <1>4, <1>5, <1>6 DEF e, p

LEMMA SeesBehind ==
    ASSUME NEW t \in Text, NEW u \in Text, NEW e, NEW p \in Nat, NEW s \in Nat,
           Sees(t, e, p), Len(u) = Len(t) - s,
           \A m \in 1..Len(u) : u[m] = t[s + m]
    PROVE  Sees(u, e, p + s)
<1>1. Len(t) \in Nat /\ Len(u) \in Nat
  BY TextIs
<1> SUFFICES ASSUME NEW m \in 1..Len(u), p + s + m <= Len(e)
             PROVE  u[m] = e[p + s + m]
  BY DEF Sees
<1>2. s + m \in 1..Len(t) /\ p + (s + m) = p + s + m
  BY <1>1
<1> QED
  BY <1>2 DEF Sees

-----------------------------------------------------------------------------
(* The steps of a call                                                     *)

(* The parser has passed p bytes of this request, the first that was not   *)
(* handed on.                                                              *)
At(form, p) ==
    /\ TypeInv /\ StreamInv /\ PieceInv
    /\ Len(out) \in 0..Len(sent) /\ K <= Len(sent) /\ form = sent[K]
    /\ p \in Nat /\ Pos = StartOf(K) + p

LEMMA AtIs ==
    ASSUME NEW form, NEW p, At(form, p)
    PROVE  /\ form \in Forms /\ K \in 1..Len(sent) /\ p \in Nat
           /\ Rest \in Text /\ Len(Rest) \in Nat
           /\ Sees(Rest, Encode(form), p)
           /\ StartOf(K) \in Nat /\ Arrived = StartOf(K) + p + Len(Rest)
           /\ Encode(form) \in Text /\ Len(Encode(form)) \in Nat
           /\ ends[K] = StartOf(K) + Len(Encode(form))
           /\ LiesAt(stream, StartOf(K), Encode(form))
           /\ Arrived <= Len(stream) /\ Len(stream) \in Nat
<1> DEFINE e == Encode(form)
           o == StartOf(K)
<1>1. /\ TypeInv /\ StreamInv /\ p \in Nat /\ Pos = o + p /\ form = sent[K]
      /\ Len(out) \in 0..Len(sent) /\ K <= Len(sent)
  BY DEF At
<1>2. /\ sent \in Seq(Forms) /\ buf \in Text /\ wire \in Text /\ stream \in Text
  BY <1>1 DEF TypeInv, TypeOK
<1>3. K \in 1..Len(sent) /\ form \in Forms
  BY <1>1, <1>2 DEF K
<1>4. LiesAt(stream, o, e) /\ ends[K] = o + Len(e)
  BY <1>1, <1>3 DEF StreamInv
<1>5. e \in Text /\ Len(e) \in Nat
  BY <1>3, Numbers, TextIs
<1>6. Len(buf) \in Nat /\ Len(wire) \in Nat /\ Len(stream) \in Nat
  BY <1>2, TextIs
<1>7. /\ Rest \in Text /\ Len(Rest) = Len(buf) - ptr /\ ptr \in 0..Len(buf)
      /\ \A m \in 1..Len(Rest) : Rest[m] = buf[ptr + m]
  BY <1>1, RestIs
<1>8. LiesAt(stream, Gone, buf)
  BY <1>1 DEF StreamInv
<1>9. o \in Nat
  BY <1>4 DEF LiesAt
<1>10. Pos = o + p
  BY <1>1
<1> HIDE DEF e, o
<1>11. Arrived = o + p + Len(Rest) /\ Arrived <= Len(stream) /\ Len(Rest) \in Nat
  <2>1. Gone + ptr = o + p /\ Gone \in Nat
    BY <1>8, <1>10 DEF Pos, LiesAt
  <2> QED
    BY <1>6, <1>7, <1>9, <2>1 DEF Gone, Arrived
<1>12. ASSUME NEW m \in 1..Len(Rest), p + m <= Len(e)
       PROVE  Rest[m] = e[p + m]
  <2>1. ptr + m \in 1..Len(buf) /\ Gone + (ptr + m) = o + (p + m) /\ p + m \in 1..Len(e)
    <3>1. Gone + ptr = o + p /\ Gone \in Nat
      BY <1>8, <1>10 DEF Pos, LiesAt
    <3> QED
      BY <1>1, <1>5, <1>6, <1>7, <1>9, <1>12, <3>1
  <2>2. stream[Gone + (ptr + m)] = buf[ptr + m]
    BY <1>8, <2>1 DEF LiesAt
  <2>3. stream[o + (p + m)] = e[p + m]
    BY <1>4, <2>1 DEF LiesAt
  <2> QED
    BY <1>7, <2>1, <2>2, <2>3
<1>13. Sees(Rest, e, p)
  BY <1>12 DEF Sees
<1> QED
  BY <1>1, <1>3, <1>4, <1>5, <1>6, <1>7, <1>9, <1>11, <1>13 DEF e, o

(* No line of the request is cut in its end where the bytes end now.       *)
LEMMA NotCut ==
    ASSUME NEW form, NEW p, At(form, p), NEW x \in Nat, x > 1,
           x + 1 <= Len(Encode(form)),
           Encode(form)[x] = "CR", Encode(form)[x + 1] = "LF", Encode(form)[x - 1] # "LF"
    PROVE  Arrived # StartOf(K) + x
<1> DEFINE e == Encode(form)
           o == StartOf(K)
<1>1. LiesAt(stream, o, e) /\ o \in Nat /\ Len(e) \in Nat /\ Len(stream) \in Nat
  BY AtIs
<1>2. ~CutsLineEnd(Arrived)
  BY DEF At, PieceInv
<1>3. x + 1 <= Len(e) /\ e[x] = "CR" /\ e[x + 1] = "LF" /\ e[x - 1] # "LF"
  OBVIOUS
<1> HIDE DEF e, o
<1>4. /\ stream[o + x] = "CR" /\ stream[o + x + 1] = "LF" /\ stream[(o + x) - 1] # "LF"
      /\ o + x > 1 /\ o + x < Len(stream)
  <2>1. x \in 1..Len(e) /\ x + 1 \in 1..Len(e) /\ x - 1 \in 1..Len(e)
    BY <1>1, <1>3
  <2>2. /\ stream[o + x] = e[x] /\ stream[o + (x + 1)] = e[x + 1]
        /\ stream[o + (x - 1)] = e[x - 1]
    BY <1>1, <2>1 DEF LiesAt
  <2>3. o + (x + 1) = o + x + 1 /\ o + (x - 1) = (o + x) - 1 /\ o + Len(e) <= Len(stream)
    BY <1>1 DEF LiesAt
  <2> QED
    BY <1>1, <1>3, <2>2, <2>3
<1>5. CutsLineEnd(o + x)
  BY <1>4 DEF CutsLineEnd
<1> QED
  BY <1>2, <1>5, Zenon DEF o

(* The second character of a line end is there, and is passed.             *)
LEMMA LineEndThere ==
    ASSUME NEW form, NEW p, At(form, p), NEW t \in Text, NEW o \in Nat, NEW n \in Nat,
           NEW x \in Nat, Sees(t, Encode(form), o), Len(t) = Len(Rest) - (o - p),
           n \in 1..Len(t), x = o + n, x > 1, x + 1 <= Len(Encode(form)),
           Encode(form)[x] = "CR", Encode(form)[x + 1] = "LF", Encode(form)[x - 1] # "LF"
    PROVE  LineEndAfter(t, n) = 1
<1>1. /\ p \in Nat /\ Arrived = StartOf(K) + p + Len(Rest) /\ Len(Rest) \in Nat
      /\ StartOf(K) \in Nat
  BY AtIs
<1>2. Arrived # StartOf(K) + x
  BY <1>1, NotCut
<1> DEFINE a == StartOf(K)
           l == Len(Rest)
<1>3. Len(t) = l - (o - p) /\ n <= Len(t) /\ Arrived = a + p + l /\ Arrived # a + x
      /\ l \in Nat /\ a \in Nat
  BY <1>1, <1>2
<1> HIDE DEF a, l
<1>4. n < Len(t)
  BY <1>1, <1>3, SMTT(40)
<1>5. t[n + 1] = "LF"
  <2>1. n + 1 \in 1..Len(t) /\ o + (n + 1) = x + 1
    BY <1>1, <1>3, <1>4
  <2> QED
    BY <2>1 DEF Sees
<1> QED
  BY <1>4, <1>5 DEF LineEndAfter, LineEnds

(* The parser moves on by n bytes.                                         *)
LEMMA AtNext ==
    ASSUME NEW form, NEW p, At(form, p), Moves, out' = out, NEW n \in Nat, ptr' = ptr + n,
           TypeInv', StreamInv'
    PROVE  At(form, p + n)' /\ (OutInv => OutInv')
<1>1. /\ UNCHANGED <<sent, stream, ends, wire, buf>> /\ K' = K /\ Arrived' = Arrived
      /\ Gone' = Gone
  BY DEF Moves, K, Arrived, Gone
<1>2. StartOf(K)' = StartOf(K)
  BY <1>1 DEF StartOf
<1>3. Pos' = StartOf(K)' + (p + n)
  <2>1. Pos = StartOf(K) + p /\ p \in Nat /\ StartOf(K) \in Nat
    BY AtIs DEF At
  <2>2. Gone \in Int /\ ptr \in Int
    <3>1. Gone \in Nat /\ ptr \in Nat
      BY RestIs DEF At, StreamInv, LiesAt
    <3> QED
      BY <3>1
  <2>3. Pos' = Gone + (ptr + n)
    BY <1>1 DEF Pos
  <2> QED
    BY <1>2, <2>1, <2>2, <2>3 DEF Pos
<1>4. PieceInv'
  BY <1>1 DEF At, PieceInv, CutsLineEnd, Overtakes
<1>5. p + n \in Nat
  BY AtIs
<1>6. At(form, p + n)'
  BY <1>1, <1>3, <1>4, <1>5 DEF At
<1>7. OutInv => OutInv'
  BY <1>1 DEF OutInv
<1> QED
  BY <1>6, <1>7

(* What holds where the parser is in a request                             *)
LEMMA PlaceIs ==
    ASSUME NEW form, NEW p, At(form, p), AtStart(p) \/ InRequest(form, p)
    PROVE  PlaceInv
<1>1. Pos = StartOf(K) + p /\ p \in Nat /\ StartOf(K) \in Nat /\ K <= Len(sent)
      /\ form = sent[K] /\ Len(out) \in 0..Len(sent)
  BY AtIs DEF At
<1>2. Pos >= StartOf(K) /\ Pos - StartOf(K) = p
  BY <1>1
<1> QED
  BY <1>1, <1>2 DEF PlaceInv

Goes(form) == \E p : At(form, p) /\ (AtStart(p) \/ InRequest(form, p))

(* The call returns, with what it has processed dropped.                   *)
LEMMA AtDrop ==
    ASSUME NEW form, NEW p, At(form, p), NEW n \in Nat, Drops(ptr + n), out' = out,
           TypeInv', StreamInv', ControlTypes'
    PROVE  At(form, p + n)' /\ (OutInv => OutInv') /\ Arrived' = Arrived
           /\ StartOf(K)' = StartOf(K) /\ K' = K
<1>1. /\ UNCHANGED <<sent, stream, ends, wire>> /\ K' = K
  BY DEF Drops, K
<1>2. StartOf(K)' = StartOf(K)
  BY <1>1 DEF StartOf
<1>3. Gone' = Gone + (ptr + n) /\ ptr' = 0 /\ Arrived' = Arrived
  BY DropsKeeps DEF At
<1>4. Pos' = StartOf(K)' + (p + n)
  <2>1. Pos = StartOf(K) + p /\ p \in Nat /\ StartOf(K) \in Nat
    BY AtIs DEF At
  <2>2. Gone \in Nat /\ ptr \in Nat
    BY RestIs DEF At, StreamInv, LiesAt
  <2>3. Pos' = Gone + (ptr + n) + 0
    BY <1>3 DEF Pos
  <2> QED
    BY <1>2, <2>1, <2>2, <2>3 DEF Pos
<1>5. PieceInv'
  BY <1>1, <1>3 DEF At, PieceInv, CutsLineEnd, Overtakes
<1>6. p + n \in Nat
  BY AtIs
<1>7. At(form, p + n)'
  BY <1>1, <1>4, <1>5, <1>6 DEF At
<1>8. OutInv => OutInv'
  BY <1>1 DEF OutInv
<1> QED
  BY <1>1, <1>2, <1>3, <1>7, <1>8

LEMMA MethodKeeps ==
    ASSUME NEW form, NEW p, At(form, p), AtStart(p), Method, TypeInv', StreamInv'
    PROVE  Goes(form)' /\ (OutInv => OutInv')
<1>1. p = 0 /\ req = NewRequest /\ length = Absent
  BY DEF AtStart
<1>2. form \in Forms /\ Rest \in Text /\ Sees(Rest, Encode(form), 0)
  BY <1>1, AtIs
<1>3. Finds(Rest, Blank, {Blank}, AtUri(form), form.method)
  BY <1>2, MethodSeen
<1>4. GetChunk(Rest, Blank, {Blank}).size > 0
  BY DEF Method
<1>5. /\ GetChunk(Rest, Blank, {Blank}).size = AtUri(form)
      /\ GetChunk(Rest, Blank, {Blank}).value = form.method
  BY <1>3, <1>4 DEF Finds
<1>6. /\ req' = [req EXCEPT !.method = form.method] /\ stage' = "uri" /\ ptr' = ptr + AtUri(form)
      /\ UNCHANGED <<sent, stream, ends, wire, joined, buf, pc, length, out, conn>>
  BY <1>5 DEF Method, Pass, inVars
<1>7. AtUri(form) \in Nat
  BY <1>2, Numbers
<1>8. Moves
  BY <1>6 DEF Moves, TypeInv, TypeOK
<1>9. At(form, p + AtUri(form))' /\ (OutInv => OutInv')
  BY <1>6, <1>7, <1>8, AtNext
<1>10. req' = Read(form.method, <<>>, <<>>, <<>>, <<>>, <<>>, <<>>)
  BY <1>1, <1>6 DEF NewRequest, Read
<1>11. p + AtUri(form) = AtUri(form)
  BY <1>1, <1>7
<1>12. InUri(form, p + AtUri(form))'
  BY <1>1, <1>6, <1>10, <1>11 DEF InUri
<1> QED
  BY <1>9, <1>12 DEF Goes, InRequest

LEMMA UriKeeps ==
    ASSUME NEW form, NEW p, At(form, p), InUri(form, p), Uri, TypeInv', StreamInv'
    PROVE  Goes(form)' /\ (OutInv => OutInv')
<1> DEFINE c == GetChunk(Rest, Blank, {"?", Blank})
           u == form.uri
           n == IF form.query = <<>> THEN Len(u) + 1 ELSE Len(u)
<1>1. p = AtUri(form) /\ length = Absent
      /\ req = Read(form.method, <<>>, <<>>, <<>>, <<>>, <<>>, <<>>)
  BY DEF InUri
<1>2. form \in Forms /\ Rest \in Text /\ Sees(Rest, Encode(form), AtUri(form))
  BY <1>1, AtIs
<1>3. /\ Finds(Rest, Blank, {"?", Blank}, Len(u) + 1, u)
      /\ Len(u) + 1 <= Len(Rest) => (Rest[Len(u) + 1] = "?" <=> form.query # <<>>)
  BY <1>2, UriSeen
<1>4. c.size > 0
  BY DEF Uri
<1>5. c.size = Len(u) + 1 /\ c.value = u /\ Len(u) + 1 <= Len(Rest)
  BY <1>3, <1>4 DEF Finds
<1>6. /\ req' = [req EXCEPT !.uri = c.value] /\ stage' = "params"
      /\ ptr' = ptr + IF Rest[c.size] = "?" THEN c.size - 1 ELSE c.size
      /\ UNCHANGED <<sent, stream, ends, wire, joined, buf, pc, length, out, conn>>
  BY DEF Uri, Pass, inVars
<1>7. AtUri(form) \in Nat /\ Len(u) \in Nat
  BY <1>2, Numbers
<1> HIDE DEF c, u
<1>8. ptr' = ptr + n
  <2>1. CASE form.query = <<>>
    <3>1. Rest[c.size] # "?"
      BY <1>3, <1>5, <2>1
    <3> QED
      BY <1>5, <1>6, <2>1, <3>1
  <2>2. CASE form.query # <<>>
    <3>1. Rest[c.size] = "?"
      BY <1>3, <1>5, <2>2
    <3>2. c.size - 1 = Len(u)
      BY <1>5, <1>7
    <3> QED
      BY <1>6, <2>2, <3>1, <3>2
  <2> QED
    BY <2>1, <2>2
<1>9. n \in Nat
  BY <1>7
<1>10. p + n = AtParams(form) + IF form.query = <<>> THEN 1 ELSE 0
  BY <1>1, <1>7 DEF AtParams, u
<1>11. Moves
  BY <1>6 DEF Moves, TypeInv, TypeOK
<1> HIDE DEF n
<1>12. At(form, p + n)' /\ (OutInv => OutInv')
  BY <1>6, <1>8, <1>9, <1>11, AtNext
<1>13. req' = Read(form.method, form.uri, <<>>, <<>>, <<>>, <<>>, <<>>)
  BY <1>1, <1>5, <1>6 DEF Read, u
<1>14. InParams(form, p + n)'
  BY <1>1, <1>6, <1>10, <1>13 DEF InParams
<1> QED
  BY <1>12, <1>14 DEF Goes, InRequest

(* Two sequences are the same if they are so member by member.             *)
LEMMA SameSeq ==
    ASSUME NEW S, NEW a \in Seq(S), NEW b \in Seq(S), Len(a) = Len(b),
           \A m \in 1..Len(a) : a[m] = b[m]
    PROVE  a = b
  OBVIOUS

(* The text and version that begin behind the uri                          *)
LEMMA NoQuery ==
    ASSUME NEW form \in Forms, form.query = <<>>
    PROVE  AtVersion(form) = AtParams(form) + 1 /\ ParamsText(form) = <<>>
<1>1. QueryText(form) = <<>>
  BY DEF QueryText
<1>2. Len(QueryText(form)) = 0
  BY <1>1
<1>3. AtParams(form) \in Nat
  BY Numbers
<1>4. AtVersion(form) = AtParams(form) + 1
  BY <1>2, <1>3 DEF AtVersion
<1> QED
  BY <1>4 DEF ParamsText

(* Behind the uri is the question mark, if it is there.                    *)
LEMMA MarkThere ==
    ASSUME NEW form, NEW p, At(form, p), InParams(form, p), AtMark
    PROVE  /\ form.query # <<>> /\ p = AtParams(form)
           /\ Tail(Rest) \in Text /\ Len(Tail(Rest)) = Len(Rest) - 1
           /\ \A m \in 1..Len(Rest) - 1 : Tail(Rest)[m] = Rest[m + 1]
           /\ Sees(Tail(Rest), Encode(form), p + 1) /\ 1 \in 1..Len(Rest)
<1> DEFINE t == Tail(Rest)
           e == Encode(form)
<1>1. p = AtParams(form) + (IF form.query = <<>> THEN 1 ELSE 0)
  BY DEF InParams
<1>2. /\ form \in Forms /\ Rest \in Text /\ Sees(Rest, e, p) /\ p \in Nat
      /\ Len(Rest) \in Nat /\ Len(e) \in Nat
  BY AtIs
<1>3. Rest # <<>> /\ Rest[1] = "?"
  BY DEF AtMark
<1>4. 1 \in 1..Len(Rest)
  BY <1>2, <1>3, NotEmpty, TextIs
<1>5. form.query # <<>>
  <2> SUFFICES ASSUME form.query = <<>> PROVE FALSE
    OBVIOUS
  <2>1. p = AtVersion(form)
    BY <1>1, <1>2, NoQuery
  <2>2. /\ e[AtVersion(form) + 1] \notin Signs /\ AtHeaders(form) <= Len(e)
        /\ AtHeaders(form) = AtVersion(form) + Len(form.version) + 2
    BY <1>2, <2>1, VersionSeen
  <2>3. Len(form.version) \in Nat
    BY <1>2, Numbers
  <2>4. p + 1 <= Len(e)
    BY <1>2, <2>1, <2>2, <2>3
  <2>5. Rest[1] = e[p + 1]
    BY <1>2, <1>4, <2>4 DEF Sees
  <2>6. "?" \in Signs
    BY DEF Signs
  <2> QED
    BY <1>3, <2>1, <2>2, <2>5, <2>6
<1>6. /\ t \in Text /\ Len(t) = Len(Rest) - 1 /\ \A m \in 1..Len(Rest) - 1 : t[m] = Rest[m + 1]
  BY <1>2, <1>3, TailIs
<1>7. p = AtParams(form)
  <2>1. AtParams(form) \in Nat
    BY <1>2, Numbers
  <2> QED
    BY <1>1, <1>5, <2>1
<1> HIDE DEF t
<1>8. Sees(t, e, p + 1)
  <2>1. \A m \in 1..Len(t) : m + 1 = 1 + m
    BY <1>2, <1>6
  <2>2. \A m \in 1..Len(t) : t[m] = Rest[1 + m]
    BY <1>6, <2>1
  <2> QED
    BY <1>2, <1>6, <2>2, SeesBehind
<1> QED
  BY <1>4, <1>5, <1>6, <1>7, <1>8 DEF t, e

LEMMA ParamsKeeps ==
    ASSUME NEW form, NEW p, At(form, p), InParams(form, p), Params, TypeInv', StreamInv'
    PROVE  Goes(form)' /\ (OutInv => OutInv')
<1> DEFINE c == GetChunk(Tail(Rest), "?", {Blank})
           t == Tail(Rest)
           w == PairsText(form.query, <<"&">>)
           e == Encode(form)
           n == Len(w) + 2
<1>1. length = Absent /\ req = Read(form.method, form.uri, <<>>, <<>>, <<>>, <<>>, <<>>)
  BY DEF InParams
<1>2. /\ form \in Forms /\ Rest \in Text /\ Sees(Rest, e, p) /\ p \in Nat
      /\ Len(Rest) \in Nat /\ Len(e) \in Nat
  BY AtIs
<1>3. AtMark /\ c.size > 0
  BY DEF Params
<1>4. /\ form.query # <<>> /\ p = AtParams(form) /\ 1 \in 1..Len(Rest)
      /\ t \in Text /\ Len(t) = Len(Rest) - 1 /\ \A m \in 1..Len(Rest) - 1 : t[m] = Rest[m + 1]
      /\ Sees(t, e, p + 1)
  BY <1>3, MarkThere
<1> HIDE DEF t
<1>5. /\ Finds(t, "?", {Blank}, Len(w) + 1, w) /\ w \in Text /\ Len(w) \in Nat
      /\ Len(QueryText(form)) = Len(w) + 1
      /\ \A m \in 1..Len(w) : e[p + 1 + m] = w[m]
  BY <1>2, <1>4, ParamsSeen
<1>6. c.size = Len(w) + 1 /\ Len(w) + 1 <= Len(t)
  BY <1>3, <1>5 DEF Finds, t
<1>7. /\ req' = [req EXCEPT !.params = SubSeq(Rest, 2, c.size) \o <<Nul>>]
       /\ stage' = "version" /\ ptr' = ptr + (c.size + 1)
       /\ UNCHANGED <<sent, stream, ends, wire, joined, buf, pc, length, out, conn>>
  BY DEF Params, Pass, inVars
<1> HIDE DEF c, w
<1>8. SubSeq(Rest, 2, c.size) = w
  <2> DEFINE s == SubSeq(Rest, 2, c.size)
  <2>1. Rest \in Seq(Bytes) /\ 2 \in 1..Len(Rest) + 1 /\ c.size \in 0..Len(Rest)
    BY <1>2, <1>4, <1>5, <1>6, TextIs
  <2>2. /\ s \in Seq(Bytes) /\ Len(s) = IF 2 <= c.size THEN c.size - 2 + 1 ELSE 0
        /\ \A m \in 1..Len(s) : s[m] = Rest[2 + m - 1]
    BY <2>1, SubSeqIs
  <2> HIDE DEF s
  <2>3. Len(s) = Len(w)
    BY <1>5, <1>6, <2>2
  <2>4. ASSUME NEW m \in 1..Len(w) PROVE s[m] = w[m]
    <3>1. 2 + m - 1 = m + 1 /\ m + 1 \in 1..Len(Rest) /\ p + (m + 1) = p + 1 + m
      BY <1>2, <1>4, <1>5, <1>6
    <3>2. p + 1 + m <= Len(e)
      <4>1. e[p + 1 + m] = w[m] /\ p + Len(QueryText(form)) + 1 <= Len(e)
        <5>1. LiesAt(e, AtParams(form) + Len(QueryText(form)), <<Blank>>)
          BY <1>2, EncodeIs DEF Layout
        <5>2. 1 = Len(<<Blank>>)
          BY SignsAre
        <5> QED
          BY <1>4, <1>5, <5>1, <5>2 DEF LiesAt
      <4> QED
        BY <1>2, <1>5, <4>1
    <3>3. s[m] = Rest[m + 1]
      BY <2>2, <2>3, <3>1
    <3>4. Rest[m + 1] = e[p + (m + 1)]
      BY <1>2, <3>1, <3>2 DEF Sees
    <3> QED
      BY <1>5, <3>1, <3>3, <3>4
  <2>5. w \in Seq(Bytes)
    BY <1>5, TextIs
  <2>6. s = w
    BY <2>2, <2>3, <2>4, <2>5, SameSeq
  <2> QED
    BY <2>6 DEF s
<1>9. ptr' = ptr + n /\ n \in Nat
  BY <1>5, <1>6, <1>7
<1>10. p + n = AtVersion(form)
  BY <1>2, <1>4, <1>5 DEF AtVersion
<1>11. Moves
  BY <1>7 DEF Moves, TypeInv, TypeOK
<1> HIDE DEF n
<1>12. At(form, p + n)' /\ (OutInv => OutInv')
  BY <1>7, <1>9, <1>11, AtNext
<1>13. req' = Read(form.method, form.uri, ParamsText(form), <<>>, <<>>, <<>>, <<>>)
  <2>1. ParamsText(form) = w \o <<Nul>>
    BY <1>4 DEF ParamsText, w
  <2> QED
    BY <1>1, <1>7, <1>8, <2>1 DEF Read
<1>14. InVersion(form, p + n)'
  BY <1>1, <1>7, <1>10, <1>13 DEF InVersion
<1> QED
  BY <1>12, <1>14 DEF Goes, InRequest

(* What WellFormed says of the keys of a request                           *)
LEMMA FormKeys ==
    ASSUME NEW form \in Forms
    PROVE  LET h == form.headers IN
           /\ \A i \in DOMAIN h : h[i][1] # Cookie
           /\ \A i, j \in DOMAIN h : h[i][1] = h[j][1] => i = j
           /\ \A i \in DOMAIN h :
                h[i][1] = ContentLength => LengthIn(h[i][2]) = Len(BodyText(form))
           /\ (\A i \in DOMAIN h : h[i][1] # ContentLength) => BodyText(form) = <<>>
           /\ form.fields # <<>> <=>
                \E i \in DOMAIN h : h[i][1] = ContentType /\ h[i][2] = UrlEncoded
           /\ form.fields # <<>> => BodyText(form) # <<>>
<1> DEFINE h == form.headers
           Given(key) == {i \in DOMAIN h : h[i][1] = key}
           AForm == \E i \in Given(ContentType) : h[i][2] = UrlEncoded
<1>1. /\ \A i, j \in DOMAIN h : h[i][1] = h[j][1] => i = j
      /\ Given(Cookie) = {}
      /\ \A i \in Given(ContentLength) : LengthIn(h[i][2]) = Len(BodyText(form))
      /\ Given(ContentLength) = {} => BodyText(form) = <<>>
      /\ form.fields # <<>> <=> AForm
      /\ AForm => BodyText(form) # <<>>
  BY FormsAssumption, Zenon DEF WellFormed
<1>2. \A key : \A i \in DOMAIN h : h[i][1] = key <=> i \in Given(key)
  OBVIOUS
<1>3. \A i \in DOMAIN h : h[i][1] # Cookie
  BY <1>1, <1>2, Zenon
<1>4. (\A i \in DOMAIN h : h[i][1] # ContentLength) => BodyText(form) = <<>>
  <2>1. (\A i \in DOMAIN h : h[i][1] # ContentLength) => Given(ContentLength) = {}
    BY Zenon
  <2> QED
    BY <1>1, <2>1, Zenon
<1>5. AForm <=> \E i \in DOMAIN h : h[i][1] = ContentType /\ h[i][2] = UrlEncoded
  BY <1>2, Zenon
<1>6. \A i \in DOMAIN h :
        h[i][1] = ContentLength => LengthIn(h[i][2]) = Len(BodyText(form))
  BY <1>1, <1>2, Zenon
<1> HIDE DEF AForm
<1> QED
  BY <1>1, <1>3, <1>4, <1>5, <1>6

(* The cookies are the first line, the headers the others.                 *)
LEMMA LinesGiven ==
    ASSUME NEW form \in Forms
    PROVE  /\ Len(form.headers) \in Nat /\ DOMAIN form.headers = 1..Len(form.headers)
           /\ form.cookies = <<>> => Lines(form) = form.headers
           /\ form.cookies # <<>> =>
                /\ Len(Lines(form)) = Len(form.headers) + 1
                /\ Lines(form)[1] = <<Cookie, PairsText(form.cookies, <<Semicolon, Blank>>)>>
                /\ \A i \in 1..Len(form.headers) : Lines(form)[i + 1] = form.headers[i]
<1> DEFINE L == Word \X Without(LineEnds)
           text == PairsText(form.cookies, <<Semicolon, Blank>>)
           h == form.headers
           M == L \union {<<Cookie, text>>}
           one == <<<<Cookie, text>>>>
<1>1. h \in Seq(L)
  BY FormIs
<1>2. h \in Seq(M) /\ one \in Seq(M) /\ Len(one) = 1 /\ one[1] = <<Cookie, text>>
  <2> HIDE DEF L, h, text
  <2> QED
    BY <1>1
<1>3. Len(h) \in Nat /\ DOMAIN h = 1..Len(h)
  BY <1>1
<1>4. Lines(form) = (IF form.cookies = <<>> THEN <<>> ELSE one) \o h
  BY DEF Lines
<1> HIDE DEF h, one, M
<1>5. form.cookies = <<>> => Lines(form) = h
  BY <1>1, <1>4, EmptyBehind
<1>6. ASSUME form.cookies # <<>>
      PROVE  /\ Len(Lines(form)) = Len(h) + 1 /\ Lines(form)[1] = <<Cookie, text>>
             /\ \A i \in 1..Len(h) : Lines(form)[i + 1] = h[i]
  <2>1. Lines(form) = one \o h
    BY <1>4, <1>6
  <2>2. /\ Len(one \o h) = Len(one) + Len(h)
        /\ \A m \in 1..Len(one) : (one \o h)[m] = one[m]
        /\ \A m \in 1..Len(h) : (one \o h)[Len(one) + m] = h[m]
    BY <1>2, ConcatIs
  <2>3. Len(one) = 1 /\ one[1] = <<Cookie, text>>
    BY <1>2
  <2> HIDE DEF text
  <2>4. 1 \in 1..Len(one)
    BY <2>3
  <2>5. Lines(form)[1] = <<Cookie, text>>
    BY <2>1, <2>2, <2>3, <2>4, Zenon
  <2>6. ASSUME NEW i \in 1..Len(h) PROVE Lines(form)[i + 1] = h[i]
    <3>1. (one \o h)[1 + i] = h[i] /\ 1 + i = i + 1
      BY <1>3, <2>2, <2>3
    <3> QED
      BY <2>1, <3>1
  <2>7. Len(Lines(form)) = Len(h) + 1
    BY <1>3, <2>1, <2>2, <2>3
  <2> QED
    BY <2>5, <2>6, <2>7
<1> QED
  BY <1>3, <1>5, <1>6 DEF h

(* A line is that of the cookies, or a header.                             *)
LEMMA LineIs ==
    ASSUME NEW form \in Forms, NEW i \in 1..Len(Lines(form))
    PROVE  \/ /\ form.cookies # <<>> /\ i = 1 /\ Lines(form)[i][1] = Cookie
              /\ Lines(form)[i][2] = PairsText(form.cookies, <<Semicolon, Blank>>)
           \/ \E j \in DOMAIN form.headers :
                /\ Lines(form)[i] = form.headers[j] /\ Lines(form)[i][1] # Cookie
                /\ j = IF form.cookies = <<>> THEN i ELSE i - 1
<1>1. CASE form.cookies = <<>>
  <2>1. Lines(form) = form.headers
    BY <1>1, LinesGiven
  <2>2. i \in DOMAIN form.headers
    BY <2>1, LinesAre
  <2> QED
    BY <1>1, <2>1, <2>2, FormKeys, Zenon
<1>2. CASE form.cookies # <<>> /\ i = 1
  BY <1>2, LinesGiven
<1>3. CASE form.cookies # <<>> /\ i # 1
  <2>1. /\ Len(Lines(form)) = Len(form.headers) + 1 /\ Len(form.headers) \in Nat
        /\ \A j \in 1..Len(form.headers) : Lines(form)[j + 1] = form.headers[j]
        /\ DOMAIN form.headers = 1..Len(form.headers)
    BY <1>3, LinesGiven
  <2>2. i - 1 \in 1..Len(form.headers) /\ i - 1 + 1 = i
    BY <1>3, <2>1
  <2>3. Lines(form)[i] = form.headers[i - 1] /\ i - 1 \in DOMAIN form.headers
    BY <2>1, <2>2
  <2>4. form.headers[i - 1][1] # Cookie
    BY <2>3, FormKeys
  <2> QED
    BY <1>3, <2>3, <2>4
<1> QED
  BY <1>1, <1>2, <1>3

(* The headers, and where they are among the lines                         *)
LEMMA HeaderAt ==
    ASSUME NEW form \in Forms, NEW j \in DOMAIN form.headers
    PROVE  \E i \in 1..Len(Lines(form)) : Lines(form)[i] = form.headers[j]
<1>1. CASE form.cookies = <<>>
  BY <1>1, LinesGiven
<1>2. CASE form.cookies # <<>>
  <2>1. /\ Len(Lines(form)) = Len(form.headers) + 1 /\ Len(form.headers) \in Nat
        /\ Lines(form)[j + 1] = form.headers[j] /\ j \in 1..Len(form.headers)
    BY <1>2, LinesGiven
  <2>2. j + 1 \in 1..Len(Lines(form))
    BY <2>1
  <2> QED
    BY <2>1, <2>2
<1> QED
  BY <1>1, <1>2

LEMMA KeysAre == Cookie # ContentLength /\ Cookie # ContentType /\ ContentLength # ContentType
<1>1. "L" # "K" /\ "T" # "K" /\ "L" # "T"
  OBVIOUS
<1>2. <<"L">>[1] = "L" /\ <<"K">>[1] = "K" /\ <<"T">>[1] = "T"
  OBVIOUS
<1> QED
  BY <1>1, <1>2 DEF Cookie, ContentLength, ContentType

(* The Content-Length is that of the body as soon as it was read.          *)
LEMMA LengthNext ==
    ASSUME NEW form \in Forms, NEW j \in Nat, j + 1 \in 1..Len(Lines(form))
    PROVE  LengthTo(form, j + 1) =
             IF LengthTo(form, j) = Absent /\ Lines(form)[j + 1][1] = ContentLength
             THEN LengthIn(Lines(form)[j + 1][2]) ELSE LengthTo(form, j)
<1> DEFINE l == Lines(form)
<1>1. Len(l) \in Nat
  BY LinesAre
<1>2. ASSUME NEW i \in 1..j + 1, NEW k \in 1..j + 1, l[i][1] = ContentLength, l[k][1] = ContentLength
      PROVE  i = k /\ LengthIn(l[i][2]) = Len(BodyText(form))
  <2>1. i \in 1..Len(l) /\ k \in 1..Len(l)
    BY <1>1
  <2>2. PICK a \in DOMAIN form.headers :
          l[i] = form.headers[a] /\ a = IF form.cookies = <<>> THEN i ELSE i - 1
    BY <1>2, <2>1, LineIs, KeysAre
  <2>3. PICK b \in DOMAIN form.headers :
          l[k] = form.headers[b] /\ b = IF form.cookies = <<>> THEN k ELSE k - 1
    BY <1>2, <2>1, LineIs, KeysAre
  <2> HIDE DEF l
  <2>4. a = b /\ LengthIn(form.headers[a][2]) = Len(BodyText(form))
    BY <1>2, <2>2, <2>3, FormKeys
  <2>5. i = k
    BY <2>2, <2>3, <2>4
  <2> QED
    BY <2>2, <2>4, <2>5
<1> HIDE DEF l
<1>3. CASE l[j + 1][1] = ContentLength
  <2>1. j + 1 \in 1..j + 1 /\ \A i \in 1..j : i \in 1..j + 1 /\ i # j + 1
    OBVIOUS
  <2>2. ~\E i \in 1..j : l[i][1] = ContentLength
    BY <1>2, <1>3, <2>1, Zenon
  <2>3. LengthTo(form, j) = Absent
    BY <2>2 DEF LengthTo, l
  <2>4. LengthIn(l[j + 1][2]) = Len(BodyText(form))
    BY <1>2, <1>3, <2>1, Zenon
  <2>5. LengthTo(form, j + 1) = Len(BodyText(form))
    BY <1>3, <2>1 DEF LengthTo, l
  <2> QED
    BY <1>3, <2>3, <2>4, <2>5 DEF l
<1>4. CASE l[j + 1][1] # ContentLength
  <2>1. \A i \in 1..j + 1 : i \in 1..j \/ i = j + 1
    OBVIOUS
  <2>2. 1..j \subseteq 1..j + 1
    OBVIOUS
  <2>3. (\E i \in 1..j + 1 : l[i][1] = ContentLength) <=> (\E i \in 1..j : l[i][1] = ContentLength)
    BY <1>4, <2>1, <2>2
  <2>4. LengthTo(form, j + 1) = LengthTo(form, j)
    BY <2>3 DEF LengthTo, l
  <2> QED
    BY <1>4, <2>4 DEF l
<1> QED
  BY <1>3, <1>4

(* Without a header that tells of it, there is no body.                    *)
LEMMA LengthAtEnd ==
    ASSUME NEW form \in Forms
    PROVE  LET n == Len(Lines(form)) IN
           /\ \/ LengthTo(form, n) = Len(BodyText(form))
              \/ LengthTo(form, n) = Absent /\ BodyText(form) = <<>>
           /\ LengthTo(form, n) # Absent =>
                \E j \in DOMAIN form.headers : form.headers[j][1] = ContentLength
<1> DEFINE n == Len(Lines(form))
<1>1. CASE \E i \in 1..n : Lines(form)[i][1] = ContentLength
  <2>1. LengthTo(form, n) = Len(BodyText(form))
    BY <1>1 DEF LengthTo
  <2>2. PICK i \in 1..n : Lines(form)[i][1] = ContentLength
    BY <1>1
  <2>3. PICK j \in DOMAIN form.headers : Lines(form)[i] = form.headers[j]
    BY <2>2, LineIs, KeysAre
  <2>4. form.headers[j][1] = ContentLength
    BY <2>2, <2>3, Zenon
  <2> QED
    BY <2>1, <2>4
<1>2. CASE ~\E i \in 1..n : Lines(form)[i][1] = ContentLength
  <2>1. LengthTo(form, n) = Absent
    BY <1>2 DEF LengthTo
  <2>2. \A j \in DOMAIN form.headers : form.headers[j][1] # ContentLength
    BY <1>2, HeaderAt
  <2>3. BodyText(form) = <<>>
    BY <2>2, FormKeys
  <2> QED
    BY <2>1, <2>3
<1> QED
  BY <1>1, <1>2

(* parse_string as the parts it takes at the ends it finds                 *)
Cell(text, div, trim, i) ==
    NameAndValue(IF trim THEN Trimmed(PartTo(text, div, i)) ELSE PartTo(text, div, i))

Cells(text, div, trim) ==
    [i \in DOMAIN text |->
        IF i \notin PartEnds(text, div) THEN <<>> ELSE <<Cell(text, div, trim, i)>>]

CellSet(text, div, trim) == {Cell(text, div, trim, i) : i \in DOMAIN text}

LEMMA ParsedIs ==
    ASSUME NEW text \in Text, NEW div, NEW trim
    PROVE  LET s == Cells(text, div, trim)
               S == CellSet(text, div, trim)
           IN
           /\ ParseString(text, div, trim) = FlattenSeq(s)
           /\ s \in Seq(Seq(S)) /\ Len(s) = Len(text) /\ Len(text) \in Nat
           /\ ParseString(text, div, trim) \in Seq(S)
<1> DEFINE S == CellSet(text, div, trim)
           s == Cells(text, div, trim)
<1>1. ParseString(text, div, trim) = FlattenSeq(s)
  BY DEF ParseString, Cells, Cell
<1>2. Len(text) \in Nat /\ DOMAIN text = 1..Len(text)
  BY TextIs
<1>3. ASSUME NEW i \in 1..Len(text) PROVE s[i] \in Seq(S)
  <2> DEFINE c == Cell(text, div, trim, i)
  <2>1. c \in S
    BY <1>2, <1>3 DEF CellSet
  <2>2. s[i] = IF i \notin PartEnds(text, div) THEN <<>> ELSE <<c>>
    BY <1>2, <1>3 DEF Cells
  <2> HIDE DEF S, c, s
  <2>3. <<>> \in Seq(S) /\ <<c>> \in Seq(S)
    BY <2>1
  <2> QED
    BY <2>2, <2>3
<1>4. s = [i \in 1..Len(text) |-> s[i]]
  BY <1>2 DEF Cells
<1> HIDE DEF S, s
<1>5. s \in Seq(Seq(S)) /\ Len(s) = Len(text)
  BY <1>2, <1>3, <1>4
<1>6. FlattenSeq(s) \in Seq(S)
  BY <1>5, FlattenIs
<1> QED
  BY <1>1, <1>2, <1>5, <1>6 DEF S, s

(* The headers kept are a sequence that grows with each line.              *)
LEMMA HeadersToIs ==
    ASSUME NEW form, NEW j \in Nat
    PROVE  /\ HeadersTo(form, 0) = <<>>
           /\ Len(HeadersTo(form, j)) = j /\ DOMAIN HeadersTo(form, j) = 1..j
           /\ \A i \in 1..j : HeadersTo(form, j)[i] = KeptLine(form, i)
           /\ HeadersTo(form, j + 1) = Append(HeadersTo(form, j), KeptLine(form, j + 1))
           /\ HeadersTo(form, j) \in Seq({KeptLine(form, i) : i \in 1..j})
<1> DEFINE f(k) == HeadersTo(form, k)
           S == {KeptLine(form, i) : i \in 1..j + 1}
<1>1. \A k \in Nat : f(k) = [i \in 1..k |-> KeptLine(form, i)]
  BY DEF HeadersTo
<1>2. f(0) = <<>>
  <2>1. f(0) = [i \in 1..0 |-> KeptLine(form, i)]
    BY <1>1
  <2> QED
    BY <2>1
<1>3. f(j) \in Seq(S) /\ Len(f(j)) = j /\ DOMAIN f(j) = 1..j
      /\ \A i \in 1..j : f(j)[i] = KeptLine(form, i)
  <2>1. \A i \in 1..j : KeptLine(form, i) \in S
    OBVIOUS
  <2> HIDE DEF S
  <2> QED
    BY <1>1, <2>1
<1>4. f(j + 1) \in Seq(S) /\ Len(f(j + 1)) = j + 1
      /\ \A i \in 1..j + 1 : f(j + 1)[i] = KeptLine(form, i)
  <2>1. \A i \in 1..j + 1 : KeptLine(form, i) \in S
    OBVIOUS
  <2> HIDE DEF S
  <2>2. f(j + 1) = [i \in 1..j + 1 |-> KeptLine(form, i)]
    BY <1>1
  <2> QED
    BY <2>1, <2>2
<1>5. f(j + 1) = Append(f(j), KeptLine(form, j + 1))
  <2>1. KeptLine(form, j + 1) \in S
    OBVIOUS
  <2> HIDE DEF S, f
  <2> DEFINE a == Append(f(j), KeptLine(form, j + 1))
  <2>2. /\ a \in Seq(S) /\ Len(a) = j + 1 /\ \A i \in 1..j : a[i] = f(j)[i]
        /\ a[j + 1] = KeptLine(form, j + 1)
    BY <1>3, <2>1, AppendIs
  <2> HIDE DEF a
  <2>3. \A i \in 1..j + 1 : f(j + 1)[i] = a[i]
    BY <1>3, <1>4, <2>2
  <2>4. f(j + 1) = a
    BY <1>4, <2>2, <2>3, SameSeq
  <2> QED
    BY <2>4 DEF a
<1>6. f(j) \in Seq({KeptLine(form, i) : i \in 1..j})
  <2> DEFINE T == {KeptLine(form, i) : i \in 1..j}
  <2>1. \A i \in 1..j : KeptLine(form, i) \in T
    OBVIOUS
  <2> HIDE DEF T
  <2>2. f(j) \in Seq(T)
    BY <1>1, <2>1
  <2> QED
    BY <2>2 DEF T
<1> QED
  BY <1>2, <1>3, <1>5, <1>6

(* A header line joins the request as it was sent.                         *)
LEMMA HeaderRead ==
    ASSUME NEW form \in Forms, NEW j \in Nat, j + 1 \in 1..Len(Lines(form))
    PROVE  WithHeader(ReadTo(form, j, <<>>), Lines(form)[j + 1][1], Lines(form)[j + 1][2])
             = ReadTo(form, j + 1, <<>>)
<1> DEFINE l == Lines(form)[j + 1]
           r == ReadTo(form, j, <<>>)
           pairs == CookiePairs(form)
<1>1. /\ HeadersTo(form, j + 1) = Append(HeadersTo(form, j), KeptLine(form, j + 1))
      /\ HeadersTo(form, 0) = <<>>
  BY HeadersToIs
<1>2. r = Read(form.method, form.uri, ParamsText(form), form.version,
               HeadersTo(form, j), CookiesTo(form, j), <<>>)
  BY DEF ReadTo
<1>3. CASE l[1] = Cookie
  <2>1. form.cookies # <<>> /\ j + 1 = 1
        /\ l[2] = PairsText(form.cookies, <<Semicolon, Blank>>)
    BY <1>3, LineIs
  <2>2. ParseString(l[2] \o <<Nul>>, Semicolon, TRUE) = pairs
    BY <2>1 DEF CookiePairs
  <2>3. WithHeader(r, l[1], l[2]) =
          [r EXCEPT !.headers = Append(@, <<l[1], pairs[1][1]>>), !.cookies = @ \o pairs]
    BY <1>3, <2>2 DEF WithHeader
  <2>4. CookiesTo(form, j) = <<>> /\ CookiesTo(form, j + 1) = pairs
    BY <2>1 DEF CookiesTo
  <2>5. <<>> \o pairs = pairs
    <3>1. PairsText(form.cookies, <<Semicolon, Blank>>) \in Text
      <4>1. form.cookies \in Pairs
        BY FormIs
      <4>2. PairsText(form.cookies, <<Semicolon, Blank>>)
              \in Without(PairSigns \ {Semicolon, Blank})
        BY <4>1, CookiesAre
      <4> QED
        BY <4>2, WithoutIs
    <3>2. PairsText(form.cookies, <<Semicolon, Blank>>) \o <<Nul>> \in Text
      BY <3>1, SignsAre, Extended
    <3>3. PICK S : pairs \in Seq(S)
      BY <3>2, ParsedIs DEF CookiePairs
    <3> HIDE DEF pairs
    <3> QED
      BY <3>3, EmptyBehind
  <2>6. KeptLine(form, j + 1) = <<l[1], pairs[1][1]>>
    BY <1>3 DEF KeptLine
  <2> HIDE DEF l, pairs, r
  <2>7. WithHeader(r, l[1], l[2]) =
          Read(form.method, form.uri, ParamsText(form), form.version,
               Append(HeadersTo(form, j), KeptLine(form, j + 1)), pairs, <<>>)
    BY <1>2, <2>3, <2>4, <2>5, <2>6 DEF Read
  <2> QED
    BY <1>1, <2>4, <2>7 DEF ReadTo, l, r
<1>4. CASE l[1] # Cookie
  <2>1. WithHeader(r, l[1], l[2]) = [r EXCEPT !.headers = Append(@, <<l[1], l[2]>>)]
    BY <1>4 DEF WithHeader
  <2>2. PICK i \in DOMAIN form.headers :
          l = form.headers[i] /\ i = IF form.cookies = <<>> THEN j + 1 ELSE j + 1 - 1
    BY <1>4, LineIs
  <2>3. <<l[1], l[2]>> = l
    <3>1. form.headers \in Seq(Word \X Without(LineEnds))
      BY FormIs
    <3>2. form.headers[i] \in Word \X Without(LineEnds)
      BY <3>1
    <3> HIDE DEF l
    <3> QED
      BY <2>2, <3>2
  <2>4. KeptLine(form, j + 1) = l
    BY <1>4 DEF KeptLine
  <2>5. CookiesTo(form, j + 1) = CookiesTo(form, j)
    <3>1. CASE form.cookies = <<>>
      BY <3>1 DEF CookiesTo
    <3>2. CASE form.cookies # <<>>
      <4>1. Lines(form)[1][1] = Cookie
        BY <3>2, LinesGiven
      <4>2. j + 1 # 1
        BY <1>4, <4>1
      <4>3. j >= 1 /\ j + 1 >= 1
        BY <4>2
      <4> QED
        BY <4>3 DEF CookiesTo
    <3> QED
      BY <3>1, <3>2
  <2> HIDE DEF l, r
  <2>6. WithHeader(r, l[1], l[2]) =
          Read(form.method, form.uri, ParamsText(form), form.version,
               Append(HeadersTo(form, j), KeptLine(form, j + 1)), CookiesTo(form, j), <<>>)
    BY <1>2, <2>1, <2>3, <2>4 DEF Read
  <2> QED
    BY <1>1, <2>5, <2>6 DEF ReadTo, l, r
<1> QED
  BY <1>3, <1>4

(* Where a version is wanted, its text is next, or nothing is there yet.   *)
LEMMA VersionWanted ==
    ASSUME NEW form, NEW p, At(form, p), InParams(form, p) \/ InVersion(form, p), WantsVersion
    PROVE  \/ /\ p = AtVersion(form) /\ length = Absent
              /\ req = Read(form.method, form.uri, ParamsText(form), <<>>, <<>>, <<>>, <<>>)
           \/ Rest = <<>> /\ InParams(form, p) /\ form.query # <<>> /\ p = AtParams(form)
<1>1. /\ form \in Forms /\ Rest \in Text /\ Sees(Rest, Encode(form), p) /\ p \in Nat
      /\ Len(Rest) \in Nat
  BY AtIs
<1>2. AtParams(form) \in Nat /\ AtVersion(form) \in Nat /\ Len(Encode(form)) \in Nat
  BY <1>1, Numbers, TextIs
<1>3. CASE InVersion(form, p)
  BY <1>3 DEF InVersion
<1>4. CASE InParams(form, p) /\ form.query = <<>>
  <2>1. p = AtVersion(form) /\ ParamsText(form) = <<>>
    BY <1>1, <1>2, <1>4, NoQuery DEF InParams
  <2> QED
    BY <1>4, <2>1 DEF InParams
<1>5. CASE InParams(form, p) /\ form.query # <<>>
  <2>1. p = AtParams(form)
    BY <1>2, <1>5 DEF InParams
  <2>2. ASSUME Rest # <<>> PROVE FALSE
    <3>1. 1 \in 1..Len(Rest)
      BY <1>1, <2>2, NotEmpty, TextIs
    <3>2. Encode(form)[p + 1] = "?"
      <4>1. <<>> \in Text /\ Len(<<>>) = 0
        BY TextIs
      <4>2. Sees(<<>>, Encode(form), AtParams(form) + 1)
        BY <4>1 DEF Sees
      <4> QED
        BY <1>1, <1>5, <2>1, <4>1, <4>2, ParamsSeen
    <3>3. p + 1 <= Len(Encode(form))
      <4>1. LiesAt(Encode(form), AtParams(form) + Len(QueryText(form)), <<Blank>>)
        BY <1>1, EncodeIs DEF Layout
      <4>2. Len(<<Blank>>) = 1 /\ Len(QueryText(form)) \in Nat
        BY <1>1, SignsAre, Numbers
      <4> QED
        BY <1>2, <2>1, <4>1, <4>2 DEF LiesAt
    <3>4. Rest[1] = "?"
      BY <1>1, <3>1, <3>2, <3>3 DEF Sees
    <3>5. AtMark
      BY <2>2, <3>4 DEF AtMark
    <3>6. stage = "params"
      BY <1>5 DEF InParams
    <3> QED
      BY <3>5, <3>6 DEF WantsVersion, In
  <2> QED
    BY <1>5, <2>1, <2>2
<1> QED
  BY <1>3, <1>4, <1>5

LEMMA VersionKeeps ==
    ASSUME NEW form, NEW p, At(form, p), InParams(form, p) \/ InVersion(form, p), Version,
           TypeInv', StreamInv'
    PROVE  Goes(form)' /\ (OutInv => OutInv')
<1> DEFINE c == GetChunk(Rest, Blank, LineEnds)
           w == form.version
           e == Encode(form)
           n == Len(w) + 2
<1>1. c.size > 0 /\ WantsVersion
  BY DEF Version
<1>2. /\ form \in Forms /\ Rest \in Text /\ Sees(Rest, e, p) /\ p \in Nat
      /\ Len(Rest) \in Nat /\ Len(e) \in Nat
  BY AtIs
<1>3. Rest # <<>>
  <2>1. c.size \in 0..Len(Rest)
    BY <1>2, ChunkIsText
  <2> HIDE DEF c
  <2>2. Len(Rest) # 0
    BY <1>1, <1>2, <2>1
  <2> QED
    BY <2>2
<1>4. /\ p = AtVersion(form) /\ length = Absent
      /\ req = Read(form.method, form.uri, ParamsText(form), <<>>, <<>>, <<>>, <<>>)
  BY <1>1, <1>3, VersionWanted
<1>5. /\ Finds(Rest, Blank, LineEnds, Len(w) + 1, w)
      /\ AtHeaders(form) = p + Len(w) + 2 /\ AtHeaders(form) <= Len(e)
      /\ e[p + Len(w)] \notin Signs
      /\ e[p + Len(w) + 1] = "CR" /\ e[p + Len(w) + 2] = "LF"
  BY <1>2, <1>4, VersionSeen
<1>6. c.size = Len(w) + 1 /\ c.value = w /\ Len(w) + 1 <= Len(Rest)
  BY <1>1, <1>5 DEF Finds
<1>7. Len(w) \in Nat \ {0}
  BY <1>2, Numbers
<1>8. /\ req' = [req EXCEPT !.version = c.value] /\ stage' = "headers"
      /\ ptr' = ptr + (c.size + LineEndAfter(Rest, c.size))
      /\ UNCHANGED <<sent, stream, ends, wire, joined, buf, pc, length, out, conn>>
  BY DEF Version, Pass, inVars
<1> HIDE DEF c, w, e
<1>9. LineEndAfter(Rest, c.size) = 1
  <2>1. "LF" \in Signs
    BY DEF Signs
  <2> DEFINE m == Len(w) + 1
             x == p + m
  <2>2. /\ m \in 1..Len(Rest) /\ x > 1 /\ x + 1 <= Len(e) /\ m \in Nat /\ x \in Nat
        /\ x = p + Len(w) + 1 /\ x + 1 = p + Len(w) + 2 /\ x - 1 = p + Len(w)
    BY <1>2, <1>5, <1>6, <1>7
  <2>3. e[x] = "CR" /\ e[x + 1] = "LF" /\ e[x - 1] # "LF"
    BY <1>5, <2>1, <2>2
  <2>4. Len(Rest) = Len(Rest) - (p - p) /\ x = p + m
    BY <1>2
  <2> HIDE DEF m, x
  <2>5. LineEndAfter(Rest, m) = 1
    BY <1>2, <2>2, <2>3, <2>4, LineEndThere DEF e
  <2> QED
    BY <1>6, <2>5 DEF m
<1>10. ptr' = ptr + n /\ n \in Nat
  BY <1>6, <1>7, <1>8, <1>9
<1>11. p + n = AtLine(form, 0)
  <2>1. AtLine(form, 0) = AtHeaders(form)
    BY <1>2, Numbers
  <2> QED
    BY <1>2, <1>5, <1>7, <2>1
<1>12. Moves
  BY <1>8 DEF Moves, TypeInv, TypeOK
<1> HIDE DEF n
<1>13. At(form, p + n)' /\ (OutInv => OutInv')
  BY <1>8, <1>10, <1>12, AtNext
<1>14. req' = ReadTo(form, 0, <<>>)
  <2>1. HeadersTo(form, 0) = <<>> /\ CookiesTo(form, 0) = <<>>
    <3>1. 0 \in Nat
      OBVIOUS
    <3>2. HeadersTo(form, 0) = <<>>
      BY <3>1, HeadersToIs
    <3> QED
      BY <3>2 DEF CookiesTo
  <2>2. req' = Read(form.method, form.uri, ParamsText(form), w, <<>>, <<>>, <<>>)
    BY <1>4, <1>6, <1>8 DEF Read
  <2> QED
    BY <2>1, <2>2 DEF ReadTo, w
<1>15. LengthTo(form, 0) = Absent /\ 0 \in 0..Len(Lines(form))
  <2>1. Len(Lines(form)) \in Nat
    BY <1>2, Numbers
  <2> QED
    BY <2>1 DEF LengthTo
<1>16. InHeaders(form, p + n)'
  BY <1>4, <1>8, <1>11, <1>14, <1>15 DEF InHeaders
<1> QED
  BY <1>13, <1>16 DEF Goes, InRequest

LEMMA NextLine ==
    ASSUME NEW form \in Forms, NEW j \in Nat, j + 1 \in 1..Len(Lines(form))
    PROVE  LET key == Lines(form)[j + 1][1]
               value == Lines(form)[j + 1][2]
               e == Encode(form)
               p == AtLine(form, j)
               q == p + Len(key) + 1
           IN
           /\ p \in Nat /\ q \in Nat /\ Len(key) \in Nat \ {0} /\ Len(value) \in Nat
           /\ AtLine(form, j + 1) = q + Len(value) + 3
           /\ AtLine(form, j + 1) <= Len(e)
           /\ \A t \in Text : Sees(t, e, p) => Finds(t, Blank, {":"}, Len(key) + 1, key)
           /\ \A t \in Text : Sees(t, e, q) => Finds(t, Blank, LineEnds, Len(value) + 2, value)
           /\ e[p + 1] \notin LineEnds
           /\ e[q + Len(value) + 1] \notin LineEnds
           /\ e[q + Len(value) + 2] = "CR" /\ e[q + Len(value) + 3] = "LF"
<1> DEFINE i == j + 1
<1>1. i \in 1..Len(Lines(form)) /\ i - 1 = j
  OBVIOUS
<1> HIDE DEF i
<1>2. LET key == Lines(form)[i][1]
          value == Lines(form)[i][2]
          e == Encode(form)
          p == AtLine(form, i - 1)
          q == p + Len(key) + 1
      IN
      /\ p \in Nat /\ q \in Nat /\ Len(key) \in Nat \ {0} /\ Len(value) \in Nat
      /\ AtLine(form, i) = q + Len(value) + 3
      /\ AtLine(form, i) <= Len(e)
      /\ \A t \in Text : Sees(t, e, p) => Finds(t, Blank, {":"}, Len(key) + 1, key)
      /\ \A t \in Text : Sees(t, e, q) => Finds(t, Blank, LineEnds, Len(value) + 2, value)
      /\ e[p + 1] \notin LineEnds
      /\ e[q + Len(value) + 1] \notin LineEnds
      /\ e[q + Len(value) + 2] = "CR" /\ e[q + Len(value) + 3] = "LF"
  BY <1>1, LineSeen
<1> QED
  BY <1>1, <1>2, Zenon DEF i

(* Behind a line is another, or the empty one.                             *)
LEMMA LineThere ==
    ASSUME NEW form, NEW p, At(form, p), NEW j \in 0..Len(Lines(form)), p = AtLine(form, j)
    PROVE  /\ j < Len(Lines(form)) => ~AtEmptyLine
           /\ j = Len(Lines(form)) /\ Len(Rest) >= 2 => AtEmptyLine
<1>1. /\ form \in Forms /\ Rest \in Text /\ Sees(Rest, Encode(form), p) /\ p \in Nat
      /\ Len(Rest) \in Nat /\ Len(Encode(form)) \in Nat
  BY AtIs
<1>2. Len(Lines(form)) \in Nat
  BY <1>1, Numbers
<1>3. ASSUME j < Len(Lines(form)), AtEmptyLine PROVE FALSE
  <2>1. j + 1 \in 1..Len(Lines(form)) /\ j \in Nat
    BY <1>2, <1>3
  <2>2. /\ Encode(form)[p + 1] \notin LineEnds
        /\ AtLine(form, j + 1) = p + Len(Lines(form)[j + 1][1]) + 1 + Len(Lines(form)[j + 1][2]) + 3
        /\ AtLine(form, j + 1) <= Len(Encode(form))
        /\ Len(Lines(form)[j + 1][1]) \in Nat \ {0} /\ Len(Lines(form)[j + 1][2]) \in Nat
    BY <1>1, <2>1, NextLine
  <2>3. p + 1 <= Len(Encode(form)) /\ 1 \in 1..Len(Rest)
    <3> DEFINE a == Len(Lines(form)[j + 1][1])
               b == Len(Lines(form)[j + 1][2])
               l == Len(Encode(form))
               r == Len(Rest)
               y == AtLine(form, j + 1)
    <3>1. a \in Nat /\ b \in Nat /\ l \in Nat /\ y = p + a + 1 + b + 3 /\ y <= l
      BY <1>1, <2>2
    <3>2. r \in Nat /\ r >= 2
      BY <1>1, <1>3 DEF AtEmptyLine
    <3>3. p \in Nat
      BY <1>1
    <3> HIDE DEF a, b, l, r, y
    <3>4. p + 1 <= l /\ 1 \in 1..r
      BY <3>1, <3>2, <3>3
    <3> QED
      BY <3>4 DEF l, r
  <2>4. Rest[1] = Encode(form)[p + 1]
    BY <1>1, <2>3 DEF Sees
  <2> QED
    BY <1>3, <2>2, <2>4 DEF AtEmptyLine, LineEnds
<1>4. ASSUME j = Len(Lines(form)), Len(Rest) >= 2 PROVE AtEmptyLine
  <2>1. /\ AtBody(form) = p + 2 /\ AtBody(form) <= Len(Encode(form))
        /\ Encode(form)[p + 1] = "CR" /\ Encode(form)[p + 2] = "LF"
    BY <1>1, <1>4, EndSeen
  <2>2. 1 \in 1..Len(Rest) /\ 2 \in 1..Len(Rest) /\ p + 1 <= Len(Encode(form))
        /\ p + 2 <= Len(Encode(form))
    BY <1>1, <1>4, <2>1
  <2>3. Rest[1] = "CR" /\ Rest[2] = "LF"
    BY <1>1, <2>1, <2>2 DEF Sees
  <2> QED
    BY <1>4, <2>3 DEF AtEmptyLine
<1> QED
  BY <1>3, <1>4

(* The key of a line with its colon, and the value with the blank before   *)
(* and the CR behind it                                                    *)
KeySize(form, i) == Len(Lines(form)[i][1]) + 1
ValueSize(form, i) == Len(Lines(form)[i][2]) + 2

LEMMA LineSums ==
    ASSUME NEW p \in Nat, NEW m \in Nat \ {0}, NEW n \in Nat, NEW a, NEW b, NEW y,
           a = m + 1, b = n + 2, y = p + m + 1 + n + 3
    PROVE  /\ a \in Nat \ {0} /\ b \in Nat \ {0} /\ y = p + a + b + 1 /\ p + a \in Nat
           /\ p + m + 1 = p + a
           /\ p + m + 1 + n + 1 = (p + a + b) - 1 /\ p + m + 1 + n + 2 = p + a + b
           /\ p + m + 1 + n + 3 = p + a + b + 1
  OBVIOUS

LEMMA LineSizes ==
    ASSUME NEW form \in Forms, NEW j \in Nat, j + 1 \in 1..Len(Lines(form))
    PROVE  LET p == AtLine(form, j)
               a == KeySize(form, j + 1)
               b == ValueSize(form, j + 1)
               e == Encode(form)
           IN
           /\ p \in Nat /\ a \in Nat \ {0} /\ b \in Nat \ {0} /\ p + a \in Nat
           /\ AtLine(form, j + 1) = p + a + b + 1 /\ AtLine(form, j + 1) <= Len(e)
           /\ \A t \in Text : Sees(t, e, p) => Finds(t, Blank, {":"}, a, Lines(form)[j + 1][1])
           /\ \A t \in Text :
                Sees(t, e, p + a) => Finds(t, Blank, LineEnds, b, Lines(form)[j + 1][2])
           /\ e[p + 1] \notin LineEnds
           /\ e[(p + a + b) - 1] \notin LineEnds
           /\ e[p + a + b] = "CR" /\ e[p + a + b + 1] = "LF"
<1> DEFINE e == Encode(form)
           p == AtLine(form, j)
           y == AtLine(form, j + 1)
           key == Lines(form)[j + 1][1]
           value == Lines(form)[j + 1][2]
           m == Len(key)
           n == Len(value)
           a == KeySize(form, j + 1)
           b == ValueSize(form, j + 1)
<1>1. /\ p \in Nat /\ m \in Nat \ {0} /\ n \in Nat
      /\ y = p + m + 1 + n + 3 /\ y <= Len(e)
      /\ \A t \in Text : Sees(t, e, p) => Finds(t, Blank, {":"}, m + 1, key)
      /\ \A t \in Text : Sees(t, e, p + m + 1) => Finds(t, Blank, LineEnds, n + 2, value)
      /\ e[p + 1] \notin LineEnds
      /\ e[p + m + 1 + n + 1] \notin LineEnds
      /\ e[p + m + 1 + n + 2] = "CR" /\ e[p + m + 1 + n + 3] = "LF"
  BY NextLine
<1>2. a = m + 1 /\ b = n + 2
  BY DEF KeySize, ValueSize
<1> HIDE DEF e, p, y, m, n, a, b
<1>3. /\ a \in Nat \ {0} /\ b \in Nat \ {0} /\ y = p + a + b + 1 /\ p + a \in Nat
      /\ p + m + 1 = p + a
      /\ p + m + 1 + n + 1 = (p + a + b) - 1 /\ p + m + 1 + n + 2 = p + a + b
      /\ p + m + 1 + n + 3 = p + a + b + 1
  <2>1. p \in Nat /\ m \in Nat \ {0} /\ n \in Nat /\ y = p + m + 1 + n + 3
    BY <1>1
  <2> QED
    BY <1>2, <2>1, LineSums
<1> HIDE DEF key, value
<1>4. /\ e[p + 1] \notin LineEnds
      /\ e[(p + a + b) - 1] \notin LineEnds
      /\ e[p + a + b] = "CR" /\ e[p + a + b + 1] = "LF"
  BY <1>1, <1>3, Zenon
<1>5. /\ \A t \in Text : Sees(t, e, p) => Finds(t, Blank, {":"}, a, key)
      /\ \A t \in Text : Sees(t, e, p + a) => Finds(t, Blank, LineEnds, b, value)
  BY <1>1, <1>2, <1>3, Zenon
<1> QED
  BY <1>1, <1>3, <1>4, <1>5 DEF e, p, y, a, b, key, value

(* The key and the value of a line are found once they are there.          *)
LEMMA LineFound ==
    ASSUME NEW form, NEW p, At(form, p), NEW j \in Nat, j + 1 \in 1..Len(Lines(form)),
           p = AtLine(form, j)
    PROVE  LET k == GetChunk(Rest, Blank, {":"})
               v == GetChunk(AfterKey, Blank, LineEnds)
               a == KeySize(form, j + 1)
               b == ValueSize(form, j + 1)
           IN
           /\ a \in Nat \ {0} /\ b \in Nat \ {0} /\ AtLine(form, j + 1) = p + a + b + 1
           /\ AtLine(form, j + 1) <= Len(Encode(form))
           /\ Finds(Rest, Blank, {":"}, a, Lines(form)[j + 1][1])
           /\ k.size > 0 =>
                /\ AfterKey \in Text /\ Len(AfterKey) = Len(Rest) - a
                /\ Finds(AfterKey, Blank, LineEnds, b, Lines(form)[j + 1][2])
                /\ v.size > 0 => LineEndAfter(AfterKey, v.size) = 1
<1> DEFINE e == Encode(form)
           k == GetChunk(Rest, Blank, {":"})
           v == GetChunk(AfterKey, Blank, LineEnds)
           key == Lines(form)[j + 1][1]
           value == Lines(form)[j + 1][2]
           y == AtLine(form, j + 1)
           a == KeySize(form, j + 1)
           b == ValueSize(form, j + 1)
<1>1. /\ form \in Forms /\ Rest \in Text /\ Sees(Rest, e, p) /\ p \in Nat
      /\ Len(Rest) \in Nat /\ Len(e) \in Nat
  BY AtIs
<1>a. LET o == AtLine(form, j) IN
      /\ a \in Nat \ {0} /\ b \in Nat \ {0} /\ o + a \in Nat
      /\ y = o + a + b + 1 /\ y <= Len(e)
      /\ \A t \in Text : Sees(t, e, o) => Finds(t, Blank, {":"}, a, key)
      /\ \A t \in Text : Sees(t, e, o + a) => Finds(t, Blank, LineEnds, b, value)
      /\ e[(o + a + b) - 1] \notin LineEnds
      /\ e[o + a + b] = "CR" /\ e[o + a + b + 1] = "LF"
  BY <1>1, LineSizes
<1>b. AtLine(form, j) = p
  OBVIOUS
<1> HIDE DEF e, k, v, key, value, y, a, b
<1>3. /\ a \in Nat \ {0} /\ b \in Nat \ {0} /\ p + a \in Nat
      /\ y = p + a + b + 1 /\ y <= Len(e)
      /\ \A t \in Text : Sees(t, e, p) => Finds(t, Blank, {":"}, a, key)
      /\ \A t \in Text : Sees(t, e, p + a) => Finds(t, Blank, LineEnds, b, value)
      /\ e[(p + a + b) - 1] \notin LineEnds
      /\ e[p + a + b] = "CR" /\ e[p + a + b + 1] = "LF"
  BY <1>a, <1>b, Zenon
<1>4. Finds(Rest, Blank, {":"}, a, key)
  BY <1>1, <1>3, Zenon
<1>5. ASSUME k.size > 0
      PROVE  /\ AfterKey \in Text /\ Len(AfterKey) = Len(Rest) - a
             /\ Finds(AfterKey, Blank, LineEnds, b, value)
             /\ v.size > 0 => LineEndAfter(AfterKey, v.size) = 1
  <2>1. k.size = a
    BY <1>4, <1>5 DEF Finds, k
  <2>2. /\ AfterKey \in Text /\ Len(AfterKey) = Len(Rest) - a
        /\ \A i \in 1..Len(AfterKey) : AfterKey[i] = Rest[a + i]
    BY <1>5, <2>1, AfterKeyIs DEF At, k
  <2>3. a \in Nat /\ Sees(AfterKey, e, p + a)
    BY <1>1, <1>3, <2>2, SeesBehind
  <2>4. Finds(AfterKey, Blank, LineEnds, b, value)
    BY <1>3, <2>2, <2>3, Zenon
  <2>5. ASSUME v.size > 0 PROVE LineEndAfter(AfterKey, v.size) = 1
    <3>1. v.size = b /\ b <= Len(AfterKey)
      BY <2>4, <2>5 DEF Finds, v
    <3> DEFINE o == p + a
               x == o + b
               l == Len(e)
               c == Len(AfterKey)
               r == Len(Rest)
    <3>2. l \in Nat /\ c \in Nat /\ r \in Nat /\ b <= c /\ y <= l /\ c = r - a
      <4>1. AfterKey \in Text
        BY <2>2
      <4>2. c \in Nat
        BY <4>1, TextIs
      <4>3. l \in Nat /\ r \in Nat /\ y <= l /\ c = r - a
        BY <1>1, <1>3, <2>2
      <4> QED
        BY <3>1, <4>2, <4>3
    <3>3. a \in Nat \ {0} /\ b \in Nat \ {0} /\ y = p + a + b + 1 /\ p \in Nat
      BY <1>1, <1>3
    <3> HIDE DEF l, c, r
    <3>4. /\ o \in Nat /\ b \in Nat /\ b \in 1..c /\ x \in Nat /\ x > 1 /\ x + 1 <= l
          /\ c = r - (o - p)
      BY <3>2, <3>3, SMTT(40)
    <3>5. e[x] = "CR" /\ e[x + 1] = "LF" /\ e[x - 1] \notin LineEnds
      BY <1>3, Zenon
    <3> HIDE DEF x
    <3>6. e[x - 1] # "LF"
      BY <3>5 DEF LineEnds
    <3> HIDE DEF o
    <3>7. /\ At(form, p) /\ AfterKey \in Text /\ o \in Nat /\ b \in Nat /\ x \in Nat
          /\ Sees(AfterKey, Encode(form), o) /\ Len(AfterKey) = Len(Rest) - (o - p)
          /\ b \in 1..Len(AfterKey) /\ x = o + b /\ x > 1 /\ x + 1 <= Len(Encode(form))
          /\ Encode(form)[x] = "CR" /\ Encode(form)[x + 1] = "LF"
          /\ Encode(form)[x - 1] # "LF"
      <4>1. Sees(AfterKey, e, o) /\ x = o + b
        BY <2>3 DEF o, x
      <4> QED
        BY <2>2, <3>4, <3>5, <3>6, <4>1 DEF e, l, c, r
    <3>8. LineEndAfter(AfterKey, b) = 1
      BY <3>7, LineEndThere
    <3> QED
      BY <3>1, <3>8
  <2> QED
    BY <2>2, <2>4, <2>5
<1> QED
  BY <1>3, <1>4, <1>5 DEF e, k, v, key, value, y, a, b

LEMMA HeaderKeeps ==
    ASSUME NEW form, NEW p, At(form, p), InHeaders(form, p), Header, TypeInv', StreamInv'
    PROVE  Goes(form)' /\ (OutInv => OutInv')
<1> DEFINE k == GetChunk(Rest, Blank, {":"})
           v == GetChunk(AfterKey, Blank, LineEnds)
<1>1. /\ form \in Forms /\ p \in Nat /\ Len(Lines(form)) \in Nat
  BY AtIs, Numbers
<1>2. PICK j \in 0..Len(Lines(form)) :
        p = AtLine(form, j) /\ req = ReadTo(form, j, <<>>) /\ length = LengthTo(form, j)
  BY DEF InHeaders
<1>3. ~AtEmptyLine /\ Len(Rest) >= 2 /\ k.size > 0 /\ v.size > 0
  BY DEF Header, HeaderComplete
<1>4. j \in Nat /\ j + 1 \in 1..Len(Lines(form)) /\ j + 1 \in 0..Len(Lines(form))
  <2>1. j # Len(Lines(form))
    BY <1>2, <1>3, LineThere
  <2> QED
    BY <1>1, <2>1
<1> DEFINE a == KeySize(form, j + 1)
           b == ValueSize(form, j + 1)
           l == Lines(form)[j + 1]
           n == a + b + 1
<1>5. /\ a \in Nat \ {0} /\ b \in Nat \ {0} /\ AtLine(form, j + 1) = p + a + b + 1
      /\ Finds(Rest, Blank, {":"}, a, l[1]) /\ Finds(AfterKey, Blank, LineEnds, b, l[2])
      /\ LineEndAfter(AfterKey, v.size) = 1
  BY <1>2, <1>3, <1>4, LineFound
<1>6. k.size = a /\ k.value = l[1] /\ v.size = b /\ v.value = l[2]
  BY <1>3, <1>5 DEF Finds
<1>7. /\ req' = WithHeader(req, k.value, v.value)
      /\ length' = IF length = Absent /\ k.value = ContentLength
                   THEN LengthIn(v.value) ELSE length
      /\ ptr' = ptr + (k.size + v.size + LineEndAfter(AfterKey, v.size))
      /\ UNCHANGED <<sent, stream, ends, wire, joined, buf, pc, stage, out, conn>>
  BY DEF Header, Pass, inVars
<1>8. req' = ReadTo(form, j + 1, <<>>)
  BY <1>1, <1>2, <1>4, <1>6, <1>7, HeaderRead
<1>9. length' = LengthTo(form, j + 1)
  BY <1>1, <1>2, <1>4, <1>6, <1>7, LengthNext
<1> HIDE DEF k, v, l, a, b
<1>10. ptr' = ptr + n /\ n \in Nat
  BY <1>5, <1>6, <1>7
<1>11. p + n = AtLine(form, j + 1)
  BY <1>1, <1>5
<1>12. Moves
  BY <1>7 DEF Moves, TypeInv, TypeOK
<1> HIDE DEF n
<1>13. At(form, p + n)' /\ (OutInv => OutInv')
  BY <1>7, <1>10, <1>12, AtNext
<1>14. InHeaders(form, p + n)'
  BY <1>4, <1>7, <1>8, <1>9, <1>11 DEF InHeaders
<1> QED
  BY <1>13, <1>14 DEF Goes, InRequest

LEMMA EndHeadersKeeps ==
    ASSUME NEW form, NEW p, At(form, p), InHeaders(form, p), EndHeaders, TypeInv', StreamInv'
    PROVE  Goes(form)' /\ (OutInv => OutInv')
<1> DEFINE body == BodyText(form)
<1>1. /\ form \in Forms /\ p \in Nat /\ Len(Lines(form)) \in Nat
      /\ body \in Text /\ Len(body) \in Nat /\ AtBody(form) \in Nat
  BY AtIs, Numbers, BodyTextIs
<1>2. PICK j \in 0..Len(Lines(form)) :
        p = AtLine(form, j) /\ req = ReadTo(form, j, <<>>) /\ length = LengthTo(form, j)
  BY DEF InHeaders
<1>3. AtEmptyLine
  BY DEF EndHeaders
<1>4. j = Len(Lines(form))
  <2>1. ~(j < Len(Lines(form)))
    BY <1>2, <1>3, LineThere
  <2> QED
    BY <1>1, <2>1
<1>5. /\ stage' = "body" /\ ptr' = ptr + 2
      /\ UNCHANGED <<sent, stream, ends, wire, joined, buf, pc, req, length, out, conn>>
  BY DEF EndHeaders, Pass, inVars
<1>6. Moves
  BY <1>5 DEF Moves, TypeInv, TypeOK
<1>7. At(form, p + 2)' /\ (OutInv => OutInv')
  <2>1. 2 \in Nat
    OBVIOUS
  <2> QED
    BY <1>5, <1>6, <2>1, AtNext
<1>8. p + 2 = AtBody(form) + 0
  BY <1>1, <1>2, <1>4 DEF AtBody
<1>9. SubSeq(body, 1, 0) = <<>>
  <2>1. body \in Seq(Bytes) /\ 1 \in 1..Len(body) + 1 /\ 0 \in 0..Len(body)
    BY <1>1, TextIs
  <2> QED
    BY <2>1, SubSeqIs
<1>10. req' = ReadTo(form, Len(Lines(form)), SubSeq(body, 1, 0))
       /\ length' = LengthTo(form, Len(Lines(form)))
  BY <1>2, <1>4, <1>5, <1>9
<1>11. ptr' # 0
  <2>1. ptr \in Nat
    BY RestIs DEF At
  <2> QED
    BY <1>5, <2>1
<1>12. 0 \in 0..Len(body)
  BY <1>1
<1>13. InBody(form, p + 2)'
  BY <1>5, <1>8, <1>10, <1>11, <1>12 DEF InBody
<1> QED
  BY <1>7, <1>13 DEF Goes, InRequest

(* The parts of a request follow each other.                               *)
LEMMA PlacesFollow ==
    ASSUME NEW form \in Forms
    PROVE  /\ AtUri(form) < AtParams(form) + 1 /\ AtParams(form) + 1 <= AtVersion(form)
           /\ AtParams(form) = AtUri(form) + Len(form.uri)
           /\ AtVersion(form) = AtParams(form) + Len(QueryText(form)) + 1
           /\ AtHeaders(form) = AtVersion(form) + Len(form.version) + 2
           /\ AtHeaders(form) <= Len(Encode(form))
<1> DEFINE u == AtUri(form)
           m == Len(form.uri)
           q == Len(QueryText(form))
           v == Len(form.version)
           l == Len(Encode(form))
           x == AtParams(form)
           y == AtVersion(form)
           z == AtHeaders(form)
<1>1. u \in Nat /\ m \in Nat \ {0} /\ q \in Nat /\ v \in Nat \ {0}
  BY Numbers
<1>2. x = u + m /\ y = x + q + 1 /\ z = y + v + 2
  BY DEF AtParams, AtVersion, AtHeaders
<1>3. z <= l
  <2>1. <<>> \in Text /\ Len(<<>>) = 0
    BY TextIs
  <2>2. Sees(<<>>, Encode(form), AtVersion(form))
    BY <2>1 DEF Sees
  <2> QED
    BY <2>1, <2>2, VersionSeen
<1> HIDE DEF u, m, q, v, l, x, y, z
<1>4. u < x + 1 /\ x + 1 <= y
  BY <1>1, <1>2
<1> QED
  BY <1>2, <1>3, <1>4 DEF u, m, q, v, l, x, y, z

(* What the parser finds nothing in is not the whole rest of a request.    *)
LEMMA NotFound ==
    ASSUME NEW t, NEW prefix, NEW stops, NEW n \in Nat \ {0}, NEW token,
           Finds(t, prefix, stops, n, token), GetChunk(t, prefix, stops).size = 0
    PROVE  ~(n <= Len(t))
  BY DEF Finds

Incomplete(form, p) == p + Len(Rest) < Len(Encode(form))

LEMMA MethodWaits ==
    ASSUME NEW form, NEW p, At(form, p), AtStart(p), GetChunk(Rest, Blank, {Blank}).size = 0
    PROVE  Incomplete(form, p)
<1>1. /\ form \in Forms /\ Rest \in Text /\ Sees(Rest, Encode(form), p) /\ p = 0
      /\ Len(Rest) \in Nat /\ Len(Encode(form)) \in Nat
  BY AtIs DEF AtStart
<1>2. Finds(Rest, Blank, {Blank}, AtUri(form), form.method)
  BY <1>1, MethodSeen
<1>3. AtUri(form) \in Nat \ {0} /\ AtParams(form) \in Nat /\ AtVersion(form) \in Nat
      /\ AtHeaders(form) \in Nat /\ Len(form.version) \in Nat
  BY <1>1, Numbers DEF AtUri
<1>4. ~(AtUri(form) <= Len(Rest))
  BY <1>2, <1>3, NotFound
<1>5. /\ AtUri(form) < AtParams(form) + 1 /\ AtParams(form) + 1 <= AtVersion(form)
      /\ AtHeaders(form) = AtVersion(form) + Len(form.version) + 2
      /\ AtHeaders(form) <= Len(Encode(form))
  BY <1>1, PlacesFollow
<1>6. AtVersion(form) <= AtHeaders(form)
  BY <1>3, <1>5
<1>7. 0 + Len(Rest) < Len(Encode(form))
  BY <1>1, <1>3, <1>4, <1>5, <1>6
<1> QED
  BY <1>1, <1>7 DEF Incomplete

LEMMA UriWaits ==
    ASSUME NEW form, NEW p, At(form, p), InUri(form, p),
           GetChunk(Rest, Blank, {"?", Blank}).size = 0
    PROVE  Incomplete(form, p)
<1>1. /\ form \in Forms /\ Rest \in Text /\ Sees(Rest, Encode(form), p) /\ p = AtUri(form)
      /\ Len(Rest) \in Nat /\ Len(Encode(form)) \in Nat
  BY AtIs DEF InUri
<1>2. Finds(Rest, Blank, {"?", Blank}, Len(form.uri) + 1, form.uri)
  BY <1>1, UriSeen
<1>3. Len(form.uri) + 1 \in Nat \ {0} /\ Len(form.uri) \in Nat /\ Len(form.version) \in Nat
      /\ AtUri(form) \in Nat /\ AtParams(form) \in Nat /\ AtVersion(form) \in Nat
  BY <1>1, Numbers
<1>4. ~(Len(form.uri) + 1 <= Len(Rest))
  BY <1>2, <1>3, NotFound
<1>5. /\ AtParams(form) = AtUri(form) + Len(form.uri) /\ AtParams(form) + 1 <= AtVersion(form)
      /\ AtHeaders(form) = AtVersion(form) + Len(form.version) + 2
      /\ AtHeaders(form) <= Len(Encode(form))
  BY <1>1, PlacesFollow
<1> DEFINE l == Len(Encode(form))
           r == Len(Rest)
           m == Len(form.uri)
           v == Len(form.version)
           x == AtUri(form)
           y == AtVersion(form)
<1>6. r \in Nat /\ l \in Nat /\ m \in Nat /\ v \in Nat /\ x \in Nat /\ y \in Nat
      /\ ~(m + 1 <= r) /\ x + m + 1 <= y /\ y + v + 2 <= l
  BY <1>1, <1>3, <1>4, <1>5
<1> HIDE DEF l, r, m, v, x, y
<1>7. x + r < l
  BY <1>6
<1> QED
  BY <1>1, <1>7 DEF Incomplete, x, r, l

LEMMA ParamsWait ==
    ASSUME NEW form, NEW p, At(form, p), InParams(form, p), AtMark,
           GetChunk(Tail(Rest), "?", {Blank}).size = 0
    PROVE  Incomplete(form, p)
<1> DEFINE w == PairsText(form.query, <<"&">>)
           t == Tail(Rest)
<1>1. /\ form \in Forms /\ Len(Rest) \in Nat /\ Len(Encode(form)) \in Nat
  BY AtIs
<1>2. /\ form.query # <<>> /\ p = AtParams(form) /\ t \in Text /\ Len(t) = Len(Rest) - 1
      /\ Sees(t, Encode(form), p + 1)
  BY MarkThere
<1>3. /\ Finds(t, "?", {Blank}, Len(w) + 1, w) /\ Len(w) \in Nat
      /\ Len(QueryText(form)) = Len(w) + 1
  BY <1>1, <1>2, ParamsSeen
<1>4. ~(Len(w) + 1 <= Len(t))
  <2>1. Len(w) + 1 \in Nat \ {0}
    BY <1>3
  <2> QED
    BY <1>3, <2>1, NotFound
<1>5. /\ AtVersion(form) = AtParams(form) + Len(QueryText(form)) + 1
      /\ AtHeaders(form) = AtVersion(form) + Len(form.version) + 2
      /\ AtHeaders(form) <= Len(Encode(form))
      /\ AtParams(form) \in Nat /\ Len(form.version) \in Nat
  BY <1>1, PlacesFollow, Numbers
<1> DEFINE l == Len(Encode(form))
           r == Len(Rest)
           m == Len(w)
           v == Len(form.version)
           x == AtParams(form)
<1>6. r \in Nat /\ l \in Nat /\ m \in Nat /\ v \in Nat /\ x \in Nat
      /\ ~(m + 1 <= r - 1) /\ x + (m + 1) + 1 + v + 2 <= l
  BY <1>1, <1>2, <1>3, <1>4, <1>5
<1> HIDE DEF l, r, m, v, x
<1>7. x + r < l
  BY <1>6
<1> QED
  BY <1>2, <1>7 DEF Incomplete, x, r, l

LEMMA VersionWaits ==
    ASSUME NEW form, NEW p, At(form, p), InParams(form, p) \/ InVersion(form, p), WantsVersion,
           GetChunk(Rest, Blank, LineEnds).size = 0
    PROVE  Incomplete(form, p)
<1>1. /\ form \in Forms /\ Rest \in Text /\ Sees(Rest, Encode(form), p) /\ p \in Nat
      /\ Len(Rest) \in Nat /\ Len(Encode(form)) \in Nat
  BY AtIs
<1>2. Len(form.version) \in Nat \ {0} /\ AtParams(form) \in Nat /\ AtVersion(form) \in Nat
      /\ Len(form.version) + 1 \in Nat \ {0}
  BY <1>1, Numbers
<1>3. /\ AtParams(form) + 1 <= AtVersion(form)
      /\ AtHeaders(form) = AtVersion(form) + Len(form.version) + 2
      /\ AtHeaders(form) <= Len(Encode(form))
  BY <1>1, PlacesFollow
<1> DEFINE l == Len(Encode(form))
           r == Len(Rest)
           v == Len(form.version)
           x == AtParams(form)
           y == AtVersion(form)
<1>4. r \in Nat /\ l \in Nat /\ v \in Nat /\ x \in Nat /\ y \in Nat
      /\ x + 1 <= y /\ y + v + 2 <= l
  BY <1>1, <1>2, <1>3
<1>5. CASE p = AtVersion(form)
  <2>1. Finds(Rest, Blank, LineEnds, Len(form.version) + 1, form.version)
    BY <1>1, <1>5, VersionSeen
  <2>2. ~(v + 1 <= r)
    BY <1>2, <2>1, NotFound
  <2> HIDE DEF l, r, v, x, y
  <2>3. y + r < l
    BY <1>4, <2>2
  <2> QED
    BY <1>5, <2>3 DEF Incomplete, y, r, l
<1>6. CASE Rest = <<>> /\ p = AtParams(form)
  <2>1. r = 0
    BY <1>6
  <2> HIDE DEF l, r, v, x, y
  <2>2. x + r < l
    BY <1>4, <2>1
  <2> QED
    BY <1>6, <2>2 DEF Incomplete, x, r, l
<1> QED
  BY <1>5, <1>6, VersionWanted

LEMMA HeadersWait ==
    ASSUME NEW form, NEW p, At(form, p), InHeaders(form, p), ~AtEmptyLine, ~HeaderComplete
    PROVE  Incomplete(form, p)
<1> DEFINE l == Len(Encode(form))
           r == Len(Rest)
<1>1. /\ form \in Forms /\ p \in Nat /\ Len(Lines(form)) \in Nat /\ r \in Nat /\ l \in Nat
  BY AtIs, Numbers
<1>2. PICK j \in 0..Len(Lines(form)) : p = AtLine(form, j)
  BY DEF InHeaders
<1>3. CASE j = Len(Lines(form))
  <2>1. ~(r >= 2)
    BY <1>2, <1>3, LineThere
  <2>2. p + 2 <= l
    BY <1>1, <1>2, <1>3, EndSeen
  <2> HIDE DEF l, r
  <2>3. p + r < l
    BY <1>1, <2>1, <2>2
  <2> QED
    BY <2>3 DEF Incomplete, l, r
<1>4. CASE j # Len(Lines(form))
  <2>1. j \in Nat /\ j + 1 \in 1..Len(Lines(form))
    BY <1>1, <1>4
  <2> DEFINE a == KeySize(form, j + 1)
             b == ValueSize(form, j + 1)
             y == AtLine(form, j + 1)
             key == Lines(form)[j + 1][1]
             value == Lines(form)[j + 1][2]
             c == Len(AfterKey)
  <2>2. /\ a \in Nat \ {0} /\ b \in Nat \ {0} /\ y = p + a + b + 1 /\ y <= l
        /\ Finds(Rest, Blank, {":"}, a, key)
        /\ GetChunk(Rest, Blank, {":"}).size > 0 =>
             c = r - a /\ Finds(AfterKey, Blank, LineEnds, b, value)
    BY <1>2, <2>1, LineFound
  <2>3. \/ ~(r >= 2) \/ ~(a <= r) \/ (c = r - a /\ ~(b <= c))
    <3>1. CASE GetChunk(Rest, Blank, {":"}).size = 0
      <4>1. ~(a <= r)
        BY <2>2, <3>1, NotFound
      <4> QED
        BY <4>1
    <3>2. CASE GetChunk(Rest, Blank, {":"}).size # 0
      <4>1. /\ GetChunk(Rest, Blank, {":"}).size \in 0..Len(Rest)
            /\ GetChunk(AfterKey, Blank, LineEnds).size \in 0..Len(AfterKey)
            /\ Len(AfterKey) \in Nat
        <5>1. Rest \in Text /\ AfterKey \in Text
          BY AtIs, AfterKeyIs DEF At
        <5>2. Len(AfterKey) \in Nat
          BY <5>1, TextIs
        <5> QED
          BY <5>1, <5>2, ChunkIsText
      <4>2. GetChunk(Rest, Blank, {":"}).size > 0
        BY <1>1, <3>2, <4>1
      <4>3. CASE GetChunk(AfterKey, Blank, LineEnds).size = 0
        <5>1. ~(b <= c)
          BY <2>2, <4>2, <4>3, NotFound
        <5> QED
          BY <2>2, <4>2, <5>1
      <4>4. CASE GetChunk(AfterKey, Blank, LineEnds).size # 0
        <5>1. GetChunk(AfterKey, Blank, LineEnds).size > 0
          BY <4>1, <4>4
        <5> QED
          BY <4>2, <5>1 DEF HeaderComplete
      <4> QED
        BY <4>3, <4>4
    <3> QED
      BY <3>1, <3>2
  <2>4. a \in Nat \ {0} /\ b \in Nat \ {0} /\ y = p + a + b + 1 /\ y <= l
    BY <2>2
  <2> HIDE DEF l, r, a, b, y, c
  <2>5. p + r < l
    BY <1>1, <2>3, <2>4
  <2> QED
    BY <2>5 DEF Incomplete, l, r
<1> QED
  BY <1>3, <1>4

(* Where nothing is found, the request goes on beyond what has arrived.    *)
LEMMA StillToCome ==
    ASSUME NEW form, NEW p, At(form, p), Incomplete(form, p)
    PROVE  Arrived < ends[K]
<1> DEFINE a == StartOf(K)
           l == Len(Encode(form))
           r == Len(Rest)
<1>1. a \in Nat /\ r \in Nat /\ l \in Nat /\ p \in Nat /\ Arrived = a + p + r /\ ends[K] = a + l
      /\ p + r < l
  BY AtIs DEF Incomplete
<1> HIDE DEF a, l, r
<1> QED
  BY <1>1

LEMMA NeedMoreKeeps ==
    ASSUME NEW form, NEW p, At(form, p), AtStart(p) \/ InRequest(form, p), NeedMore,
           TypeInv', StreamInv', ControlTypes'
    PROVE  Goes(form)' /\ (OutInv => OutInv') /\ WaitInv'
<1>1. /\ UNCHANGED <<sent, stream, ends, wire, joined, stage, req, length, out, conn>>
      /\ ReturnCall(ptr)
  BY DEF NeedMore, inVars, parserVars
<1>2. p + 0 = p /\ ptr + 0 = ptr /\ 0 \in Nat /\ ptr \in 0..Len(buf)
  <2>1. p \in Nat /\ ptr \in 0..Len(buf) /\ Len(buf) \in Nat
    BY RestIs DEF At
  <2> QED
    BY <2>1
<1>3. Drops(ptr + 0)
  BY <1>1, <1>2 DEF Drops
<1>4. /\ At(form, p + 0)' /\ (OutInv => OutInv') /\ Arrived' = Arrived /\ K' = K
  BY <1>1, <1>2, <1>3, AtDrop
<1>5. At(form, p)'
  BY <1>2, <1>4
<1>6. ASSUME AtStart(p) PROVE AtStart(p)' /\ Incomplete(form, p)
  <2>1. AtStart(p)'
    BY <1>1, <1>6 DEF AtStart
  <2>2. GetChunk(Rest, Blank, {Blank}).size = 0
    BY <1>6 DEF NeedMore, AtStart, In, WantsVersion
  <2>3. Incomplete(form, p)
    BY <1>6, <2>2, MethodWaits
  <2> QED
    BY <2>1, <2>3
<1>7. ASSUME InUri(form, p) PROVE InUri(form, p)' /\ Incomplete(form, p)
  <2>1. InUri(form, p)'
    BY <1>1, <1>7 DEF InUri
  <2>2. GetChunk(Rest, Blank, {"?", Blank}).size = 0
    BY <1>7 DEF NeedMore, InUri, In, WantsVersion
  <2>3. Incomplete(form, p)
    BY <1>7, <2>2, UriWaits
  <2> QED
    BY <2>1, <2>3
<1>8. ASSUME InParams(form, p) PROVE InParams(form, p)' /\ Incomplete(form, p)
  <2>1. InParams(form, p)'
    BY <1>1, <1>8 DEF InParams
  <2>2. \/ AtMark /\ GetChunk(Tail(Rest), "?", {Blank}).size = 0
        \/ WantsVersion /\ GetChunk(Rest, Blank, LineEnds).size = 0
    BY <1>8 DEF NeedMore, InParams, In
  <2>3. Incomplete(form, p)
    BY <1>8, <2>2, ParamsWait, VersionWaits
  <2> QED
    BY <2>1, <2>3
<1>9. ASSUME InVersion(form, p) PROVE InVersion(form, p)' /\ Incomplete(form, p)
  <2>1. InVersion(form, p)'
    BY <1>1, <1>9 DEF InVersion
  <2>2. WantsVersion /\ GetChunk(Rest, Blank, LineEnds).size = 0
    BY <1>9 DEF NeedMore, InVersion, In
  <2>3. Incomplete(form, p)
    BY <1>9, <2>2, VersionWaits
  <2> QED
    BY <2>1, <2>3
<1>10. ASSUME InHeaders(form, p) PROVE InHeaders(form, p)' /\ Incomplete(form, p)
  <2>1. InHeaders(form, p)'
    BY <1>1, <1>10 DEF InHeaders
  <2>2. ~AtEmptyLine /\ ~HeaderComplete
    BY <1>10 DEF NeedMore, InHeaders, In, WantsVersion
  <2>3. Incomplete(form, p)
    BY <1>10, <2>2, HeadersWait
  <2> QED
    BY <2>1, <2>3
<1>11. ~InBody(form, p)
  BY DEF NeedMore, InBody, In, WantsVersion
<1>12. (AtStart(p) \/ InRequest(form, p))' /\ Incomplete(form, p)
  BY <1>6, <1>7, <1>8, <1>9, <1>10, <1>11 DEF InRequest
<1>13. Arrived < ends[K]
  BY <1>12, StillToCome
<1>14. WaitInv'
  BY <1>1, <1>4, <1>13 DEF WaitInv
<1> QED
  BY <1>4, <1>5, <1>12, <1>14 DEF Goes

(* The whole request is read, the body too.                                *)
Given(form) == ReadTo(form, Len(Lines(form)), BodyText(form))

LEMMA BodyGrows ==
    ASSUME NEW form, NEW n, NEW g, NEW t
    PROVE  [ReadTo(form, n, g) EXCEPT !.body = @ \o t] = ReadTo(form, n, g \o t)
<1> DEFINE r == ReadTo(form, n, g)
<1>1. r.body = g
  BY DEF ReadTo, Read
<1>2. [r EXCEPT !.body = g \o t] = ReadTo(form, n, g \o t)
  <2> DEFINE a == form.method
             b == form.uri
             c == ParamsText(form)
             d == form.version
             h == HeadersTo(form, n)
             k == CookiesTo(form, n)
             u == g \o t
  <2> HIDE DEF a, b, c, d, h, k, u
  <2>1. [Read(a, b, c, d, h, k, g) EXCEPT !.body = u] = Read(a, b, c, d, h, k, u)
    BY DEF Read
  <2> QED
    BY <2>1 DEF ReadTo, a, b, c, d, h, k, u
<1> HIDE DEF r
<1> QED
  BY <1>1, <1>2 DEF r

LEMMA ReadPart ==
    ASSUME NEW S, NEW s \in Seq(S), NEW t \in Seq(S), NEW b \in 0..Len(s),
           b + Len(t) <= Len(s), \A m \in 1..Len(t) : t[m] = s[b + m]
    PROVE  SubSeq(s, 1, b) \o t = SubSeq(s, 1, b + Len(t)) /\ b + Len(t) \in 0..Len(s)
<1> DEFINE a == SubSeq(s, 1, b)
           c == a \o t
           n == b + Len(t)
           d == SubSeq(s, 1, n)
<1>1. Len(s) \in Nat /\ Len(t) \in Nat /\ b \in Nat
  OBVIOUS
<1>2. n \in 0..Len(s) /\ 1 \in 1..Len(s) + 1 /\ n \in Nat
  BY <1>1
<1>3. /\ a \in Seq(S) /\ Len(a) = IF 1 <= b THEN b - 1 + 1 ELSE 0
      /\ \A m \in 1..Len(a) : a[m] = s[1 + m - 1]
  BY <1>2, SubSeqIs
<1>4. /\ d \in Seq(S) /\ Len(d) = IF 1 <= n THEN n - 1 + 1 ELSE 0
      /\ \A m \in 1..Len(d) : d[m] = s[1 + m - 1]
  BY <1>2, SubSeqIs
<1> HIDE DEF a, d
<1>5. /\ c \in Seq(S) /\ Len(c) = Len(a) + Len(t)
      /\ \A m \in 1..Len(a) : c[m] = a[m]
      /\ \A m \in 1..Len(t) : c[Len(a) + m] = t[m]
  <2>1. a \in Seq(S)
    BY <1>3
  <2> QED
    BY <2>1, ConcatIs
<1> HIDE DEF c
<1>6. Len(a) = b /\ Len(d) = n
  BY <1>1, <1>2, <1>3, <1>4
<1>7. ASSUME NEW m \in 1..n PROVE c[m] = d[m]
  <2>1. d[m] = s[m]
    <3>1. 1 + m - 1 = m
      BY <1>1, <1>2
    <3> QED
      BY <1>4, <1>6, <3>1
  <2>2. CASE m <= b
    <3>1. m \in 1..b /\ 1 + m - 1 = m
      BY <1>1, <1>2, <2>2
    <3> QED
      BY <1>3, <1>5, <1>6, <2>1, <3>1
  <2>3. CASE ~(m <= b)
    <3>1. m - b \in 1..Len(t) /\ b + (m - b) = m
      BY <1>1, <1>2, <2>3
    <3> QED
      BY <1>5, <1>6, <2>1, <3>1
  <2> QED
    BY <2>2, <2>3
<1>8. Len(c) = n
  BY <1>5, <1>6
<1>9. c = d
  BY <1>4, <1>5, <1>6, <1>7, <1>8, SameSeq
<1> QED
  BY <1>2, <1>9 DEF c, d, a

(* A request with a Content-Length is read before bytes of another come.   *)
LEMMA BodyRead ==
    ASSUME NEW form, NEW p, At(form, p), NEW b \in 0..Len(BodyText(form)), p = AtBody(form) + b,
           length = LengthTo(form, Len(Lines(form))), length # Absent,
           req = ReadTo(form, Len(Lines(form)), SubSeq(BodyText(form), 1, b))
    PROVE  /\ length = Len(BodyText(form)) /\ length \in Nat /\ b + Len(Rest) <= length
           /\ BodyPart = Rest /\ Len(WithPart.body) = b + Len(Rest)
           /\ WithPart = ReadTo(form, Len(Lines(form)), SubSeq(BodyText(form), 1, b + Len(Rest)))
<1> DEFINE body == BodyText(form)
           e == Encode(form)
           r == Len(Rest)
           l == Len(body)
           o == StartOf(K)
           x == AtBody(form)
<1>1. /\ form \in Forms /\ Rest \in Text /\ r \in Nat /\ Sees(Rest, e, p) /\ p \in Nat
      /\ o \in Nat /\ Arrived = o + p + r /\ ends[K] = o + Len(e) /\ K \in 1..Len(sent)
      /\ form = sent[K] /\ ~Overtakes(Arrived)
  BY AtIs DEF At, PieceInv
<1>2. /\ Len(e) = x + l /\ l \in Nat /\ x \in Nat /\ body \in Text /\ Len(e) \in Nat
  BY <1>1, Numbers, BodyTextIs
<1>3. length = l
  BY <1>1, LengthAtEnd
<1>4. Arrived <= ends[K]
  <2>1. \E i \in DOMAIN sent[K].headers : sent[K].headers[i][1] = ContentLength
    BY <1>1, LengthAtEnd
  <2>2. Len(out) \in Nat /\ Len(sent) \in Nat
    BY <1>1 DEF At, TypeInv, TypeOK
  <2>3. K \in Len(out) + 1..Len(sent)
    BY <1>1, <2>2 DEF K
  <2>4. ~(Arrived > ends[K])
    BY <1>1, <2>1, <2>3 DEF Overtakes
  <2> QED
    BY <1>1, <1>2, <2>4, SMTT(40)
<1>5. b \in Nat /\ b <= l
  BY <1>2
<1>6. b + r <= l /\ p = x + b
  <2> DEFINE y == Len(e)
  <2>1. /\ o + p + r <= o + y /\ p = x + b /\ y = x + l
        /\ o \in Nat /\ p \in Nat /\ r \in Nat /\ x \in Nat /\ l \in Nat /\ b \in Nat
    BY <1>1, <1>2, <1>4, <1>5
  <2> HIDE DEF body, e, r, l, o, x, y
  <2> QED
    BY <2>1
<1>7. BodyPart = Rest
  <2>1. /\ BodyPart \in Text /\ Len(BodyPart) = IF r < length THEN r ELSE length
        /\ \A m \in 1..Len(BodyPart) : BodyPart[m] = Rest[m]
    BY BodyPartIs DEF At
  <2>2. Len(BodyPart) = r
    <3> HIDE DEF r, l
    <3> QED
      BY <1>1, <1>2, <1>3, <1>5, <1>6, <2>1
  <2> QED
    BY <1>1, <2>1, <2>2, TextIs, SameSeq
<1>8. ASSUME NEW m \in 1..r PROVE Rest[m] = body[b + m]
  <2>1. p + m <= Len(e) /\ b + m \in 1..l /\ x + (b + m) = p + m
    <3> DEFINE y == Len(e)
    <3>1. /\ y = x + l /\ p = x + b /\ b + r <= l
          /\ r \in Nat /\ x \in Nat /\ l \in Nat /\ b \in Nat
      BY <1>1, <1>2, <1>5, <1>6
    <3> HIDE DEF body, e, r, l, x, y
    <3>2. p + m <= y /\ b + m \in 1..l /\ x + (b + m) = p + m
      BY <3>1
    <3> QED
      BY <3>2 DEF y
  <2>2. Rest[m] = e[p + m]
    BY <1>1, <2>1 DEF Sees
  <2>3. e[x + (b + m)] = body[b + m]
    BY <1>1, <2>1, EndSeen
  <2> QED
    BY <2>1, <2>2, <2>3
<1> HIDE DEF body
<1>9. SubSeq(body, 1, b) \o Rest = SubSeq(body, 1, b + r) /\ b + r \in 0..Len(body)
  <2>1. body \in Seq(Bytes) /\ Rest \in Seq(Bytes)
    BY <1>1, <1>2, TextIs
  <2> QED
    BY <1>5, <1>6, <1>8, <2>1, ReadPart
<1>10. WithPart = ReadTo(form, Len(Lines(form)), SubSeq(body, 1, b + r))
  <2>1. req = ReadTo(form, Len(Lines(form)), SubSeq(body, 1, b))
    BY DEF body
  <2>2. SubSeq(body, 1, b) \o BodyPart = SubSeq(body, 1, b + r)
    BY <1>7, <1>9
  <2> DEFINE g == SubSeq(body, 1, b)
             h == SubSeq(body, 1, b + r)
             n == Len(Lines(form))
  <2> HIDE DEF g, h, n
  <2>3. WithPart = [ReadTo(form, n, g) EXCEPT !.body = @ \o BodyPart]
    BY <2>1 DEF WithPart, g, n
  <2>4. [ReadTo(form, n, g) EXCEPT !.body = @ \o BodyPart] = ReadTo(form, n, g \o BodyPart)
    BY BodyGrows
  <2>5. g \o BodyPart = h
    BY <2>2 DEF g, h
  <2> QED
    BY <2>3, <2>4, <2>5 DEF h, n
<1>11. Len(WithPart.body) = b + r
  <2>1. WithPart.body = SubSeq(body, 1, b + r)
    BY <1>10 DEF ReadTo, Read
  <2>2. body \in Seq(Bytes) /\ 1 \in 1..Len(body) + 1 /\ b + r \in Nat
    BY <1>1, <1>2, <1>5, <1>9, TextIs
  <2>3. Len(SubSeq(body, 1, b + r)) = IF 1 <= b + r THEN b + r - 1 + 1 ELSE 0
    BY <1>9, <2>2, SubSeqIs
  <2> QED
    BY <2>1, <2>2, <2>3
<1> QED
  BY <1>2, <1>3, <1>6, <1>7, <1>10, <1>11 DEF body

LEMMA MoreBodyKeeps ==
    ASSUME NEW form, NEW p, At(form, p), InBody(form, p), MoreBody,
           TypeInv', StreamInv', ControlTypes'
    PROVE  Goes(form)' /\ (OutInv => OutInv') /\ WaitInv'
<1> DEFINE body == BodyText(form)
           n == Len(Lines(form))
<1>a. PICK r : r = Len(Rest)
  OBVIOUS
<1>1. /\ form \in Forms /\ Rest \in Text /\ r \in Nat /\ p \in Nat /\ Len(body) \in Nat
      /\ Len(Encode(form)) = AtBody(form) + Len(body) /\ AtBody(form) \in Nat
      /\ ptr \in Nat /\ Len(buf) \in Nat /\ r = Len(buf) - ptr
  BY <1>a, AtIs, Numbers, RestIs DEF At
<1>2. PICK b \in 0..Len(body) :
        /\ p = AtBody(form) + b /\ req = ReadTo(form, n, SubSeq(body, 1, b))
        /\ length = LengthTo(form, n) /\ (b # 0 => b < length) /\ (ptr = 0 => length > 0)
  BY DEF InBody
<1>3. length # Absent /\ ~(length = 0 /\ Rest = <<>>) /\ ~BodyComplete
  BY DEF MoreBody, NoBody
<1>4. /\ length = Len(body) /\ length \in Nat /\ b + r <= length /\ BodyPart = Rest
      /\ Len(WithPart.body) = b + r
      /\ WithPart = ReadTo(form, n, SubSeq(body, 1, b + r))
  BY <1>a, <1>2, <1>3, BodyRead
<1>5. /\ req' = WithPart /\ ReturnCall(ptr + r) /\ stage = "body"
      /\ UNCHANGED <<sent, stream, ends, wire, joined, stage, length, out, conn>>
  BY <1>a, <1>4 DEF MoreBody, inVars, In
<1>6. b \in Nat /\ b + r < length
  <2>1. Rest = <<>> => r = 0
    BY <1>a
  <2>2. Rest = <<>> \/ ~(b + r >= length)
    BY <1>3, <1>4 DEF BodyComplete
  <2> HIDE DEF body
  <2> QED
    BY <1>1, <1>2, <1>3, <1>4, <2>1, <2>2
<1>7. Drops(ptr + r)
  <2>1. ptr + r \in 0..Len(buf)
    BY <1>1
  <2> QED
    BY <1>5, <2>1 DEF Drops
<1>8. At(form, p + r)' /\ (OutInv => OutInv') /\ Arrived' = Arrived /\ K' = K
  BY <1>1, <1>5, <1>7, AtDrop
<1>9. /\ b + r \in 0..Len(body) /\ p + r = AtBody(form) + (b + r) /\ b + r < length
      /\ p + r < Len(Encode(form))
  <2> DEFINE y == Len(Encode(form))
             x == AtBody(form)
             l == Len(body)
  <2>1. /\ y = x + l /\ p = x + b /\ b + r < length /\ length = l
        /\ r \in Nat /\ x \in Nat /\ l \in Nat /\ b \in Nat
    BY <1>1, <1>2, <1>4, <1>6
  <2> HIDE DEF y, x, l
  <2>2. b + r \in 0..l /\ p + r = x + (b + r) /\ b + r < length /\ p + r < y
    BY <2>1
  <2> QED
    BY <2>2 DEF y, x, l
<1>10. length > 0
  <2> HIDE DEF body
  <2> QED
    BY <1>1, <1>4, <1>6
<1>11. InBody(form, p + r)'
  BY <1>2, <1>4, <1>5, <1>9, <1>10 DEF InBody
<1>12. Arrived < ends[K]
  BY <1>a, <1>9, StillToCome DEF Incomplete
<1>13. WaitInv'
  BY <1>5, <1>8, <1>12 DEF WaitInv
<1> QED
  BY <1>8, <1>11, <1>13 DEF Goes, InRequest

(* With the last part of the body, the request is handed on as it was sent. *)
LEMMA LastPartEnds ==
    ASSUME NEW form, NEW p, At(form, p), InBody(form, p), LastPart
    PROVE  /\ Deliver(WithFields(Given(form)), ptr + Len(Rest))
           /\ p + Len(Rest) = Len(Encode(form)) /\ Len(Rest) \in Nat \ {0}
<1> DEFINE body == BodyText(form)
           r == Len(Rest)
           n == Len(Lines(form))
<1>1. /\ form \in Forms /\ Rest \in Text /\ r \in Nat /\ Len(body) \in Nat
      /\ Len(Encode(form)) = AtBody(form) + Len(body) /\ AtBody(form) \in Nat /\ body \in Text
  BY AtIs, Numbers, BodyTextIs
<1>2. PICK b \in 0..Len(body) :
        /\ p = AtBody(form) + b /\ req = ReadTo(form, n, SubSeq(body, 1, b))
        /\ length = LengthTo(form, n)
  BY DEF InBody
<1>3. length # Absent /\ BodyComplete
  BY DEF LastPart, NoBody
<1>4. /\ length = Len(body) /\ length \in Nat /\ b + r <= length /\ BodyPart = Rest
      /\ Len(WithPart.body) = b + r
      /\ WithPart = ReadTo(form, n, SubSeq(body, 1, b + r))
  BY <1>2, <1>3, BodyRead
<1>5. Rest # <<>> /\ b + r >= length
  BY <1>3, <1>4 DEF BodyComplete
<1>6. r \in Nat \ {0}
  BY <1>1, <1>5, TextIs, NotEmpty
<1>7. b + r = Len(body) /\ p + r = Len(Encode(form))
  <2> DEFINE y == Len(Encode(form))
             x == AtBody(form)
             l == Len(body)
  <2>1. /\ y = x + l /\ p = x + b /\ b + r <= l /\ b + r >= l
        /\ r \in Nat /\ x \in Nat /\ l \in Nat /\ b \in Nat
    BY <1>1, <1>2, <1>4, <1>5
  <2> HIDE DEF y, x, l, r
  <2>2. b + r = l /\ p + r = y
    BY <2>1
  <2> QED
    BY <2>2 DEF y, l
<1>8. SubSeq(body, 1, b + r) = body
  <2>1. body \in Seq(Bytes)
    BY <1>1, TextIs
  <2> HIDE DEF body, r
  <2> QED
    BY <1>7, <2>1
<1>9. WithPart = Given(form)
  BY <1>4, <1>8 DEF Given
<1>10. Deliver(WithFields(WithPart), ptr + Len(BodyPart))
  BY DEF LastPart
<1> QED
  BY <1>4, <1>6, <1>7, <1>9, <1>10

LEMMA EmptyBodyEnds ==
    ASSUME NEW form, NEW p, At(form, p), InBody(form, p), EmptyBody
    PROVE  /\ Deliver(Given(form), ptr) /\ BodyText(form) = <<>>
           /\ p = Len(Encode(form)) /\ ptr # 0
<1> DEFINE body == BodyText(form)
           n == Len(Lines(form))
<1>1. /\ form \in Forms /\ Len(body) \in Nat /\ body \in Text
      /\ Len(Encode(form)) = AtBody(form) + Len(body) /\ AtBody(form) \in Nat
  BY AtIs, Numbers, BodyTextIs
<1>2. PICK b \in 0..Len(body) :
        /\ p = AtBody(form) + b /\ req = ReadTo(form, n, SubSeq(body, 1, b))
        /\ length = LengthTo(form, n) /\ (ptr = 0 => length > 0)
  BY DEF InBody
<1>3. length = Absent \/ length = 0
  BY DEF EmptyBody, NoBody
<1>4. \/ length = Len(body) \/ (length = Absent /\ body = <<>>)
  BY <1>1, <1>2, LengthAtEnd
<1>5. body = <<>> /\ Len(body) = 0
  <2>1. CASE length = Absent /\ body = <<>>
    BY <2>1
  <2>2. CASE length = Len(body)
    <3>1. Len(body) = 0
      <4> HIDE DEF body
      <4> QED
        BY <1>1, <1>3, <2>2 DEF Absent
    <3>2. body = <<>>
      <4> HIDE DEF body
      <4> QED
        BY <1>1, <3>1, TextIs, NotEmpty
    <3> QED
      BY <3>1, <3>2
  <2> QED
    BY <1>4, <2>1, <2>2
<1>6. b = 0
  <2> HIDE DEF body
  <2> QED
    BY <1>5
<1>7. p = Len(Encode(form))
  <2> HIDE DEF body
  <2> QED
    BY <1>1, <1>2, <1>5, <1>6
<1>8. SubSeq(body, 1, 0) = body
  BY <1>5
<1>9. req = Given(form)
  <2> HIDE DEF body
  <2>1. req = ReadTo(form, n, body)
    BY <1>2, <1>6, <1>8
  <2> QED
    BY <2>1 DEF Given, body
<1>10. ptr # 0
  BY <1>2, <1>3 DEF Absent
<1> QED
  BY <1>5, <1>7, <1>9, <1>10 DEF EmptyBody

-----------------------------------------------------------------------------
(* parse_string                                                            *)

(* The name and the value of a pair are those before and behind its sign.  *)
LEMMA NameIs ==
    ASSUME NEW a \in Text, \A m \in 1..Len(a) : a[m] # "="
    PROVE  NameAndValue(a \o <<>>) = <<a>>
<1> DEFINE marks == {k \in DOMAIN a : a[k] = "="}
<1>1. a \o <<>> = a /\ DOMAIN a = 1..Len(a)
  BY TextIs, EmptyBehind
<1>2. marks = {}
  BY <1>1
<1> QED
  BY <1>1, <1>2 DEF NameAndValue

LEMMA ValueIs ==
    ASSUME NEW a \in Text, \A m \in 1..Len(a) : a[m] # "=", NEW b \in Text
    PROVE  LET r == NameAndValue(a \o (<<"=">> \o b)) IN
           /\ r[1] = a /\ Len(r) = 2
           /\ "=" \notin ToSet(b) => r[2] = b
<1> DEFINE c == <<"=">>
           d == c \o b
           t == a \o d
           n == Len(a)
           l == Len(b)
           marks == {k \in DOMAIN t : t[k] = "="}
           name == SubSeq(t, 1, Min(marks) - 1)
           value == SubSeq(t, Max(marks) + 1, Len(t))
<1>1. a \in Seq(Bytes) /\ b \in Seq(Bytes) /\ c \in Seq(Bytes)
  <2>1. "=" \in Bytes
    BY DEF Bytes, Signs
  <2> QED
    BY <2>1, TextIs
<1>2. Len(c) = 1 /\ c[1] = "="
  OBVIOUS
<1> HIDE DEF c
<1>3. /\ d \in Seq(Bytes) /\ Len(d) = 1 + l /\ l \in Nat
      /\ \A m \in 1..1 : d[m] = c[m]
      /\ \A m \in 1..l : d[1 + m] = b[m]
  <2>1. /\ d \in Seq(Bytes) /\ Len(d) = Len(c) + Len(b) /\ Len(b) \in Nat
        /\ \A m \in 1..Len(c) : d[m] = c[m]
        /\ \A m \in 1..Len(b) : d[Len(c) + m] = b[m]
    BY <1>1, ConcatIs
  <2> HIDE DEF d
  <2> QED
    BY <1>2, <2>1
<1> HIDE DEF d
<1>4. /\ t \in Seq(Bytes) /\ Len(t) = n + (1 + l) /\ n \in Nat
      /\ \A m \in 1..n : t[m] = a[m]
      /\ \A m \in 1..1 + l : t[n + m] = d[m]
  <2>1. d \in Seq(Bytes)
    BY <1>3
  <2>2. /\ t \in Seq(Bytes) /\ Len(t) = Len(a) + Len(d) /\ Len(a) \in Nat
        /\ \A m \in 1..Len(a) : t[m] = a[m]
        /\ \A m \in 1..Len(d) : t[Len(a) + m] = d[m]
    BY <1>1, <2>1, ConcatIs
  <2> HIDE DEF t
  <2> QED
    BY <1>3, <2>2
<1>5. DOMAIN t = 1..n + (1 + l)
  BY <1>4
<1> HIDE DEF t
<1>6. t[n + 1] = "="
  <2>1. 1 \in 1..1 /\ 1 \in 1..1 + l
    BY <1>3
  <2>2. t[n + 1] = d[1] /\ d[1] = c[1]
    BY <1>3, <1>4, <2>1
  <2> QED
    BY <1>2, <2>2
<1>7. ASSUME NEW m \in 1..l PROVE t[n + 1 + m] = b[m]
  <2>1. 1 + m \in 1..1 + l /\ n + (1 + m) = n + 1 + m
    BY <1>3, <1>4
  <2> QED
    BY <1>3, <1>4, <2>1
<1> HIDE DEF n, l
<1>8. marks \subseteq 0..n + (1 + l) /\ marks \subseteq Nat /\ n + (1 + l) \in Nat
      /\ n + 1 \in marks
  BY <1>3, <1>4, <1>5, <1>6
<1>9. ASSUME NEW y \in marks PROVE n + 1 <= y
  <2>1. CASE y <= n
    <3>1. y \in 1..n /\ t[y] = "="
      BY <1>3, <1>4, <1>5, <2>1
    <3> QED
      BY <1>4, <3>1 DEF n
  <2>2. CASE ~(y <= n)
    <3>1. y \in Nat
      BY <1>8
    <3> QED
      BY <1>4, <2>2, <3>1
  <2> QED
    BY <2>1, <2>2
<1> HIDE DEF marks
<1>10. Min(marks) = n + 1
  BY <1>8, <1>9, MinAt
<1>11. name = a
  <2> DEFINE s == SubSeq(t, 1, n)
  <2>1. 1 \in 1..Len(t) + 1 /\ n \in 0..Len(t)
    BY <1>3, <1>4
  <2>2. /\ s \in Seq(Bytes) /\ Len(s) = IF 1 <= n THEN n - 1 + 1 ELSE 0
        /\ \A m \in 1..Len(s) : s[m] = t[1 + m - 1]
    BY <1>4, <2>1, SubSeqIs
  <2> HIDE DEF s
  <2>3. Len(s) = n
    BY <1>4, <2>2
  <2>4. ASSUME NEW m \in 1..n PROVE s[m] = a[m]
    <3>1. 1 + m - 1 = m
      BY <1>4
    <3> QED
      BY <1>4, <2>2, <2>3, <3>1
  <2>5. s = a
    BY <1>1, <2>2, <2>3, <2>4, SameSeq DEF n
  <2>6. Min(marks) - 1 = n
    BY <1>4, <1>10
  <2> QED
    BY <2>5, <2>6 DEF s
<1>12. ASSUME "=" \notin ToSet(b) PROVE value = b
  <2>1. ASSUME NEW y \in marks PROVE y <= n + 1
    <3>1. y \in Nat /\ y <= n + (1 + l) /\ t[y] = "="
      BY <1>5, <1>8 DEF marks
    <3>2. CASE y > n + 1
      <4> DEFINE m == y - (n + 1)
      <4>1. m \in 1..l /\ n + 1 + m = y
        BY <1>3, <1>4, <3>1, <3>2
      <4> HIDE DEF m
      <4>2. b[m] = "="
        BY <1>7, <3>1, <4>1
      <4>3. m \in DOMAIN b
        BY <1>1, <4>1 DEF l
      <4> QED
        BY <1>12, <4>2, <4>3 DEF ToSet
    <3> QED
      BY <1>4, <3>1, <3>2
  <2>2. Max(marks) = n + 1
    BY <1>8, <2>1, MaxAt
  <2> DEFINE f == n + 2
             s == SubSeq(t, f, Len(t))
  <2>3. f \in 1..Len(t) + 1 /\ Len(t) \in 0..Len(t)
    BY <1>3, <1>4
  <2>4. /\ s \in Seq(Bytes) /\ Len(s) = IF f <= Len(t) THEN Len(t) - f + 1 ELSE 0
        /\ \A m \in 1..Len(s) : s[m] = t[f + m - 1]
    <3> HIDE DEF f
    <3> QED
      BY <1>4, <2>3, SubSeqIs
  <2> HIDE DEF s
  <2>5. Len(s) = l
    BY <1>3, <1>4, <2>4
  <2>6. ASSUME NEW m \in 1..l PROVE s[m] = b[m]
    <3>1. f + m - 1 = n + 1 + m
      BY <1>4
    <3> QED
      BY <1>7, <2>4, <2>5, <3>1
  <2>7. s = b
    BY <1>1, <2>4, <2>5, <2>6, SameSeq DEF l
  <2>8. Max(marks) + 1 = f
    BY <1>4, <2>2
  <2> QED
    BY <2>7, <2>8 DEF s
<1>13. NameAndValue(t) = <<name, value>>
  <2>1. marks # {}
    BY <1>8
  <2> QED
    BY <2>1 DEF NameAndValue, marks
<1> HIDE DEF name, value
<1> QED
  BY <1>11, <1>12, <1>13 DEF t, d, c

(* A pair read is the pair given, but for a value with a sign in it.       *)
SamePair(read, given) ==
    /\ read[1] = given[1] /\ Len(read) = Len(given)
    /\ Len(given) = 2 /\ "=" \notin ToSet(given[2]) => read[2] = given[2]

LEMMA PairRead ==
    ASSUME NEW pairs \in Pairs, NEW i \in DOMAIN pairs
    PROVE  SamePair(NameAndValue(PairText(pairs[i])), pairs[i])
<1> DEFINE x == pairs[i]
<1>1. /\ Len(x) \in 1..2 /\ x[1] \in Without(Signs)
      /\ \A j \in 1..Len(x) : x[j] \in Without(PairSigns)
  BY PairIs
<1> HIDE DEF x
<1>2. x[1] \in Text /\ \A m \in 1..Len(x[1]) : x[1][m] # "="
  <2>1. "=" \in Signs
    BY DEF Signs
  <2> QED
    BY <1>1, <2>1, WithoutIs
<1>3. CASE Len(x) = 1
  <2>1. NameAndValue(PairText(x)) = <<x[1]>>
    BY <1>2, <1>3, NameIs DEF PairText
  <2> QED
    BY <1>3, <2>1 DEF SamePair, x
<1>4. CASE Len(x) = 2
  <2>1. x[2] \in Text
    BY <1>1, <1>4, WithoutIs
  <2>2. PairText(x) = x[1] \o (<<"=">> \o x[2])
    BY <1>4 DEF PairText
  <2> DEFINE r == NameAndValue(PairText(x))
  <2>3. /\ r[1] = x[1] /\ Len(r) = 2
        /\ "=" \notin ToSet(x[2]) => r[2] = x[2]
    BY <1>2, <2>1, <2>2, ValueIs
  <2> HIDE DEF r
  <2>4. SamePair(r, x)
    BY <1>4, <2>3 DEF SamePair
  <2> QED
    BY <2>4 DEF r, x
<1> QED
  BY <1>1, <1>3, <1>4

(* Behind its first characters, the text goes on with b blanks, the pair,  *)
(* and an end of a part.                                                   *)
SpelledAt(text, div, pair, from, to, b) ==
    /\ from \in Nat /\ b \in {0, 1}
    /\ to = from + b + Len(PairText(pair)) + 1 /\ to <= Len(text)
    /\ text[to] \in {div, Nul}
    /\ b = 1 => text[from + 1] = Blank
    /\ LiesAt(text, from + b, PairText(pair))

LEMMA PartIs ==
    ASSUME NEW text \in Text, NEW div \in {"&", Semicolon}, NEW pairs \in Pairs,
           NEW i \in DOMAIN pairs, NEW from, NEW to, NEW b,
           SpelledAt(text, div, pairs[i], from, to, b)
    PROVE  /\ from \in Nat /\ to \in Nat /\ from < to /\ to \in PartEnds(text, div)
           /\ \A x \in Nat : from < x /\ x < to => x \notin PartEnds(text, div)
<1> DEFINE w == PairText(pairs[i])
           n == Len(w)
           l == Len(text)
<1>1. w \in Without(PairSigns) /\ n \in Nat /\ \A m \in 1..n : w[m] \notin PairSigns
  BY PairTextIs, WithoutIs
<1>2. l \in Nat /\ DOMAIN text = 1..l
  BY TextIs
<1>3. /\ from \in Nat /\ b \in {0, 1} /\ to = from + b + n + 1 /\ to <= l
      /\ text[to] \in {div, Nul} /\ (b = 1 => text[from + 1] = Blank)
      /\ \A m \in 1..n : text[from + b + m] = w[m]
  BY DEF SpelledAt, LiesAt
<1>4. div \in PairSigns /\ Nul \in PairSigns /\ Blank \notin {div, Nul}
  <2>1. "&" \in PairSigns /\ Semicolon \in PairSigns /\ Nul \in PairSigns
    BY Zenon DEF PairSigns
  <2> QED
    BY <2>1, SignsDiffer, Zenon
<1> HIDE DEF n, l
<1>5. to \in Nat /\ from < to /\ to \in 1..l
  BY <1>1, <1>2, <1>3
<1>6. to \in PartEnds(text, div)
  BY <1>2, <1>3, <1>5, Zenon DEF PartEnds
<1>7. ASSUME NEW x \in Nat, from < x, x < to PROVE text[x] \notin {div, Nul}
  <2>1. CASE b = 1 /\ x = from + 1
    BY <1>3, <1>4, <2>1, Zenon
  <2>2. CASE ~(b = 1 /\ x = from + 1)
    <3> DEFINE m == x - (from + b)
    <3>1. m \in 1..n /\ from + b + m = x
      BY <1>1, <1>3, <1>7, <2>2
    <3> HIDE DEF m
    <3>2. text[x] = w[m] /\ w[m] \notin PairSigns
      BY <1>1, <1>3, <3>1
    <3> QED
      BY <1>4, <3>2
  <2> QED
    BY <2>1, <2>2
<1>8. \A x \in Nat : from < x /\ x < to => x \notin PartEnds(text, div)
  BY <1>7 DEF PartEnds
<1> QED
  BY <1>3, <1>5, <1>6, <1>8

LEMMA PartRead ==
    ASSUME NEW text \in Text, NEW div \in {"&", Semicolon}, NEW pairs \in Pairs,
           NEW i \in DOMAIN pairs, NEW from, NEW to, NEW b, NEW trim,
           SpelledAt(text, div, pairs[i], from, to, b),
           from = 0 \/ from \in PartEnds(text, div), b = 1 => trim
    PROVE  SamePair(Cell(text, div, trim, to), pairs[i])
<1> DEFINE w == PairText(pairs[i])
           n == Len(w)
           l == Len(text)
           found == PartEnds(text, div)
           part == SubSeq(text, from + 1, to - 1)
<1>1. w \in Seq(Bytes) /\ n \in Nat /\ (w # <<>> => w[1] # Blank)
  BY PairTextIs, WithoutIs, TextIs
<1>2. l \in Nat /\ DOMAIN text = 1..l /\ text \in Seq(Bytes)
  BY TextIs
<1>3. /\ from \in Nat /\ b \in {0, 1} /\ to = from + b + n + 1 /\ to <= l
      /\ (b = 1 => text[from + 1] = Blank)
      /\ \A m \in 1..n : text[from + b + m] = w[m]
  BY DEF SpelledAt, LiesAt
<1>4. /\ to \in Nat /\ from < to
      /\ \A x \in Nat : from < x /\ x < to => x \notin found
  BY PartIs
<1>5. found \subseteq 1..l
  BY <1>2 DEF PartEnds
<1> HIDE DEF n, l, found, w
<1>6. PartTo(text, div, to) = part
  <2> DEFINE T == {x \in found : x < to} \union {0}
  <2>1. T \subseteq 0..l /\ from \in T
    BY <1>2, <1>3, <1>4, <1>5 DEF found
  <2>2. ASSUME NEW y \in T PROVE y <= from
    <3>1. y \in Nat /\ y < to
      BY <1>2, <1>3, <1>4, <1>5
    <3>2. from < y => y \notin found
      BY <1>4, <3>1
    <3>3. y \in found \/ y = 0
      OBVIOUS
    <3> QED
      BY <1>3, <3>1, <3>2, <3>3
  <2> HIDE DEF T
  <2>3. Max(T) = from
    BY <1>2, <2>1, <2>2, MaxAt
  <2> QED
    BY <2>3 DEF PartTo, T, found
<1>7. /\ part \in Seq(Bytes) /\ Len(part) = b + n /\ b + n \in Nat
      /\ \A m \in 1..b + n : part[m] = text[from + m]
  <2> DEFINE f == from + 1
             g == to - 1
  <2>1. f \in 1..Len(text) + 1 /\ g \in 0..Len(text)
    BY <1>1, <1>2, <1>3 DEF l
  <2> HIDE DEF f, g
  <2>2. /\ SubSeq(text, f, g) \in Seq(Bytes)
        /\ Len(SubSeq(text, f, g)) = IF f <= g THEN g - f + 1 ELSE 0
        /\ \A m \in 1..Len(SubSeq(text, f, g)) : SubSeq(text, f, g)[m] = text[f + m - 1]
    BY <1>2, <2>1, SubSeqIs
  <2>3. (IF f <= g THEN g - f + 1 ELSE 0) = b + n /\ b + n \in Nat
        /\ \A m \in 1..b + n : f + m - 1 = from + m
    BY <1>1, <1>3, <1>4 DEF f, g
  <2>4. SubSeq(text, f, g) = part
    BY DEF f, g
  <2> HIDE DEF part
  <2> QED
    BY <2>2, <2>3, <2>4
<1> HIDE DEF part
<1>8. /\ \A m \in 1..b : part[m] = Blank
      /\ \A m \in 1..n : part[b + m] = w[m]
  <2>1. ASSUME NEW m \in 1..b PROVE part[m] = Blank
    <3>1. m = 1 /\ b = 1 /\ m \in 1..b + n
      BY <1>1, <1>3
    <3> QED
      BY <1>3, <1>7, <3>1
  <2>2. ASSUME NEW m \in 1..n PROVE part[b + m] = w[m]
    <3>1. b + m \in 1..b + n /\ from + (b + m) = from + b + m
      BY <1>1, <1>3
    <3> QED
      BY <1>3, <1>7, <3>1
  <2> QED
    BY <2>1, <2>2
<1>9. Trimmed(part) = w
  <2>1. b \in 0..Len(part)
    BY <1>1, <1>3, <1>7
  <2>2. b < Len(part) => part[b + 1] # Blank
    <3>1. ASSUME b < Len(part) PROVE 1 \in 1..n /\ w # <<>>
      <4>1. 1 \in 1..n
        BY <1>1, <1>3, <1>7, <3>1
      <4>2. w # <<>>
        BY <4>1 DEF n
      <4> QED
        BY <4>1, <4>2
    <3> QED
      BY <1>1, <1>8, <3>1
  <2>3. BeginOf(part, Blank) = b + 1
    BY <1>7, <1>8, <2>1, <2>2, BeginAt
  <2> DEFINE f == b + 1
             s == SubSeq(part, f, Len(part))
  <2>4. f \in 1..Len(part) + 1 /\ Len(part) \in 0..Len(part)
    BY <1>1, <1>3, <1>7
  <2> HIDE DEF f
  <2>5. /\ s \in Seq(Bytes) /\ Len(s) = IF f <= Len(part) THEN Len(part) - f + 1 ELSE 0
        /\ \A m \in 1..Len(s) : s[m] = part[f + m - 1]
    BY <1>7, <2>4, SubSeqIs
  <2> HIDE DEF s
  <2>6. Len(s) = n
    BY <1>1, <1>3, <1>7, <2>5 DEF f
  <2>7. ASSUME NEW m \in 1..n PROVE s[m] = w[m]
    <3>1. f + m - 1 = b + m
      BY <1>1, <1>3 DEF f
    <3> QED
      BY <1>8, <2>5, <2>6, <3>1
  <2>8. s = w
    BY <1>1, <2>5, <2>6, <2>7, SameSeq DEF n
  <2> QED
    BY <2>3, <2>8 DEF Trimmed, s, f
<1>10. ~trim => part = w
  <2> SUFFICES ASSUME ~trim PROVE part = w
    OBVIOUS
  <2>1. b = 0
    BY <1>3
  <2>2. Len(part) = Len(w)
    BY <1>1, <1>7, <2>1 DEF n
  <2>3. ASSUME NEW m \in 1..Len(part) PROVE part[m] = w[m]
    <3>1. m \in 1..n /\ b + m = m
      BY <2>1, <2>2 DEF n
    <3> QED
      BY <1>8, <3>1
  <2> QED
    BY <1>1, <1>7, <2>2, <2>3, SameSeq
<1>11. Cell(text, div, trim, to) = NameAndValue(w)
  BY <1>6, <1>9, <1>10 DEF Cell
<1> QED
  BY <1>11, PairRead DEF w

(* The text is these pairs, one behind the other.                          *)
Spells(text, div, pairs, e, lead) ==
    /\ e \in [0..Len(pairs) -> Nat] /\ e[0] = 0 /\ e[Len(pairs)] = Len(text)
    /\ \A i \in 1..Len(pairs) :
          SpelledAt(text, div, pairs[i], e[i - 1], e[i], IF i = 1 THEN 0 ELSE lead)

LEMMA PairsRead ==
    ASSUME NEW text \in Text, NEW div \in {"&", Semicolon}, NEW pairs \in Pairs, pairs # <<>>,
           NEW e, NEW lead, NEW trim, Spells(text, div, pairs, e, lead), lead = 1 => trim
    PROVE  SamePairs(ParseString(text, div, trim), pairs)
<1> DEFINE n == Len(pairs)
           l == Len(text)
           found == PartEnds(text, div)
           s == Cells(text, div, trim)
           off == Off(s)
           cell(x) == Cell(text, div, trim, x)
           read == ParseString(text, div, trim)
           blanks(i) == IF i = 1 THEN 0 ELSE lead
<1>1. n \in Nat \ {0} /\ DOMAIN pairs = 1..n /\ l \in Nat /\ DOMAIN text = 1..l
  <2>1. n \in Nat /\ DOMAIN pairs = 1..n
    BY PairsAre
  <2>2. n # 0
    <3>1. pairs \in Seq({p \in Seq(Without({Blank, "&", Semicolon, "CR", "LF", Nul})) :
           Len(p) \in 1..2 /\ p[1] \in Without(Signs)})
      BY DEF Pairs
    <3> QED
      BY <3>1, NotEmpty
  <2> QED
    BY <2>1, <2>2, TextIs
<1>2. /\ e \in [0..n -> Nat] /\ e[0] = 0 /\ e[n] = l
      /\ \A i \in 1..n : SpelledAt(text, div, pairs[i], e[i - 1], e[i], blanks(i))
  BY DEF Spells
<1> HIDE DEF n, l, blanks
<1>3. ASSUME NEW i \in 1..n
      PROVE  /\ e[i - 1] \in Nat /\ e[i] \in Nat /\ e[i - 1] < e[i] /\ e[i] <= l
             /\ e[i] \in found
             /\ \A x \in Nat : e[i - 1] < x /\ x < e[i] => x \notin found
  <2>1. i \in DOMAIN pairs /\ SpelledAt(text, div, pairs[i], e[i - 1], e[i], blanks(i))
    BY <1>1, <1>2
  <2> DEFINE x == e[i - 1]
             y == e[i]
             b == blanks(i)
  <2> HIDE DEF x, y, b
  <2>2. SpelledAt(text, div, pairs[i], x, y, b)
    BY <2>1 DEF x, y, b
  <2>3. x \in Nat /\ y \in Nat /\ x < y /\ y \in found
        /\ \A z \in Nat : x < z /\ z < y => z \notin found
    BY <2>1, <2>2, PartIs
  <2>4. y <= l
    BY <2>2 DEF SpelledAt, l
  <2> QED
    BY <2>3, <2>4 DEF x, y
<1>4. ASSUME NEW i \in 1..n PROVE e[i - 1] = 0 \/ e[i - 1] \in found
  <2>1. CASE i = 1
    BY <1>2, <2>1
  <2>2. CASE i # 1
    <3>1. i - 1 \in 1..n
      BY <1>1, <2>2
    <3> QED
      BY <1>3, <3>1
  <2> QED
    BY <2>1, <2>2
<1>5. ASSUME NEW i \in 1..n PROVE SamePair(cell(e[i]), pairs[i])
  <2>1. i \in DOMAIN pairs /\ SpelledAt(text, div, pairs[i], e[i - 1], e[i], blanks(i))
    BY <1>1, <1>2
  <2>2. blanks(i) = 1 => trim
    BY DEF blanks
  <2> DEFINE x == e[i - 1]
             y == e[i]
             b == blanks(i)
  <2>3. SpelledAt(text, div, pairs[i], x, y, b) /\ (x = 0 \/ x \in found) /\ (b = 1 => trim)
    BY <1>4, <2>1, <2>2
  <2> HIDE DEF x, y, b
  <2>4. SamePair(cell(y), pairs[i])
    BY <2>1, <2>3, PartRead
  <2> QED
    BY <2>4 DEF y
<1>6. /\ read = FlattenSeq(s) /\ Len(s) = l /\ Offsets(s, off)
  <2>1. s \in Seq(Seq(CellSet(text, div, trim)))
    BY ParsedIs
  <2> QED
    BY <2>1, ParsedIs, FlattenIs DEF l
<1>7. ASSUME NEW x \in 1..l
      PROVE  /\ x \in found => Len(s[x]) = 1 /\ s[x][1] = cell(x)
             /\ x \notin found => Len(s[x]) = 0
  <2>1. s[x] = IF x \notin found THEN <<>> ELSE <<cell(x)>>
    BY <1>1 DEF Cells
  <2> HIDE DEF s, cell, found
  <2> QED
    BY <2>1
<1> HIDE DEF s, cell, found, read
<1>8. /\ off \in [0..l -> Nat] /\ off[0] = 0 /\ Len(read) = off[l]
      /\ \A x \in 1..l : off[x] = off[x - 1] + Len(s[x])
      /\ \A x \in 1..l : LiesAt(read, off[x - 1], s[x])
  BY <1>6 DEF Offsets
<1> HIDE DEF off
<1> DEFINE Within(x, i) == e[i - 1] <= x /\ x < e[i]
           T == {x \in Nat : \E i \in 1..n : Within(x, i) /\ off[x] # i - 1}
<1>9. ASSUME NEW x \in Nat, NEW i \in 1..n, Within(x, i) PROVE off[x] = i - 1
  <2> SUFFICES ASSUME T # {} PROVE FALSE
    BY <1>9
  <2>1. PICK y \in T : \A z \in T : y <= z
    BY Least, Zenon
  <2>2. PICK j \in 1..n : Within(y, j) /\ off[y] # j - 1
    OBVIOUS
  <2> HIDE DEF T
  <2>3. y \in Nat /\ y < l /\ e[j - 1] \in Nat /\ e[j] \in Nat
    <3>1. y \in Nat
      BY DEF T
    <3>2. e[j] <= l /\ e[j - 1] \in Nat /\ e[j] \in Nat /\ y < e[j]
      BY <1>3, <2>2
    <3> QED
      BY <1>1, <3>1, <3>2
  <2>4. ASSUME NEW z \in Nat, z < y, NEW k \in 1..n, Within(z, k) PROVE off[z] = k - 1
    <3>1. z \notin T
      BY <2>1, <2>3, <2>4
    <3> QED
      BY <2>4, <3>1 DEF T
  <2>5. CASE y = 0
    <3>1. j = 1
      <4> SUFFICES ASSUME j # 1 PROVE FALSE
        OBVIOUS
      <4>1. j - 1 \in 1..n
        BY <1>1
      <4>2. e[j - 1 - 1] \in Nat /\ e[j - 1 - 1] < e[j - 1]
        BY <1>3, <4>1
      <4> QED
        BY <2>2, <2>3, <2>5, <4>2
    <3> QED
      BY <1>8, <2>2, <2>5, <3>1
  <2>6. CASE y # 0 /\ y = e[j - 1]
    <3>1. j # 1
      BY <1>2, <2>6
    <3>2. j - 1 \in 1..n
      BY <1>1, <3>1
    <3>3. e[j - 1 - 1] \in Nat /\ e[j - 1 - 1] < e[j - 1] /\ e[j - 1] \in found
      BY <1>3, <3>2
    <3>4. y - 1 \in Nat /\ y - 1 < y /\ y \in 1..l
      BY <1>1, <2>3, <2>6
    <3>5. Within(y - 1, j - 1)
      BY <2>3, <2>6, <3>3, <3>4
    <3> HIDE DEF Within
    <3>6. off[y - 1] = j - 1 - 1
      BY <2>4, <3>2, <3>4, <3>5
    <3>7. off[y] = off[y - 1] + 1
      BY <1>7, <1>8, <2>6, <3>3, <3>4
    <3> QED
      BY <1>1, <2>2, <3>6, <3>7
  <2>7. CASE y # 0 /\ y # e[j - 1]
    <3>1. y - 1 \in Nat /\ y - 1 < y /\ y \in 1..l
      BY <1>1, <2>3, <2>7
    <3>2. e[j - 1] < y /\ y < e[j]
      BY <2>2, <2>3, <2>7
    <3>3. Within(y - 1, j)
      BY <2>3, <3>1, <3>2
    <3> HIDE DEF Within
    <3>4. off[y - 1] = j - 1
      BY <2>4, <3>1, <3>3
    <3>5. y \notin found
      BY <1>3, <2>3, <3>2
    <3>6. off[y] = off[y - 1] + 0
      BY <1>7, <1>8, <3>1, <3>5
    <3> QED
      BY <1>1, <2>2, <3>4, <3>6
  <2> QED
    BY <2>5, <2>6, <2>7
<1> HIDE DEF T
<1>10. ASSUME NEW i \in 1..n
       PROVE  off[e[i]] = i /\ read[i] = cell(e[i])
  <2> DEFINE y == e[i]
  <2>1. e[i - 1] \in Nat /\ y \in Nat /\ e[i - 1] < y /\ y <= l /\ y \in found
    BY <1>3
  <2>2. y - 1 \in Nat /\ y \in 1..l
    BY <1>1, <2>1
  <2>3. Within(y - 1, i)
    BY <2>1, <2>2
  <2> HIDE DEF y, Within
  <2>4. off[y - 1] = i - 1
    BY <1>9, <2>2, <2>3
  <2>5. Len(s[y]) = 1 /\ s[y][1] = cell(y)
    BY <1>7, <2>1, <2>2
  <2>6. off[y] = off[y - 1] + 1 /\ LiesAt(read, off[y - 1], s[y])
    BY <1>8, <2>2, <2>5
  <2>7. off[y] = i
    BY <1>1, <2>4, <2>6
  <2>8. read[i - 1 + 1] = s[y][1]
    <3>1. 1 \in 1..Len(s[y])
      BY <2>5
    <3> QED
      BY <2>4, <2>6, <3>1 DEF LiesAt
  <2>9. i - 1 + 1 = i
    BY <1>1
  <2> QED
    BY <2>5, <2>7, <2>8, <2>9 DEF y
<1>11. Len(read) = n
  <2>1. n \in 1..n
    BY <1>1
  <2> QED
    BY <1>2, <1>8, <1>10, <2>1
<1>12. \A i \in 1..n : SamePair(read[i], pairs[i])
  BY <1>5, <1>10
<1> QED
  BY <1>1, <1>11, <1>12, Zenon DEF SamePairs, SamePair, n, read

(* The separators of parameters and of cookies                             *)
Separates(sep, div) ==
    /\ sep \in Text /\ Len(sep) \in {1, 2} /\ sep[1] = div
    /\ Len(sep) = 2 => sep[2] = Blank

LEMMA Separators == Separates(<<"&">>, "&") /\ Separates(<<Semicolon, Blank>>, Semicolon)
<1>1. "&" \in Bytes /\ Semicolon \in Bytes /\ Blank \in Bytes
  BY Zenon DEF Bytes, Signs
<1>2. <<"&">> \in Text /\ <<Semicolon, Blank>> \in Text
  BY <1>1, TextIs
<1> QED
  BY <1>2 DEF Separates

(* Where the parts of a text of pairs are                                  *)
LEMMA PartsLie ==
    ASSUME NEW pairs \in Pairs, NEW sep, NEW div, Separates(sep, div), NEW i \in 1..Len(pairs)
    PROVE  LET off == Off(PairParts(pairs, sep))
               w == PairsText(pairs, sep)
               c == IF i = 1 THEN 0 ELSE Len(sep)
           IN
           /\ off[i - 1] \in Nat /\ off[i] \in Nat /\ off[0] = 0
           /\ Len(w) = off[Len(pairs)] /\ w \in Text
           /\ off[i] = off[i - 1] + c + Len(PairText(pairs[i]))
           /\ LiesAt(w, off[i - 1] + c, PairText(pairs[i]))
           /\ i # 1 => LiesAt(w, off[i - 1], sep)
<1> DEFINE s == PairParts(pairs, sep)
           off == Off(s)
           w == PairsText(pairs, sep)
           n == Len(pairs)
           t == PairText(pairs[i])
           c == IF i = 1 THEN 0 ELSE Len(sep)
           d == IF i = 1 THEN <<>> ELSE sep
<1>1. sep \in Seq(Bytes) /\ Len(sep) \in Nat /\ <<>> \in Seq(Bytes)
  BY TextIs DEF Separates
<1>2. sep \in Without({})
  BY <1>1, TextIs DEF Without
<1>3. /\ s \in Seq(Seq(Bytes)) /\ Len(s) = n /\ n \in Nat /\ DOMAIN pairs = 1..n
      /\ w = FlattenSeq(s)
  BY <1>2, TextIs, PairPartsAre
<1>4. t \in Seq(Bytes) /\ Len(t) \in Nat
  BY <1>3, PairTextIs, WithoutIs, TextIs
<1>5. w \in Seq(Bytes) /\ Offsets(s, off)
  BY <1>3, FlattenIs
<1>6. /\ off \in [0..n -> Nat] /\ off[0] = 0 /\ Len(w) = off[n]
      /\ off[i] = off[i - 1] + Len(s[i]) /\ LiesAt(w, off[i - 1], s[i])
  BY <1>3, <1>5 DEF Offsets
<1>7. off[i - 1] \in Nat /\ off[i] \in Nat
  <2>1. i - 1 \in 0..n /\ i \in 0..n
    BY <1>3
  <2> HIDE DEF off, n
  <2> QED
    BY <1>6, <2>1
<1>8. s[i] = d \o t
  BY <1>3 DEF PairParts
<1>9. d \in Seq(Bytes) /\ Len(d) = c
  BY <1>1
<1>10. s[i] \in Seq(Bytes)
  BY <1>3
<1> HIDE DEF s, off, w, n, t, d, c
<1>11. Len(s[i]) = c + Len(t) /\ LiesAt(s[i], 0, d) /\ LiesAt(s[i], c, t)
  <2>1. Len(d \o t) = Len(d) + Len(t)
    BY <1>4, <1>9, ConcatIs
  <2>2. LiesAt(d \o t, 0, d) /\ LiesAt(d \o t, Len(d), t)
    BY <1>4, <1>9, ConcatLies
  <2> QED
    BY <1>8, <1>9, <2>1, <2>2
<1>12. c \in Nat /\ Len(w) \in Nat /\ Len(s[i]) \in Nat /\ Len(d) \in Nat
  BY <1>1, <1>5, <1>9, <1>10 DEF c
<1>13. LiesAt(w, off[i - 1] + c, t)
  BY <1>4, <1>6, <1>11, <1>12, LiesWithin
<1>14. LiesAt(w, off[i - 1], d)
  <2>1. LiesAt(w, off[i - 1] + 0, d)
    BY <1>6, <1>11, <1>12, LiesWithin
  <2>2. off[i - 1] + 0 = off[i - 1]
    BY <1>7
  <2> QED
    BY <2>1, <2>2
<1>15. off[i] = off[i - 1] + c + Len(t)
  BY <1>4, <1>6, <1>7, <1>11, <1>12
<1>16. i # 1 => d = sep
  BY DEF d
<1> QED
  BY <1>5, <1>6, <1>7, <1>13, <1>14, <1>15, <1>16, TextIs DEF off, s, w, n, t, c

LEMMA Spelled ==
    ASSUME NEW pairs \in Pairs, NEW some, NEW m \in 1..Len(pairs), Len(some) = m,
           \A i \in 1..m : some[i] = pairs[i],
           NEW sep, NEW div, Separates(sep, div), NEW text \in Text,
           LiesAt(text, 0, PairsText(pairs, sep)),
           Len(text) = Off(PairParts(pairs, sep))[m] + 1, text[Len(text)] \in {div, Nul}
    PROVE  \E e : Spells(text, div, some, e, Len(sep) - 1)
<1> DEFINE off == Off(PairParts(pairs, sep))
           w == PairsText(pairs, sep)
           n == Len(pairs)
           l == Len(text)
           k == Len(sep)
           e == [i \in 0..m |-> IF i = 0 THEN 0 ELSE off[i] + 1]
           c(i) == IF i = 1 THEN 0 ELSE k
           t(i) == PairText(pairs[i])
<1>1. n \in Nat /\ m \in 1..n /\ DOMAIN pairs = 1..n /\ l \in Nat /\ k \in {1, 2}
  BY PairsAre, TextIs DEF Separates
<1>2. ASSUME NEW i \in 1..n
      PROVE  /\ off[i - 1] \in Nat /\ off[i] \in Nat /\ off[0] = 0
             /\ Len(w) = off[n] /\ Len(w) \in Nat
             /\ off[i] = off[i - 1] + c(i) + Len(t(i)) /\ Len(t(i)) \in Nat
             /\ LiesAt(w, off[i - 1] + c(i), t(i))
             /\ i # 1 => LiesAt(w, off[i - 1], sep)
  <2>1. i \in 1..Len(pairs) /\ i \in DOMAIN pairs
    BY <1>1
  <2>2. Len(t(i)) \in Nat
    BY <2>1, PairTextIs, WithoutIs
  <2>3. w \in Text /\ Len(w) \in Nat
    BY <2>1, PartsLie, TextIs
  <2> QED
    BY <2>1, <2>2, <2>3, PartsLie, ZenonT(60)
<1>3. /\ Len(w) <= l /\ \A x \in 1..Len(w) : text[0 + x] = w[x]
      /\ l = off[m] + 1 /\ text[l] \in {div, Nul}
  BY <1>1, <1>2 DEF LiesAt
<1>4. sep[1] = div /\ (k = 2 => sep[2] = Blank)
  BY DEF Separates
<1> HIDE DEF off, w, n, l, t
<1>5. e \in [0..m -> Nat] /\ e[0] = 0 /\ e[m] = l
  <2>1. \A i \in 0..m : i # 0 => off[i] \in Nat
    BY <1>1, <1>2
  <2> QED
    BY <1>1, <1>3, <2>1
<1>6. ASSUME NEW i \in 1..m
      PROVE  SpelledAt(text, div, some[i], e[i - 1], e[i], IF i = 1 THEN 0 ELSE k - 1)
  <2> DEFINE a == off[i - 1]
             b == IF i = 1 THEN 0 ELSE k - 1
             from == e[i - 1]
             to == e[i]
             ci == c(i)
             u == t(i)
  <2>1. i \in 1..n /\ some[i] = pairs[i]
    BY <1>1
  <2>2. /\ a \in Nat /\ off[i] = a + ci + Len(u) /\ Len(u) \in Nat /\ Len(w) \in Nat
        /\ LiesAt(w, a + ci, u) /\ (i # 1 => LiesAt(w, a, sep)) /\ off[0] = 0
    BY <1>2, <2>1
  <2>3. /\ to = off[i] + 1 /\ from = IF i = 1 THEN 0 ELSE a + 1
        /\ ci = IF i = 1 THEN 0 ELSE k
    BY <1>1, <2>1
  <2>4. i = 1 => a = 0
    BY <2>2
  <2>5. b = IF i = 1 THEN 0 ELSE k - 1
    OBVIOUS
  <2> HIDE DEF a, b, from, to, ci, u, e, c, k
  <2>6. /\ from \in Nat /\ b \in {0, 1} /\ from + b = a + ci /\ to = from + b + Len(u) + 1
        /\ to \in Nat /\ a + ci \in Nat
    BY <1>1, <2>2, <2>3, <2>4, <2>5
  <2>7. to <= l /\ text[to] \in {div, Nul}
    <3>1. CASE i = m
      <4>1. to = l
        BY <1>3, <2>3, <3>1
      <4> QED
        BY <1>1, <1>3, <4>1
    <3>2. CASE i # m
      <4> DEFINE j == i + 1
      <4>1. j \in 1..n /\ j - 1 = i /\ j # 1
        BY <1>1, <3>2
      <4> HIDE DEF j
      <4>2. LiesAt(w, off[j - 1], sep)
        BY <1>2, <4>1
      <4>3. off[i] + k <= Len(w) /\ off[i] \in Nat /\ w[off[i] + 1] = div
        <5>1. 1 \in 1..k
          BY <1>1
        <5> QED
          BY <1>4, <4>1, <4>2, <5>1 DEF LiesAt, k
      <4>4. to \in 1..Len(w) /\ 0 + to = to
        BY <1>1, <2>2, <2>3, <4>3
      <4>5. text[to] = div
        BY <1>3, <2>3, <4>3, <4>4
      <4>6. to <= l
        BY <1>1, <1>3, <2>2, <4>4
      <4> QED
        BY <4>5, <4>6
    <3> QED
      BY <3>1, <3>2
  <2>8. b = 1 => text[from + 1] = Blank
    <3> SUFFICES ASSUME b = 1 PROVE text[from + 1] = Blank
      OBVIOUS
    <3>1. i # 1 /\ k = 2
      BY <1>1, <2>5
    <3>2. w[a + 2] = Blank /\ a + 2 <= Len(w)
      BY <1>4, <2>2, <3>1 DEF LiesAt, k
    <3>3. a + 2 \in 1..Len(w) /\ from + 1 = a + 2 /\ 0 + (a + 2) = a + 2
      BY <2>2, <2>3, <3>1, <3>2
    <3> QED
      BY <1>3, <3>2, <3>3
  <2>9. LiesAt(text, from + b, u)
    <3>1. LiesAt(text, 0, w)
      BY DEF w
    <3>2. LiesAt(text, 0 + (a + ci), u)
      BY <1>1, <2>2, <3>1, LiesWithin DEF l
    <3>3. 0 + (a + ci) = from + b
      BY <2>6
    <3> QED
      BY <3>2, <3>3
  <2>10. u = PairText(some[i])
    BY <2>1 DEF u, t
  <2> QED
    BY <2>6, <2>7, <2>8, <2>9, <2>10 DEF SpelledAt, b, from, to, k, l
<1> HIDE DEF e
<1>7. Spells(text, div, some, e, k - 1)
  BY <1>5, <1>6 DEF Spells, l
<1> QED
  BY <1>7 DEF k

(* The pairs and an end behind them                                        *)
LEMMA Ended ==
    ASSUME NEW pairs \in Pairs, pairs # <<>>, NEW sep, NEW div \in {"&", Semicolon},
           Separates(sep, div), NEW end \in {div, Nul}
    PROVE  LET t == PairsText(pairs, sep) \o <<end>> IN
           /\ t \in Text /\ \E e : Spells(t, div, pairs, e, Len(sep) - 1)
           /\ Len(t) = Len(PairsText(pairs, sep)) + 1 /\ t[Len(t)] = end
<1> DEFINE w == PairsText(pairs, sep)
           n == Len(pairs)
           t == w \o <<end>>
<1>1. n \in Nat \ {0}
  <2>1. pairs \in Seq({p \in Seq(Without({Blank, "&", Semicolon, "CR", "LF", Nul})) :
           Len(p) \in 1..2 /\ p[1] \in Without(Signs)})
    BY DEF Pairs
  <2> QED
    BY <2>1, NotEmpty
<1>2. n \in 1..Len(pairs)
  BY <1>1
<1>3. w \in Text /\ Len(w) = Off(PairParts(pairs, sep))[n]
  BY <1>2, PartsLie
<1>4. <<end>> \in Text /\ Len(<<end>>) = 1 /\ <<end>>[1] = end
  <2>1. end \in Bytes
    BY Zenon DEF Bytes, Signs
  <2> QED
    BY <2>1, TextIs
<1> HIDE DEF w
<1>5. /\ t \in Text /\ Len(t) = Len(w) + 1 /\ Len(w) \in Nat
      /\ LiesAt(t, 0, w) /\ LiesAt(t, Len(w), <<end>>)
  BY <1>3, <1>4, Extended
<1> HIDE DEF t
<1>6. t[Len(t)] = end
  <2>1. 1 \in 1..Len(<<end>>)
    BY <1>4
  <2>2. t[Len(w) + 1] = end
    BY <1>4, <1>5, <2>1, Zenon DEF LiesAt
  <2> QED
    BY <1>5, <2>2
<1>7. \E e : Spells(t, div, pairs, e, Len(sep) - 1)
  <2>1. Len(t) = Off(PairParts(pairs, sep))[n] + 1
    BY <1>3, <1>5
  <2>2. \A i \in 1..n : pairs[i] = pairs[i]
    OBVIOUS
  <2>3. LiesAt(t, 0, PairsText(pairs, sep)) /\ t[Len(t)] \in {div, Nul}
    BY <1>5, <1>6 DEF w
  <2> HIDE DEF n
  <2>4. Len(pairs) = n
    BY DEF n
  <2> QED
    BY <1>2, <1>5, <2>1, <2>2, <2>3, <2>4, Spelled
<1> QED
  BY <1>5, <1>6, <1>7 DEF t, w

LEMMA CookiesRead ==
    ASSUME NEW form \in Forms, form.cookies # <<>>
    PROVE  SamePairs(CookiePairs(form), form.cookies)
<1> DEFINE w == PairsText(form.cookies, <<Semicolon, Blank>>)
           t == w \o <<Nul>>
           sep == <<Semicolon, Blank>>
<1>1. form.cookies \in Pairs
  BY FormIs
<1>2. Separates(sep, Semicolon) /\ Len(sep) - 1 = 1
  BY Separators
<1>3. t \in Text /\ \E e : Spells(t, Semicolon, form.cookies, e, Len(sep) - 1)
  BY <1>1, <1>2, Ended
<1> HIDE DEF t, sep
<1>4. \E e : Spells(t, Semicolon, form.cookies, e, 1)
  BY <1>2, <1>3
<1>5. SamePairs(ParseString(t, Semicolon, TRUE), form.cookies)
  BY <1>1, <1>3, <1>4, PairsRead
<1> QED
  BY <1>5 DEF CookiePairs, t

(* Pairs behind pairs                                                      *)
LEMMA SpellsJoin ==
    ASSUME NEW a \in Text, NEW b \in Text, NEW div, NEW p \in Pairs, NEW q \in Pairs,
           NEW f, Spells(a, div, p, f, 0), NEW g, Spells(b, div, q, g, 0)
    PROVE  \E e : Spells(a \o b, div, p \o q, e, 0)
<1> DEFINE n == Len(p)
           m == Len(q)
           l == Len(a)
           t == a \o b
           r == p \o q
           e == [i \in 0..n + m |-> IF i <= n THEN f[i] ELSE l + g[i - n]]
<1>1. n \in Nat /\ m \in Nat /\ DOMAIN p = 1..n /\ DOMAIN q = 1..m /\ l \in Nat
  BY PairsAre, TextIs
<1>2. /\ f \in [0..n -> Nat] /\ f[0] = 0 /\ f[n] = l
      /\ \A i \in 1..n : SpelledAt(a, div, p[i], f[i - 1], f[i], 0)
  BY DEF Spells
<1>3. /\ g \in [0..m -> Nat] /\ g[0] = 0 /\ g[m] = Len(b)
      /\ \A i \in 1..m : SpelledAt(b, div, q[i], g[i - 1], g[i], 0)
  BY DEF Spells
<1>4. /\ t \in Text /\ Len(t) = l + Len(b) /\ Len(b) \in Nat
      /\ LiesAt(t, 0, a) /\ LiesAt(t, l, b)
      /\ \A x \in Text : \A o : LiesAt(a, o, x) => LiesAt(t, o, x)
  BY Extended
<1>5. /\ Len(r) = n + m
      /\ \A i \in 1..n : r[i] = p[i]
      /\ \A i \in 1..m : r[n + i] = q[i]
  <2>1. \E S : p \in Seq(S) /\ q \in Seq(S)
    BY DEF Pairs
  <2> QED
    BY <2>1, ConcatIs
<1> HIDE DEF n, m, l, t, r
<1>6. e \in [0..n + m -> Nat] /\ e[0] = 0 /\ e[n + m] = Len(t)
  <2>1. \A i \in 0..n + m : i <= n => f[i] \in Nat
    BY <1>1, <1>2
  <2>2. \A i \in 0..n + m : ~(i <= n) => g[i - n] \in Nat
    BY <1>1, <1>3
  <2>3. e[0] = 0
    BY <1>1, <1>2
  <2>5. e \in [0..n + m -> Nat]
    <3>1. ASSUME NEW i \in 0..n + m PROVE (IF i <= n THEN f[i] ELSE l + g[i - n]) \in Nat
      <4>1. CASE i <= n
        BY <2>1, <4>1
      <4>2. CASE ~(i <= n)
        <5>1. g[i - n] \in Nat
          BY <2>2, <4>2
        <5> QED
          BY <1>1, <4>2, <5>1
      <4> QED
        BY <4>1, <4>2
    <3> QED
      BY <3>1
  <2>4. e[n + m] = Len(t)
    <3>1. CASE m = 0
      BY <1>1, <1>2, <1>3, <1>4, <3>1
    <3>2. CASE m # 0
      <4>1. e[n + m] = l + g[m]
        BY <1>1, <3>2
      <4> QED
        BY <1>3, <1>4, <4>1
    <3> QED
      BY <3>1, <3>2
  <2> QED
    BY <2>3, <2>4, <2>5
<1>7. ASSUME NEW i \in 1..n + m
      PROVE  SpelledAt(t, div, r[i], e[i - 1], e[i], 0)
  <2>1. CASE i <= n
    <3>1. i \in 1..n /\ r[i] = p[i] /\ e[i] = f[i] /\ e[i - 1] = f[i - 1]
      BY <1>1, <1>5, <2>1
    <3>2. SpelledAt(a, div, p[i], f[i - 1], f[i], 0)
      BY <1>2, <3>1
    <3> DEFINE x == f[i - 1]
               y == f[i]
               u == PairText(p[i])
    <3>3. u \in Text /\ Len(u) \in Nat
      BY <1>1, <3>1, PairTextIs, WithoutIs
    <3>4. /\ x \in Nat /\ y = x + 0 + Len(u) + 1 /\ y <= l /\ a[y] \in {div, Nul}
          /\ LiesAt(a, x + 0, u)
      BY <3>2 DEF SpelledAt, l
    <3> HIDE DEF x, y, u, e
    <3>5. y \in 1..l /\ 0 + y = y
      BY <3>3, <3>4, <1>1
    <3>6. t[y] = a[y]
      BY <1>4, <3>5 DEF LiesAt, l
    <3>7. y <= Len(t)
      BY <1>1, <1>4, <3>5
    <3>8. LiesAt(t, x + 0, u)
      BY <1>4, <3>3, <3>4
    <3>9. SpelledAt(t, div, p[i], x, y, 0)
      BY <3>4, <3>6, <3>7, <3>8 DEF SpelledAt, u
    <3> QED
      BY <3>1, <3>9 DEF x, y
  <2>2. CASE ~(i <= n)
    <3> DEFINE j == i - n
    <3>1. j \in 1..m /\ i = n + j
      BY <1>1, <2>2
    <3>2. r[i] = q[j]
      BY <1>5, <3>1
    <3>3. e[i] = l + g[j]
      BY <1>1, <2>2
    <3>4. e[i - 1] = l + g[j - 1]
      <4>1. CASE i - 1 <= n
        <5>1. i - 1 = n /\ j - 1 = 0
          BY <1>1, <2>2, <4>1
        <5>2. e[n] = l
          BY <1>1, <1>2
        <5> QED
          BY <1>1, <1>3, <5>1, <5>2
      <4>2. CASE ~(i - 1 <= n)
        <5>1. i - 1 \in 0..n + m /\ i - 1 - n = j - 1
          BY <1>1, <2>2
        <5> QED
          BY <4>2, <5>1
      <4> QED
        BY <4>1, <4>2
    <3>5. SpelledAt(b, div, q[j], g[j - 1], g[j], 0)
      BY <1>3, <3>1
    <3> DEFINE x == g[j - 1]
               y == g[j]
               u == PairText(q[j])
    <3>6. Len(u) \in Nat
      BY <1>1, <3>1, PairTextIs, WithoutIs
    <3>7. /\ x \in Nat /\ y = x + 0 + Len(u) + 1 /\ y <= Len(b) /\ b[y] \in {div, Nul}
          /\ LiesAt(b, x + 0, u)
      BY <3>5 DEF SpelledAt
    <3> HIDE DEF x, y, u, e, j
    <3>8. y \in 1..Len(b)
      BY <3>6, <3>7, <1>4
    <3>9. t[l + y] = b[y]
      BY <1>4, <3>8 DEF LiesAt
    <3>10. l + y <= Len(t) /\ l + x \in Nat /\ l + y = (l + x) + 0 + Len(u) + 1
      BY <1>1, <1>4, <3>6, <3>7, <3>8
    <3>11. LiesAt(t, (l + x) + 0, u)
      <4>1. Len(t) \in Nat
        BY <1>1, <1>4
      <4>2. LiesAt(t, l + (x + 0), u)
        BY <1>4, <3>6, <3>7, <4>1, LiesWithin
      <4>3. l + (x + 0) = (l + x) + 0
        BY <1>1, <3>7
      <4> QED
        BY <4>2, <4>3
    <3>12. SpelledAt(t, div, q[j], l + x, l + y, 0)
      BY <3>7, <3>9, <3>10, <3>11 DEF SpelledAt, u
    <3> QED
      BY <3>2, <3>3, <3>4, <3>12 DEF x, y
  <2> QED
    BY <2>1, <2>2
<1> HIDE DEF e
<1>8. \A i \in 1..Len(r) : (IF i = 1 THEN 0 ELSE 0) = 0
  OBVIOUS
<1>9. Spells(t, div, r, e, 0)
  BY <1>5, <1>6, <1>7, <1>8 DEF Spells
<1> QED
  BY <1>9 DEF t, r

(* A request with fields has their type, and no other.                     *)
LEMMA TypeGiven ==
    ASSUME NEW form \in Forms
    PROVE  HeaderParameter(Given(form), ContentType, <<>>) = UrlEncoded <=> form.fields # <<>>
<1> DEFINE n == Len(Lines(form))
           l == Lines(form)
           h == HeadersTo(form, n)
           f == form.headers
           named == {i \in DOMAIN h : h[i][1] = ContentType}
           kept(i) == KeptLine(form, i)
<1>1. n \in Nat
  BY LinesAre
<1>2. DOMAIN h = 1..n /\ \A i \in 1..n : h[i] = kept(i)
  BY <1>1, HeadersToIs
<1>3. HeaderParameter(Given(form), ContentType, <<>>)
        = IF named = {} THEN <<>> ELSE h[Min(named)][2]
  BY DEF HeaderParameter, Given, ReadTo, Read
<1>4. /\ \A i, j \in DOMAIN f : f[i][1] = f[j][1] => i = j
      /\ form.fields # <<>> <=>
           \E i \in DOMAIN f : f[i][1] = ContentType /\ f[i][2] = UrlEncoded
  BY FormKeys
<1>5. ContentType # Cookie /\ <<>> # UrlEncoded
  BY KeysAre DEF UrlEncoded
<1>6. \A i \in 1..n : kept(i)[1] = l[i][1] /\ (l[i][1] = ContentType => kept(i) = l[i])
  BY <1>5 DEF KeptLine
<1>7. \A i \in 1..n : l[i][1] = ContentType => \E j \in DOMAIN f : l[i] = f[j]
  BY <1>5, LineIs
<1>8. \A j \in DOMAIN f : \E i \in 1..n : l[i] = f[j]
  BY HeaderAt
<1> HIDE DEF n, l, h, f, kept
<1>9. \A i \in named : i \in 1..n /\ \E j \in DOMAIN f : h[i] = f[j] /\ f[j][1] = ContentType
  <2> SUFFICES ASSUME NEW i \in named
               PROVE  i \in 1..n /\ \E j \in DOMAIN f : h[i] = f[j] /\ f[j][1] = ContentType
    OBVIOUS
  <2>1. i \in 1..n /\ h[i][1] = ContentType
    BY <1>2
  <2>2. l[i][1] = ContentType /\ h[i] = l[i]
    BY <1>2, <1>6, <2>1
  <2> QED
    BY <1>7, <2>1, <2>2
<1>10. named # {} => Min(named) \in named
  <2>1. named \subseteq Nat
    BY <1>1, <1>9
  <2> QED
    BY <2>1, MinIs
<1>11. ASSUME form.fields # <<>> PROVE named # {} /\ h[Min(named)][2] = UrlEncoded
  <2>1. PICK j \in DOMAIN f : f[j][1] = ContentType /\ f[j][2] = UrlEncoded
    BY <1>4, <1>11
  <2>2. PICK i \in 1..n : l[i] = f[j]
    BY <1>8
  <2>3. i \in named
    BY <1>2, <1>6, <2>1, <2>2
  <2>4. PICK o \in DOMAIN f : h[Min(named)] = f[o] /\ f[o][1] = ContentType
    BY <1>9, <1>10, <2>3
  <2>5. o = j
    BY <1>4, <2>1, <2>4
  <2> QED
    BY <2>1, <2>3, <2>4, <2>5
<1>12. ASSUME named # {}, h[Min(named)][2] = UrlEncoded PROVE form.fields # <<>>
  <2>1. PICK o \in DOMAIN f : h[Min(named)] = f[o] /\ f[o][1] = ContentType
    BY <1>9, <1>10, <1>12
  <2> QED
    BY <1>4, <1>12, <2>1
<1> HIDE DEF named
<1> QED
  BY <1>3, <1>5, <1>11, <1>12

(* What is before the fields: the parameters of the uri                    *)
Before(params) ==
    LET k == Len(params) IN
    IF k = 0 THEN <<>>
    ELSE IF k > 1 /\ params[k - 1] # "&" THEN [params EXCEPT ![k] = "&"]
    ELSE Front(params)

LEMMA FieldsAdded ==
    ASSUME NEW form \in Forms
    PROVE  WithFields(Given(form)) =
             IF form.fields = <<>> THEN Given(form)
             ELSE [Given(form) EXCEPT
                     !.params = (Before(ParamsText(form)) \o BodyText(form)) \o <<Nul>>]
<1> DEFINE r == Given(form)
           b == Before(r.params)
<1>1. r.params = ParamsText(form) /\ r.body = BodyText(form)
  BY DEF Given, ReadTo, Read
<1>2. HeaderParameter(r, ContentType, <<>>) = UrlEncoded <=> form.fields # <<>>
  BY TypeGiven
<1> HIDE DEF r
<1>3. WithFields(r) = IF HeaderParameter(r, ContentType, <<>>) = UrlEncoded
                      THEN [r EXCEPT !.params = (b \o r.body) \o <<Nul>>] ELSE r
  BY DEF WithFields, Before
<1> HIDE DEF b
<1>4. b = Before(ParamsText(form))
  BY <1>1 DEF b
<1> QED
  BY <1>1, <1>2, <1>3, <1>4, Zenon DEF r

LEMMA BeforeIs ==
    ASSUME NEW w \in Text
    PROVE  /\ w # <<>> /\ w[Len(w)] # "&" => Before(w \o <<Nul>>) = w \o <<"&">>
           /\ w = <<>> \/ w[Len(w)] = "&" => Before(w \o <<Nul>>) = w
           /\ Before(<<>>) = <<>>
<1> DEFINE p == w \o <<Nul>>
           q == w \o <<"&">>
           n == Len(w)
<1>1. Nul \in Bytes /\ "&" \in Bytes
  BY Zenon DEF Bytes, Signs
<1>2. w \in Seq(Bytes) /\ n \in Nat /\ DOMAIN w = 1..n
  BY TextIs
<1>3. /\ p \in Seq(Bytes) /\ Len(p) = n + 1 /\ \A m \in 1..n : p[m] = w[m]
      /\ p[n + 1] = Nul
  BY <1>1, <1>2
<1>4. /\ q \in Seq(Bytes) /\ Len(q) = n + 1 /\ \A m \in 1..n : q[m] = w[m]
      /\ q[n + 1] = "&"
  BY <1>1, <1>2
<1>5. n = 0 => w = <<>>
  BY <1>2
<1>6. w = <<>> => n = 0
  BY <1>2
<1> HIDE DEF p, q, n
<1>7. ASSUME w # <<>>, w[n] # "&" PROVE Before(p) = q
  <2>1. n # 0 /\ Len(p) > 1 /\ Len(p) # 0 /\ Len(p) - 1 = n /\ p[n] = w[n]
    BY <1>2, <1>3, <1>5, <1>7
  <2>2. Before(p) = [p EXCEPT ![n + 1] = "&"]
    BY <1>3, <1>7, <2>1 DEF Before
  <2> DEFINE a == [p EXCEPT ![n + 1] = "&"]
  <2>3. /\ a \in Seq(Bytes) /\ Len(a) = n + 1 /\ a[n + 1] = "&"
        /\ \A m \in 1..n : a[m] = p[m]
    BY <1>1, <1>2, <1>3
  <2> HIDE DEF a
  <2>4. \A m \in 1..n + 1 : a[m] = q[m]
    BY <1>2, <1>3, <1>4, <2>3
  <2>5. a = q
    BY <1>4, <2>3, <2>4, SameSeq
  <2> QED
    BY <2>2, <2>5 DEF a
<1>8. ASSUME w = <<>> \/ w[n] = "&" PROVE Before(p) = w
  <2>1. Len(p) # 0 /\ Len(p) - 1 = n
    BY <1>2, <1>3
  <2>2. Len(p) > 1 => p[n] = "&"
    BY <1>2, <1>3, <1>6, <1>8
  <2>3. Before(p) = SubSeq(p, 1, n)
    BY <2>1, <2>2 DEF Before, Front
  <2> DEFINE a == SubSeq(p, 1, n)
  <2>4. a \in Seq(Bytes) /\ Len(a) = n /\ \A m \in 1..n : a[m] = p[m]
    BY <1>2, <1>3
  <2> HIDE DEF a
  <2>5. \A m \in 1..n : a[m] = w[m]
    BY <1>3, <2>4
  <2>6. a = w
    BY <1>2, <2>4, <2>5, SameSeq DEF n
  <2> QED
    BY <2>3, <2>6 DEF a
<1>9. Before(<<>>) = <<>>
  BY DEF Before
<1> QED
  BY <1>7, <1>8, <1>9, Zenon DEF p, q, n

(* How a text of parameters ends                                           *)
LEMMA EndOfPairs ==
    ASSUME NEW pairs \in Pairs, pairs # <<>>
    PROVE  LET w == PairsText(pairs, <<"&">>)
               n == Len(pairs)
           IN
           /\ n \in Nat \ {0} /\ w \in Text
           /\ pairs[n] # <<<<>>>> => w # <<>> /\ w[Len(w)] # "&"
           /\ pairs[n] = <<<<>>>> /\ n = 1 => w = <<>>
           /\ pairs[n] = <<<<>>>> /\ n # 1 =>
                /\ w[Len(w)] = "&" /\ n - 1 \in 1..n
                /\ Len(w) = Off(PairParts(pairs, <<"&">>))[n - 1] + 1
<1> DEFINE w == PairsText(pairs, <<"&">>)
           n == Len(pairs)
           off == Off(PairParts(pairs, <<"&">>))
           t == PairText(pairs[n])
           sep == <<"&">>
           c == IF n = 1 THEN 0 ELSE 1
<1>1. n \in Nat \ {0} /\ n \in DOMAIN pairs /\ n \in 1..Len(pairs)
  <2>1. pairs \in Seq({p \in Seq(Without({Blank, "&", Semicolon, "CR", "LF", Nul})) :
           Len(p) \in 1..2 /\ p[1] \in Without(Signs)})
    BY DEF Pairs
  <2>2. n \in Nat \ {0}
    BY <2>1, NotEmpty
  <2> QED
    BY <2>2, PairsAre
<1>2. /\ off[n - 1] \in Nat /\ off[n] \in Nat /\ off[0] = 0
      /\ Len(w) = off[n] /\ w \in Text
      /\ off[n] = off[n - 1] + c + Len(t)
      /\ LiesAt(w, off[n - 1] + c, t)
      /\ n # 1 => LiesAt(w, off[n - 1], sep)
  <2>1. Separates(sep, "&") /\ Len(sep) = 1
    BY Separators
  <2> HIDE DEF sep
  <2>2. /\ off[n - 1] \in Nat /\ off[n] \in Nat /\ off[0] = 0
        /\ Len(w) = off[n] /\ w \in Text
        /\ off[n] = off[n - 1] + (IF n = 1 THEN 0 ELSE Len(sep)) + Len(t)
        /\ LiesAt(w, off[n - 1] + (IF n = 1 THEN 0 ELSE Len(sep)), t)
        /\ n # 1 => LiesAt(w, off[n - 1], sep)
    BY <1>1, <2>1, PartsLie DEF sep
  <2> QED
    BY <2>1, <2>2
<1>3. t \in Without(PairSigns) /\ t \in Text /\ Len(t) \in Nat /\ DOMAIN t = 1..Len(t)
      /\ \A m \in 1..Len(t) : t[m] \notin PairSigns
  BY <1>1, PairTextIs, WithoutIs
<1>4. w = <<>> <=> Len(w) = 0
  BY <1>2, TextIs
<1>5. t = <<>> <=> Len(t) = 0
  BY <1>3, TextIs
<1>6. t = <<>> <=> pairs[n] = <<<<>>>>
  <2> DEFINE x == pairs[n]
  <2>1. /\ Len(x) \in 1..2 /\ x \in Seq(Without(PairSigns))
        /\ \A j \in 1..Len(x) : x[j] \in Without(PairSigns)
    BY <1>1, PairIs
  <2> HIDE DEF x
  <2>2. x[1] \in Text /\ 1 \in 1..Len(x)
    <3>0. Len(x) \in 1..2
      BY <2>1
    <3>1. 1 \in 1..Len(x)
      BY <3>0
    <3>2. x[1] \in Without(PairSigns)
      BY <2>1, <3>1
    <3> QED
      BY <3>1, <3>2, WithoutIs
  <2>3. CASE Len(x) = 1
    <3>1. PairText(x) = x[1]
      BY <2>2, <2>3, TextIs, EmptyBehind DEF PairText
    <3>2. x = <<x[1]>>
      BY <2>1, <2>3
    <3>3. x = <<<<>>>> <=> x[1] = <<>>
      BY <3>2
    <3> QED
      BY <3>1, <3>3 DEF x
  <2>4. CASE Len(x) = 2
    <3>1. x # <<<<>>>>
      BY <2>4
    <3>2. PairText(x) = x[1] \o (<<"=">> \o x[2])
      BY <2>4 DEF PairText
    <3>3. x[2] \in Seq(Bytes) /\ x[1] \in Seq(Bytes) /\ <<"=">> \in Seq(Bytes)
      <4>1. "=" \in Bytes
        BY Zenon DEF Bytes, Signs
      <4>2. 2 \in 1..Len(x)
        BY <2>4
      <4>3. x[2] \in Text
        BY <2>1, <4>2, WithoutIs
      <4> QED
        BY <2>2, <4>1, <4>3, TextIs
    <3>4. Len(PairText(x)) # 0
      <4> HIDE DEF x
      <4>1. <<"=">> \o x[2] \in Seq(Bytes) /\ Len(<<"=">> \o x[2]) = 1 + Len(x[2])
            /\ Len(x[2]) \in Nat /\ Len(x[1]) \in Nat
        BY <3>3
      <4>2. Len(x[1] \o (<<"=">> \o x[2])) = Len(x[1]) + (1 + Len(x[2]))
        BY <3>3, <4>1, ConcatIs
      <4>3. Len(PairText(x)) = Len(x[1]) + (1 + Len(x[2]))
        BY <3>2, <4>2, Zenon
      <4>4. Len(x[2]) \in Nat /\ Len(x[1]) \in Nat
        BY <4>1
      <4> DEFINE a == Len(x[1])
                 b == Len(x[2])
                 y == Len(PairText(x))
      <4>5. y = a + (1 + b) /\ a \in Nat /\ b \in Nat
        BY <4>3, <4>4
      <4> HIDE DEF a, b, y
      <4>6. y # 0
        BY <4>5
      <4> QED
        BY <4>6 DEF y
    <3> QED
      BY <1>5, <3>1, <3>4 DEF x
  <2> QED
    BY <2>1, <2>3, <2>4
<1> HIDE DEF w, n, off, t
<1>7. ASSUME pairs[n] # <<<<>>>> PROVE w # <<>> /\ w[Len(w)] # "&"
  <2>1. Len(t) # 0
    BY <1>5, <1>6, <1>7
  <2>2. Len(w) # 0 /\ Len(w) = (off[n - 1] + c) + Len(t) /\ Len(t) \in 1..Len(t)
    <3>1. /\ off[n - 1] \in Nat /\ off[n] \in Nat /\ Len(w) = off[n]
          /\ off[n] = off[n - 1] + c + Len(t) /\ Len(t) \in Nat /\ c \in Nat
      BY <1>2, <1>3
    <3> HIDE DEF c
    <3> QED
      BY <2>1, <3>1
  <2>3. w[Len(w)] = t[Len(t)]
    BY <1>2, <2>2 DEF LiesAt
  <2>4. "&" \in PairSigns
    BY DEF PairSigns
  <2> QED
    BY <1>3, <1>4, <2>2, <2>3, <2>4
<1>8. ASSUME pairs[n] = <<<<>>>>, n = 1 PROVE w = <<>>
  <2>1. Len(t) = 0
    BY <1>5, <1>6, <1>8
  <2>2. off[n - 1] = 0
    BY <1>2, <1>8
  <2> QED
    BY <1>2, <1>4, <1>8, <2>1, <2>2
<1>9. ASSUME pairs[n] = <<<<>>>>, n # 1
      PROVE  w[Len(w)] = "&" /\ n - 1 \in 1..n /\ Len(w) = off[n - 1] + 1
  <2>1. Len(t) = 0
    BY <1>5, <1>6, <1>9
  <2>2. Len(w) = off[n - 1] + 1
    BY <1>2, <1>9, <2>1
  <2>3. w[off[n - 1] + 1] = "&"
    <3>1. Len(sep) = 1 /\ sep[1] = "&" /\ 1 \in 1..Len(sep)
      OBVIOUS
    <3> QED
      BY <1>2, <1>9, <3>1 DEF LiesAt
  <2> QED
    BY <1>1, <1>9, <2>2, <2>3
<1> QED
  BY <1>1, <1>2, <1>7, <1>8, <1>9, Zenon DEF w, n, off

LEMMA Regrouped ==
    ASSUME NEW a \in Text, NEW b \in Text, NEW c \in Text
    PROVE  (a \o b) \o c = a \o (b \o c)
<1>1. a \in Seq(Bytes) /\ b \in Seq(Bytes) /\ c \in Seq(Bytes)
  BY TextIs
<1> QED
  BY <1>1

(* Pairs alone, and pairs behind pairs, are read as they are.              *)
LEMMA PairsAlone ==
    ASSUME NEW pairs \in Pairs, pairs # <<>>
    PROVE  LET t == PairsText(pairs, <<"&">>) \o <<Nul>> IN
           /\ SamePairs(ParseString(t, "&", FALSE), pairs)
           /\ t \in Text /\ \E e : Spells(t, "&", pairs, e, 0)
<1> DEFINE sep == <<"&">>
           t == PairsText(pairs, sep) \o <<Nul>>
<1>1. Separates(sep, "&") /\ Len(sep) - 1 = 0
  BY Separators
<1>2. t \in Text /\ \E e : Spells(t, "&", pairs, e, Len(sep) - 1)
  BY <1>1, Ended
<1> HIDE DEF t, sep
<1>3. PICK e : Spells(t, "&", pairs, e, 0)
  BY <1>1, <1>2
<1>4. SamePairs(ParseString(t, "&", FALSE), pairs)
  <2>1. 0 = 1 => FALSE
    OBVIOUS
  <2>2. "&" \in {"&", Semicolon}
    OBVIOUS
  <2> QED
    BY <1>2, <1>3, <2>1, <2>2, PairsRead, Zenon
<1> QED
  BY <1>2, <1>3, <1>4 DEF t, sep

LEMMA PairsTogether ==
    ASSUME NEW a \in Text, NEW p \in Pairs, NEW f, Spells(a, "&", p, f, 0),
           NEW q \in Pairs, q # <<>>
    PROVE  SamePairs(ParseString((a \o PairsText(q, <<"&">>)) \o <<Nul>>, "&", FALSE), p \o q)
<1> DEFINE v == PairsText(q, <<"&">>)
           b == v \o <<Nul>>
           r == p \o q
           t == a \o b
<1>1. b \in Text /\ \E e : Spells(b, "&", q, e, 0)
  BY PairsAlone
<1>2. v \in Text /\ <<Nul>> \in Text
  <2>1. Nul \in Bytes
    BY Zenon DEF Bytes, Signs
  <2> QED
    BY <2>1, TextIs, QueryIs, WithoutIs
<1> HIDE DEF v
<1>3. (a \o v) \o <<Nul>> = t
  BY <1>2, Regrouped
<1> HIDE DEF b
<1>4. r \in Pairs /\ r # <<>>
  <2>1. \E S : Pairs = Seq(S)
    BY DEF Pairs
  <2>2. PICK S : Pairs = Seq(S)
    BY <2>1
  <2>3. r \in Seq(S) /\ Len(r) = Len(p) + Len(q) /\ Len(p) \in Nat /\ Len(q) \in Nat
    BY <2>2, ConcatIs
  <2>4. Len(q) # 0
    BY <2>2, NotEmpty
  <2>5. r = <<>> => Len(r) = 0
    OBVIOUS
  <2> HIDE DEF r
  <2> QED
    BY <2>2, <2>3, <2>4, <2>5
<1>5. PICK g : Spells(b, "&", q, g, 0)
  BY <1>1
<1>6. t \in Text
  BY <1>1, Extended
<1>7. PICK e : Spells(t, "&", r, e, 0)
  BY <1>1, <1>5, SpellsJoin
<1> HIDE DEF t, r
<1>8. SamePairs(ParseString(t, "&", FALSE), r)
  <2>1. 0 = 1 => FALSE
    OBVIOUS
  <2>2. "&" \in {"&", Semicolon}
    OBVIOUS
  <2> QED
    BY <1>4, <1>6, <1>7, <2>1, <2>2, PairsRead, Zenon
<1> QED
  BY <1>3, <1>8 DEF r, v

LEMMA NoPairs == SamePairs(ParseString(<<>>, "&", FALSE), <<>>)
<1> DEFINE r == ParseString(<<>>, "&", FALSE)
           s == Cells(<<>>, "&", FALSE)
           S == CellSet(<<>>, "&", FALSE)
<1>1. <<>> \in Text /\ Len(<<>>) = 0
  BY TextIs
<1>2. r = FlattenSeq(s) /\ s \in Seq(Seq(S)) /\ Len(s) = 0
  BY <1>1, ParsedIs
<1> HIDE DEF r, s, S
<1>3. FlattenSeq(s) \in Seq(S) /\ Offsets(s, Off(s))
  BY <1>2, FlattenIs
<1>4. Len(FlattenSeq(s)) = 0
  BY <1>2, <1>3 DEF Offsets
<1>5. Len(r) = Len(<<>>) /\ DOMAIN <<>> = {}
  BY <1>1, <1>2, <1>4
<1> QED
  BY <1>5 DEF SamePairs, r

(* The text of all parameters                                              *)
AllParams(form) ==
    IF form.fields = <<>> THEN ParamsText(form)
    ELSE (Before(ParamsText(form)) \o BodyText(form)) \o <<Nul>>

LEMMA ParamsSent ==
    ASSUME NEW form \in Forms
    PROVE  SamePairs(ParseString(AllParams(form), "&", FALSE), ParamsOf(form))
<1> DEFINE q == form.query
           d == form.fields
           w == PairsText(q, <<"&">>)
           v == PairsText(d, <<"&">>)
           read(t) == ParseString(t, "&", FALSE)
           n == Len(q)
<1>1. q \in Pairs /\ d \in Pairs
  BY FormIs
<1>2. w \in Text /\ v \in Text /\ Nul \in Bytes
  BY <1>1, QueryIs, WithoutIs, Zenon DEF Bytes, Signs
<1>3. ParamsText(form) = IF q = <<>> THEN <<>> ELSE w \o <<Nul>>
  BY DEF ParamsText
<1>4. d # <<>> => AllParams(form) = (Before(ParamsText(form)) \o v) \o <<Nul>>
  BY DEF AllParams, BodyText
<1>5. d = <<>> => AllParams(form) = ParamsText(form)
  BY DEF AllParams
<1>6. ParamsOf(form) = (IF d # <<>> /\ q # <<>> /\ q[n] = <<<<>>>> THEN Front(q) ELSE q) \o d
  BY DEF ParamsOf, Last
<1>7. \A x \in Pairs : x \o <<>> = x /\ <<>> \o x = x
  <2>1. PICK S : Pairs = Seq(S)
    BY DEF Pairs
  <2> QED
    BY <2>1, EmptyBehind
<1> HIDE DEF q, d, w, n
<1>8. CASE d = <<>> /\ q = <<>>
  <2>1. AllParams(form) = <<>> /\ ParamsOf(form) = <<>>
    BY <1>1, <1>3, <1>5, <1>6, <1>7, <1>8
  <2> QED
    BY <2>1, NoPairs
<1>9. CASE d = <<>> /\ q # <<>>
  <2>1. AllParams(form) = w \o <<Nul>> /\ ParamsOf(form) = q
    BY <1>1, <1>3, <1>5, <1>6, <1>7, <1>9
  <2> QED
    BY <1>1, <1>9, <2>1, PairsAlone DEF w
<1>10. CASE d # <<>> /\ q = <<>>
  <2>1. ParamsText(form) = <<>> /\ Before(<<>>) = <<>>
    BY <1>2, <1>3, <1>10, BeforeIs
  <2>2. AllParams(form) = (<<>> \o v) \o <<Nul>>
    BY <1>4, <1>10, <2>1
  <2>3. <<>> \o v = v
    BY <1>2, TextIs, EmptyBehind
  <2>4. ParamsOf(form) = d
    BY <1>1, <1>6, <1>7, <1>10
  <2> QED
    BY <1>1, <1>10, <2>2, <2>3, <2>4, PairsAlone
<1>11. CASE d # <<>> /\ q # <<>> /\ q[n] # <<<<>>>>
  <2> DEFINE a == w \o <<"&">>
  <2>1. w # <<>> /\ w[Len(w)] # "&"
    BY <1>1, <1>11, EndOfPairs DEF w, n
  <2>2. Before(w \o <<Nul>>) = a
    BY <1>2, <2>1, BeforeIs
  <2>3. AllParams(form) = (a \o v) \o <<Nul>>
    BY <1>3, <1>4, <1>11, <2>2
  <2>4. a \in Text /\ \E f : Spells(a, "&", q, f, 0)
    <3> DEFINE sep == <<"&">>
    <3>1. Separates(sep, "&") /\ Len(sep) - 1 = 0
      BY Separators
    <3>2. "&" \in {"&", Nul} /\ "&" \in {"&", Semicolon}
      OBVIOUS
    <3>3. /\ PairsText(q, sep) \o <<"&">> \in Text
          /\ \E f : Spells(PairsText(q, sep) \o <<"&">>, "&", q, f, Len(sep) - 1)
      BY <1>1, <1>11, <3>1, <3>2, Ended
    <3>4. PairsText(q, sep) \o <<"&">> = a
      BY DEF w
    <3> HIDE DEF a, sep
    <3> QED
      BY <3>1, <3>3, <3>4
  <2>5. PICK f : Spells(a, "&", q, f, 0)
    BY <2>4
  <2>6. ParamsOf(form) = q \o d
    BY <1>6, <1>11
  <2> HIDE DEF a
  <2> QED
    BY <1>1, <1>11, <2>3, <2>4, <2>5, <2>6, PairsTogether
<1>12. CASE d # <<>> /\ q # <<>> /\ q[n] = <<<<>>>>
  <2>1. /\ n \in Nat \ {0}
        /\ n = 1 => w = <<>>
        /\ n # 1 => /\ w[Len(w)] = "&" /\ n - 1 \in 1..n
                    /\ Len(w) = Off(PairParts(q, <<"&">>))[n - 1] + 1
    BY <1>1, <1>12, EndOfPairs DEF w, n
  <2>2. Before(w \o <<Nul>>) = w
    BY <1>2, <2>1, BeforeIs
  <2>3. AllParams(form) = (w \o v) \o <<Nul>>
    BY <1>3, <1>4, <1>12, <2>2
  <2> DEFINE some == Front(q)
  <2>4. ParamsOf(form) = some \o d
    BY <1>6, <1>12
  <2>5. /\ some \in Pairs /\ Len(some) = n - 1
        /\ \A i \in 1..n - 1 : some[i] = q[i]
    <3>1. PICK S : Pairs = Seq(S)
      BY DEF Pairs
    <3>2. q \in Seq(S) /\ Len(q) = n /\ n - 1 \in 0..n
      BY <1>1, <2>1, <3>1 DEF n
    <3>3. /\ SubSeq(q, 1, n - 1) \in Seq(S) /\ Len(SubSeq(q, 1, n - 1)) = n - 1
          /\ \A i \in 1..n - 1 : SubSeq(q, 1, n - 1)[i] = q[i]
      BY <2>1, <3>2
    <3>4. Front(q) = SubSeq(q, 1, n - 1)
      BY DEF Front, n
    <3> QED
      BY <3>1, <3>3, <3>4
  <2> HIDE DEF some
  <2>6. CASE n = 1
    <3>1. some = <<>>
      <4>1. Len(some) = 0
        BY <2>5, <2>6
      <4>2. \E S : Pairs = Seq(S)
        BY DEF Pairs
      <4> QED
        BY <2>5, <4>1, <4>2
    <3>2. w \o v = v
      BY <1>2, <2>1, <2>6, TextIs, EmptyBehind
    <3>3. ParamsOf(form) = d
      BY <1>1, <1>7, <2>4, <3>1
    <3> QED
      BY <1>1, <1>12, <2>3, <3>2, <3>3, PairsAlone
  <2>7. CASE n # 1
    <3>1. \E f : Spells(w, "&", some, f, 0)
      <4> DEFINE sep == <<"&">>
                 m == n - 1
      <4>1. Separates(sep, "&") /\ Len(sep) - 1 = 0
        BY Separators
      <4>2. Len(some) = m /\ \A i \in 1..m : some[i] = q[i]
        BY <2>5
      <4>3. m \in 1..Len(q) /\ Len(w) = Off(PairParts(q, sep))[m] + 1 /\ w[Len(w)] \in {"&", Nul}
        BY <2>1, <2>7 DEF n
      <4>4. LiesAt(w, 0, w)
        <5>1. Len(w) \in Nat /\ \A x \in 1..Len(w) : w[0 + x] = w[x]
          BY <1>2, TextIs
        <5> QED
          BY <5>1 DEF LiesAt
      <4>5. LiesAt(w, 0, PairsText(q, sep))
        BY <4>4 DEF w
      <4> HIDE DEF sep, m
      <4>6. \E f : Spells(w, "&", some, f, Len(sep) - 1)
        BY <1>1, <1>2, <4>1, <4>2, <4>3, <4>5, Spelled
      <4> QED
        BY <4>1, <4>6
    <3>2. PICK f : Spells(w, "&", some, f, 0)
      BY <3>1
    <3> QED
      BY <1>1, <1>2, <1>12, <2>3, <2>4, <2>5, <3>2, PairsTogether
  <2> QED
    BY <2>6, <2>7
<1> QED
  BY <1>8, <1>9, <1>10, <1>11, <1>12

(* The request handed to the server is the one that was sent.              *)
Delivered(r) == [r EXCEPT !.params = ParseString(@, "&", FALSE)]

LEMMA AllRead ==
    ASSUME NEW form \in Forms
    PROVE  LET r == Delivered(WithFields(Given(form))) IN
           /\ r.method = form.method /\ r.uri = form.uri /\ r.version = form.version
           /\ r.body = BodyText(form)
           /\ r.headers = HeadersTo(form, Len(Lines(form)))
           /\ r.cookies = CookiesTo(form, Len(Lines(form)))
           /\ r.params = ParseString(AllParams(form), "&", FALSE)
           /\ form.fields = <<>> => WithFields(Given(form)) = Given(form)
<1> DEFINE m == form.method
           u == form.uri
           x == form.version
           p == ParamsText(form)
           h == HeadersTo(form, Len(Lines(form)))
           c == CookiesTo(form, Len(Lines(form)))
           b == BodyText(form)
           a == AllParams(form)
           g == Read(m, u, p, x, h, c, b)
           y == Read(m, u, a, x, h, c, b)
           z == ParseString(a, "&", FALSE)
<1>1. Given(form) = g
  BY DEF Given, ReadTo
<1>2. WithFields(g) = IF form.fields = <<>> THEN g
                      ELSE [g EXCEPT !.params = (Before(p) \o b) \o <<Nul>>]
  BY <1>1, FieldsAdded
<1>3. a = IF form.fields = <<>> THEN p ELSE (Before(p) \o b) \o <<Nul>>
  BY DEF AllParams
<1> HIDE DEF m, u, x, p, h, c, b, a
<1>4. WithFields(g) = y
  <2> DEFINE k == (Before(p) \o b) \o <<Nul>>
  <2>1. [g EXCEPT !.params = k] = Read(m, u, k, x, h, c, b)
    <3> HIDE DEF k
    <3> QED
      BY DEF Read
  <2> HIDE DEF k, g
  <2>2. CASE form.fields = <<>>
    <3>1. a = p /\ WithFields(g) = g
      BY <1>2, <1>3, <2>2
    <3> QED
      BY <3>1 DEF g
  <2>3. CASE form.fields # <<>>
    <3>1. a = k /\ WithFields(g) = [g EXCEPT !.params = k]
      BY <1>2, <1>3, <2>3 DEF k
    <3> QED
      BY <2>1, <3>1
  <2> QED
    BY <2>2, <2>3
<1>5. Delivered(y) = Read(m, u, z, x, h, c, b)
  <2>1. y.params = a
    BY DEF Read
  <2>2. Delivered(y) = [y EXCEPT !.params = z]
    BY <2>1 DEF Delivered
  <2> HIDE DEF z
  <2> QED
    BY <2>2 DEF Read
<1> DEFINE r == Delivered(WithFields(Given(form)))
<1>6. r = Read(m, u, z, x, h, c, b)
  BY <1>1, <1>4, <1>5, Zenon
<1>7. form.fields = <<>> => WithFields(Given(form)) = Given(form)
  BY <1>1, <1>2
<1> HIDE DEF r, z
<1>8. /\ r.method = m /\ r.uri = u /\ r.version = x /\ r.body = b
      /\ r.headers = h /\ r.cookies = c /\ r.params = z
  BY <1>6 DEF Read
<1> QED
  BY <1>7, <1>8, Zenon DEF r, m, u, x, h, c, b, z, a

LEMMA HeadersSent ==
    ASSUME NEW form \in Forms
    PROVE  LET h == HeadersTo(form, Len(Lines(form))) IN
           form.headers = IF form.cookies = <<>> THEN h ELSE Tail(h)
<1> DEFINE n == Len(Lines(form))
           l == Lines(form)
           h == HeadersTo(form, n)
           f == form.headers
           S == Word \X Without(LineEnds)
           T == {KeptLine(form, i) : i \in 1..n}
           U == S \union T
<1>1. n \in Nat
  BY LinesAre
<1>2. /\ Len(h) = n /\ h \in Seq(T)
      /\ \A i \in 1..n : h[i] = KeptLine(form, i)
  BY <1>1, HeadersToIs
<1>3. f \in Seq(S) /\ Len(f) \in Nat
  BY FormIs, LinesGiven
<1>4. ASSUME NEW i \in 1..n, form.cookies = <<>> \/ i # 1 PROVE h[i] = l[i]
  <2>1. l[i][1] # Cookie
    BY <1>4, LineIs
  <2> QED
    BY <1>2, <2>1 DEF KeptLine
<1>5. /\ form.cookies = <<>> => l = f
      /\ form.cookies # <<>> => n = Len(f) + 1 /\ \A i \in 1..Len(f) : l[i + 1] = f[i]
  BY LinesGiven
<1>6. form.cookies = <<>> => n = Len(f)
  BY <1>5
<1> HIDE DEF n, l, h, f, S, T
<1>7. h \in Seq(U) /\ f \in Seq(U)
  BY <1>2, <1>3
<1> HIDE DEF U
<1>8. CASE form.cookies = <<>>
  <2>1. Len(h) = Len(f) /\ \A i \in 1..Len(h) : h[i] = f[i]
    BY <1>2, <1>4, <1>5, <1>6, <1>8
  <2>2. h = f
    BY <1>7, <2>1, SameSeq
  <2> QED
    BY <1>8, <2>2 DEF h, f, n
<1>9. CASE form.cookies # <<>>
  <2> DEFINE t == Tail(h)
  <2>1. n = Len(f) + 1 /\ n >= 1
    BY <1>3, <1>5, <1>9
  <2>2. t \in Seq(U) /\ Len(t) = n - 1 /\ \A i \in 1..n - 1 : t[i] = h[i + 1]
    BY <1>1, <1>2, <1>7, <2>1
  <2> HIDE DEF t
  <2>3. ASSUME NEW i \in 1..Len(t) PROVE t[i] = f[i]
    <3>1. i \in 1..n - 1 /\ i \in 1..Len(f) /\ i + 1 \in 1..n /\ i + 1 # 1
      BY <1>1, <1>3, <2>1, <2>2, <2>3
    <3>2. h[i + 1] = l[i + 1]
      BY <1>4, <3>1
    <3> QED
      BY <1>5, <1>9, <2>2, <3>1, <3>2
  <2>4. Len(t) = Len(f)
    BY <1>3, <2>1, <2>2
  <2>5. t = f
    BY <1>7, <2>2, <2>3, <2>4, SameSeq
  <2> QED
    BY <1>9, <2>5 DEF t, h, f, n
<1> QED
  BY <1>8, <1>9

LEMMA CookiesSent ==
    ASSUME NEW form \in Forms
    PROVE  SamePairs(CookiesTo(form, Len(Lines(form))), form.cookies)
<1>1. CASE form.cookies = <<>>
  <2>1. CookiesTo(form, Len(Lines(form))) = <<>>
    BY <1>1 DEF CookiesTo
  <2>2. SamePairs(<<>>, <<>>)
    BY DEF SamePairs
  <2> QED
    BY <1>1, <2>1, <2>2
<1>2. CASE form.cookies # <<>>
  <2>1. Len(Lines(form)) >= 1
    BY <1>2, LinesGiven
  <2>2. CookiesTo(form, Len(Lines(form))) = CookiePairs(form)
    BY <1>2, <2>1 DEF CookiesTo
  <2> QED
    BY <1>2, <2>2, CookiesRead
<1> QED
  BY <1>1, <1>2

LEMMA RequestRead ==
    ASSUME NEW form \in Forms
    PROVE  SameRequest(Delivered(WithFields(Given(form))), form)
<1> DEFINE r == Delivered(WithFields(Given(form)))
           h == HeadersTo(form, Len(Lines(form)))
           c == CookiesTo(form, Len(Lines(form)))
           z == ParseString(AllParams(form), "&", FALSE)
<1>1. /\ r.method = form.method /\ r.uri = form.uri /\ r.version = form.version
      /\ r.body = BodyText(form) /\ r.headers = h /\ r.cookies = c /\ r.params = z
  BY AllRead
<1>2. form.headers = IF form.cookies = <<>> THEN h ELSE Tail(h)
  BY HeadersSent
<1>3. SamePairs(c, form.cookies)
  BY CookiesSent
<1>4. SamePairs(z, ParamsOf(form))
  BY ParamsSent
<1> HIDE DEF r, h, c, z
<1>5. SameRequest(r, form)
  BY <1>1, <1>2, <1>3, <1>4, Zenon DEF SameRequest
<1> QED
  BY <1>5 DEF r

-----------------------------------------------------------------------------
(* The invariant holds                                                     *)

LEMMA SomethingSent ==
    ASSUME NEW form \in Forms
    PROVE  Len(Encode(form)) \in Nat \ {0}
<1> DEFINE l == Len(Encode(form))
           h == AtHeaders(form)
           v == AtVersion(form)
           x == Len(form.version)
<1>1. l \in Nat
  <2>1. Encode(form) \in Text
    BY Numbers
  <2> QED
    BY <2>1, TextIs
<1>2. h = v + x + 2 /\ v \in Nat /\ x \in Nat /\ h <= l
  BY Numbers, PlacesFollow
<1> HIDE DEF l, h, v, x
<1>3. l \in Nat \ {0}
  BY <1>1, <1>2
<1> QED
  BY <1>3 DEF l

(* A request is handed on when all of it is passed, and nothing behind it. *)
LEMMA DeliverKeeps ==
    ASSUME NEW form, NEW p, At(form, p), NEW r, NEW n \in Nat, Deliver(r, ptr + n),
           p + n = Len(Encode(form)), ptr + n # 0, ptr + n <= Len(buf),
           SameRequest(Delivered(r), form), OutInv, TypeInv', StreamInv', ControlTypes'
    PROVE  Followed'
<1> DEFINE a == StartOf(K)
           l == Len(Encode(form))
           d == Delivered(r)
<1>1. /\ UNCHANGED <<sent, stream, ends, wire, joined>> /\ ReturnCall(ptr + n)
      /\ out' = Append(out, d)
      /\ stage' = "method" /\ req' = NewRequest /\ length' = Absent
  BY DEF Deliver, Delivered, inVars
<1>2. TypeInv /\ StreamInv /\ PieceInv /\ K <= Len(sent) /\ form = sent[K] /\ Pos = a + p
  BY DEF At
<1>3. /\ form \in Forms /\ K \in 1..Len(sent) /\ p \in Nat /\ a \in Nat /\ l \in Nat
      /\ ends[K] = a + l
  BY AtIs
<1>4. PICK S : out \in Seq(S)
  BY DEF OutInv
<1>5. /\ Len(out) \in Nat /\ Len(out') = Len(out) + 1 /\ out' \in Seq(S \union {d})
      /\ out'[Len(out) + 1] = d /\ \A i \in 1..Len(out) : out'[i] = out[i]
  <2>1. out \in Seq(S \union {d}) /\ d \in S \union {d}
    BY <1>4
  <2> HIDE DEF d
  <2> QED
    BY <1>1, <2>1, AppendIs
<1> HIDE DEF d
<1>6. sent \in Seq(Forms) /\ Len(sent) \in Nat
  BY <1>2 DEF TypeInv, TypeOK
<1>7. K' = K + 1 /\ K' # 1 /\ K' - 1 = K /\ K \in 1..Len(sent) /\ Len(out') \in 0..Len(sent)
  BY <1>3, <1>5, <1>6 DEF K
<1>8. StartOf(K)' = ends[K]
  BY <1>1, <1>7 DEF StartOf
<1>9. ptr \in Nat /\ Len(buf) \in Nat /\ Gone \in Nat
  BY <1>2, RestIs DEF StreamInv, LiesAt
<1>10. Drops(ptr + n)
  <2>1. ptr + n \in 0..Len(buf)
    BY <1>9
  <2> QED
    BY <1>1, <2>1 DEF Drops
<1>11. Gone' = Gone + (ptr + n) /\ ptr' = 0 /\ Arrived' = Arrived /\ Arrived \in Int
  BY <1>2, <1>10, DropsKeeps
<1>12. Pos' = ends[K] /\ Gone' = ends[K] /\ ends[K] \in Nat
  <2>1. Gone + ptr = a + p /\ p + n = l
    BY <1>2 DEF Pos
  <2>2. Pos' = Gone + (ptr + n) + 0
    BY <1>11 DEF Pos
  <2> HIDE DEF a, l
  <2> QED
    BY <1>3, <1>9, <1>11, <2>1, <2>2
<1>13. PlaceInv'
  <2>1. Pos' >= StartOf(K)' /\ Pos' - StartOf(K)' = 0
    BY <1>8, <1>12
  <2>2. AtStart(Pos - StartOf(K))'
    BY <1>1, <2>1 DEF AtStart
  <2> QED
    BY <1>1, <1>7, <2>1, <2>2 DEF PlaceInv
<1>14. PieceInv'
  <2>1. CutsLineEnd(Arrived)' = CutsLineEnd(Arrived)
    BY <1>1, <1>11 DEF CutsLineEnd
  <2>2. Overtakes(Arrived)' => Overtakes(Arrived)
    <3> SUFFICES ASSUME Overtakes(Arrived)' PROVE Overtakes(Arrived)
      OBVIOUS
    <3>1. PICK k \in Len(out') + 1..Len(sent) :
            /\ \E i \in DOMAIN sent[k].headers : sent[k].headers[i][1] = ContentLength
            /\ Arrived > ends[k]
      BY <1>1, <1>11 DEF Overtakes
    <3>2. k \in Len(out) + 1..Len(sent)
      BY <1>5, <1>6, <3>1
    <3> QED
      BY <3>1, <3>2 DEF Overtakes
  <2> QED
    BY <1>2, <2>1, <2>2 DEF PieceInv
<1>15. WaitInv'
  <2> SUFFICES ASSUME pc' = "wait", K' <= Len(sent) PROVE Arrived' < ends'[K']
    BY <1>1 DEF WaitInv
  <2>1. buf' = <<>>
    BY <1>1, <1>9 DEF ReturnCall
  <2>2. Arrived' = ends[K]
    BY <1>11, <1>12, <2>1 DEF Gone
  <2>3. K' \in 1..Len(sent)
    BY <1>6, <1>7
  <2>4. ends[K'] = StartOf(K') + Len(Encode(sent[K'])) /\ sent[K'] \in Forms
    BY <1>2, <1>6, <2>3 DEF StreamInv
  <2>5. StartOf(K') = ends[K]
    BY <1>7 DEF StartOf
  <2>6. Len(Encode(sent[K'])) \in Nat \ {0}
    BY <2>4, SomethingSent
  <2> QED
    BY <1>1, <1>12, <2>2, <2>4, <2>5, <2>6
<1>16. OutInv'
  <2>1. \E T : out' \in Seq(T)
    BY <1>5
  <2>2. ASSUME NEW i \in 1..Len(out') PROVE SameRequest(out'[i], sent[i])
    <3>1. CASE i = Len(out) + 1
      <4>1. i = K /\ out'[i] = d
        BY <1>5, <3>1 DEF K
      <4> QED
        BY <1>2, <4>1 DEF d
    <3>2. CASE i # Len(out) + 1
      <4>1. i \in 1..Len(out)
        BY <1>5, <3>2
      <4> QED
        BY <1>5, <4>1 DEF OutInv
    <3> QED
      BY <3>1, <3>2
  <2> QED
    BY <1>1, <2>1, <2>2 DEF OutInv
<1> QED
  BY <1>13, <1>14, <1>15, <1>16 DEF Followed

LEMMA LastPartKeeps ==
    ASSUME NEW form, NEW p, At(form, p), InBody(form, p), LastPart, OutInv,
           TypeInv', StreamInv', ControlTypes'
    PROVE  Followed'
<1>1. PICK n : n = Len(Rest)
  OBVIOUS
<1>2. /\ Deliver(WithFields(Given(form)), ptr + n)
      /\ p + n = Len(Encode(form)) /\ n \in Nat \ {0}
  BY <1>1, LastPartEnds
<1>3. form \in Forms /\ ptr \in Nat /\ Len(buf) \in Nat /\ n = Len(buf) - ptr
  BY <1>1, AtIs, RestIs DEF At
<1>4. ptr + n # 0 /\ ptr + n <= Len(buf) /\ n \in Nat
  BY <1>2, <1>3
<1>5. SameRequest(Delivered(WithFields(Given(form))), form)
  BY <1>3, RequestRead
<1> DEFINE r == WithFields(Given(form))
<1> HIDE DEF r
<1>6. Deliver(r, ptr + n) /\ SameRequest(Delivered(r), form)
  BY <1>2, <1>5 DEF r
<1> QED
  BY <1>2, <1>4, <1>6, DeliverKeeps

LEMMA EmptyBodyKeeps ==
    ASSUME NEW form, NEW p, At(form, p), InBody(form, p), EmptyBody, OutInv,
           TypeInv', StreamInv', ControlTypes'
    PROVE  Followed'
<1>1. /\ Deliver(Given(form), ptr) /\ BodyText(form) = <<>>
      /\ p = Len(Encode(form)) /\ ptr # 0
  BY EmptyBodyEnds
<1>2. form \in Forms /\ ptr \in Nat /\ Len(buf) \in Nat /\ ptr <= Len(buf) /\ p \in Nat
  BY AtIs, RestIs DEF At
<1>3. ptr + 0 = ptr /\ p + 0 = p /\ 0 \in Nat
  BY <1>2
<1>4. form.fields = <<>>
  BY <1>1, <1>2, FormKeys
<1>5. WithFields(Given(form)) = Given(form)
  BY <1>2, <1>4, AllRead
<1>6. SameRequest(Delivered(Given(form)), form)
  BY <1>2, <1>5, RequestRead
<1> DEFINE r == Given(form)
<1> HIDE DEF r
<1>7. Deliver(r, ptr + 0) /\ SameRequest(Delivered(r), form)
  BY <1>1, <1>3, <1>6 DEF r
<1>8. p + 0 = Len(Encode(form)) /\ ptr + 0 # 0 /\ ptr + 0 <= Len(buf)
  BY <1>1, <1>2, <1>3
<1> QED
  BY <1>3, <1>7, <1>8, DeliverKeeps

LEMMA GoesPlace ==
    ASSUME NEW form
    PROVE  (Goes(form) => PlaceInv /\ PieceInv)'
<1>1. Goes(form) => PlaceInv /\ PieceInv
  <2> SUFFICES ASSUME Goes(form) PROVE PlaceInv /\ PieceInv
    OBVIOUS
  <2>1. PICK p : At(form, p) /\ (AtStart(p) \/ InRequest(form, p))
    BY DEF Goes
  <2>2. PlaceInv
    BY <2>1, PlaceIs
  <2> QED
    BY <2>1, <2>2 DEF At
<1> QED
  BY <1>1, PTL

(* A step of a call within a request                                       *)
LEMMA RequestKeeps ==
    ASSUME NEW form, NEW p, At(form, p), AtStart(p) \/ InRequest(form, p), OutInv, Parse,
           TypeInv', StreamInv', ControlTypes', joined'
    PROVE  Followed'
<1>1. \/ AtStart(p) /\ stage = "method"
      \/ InUri(form, p) /\ stage = "uri"
      \/ InParams(form, p) /\ stage = "params"
      \/ InVersion(form, p) /\ stage = "version"
      \/ InHeaders(form, p) /\ stage = "headers"
      \/ InBody(form, p) /\ stage = "body"
  BY DEF AtStart, InRequest, InUri, InParams, InVersion, InHeaders, InBody
<1>2. ASSUME Goes(form)' /\ (OutInv => OutInv'), WaitInv' PROVE Followed'
  <2>1. PlaceInv' /\ PieceInv'
    BY <1>2, GoesPlace
  <2> QED
    BY <1>2, <2>1 DEF Followed
<1>3. ASSUME pc' = "run" PROVE WaitInv'
  BY <1>3 DEF WaitInv
<1>4. CASE Method
  <2>1. AtStart(p) /\ pc' = "run"
    BY <1>1, <1>4 DEF Method, In
  <2> QED
    BY <1>2, <1>3, <1>4, <2>1, MethodKeeps
<1>5. CASE Uri
  <2>1. InUri(form, p) /\ pc' = "run"
    BY <1>1, <1>5 DEF Uri, In
  <2> QED
    BY <1>2, <1>3, <1>5, <2>1, UriKeeps
<1>6. CASE Params
  <2>1. InParams(form, p) /\ pc' = "run"
    BY <1>1, <1>6 DEF Params, In
  <2> QED
    BY <1>2, <1>3, <1>6, <2>1, ParamsKeeps
<1>7. CASE Version
  <2>1. (InParams(form, p) \/ InVersion(form, p)) /\ pc' = "run"
    BY <1>1, <1>7 DEF Version, WantsVersion, In
  <2> QED
    BY <1>2, <1>3, <1>7, <2>1, VersionKeeps
<1>8. CASE Header
  <2>1. InHeaders(form, p) /\ pc' = "run"
    BY <1>1, <1>8 DEF Header, In
  <2> QED
    BY <1>2, <1>3, <1>8, <2>1, HeaderKeeps
<1>9. CASE EndHeaders
  <2>1. InHeaders(form, p) /\ pc' = "run"
    BY <1>1, <1>9 DEF EndHeaders, In
  <2> QED
    BY <1>2, <1>3, <1>9, <2>1, EndHeadersKeeps
<1>10. CASE NeedMore
  BY <1>2, <1>10, NeedMoreKeeps
<1>11. CASE MoreBody
  <2>1. InBody(form, p)
    BY <1>1, <1>11 DEF MoreBody, In
  <2> QED
    BY <1>2, <1>11, <2>1, MoreBodyKeeps
<1>12. CASE LastPart
  <2>1. InBody(form, p)
    BY <1>1, <1>12 DEF LastPart, In
  <2> QED
    BY <1>12, <2>1, LastPartKeeps
<1>13. CASE EmptyBody
  <2>1. InBody(form, p)
    BY <1>1, <1>13 DEF EmptyBody, In
  <2> QED
    BY <1>13, <2>1, EmptyBodyKeeps
<1>14. ~ReadPastEnd /\ ~UnsetSize
  BY DEF ReadPastEnd, UnsetSize
<1> QED
  BY <1>4, <1>5, <1>6, <1>7, <1>8, <1>9, <1>10, <1>11, <1>12, <1>13, <1>14 DEF Parse

(* A step of a call when all requests that were sent are handed on         *)
LEMMA IdleKeeps ==
    ASSUME TypeInv, StreamInv, Followed, K > Len(sent), Parse,
           TypeInv', StreamInv', ControlTypes', joined'
    PROVE  Followed'
<1>1. Len(sent) \in Nat /\ Len(out) \in 0..Len(sent)
  BY DEF Followed, PlaceInv, TypeInv, TypeOK
<1>2. K = Len(sent) + 1 /\ ~(K <= Len(sent))
  BY <1>1 DEF K
<1>3. AtStart(Pos - StartOf(K)) /\ Pos >= StartOf(K)
  BY <1>2 DEF Followed, PlaceInv
<1>4. Len(stream) = StartOf(K)
  BY <1>2 DEF StreamInv
<1>5. /\ Rest \in Text /\ Len(Rest) = Len(buf) - ptr /\ Len(buf) \in Nat /\ ptr \in 0..Len(buf)
      /\ Len(stream) \in Nat /\ Len(wire) \in Nat
  BY RestIs, TextIs DEF TypeInv
<1>6. Gone \in Nat /\ Gone + Len(buf) <= Len(stream)
  BY DEF StreamInv, LiesAt
<1>7. Len(Rest) = 0
  <2>1. Gone + ptr >= Len(stream)
    BY <1>3, <1>4 DEF Pos
  <2> QED
    BY <1>5, <1>6, <2>1
<1>8. GetChunk(Rest, Blank, {Blank}).size = 0
  <2>1. GetChunk(Rest, Blank, {Blank}).size \in 0..Len(Rest)
    BY <1>5, ChunkIsText
  <2> QED
    BY <1>7, <2>1
<1>9. stage = "method"
  BY <1>3 DEF AtStart
<1>10. NeedMore
  BY <1>8, <1>9 DEF Parse, Method, Uri, Params, ReadPastEnd, Version, WantsVersion, Header,
    EndHeaders, UnsetSize, EmptyBody, LastPart, MoreBody, In
<1>11. /\ UNCHANGED <<sent, stream, ends, wire, joined, stage, req, length, out, conn>>
       /\ ReturnCall(ptr)
  BY <1>10 DEF NeedMore, inVars, parserVars
<1>12. Drops(ptr)
  BY <1>5, <1>11 DEF Drops
<1>13. Gone' = Gone + ptr /\ ptr' = 0 /\ Arrived' = Arrived
  BY <1>12, DropsKeeps
<1>14. K' = K /\ StartOf(K)' = StartOf(K)
  BY <1>11 DEF K, StartOf
<1>15. Pos' = Pos
  BY <1>5, <1>6, <1>13 DEF Pos
<1>16. PlaceInv'
  BY <1>1, <1>3, <1>11, <1>14, <1>15 DEF PlaceInv, AtStart
<1>17. PieceInv'
  BY <1>11, <1>13 DEF Followed, PieceInv, CutsLineEnd, Overtakes
<1>18. WaitInv'
  BY <1>2, <1>11, <1>14 DEF WaitInv
<1>19. OutInv'
  BY <1>11 DEF Followed, OutInv
<1> QED
  BY <1>16, <1>17, <1>18, <1>19 DEF Followed

LEMMA ParseKeeps ==
    ASSUME TypeInv, StreamInv, Followed, Parse, TypeInv', StreamInv', joined'
    PROVE  Followed'
<1>1. ControlTypes'
  BY ParseMoves DEF ReadPastEnd
<1>2. CASE K > Len(sent)
  BY <1>1, <1>2, IdleKeeps
<1>3. CASE ~(K > Len(sent))
  <2>1. PICK form : form = sent[K]
    OBVIOUS
  <2>2. PICK p : p = Pos - StartOf(K)
    OBVIOUS
  <2>3. Len(sent) \in Nat /\ Len(out) \in 0..Len(sent) /\ K <= Len(sent)
    BY <1>3 DEF Followed, PlaceInv, TypeInv, TypeOK, K
  <2>4. Pos >= StartOf(K) /\ (AtStart(p) \/ InRequest(form, p))
    BY <2>1, <2>2 DEF Followed, PlaceInv
  <2>5. Pos \in Nat /\ StartOf(K) \in Nat
    <3>1. ptr \in Nat /\ Gone \in Nat
      BY RestIs DEF StreamInv, LiesAt
    <3>2. K \in 1..Len(sent)
      BY <2>3 DEF K
    <3>3. LiesAt(stream, StartOf(K), Encode(sent[K]))
      BY <3>2 DEF StreamInv
    <3> QED
      BY <3>1, <3>3 DEF Pos, LiesAt
  <2>6. p \in Nat /\ Pos = StartOf(K) + p
    BY <2>2, <2>4, <2>5
  <2>7. At(form, p)
    BY <2>1, <2>3, <2>6 DEF At, Followed
  <2> QED
    BY <1>1, <2>4, <2>7, RequestKeeps DEF Followed
<1> QED
  BY <1>2, <1>3

LEMMA EndsWithin ==
    ASSUME TypeInv, StreamInv
    PROVE  /\ \A k \in 1..Len(sent) : ends[k] \in Nat /\ ends[k] <= Len(stream)
           /\ Arrived \in Nat /\ Arrived <= Len(stream) /\ Len(stream) \in Nat
<1>1. /\ sent \in Seq(Forms) /\ Len(stream) \in Nat /\ Len(wire) \in Nat
      /\ ends \in Seq(Nat) /\ Len(ends) = Len(sent)
  BY TextIs DEF TypeInv, TypeOK
<1>2. LiesAt(stream, Arrived, wire)
  BY DEF StreamInv
<1>3. Arrived \in Nat /\ Arrived <= Len(stream)
  BY <1>1, <1>2 DEF LiesAt, Arrived
<1>4. ASSUME NEW k \in 1..Len(sent) PROVE ends[k] \in Nat /\ ends[k] <= Len(stream)
  <2>1. LiesAt(stream, StartOf(k), Encode(sent[k])) /\ ends[k] = StartOf(k) + Len(Encode(sent[k]))
    BY DEF StreamInv
  <2>2. ends[k] \in Nat
    BY <1>1
  <2> QED
    BY <2>1, <2>2 DEF LiesAt
<1> QED
  BY <1>1, <1>3, <1>4

LEMMA OrderKeeps ==
    ASSUME TypeInv, StreamInv, OrderInv, [Next]_vars
    PROVE  OrderInv'
<1>1. CASE Send
  <2>1. /\ Len(sent') = Len(sent) + 1 /\ Len(sent) \in Nat
        /\ \A k \in 1..Len(sent) : ends'[k] = ends[k]
    BY <1>1, SendKeeps
  <2>2. PICK form \in Forms : ends'[Len(sent) + 1] = Len(stream) + Len(Encode(form))
    BY <1>1, SendKeeps
  <2>3. Len(Encode(form)) \in Nat \ {0}
    BY SomethingSent
  <2>4. \A k \in 1..Len(sent) : ends[k] \in Nat /\ ends[k] <= Len(stream)
    BY EndsWithin
  <2>5. Len(stream) \in Nat
    BY EndsWithin
  <2> DEFINE z == Len(stream) + Len(Encode(form))
  <2>6. z \in Nat /\ \A k \in 1..Len(sent) : ends[k] <= z
    BY <2>3, <2>4, <2>5
  <2>7. ends'[Len(sent) + 1] = z
    BY <2>2
  <2> HIDE DEF z
  <2> QED
    BY <2>1, <2>4, <2>6, <2>7 DEF OrderInv
<1>2. CASE UNCHANGED <<sent, ends>>
  BY <1>2 DEF OrderInv
<1>3. Parse => UNCHANGED <<sent, ends>>
  <2>1. Parse /\ ~ReadPastEnd => Moves \/ \E n : Drops(n)
    BY ParseMoves
  <2> QED
    BY <2>1 DEF Moves, Drops, ReadPastEnd
<1>4. Receive \/ Flush \/ PeerCloses \/ UNCHANGED vars => UNCHANGED <<sent, ends>>
  BY DEF Receive, Flush, PeerCloses, vars, inVars
<1> QED
  BY <1>1, <1>2, <1>3, <1>4 DEF Next

(* More requests are sent: nothing of what has arrived changes.            *)
LEMMA SendFollowed ==
    ASSUME TypeInv, StreamInv, Followed, Send
    PROVE  Followed'
<1>1. /\ Arrived' = Arrived /\ Gone' = Gone
      /\ Len(sent') = Len(sent) + 1 /\ Len(sent) \in Nat
      /\ \A k \in 1..Len(sent) + 1 : StartOf(k)' = StartOf(k)
      /\ \A k \in 1..Len(sent) : sent'[k] = sent[k] /\ ends'[k] = ends[k]
  BY SendKeeps
<1>2. PICK form \in Forms :
        /\ stream' = stream \o Encode(form)
        /\ ends'[Len(sent) + 1] = Len(stream) + Len(Encode(form))
  BY SendKeeps
<1>3. UNCHANGED <<joined, buf, pc, ptr, stage, req, length, out, conn>>
  BY DEF Send, parserVars
<1>4. PlaceInv /\ PieceInv /\ WaitInv /\ OutInv /\ Len(out) \in 0..Len(sent)
  BY DEF Followed, PlaceInv
<1>5. /\ \A k \in 1..Len(sent) : ends[k] \in Nat
      /\ Arrived \in Nat /\ Arrived <= Len(stream) /\ Len(stream) \in Nat
  BY EndsWithin
<1>6. Len(Encode(form)) \in Nat \ {0} /\ Encode(form) \in Text
  BY SomethingSent, Numbers
<1>7. stream \in Text
  BY DEF TypeInv
<1> DEFINE e == Encode(form)
           z == Len(stream) + Len(e)
<1>8. z \in Nat /\ Arrived < z /\ ends'[Len(sent) + 1] = z
  BY <1>2, <1>5, <1>6
<1>9. /\ Len(stream') = Len(stream) + Len(e) /\ Len(e) \in Nat \ {0}
      /\ LiesAt(stream', 0, stream) /\ LiesAt(stream', Len(stream), e)
  BY <1>2, <1>6, <1>7, Extended
<1>10. e[1] \notin Signs
  <2>1. LiesAt(e, 0, form.method)
    BY EncodeIs DEF Layout
  <2>2. form.method \in Word
    BY FormIs
  <2>3. Len(form.method) \in Nat \ {0} /\ \A i \in 1..Len(form.method) : form.method[i] \notin Signs
    BY <2>2, WordIs
  <2>4. 1 \in 1..Len(form.method) /\ 0 + 1 = 1
    BY <2>3
  <2>5. e[0 + 1] = form.method[1]
    BY <2>1, <2>4 DEF LiesAt
  <2> QED
    BY <2>3, <2>4, <2>5
<1> HIDE DEF e, z
<1>11. PICK k : k = K
  OBVIOUS
<1>12. k \in 1..Len(sent) + 1 /\ K' = k
  BY <1>1, <1>3, <1>4, <1>11 DEF K
<1>13. StartOf(k)' = StartOf(k)
  BY <1>1, <1>12
<1>14. StartOf(K)' = StartOf(K)
  BY <1>11, <1>12, <1>13 DEF StartOf
<1>15. Pos' = Pos
  BY <1>1, <1>3 DEF Pos
<1>16. PlaceInv'
  <2>1. Len(out') \in 0..Len(sent')
    BY <1>1, <1>3, <1>4
  <2>2. CASE Pos >= StartOf(K) /\ AtStart(Pos - StartOf(K))
    BY <1>3, <1>14, <1>15, <2>1, <2>2 DEF PlaceInv, AtStart
  <2>3. CASE Pos >= StartOf(K) /\ K <= Len(sent) /\ InRequest(sent[K], Pos - StartOf(K))
    <3>1. sent'[K'] = sent[K] /\ K' <= Len(sent')
      <4>1. k \in 1..Len(sent)
        BY <1>11, <1>12, <2>3
      <4> QED
        BY <1>1, <1>11, <1>12, <4>1
    <3>2. PICK f : f = sent[K]
      OBVIOUS
    <3>3. PICK p : p = Pos - StartOf(K)
      OBVIOUS
    <3>4. InRequest(f, p)
      BY <2>3, <3>2, <3>3
    <3>5. InRequest(f, p)'
      BY <1>3, <3>4 DEF InRequest, InUri, InParams, InVersion, InHeaders, InBody
    <3>6. sent'[K'] = f /\ Pos' - StartOf(K)' = p
      BY <1>14, <1>15, <3>1, <3>2, <3>3
    <3>7. InRequest(sent[K], Pos - StartOf(K))'
      BY <3>5, <3>6 DEF InRequest, InUri, InParams, InVersion, InHeaders, InBody
    <3> QED
      BY <1>14, <1>15, <2>1, <2>3, <3>1, <3>7 DEF PlaceInv
  <2> QED
    BY <1>4, <2>2, <2>3 DEF PlaceInv
<1>17. ~CutsLineEnd(Arrived)'
  <2> SUFFICES ASSUME CutsLineEnd(Arrived)' PROVE FALSE
    OBVIOUS
  <2> DEFINE n == Arrived
  <2>1. /\ n > 1 /\ n < Len(stream') /\ stream'[n] = "CR" /\ stream'[n + 1] = "LF"
        /\ stream'[n - 1] # "LF"
    BY <1>1 DEF CutsLineEnd
  <2>2. n \in Nat /\ n <= Len(stream) /\ Len(stream) \in Nat
    BY <1>5
  <2>3. \A i \in 1..Len(stream) : stream'[i] = stream[i]
    BY <1>9 DEF LiesAt
  <2>4. ~CutsLineEnd(Arrived)
    BY <1>4 DEF PieceInv
  <2> HIDE DEF n
  <2>5. CASE n < Len(stream)
    <3>1. n \in 1..Len(stream) /\ n + 1 \in 1..Len(stream) /\ n - 1 \in 1..Len(stream)
      BY <2>1, <2>2, <2>5
    <3>2. /\ n > 1 /\ n < Len(stream) /\ stream[n] = "CR" /\ stream[n + 1] = "LF"
          /\ stream[n - 1] # "LF"
      BY <2>1, <2>3, <2>5, <3>1
    <3> QED
      BY <2>4, <3>2 DEF CutsLineEnd, n
  <2>6. CASE ~(n < Len(stream))
    <3>1. n = Len(stream) /\ 1 \in 1..Len(e)
      BY <1>9, <2>2, <2>6
    <3>2. stream'[n + 1] = e[1]
      BY <1>9, <3>1 DEF LiesAt
    <3>3. "LF" \in Signs
      BY DEF Signs
    <3> QED
      BY <1>10, <2>1, <3>2, <3>3
  <2> QED
    BY <2>5, <2>6
<1>18. ~Overtakes(Arrived)'
  <2> SUFFICES ASSUME Overtakes(Arrived)' PROVE FALSE
    OBVIOUS
  <2>1. PICK i \in Len(out) + 1..Len(sent) + 1 :
          /\ \E j \in DOMAIN sent'[i].headers : sent'[i].headers[j][1] = ContentLength
          /\ Arrived > ends'[i]
    BY <1>1, <1>3 DEF Overtakes
  <2>2. i # Len(sent) + 1
    BY <1>5, <1>8, <2>1
  <2>3. i \in 1..Len(sent) /\ i \in Len(out) + 1..Len(sent)
    BY <1>1, <1>4, <2>1, <2>2
  <2>4. Overtakes(Arrived)
    BY <1>1, <2>1, <2>3 DEF Overtakes
  <2> QED
    BY <1>4, <2>4 DEF PieceInv
<1>19. WaitInv'
  <2> SUFFICES ASSUME pc = "wait" PROVE Arrived < ends'[k]
    BY <1>1, <1>3, <1>12 DEF WaitInv
  <2>1. CASE k = Len(sent) + 1
    BY <1>8, <2>1
  <2>2. CASE k # Len(sent) + 1
    <3>1. k \in 1..Len(sent) /\ K <= Len(sent)
      BY <1>1, <1>11, <1>12, <2>2
    <3>2. Arrived < ends[K]
      BY <1>4, <3>1 DEF WaitInv
    <3> QED
      BY <1>1, <1>11, <3>1, <3>2
  <2> QED
    BY <2>1, <2>2
<1>20. OutInv'
  <2>1. \A i \in 1..Len(out) : i \in 1..Len(sent)
    BY <1>1, <1>4
  <2> QED
    BY <1>1, <1>3, <1>4, <2>1 DEF OutInv
<1> QED
  BY <1>16, <1>17, <1>18, <1>19, <1>20 DEF Followed, PieceInv

(* A piece arrives.                                                        *)
LEMMA ReceiveFollowed ==
    ASSUME TypeInv, StreamInv, Followed, Receive, joined'
    PROVE  Followed'
<1>1. PICK n \in 1..Len(wire) :
        /\ Arrived' = Arrived + n
        /\ ~CutsLineEnd(Arrived + n) /\ ~Overtakes(Arrived + n)
  BY ReceiveKeeps
<1>2. Gone' = Gone
  BY ReceiveKeeps
<1>3. /\ pc' = "run" /\ UNCHANGED <<sent, stream, ends, ptr, stage, req, length, out, conn>>
  BY DEF Receive, parserVars
<1>4. Pos' = Pos /\ K' = K
  BY <1>2, <1>3 DEF Pos, K
<1>5. StartOf(K)' = StartOf(K)
  BY <1>3, <1>4 DEF StartOf
<1>6. PlaceInv'
  BY <1>3, <1>4, <1>5 DEF Followed, PlaceInv, AtStart, InRequest, InUri, InParams,
    InVersion, InHeaders, InBody
<1>7. PieceInv'
  BY <1>1, <1>3 DEF PieceInv, CutsLineEnd, Overtakes
<1>8. WaitInv'
  BY <1>3 DEF WaitInv
<1>9. OutInv'
  BY <1>3 DEF Followed, OutInv
<1> QED
  BY <1>6, <1>7, <1>8, <1>9 DEF Followed

(* Nothing of it changes.                                                  *)
LEMMA OthersFollowed ==
    ASSUME Followed, Flush \/ PeerCloses \/ UNCHANGED vars
    PROVE  Followed'
<1>1. UNCHANGED <<sent, stream, ends, wire, buf, pc, ptr, stage, req, length, out>>
  BY DEF Flush, PeerCloses, vars, inVars, parserVars
<1>2. Arrived' = Arrived /\ Gone' = Gone /\ Pos' = Pos /\ K' = K
  BY <1>1 DEF Arrived, Gone, Pos, K
<1>3. StartOf(K)' = StartOf(K)
  BY <1>1, <1>2 DEF StartOf
<1>4. PlaceInv'
  BY <1>1, <1>2, <1>3 DEF Followed, PlaceInv, AtStart, InRequest, InUri, InParams,
    InVersion, InHeaders, InBody
<1>5. PieceInv'
  BY <1>1, <1>2 DEF Followed, PieceInv, CutsLineEnd, Overtakes
<1>6. WaitInv'
  BY <1>1, <1>2 DEF Followed, WaitInv
<1>7. OutInv'
  BY <1>1 DEF Followed, OutInv
<1> QED
  BY <1>4, <1>5, <1>6, <1>7 DEF Followed

LEMMA FollowedInit == Init => IInv
<1> SUFFICES ASSUME Init PROVE IInv
  OBVIOUS
<1>1. TypeInv /\ StreamInv
  BY BytesInit
<1>2. /\ sent = <<>> /\ stream = <<>> /\ ends = <<>> /\ wire = <<>> /\ buf = <<>> /\ out = <<>>
      /\ ptr = 0 /\ stage = "method" /\ req = NewRequest /\ length = Absent
  BY DEF Init
<1>3. Len(sent) = 0 /\ Len(out) = 0 /\ Len(stream) = 0 /\ Len(wire) = 0 /\ Len(buf) = 0
  BY <1>2
<1>4. Arrived = 0 /\ Gone = 0 /\ Pos = 0 /\ K = 1 /\ StartOf(K) = 0
  <2>1. Arrived = 0
    BY <1>3 DEF Arrived
  <2>2. Gone = 0
    BY <1>3, <2>1 DEF Gone
  <2>3. Pos = 0
    BY <1>2, <2>2 DEF Pos
  <2>4. K = 1
    BY <1>3 DEF K
  <2> QED
    BY <2>1, <2>2, <2>3, <2>4 DEF StartOf
<1>5. OrderInv
  BY <1>3 DEF OrderInv
<1>6. PlaceInv
  BY <1>2, <1>3, <1>4 DEF PlaceInv, AtStart
<1>7. PieceInv
  BY <1>3, <1>4 DEF PieceInv, CutsLineEnd, Overtakes
<1>8. WaitInv
  BY <1>3, <1>4 DEF WaitInv
<1>9. OutInv
  <2>1. out \in Seq({})
    BY <1>2
  <2> QED
    BY <1>3, <2>1 DEF OutInv
<1> QED
  BY <1>1, <1>5, <1>6, <1>7, <1>8, <1>9 DEF IInv, Followed

LEMMA InvKeeps == IInv /\ [Next]_vars => IInv'
<1>a. ASSUME LostInv, [Next]_vars PROVE IInv'
  BY <1>a, LostKeeps DEF IInv
<1>b. ASSUME TypeInv, ReadPastEnd PROVE IInv'
  BY <1>b, Loses DEF IInv
<1> SUFFICES ASSUME TypeInv, StreamInv, OrderInv, joined => Followed, [Next]_vars,
                    ~ReadPastEnd
             PROVE  IInv'
  BY <1>a, <1>b DEF IInv
<1>1. TypeInv /\ StreamInv /\ OrderInv /\ (joined => Followed)
  OBVIOUS
<1>2. TypeInv' /\ StreamInv'
  BY <1>1, BytesKeep
<1>3. OrderInv'
  BY <1>1, OrderKeeps
<1>4. ASSUME joined' PROVE Followed'
  <2>1. joined
    <3>1. ASSUME Parse PROVE joined
      BY <1>4, <3>1 DEF Parse, Method, Uri, Params, ReadPastEnd, Version, Header, EndHeaders,
        NeedMore, UnsetSize, EmptyBody, LastPart, MoreBody, Deliver, inVars
    <3>2. ASSUME Send \/ Receive \/ Flush \/ PeerCloses \/ UNCHANGED vars PROVE joined
      BY <1>4, <3>2 DEF Send, Receive, Flush, PeerCloses, vars, inVars
    <3> QED
      BY <3>1, <3>2 DEF Next
  <2>2. Followed
    BY <1>1, <2>1
  <2>3. CASE Parse
    BY <1>1, <1>2, <1>4, <2>2, <2>3, ParseKeeps
  <2>4. CASE Send
    BY <1>1, <2>2, <2>4, SendFollowed
  <2>5. CASE Receive
    BY <1>1, <1>4, <2>2, <2>5, ReceiveFollowed
  <2>6. CASE Flush \/ PeerCloses \/ UNCHANGED vars
    BY <2>2, <2>6, OthersFollowed
  <2> QED
    BY <2>3, <2>4, <2>5, <2>6 DEF Next
<1> QED
  BY <1>2, <1>3, <1>4 DEF IInv

LEMMA InvHolds == Spec => []IInv
  BY FollowedInit, InvKeeps, PTL DEF Spec

(* For requests of any length, any number of them, and pieces cut anywhere *)
(* but where the parser is not prepared for it: what is handed to the      *)
(* server is what the client sent, field by field, pair by pair and in     *)
(* order (process_data, get_chunk, parse_string, compile_buffer_data).     *)
THEOREM RequestsMatch == Spec => []RequestsAsSent
<1>1. IInv => RequestsAsSent
  <2> SUFFICES ASSUME IInv, joined
               PROVE  /\ Len(out) <= Len(sent)
                      /\ \A i \in DOMAIN out : SameRequest(out[i], sent[i])
    BY DEF RequestsAsSent
  <2>1. PlaceInv /\ OutInv
    BY DEF IInv, LostInv, Followed
  <2>2. Len(sent) \in Nat
    BY DEF IInv, LostInv, TypeInv, TypeOK
  <2>3. Len(out) <= Len(sent)
    BY <2>1, <2>2 DEF PlaceInv
  <2>4. DOMAIN out = 1..Len(out)
    BY <2>1 DEF OutInv
  <2> QED
    BY <2>1, <2>3, <2>4 DEF OutInv
<1> QED
  BY <1>1, InvHolds, PTL

(* No call of process_data leaves a complete request in the buffer when it *)
(* goes back to waiting for bytes, however the bytes were cut and however  *)
(* many requests one piece brought (the loop of compile_buffer_data).      *)
THEOREM NothingWaits == Spec => []NoneLeftInBuffer
<1>1. IInv => NoneLeftInBuffer
  <2> SUFFICES ASSUME IInv, joined, pc = "wait", NEW k \in DOMAIN sent, HaveArrived(k),
                      ~(Len(out) >= k)
               PROVE  FALSE
    BY DEF NoneLeftInBuffer
  <2>1. PlaceInv /\ WaitInv /\ TypeInv /\ StreamInv /\ OrderInv
    BY DEF IInv, LostInv, Followed
  <2>2. Len(sent) \in Nat /\ DOMAIN sent = 1..Len(sent)
    BY <2>1 DEF TypeInv, TypeOK
  <2>3. Len(out) \in 0..Len(sent)
    BY <2>1 DEF PlaceInv
  <2>4. K \in 1..Len(sent) /\ K <= k /\ k \in 1..Len(sent)
    BY <2>2, <2>3 DEF K
  <2>5. ends[K] <= ends[k]
    BY <2>1, <2>4 DEF OrderInv
  <2>6. Arrived < ends[K]
    BY <2>1, <2>4 DEF WaitInv
  <2>7. Arrived >= ends[k]
    BY DEF HaveArrived
  <2>8. Arrived \in Nat /\ ends[K] \in Nat /\ ends[k] \in Nat
    BY <2>1, <2>4, EndsWithin
  <2> QED
    BY <2>5, <2>6, <2>7, <2>8
<1> QED
  BY <1>1, InvHolds, PTL
=============================================================================
