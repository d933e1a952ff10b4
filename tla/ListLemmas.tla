----------------------------- MODULE ListLemmas -----------------------------
(***************************************************************************)
(* What the handlers' operations on a workspace's window list do to it and *)
(* to the set of its windows: Vec::push, Vec::remove, slice::swap.  What   *)
(* holds of two lists with one element between them, as a split tree's are *)
(* put together.  That a set of naturals has a least member.               *)
(***************************************************************************)
EXTENDS Integers, SequencesExt, SequenceTheorems, FiniteSetTheorems, WellFoundedInduction, TLAPS

(* A set of naturals has a least one.                                      *)
LEMMA LeastNatural ==
    ASSUME NEW T, T \subseteq Nat, T # {}
    PROVE  \E n \in T : \A m \in T : n <= m
  <1> DEFINE R == {ss \in Nat \X Nat : ss[1] < ss[2]}
  <1>1. IsWellFoundedOn(R, Nat)
    BY NatLessThanWellFounded DEF OpToRel
  <1>2. PICK n \in T : \A m \in T : <<m, n>> \notin R
    BY <1>1, WFMin
  <1>3. ASSUME NEW m \in T PROVE n <= m
    <2>1. <<m, n>> \in Nat \X Nat /\ <<m, n>>[1] = m /\ <<m, n>>[2] = n
      OBVIOUS
    <2>2. ~(m < n)
      BY <1>2, <2>1
    <2> QED BY <2>2
  <1> QED BY <1>3

(* An element's index is in range, and its value in the base set.          *)
LEMMA SeqFacts ==
    ASSUME NEW S, NEW s \in Seq(S)
    PROVE  /\ Len(s) \in Nat
           /\ DOMAIN s = 1 .. Len(s)
           /\ \A i \in 1 .. Len(s) : s[i] \in S
           /\ s = <<>> <=> Len(s) = 0
           /\ Range(s) \subseteq S
  BY DEF Range

(* Vec::push.                                                              *)
LEMMA AppendFacts ==
    ASSUME NEW S, NEW s \in Seq(S), NEW e \in S
    PROVE  /\ Append(s, e) \in Seq(S)
           /\ Len(Append(s, e)) = Len(s) + 1
           /\ \A i \in 1 .. Len(s) : Append(s, e)[i] = s[i]
           /\ Append(s, e)[Len(s) + 1] = e
           /\ Range(Append(s, e)) = Range(s) \cup {e}
  <1>1. /\ Append(s, e) \in Seq(S)
        /\ Len(Append(s, e)) = Len(s) + 1
        /\ \A i \in 1 .. Len(s) : Append(s, e)[i] = s[i]
        /\ Append(s, e)[Len(s) + 1] = e
    OBVIOUS
  <1>2. Range(Append(s, e)) = Range(s) \cup {e}
    BY <1>1 DEF Range
  <1> QED BY <1>1, <1>2

(* Vec::remove(k - 1).                                                     *)
LEMMA RemoveAtFacts ==
    ASSUME NEW S, NEW s \in Seq(S), NEW k \in 1 .. Len(s)
    PROVE  /\ RemoveAt(s, k) \in Seq(S)
           /\ Len(RemoveAt(s, k)) = Len(s) - 1
           /\ \A i \in 1 .. Len(s) - 1 : RemoveAt(s, k)[i] = IF i < k THEN s[i] ELSE s[i + 1]
  <1> DEFINE p == SubSeq(s, 1, k - 1)
             q == SubSeq(s, k + 1, Len(s))
  <1>1. p \in Seq(S) /\ Len(p) = k - 1 /\ \A i \in 1 .. k - 1 : p[i] = s[i]
    OBVIOUS
  <1>2. q \in Seq(S) /\ Len(q) = Len(s) - k /\ \A i \in 1 .. Len(s) - k : q[i] = s[k + i]
    OBVIOUS
  <1> HIDE DEF p, q
  <1>3. /\ p \o q \in Seq(S)
        /\ Len(p \o q) = Len(p) + Len(q)
        /\ \A i \in 1 .. Len(p) + Len(q) : (p \o q)[i] = IF i <= Len(p) THEN p[i] ELSE q[i - Len(p)]
    BY <1>1, <1>2, ConcatProperties
  <1>4. RemoveAt(s, k) = p \o q
    BY DEF RemoveAt, p, q
  <1>5. Len(s) \in Nat
    OBVIOUS
  <1>6. ASSUME NEW i \in 1 .. Len(s) - 1
        PROVE  (p \o q)[i] = IF i < k THEN s[i] ELSE s[i + 1]
    <2>1. CASE i < k
      BY <1>1, <1>2, <1>3, <1>5, <2>1
    <2>2. CASE ~(i < k)
      <3>1. (p \o q)[i] = q[i - (k - 1)]
        BY <1>1, <1>2, <1>3, <1>5, <2>2
      <3>2. i - (k - 1) \in 1 .. Len(s) - k /\ k + (i - (k - 1)) = i + 1
        BY <1>5, <2>2
      <3> QED BY <1>2, <2>2, <3>1, <3>2
    <2> QED BY <2>1, <2>2
  <1> QED BY <1>1, <1>2, <1>3, <1>4, <1>5, <1>6

(* No element occurs twice.                                                *)
Once(s) == \A i, j \in DOMAIN s : s[i] = s[j] => i = j

(* Removing from a list without duplicates removes its element, and leaves *)
(* it without duplicates.                                                  *)
LEMMA RemoveAtOnce ==
    ASSUME NEW S, NEW s \in Seq(S), NEW k \in 1 .. Len(s), Once(s)
    PROVE  /\ Range(RemoveAt(s, k)) = Range(s) \ {s[k]}
           /\ Once(RemoveAt(s, k))
  <1> DEFINE r == RemoveAt(s, k)
  <1>1. /\ Len(s) \in Nat /\ DOMAIN s = 1 .. Len(s)
        /\ r \in Seq(S) /\ Len(r) = Len(s) - 1 /\ DOMAIN r = 1 .. Len(s) - 1
        /\ \A i \in 1 .. Len(s) - 1 : r[i] = IF i < k THEN s[i] ELSE s[i + 1]
    BY RemoveAtFacts
  <1> HIDE DEF r
  <1>2. Range(r) \subseteq Range(s) \ {s[k]}
    <2> SUFFICES ASSUME NEW i \in 1 .. Len(s) - 1
                 PROVE  r[i] \in Range(s) \ {s[k]}
      BY <1>1 DEF Range
    <2>1. CASE i < k
      BY <1>1, <2>1 DEF Range, Once
    <2>2. CASE ~(i < k)
      <3>1. r[i] = s[i + 1] /\ i + 1 \in DOMAIN s /\ i + 1 # k
        BY <1>1, <2>2
      <3> QED BY <1>1, <3>1 DEF Range, Once
    <2> QED BY <2>1, <2>2
  <1>3. ASSUME NEW j \in 1 .. Len(s), s[j] # s[k]
        PROVE  s[j] \in Range(r)
    <2>1. CASE j < k
      BY <1>1, <2>1 DEF Range
    <2>2. CASE j > k
      <3>1. j - 1 \in 1 .. Len(s) - 1 /\ ~(j - 1 < k) /\ (j - 1) + 1 = j
        BY <1>1, <2>2
      <3>2. r[j - 1] = s[j]
        BY <1>1, <3>1
      <3> QED BY <1>1, <3>1, <3>2 DEF Range
    <2> QED BY <1>1, <1>3, <2>1, <2>2
  <1>4. ASSUME NEW i \in 1 .. Len(s) - 1, NEW j \in 1 .. Len(s) - 1, r[i] = r[j]
        PROVE  i = j
    <2>1. PICK m \in DOMAIN s : r[i] = s[m] /\ m = IF i < k THEN i ELSE i + 1
      BY <1>1
    <2>2. PICK n \in DOMAIN s : r[j] = s[n] /\ n = IF j < k THEN j ELSE j + 1
      BY <1>1
    <2>3. m = n
      BY <1>4, <2>1, <2>2 DEF Once
    <2> QED BY <2>1, <2>2, <2>3
  <1>5. Range(s) \ {s[k]} \subseteq Range(r)
    BY <1>1, <1>3 DEF Range
  <1> QED BY <1>1, <1>2, <1>4, <1>5 DEF r, Once

(* slice::swap keeps the windows, and their occurring once.                *)
LEMMA SwapFacts ==
    ASSUME NEW S, NEW s \in Seq(S), NEW i \in 1 .. Len(s), NEW j \in 1 .. Len(s), Once(s),
           NEW t, t = [s EXCEPT ![i] = s[j], ![j] = s[i]]
    PROVE  /\ t \in Seq(S)
           /\ Len(t) = Len(s)
           /\ Range(t) = Range(s)
           /\ Once(t)
  <1>1. DOMAIN s = 1 .. Len(s) /\ Len(s) \in Nat /\ \A n \in 1 .. Len(s) : s[n] \in S
    OBVIOUS
  <1>2. /\ DOMAIN t = 1 .. Len(s)
        /\ \A n \in 1 .. Len(s) : t[n] = IF n = j THEN s[i] ELSE IF n = i THEN s[j] ELSE s[n]
    BY <1>1
  <1>3. t \in Seq(S) /\ Len(t) = Len(s)
    <2>1. t \in [1 .. Len(s) -> S]
      BY <1>1
    <2> QED BY <1>1, <2>1
  <1>4. Range(t) = Range(s)
    <2>1. ASSUME NEW n \in 1 .. Len(s) PROVE t[n] \in Range(s)
      BY <1>1, <1>2 DEF Range
    <2>2. ASSUME NEW n \in 1 .. Len(s) PROVE s[n] \in Range(t)
      <3>1. PICK m \in 1 .. Len(s) : t[m] = s[n]
        BY <1>2
      <3> QED BY <1>2, <3>1 DEF Range
    <2> QED BY ZenonT(60), <1>1, <1>2, <2>1, <2>2 DEF Range
  <1>5. Once(t)
    BY <1>1, <1>2 DEF Once
  <1> QED BY <1>3, <1>4, <1>5

(* Vec::push of a window that is not in the list.                          *)
LEMMA AppendOnce ==
    ASSUME NEW S, NEW s \in Seq(S), Once(s), NEW e \in S, e \notin Range(s)
    PROVE  Once(Append(s, e))
  BY AppendFacts DEF Once, Range

-----------------------------------------------------------------------------
(* Where an element of a list without duplicates stands.                   *)
PositionOf(q, x) == CHOOSE i \in DOMAIN q : q[i] = x

LEMMA PositionFacts ==
    ASSUME NEW S, NEW q \in Seq(S), Once(q), NEW x \in Range(q)
    PROVE  /\ PositionOf(q, x) \in 1 .. Len(q) /\ q[PositionOf(q, x)] = x
           /\ \A i \in 1 .. Len(q) : q[i] = x => PositionOf(q, x) = i
  <1>1. DOMAIN q = 1 .. Len(q)
    BY SeqFacts
  <1>2. PositionOf(q, x) \in DOMAIN q /\ q[PositionOf(q, x)] = x
    BY DEF PositionOf, Range
  <1> QED BY <1>1, <1>2 DEF Once

-----------------------------------------------------------------------------
(* Two lists with an element between them.                                 *)
Join(x, d, y) == x \o <<d>> \o y

IsJoin(j, S, x, d, y) ==
    /\ j \in Seq(S) /\ Len(j) = Len(x) + 1 + Len(y)
    /\ \A k \in 1 .. Len(x) : j[k] = x[k]
    /\ j[Len(x) + 1] = d
    /\ \A k \in 1 .. Len(y) : j[Len(x) + 1 + k] = y[k]

LEMMA JoinFacts ==
    ASSUME NEW S, NEW x \in Seq(S), NEW d \in S, NEW y \in Seq(S)
    PROVE  IsJoin(Join(x, d, y), S, x, d, y)
  <1>1. <<d>> \in Seq(S) /\ Len(<<d>>) = 1 /\ <<d>>[1] = d
    OBVIOUS
  <1>2. Len(x) \in Nat /\ Len(y) \in Nat
    OBVIOUS
  <1> DEFINE p == x \o <<d>>
  <1>3. /\ p \in Seq(S) /\ Len(p) = Len(x) + 1
        /\ \A k \in 1 .. Len(x) + 1 : p[k] = IF k <= Len(x) THEN x[k] ELSE <<d>>[k - Len(x)]
    BY <1>1, ConcatProperties
  <1>4. (\A k \in 1 .. Len(x) : p[k] = x[k]) /\ p[Len(x) + 1] = d
    <2>1. ASSUME NEW k \in 1 .. Len(x) PROVE p[k] = x[k]
      BY <1>2, <1>3
    <2>2. Len(x) + 1 \in 1 .. Len(x) + 1 /\ ~(Len(x) + 1 <= Len(x)) /\ (Len(x) + 1) - Len(x) = 1
      BY <1>2
    <2> QED BY <1>1, <1>3, <2>1, <2>2
  <1> HIDE DEF p
  <1>5. /\ p \o y \in Seq(S) /\ Len(p \o y) = Len(p) + Len(y)
        /\ \A k \in 1 .. Len(p) + Len(y) :
                (p \o y)[k] = IF k <= Len(p) THEN p[k] ELSE y[k - Len(p)]
    <2>1. p \in Seq(S)
      BY <1>3
    <2> QED BY <2>1, ConcatProperties
  <1>6. ASSUME NEW k \in 1 .. Len(x) + 1 PROVE (p \o y)[k] = p[k]
    BY <1>2, <1>3, <1>5
  <1>7. ASSUME NEW k \in 1 .. Len(y) PROVE (p \o y)[Len(x) + 1 + k] = y[k]
    <2>1. /\ Len(x) + 1 + k \in 1 .. Len(p) + Len(y)
          /\ ~(Len(x) + 1 + k <= Len(p)) /\ (Len(x) + 1 + k) - Len(p) = k
      BY <1>2, <1>3
    <2> QED BY <1>5, <2>1
  <1>8. Join(x, d, y) = p \o y
    BY DEF Join, p
  <1>9. /\ \A k \in 1 .. Len(x) : k \in 1 .. Len(x) + 1
        /\ Len(x) + 1 \in 1 .. Len(x) + 1
    BY <1>2
  <1>10. IsJoin(p \o y, S, x, d, y)
    BY <1>2, <1>3, <1>4, <1>5, <1>6, <1>7, <1>9 DEF IsJoin
  <1> QED BY <1>8, <1>10

(* Where an index of the whole is.                                         *)
LEMMA JoinIndex ==
    ASSUME NEW S, NEW x \in Seq(S), NEW y \in Seq(S), NEW k \in 1 .. Len(x) + 1 + Len(y)
    PROVE  \/ k \in 1 .. Len(x)
           \/ k = Len(x) + 1
           \/ \E j \in 1 .. Len(y) : k = Len(x) + 1 + j
  <1>1. Len(x) \in Nat /\ Len(y) \in Nat
    OBVIOUS
  <1>2. CASE k > Len(x) + 1
    <2>1. k - (Len(x) + 1) \in 1 .. Len(y) /\ k = Len(x) + 1 + (k - (Len(x) + 1))
      BY <1>1, <1>2
    <2> QED BY <2>1
  <1> QED BY <1>1, <1>2

LEMMA RemoveFromFirst ==
    ASSUME NEW S, NEW x \in Seq(S), NEW d \in S, NEW y \in Seq(S), NEW k \in 1 .. Len(x)
    PROVE  /\ k \in 1 .. Len(Join(x, d, y))
           /\ RemoveAt(Join(x, d, y), k) = Join(RemoveAt(x, k), d, y)
  <1> DEFINE j == Join(x, d, y)
             r == RemoveAt(j, k)
             u == RemoveAt(x, k)
             v == Join(u, d, y)
  <1>1. Len(x) \in Nat /\ Len(y) \in Nat
    OBVIOUS
  <1>2. /\ j \in Seq(S) /\ Len(j) = Len(x) + 1 + Len(y)
        /\ \A i \in 1 .. Len(x) : j[i] = x[i]
        /\ j[Len(x) + 1] = d
        /\ \A i \in 1 .. Len(y) : j[Len(x) + 1 + i] = y[i]
    <2>1. IsJoin(j, S, x, d, y)
      BY JoinFacts
    <2> QED BY <2>1 DEF IsJoin
  <1>3. /\ u \in Seq(S) /\ Len(u) = Len(x) - 1
        /\ \A i \in 1 .. Len(x) - 1 : u[i] = IF i < k THEN x[i] ELSE x[i + 1]
    BY RemoveAtFacts
  <1>4. k \in 1 .. Len(j)
    BY <1>1, <1>2
  <1> HIDE DEF j, u
  <1>5. /\ r \in Seq(S) /\ Len(r) = Len(j) - 1
        /\ \A i \in 1 .. Len(j) - 1 : r[i] = IF i < k THEN j[i] ELSE j[i + 1]
    BY <1>2, <1>4, RemoveAtFacts
  <1>6. /\ v \in Seq(S) /\ Len(v) = Len(u) + 1 + Len(y)
        /\ \A i \in 1 .. Len(u) : v[i] = u[i]
        /\ v[Len(u) + 1] = d
        /\ \A i \in 1 .. Len(y) : v[Len(u) + 1 + i] = y[i]
    <2>1. IsJoin(v, S, u, d, y)
      BY <1>3, JoinFacts
    <2> QED BY <2>1 DEF IsJoin
  <1> HIDE DEF r, v
  <1>7. ASSUME NEW i \in 1 .. Len(r) PROVE r[i] = v[i]
    <2>1. i \in 1 .. Len(u) + 1 + Len(y)
      BY <1>1, <1>2, <1>3, <1>5
    <2>2. CASE i \in 1 .. Len(u)
      <3>1. /\ i \in 1 .. Len(x) - 1 /\ i \in 1 .. Len(j) - 1
            /\ i \in 1 .. Len(x) /\ i + 1 \in 1 .. Len(x)
        BY <1>1, <1>2, <1>3, <2>2
      <3> QED BY <1>2, <1>3, <1>5, <1>6, <2>2, <3>1
    <2>3. CASE i = Len(u) + 1
      <3>1. i \in 1 .. Len(j) - 1 /\ ~(i < k) /\ i + 1 = Len(x) + 1
        BY <1>1, <1>2, <1>3, <2>3
      <3> QED BY <1>2, <1>5, <1>6, <2>3, <3>1
    <2>4. ASSUME NEW n \in 1 .. Len(y), i = Len(u) + 1 + n PROVE r[i] = v[i]
      <3>1. i \in 1 .. Len(j) - 1 /\ ~(i < k) /\ i + 1 = Len(x) + 1 + n
        BY <1>1, <1>2, <1>3, <2>4
      <3> QED BY <1>2, <1>5, <1>6, <2>4, <3>1
    <2> QED BY <1>3, <2>1, <2>2, <2>3, <2>4, JoinIndex
  <1>8. Len(r) = Len(v)
    BY <1>1, <1>2, <1>3, <1>5, <1>6
  <1>9. r = v
    BY <1>5, <1>6, <1>7, <1>8, SeqEqual
  <1> QED BY <1>4, <1>9 DEF j, r, u, v

LEMMA RemoveFromSecond ==
    ASSUME NEW S, NEW x \in Seq(S), NEW d \in S, NEW y \in Seq(S), NEW k \in 1 .. Len(y)
    PROVE  /\ Len(x) + 1 + k \in 1 .. Len(Join(x, d, y))
           /\ RemoveAt(Join(x, d, y), Len(x) + 1 + k) = Join(x, d, RemoveAt(y, k))
  <1> DEFINE j == Join(x, d, y)
             m == Len(x) + 1 + k
             r == RemoveAt(j, m)
             u == RemoveAt(y, k)
             v == Join(x, d, u)
  <1>1. Len(x) \in Nat /\ Len(y) \in Nat
    OBVIOUS
  <1>2. /\ j \in Seq(S) /\ Len(j) = Len(x) + 1 + Len(y)
        /\ \A i \in 1 .. Len(x) : j[i] = x[i]
        /\ j[Len(x) + 1] = d
        /\ \A i \in 1 .. Len(y) : j[Len(x) + 1 + i] = y[i]
    <2>1. IsJoin(j, S, x, d, y)
      BY JoinFacts
    <2> QED BY <2>1 DEF IsJoin
  <1>3. /\ u \in Seq(S) /\ Len(u) = Len(y) - 1
        /\ \A i \in 1 .. Len(y) - 1 : u[i] = IF i < k THEN y[i] ELSE y[i + 1]
    BY RemoveAtFacts
  <1>4. m \in 1 .. Len(j) /\ m = Len(x) + 1 + k /\ m \in Nat
    BY <1>1, <1>2
  <1> HIDE DEF j, u, m
  <1>5. /\ r \in Seq(S) /\ Len(r) = Len(j) - 1
        /\ \A i \in 1 .. Len(j) - 1 : r[i] = IF i < m THEN j[i] ELSE j[i + 1]
    BY <1>2, <1>4, RemoveAtFacts
  <1>6. /\ v \in Seq(S) /\ Len(v) = Len(x) + 1 + Len(u)
        /\ \A i \in 1 .. Len(x) : v[i] = x[i]
        /\ v[Len(x) + 1] = d
        /\ \A i \in 1 .. Len(u) : v[Len(x) + 1 + i] = u[i]
    <2>1. IsJoin(v, S, x, d, u)
      BY <1>3, JoinFacts
    <2> QED BY <2>1 DEF IsJoin
  <1> HIDE DEF r, v
  <1>7. ASSUME NEW i \in 1 .. Len(r) PROVE r[i] = v[i]
    <2>1. i \in 1 .. Len(x) + 1 + Len(u)
      BY <1>1, <1>2, <1>3, <1>5
    <2>2. CASE i \in 1 .. Len(x)
      <3>1. i \in 1 .. Len(j) - 1 /\ i < m
        BY <1>1, <1>2, <1>4, <2>2
      <3> QED BY <1>2, <1>5, <1>6, <2>2, <3>1
    <2>3. CASE i = Len(x) + 1
      <3>1. i \in 1 .. Len(j) - 1 /\ i < m
        BY <1>1, <1>2, <1>4, <2>3
      <3> QED BY <1>2, <1>5, <1>6, <2>3, <3>1
    <2>4. ASSUME NEW n \in 1 .. Len(u), i = Len(x) + 1 + n PROVE r[i] = v[i]
      <3>1. /\ i \in 1 .. Len(j) - 1 /\ n \in 1 .. Len(y) - 1 /\ n \in 1 .. Len(y)
            /\ n + 1 \in 1 .. Len(y) /\ (i < m <=> n < k) /\ i + 1 = Len(x) + 1 + (n + 1)
        <4>1. n \in Int /\ 1 <= n /\ n <= Len(y) - 1 /\ k \in Int
          BY <1>1, <1>3
        <4> QED BY <1>1, <1>2, <1>4, <2>4, <4>1
      <3>2. r[i] = IF n < k THEN j[Len(x) + 1 + n] ELSE j[Len(x) + 1 + (n + 1)]
        BY <1>5, <2>4, <3>1
      <3>3. r[i] = IF n < k THEN y[n] ELSE y[n + 1]
        BY <1>2, <3>1, <3>2
      <3> QED BY <1>3, <1>6, <2>4, <3>1, <3>3
    <2> QED BY <1>3, <2>1, <2>2, <2>3, <2>4, JoinIndex
  <1>8. Len(r) = Len(v)
    BY <1>1, <1>2, <1>3, <1>5, <1>6
  <1>9. r = v
    BY <1>5, <1>6, <1>7, <1>8, SeqEqual
  <1> QED BY <1>4, <1>9 DEF j, m, r, u, v

(* The element between them, when there is nothing on one side.            *)
LEMMA RemoveBetween ==
    ASSUME NEW S, NEW x \in Seq(S), NEW d \in S
    PROVE  /\ RemoveAt(Join(<<>>, d, x), 1) = x
           /\ RemoveAt(Join(x, d, <<>>), Len(x) + 1) = x
  <1>1. <<>> \in Seq(S) /\ Len(<<>>) = 0 /\ Len(x) \in Nat
    OBVIOUS
  <1> DEFINE j == Join(<<>>, d, x)
             h == Join(x, d, <<>>)
  <1>2. /\ j \in Seq(S) /\ Len(j) = Len(<<>>) + 1 + Len(x)
        /\ \A i \in 1 .. Len(x) : j[Len(<<>>) + 1 + i] = x[i]
    <2>1. IsJoin(j, S, <<>>, d, x)
      BY <1>1, JoinFacts
    <2> QED BY <2>1 DEF IsJoin
  <1>3. /\ h \in Seq(S) /\ Len(h) = Len(x) + 1 + Len(<<>>)
        /\ \A i \in 1 .. Len(x) : h[i] = x[i]
    <2>1. IsJoin(h, S, x, d, <<>>)
      BY <1>1, JoinFacts
    <2> QED BY <2>1 DEF IsJoin
  <1> HIDE DEF j, h
  <1>4. RemoveAt(j, 1) = x
    <2> DEFINE r == RemoveAt(j, 1)
    <2>1. 1 \in 1 .. Len(j)
      BY <1>1, <1>2
    <2>2. /\ r \in Seq(S) /\ Len(r) = Len(j) - 1
          /\ \A i \in 1 .. Len(j) - 1 : r[i] = IF i < 1 THEN j[i] ELSE j[i + 1]
      BY <1>2, <2>1, RemoveAtFacts
    <2> HIDE DEF r
    <2>3. Len(r) = Len(x)
      BY <1>1, <1>2, <2>2
    <2>4. ASSUME NEW i \in 1 .. Len(r) PROVE r[i] = x[i]
      <3>1. i \in 1 .. Len(j) - 1 /\ ~(i < 1) /\ i + 1 = Len(<<>>) + 1 + i /\ i \in 1 .. Len(x)
        BY <1>1, <1>2, <2>3
      <3> QED BY <1>2, <2>2, <3>1
    <2>5. r = x
      BY <2>2, <2>3, <2>4, SeqEqual
    <2> QED BY <2>5 DEF r
  <1>5. RemoveAt(h, Len(x) + 1) = x
    <2> DEFINE r == RemoveAt(h, Len(x) + 1)
    <2>1. Len(x) + 1 \in 1 .. Len(h)
      BY <1>1, <1>3
    <2>2. /\ r \in Seq(S) /\ Len(r) = Len(h) - 1
          /\ \A i \in 1 .. Len(h) - 1 : r[i] = IF i < Len(x) + 1 THEN h[i] ELSE h[i + 1]
      BY <1>3, <2>1, RemoveAtFacts
    <2> HIDE DEF r
    <2>3. Len(r) = Len(x)
      BY <1>1, <1>3, <2>2
    <2>4. ASSUME NEW i \in 1 .. Len(r) PROVE r[i] = x[i]
      <3>1. i \in 1 .. Len(h) - 1 /\ i < Len(x) + 1 /\ i \in 1 .. Len(x)
        BY <1>1, <1>3, <2>3
      <3> QED BY <1>3, <2>2, <3>1
    <2>5. r = x
      BY <2>2, <2>3, <2>4, SeqEqual
    <2> QED BY <2>5 DEF r
  <1> QED BY <1>4, <1>5 DEF j, h

(* One element replaced.                                                   *)
Replaced(s, k, e) == [s EXCEPT ![k] = e]

LEMMA ReplaceInJoin ==
    ASSUME NEW S, NEW x \in Seq(S), NEW d \in S, NEW y \in Seq(S), NEW e \in S
    PROVE  /\ \A k \in 1 .. Len(x) : Replaced(Join(x, d, y), k, e) = Join(Replaced(x, k, e), d, y)
           /\ Replaced(Join(x, d, y), Len(x) + 1, e) = Join(x, e, y)
           /\ \A k \in 1 .. Len(y) :
                Replaced(Join(x, d, y), Len(x) + 1 + k, e) = Join(x, d, Replaced(y, k, e))
  <1> DEFINE j == Join(x, d, y)
  <1>1. Len(x) \in Nat /\ Len(y) \in Nat
    OBVIOUS
  <1>2. IsJoin(j, S, x, d, y)
    BY JoinFacts
  <1> HIDE DEF j
  <1>3. j \in Seq(S) /\ Len(j) = Len(x) + 1 + Len(y)
    BY <1>2 DEF IsJoin
  (* A list that has e at n, and the parts' elements elsewhere.            *)
  <1>4. ASSUME NEW n \in 1 .. Len(x) + 1 + Len(y),
               NEW u \in Seq(S), NEW c \in S, NEW v \in Seq(S), Len(u) = Len(x), Len(v) = Len(y),
               \A i \in 1 .. Len(x) : u[i] = IF i = n THEN e ELSE x[i],
               c = IF n = Len(x) + 1 THEN e ELSE d,
               \A i \in 1 .. Len(y) : v[i] = IF Len(x) + 1 + i = n THEN e ELSE y[i]
        PROVE  [j EXCEPT ![n] = e] = Join(u, c, v)
    <2> DEFINE r == [j EXCEPT ![n] = e]
               w == Join(u, c, v)
    <2>1. n \in 1 .. Len(j)
      BY <1>3
    <2>2. /\ r \in Seq(S) /\ Len(r) = Len(j)
          /\ \A i \in 1 .. Len(j) : r[i] = IF i = n THEN e ELSE j[i]
      BY <1>3, <2>1, ExceptSeq
    <2>3. IsJoin(w, S, u, c, v)
      BY JoinFacts
    <2> HIDE DEF r, w
    <2>4. w \in Seq(S) /\ Len(w) = Len(r)
      BY <1>3, <1>4, <2>2, <2>3 DEF IsJoin
    <2>5. ASSUME NEW i \in 1 .. Len(r) PROVE r[i] = w[i]
      <3>1. i \in 1 .. Len(j) /\ i \in 1 .. Len(x) + 1 + Len(y)
        BY <1>3, <2>2
      <3>2. CASE i \in 1 .. Len(x)
        BY <1>2, <1>4, <2>2, <2>3, <3>1, <3>2 DEF IsJoin
      <3>3. CASE i = Len(x) + 1
        <4>1. j[i] = d /\ w[i] = c
          BY <1>2, <1>4, <2>3, <3>3 DEF IsJoin
        <4> QED BY <1>4, <2>2, <3>1, <3>3, <4>1
      <3>4. ASSUME NEW k \in 1 .. Len(y), i = Len(x) + 1 + k PROVE r[i] = w[i]
        <4>1. j[i] = y[k] /\ w[i] = v[k]
          BY <1>2, <1>4, <2>3, <3>4 DEF IsJoin
        <4>2. v[k] = IF i = n THEN e ELSE y[k]
          BY <1>4, <3>4
        <4> QED BY <2>2, <3>1, <4>1, <4>2
      <3> QED BY <3>1, <3>2, <3>3, <3>4, JoinIndex
    <2>6. r = w
      BY <2>2, <2>4, <2>5, SeqEqual
    <2> QED BY <2>6 DEF r, w
  <1>5. ASSUME NEW k \in 1 .. Len(x)
        PROVE  [j EXCEPT ![k] = e] = Join([x EXCEPT ![k] = e], d, y)
    <2> DEFINE u == [x EXCEPT ![k] = e]
    <2>1. /\ u \in Seq(S) /\ Len(u) = Len(x)
          /\ \A i \in 1 .. Len(x) : u[i] = IF i = k THEN e ELSE x[i]
      BY ExceptSeq
    <2>2. k \in 1 .. Len(x) + 1 + Len(y) /\ k # Len(x) + 1 /\ k \in Int
          /\ \A i \in 1 .. Len(y) : Len(x) + 1 + i # k
      BY <1>1
    <2> HIDE DEF u
    <2>3. [j EXCEPT ![k] = e] = Join(u, d, y)
      BY <1>4, <2>1, <2>2
    <2> QED BY <2>3 DEF u
  <1>6. [j EXCEPT ![Len(x) + 1] = e] = Join(x, e, y)
    <2> DEFINE n == Len(x) + 1
    <2>1. n \in 1 .. Len(x) + 1 + Len(y) /\ n = Len(x) + 1
          /\ (\A i \in 1 .. Len(x) : i # n) /\ (\A i \in 1 .. Len(y) : Len(x) + 1 + i # n)
      BY <1>1
    <2> HIDE DEF n
    <2>2. [j EXCEPT ![n] = e] = Join(x, e, y)
      BY <1>4, <2>1
    <2> QED BY <2>2 DEF n
  <1>7. ASSUME NEW k \in 1 .. Len(y)
        PROVE  [j EXCEPT ![Len(x) + 1 + k] = e] = Join(x, d, [y EXCEPT ![k] = e])
    <2> DEFINE v == [y EXCEPT ![k] = e]
               n == Len(x) + 1 + k
    <2>1. /\ v \in Seq(S) /\ Len(v) = Len(y)
          /\ \A i \in 1 .. Len(y) : v[i] = IF i = k THEN e ELSE y[i]
      BY ExceptSeq
    <2>2. n \in 1 .. Len(x) + 1 + Len(y) /\ n # Len(x) + 1
          /\ (\A i \in 1 .. Len(x) : i # n) /\ (\A i \in 1 .. Len(y) : Len(x) + 1 + i = n <=> i = k)
      BY <1>1
    <2>3. \A i \in 1 .. Len(y) : v[i] = IF Len(x) + 1 + i = n THEN e ELSE y[i]
      <3> HIDE DEF v, n
      <3> QED BY <2>1, <2>2
    <2>4. \A i \in 1 .. Len(x) : x[i] = IF i = n THEN e ELSE x[i]
      <3> HIDE DEF v, n
      <3> QED BY <2>2
    <2> HIDE DEF v, n
    <2>5. [j EXCEPT ![n] = e] = Join(x, d, v)
      BY SMTT(30), <1>4, <2>1, <2>2, <2>3, <2>4
    <2> QED BY <2>5 DEF v, n
  <1> QED BY <1>5, <1>6, <1>7 DEF j, Replaced

-----------------------------------------------------------------------------
(* A function on 0 .. N may be defined by what it is at 0 and, at each     *)
(* number above, from what it is one below.                                *)
UpwardRules(N, V) == [1 .. N -> [V -> V]]

Climbs(f, N, V, base, step) ==
    /\ f \in [0 .. N -> V]
    /\ f[0] = base /\ \A n \in 1 .. N : f[n] = step[n][f[n - 1]]

LEMMA UpwardRecursion ==
    ASSUME NEW N \in Nat, NEW V, NEW base \in V, NEW step \in UpwardRules(N, V)
    PROVE  \E f : Climbs(f, N, V, base, step)
  <1> DEFINE Good(k) == \E f \in [0 .. k -> V] :
                            f[0] = base /\ \A n \in 1 .. k : f[n] = step[n][f[n - 1]]
             B == {k \in Nat : k <= N /\ ~ Good(k)}
  <1>1. SUFFICES ASSUME B # {} PROVE FALSE
    <2>1. SUFFICES Good(N)
      BY <2>1 DEF Climbs
    <2> HIDE DEF Good
    <2> QED OBVIOUS
  <1>2. PICK k \in B : \A j \in B : k <= j
    <2>1. B \subseteq Nat
      OBVIOUS
    <2> HIDE DEF B
    <2> QED BY <1>1, <2>1, LeastNatural
  <1>3. k \in Nat /\ k <= N /\ ~ Good(k)
    OBVIOUS
  <1>4. k # 0
    <2>1. Good(0)
      <3> DEFINE f == [n \in 0 .. 0 |-> base]
      <3>1. f \in [0 .. 0 -> V] /\ f[0] = base /\ \A n \in 1 .. 0 : f[n] = step[n][f[n - 1]]
        OBVIOUS
      <3> QED BY <3>1
    <2> QED BY <1>3, <2>1
  <1>5. k - 1 \in Nat /\ k - 1 <= N /\ k - 1 \notin B
    <2>1. k - 1 \notin B
      <3> HIDE DEF B
      <3> QED BY <1>2, <1>3, <1>4
    <2> QED BY <1>3, <1>4, <2>1
  <1>6. PICK g \in [0 .. k - 1 -> V] :
            g[0] = base /\ \A n \in 1 .. k - 1 : g[n] = step[n][g[n - 1]]
    BY <1>5
  <1> HIDE DEF B
  <1> DEFINE f == [n \in 0 .. k |-> IF n = k THEN step[k][g[k - 1]] ELSE g[n]]
  <1>7. g[k - 1] \in V /\ step[k][g[k - 1]] \in V
    BY <1>3, <1>4, <1>6 DEF UpwardRules
  <1>8. f \in [0 .. k -> V]
    BY <1>3, <1>6, <1>7
  <1>9. f[0] = base
    BY <1>3, <1>4, <1>6
  <1>10. ASSUME NEW n \in 1 .. k PROVE f[n] = step[n][f[n - 1]]
    <2>1. CASE n = k
      BY <1>3, <1>4, <2>1
    <2>2. CASE n # k
      <3>1. n \in 1 .. k - 1 /\ n - 1 \in 0 .. k /\ n - 1 # k /\ n \in 0 .. k
        BY <1>3, <2>2
      <3> QED BY <1>6, <2>2, <3>1
    <2> QED BY <2>1, <2>2
  <1> HIDE DEF f
  <1> QED BY <1>3, <1>8, <1>9, <1>10

-----------------------------------------------------------------------------
(* Folds over finite sets: one member is picked, the others are folded     *)
(* first.                                                                  *)
Picks(c, D) == \A s \in SUBSET D : s # {} => c[s] \in s

FoldsBy(g, c, base, step, D) ==
    \A s \in SUBSET D : g[s] = IF s = {} THEN base ELSE step[c[s]][g[s \ {c[s]}]]

(* The number of members of a subset; one less without one of them.        *)
LEMMA Counted ==
    ASSUME NEW D, IsFiniteSet(D), NEW s \in SUBSET D
    PROVE  /\ IsFiniteSet(s) /\ Cardinality(s) \in 0 .. Cardinality(D)
           /\ Cardinality(s) = 0 <=> s = {}
           /\ \A x \in s : Cardinality(s \ {x}) = Cardinality(s) - 1
  <1>1. IsFiniteSet(s) /\ Cardinality(s) <= Cardinality(D)
    BY FS_Subset
  <1>2. Cardinality(s) \in Nat /\ Cardinality(D) \in Nat
    BY <1>1, FS_CardinalityType
  <1>3. Cardinality(s) = 0 <=> s = {}
    BY <1>1, FS_EmptySet
  <1>4. ASSUME NEW x \in s PROVE Cardinality(s \ {x}) = Cardinality(s) - 1
    BY <1>1, FS_RemoveElement
  <1> QED BY <1>1, <1>2, <1>3, <1>4

(* A fold exists: a table of the folds of up to n members, by going up.    *)
LEMMA FoldExists ==
    ASSUME NEW D, IsFiniteSet(D), NEW c, Picks(c, D),
           NEW V, NEW base \in V, NEW step \in [D -> [V -> V]]
    PROVE  \E g \in [SUBSET D -> V] : FoldsBy(g, c, base, step, D)
  <1> DEFINE N == Cardinality(D)
             W == [SUBSET D -> V]
             At(t, s) == IF s = {} THEN base ELSE step[c[s]][t[s \ {c[s]}]]
             bottom == [s \in SUBSET D |-> base]
             up == [n \in 1 .. N |-> [t \in W |-> [s \in SUBSET D |-> At(t, s)]]]
  <1>1. N \in Nat
    BY FS_CardinalityType
  <1>2. bottom \in W
    OBVIOUS
  <1>3. ASSUME NEW t \in W, NEW s \in SUBSET D PROVE At(t, s) \in V
    <2>1. CASE s # {}
      <3>1. c[s] \in D /\ s \ {c[s]} \in SUBSET D
        BY <2>1 DEF Picks
      <3>2. step[c[s]] \in [V -> V] /\ t[s \ {c[s]}] \in V
        BY <3>1
      <3> QED BY <2>1, <3>2
    <2> QED BY <2>1
  <1>4. up \in UpwardRules(N, W)
    <2>1. ASSUME NEW t \in W PROVE [s \in SUBSET D |-> At(t, s)] \in W
      <3> HIDE DEF At
      <3> QED BY <1>3
    <2> HIDE DEF At, W, N
    <2> QED BY <2>1 DEF UpwardRules
  <1>5. PICK f : Climbs(f, N, W, bottom, up)
    <2> HIDE DEF bottom, up, W, N
    <2> QED BY <1>1, <1>2, <1>4, UpwardRecursion
  <1> DEFINE g == [s \in SUBSET D |-> f[Cardinality(s)][s]]
  <1>6. ASSUME NEW n \in 0 .. N PROVE f[n] \in W
    <2> HIDE DEF W, bottom, up, N
    <2> QED BY <1>5 DEF Climbs
  <1>7. g \in W
    <2> SUFFICES ASSUME NEW s \in SUBSET D PROVE f[Cardinality(s)][s] \in V
      OBVIOUS
    <2>1. Cardinality(s) \in 0 .. N
      BY Counted
    <2>2. f[Cardinality(s)] \in W
      <3> HIDE DEF W, N
      <3> QED BY <1>6, <2>1
    <2> QED BY <2>2
  <1>8. ASSUME NEW s \in SUBSET D PROVE g[s] = At(g, s)
    <2>1. Cardinality(s) \in 0 .. N /\ (Cardinality(s) = 0 <=> s = {})
      BY Counted
    <2>2. CASE s = {}
      <3>1. f[0] = bottom
        <4> HIDE DEF bottom, up, W, N
        <4> QED BY <1>5 DEF Climbs
      <3>2. g[s] = f[Cardinality(s)][s]
        OBVIOUS
      <3>3. Cardinality(s) = 0
        BY <2>1, <2>2
      <3> QED BY <2>2, <3>1, <3>2, <3>3
    <2>3. CASE s # {}
      <3> DEFINE r == s \ {c[s]}
                 n == Cardinality(s)
      <3>1. r \in SUBSET D /\ Cardinality(r) = n - 1
        <4>1. c[s] \in s
          BY <2>3 DEF Picks
        <4> QED BY <4>1, Counted
      <3>2. n \in 1 .. N
        BY <2>1, <2>3
      <3>3. n - 1 \in 0 .. N
        BY <1>1, <3>2
      <3>4. f[n] = up[n][f[n - 1]]
        <4> HIDE DEF bottom, up, W, N, n
        <4> QED BY <1>5, <3>2 DEF Climbs
      <3>5. up[n][f[n - 1]] = [u \in SUBSET D |-> At(f[n - 1], u)]
        <4>1. f[n - 1] \in W
          <5> HIDE DEF W, N, n
          <5> QED BY <1>6, <3>3
        <4> HIDE DEF At, W, N, n
        <4> QED BY <3>2, <4>1
      <3>6. f[n][s] = At(f[n - 1], s)
        <4> HIDE DEF At, up, n, N
        <4> QED BY <3>4, <3>5
      <3>7. At(f[n - 1], s) = step[c[s]][f[n - 1][r]]
        BY <2>3
      <3>8. g[r] = f[n - 1][r]
        <4> HIDE DEF n, r
        <4> QED BY <3>1
      <3>9. At(g, s) = step[c[s]][g[r]]
        <4> HIDE DEF g
        <4> QED BY <2>3
      <3>10. g[s] = f[n][s]
        OBVIOUS
      <3> HIDE DEF g, At, n, r
      <3> QED BY <3>6, <3>7, <3>8, <3>9, <3>10
    <2> QED BY <2>2, <2>3
  <1> HIDE DEF g
  <1> QED BY <1>7, <1>8 DEF FoldsBy

-----------------------------------------------------------------------------
(* Sums over finite sets, as MapThenSumSet computes them: one member that  *)
(* is chosen, and the others.                                              *)
Chosen(s) == CHOOSE x \in s : TRUE

AddsUp(g, F, D) ==
    g = [s \in SUBSET D |-> IF s = {} THEN 0 ELSE F[Chosen(s)] + g[s \ {Chosen(s)}]]

Adding(F, D) == CHOOSE g : AddsUp(g, F, D)

LEMMA ChosenIsIn == \A s : s # {} => Chosen(s) \in s
  BY DEF Chosen

LEMMA OneChosen ==
    ASSUME NEW D, IsFiniteSet(D), NEW s \in SUBSET D
    PROVE  /\ IsFiniteSet(s) /\ Cardinality(s) \in 0 .. Cardinality(D)
           /\ Cardinality(s) = 0 <=> s = {}
           /\ s # {} => /\ s \ {Chosen(s)} \in SUBSET D
                        /\ Cardinality(s \ {Chosen(s)}) = Cardinality(s) - 1
  <1>1. s # {} => Chosen(s) \in s
    BY ChosenIsIn
  <1> QED BY <1>1, Counted

LEMMA CountedSubsets ==
    ASSUME NEW D, IsFiniteSet(D), NEW W, W \subseteq SUBSET D
    PROVE  {Cardinality(s) : s \in W} \subseteq Nat
  <1> SUFFICES ASSUME NEW s \in W PROVE Cardinality(s) \in Nat
    OBVIOUS
  <1>1. IsFiniteSet(s)
    BY FS_Subset
  <1> QED BY <1>1, FS_CardinalityType

(* The sum exists.                                                         *)
LEMMA SumExists ==
    ASSUME NEW D, IsFiniteSet(D), NEW F, \A x \in D : F[x] \in Int
    PROVE  \E g : g \in [SUBSET D -> Int] /\ AddsUp(g, F, D)
  <1> DEFINE c == [s \in SUBSET D |-> Chosen(s)]
             step == [x \in D |-> [v \in Int |-> F[x] + v]]
  <1>1. Picks(c, D)
    BY ChosenIsIn DEF Picks
  <1>2. step \in [D -> [Int -> Int]]
    OBVIOUS
  <1>3. PICK g \in [SUBSET D -> Int] : FoldsBy(g, c, 0, step, D)
    <2>1. 0 \in Int
      OBVIOUS
    <2> HIDE DEF c, step
    <2> QED BY <1>1, <1>2, <2>1, FoldExists, Zenon
  <1>4. ASSUME NEW s \in SUBSET D
        PROVE  g[s] = IF s = {} THEN 0 ELSE F[Chosen(s)] + g[s \ {Chosen(s)}]
    <2>1. g[s] = IF s = {} THEN 0 ELSE step[c[s]][g[s \ {c[s]}]]
      BY <1>3 DEF FoldsBy
    <2>2. CASE s # {}
      <3>1. c[s] = Chosen(s) /\ Chosen(s) \in D /\ g[s \ {Chosen(s)}] \in Int
        BY <2>2, ChosenIsIn
      <3> QED BY <2>1, <2>2, <3>1
    <2> QED BY <2>1, <2>2
  <1> QED BY <1>4 DEF AddsUp

(* There is only one way to add up.                                        *)
LEMMA SumSame ==
    ASSUME NEW D, IsFiniteSet(D), NEW E, NEW F, NEW g, NEW h,
           AddsUp(g, F, D), AddsUp(h, F, E)
    PROVE  \A s \in SUBSET D : s \in SUBSET E => g[s] = h[s]
  <1> DEFINE Differ == {s \in SUBSET D : s \in SUBSET E /\ g[s] # h[s]}
             B == {Cardinality(s) : s \in Differ}
  <1>1. SUFFICES ASSUME B # {} PROVE FALSE
    OBVIOUS
  <1>2. B \subseteq Nat
    <2>1. Differ \subseteq SUBSET D
      OBVIOUS
    <2> HIDE DEF Differ
    <2> QED BY <2>1, CountedSubsets
  <1>3. PICK n \in B : \A m \in B : n <= m
    <2> HIDE DEF B
    <2> QED BY <1>1, <1>2, LeastNatural
  <1>4. PICK s \in Differ : n = Cardinality(s)
    OBVIOUS
  <1>5. ASSUME NEW u \in SUBSET D, u \in SUBSET E, Cardinality(u) = n - 1 PROVE g[u] = h[u]
    <2>1. n \in Nat /\ n - 1 \notin B
      <3> HIDE DEF B
      <3> QED BY <1>2, <1>3
    <2> QED BY <1>5, <2>1
  <1>6. s \in SUBSET D /\ s \in SUBSET E /\ g[s] # h[s]
    OBVIOUS
  <1> HIDE DEF B, Differ
  <1>7. g[s] = IF s = {} THEN 0 ELSE F[Chosen(s)] + g[s \ {Chosen(s)}]
    BY <1>6 DEF AddsUp
  <1>8. h[s] = IF s = {} THEN 0 ELSE F[Chosen(s)] + h[s \ {Chosen(s)}]
    BY <1>6 DEF AddsUp
  <1>9. CASE s = {}
    BY <1>6, <1>7, <1>8, <1>9
  <1>10. CASE s # {}
    <2>1. s \ {Chosen(s)} \in SUBSET D /\ Cardinality(s \ {Chosen(s)}) = n - 1
      BY <1>4, <1>6, <1>10, OneChosen
    <2>2. s \ {Chosen(s)} \in SUBSET E
      BY <1>6
    <2>3. g[s \ {Chosen(s)}] = h[s \ {Chosen(s)}]
      BY <1>5, <2>1, <2>2
    <2> QED BY <1>6, <1>7, <1>8, <1>10, <2>3
  <1> QED BY <1>9, <1>10

LEMMA SumChosen ==
    ASSUME NEW D, IsFiniteSet(D), NEW F, \A x \in D : F[x] \in Int
    PROVE  Adding(F, D) \in [SUBSET D -> Int] /\ AddsUp(Adding(F, D), F, D)
  <1>1. PICK g : g \in [SUBSET D -> Int] /\ AddsUp(g, F, D)
    BY SumExists
  <1>2. AddsUp(Adding(F, D), F, D)
    BY <1>1 DEF Adding
  <1>3. ASSUME NEW s \in SUBSET D PROVE Adding(F, D)[s] = g[s]
    BY <1>1, <1>2, SumSame
  <1>4. Adding(F, D) = [s \in SUBSET D |-> Adding(F, D)[s]]
    BY <1>2 DEF AddsUp
  <1>5. Adding(F, D) \in [SUBSET D -> Int]
    BY <1>1, <1>3, <1>4
  <1> QED BY <1>2, <1>5

(* The order does not matter: a member more adds its own value.            *)
Grows(g, F, D) == \A s \in SUBSET D : \A y \in D \ s : g[s \cup {y}] = g[s] + F[y]

LEMMA SumGrows ==
    ASSUME NEW D, IsFiniteSet(D), NEW F, \A x \in D : F[x] \in Int,
           NEW g, g \in [SUBSET D -> Int], AddsUp(g, F, D)
    PROVE  Grows(g, F, D)
  <1> DEFINE Wrong == {s \in SUBSET D : \E y \in D \ s : g[s \cup {y}] # g[s] + F[y]}
             B == {Cardinality(s) : s \in Wrong}
  <1>1. SUFFICES ASSUME B # {} PROVE FALSE
    <2>1. Wrong = {}
      <3> HIDE DEF Wrong
      <3> QED BY <1>1
    <2> QED BY <2>1, Zenon DEF Grows
  <1>2. B \subseteq Nat
    <2>1. Wrong \subseteq SUBSET D
      OBVIOUS
    <2> HIDE DEF Wrong
    <2> QED BY <2>1, CountedSubsets
  <1>3. PICK n \in B : \A m \in B : n <= m
    <2> HIDE DEF B
    <2> QED BY <1>1, <1>2, LeastNatural
  <1>4. PICK s \in Wrong : n = Cardinality(s)
    OBVIOUS
  <1>5. PICK y \in D \ s : g[s \cup {y}] # g[s] + F[y]
    OBVIOUS
  <1>6. ASSUME NEW u \in SUBSET D, Cardinality(u) = n - 1, NEW z \in D \ u
        PROVE  g[u \cup {z}] = g[u] + F[z]
    <2>1. n \in Nat /\ n - 1 \notin B
      <3> HIDE DEF B
      <3> QED BY <1>2, <1>3
    <2>2. u \notin Wrong
      BY <1>6, <2>1
    <2> QED BY <1>6, <2>2
  <1>7. s \in SUBSET D
    OBVIOUS
  <1> HIDE DEF B, Wrong
  <1> DEFINE U == s \cup {y}
             x == Chosen(U)
  <1>8. U \in SUBSET D /\ U # {} /\ x \in U /\ y \notin s /\ y \in D
    BY <1>7, ChosenIsIn
  <1>9. g[U] = F[x] + g[U \ {x}]
    <2> HIDE DEF U
    <2> QED BY <1>8 DEF AddsUp
  <1> HIDE DEF x
  <1>10. CASE x = y
    <2>1. U \ {x} = s
      BY <1>8, <1>10
    <2>2. g[s] \in Int /\ F[y] \in Int
      BY <1>7, <1>8
    <2>3. g[U] = F[y] + g[s]
      <3> HIDE DEF U
      <3> QED BY <1>9, <1>10, <2>1
    <2> QED BY <1>5, <2>2, <2>3
  <1>11. CASE x # y
    <2> DEFINE r == s \ {x}
    <2>1. x \in s /\ x \in D /\ r \in SUBSET D /\ x \in D \ r /\ y \in D \ r
      BY <1>7, <1>8, <1>11
    <2>2. U \ {x} = r \cup {y} /\ s = r \cup {x}
      BY <1>8, <1>11, <2>1
    <2>3. Cardinality(r) = n - 1
      <3>1. IsFiniteSet(s)
        BY <1>7, FS_Subset
      <3> QED BY <1>4, <2>1, <3>1, FS_RemoveElement
    <2> HIDE DEF r
    <2>4. g[r \cup {y}] = g[r] + F[y]
      BY <1>6, <2>1, <2>3
    <2>5. g[r \cup {x}] = g[r] + F[x]
      BY <1>6, <2>1, <2>3
    <2>6. g[r] \in Int /\ F[x] \in Int /\ F[y] \in Int
      BY <1>8, <2>1
    <2>7. g[U] = F[x] + (g[r] + F[y]) /\ g[s] = g[r] + F[x]
      <3> HIDE DEF U
      <3> QED BY <1>9, <2>2, <2>4, <2>5
    <2> QED BY <1>5, <2>6, <2>7
  <1> QED BY <1>10, <1>11

(* What the values F of the members of S add up to.                        *)
SumOf(F, S) == Adding(F, S)[S]

LEMMA SumOfType ==
    ASSUME NEW S, IsFiniteSet(S), NEW F, \A x \in S : F[x] \in Int
    PROVE  SumOf(F, S) \in Int
  BY ZenonT(60), SumChosen DEF SumOf

(* The values of the members are all that counts.                          *)
LEMMA SumOfSame ==
    ASSUME NEW S, IsFiniteSet(S), NEW F, NEW G, \A x \in S : F[x] \in Int /\ F[x] = G[x]
    PROVE  SumOf(F, S) = SumOf(G, S)
  <1>1. AddsUp(Adding(F, S), F, S) /\ AddsUp(Adding(G, S), G, S)
    <2>1. (\A x \in S : F[x] \in Int) /\ (\A x \in S : G[x] \in Int)
      OBVIOUS
    <2> QED BY <2>1, SumChosen
  <1> DEFINE g == Adding(G, S)
  <1>2. AddsUp(g, G, S)
    BY <1>1
  <1> HIDE DEF g
  <1>3. \A s \in SUBSET S : s # {} => F[Chosen(s)] = G[Chosen(s)]
    BY ChosenIsIn
  <1>4. AddsUp(g, F, S)
    BY <1>2, <1>3 DEF AddsUp
  <1>5. S \in SUBSET S
    OBVIOUS
  <1>6. Adding(F, S)[S] = g[S]
    BY <1>1, <1>4, <1>5, SumSame
  <1> QED BY <1>6 DEF SumOf, g

LEMMA SumOfEmpty == \A F : SumOf(F, {}) = 0
  <1> SUFFICES ASSUME NEW F PROVE SumOf(F, {}) = 0
    OBVIOUS
  <1>1. AddsUp(Adding(F, {}), F, {})
    BY FS_EmptySet, SumChosen
  <1> QED BY <1>1 DEF AddsUp, SumOf

LEMMA SumOfMore ==
    ASSUME NEW S, IsFiniteSet(S), NEW F, NEW y, y \notin S, \A x \in S \cup {y} : F[x] \in Int
    PROVE  SumOf(F, S \cup {y}) = SumOf(F, S) + F[y]
  <1> DEFINE D == S \cup {y}
  <1>1. IsFiniteSet(D)
    BY FS_AddElement
  <1>2. Adding(F, D) \in [SUBSET D -> Int] /\ AddsUp(Adding(F, D), F, D)
    <2> HIDE DEF D
    <2>1. \A x \in D : F[x] \in Int
      BY DEF D
    <2> QED BY <1>1, <2>1, SumChosen
  <1>3. AddsUp(Adding(F, S), F, S)
    BY SumChosen
  <1>4. Adding(F, S)[S] = Adding(F, D)[S]
    <2>1. S \in SUBSET S /\ S \in SUBSET D
      OBVIOUS
    <2> HIDE DEF D
    <2> QED BY <1>2, <1>3, <2>1, SumSame
  <1>5. Adding(F, D)[S \cup {y}] = Adding(F, D)[S] + F[y]
    <2>1. S \in SUBSET D /\ y \in D \ S /\ \A x \in D : F[x] \in Int
      OBVIOUS
    <2> DEFINE g == Adding(F, D)
    <2>2. g \in [SUBSET D -> Int] /\ AddsUp(g, F, D)
      BY <1>2
    <2> HIDE DEF g, D
    <2>3. Grows(g, F, D)
      BY <1>1, <2>1, <2>2, SumGrows
    <2>4. g[S \cup {y}] = g[S] + F[y]
      BY <2>1, <2>3 DEF Grows
    <2> QED BY <2>4 DEF g
  <1> QED BY <1>4, <1>5 DEF SumOf

(* Fewer members add up to no more, when no value is below 0.              *)
LEMMA SumOfFewer ==
    ASSUME NEW S, IsFiniteSet(S), NEW F, \A x \in S : F[x] \in Nat
    PROVE  \A T \in SUBSET S : SumOf(F, T) <= SumOf(F, S)
  <1> DEFINE Wrong == {T \in SUBSET S : ~ (SumOf(F, T) <= SumOf(F, S))}
             B == {Cardinality(S \ T) : T \in Wrong}
  <1>1. SUFFICES ASSUME B # {} PROVE FALSE
    OBVIOUS
  <1>2. ASSUME NEW T \in SUBSET S
        PROVE  IsFiniteSet(T) /\ IsFiniteSet(S \ T) /\ SumOf(F, T) \in Int
    <2>1. IsFiniteSet(T) /\ IsFiniteSet(S \ T)
      BY FS_Subset
    <2> QED BY <2>1, SumOfType
  <1>3. B \subseteq Nat
    <2> HIDE DEF Wrong
    <2>1. Wrong \subseteq SUBSET S
      BY DEF Wrong
    <2> QED BY <1>2, <2>1, FS_CardinalityType
  <1>4. PICK n \in B : \A m \in B : n <= m
    <2> HIDE DEF B
    <2> QED BY <1>1, <1>3, LeastNatural
  <1>5. PICK T \in Wrong : n = Cardinality(S \ T)
    OBVIOUS
  <1>6. T \in SUBSET S /\ ~ (SumOf(F, T) <= SumOf(F, S))
    OBVIOUS
  <1>7. T # S
    <2>1. SumOf(F, S) \in Int
      BY <1>2
    <2> QED BY <1>6, <2>1
  <1>8. PICK y \in S : y \notin T
    BY <1>6, <1>7
  <1> DEFINE M == T \cup {y}
  <1>9. M \in SUBSET S /\ S \ M = (S \ T) \ {y} /\ y \in S \ T
    BY <1>6, <1>8
  <1>10. Cardinality(S \ M) = n - 1
    <2>1. IsFiniteSet(S \ T)
      BY <1>2, <1>6
    <2> HIDE DEF B, Wrong, M
    <2>2. Cardinality((S \ T) \ {y}) = Cardinality(S \ T) - 1
      BY <1>9, <2>1, FS_RemoveElement
    <2> QED BY <1>5, <1>9, <2>2
  <1>11. SumOf(F, M) <= SumOf(F, S)
    <2>1. n \in Nat /\ n - 1 \notin B
      <3> HIDE DEF B
      <3> QED BY <1>3, <1>4
    <2>2. M \notin Wrong
      <3> HIDE DEF M, Wrong
      <3> QED BY <1>10, <2>1
    <2> HIDE DEF M
    <2> QED BY <1>9, <2>2
  <1>12. SumOf(F, M) = SumOf(F, T) + F[y]
    <2>1. IsFiniteSet(T)
      BY <1>2, <1>6
    <2>2. ASSUME NEW x \in T \cup {y} PROVE F[x] \in Int
      <3>1. x \in S
        BY <1>6
      <3> QED BY <3>1
    <2> QED BY <1>8, <2>1, <2>2, SumOfMore
  <1>13. F[y] \in Nat /\ SumOf(F, T) \in Int /\ SumOf(F, S) \in Int
    BY <1>2, <1>6
  <1> HIDE DEF M, B, Wrong
  <1> QED BY <1>6, <1>11, <1>12, <1>13

LEMMA SumOfNat ==
    ASSUME NEW S, IsFiniteSet(S), NEW F, \A x \in S : F[x] \in Nat
    PROVE  SumOf(F, S) \in Nat
  <1>1. SumOf(F, S) \in Int
    BY SumOfType
  <1>2. SumOf(F, {}) <= SumOf(F, S)
    BY SumOfFewer
  <1> QED BY <1>1, <1>2, SumOfEmpty

-----------------------------------------------------------------------------
(* Of finitely many numbers one is the least.                              *)
LEMMA LeastOfFew ==
    ASSUME NEW n \in Nat
    PROVE  \A S \in SUBSET (1 .. n) : \A f \in [S -> Int] :
                S # {} => \E m \in S : \A x \in S : f[m] <= f[x]
  <1> DEFINE Good(k) == \A S \in SUBSET (1 .. k) : \A f \in [S -> Int] :
                            S # {} => \E m \in S : \A x \in S : f[m] <= f[x]
             B == {k \in Nat : ~ Good(k)}
  <1>1. SUFFICES ASSUME B # {} PROVE FALSE
    OBVIOUS
  <1>2. PICK k \in B : \A j \in B : k <= j
    <2>1. B \subseteq Nat
      OBVIOUS
    <2> HIDE DEF B
    <2> QED BY <1>1, <2>1, LeastNatural
  <1>3. k \in Nat /\ ~ Good(k)
    OBVIOUS
  <1>4. ASSUME k # 0 PROVE Good(k - 1)
    <2>1. k - 1 \in Nat /\ k - 1 \notin B
      <3> HIDE DEF B
      <3> QED BY <1>2, <1>3, <1>4
    <2> HIDE DEF Good
    <2> QED BY <2>1
  <1> HIDE DEF B
  <1>5. PICK S \in SUBSET (1 .. k) : \E f \in [S -> Int] :
            S # {} /\ \A m \in S : \E x \in S : ~(f[m] <= f[x])
    BY <1>3
  <1>6. PICK f \in [S -> Int] : S # {} /\ \A m \in S : \E x \in S : ~(f[m] <= f[x])
    BY <1>5
  <1>7. k # 0
    <2>1. 1 .. 0 = {}
      OBVIOUS
    <2> QED BY <1>5, <1>6, <2>1
  <1> DEFINE R == S \ {k}
             g == [x \in R |-> f[x]]
  <1>8. R \in SUBSET (1 .. k - 1) /\ g \in [R -> Int]
    BY <1>3, <1>6
  <1>9. CASE R = {}
    <2>1. S = {k} /\ f[k] \in Int
      BY <1>6, <1>9
    <2> QED BY <1>6, <2>1
  <1>10. CASE R # {}
    <2>1. PICK m \in R : \A x \in R : g[m] <= g[x]
      <3> HIDE DEF R, g
      <3> QED BY <1>4, <1>7, <1>8, <1>10
    <2>2. \A x \in S : x # k => f[m] <= f[x]
      BY <2>1
    <2>3. m \in S /\ f[m] \in Int
      BY <1>6
    <2>4. CASE k \in S /\ f[k] < f[m]
      <3>1. f[k] \in Int /\ \A x \in S : f[x] \in Int
        BY <1>6, <2>4
      <3>2. \A x \in S : f[k] <= f[x]
        BY <2>2, <2>3, <2>4, <3>1
      <3> QED BY <1>6, <2>4, <3>2
    <2>5. CASE ~(k \in S /\ f[k] < f[m])
      <3>1. \A x \in S : f[x] \in Int
        BY <1>6
      <3>2. \A x \in S : f[m] <= f[x]
        BY <2>2, <2>3, <2>5, <3>1
      <3> QED BY <1>6, <2>3, <3>2
    <2> QED BY <2>4, <2>5
  <1> QED BY <1>9, <1>10

LEMMA GreatestOfFew ==
    ASSUME NEW n \in Nat, NEW S \in SUBSET (1 .. n), S # {}, NEW f \in [S -> Int]
    PROVE  \E m \in S : \A x \in S : f[x] <= f[m]
  <1> DEFINE g == [x \in S |-> 0 - f[x]]
  <1>1. g \in [S -> Int]
    OBVIOUS
  <1>2. PICK m \in S : \A x \in S : g[m] <= g[x]
    <2> HIDE DEF g
    <2> QED BY <1>1, LeastOfFew
  <1>3. \A x \in S : f[x] <= f[m]
    BY <1>2
  <1> QED BY <1>3

(* The greatest of a finite set of numbers is one of them; so is the least.*)
LEMMA MaxIsIn ==
    ASSUME NEW n \in Nat, NEW S \in SUBSET (1 .. n), S # {}
    PROVE  Max(S) \in S /\ \A y \in S : y <= Max(S)
  <1> DEFINE f == [x \in S |-> x]
  <1>1. f \in [S -> Int]
    OBVIOUS
  <1>2. PICK m \in S : \A x \in S : f[x] <= f[m]
    <2> HIDE DEF f
    <2> QED BY <1>1, GreatestOfFew
  <1>3. \A y \in S : m >= y
    BY <1>2
  <1>4. Max(S) \in S /\ \A y \in S : Max(S) >= y
    BY <1>3 DEF Max
  <1> QED BY <1>4

LEMMA MinIsIn ==
    ASSUME NEW n \in Nat, NEW S \in SUBSET (1 .. n), S # {}
    PROVE  Min(S) \in S
  <1>1. S \subseteq Nat
    OBVIOUS
  <1>2. \E m \in S : \A y \in S : m <= y
    BY <1>1, LeastNatural
  <1> QED BY <1>2 DEF Min

(* The last of some of the first k: k itself, if it is one of them.        *)
LEMMA MaxOfFirst ==
    ASSUME NEW k \in Nat, NEW S \in SUBSET (1 .. k), k \in S
    PROVE  Max(S) = k
  <1> DEFINE m == Max(S)
  <1>1. m \in S /\ \A y \in S : y <= m
    BY MaxIsIn
  <1> HIDE DEF m
  <1>2. m \in 1 .. k /\ k <= m
    BY <1>1
  <1>3. m = k
    BY <1>2
  <1> QED BY <1>3 DEF m

-----------------------------------------------------------------------------
(* Going up to n, step by step.                                            *)
LEMMA UpTo ==
    ASSUME NEW n \in Nat, NEW S, 0 \in S, \A k \in 1 .. n : k - 1 \in S => k \in S
    PROVE  \A k \in 0 .. n : k \in S
  <1> DEFINE B == {k \in 0 .. n : k \notin S}
  <1> SUFFICES ASSUME B # {} PROVE FALSE
    OBVIOUS
  <1>1. PICK k \in B : \A j \in B : k <= j
    <2>1. B \subseteq Nat
      OBVIOUS
    <2> HIDE DEF B
    <2> QED BY <2>1, LeastNatural
  <1>2. k \in 1 .. n /\ k \notin S
    OBVIOUS
  <1>3. k - 1 \in 0 .. n /\ k - 1 \notin B
    <2> HIDE DEF B
    <2> QED BY <1>1, <1>2
  <1> QED BY <1>2, <1>3

(* FoldLeft goes through a sequence from its first element to its last: a  *)
(* table of what the elements in a set come to exists, and its values for  *)
(* the first k make the chain of intermediate results.                     *)
FoldsLeft(g, base, step, n) ==
    \A s \in SUBSET (1 .. n) :
        g[s] = IF s = {} THEN base ELSE step[Max(s)][g[s \ {Max(s)}]]

LEMMA LeftFoldExists ==
    ASSUME NEW n \in Nat, NEW V, NEW base \in V, NEW step \in [1 .. n -> [V -> V]]
    PROVE  \E g \in [SUBSET (1 .. n) -> V] : FoldsLeft(g, base, step, n)
  <1> DEFINE c == [s \in SUBSET (1 .. n) |-> Max(s)]
  <1>1. Picks(c, 1 .. n)
    BY MaxIsIn DEF Picks
  <1>2. IsFiniteSet(1 .. n)
    BY FS_Interval
  <1>3. PICK g \in [SUBSET (1 .. n) -> V] : FoldsBy(g, c, base, step, 1 .. n)
    <2> HIDE DEF c
    <2> QED BY <1>1, <1>2, FoldExists
  <1>4. ASSUME NEW s \in SUBSET (1 .. n)
        PROVE  g[s] = IF s = {} THEN base ELSE step[Max(s)][g[s \ {Max(s)}]]
    <2>1. c[s] = Max(s)
      OBVIOUS
    <2> HIDE DEF c
    <2> QED BY <1>3, <2>1 DEF FoldsBy
  <1> QED BY <1>3, <1>4 DEF FoldsLeft

LEMMA FirstOnes ==
    ASSUME NEW n \in Nat, NEW k \in 1 .. n
    PROVE  /\ 1 .. k \in SUBSET (1 .. n) /\ 1 .. k # {}
           /\ Max(1 .. k) = k /\ (1 .. k) \ {k} = 1 .. (k - 1)
  <1>1. 1 .. k \in SUBSET (1 .. n) /\ k \in 1 .. k /\ (1 .. k) \ {k} = 1 .. (k - 1)
    OBVIOUS
  <1> QED BY <1>1, MaxOfFirst

(* A value that the steps in M set, and the others keep, is in the end     *)
(* what the last of them has set it to.                                    *)
Latest(v, f, M, k) == v[k] = IF M = {} THEN v[0] ELSE f[Max(M)]

LEMMA LastWins ==
    ASSUME NEW n \in Nat, NEW M \in SUBSET (1 .. n), NEW v, NEW f,
           \A k \in 1 .. n : v[k] = IF k \in M THEN f[k] ELSE v[k - 1]
    PROVE  Latest(v, f, M, n)
  <1> DEFINE Before(k) == M \cap (1 .. k)
             S == {k \in 0 .. n : v[k] = IF Before(k) = {} THEN v[0] ELSE f[Max(Before(k))]}
  <1>1. 0 \in S
    <2>1. Before(0) = {}
      OBVIOUS
    <2> QED BY <2>1
  <1>2. ASSUME NEW k \in 1 .. n, k - 1 \in S PROVE k \in S
    <2>1. v[k - 1] = IF Before(k - 1) = {} THEN v[0] ELSE f[Max(Before(k - 1))]
      BY <1>2
    <2>2. CASE k \in M
      <3>1. Before(k) \in SUBSET (1 .. k) /\ k \in Before(k) /\ k \in Nat
        BY <2>2
      <3>2. Max(Before(k)) = k
        <4> HIDE DEF Before
        <4> QED BY <3>1, MaxOfFirst
      <3>3. v[k] = f[k]
        BY <2>2
      <3> HIDE DEF Before
      <3>4. v[k] = IF Before(k) = {} THEN v[0] ELSE f[Max(Before(k))]
        BY <3>1, <3>2, <3>3
      <3> QED BY <3>4
    <2>3. CASE k \notin M
      <3>1. Before(k) = Before(k - 1)
        BY <2>3
      <3>2. v[k] = v[k - 1]
        BY <2>3
      <3> HIDE DEF Before
      <3>3. v[k] = IF Before(k) = {} THEN v[0] ELSE f[Max(Before(k))]
        BY <2>1, <3>1, <3>2
      <3> QED BY <3>3
    <2> QED BY <2>2, <2>3
  <1>3. n \in S
    <2> HIDE DEF S
    <2> QED BY <1>1, <1>2, UpTo
  <1>4. Before(n) = M
    OBVIOUS
  <1> QED BY <1>3, <1>4 DEF Latest
===========================================================================
