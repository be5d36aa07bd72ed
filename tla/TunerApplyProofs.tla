-------------------------- MODULE TunerApplyProofs --------------------------
(***************************************************************************)
(* Proofs about IniFile and TunerApply for any router.ini, any settings    *)
(* and any number of applies.  An edit of any file is exact: that is found *)
(* line by line, by induction over the lines of the section.  Then the     *)
(* tasks have their inductive invariant: what a task without another holds *)
(* is the file, edited, until it is the file.                              *)
(***************************************************************************)
EXTENDS TunerApply, SequenceTheorems, NaturalsInduction, WellFoundedInduction, TLAPS

------------------------------------------------------------------------------
(* The lines that a key has, and those it has not.                         *)

\* A set of numbers has a least one.
LEMMA Least ==
    ASSUME NEW T, T \subseteq Nat, T # {}
    PROVE  \E x \in T : \A y \in T : x <= y
<1> DEFINE Less == {p \in Nat \X Nat : p[1] < p[2]}
<1>1. OpToRel(<, Nat) = Less
  BY DEF OpToRel
<1>2. IsWellFoundedOn(Less, Nat)
  BY <1>1, NatLessThanWellFounded
<1>3. PICK x \in T : \A y \in T : <<y, x>> \notin Less
  BY <1>2, WFMin
<1>4. \A y \in T : y \in Nat /\ x \in Nat /\ ~(y < x)
  BY <1>3
<1> QED
  BY <1>3, <1>4

\* Induction up to a bound: what holds of 0, and of n if it does of n - 1.
LEMMA UpTo ==
    ASSUME NEW N \in Nat, NEW T, 0 \in T, \A n \in 1..N : n - 1 \in T => n \in T
    PROVE  0..N \subseteq T
<1> SUFFICES ASSUME 0..N \ T # {} PROVE FALSE
  OBVIOUS
<1> DEFINE R == 0..N \ T
<1>1. R \subseteq Nat /\ R # {}
  OBVIOUS
<1>2. PICK x \in R : \A y \in R : x <= y
  <2> HIDE DEF R
  <2> QED
    BY <1>1, Least
<1>3. x \in 1..N /\ x - 1 \in 0..N
  BY <1>2
<1>4. x - 1 \in T
  BY <1>2, <1>3
<1> QED
  BY <1>2, <1>3, <1>4


\* Min is the least number of a set.
LEMMA MinIs ==
    ASSUME NEW T, T \subseteq Nat, T # {}
    PROVE  Min(T) \in T /\ \A y \in T : Min(T) <= y
BY Least DEF Min

\* f has what is taken of each part of the lines.
Takes(lines, keys, which, f) ==
    /\ f[0] = <<>>
    /\ \A n \in 1..Len(lines) :
          f[n] = IF Taken(lines[n], keys, which) THEN Append(f[n - 1], lines[n])
                 ELSE f[n - 1]

Sums(X, lines, keys, which, f) ==
    /\ Takes(lines, keys, which, f)
    /\ \A n \in 0..Len(lines) : f[n] \in Seq(X)
    /\ Part(lines, keys, which) = f[Len(lines)]

\* The part of the lines adds up, line by line.
LEMMA PartAdds ==
    ASSUME NEW X, NEW lines \in Seq(X), NEW keys, NEW which
    PROVE  \E f : Sums(X, lines, keys, which, f)
<1> DEFINE Goes(before, n) == IF Taken(lines[n], keys, which)
                              THEN Append(before, lines[n]) ELSE before
           Summed(f, k) == f = [n \in 0..k |-> IF n = 0 THEN <<>> ELSE Goes(f[n - 1], n)]
           T == {k \in 0..Len(lines) : \E f : Summed(f, k)}
           F == CHOOSE f : Summed(f, Len(lines))
<1>0. Len(lines) \in Nat
  OBVIOUS
<1>5. Part(lines, keys, which) = F[Len(lines)]
  BY DEF Part
<1>a. ASSUME NEW n \in 1..Len(lines), NEW before \in Seq(X) PROVE Goes(before, n) \in Seq(X)
  OBVIOUS
<1> HIDE DEF Goes, F
<1>1. \E f : Summed(f, 0)
  <2>1. Summed([n \in 0..0 |-> <<>>], 0)
    OBVIOUS
  <2> QED
    BY <2>1
<1>2. ASSUME NEW k \in 1..Len(lines), NEW f, Summed(f, k - 1) PROVE \E g : Summed(g, k)
  <2> DEFINE g == [n \in 0..k |-> IF n = k THEN Goes(f[k - 1], k) ELSE f[n]]
  <2>1. ASSUME NEW n \in 0..k
        PROVE  g[n] = IF n = 0 THEN <<>> ELSE Goes(g[n - 1], n)
    <3>1. CASE n = k
      BY <3>1
    <3>2. CASE n # k
      <4>1. n \in 0..k - 1 /\ (n # 0 => n - 1 \in 0..k /\ n - 1 # k)
        BY <3>2
      <4>2. f[n] = IF n = 0 THEN <<>> ELSE Goes(f[n - 1], n)
        BY <1>2, <4>1
      <4> QED
        BY <3>2, <4>1, <4>2
    <3> QED
      BY <3>1, <3>2
  <2>2. Summed(g, k)
    BY <2>1
  <2> QED
    BY <2>2
<1>3. \E f : Summed(f, Len(lines))
  <2> HIDE DEF Summed
  <2>1. 0 \in T /\ \A k \in 1..Len(lines) : k - 1 \in T => k \in T
    BY <1>0, <1>1, <1>2
  <2>2. 0..Len(lines) \subseteq T
    <3> HIDE DEF T
    <3> QED
      BY <1>0, <2>1, UpTo
  <2>3. Len(lines) \in T
    BY <1>0, <2>2
  <2> QED
    BY <2>3
<1>4. Summed(F, Len(lines))
  BY <1>3 DEF F
<1>6. F[0] = <<>>
  BY <1>0, <1>4
<1>7. ASSUME NEW n \in 1..Len(lines)
      PROVE  F[n] = Goes(F[n - 1], n)
  <2>1. n \in 0..Len(lines) /\ n # 0
    BY <1>0
  <2> QED
    BY <1>4, <2>1
<1>8. Takes(lines, keys, which, F)
  BY <1>6, <1>7 DEF Takes, Goes
<1> HIDE DEF Summed
<1>9. \A n \in 0..Len(lines) : F[n] \in Seq(X)
  <2> DEFINE U == {n \in 0..Len(lines) : F[n] \in Seq(X)}
  <2>0. 0 \in U
    <3>1. F[0] \in Seq(X)
      BY <1>6
    <3> QED
      BY <1>0, <3>1
  <2>1. ASSUME NEW n \in 1..Len(lines), n - 1 \in U PROVE n \in U
    <3>1. F[n - 1] \in Seq(X) /\ n \in 0..Len(lines)
      BY <1>0, <2>1
    <3>2. Goes(F[n - 1], n) \in Seq(X)
      BY <1>a, <3>1
    <3> QED
      BY <1>7, <3>1, <3>2
  <2>2. 0..Len(lines) \subseteq U
    <3> HIDE DEF U
    <3> QED
      BY <1>0, <2>0, <2>1, UpTo
  <2> QED
    BY <2>2
<1> QED
  BY <1>5, <1>8, <1>9 DEF Sums

\* So it is a file again.
LEMMA PartType ==
    ASSUME NEW X, NEW lines \in Seq(X), NEW keys, NEW which
    PROVE  Part(lines, keys, which) \in Seq(X)
<1>1. PICK f : Sums(X, lines, keys, which, f)
  BY PartAdds
<1>2. Len(lines) \in 0..Len(lines)
  OBVIOUS
<1> QED
  BY <1>1, <1>2 DEF Sums

\* The part of two files, one after the other, is that of each.
LEMMA PartJoin ==
    ASSUME NEW X, NEW a \in Seq(X), NEW b \in Seq(X), NEW keys, NEW which
    PROVE  Part(a \o b, keys, which) = Part(a, keys, which) \o Part(b, keys, which)
<1> DEFINE c == a \o b
           la == Len(a)
           lb == Len(b)
<1>1. /\ c \in Seq(X) /\ la \in Nat /\ lb \in Nat /\ Len(c) = la + lb
      /\ \A i \in 1..la : c[i] = a[i]
      /\ \A i \in 1..lb : c[la + i] = b[i]
  OBVIOUS
<1> HIDE DEF c
<1>20. PICK f : Sums(X, a, keys, which, f)
  BY PartAdds
<1>2. /\ Takes(a, keys, which, f)
      /\ \A n \in 0..Len(a) : f[n] \in Seq(X)
      /\ Part(a, keys, which) = f[Len(a)]
  BY <1>20 DEF Sums
<1>30. PICK g : Sums(X, b, keys, which, g)
  BY PartAdds
<1>3. /\ Takes(b, keys, which, g)
      /\ \A n \in 0..Len(b) : g[n] \in Seq(X)
      /\ Part(b, keys, which) = g[Len(b)]
  BY <1>30 DEF Sums
<1>40. PICK h : Sums(X, c, keys, which, h)
  BY <1>1, PartAdds
<1>4. /\ Takes(c, keys, which, h)
      /\ \A n \in 0..Len(c) : h[n] \in Seq(X)
      /\ Part(c, keys, which) = h[Len(c)]
  BY <1>40 DEF Sums
<1>b. /\ Part(a, keys, which) = f[la] /\ Part(b, keys, which) = g[lb]
      /\ \A n \in 0..la : f[n] \in Seq(X)
      /\ \A n \in 0..lb : g[n] \in Seq(X)
  BY <1>2, <1>3
<1> HIDE DEF la, lb
<1>5. h[la] = f[la]
  <2> DEFINE T == {n \in 0..la : h[n] = f[n]}
  <2>1. 0 \in T
    BY <1>1, <1>2, <1>4 DEF Takes
  <2>2. ASSUME NEW n \in 1..la, h[n - 1] = f[n - 1] PROVE h[n] = f[n]
    <3>1. n \in 1..Len(c) /\ c[n] = a[n]
      BY <1>1
    <3>2. h[n] = IF Taken(a[n], keys, which) THEN Append(h[n - 1], a[n]) ELSE h[n - 1]
      BY <1>4, <3>1 DEF Takes
    <3>3. f[n] = IF Taken(a[n], keys, which) THEN Append(f[n - 1], a[n]) ELSE f[n - 1]
      BY <1>2 DEF Takes, la
    <3> QED
      BY <2>2, <3>2, <3>3
  <2>3. 0..la \subseteq T
    <3>1. \A n \in 1..la : n - 1 \in T => n \in T
      BY <1>1, <2>2
    <3> HIDE DEF T
    <3> QED
      BY <1>1, <2>1, <3>1, UpTo
  <2> QED
    BY <1>1, <2>3
<1>6. h[la + lb] = f[la] \o g[lb]
  <2> DEFINE Joined(n) == h[la + n] = f[la] \o g[n]
             T == {n \in 0..lb : Joined(n)}
  <2>0. f[la] \in Seq(X)
    BY <1>1, <1>b
  <2>1. Joined(0)
    <3>1. g[0] = <<>> /\ la + 0 = la
      BY <1>1, <1>3 DEF Takes
    <3>2. f[la] \o <<>> = f[la]
      BY <2>0
    <3>3. h[la + 0] = f[la]
      BY <1>5, <3>1
    <3> QED
      BY <3>1, <3>2, <3>3
  <2>2. ASSUME NEW n \in 1..lb, Joined(n - 1)
        PROVE  Joined(n)
    <3> DEFINE m == la + n
    <3>1. m \in 1..Len(c) /\ c[m] = b[n] /\ m - 1 = la + (n - 1) /\ b[n] \in X
      BY <1>1 DEF lb
    <3> HIDE DEF m
    <3>2. h[m] = IF Taken(b[n], keys, which) THEN Append(h[m - 1], b[n]) ELSE h[m - 1]
      BY <1>4, <3>1 DEF Takes
    <3>3. g[n] = IF Taken(b[n], keys, which) THEN Append(g[n - 1], b[n]) ELSE g[n - 1]
      BY <1>3 DEF Takes, lb
    <3>4. g[n - 1] \in Seq(X)
      BY <1>1, <1>b
    <3> DEFINE p == f[la]
               q == g[n - 1]
               x == b[n]
    <3>5. p \in Seq(X) /\ q \in Seq(X) /\ x \in X
      BY <2>0, <3>1, <3>4
    <3> HIDE DEF p, q, x
    <3>6. Append(p \o q, x) = p \o Append(q, x)
      <4>1. <<x>> \in Seq(X) /\ p \o q \in Seq(X)
        BY <3>5
      <4>2. (p \o q) \o <<x>> = p \o (q \o <<x>>)
        BY <3>5, <4>1, ConcatAssociative, SMTT(30)
      <4> QED
        BY <3>5, <4>1, <4>2, AppendIsConcat
    <3>7. h[m - 1] = p \o q
      BY <2>2, <3>1 DEF p, q
    <3>8. h[m] = p \o g[n]
      BY <3>2, <3>3, <3>6, <3>7 DEF p, q, x
    <3> QED
      BY <3>8 DEF m, p
  <2>3. 0..lb \subseteq T
    <3> HIDE DEF Joined
    <3>0. 0 \in T
      BY <1>1, <2>1
    <3>1. \A n \in 1..lb : n - 1 \in T => n \in T
      BY <1>1, <2>2
    <3> HIDE DEF T
    <3> QED
      BY <1>1, <3>0, <3>1, UpTo
  <2>4. lb \in T
    <3> HIDE DEF T
    <3> QED
      BY <1>1, <2>3
  <2> QED
    BY <2>4
<1> QED
  BY <1>1, <1>4, <1>6, <1>b DEF c

\* Files with the same entries have parts of the same length, and equal parts where
\* what is taken is equal.
LEMMA PartSame ==
    ASSUME NEW X, NEW a \in Seq(X), NEW b \in Seq(X), NEW keys, NEW which,
           Len(a) = Len(b),
           \A i \in 1..Len(a) : Taken(a[i], keys, which) <=> Taken(b[i], keys, which)
    PROVE  /\ Len(Part(a, keys, which)) = Len(Part(b, keys, which))
           /\ (\A i \in 1..Len(a) : Taken(a[i], keys, which) => a[i] = b[i]) =>
                Part(a, keys, which) = Part(b, keys, which)
<1>10. PICK f : Sums(X, a, keys, which, f)
  BY PartAdds
<1>1. /\ Takes(a, keys, which, f)
      /\ \A n \in 0..Len(a) : f[n] \in Seq(X)
      /\ Part(a, keys, which) = f[Len(a)]
  BY <1>10 DEF Sums
<1>20. PICK g : Sums(X, b, keys, which, g)
  BY PartAdds
<1>2. /\ Takes(b, keys, which, g)
      /\ \A n \in 0..Len(b) : g[n] \in Seq(X)
      /\ Part(b, keys, which) = g[Len(b)]
  BY <1>20 DEF Sums
<1> DEFINE l == Len(a)
           Equal == \A i \in 1..l : Taken(a[i], keys, which) => a[i] = b[i]
           T == {n \in 0..l : Len(f[n]) = Len(g[n]) /\ (Equal => f[n] = g[n])}
<1>0. l \in Nat /\ Len(b) = l
  OBVIOUS
<1>3. 0 \in T
  BY <1>0, <1>1, <1>2 DEF Takes
<1>4. ASSUME NEW n \in 1..l, Len(f[n - 1]) = Len(g[n - 1]), Equal => f[n - 1] = g[n - 1]
      PROVE  Len(f[n]) = Len(g[n]) /\ (Equal => f[n] = g[n])
  <2>1. f[n] = IF Taken(a[n], keys, which) THEN Append(f[n - 1], a[n]) ELSE f[n - 1]
    BY <1>1 DEF Takes
  <2>2. g[n] = IF Taken(a[n], keys, which) THEN Append(g[n - 1], b[n]) ELSE g[n - 1]
    BY <1>2 DEF Takes
  <2>3. f[n - 1] \in Seq(X) /\ g[n - 1] \in Seq(X) /\ a[n] \in X /\ b[n] \in X
    BY <1>0, <1>1, <1>2
  <2>4. CASE Taken(a[n], keys, which)
    <3>1. f[n] = Append(f[n - 1], a[n]) /\ g[n] = Append(g[n - 1], b[n])
      BY <2>1, <2>2, <2>4
    <3>2. Len(f[n]) = Len(f[n - 1]) + 1 /\ Len(g[n]) = Len(g[n - 1]) + 1
      BY <2>3, <3>1
    <3> QED
      BY <1>4, <2>4, <3>1, <3>2
  <2>5. CASE ~Taken(a[n], keys, which)
    BY <1>4, <2>1, <2>2, <2>5
  <2> QED
    BY <2>4, <2>5
<1>5. 0..l \subseteq T
  <2>1. \A n \in 1..l : n - 1 \in T => n \in T
    BY <1>0, <1>4
  <2> HIDE DEF T, l
  <2> QED
    BY <1>0, <1>3, <2>1, UpTo
<1> QED
  BY <1>0, <1>1, <1>2, <1>5

\* The first line that is taken comes first; there is none only if none is taken.
LEMMA PartFirst ==
    ASSUME NEW X, NEW a \in Seq(X), NEW keys, NEW which
    PROVE  /\ (\A j \in 1..Len(a) : ~Taken(a[j], keys, which)) => Part(a, keys, which) = <<>>
           /\ \A i \in 1..Len(a) :
                /\ Taken(a[i], keys, which)
                /\ \A j \in 1..i - 1 : ~Taken(a[j], keys, which)
                => Part(a, keys, which) # <<>> /\ Head(Part(a, keys, which)) = a[i]
<1>10. PICK f : Sums(X, a, keys, which, f)
  BY PartAdds
<1>1. /\ Takes(a, keys, which, f)
      /\ \A n \in 0..Len(a) : f[n] \in Seq(X)
      /\ Part(a, keys, which) = f[Len(a)]
  BY <1>10 DEF Sums
<1> DEFINE l == Len(a)
<1>0. l \in Nat
  OBVIOUS
<1>2. ASSUME NEW k \in 0..l, \A j \in 1..k : ~Taken(a[j], keys, which)
      PROVE  f[k] = <<>>
  <2> DEFINE T == {n \in 0..k : f[n] = <<>>}
  <2>1. 0 \in T
    BY <1>1 DEF Takes
  <2>2. ASSUME NEW n \in 1..k, f[n - 1] = <<>> PROVE f[n] = <<>>
    <3>1. n \in 1..l
      BY <1>0
    <3> QED
      BY <1>1, <1>2, <2>2, <3>1 DEF Takes
  <2>3. 0..k \subseteq T
    <3>1. \A n \in 1..k : n - 1 \in T => n \in T
      BY <2>2
    <3> HIDE DEF T, l
    <3> QED
      BY <1>0, <2>1, <3>1, UpTo
  <2> QED
    BY <2>3
<1>3. ASSUME NEW i \in 1..l, Taken(a[i], keys, which),
             \A j \in 1..i - 1 : ~Taken(a[j], keys, which)
      PROVE  f[l] # <<>> /\ Head(f[l]) = a[i]
  <2> DEFINE Good(n) == Len(f[n]) > 0 /\ f[n][1] = a[i]
             T == {n \in 0..l - i : Good(n + i)}
  <2>1. Good(i)
    <3>1. f[i - 1] = <<>>
      <4>1. i - 1 \in 0..l
        BY <1>0
      <4> QED
        BY <1>2, <1>3, <4>1
    <3>2. f[i] = Append(<<>>, a[i])
      BY <1>1, <1>3, <3>1 DEF Takes
    <3> QED
      BY <3>2
  <2>2. ASSUME NEW n \in i + 1..l, Good(n - 1) PROVE Good(n)
    <3>1. n \in 1..l /\ n - 1 \in 0..l
      BY <1>0
    <3>2. f[n - 1] \in Seq(X) /\ a[n] \in X
      BY <1>1, <3>1
    <3>3. f[n] = f[n - 1] \/ f[n] = Append(f[n - 1], a[n])
      BY <1>1, <3>1 DEF Takes
    <3> DEFINE b == f[n - 1]
               x == a[n]
    <3>4. b \in Seq(X) /\ x \in X /\ Len(b) > 0 /\ b[1] = a[i]
      BY <2>2, <3>2
    <3> HIDE DEF b, x
    <3>5. Len(Append(b, x)) > 0 /\ Append(b, x)[1] = a[i]
      BY <3>4
    <3> QED
      BY <3>3, <3>4, <3>5 DEF b, x
  <2> HIDE DEF Good
  <2>3. 0 \in T
    BY <1>0, <2>1
  <2>4. ASSUME NEW n \in 1..l - i, n - 1 \in T PROVE n \in T
    <3>1. n + i \in i + 1..l /\ (n - 1) + i = (n + i) - 1
      BY <1>0
    <3> QED
      BY <2>2, <2>4, <3>1
  <2>5. 0..l - i \subseteq T
    <3>0. l - i \in Nat
      BY <1>0
    <3> HIDE DEF T, l
    <3> QED
      BY <2>3, <2>4, <3>0, UpTo
  <2>6. Good(l)
    <3>1. l - i \in T
      <4>1. l - i \in 0..l - i
        BY <1>0
      <4> HIDE DEF T
      <4> QED
        BY <2>5, <4>1
    <3>2. (l - i) + i = l
      BY <1>0
    <3> QED
      BY <3>1, <3>2
  <2>7. f[l] \in Seq(X)
    BY <1>0, <1>1
  <2> QED
    BY <2>6, <2>7 DEF Good
<1>4. (\A j \in 1..l : ~Taken(a[j], keys, which)) => f[l] = <<>>
  BY <1>0, <1>2
<1> QED
  BY <1>1, <1>3, <1>4

------------------------------------------------------------------------------
(* A file around its section.                                              *)

\* A file of three parts: all up to the header of [s], its block, and what follows.
Laid(s, P, B, R) ==
    /\ Len(P) > 0 /\ P[Len(P)] = Header(s)
    /\ \A i \in 1..Len(P) - 1 : P[i] # Header(s)
    /\ \A i \in 1..Len(B) : B[i].kind # "header"
    /\ Len(R) > 0 => R[1].kind = "header"

\* Lines of three parts, by their places.
LEMMA Threes ==
    ASSUME NEW X, NEW P \in Seq(X), NEW B \in Seq(X), NEW R \in Seq(X)
    PROVE  /\ Len(P) \in Nat /\ Len(B) \in Nat /\ Len(R) \in Nat
           /\ P \o B \o R \in Seq(X) /\ Len(P \o B \o R) = Len(P) + Len(B) + Len(R)
           /\ \A i \in 1..Len(P) : (P \o B \o R)[i] = P[i]
           /\ \A i \in 1..Len(B) : (P \o B \o R)[Len(P) + i] = B[i]
           /\ \A i \in 1..Len(R) : (P \o B \o R)[Len(P) + Len(B) + i] = R[i]
<1> DEFINE p == Len(P)
           b == Len(B)
           r == Len(R)
           Q == P \o B
           A == Q \o R
<1>0. p \in Nat /\ b \in Nat /\ r \in Nat
  OBVIOUS
<1>1. /\ Q \in Seq(X) /\ Len(Q) = p + b
      /\ \A i \in 1..p + b : Q[i] = IF i <= p THEN P[i] ELSE B[i - p]
  BY ConcatProperties
<1> HIDE DEF Q
<1>a. Q \in Seq(X)
  BY <1>1
<1>2. /\ A \in Seq(X) /\ Len(A) = Len(Q) + r
      /\ \A i \in 1..Len(Q) + r : A[i] = IF i <= Len(Q) THEN Q[i] ELSE R[i - Len(Q)]
  BY <1>a, ConcatProperties
<1> HIDE DEF A, p, b, r
<1>3. \A i \in 1..p : A[i] = P[i]
  BY <1>0, <1>1, <1>2
<1>4. ASSUME NEW i \in 1..b PROVE A[p + i] = B[i]
  <2>1. p + i \in 1..p + b /\ ~(p + i <= p) /\ (p + i) - p = i /\ p + i <= Len(Q)
    BY <1>0, <1>1
  <2>2. Q[p + i] = B[i]
    BY <1>1, <2>1
  <2>3. p + i \in 1..Len(Q) + r
    BY <1>0, <1>1, <2>1
  <2> QED
    BY <1>2, <2>1, <2>2, <2>3
<1>5. ASSUME NEW i \in 1..r PROVE A[p + b + i] = R[i]
  <2>1. p + b + i \in 1..Len(Q) + r /\ ~(p + b + i <= Len(Q)) /\ (p + b + i) - Len(Q) = i
    BY <1>0, <1>1
  <2> QED
    BY <1>2, <2>1
<1> QED
  BY <1>0, <1>1, <1>2, <1>3, <1>4, <1>5 DEF A, Q, p, b, r

\* A part of a sequence is a sequence.
LEMMA Piece ==
    ASSUME NEW X, NEW a \in Seq(X), NEW m \in Nat, NEW n \in Nat, m > 0, n <= Len(a), m <= n + 1
    PROVE  /\ SubSeq(a, m, n) \in Seq(X) /\ Len(SubSeq(a, m, n)) = n - m + 1
           /\ \A i \in 1..n - m + 1 : SubSeq(a, m, n)[i] = a[m + i - 1]
<1>1. \A i \in m..n : a[i] \in X
  OBVIOUS
<1> QED
  BY <1>1, SubSeqProperties

\* Its first line is the header's, and the block ends where the next header is.
LEMMA Reads ==
    ASSUME NEW X, NEW P \in Seq(X), NEW B \in Seq(X), NEW R \in Seq(X), NEW s,
           Laid(s, P, B, R)
    PROVE  /\ StartOf(P \o B \o R, s) = Len(P)
           /\ Block(P \o B \o R, Len(P)) = B
           /\ SubSeq(P \o B \o R, 1, Len(P)) = P
           /\ SubSeq(P \o B \o R, Len(P) + Len(B) + 1, Len(P \o B \o R)) = R
<1> DEFINE A == P \o B \o R
           p == Len(P)
           b == Len(B)
           r == Len(R)
<1>1. /\ p \in Nat /\ b \in Nat /\ r \in Nat /\ A \in Seq(X) /\ Len(A) = p + b + r
      /\ \A i \in 1..p : A[i] = P[i]
      /\ \A i \in 1..b : A[p + i] = B[i]
      /\ \A i \in 1..r : A[p + b + i] = R[i]
  BY Threes
<1>2. /\ p > 0 /\ P[p] = Header(s)
      /\ \A i \in 1..p - 1 : P[i] # Header(s)
      /\ \A i \in 1..b : B[i].kind # "header"
      /\ r > 0 => R[1].kind = "header"
  BY DEF Laid
<1> HIDE DEF A, p, b, r
<1>3. StartOf(A, s) = p
  <2> DEFINE I == {i \in 1..Len(A) : A[i] = Header(s)}
  <2>1. StartOf(A, s) = IF I # {} THEN Min(I) ELSE 0
    BY DEF StartOf, SelectInSeq
  <2>2. p \in I /\ \A i \in I : i >= p
    BY <1>1, <1>2
  <2>3. I \subseteq Nat
    BY <1>1
  <2> HIDE DEF I
  <2>4. Min(I) \in I /\ Min(I) <= p
    BY <2>2, <2>3, MinIs
  <2>5. Min(I) \in Nat /\ Min(I) >= p
    BY <2>2, <2>3, <2>4
  <2>6. Min(I) = p
    BY <1>1, <2>4, <2>5
  <2>7. I # {}
    BY <2>2
  <2> QED
    BY <2>1, <2>6, <2>7
<1> DEFINE J == {i \in p + 1..Len(A) : A[i].kind = "header"}
           next == IF J # {} THEN Min(J) ELSE 0
<1>4. Block(A, p) = SubSeq(A, p + 1, IF next = 0 THEN Len(A) ELSE next - 1)
  BY DEF Block, SelectInSubSeq, IsHeader
<1>5. \A i \in J : i > p + b
  <2> SUFFICES ASSUME NEW i \in J, i <= p + b PROVE FALSE
    BY <1>1
  <2>1. i - p \in 1..b /\ p + (i - p) = i /\ A[i].kind = "header"
    BY <1>1
  <2> DEFINE h == i - p
  <2>2. A[p + h] = B[h] /\ B[h].kind # "header"
    <3> HIDE DEF J, h
    <3> QED
      BY <1>1, <1>2, <2>1 DEF h
  <2> QED
    BY <2>1, <2>2
<1>6. J \subseteq Nat
  BY <1>1
<1>7. (IF next = 0 THEN Len(A) ELSE next - 1) = p + b
  <2>1. CASE r = 0
    <3>1. J = {}
      BY <1>1, <1>5, <2>1
    <3> HIDE DEF J
    <3> QED
      BY <1>1, <2>1, <3>1
  <2>2. CASE r # 0
    <3>1. p + b + 1 \in J
      <4>1. A[p + b + 1] = R[1] /\ r > 0
        BY <1>1, <2>2
      <4> QED
        BY <1>1, <1>2, <4>1
    <3> HIDE DEF J
    <3>2. Min(J) \in J /\ Min(J) <= p + b + 1
      BY <1>6, <3>1, MinIs
    <3>4. Min(J) \in Nat /\ Min(J) > p + b
      BY <1>5, <1>6, <3>2
    <3>3. Min(J) = p + b + 1
      <4> DEFINE m == Min(J)
      <4>1. m \in Nat /\ m > p + b /\ m <= p + b + 1 /\ p \in Nat /\ b \in Nat
        BY <1>1, <3>2, <3>4
      <4> HIDE DEF m
      <4>2. m = p + b + 1
        BY <4>1
      <4> QED
        BY <4>2 DEF m
    <3> QED
      BY <1>1, <3>1, <3>3
  <2> QED
    BY <2>1, <2>2
<1> HIDE DEF next
<1>8. Block(A, p) = SubSeq(A, p + 1, p + b)
  BY <1>4, <1>7
<1>9. SubSeq(A, p + 1, p + b) = B
  <2>1. /\ SubSeq(A, p + 1, p + b) \in Seq(X) /\ Len(SubSeq(A, p + 1, p + b)) = b
        /\ \A i \in 1..b : SubSeq(A, p + 1, p + b)[i] = A[p + i]
    <3>1. p + 1 \in Nat /\ p + b \in Nat /\ p + 1 > 0 /\ p + b <= Len(A) /\ p + 1 <= p + b + 1
      BY <1>1
    <3>2. /\ SubSeq(A, p + 1, p + b) \in Seq(X)
          /\ Len(SubSeq(A, p + 1, p + b)) = p + b - (p + 1) + 1
          /\ \A i \in 1..p + b - (p + 1) + 1 : SubSeq(A, p + 1, p + b)[i] = A[p + 1 + i - 1]
      BY <1>1, <3>1, Piece
    <3>3. p + b - (p + 1) + 1 = b /\ \A i \in 1..b : p + 1 + i - 1 = p + i
      BY <1>1
    <3> QED
      BY <3>2, <3>3
  <2>2. \A i \in 1..b : SubSeq(A, p + 1, p + b)[i] = B[i]
    BY <1>1, <2>1
  <2> QED
    BY <2>1, <2>2, SeqEqual DEF b
<1>10. SubSeq(A, 1, p) = P
  <2>1. /\ SubSeq(A, 1, p) \in Seq(X) /\ Len(SubSeq(A, 1, p)) = p - 1 + 1
        /\ \A i \in 1..p - 1 + 1 : SubSeq(A, 1, p)[i] = A[1 + i - 1]
    <3>1. 1 \in Nat /\ 1 > 0 /\ p <= Len(A) /\ 1 <= p + 1
      BY <1>1
    <3> QED
      BY <1>1, <3>1, Piece
  <2>2. Len(SubSeq(A, 1, p)) = p /\ \A i \in 1..p : SubSeq(A, 1, p)[i] = P[i]
    <3>1. p - 1 + 1 = p /\ \A i \in 1..p : 1 + i - 1 = i
      BY <1>1
    <3> QED
      BY <1>1, <2>1, <3>1
  <2> QED
    BY <2>1, <2>2, SeqEqual DEF p
<1>11. SubSeq(A, p + b + 1, Len(A)) = R
  <2> DEFINE m == p + b + 1
             n == Len(A)
  <2>0. m \in Nat /\ n \in Nat /\ m > 0 /\ n <= Len(A) /\ m <= n + 1 /\ n - m + 1 = r
        /\ \A i \in 1..r : m + i - 1 = p + b + i
    BY <1>1
  <2>1. /\ SubSeq(A, m, n) \in Seq(X) /\ Len(SubSeq(A, m, n)) = n - m + 1
        /\ \A i \in 1..n - m + 1 : SubSeq(A, m, n)[i] = A[m + i - 1]
    <3> HIDE DEF m, n
    <3> QED
      BY <1>1, <2>0, Piece
  <2> HIDE DEF m, n
  <2>2. Len(SubSeq(A, m, n)) = r /\ \A i \in 1..r : SubSeq(A, m, n)[i] = R[i]
    BY <1>1, <2>0, <2>1
  <2>3. SubSeq(A, m, n) = R
    BY <2>1, <2>2, SeqEqual DEF r
  <2> QED
    BY <2>3 DEF m, n
<1> QED
  BY <1>3, <1>8, <1>9, <1>10, <1>11 DEF A, p, b

\* Every file that has the section is so laid out.
LEMMA Splits ==
    ASSUME NEW X, NEW A \in Seq(X), NEW s, StartOf(A, s) # 0
    PROVE  \E P, B, R \in Seq(X) : A = P \o B \o R /\ Laid(s, P, B, R)
<1> DEFINE I == {i \in 1..Len(A) : A[i] = Header(s)}
           l == Len(A)
<1>0. l \in Nat
  OBVIOUS
<1>1. PICK p \in 1..l : A[p] = Header(s) /\ \A i \in 1..p - 1 : A[i] # Header(s)
  <2>1. I # {} /\ I \subseteq Nat
    BY DEF StartOf, SelectInSeq
  <2> DEFINE p == Min(I)
  <2>2. p \in I /\ \A y \in I : p <= y
    <3> HIDE DEF I
    <3> QED
      BY <2>1, MinIs
  <2> HIDE DEF p
  <2>3. p \in 1..l /\ A[p] = Header(s) /\ \A i \in 1..p - 1 : A[i] # Header(s)
    BY <1>0, <2>2
  <2> QED
    BY <2>3
<1> DEFINE J == {i \in p + 1..l : A[i].kind = "header"}
<1>2. PICK e \in p..l : /\ \A i \in p + 1..e : A[i].kind # "header"
                        /\ e < l => A[e + 1].kind = "header"
  <2>1. CASE J = {}
    <3>1. \A i \in p + 1..l : A[i].kind # "header"
      BY <2>1
    <3> QED
      BY <1>0, <3>1
  <2>2. CASE J # {}
    <3> DEFINE q == Min(J)
    <3>1. q \in J /\ \A y \in J : q <= y
      <4>1. J \subseteq Nat
        BY <1>0
      <4> HIDE DEF J
      <4> QED
        BY <2>2, <4>1, MinIs
    <3> HIDE DEF q
    <3>2. q \in p + 1..l /\ A[q].kind = "header" /\ \A i \in p + 1..q - 1 : A[i].kind # "header"
      BY <1>0, <3>1
    <3>3. q - 1 \in p..l /\ (q - 1) + 1 = q
      BY <1>0, <3>2
    <3> QED
      BY <3>2, <3>3
  <2> QED
    BY <2>1, <2>2
<1> DEFINE P == SubSeq(A, 1, p)
           B == SubSeq(A, p + 1, e)
           R == SubSeq(A, e + 1, l)
<1>3. P \in Seq(X) /\ Len(P) = p /\ \A i \in 1..p : P[i] = A[i]
  <2>1. 1 \in Nat /\ p \in Nat /\ 1 > 0 /\ p <= Len(A) /\ 1 <= p + 1
    BY <1>0
  <2>2. /\ P \in Seq(X) /\ Len(P) = p - 1 + 1
        /\ \A i \in 1..p - 1 + 1 : P[i] = A[1 + i - 1]
    BY <2>1, Piece
  <2>3. p - 1 + 1 = p /\ \A i \in 1..p : 1 + i - 1 = i
    BY <1>0
  <2> QED
    BY <2>2, <2>3
<1>4. B \in Seq(X) /\ Len(B) = e - p /\ \A i \in 1..e - p : B[i] = A[p + i]
  <2>1. p + 1 \in Nat /\ e \in Nat /\ p + 1 > 0 /\ e <= Len(A) /\ p + 1 <= e + 1
    BY <1>0
  <2>2. /\ B \in Seq(X) /\ Len(B) = e - (p + 1) + 1
        /\ \A i \in 1..e - (p + 1) + 1 : B[i] = A[(p + 1) + i - 1]
    BY <2>1, Piece
  <2>3. e - (p + 1) + 1 = e - p /\ \A i \in 1..e - p : (p + 1) + i - 1 = p + i
    BY <1>0, SMTT(30)
  <2> QED
    BY <2>2, <2>3
<1>5. R \in Seq(X) /\ Len(R) = l - e /\ \A i \in 1..l - e : R[i] = A[e + i]
  <2>1. e + 1 \in Nat /\ l \in Nat /\ e + 1 > 0 /\ l <= Len(A) /\ e + 1 <= l + 1
    BY <1>0
  <2>2. /\ R \in Seq(X) /\ Len(R) = l - (e + 1) + 1
        /\ \A i \in 1..l - (e + 1) + 1 : R[i] = A[(e + 1) + i - 1]
    BY <2>1, Piece
  <2>3. l - (e + 1) + 1 = l - e /\ \A i \in 1..l - e : (e + 1) + i - 1 = e + i
    BY <1>0, SMTT(30)
  <2> QED
    BY <2>2, <2>3
<1>6. A = P \o B \o R
  <2>1. P \o B = SubSeq(A, 1, e)
    <3>1. 1 \in 1..Len(A) + 1 /\ p \in 1 - 1..Len(A) /\ e \in p..Len(A)
      BY <1>0
    <3> QED
      BY <3>1, ConcatAdjacentSubSeq
  <2>2. SubSeq(A, 1, e) \o R = SubSeq(A, 1, l)
    <3>1. 1 \in 1..Len(A) + 1 /\ e \in 1 - 1..Len(A) /\ l \in e..Len(A)
      BY <1>0
    <3> QED
      BY <3>1, ConcatAdjacentSubSeq
  <2>3. SubSeq(A, 1, l) = A
    BY SubSeqFull
  <2> QED
    BY <2>1, <2>2, <2>3
<1> HIDE DEF P, B, R
<1>7. Laid(s, P, B, R)
  <2>1. Len(P) > 0 /\ P[Len(P)] = Header(s) /\ \A i \in 1..Len(P) - 1 : P[i] # Header(s)
    BY <1>0, <1>1, <1>3
  <2>2. ASSUME NEW i \in 1..Len(B) PROVE B[i].kind # "header"
    <3>1. p + i \in p + 1..e /\ i \in 1..e - p
      BY <1>0, <1>4
    <3> QED
      BY <1>2, <1>4, <3>1
  <2>3. ASSUME Len(R) > 0 PROVE R[1].kind = "header"
    BY <1>0, <1>2, <1>5, <2>3
  <2> QED
    BY <2>1, <2>2, <2>3 DEF Laid
<1> QED
  BY <1>3, <1>4, <1>5, <1>6, <1>7

------------------------------------------------------------------------------
(* The lines of a section, one by one.                                     *)

\* A sequence without one of its places.
LEMMA Removed ==
    ASSUME NEW X, NEW a \in Seq(X), NEW j \in 1..Len(a)
    PROVE  /\ RemoveAt(a, j) \in Seq(X) /\ Len(RemoveAt(a, j)) = Len(a) - 1
           /\ \A i \in 1..Len(a) - 1 : RemoveAt(a, j)[i] = a[IF i < j THEN i ELSE i + 1]
<1> DEFINE l == Len(a)
           p == SubSeq(a, 1, j - 1)
           q == SubSeq(a, j + 1, l)
<1>0. l \in Nat /\ j \in Nat /\ j > 0 /\ j <= l
  OBVIOUS
<1>1. p \in Seq(X) /\ Len(p) = j - 1 /\ \A i \in 1..j - 1 : p[i] = a[i]
  <2>1. 1 \in Nat /\ j - 1 \in Nat /\ 1 > 0 /\ j - 1 <= Len(a) /\ 1 <= (j - 1) + 1
    BY <1>0
  <2>2. /\ p \in Seq(X) /\ Len(p) = (j - 1) - 1 + 1
        /\ \A i \in 1..(j - 1) - 1 + 1 : p[i] = a[1 + i - 1]
    BY <2>1, Piece
  <2>3. (j - 1) - 1 + 1 = j - 1 /\ \A i \in 1..j - 1 : 1 + i - 1 = i
    BY <1>0, SMTT(30)
  <2> QED
    BY <2>2, <2>3
<1>2. q \in Seq(X) /\ Len(q) = l - j /\ \A i \in 1..l - j : q[i] = a[j + i]
  <2>1. j + 1 \in Nat /\ l \in Nat /\ j + 1 > 0 /\ l <= Len(a) /\ j + 1 <= l + 1
    BY <1>0
  <2>2. /\ q \in Seq(X) /\ Len(q) = l - (j + 1) + 1
        /\ \A i \in 1..l - (j + 1) + 1 : q[i] = a[(j + 1) + i - 1]
    BY <2>1, Piece
  <2>3. l - (j + 1) + 1 = l - j /\ \A i \in 1..l - j : (j + 1) + i - 1 = j + i
    BY <1>0
  <2> QED
    BY <2>2, <2>3
<1>3. RemoveAt(a, j) = p \o q
  BY DEF RemoveAt
<1> HIDE DEF p, q
<1>a. p \in Seq(X) /\ q \in Seq(X)
  BY <1>1, <1>2
<1> DEFINE c == p \o q
<1>4. /\ c \in Seq(X) /\ Len(c) = Len(p) + Len(q)
      /\ \A i \in 1..Len(p) + Len(q) : c[i] = IF i <= Len(p) THEN p[i] ELSE q[i - Len(p)]
  BY <1>a, ConcatProperties
<1> HIDE DEF c, l
<1>5. Len(c) = l - 1
  BY <1>0, <1>1, <1>2, <1>4
<1>6. ASSUME NEW i \in 1..l - 1 PROVE c[i] = a[IF i < j THEN i ELSE i + 1]
  <2>1. c[i] = IF i <= j - 1 THEN p[i] ELSE q[i - (j - 1)]
    BY <1>0, <1>1, <1>2, <1>4
  <2>2. CASE i < j
    BY <1>0, <1>1, <2>1, <2>2
  <2>3. CASE ~(i < j)
    <3>1. i - (j - 1) \in 1..l - j /\ j + (i - (j - 1)) = i + 1
      BY <1>0, <2>3
    <3> QED
      BY <1>0, <1>2, <2>1, <2>3, <3>1
  <2> QED
    BY <2>2, <2>3
<1> QED
  BY <1>3, <1>4, <1>5, <1>6 DEF c, l

\* Settings without one of them are settings.
LEMMA WritableLess ==
    ASSUME NEW X, NEW kv \in Seq(X), Writable(kv), NEW j \in 1..Len(kv)
    PROVE  /\ RemoveAt(kv, j) \in Seq(X) /\ Writable(RemoveAt(kv, j))
           /\ Range(RemoveAt(kv, j)) = {x \in Range(kv) : x.name # kv[j].name}
<1> DEFINE r == RemoveAt(kv, j)
           l == Len(kv)
           At(i) == IF i < j THEN i ELSE i + 1
<1>1. l \in Nat /\ j \in 1..l /\ DOMAIN kv = 1..l
  OBVIOUS
<1>2. r \in Seq(X) /\ Len(r) = l - 1 /\ \A i \in 1..l - 1 : r[i] = kv[At(i)]
  BY Removed
<1>3. DOMAIN r = 1..l - 1
  BY <1>2
<1>4. \A i \in 1..l : kv[i].kind = "entry" /\ \A h \in 1..l : kv[i].name = kv[h].name => i = h
  BY <1>1 DEF Writable
<1> HIDE DEF r, l
<1>5. /\ \A i \in 1..l - 1 : At(i) \in 1..l /\ At(i) # j
      /\ \A i, h \in 1..l - 1 : At(i) = At(h) => i = h
      /\ \A i \in 1..l : i # j => \E h \in 1..l - 1 : At(h) = i
  <2>1. \A i \in 1..l - 1 : At(i) \in 1..l /\ At(i) # j
    BY <1>1
  <2>2. \A i, h \in 1..l - 1 : At(i) = At(h) => i = h
    BY <1>1
  <2>3. ASSUME NEW i \in 1..l, i # j PROVE \E h \in 1..l - 1 : At(h) = i
    <3>1. CASE i < j
      <4>1. i \in 1..l - 1 /\ At(i) = i
        BY <1>1, <3>1
      <4> QED
        BY <4>1
    <3>2. CASE ~(i < j)
      <4>1. i - 1 \in 1..l - 1 /\ At(i - 1) = i
        BY <1>1, <2>3, <3>2
      <4> QED
        BY <4>1
    <3> QED
      BY <3>1, <3>2
  <2> QED
    BY <2>1, <2>2, <2>3
<1> HIDE DEF At
<1>6. Writable(r)
  <2>1. ASSUME NEW i \in 1..l - 1 PROVE r[i].kind = "entry"
    BY <1>2, <1>4, <1>5
  <2>2. ASSUME NEW i \in 1..l - 1, NEW h \in 1..l - 1, r[i].name = r[h].name PROVE i = h
    <3>1. kv[At(i)].name = kv[At(h)].name /\ At(i) \in 1..l /\ At(h) \in 1..l
      BY <1>2, <1>5, <2>2
    <3>2. At(i) = At(h)
      BY <1>4, <3>1
    <3> QED
      BY <1>5, <3>2
  <2> QED
    BY <1>3, <2>1, <2>2 DEF Writable
<1>7. Range(r) = {x \in Range(kv) : x.name # kv[j].name}
  <2>1. ASSUME NEW x \in Range(r) PROVE x \in Range(kv) /\ x.name # kv[j].name
    <3>1. PICK i \in 1..l - 1 : x = r[i]
      BY <1>3, <2>1 DEF Range
    <3>2. x = kv[At(i)] /\ At(i) \in 1..l /\ At(i) # j
      BY <1>2, <1>5, <3>1
    <3> QED
      BY <1>1, <1>4, <3>2 DEF Range
  <2>2. ASSUME NEW x \in Range(kv), x.name # kv[j].name PROVE x \in Range(r)
    <3>1. PICK i \in 1..l : x = kv[i]
      BY <1>1 DEF Range
    <3>2. PICK h \in 1..l - 1 : At(h) = i
      BY <1>5, <2>2, <3>1
    <3>3. r[h] = x
      BY <1>2, <3>1, <3>2
    <3> QED
      BY <1>3, <3>3 DEF Range
  <2> QED
    BY <2>1, <2>2
<1> QED
  BY <1>2, <1>6, <1>7 DEF r

\* What replacing a line adds to what was written, and leaves to be written.
Replaced(out, rem, line, new, left) ==
    LET hit == line.kind = "entry" /\ \E x \in Range(rem) : x.name = line.name
    IN  /\ ReplaceLine([out |-> out, remaining |-> rem], line)
             = [out |-> Append(out, new), remaining |-> left]
        /\ Writable(left)
        /\ hit => /\ new \in Range(rem) /\ new.name = line.name
                  /\ Range(left) = {x \in Range(rem) : x.name # line.name}
        /\ ~hit => new = line /\ left = rem

\* A line whose key is still to be written takes the setting's place; another stays.
LEMMA LineReplaced ==
    ASSUME NEW X, NEW out \in Seq(X), NEW rem \in Seq(X), Writable(rem), NEW line \in X
    PROVE  \E new \in X, left \in Seq(X) : Replaced(out, rem, line, new, left)
<1> DEFINE acc == [out |-> out, remaining |-> rem]
           I == {i \in 1..Len(rem) : rem[i].name = line.name}
           pos == IF I # {} THEN Min(I) ELSE 0
           hit == line.kind = "entry" /\ \E x \in Range(rem) : x.name = line.name
<1>0. Len(rem) \in Nat /\ DOMAIN rem = 1..Len(rem)
  OBVIOUS
<1>1. ReplaceLine(acc, line) =
        IF line.kind = "entry" /\ pos # 0
        THEN [out |-> Append(out, rem[pos]), remaining |-> RemoveAt(rem, pos)]
        ELSE [out |-> Append(out, line), remaining |-> rem]
  <2>1. acc.remaining = rem /\ acc.out = out
    OBVIOUS
  <2> HIDE DEF acc
  <2>2. ReplaceLine(acc, line) =
          IF line.kind = "entry" /\ pos # 0
          THEN [out |-> Append(acc.out, acc.remaining[pos]),
                remaining |-> RemoveAt(acc.remaining, pos)]
          ELSE [out |-> Append(acc.out, line), remaining |-> acc.remaining]
    BY <2>1, Zenon DEF ReplaceLine, SelectInSeq
  <2> QED
    BY <2>1, <2>2, Zenon
<1>2. I # {} <=> \E x \in Range(rem) : x.name = line.name
  BY <1>0 DEF Range
<1>3. I # {} => pos \in I /\ pos # 0
  <2>1. I \subseteq Nat /\ \A i \in I : i # 0
    BY <1>0
  <2> HIDE DEF I
  <2> QED
    BY <2>1, MinIs
<1>4. CASE hit
  <2>1. pos \in 1..Len(rem) /\ rem[pos].name = line.name /\ pos # 0
    BY <1>2, <1>3, <1>4
  <2> HIDE DEF pos
  <2>2. /\ RemoveAt(rem, pos) \in Seq(X) /\ Writable(RemoveAt(rem, pos))
        /\ Range(RemoveAt(rem, pos)) = {x \in Range(rem) : x.name # rem[pos].name}
    BY <2>1, WritableLess
  <2>3. ReplaceLine(acc, line) = [out |-> Append(out, rem[pos]), remaining |-> RemoveAt(rem, pos)]
    BY <1>1, <1>4, <2>1
  <2>4. rem[pos] \in X /\ rem[pos] \in Range(rem)
    BY <1>0, <2>1 DEF Range
  <2>5. Replaced(out, rem, line, rem[pos], RemoveAt(rem, pos))
    BY <1>4, <2>1, <2>2, <2>3, <2>4 DEF Replaced
  <2> QED
    BY <2>2, <2>4, <2>5
<1>5. CASE ~hit
  <2>1. ReplaceLine(acc, line) = [out |-> Append(out, line), remaining |-> rem]
    <3>1. ~(line.kind = "entry" /\ pos # 0)
      BY <1>2, <1>5
    <3> HIDE DEF pos
    <3> QED
      BY <1>1, <3>1
  <2>2. Replaced(out, rem, line, line, rem)
    BY <1>5, <2>1 DEF Replaced
  <2> QED
    BY <2>2
<1> QED
  BY <1>4, <1>5

\* Line i is the first of its section with its key, and that key is to be written.
First(lines, kv, i) ==
    /\ lines[i].kind = "entry" /\ \E x \in Range(kv) : x.name = lines[i].name
    /\ \A h \in 1..i - 1 : ~IsEntry(lines[h], {lines[i].name})

Rewritten(line, lines, kv, i) ==
    IF First(lines, kv, i) THEN line \in Range(kv) /\ line.name = lines[i].name
    ELSE line = lines[i]

\* The first n lines of a section, edited, and what is left to be written.
IsEdit(X, lines, kv, n, e) ==
    /\ e = [out |-> e.out, remaining |-> e.remaining]
    /\ e.out \in Seq(X) /\ Len(e.out) = n
    /\ e.remaining \in Seq(X) /\ Writable(e.remaining)
    /\ Range(e.remaining) = {x \in Range(kv) : \A h \in 1..n : ~IsEntry(lines[h], {x.name})}
    /\ \A i \in 1..n : Rewritten(e.out[i], lines, kv, i)

\* One more line is edited.
LEMMA EditOne ==
    ASSUME NEW X, NEW lines \in Seq(X), NEW kv \in Seq(X), Writable(kv),
           NEW n \in 1..Len(lines), NEW e, IsEdit(X, lines, kv, n - 1, e)
    PROVE  IsEdit(X, lines, kv, n, ReplaceLine(e, lines[n]))
<1> DEFINE out == e.out
           rem == e.remaining
           line == lines[n]
           hit == line.kind = "entry" /\ \E x \in Range(rem) : x.name = line.name
<1>1. /\ e = [out |-> out, remaining |-> rem]
      /\ out \in Seq(X) /\ Len(out) = n - 1 /\ rem \in Seq(X) /\ Writable(rem)
      /\ Range(rem) = {x \in Range(kv) : \A h \in 1..n - 1 : ~IsEntry(lines[h], {x.name})}
      /\ \A i \in 1..n - 1 : Rewritten(out[i], lines, kv, i)
      /\ line \in X /\ n \in Nat /\ n > 0
  BY DEF IsEdit
<1> HIDE DEF out, rem, line
<1>2. PICK new \in X, left \in Seq(X) :
         /\ ReplaceLine(e, line) = [out |-> Append(out, new), remaining |-> left]
         /\ Writable(left)
         /\ hit => /\ new \in Range(rem) /\ new.name = line.name
                   /\ Range(left) = {x \in Range(rem) : x.name # line.name}
         /\ ~hit => new = line /\ left = rem
  <2>1. \E new \in X, left \in Seq(X) : Replaced(out, rem, line, new, left)
    BY <1>1, LineReplaced
  <2> QED
    BY <1>1, <2>1 DEF Replaced
<1>3. hit <=> First(lines, kv, n)
  BY <1>1 DEF First, line
<1> DEFINE all == Append(out, new)
           d == [out |-> all, remaining |-> left]
<1>4. all \in Seq(X) /\ Len(all) = n /\ all[n] = new /\ \A i \in 1..n - 1 : all[i] = out[i]
  BY <1>1, <1>2
<1> HIDE DEF all
<1>5. ASSUME NEW i \in 1..n PROVE Rewritten(all[i], lines, kv, i)
  <2>1. CASE i = n
    <3>1. hit => new \in Range(kv)
      BY <1>1, <1>2
    <3> HIDE DEF hit
    <3> QED
      BY <1>2, <1>3, <1>4, <2>1, <3>1 DEF Rewritten, line
  <2>2. CASE i # n
    <3>1. i \in 1..n - 1
      BY <1>1, <2>2
    <3> QED
      BY <1>1, <1>4, <3>1
  <2> QED
    BY <2>1, <2>2
<1>6. Range(left) = {x \in Range(kv) : \A h \in 1..n : ~IsEntry(lines[h], {x.name})}
  <2>0. \A x : (\A h \in 1..n : ~IsEntry(lines[h], {x.name}))
                <=> (\A h \in 1..n - 1 : ~IsEntry(lines[h], {x.name})) /\ ~IsEntry(line, {x.name})
    <3>1. 1..n = (1..n - 1) \cup {n}
      BY <1>1
    <3> QED
      BY <3>1 DEF line
  <2>1. \A x : x \in Range(left) <=> x \in Range(rem) /\ ~IsEntry(line, {x.name})
    <3>1. CASE hit
      <4>1. line.kind = "entry" /\ Range(left) = {x \in Range(rem) : x.name # line.name}
        BY <1>2, <3>1
      <4> QED
        BY <4>1 DEF IsEntry
    <3>2. CASE ~hit
      <4>1. left = rem
        BY <1>2, <3>2
      <4>2. \A x \in Range(rem) : ~IsEntry(line, {x.name})
        BY <3>2 DEF IsEntry
      <4> QED
        BY <4>1, <4>2
    <3> QED
      BY <3>1, <3>2
  <2>2. \A x : x \in Range(rem) <=>
                 x \in Range(kv) /\ \A h \in 1..n - 1 : ~IsEntry(lines[h], {x.name})
    BY <1>1
  <2> QED
    BY <2>0, <2>1, <2>2, Zenon
<1>7. d.out = all /\ d.remaining = left /\ ReplaceLine(e, line) = d
  BY <1>2 DEF all
<1> HIDE DEF d
<1>8. IsEdit(X, lines, kv, n, d)
  <2>1. d = [out |-> d.out, remaining |-> d.remaining]
    BY <1>7 DEF d
  <2> QED
    BY <1>2, <1>4, <1>5, <1>6, <1>7, <2>1 DEF IsEdit
<1> QED
  BY <1>7, <1>8 DEF line

\* The lines of a section, edited one by one, are all edited in the end.
LEMMA LinesEdited ==
    ASSUME NEW X, NEW lines \in Seq(X), NEW kv \in Seq(X), Writable(kv)
    PROVE  IsEdit(X, lines, kv, Len(lines), EditLines(lines, kv))
<1> DEFINE Goes(before, n) == ReplaceLine(before, lines[n])
           start == [out |-> <<>>, remaining |-> kv]
           Summed(f, k) == f = [n \in 0..k |-> IF n = 0 THEN start ELSE Goes(f[n - 1], n)]
           T == {k \in 0..Len(lines) : \E f : Summed(f, k)}
           F == CHOOSE f : Summed(f, Len(lines))
<1>0. Len(lines) \in Nat
  OBVIOUS
<1>1. EditLines(lines, kv) = F[Len(lines)]
  BY DEF EditLines
<1>2. IsEdit(X, lines, kv, 0, start)
  <2>1. start.out = <<>> /\ start.remaining = kv /\ \A h : h \notin 1..0
    OBVIOUS
  <2>2. Range(kv) = {x \in Range(kv) : \A h \in 1..0 : ~IsEntry(lines[h], {x.name})}
    BY <2>1
  <2> QED
    BY <2>1, <2>2 DEF IsEdit
<1>3. ASSUME NEW n \in 1..Len(lines), NEW e, IsEdit(X, lines, kv, n - 1, e)
      PROVE  IsEdit(X, lines, kv, n, Goes(e, n))
  BY <1>3, EditOne
<1> HIDE DEF Goes, F, start
<1>4. \E f : Summed(f, 0)
  <2>1. Summed([n \in 0..0 |-> start], 0)
    OBVIOUS
  <2> QED
    BY <2>1
<1>5. ASSUME NEW k \in 1..Len(lines), NEW f, Summed(f, k - 1) PROVE \E g : Summed(g, k)
  <2> DEFINE g == [n \in 0..k |-> IF n = k THEN Goes(f[k - 1], k) ELSE f[n]]
  <2>1. ASSUME NEW n \in 0..k
        PROVE  g[n] = IF n = 0 THEN start ELSE Goes(g[n - 1], n)
    <3>1. CASE n = k
      BY <3>1
    <3>2. CASE n # k
      <4>1. n \in 0..k - 1 /\ (n # 0 => n - 1 \in 0..k /\ n - 1 # k)
        BY <3>2
      <4>2. f[n] = IF n = 0 THEN start ELSE Goes(f[n - 1], n)
        BY <1>5, <4>1
      <4> QED
        BY <3>2, <4>1, <4>2
    <3> QED
      BY <3>1, <3>2
  <2>2. Summed(g, k)
    BY <2>1
  <2> QED
    BY <2>2
<1>6. \E f : Summed(f, Len(lines))
  <2> HIDE DEF Summed
  <2>1. 0 \in T /\ \A k \in 1..Len(lines) : k - 1 \in T => k \in T
    BY <1>0, <1>4, <1>5
  <2>2. 0..Len(lines) \subseteq T
    <3> HIDE DEF T
    <3> QED
      BY <1>0, <2>1, UpTo
  <2>3. Len(lines) \in T
    BY <1>0, <2>2
  <2> QED
    BY <2>3
<1>7. Summed(F, Len(lines))
  BY <1>6 DEF F
<1>8. F[0] = start /\ \A n \in 1..Len(lines) : F[n] = Goes(F[n - 1], n)
  <2>1. \A n \in 1..Len(lines) : n \in 0..Len(lines) /\ n # 0
    BY <1>0
  <2> QED
    BY <1>0, <1>7, <2>1
<1> HIDE DEF Summed
<1> DEFINE U == {n \in 0..Len(lines) : IsEdit(X, lines, kv, n, F[n])}
<1>9. 0 \in U
  BY <1>0, <1>2, <1>8
<1>10. ASSUME NEW n \in 1..Len(lines), n - 1 \in U PROVE n \in U
  <2>1. IsEdit(X, lines, kv, n - 1, F[n - 1])
    BY <1>10
  <2>2. IsEdit(X, lines, kv, n, Goes(F[n - 1], n))
    BY <1>3, <2>1
  <2> QED
    BY <1>0, <1>8, <2>2
<1>11. 0..Len(lines) \subseteq U
  <2> HIDE DEF U
  <2> QED
    BY <1>0, <1>9, <1>10, UpTo
<1> QED
  BY <1>0, <1>1, <1>11

------------------------------------------------------------------------------
(* A section with its settings.                                            *)

\* If one line is taken, it is all that is.
LEMMA PartOne ==
    ASSUME NEW X, NEW a \in Seq(X), NEW keys, NEW which, NEW i \in 1..Len(a),
           Taken(a[i], keys, which),
           \A j \in 1..Len(a) : j # i => ~Taken(a[j], keys, which)
    PROVE  Len(Part(a, keys, which)) = 1
<1>10. PICK f : Sums(X, a, keys, which, f)
  BY PartAdds
<1>1. /\ Takes(a, keys, which, f)
      /\ \A n \in 0..Len(a) : f[n] \in Seq(X)
      /\ Part(a, keys, which) = f[Len(a)]
  BY <1>10 DEF Sums
<1> DEFINE l == Len(a)
           Good(n) == Len(f[n]) = IF n < i THEN 0 ELSE 1
           T == {n \in 0..l : Good(n)}
<1>0. l \in Nat /\ i \in 1..l
  OBVIOUS
<1>2. Good(0)
  BY <1>0, <1>1 DEF Takes
<1>3. ASSUME NEW n \in 1..l, Good(n - 1) PROVE Good(n)
  <2>1. f[n - 1] \in Seq(X) /\ a[n] \in X
    BY <1>0, <1>1
  <2>2. f[n] = IF Taken(a[n], keys, which) THEN Append(f[n - 1], a[n]) ELSE f[n - 1]
    BY <1>1 DEF Takes
  <2>3. CASE n = i
    <3>1. f[n] = Append(f[n - 1], a[n]) /\ Len(f[n - 1]) = 0
      BY <1>0, <1>3, <2>2, <2>3
    <3> QED
      BY <2>1, <2>3, <3>1
  <2>4. CASE n # i
    <3>1. f[n] = f[n - 1]
      BY <2>2, <2>4
    <3>2. n - 1 < i <=> n < i
      BY <1>0, <2>4
    <3> QED
      BY <1>3, <3>1, <3>2
  <2> QED
    BY <2>3, <2>4
<1> HIDE DEF Good
<1>4. 0..l \subseteq T
  <2>1. 0 \in T /\ \A n \in 1..l : n - 1 \in T => n \in T
    BY <1>0, <1>2, <1>3
  <2> HIDE DEF T, l
  <2> QED
    BY <1>0, <2>1, UpTo
<1>5. Good(l)
  BY <1>0, <1>4
<1>6. ~(l < i)
  BY <1>0
<1> QED
  BY <1>1, <1>5, <1>6 DEF Good

\* Settings with the same key are the same.
LEMMA OneSetting ==
    ASSUME NEW kv, Writable(kv), NEW x \in Range(kv), NEW y \in Range(kv), x.name = y.name
    PROVE  x = y /\ x.kind = "entry"
BY DEF Writable, Range

\* Edited lines keep their keys and headers, and only those of the settings change.
LEMMA Touched ==
    ASSUME NEW X, NEW lines \in Seq(X), NEW kv \in Seq(X), Writable(kv), NEW e,
           IsEdit(X, lines, kv, Len(lines), e), NEW i \in 1..Len(lines)
    PROVE  /\ \A keys : IsEntry(e.out[i], keys) <=> IsEntry(lines[i], keys)
           /\ e.out[i].kind = "header" <=> lines[i].kind = "header"
           /\ e.out[i] # lines[i] => e.out[i] \in Range(kv)
<1>1. Rewritten(e.out[i], lines, kv, i)
  BY DEF IsEdit
<1>2. CASE First(lines, kv, i)
  <2>1. /\ e.out[i] \in Range(kv) /\ e.out[i].name = lines[i].name /\ lines[i].kind = "entry"
        /\ \A h \in 1..i - 1 : ~IsEntry(lines[h], {lines[i].name})
    BY <1>1, <1>2 DEF Rewritten, First
  <2>2. e.out[i].kind = "entry"
    BY <2>1, OneSetting
  <2> QED
    BY <2>1, <2>2 DEF IsEntry
<1>3. CASE ~First(lines, kv, i)
  <2>1. e.out[i] = lines[i]
    BY <1>1, <1>3 DEF Rewritten
  <2> QED
    BY <2>1
<1> QED
  BY <1>2, <1>3

\* The lines of a section after an edit.
Result(e) == e.out \o e.remaining

\* What the edited section is: its lines, and then the settings that had no line.
LEMMA ResultIs ==
    ASSUME NEW X, NEW lines \in Seq(X), NEW kv \in Seq(X), Writable(kv), NEW e,
           IsEdit(X, lines, kv, Len(lines), e)
    PROVE  /\ e.out \in Seq(X) /\ Len(e.out) = Len(lines) /\ e.remaining \in Seq(X)
           /\ Result(e) \in Seq(X) /\ Len(Result(e)) = Len(lines) + Len(e.remaining)
           /\ \A i \in 1..Len(lines) : Result(e)[i] = e.out[i]
           /\ \A i \in 1..Len(e.remaining) : Result(e)[Len(lines) + i] = e.remaining[i]
           /\ \A i \in 1..Len(e.remaining) : /\ e.remaining[i] \in Range(e.remaining)
                                             /\ e.remaining[i] \in Range(kv)
                                             /\ e.remaining[i].kind = "entry"
<1>1. /\ e.out \in Seq(X) /\ Len(e.out) = Len(lines) /\ e.remaining \in Seq(X)
      /\ Range(e.remaining) \subseteq Range(kv) /\ Writable(e.remaining)
  BY DEF IsEdit
<1> DEFINE o == e.out
           m == e.remaining
           l == Len(lines)
           k == Len(m)
<1>2. o \in Seq(X) /\ m \in Seq(X) /\ Len(o) = l /\ l \in Nat /\ k \in Nat
  BY <1>1
<1> HIDE DEF o, m, l
<1>3. /\ o \o m \in Seq(X) /\ Len(o \o m) = Len(o) + Len(m)
      /\ \A i \in 1..Len(o) + Len(m) : (o \o m)[i] = IF i <= Len(o) THEN o[i] ELSE m[i - Len(o)]
  BY <1>2, ConcatProperties
<1> DEFINE c == o \o m
<1> HIDE DEF c, k
<1>4. \A i \in 1..l : c[i] = o[i]
  BY <1>2, <1>3 DEF c, k
<1>5. ASSUME NEW i \in 1..k PROVE c[l + i] = m[i]
  <2>1. l + i \in 1..l + k /\ ~(l + i <= l) /\ (l + i) - l = i
    BY <1>2
  <2> QED
    BY <1>2, <1>3, <2>1 DEF c, k
<1>6. \A i \in 1..k : m[i] \in Range(m) /\ m[i] \in Range(kv) /\ m[i].kind = "entry"
  <2>1. DOMAIN m = 1..k
    BY <1>2 DEF k
  <2>2. ASSUME NEW i \in 1..k PROVE m[i] \in Range(m)
    BY <2>1 DEF Range
  <2> QED
    BY <1>1, <2>2, OneSetting DEF m
<1> QED
  BY <1>1, <1>2, <1>3, <1>4, <1>5, <1>6 DEF Result, c, o, m, l, k

\* What is not an entry of the settings' keys stays, in its order.
LEMMA OthersStay ==
    ASSUME NEW X, NEW lines \in Seq(X), NEW kv \in Seq(X), Writable(kv), NEW e,
           IsEdit(X, lines, kv, Len(lines), e),
           NEW keys, \A x \in Range(kv) : x.name \in keys
    PROVE  Without(Result(e), keys) = Without(lines, keys)
<1>1. /\ e.out \in Seq(X) /\ Len(e.out) = Len(lines) /\ e.remaining \in Seq(X)
      /\ \A i \in 1..Len(e.remaining) : /\ e.remaining[i] \in Range(kv)
                                        /\ e.remaining[i].kind = "entry"
  BY ResultIs
<1>2. Part(e.out, keys, "out") = Part(lines, keys, "out")
  <2>1. ASSUME NEW i \in 1..Len(e.out)
        PROVE  IsEntry(e.out[i], keys) <=> IsEntry(lines[i], keys)
    <3>1. i \in 1..Len(lines)
      BY <1>1
    <3> QED
      BY <3>1, Touched, Zenon
  <2>2. ASSUME NEW i \in 1..Len(e.out), ~IsEntry(e.out[i], keys)
        PROVE  e.out[i] = lines[i]
    <3>1. e.out[i] \in Range(kv) => IsEntry(e.out[i], keys)
      BY OneSetting DEF IsEntry
    <3>2. i \in 1..Len(lines)
      BY <1>1
    <3>3. e.out[i] # lines[i] => e.out[i] \in Range(kv)
      BY <3>2, Touched, Zenon
    <3> QED
      BY <2>2, <3>1, <3>3
  <2> DEFINE o == e.out
  <2>3. /\ o \in Seq(X) /\ Len(o) = Len(lines)
        /\ \A i \in 1..Len(o) : Taken(o[i], keys, "out") <=> Taken(lines[i], keys, "out")
        /\ \A i \in 1..Len(o) : Taken(o[i], keys, "out") => o[i] = lines[i]
    BY <1>1, <2>1, <2>2 DEF Taken
  <2> HIDE DEF o
  <2>4. Part(o, keys, "out") = Part(lines, keys, "out")
    BY <2>3, PartSame, SMTT(30)
  <2> QED
    BY <2>4 DEF o
<1>3. Part(e.remaining, keys, "out") = <<>>
  <2>1. \A i \in 1..Len(e.remaining) : IsEntry(e.remaining[i], keys)
    BY <1>1 DEF IsEntry
  <2> QED
    BY <1>1, <2>1, PartFirst DEF Taken
<1>4. Part(e.out \o e.remaining, keys, "out")
        = Part(e.out, keys, "out") \o Part(e.remaining, keys, "out")
  <2> DEFINE o == e.out
             m == e.remaining
  <2>1. o \in Seq(X) /\ m \in Seq(X)
    BY <1>1
  <2> HIDE DEF o, m
  <2>2. Part(o \o m, keys, "out") = Part(o, keys, "out") \o Part(m, keys, "out")
    BY <2>1, PartJoin, SMTT(30)
  <2> QED
    BY <2>2 DEF o, m
<1>5. Part(lines, keys, "out") \o <<>> = Part(lines, keys, "out")
  BY PartType, ConcatEmptySeq
<1> QED
  BY <1>2, <1>3, <1>4, <1>5 DEF Without, Result

\* Every setting is there, and no entry of its key comes before it.
LEMMA SettingFirst ==
    ASSUME NEW X, NEW lines \in Seq(X), NEW kv \in Seq(X), Writable(kv), NEW e,
           IsEdit(X, lines, kv, Len(lines), e), NEW x \in Range(kv)
    PROVE  \E p \in 1..Len(Result(e)) :
              /\ Result(e)[p] = x
              /\ \A h \in 1..p - 1 : ~IsEntry(Result(e)[h], {x.name})
<1> DEFINE l == Len(lines)
           k == Len(e.remaining)
           B == Result(e)
           has(i) == IsEntry(lines[i], {x.name})
           I == {i \in 1..l : has(i)}
<1>0. l \in Nat /\ k \in Nat /\ x.kind = "entry"
  <2>1. e.remaining \in Seq(X)
    BY ResultIs
  <2> QED
    BY <2>1, OneSetting
<1>1. /\ Len(B) = l + k
      /\ \A i \in 1..l : B[i] = e.out[i]
      /\ \A i \in 1..k : B[l + i] = e.remaining[i]
      /\ \A i \in 1..k : e.remaining[i] \in Range(kv)
  BY ResultIs
<1>2. ASSUME NEW i \in 1..l PROVE IsEntry(B[i], {x.name}) <=> has(i)
  <2>1. IsEntry(e.out[i], {x.name}) <=> IsEntry(lines[i], {x.name})
    BY Touched, Zenon
  <2> QED
    BY <1>1, <2>1, Zenon
<1>3. /\ Range(e.remaining) = {y \in Range(kv) : \A h \in 1..l : ~IsEntry(lines[h], {y.name})}
      /\ Writable(e.remaining) /\ DOMAIN e.remaining = 1..k
      /\ \A i \in 1..l : Rewritten(e.out[i], lines, kv, i)
  BY ResultIs DEF IsEdit
<1> HIDE DEF has, l, k, B
<1>4. CASE I # {}
  <2> DEFINE p == Min(I)
  <2>1. p \in I /\ \A i \in I : p <= i
    <3>1. I \subseteq Nat
      BY <1>0
    <3> HIDE DEF I
    <3> QED
      BY <1>4, <3>1, MinIs
  <2> HIDE DEF p
  <2>2. p \in 1..l /\ has(p) /\ \A h \in 1..p - 1 : h \in 1..l /\ ~has(h)
    BY <1>0, <2>1
  <2>3. lines[p].kind = "entry" /\ lines[p].name = x.name
    BY <2>2 DEF has, IsEntry
  <2>4. First(lines, kv, p)
    BY <2>2, <2>3 DEF First, has
  <2>5. e.out[p] = x
    <3>1. e.out[p] \in Range(kv) /\ e.out[p].name = x.name
      BY <1>3, <2>2, <2>3, <2>4 DEF Rewritten
    <3> QED
      BY <3>1, OneSetting
  <2>6. p \in 1..Len(B) /\ B[p] = x /\ \A h \in 1..p - 1 : ~IsEntry(B[h], {x.name})
    <3>1. p \in 1..Len(B) /\ B[p] = x
      BY <1>0, <1>1, <2>2, <2>5
    <3>2. ASSUME NEW h \in 1..p - 1 PROVE ~IsEntry(B[h], {x.name})
      <4>1. (IsEntry(B[h], {x.name}) <=> has(h)) /\ ~has(h)
        BY <1>2, <2>2
      <4> QED
        BY <4>1, Zenon
    <3> QED
      BY <3>1, <3>2
  <2> QED
    BY <2>6 DEF B
<1>5. CASE I = {}
  <2>1. x \in Range(e.remaining)
    BY <1>3, <1>5 DEF has
  <2>2. PICK i \in 1..k : e.remaining[i] = x
    BY <1>3, <2>1 DEF Range
  <2> DEFINE p == l + i
  <2>3. p \in 1..Len(B) /\ B[p] = x
    BY <1>0, <1>1, <2>2
  <2>4. ASSUME NEW h \in 1..p - 1 PROVE ~IsEntry(B[h], {x.name})
    <3>1. CASE h <= l
      <4>1. h \in 1..l
        BY <1>0, <3>1
      <4> QED
        BY <1>2, <1>5, <4>1
    <3>2. CASE ~(h <= l)
      <4> DEFINE g == h - l
      <4>1. g \in 1..k /\ g # i /\ l + g = h
        BY <1>0, <3>2
      <4> HIDE DEF g
      <4>2. B[h] = e.remaining[g]
        BY <1>1, <4>1
      <4>3. e.remaining[g].name # e.remaining[i].name
        BY <1>3, <4>1 DEF Writable
      <4> QED
        BY <2>2, <4>2, <4>3 DEF IsEntry
    <3> QED
      BY <3>1, <3>2
  <2> QED
    BY <2>3, <2>4 DEF B
<1> QED
  BY <1>4, <1>5

\* So a reader finds it first, with a line of its own only if its key had none.
LEMMA SettingRead ==
    ASSUME NEW X, NEW lines \in Seq(X), NEW kv \in Seq(X), Writable(kv), NEW e,
           IsEdit(X, lines, kv, Len(lines), e), NEW x \in Range(kv)
    PROVE  LET new == Entries(Result(e), {x.name})
               old == Len(Entries(lines, {x.name}))
           IN  /\ new # <<>> /\ Head(new) = x
               /\ Len(new) = IF old = 0 THEN 1 ELSE old
<1> DEFINE ks == {x.name}
           B == Result(e)
<1>1. /\ e.out \in Seq(X) /\ Len(e.out) = Len(lines) /\ e.remaining \in Seq(X) /\ B \in Seq(X)
      /\ \A i \in 1..Len(e.remaining) : /\ e.remaining[i] \in Range(e.remaining)
                                        /\ e.remaining[i] \in Range(kv)
                                        /\ e.remaining[i].kind = "entry"
  BY ResultIs
<1>2. Entries(B, ks) # <<>> /\ Head(Entries(B, ks)) = x
  <2>1. PICK p \in 1..Len(B) : B[p] = x /\ \A h \in 1..p - 1 : ~IsEntry(B[h], ks)
    BY SettingFirst
  <2>2. IsEntry(B[p], ks)
    BY <2>1, OneSetting DEF IsEntry
  <2>3. \A h \in 1..p - 1 : ~IsEntry(B[h], ks)
    BY <2>1
  <2> HIDE DEF B, ks
  <2>4. Part(B, ks, "in") # <<>> /\ Head(Part(B, ks, "in")) = B[p]
    BY <1>1, <2>2, <2>3, PartFirst DEF Taken
  <2> QED
    BY <2>1, <2>4 DEF Entries
<1>3. /\ Part(B, ks, "in") = Part(e.out, ks, "in") \o Part(e.remaining, ks, "in")
      /\ Part(e.out, ks, "in") \in Seq(X) /\ Part(e.remaining, ks, "in") \in Seq(X)
  <2> HIDE DEF ks, B
  <2>1. Part(e.out \o e.remaining, ks, "in") = Part(e.out, ks, "in") \o Part(e.remaining, ks, "in")
    <3> DEFINE o == e.out
               m == e.remaining
    <3>1. o \in Seq(X) /\ m \in Seq(X)
      BY <1>1
    <3> HIDE DEF o, m
    <3>2. Part(o \o m, ks, "in") = Part(o, ks, "in") \o Part(m, ks, "in")
      BY <3>1, PartJoin, SMTT(30)
    <3> QED
      BY <3>2 DEF o, m
  <2>2. Part(e.out, ks, "in") \in Seq(X) /\ Part(e.remaining, ks, "in") \in Seq(X)
    BY <1>1, PartType
  <2> QED
    BY <2>1, <2>2 DEF Result, B
<1> HIDE DEF ks, B
<1>4. Len(Part(B, ks, "in")) = Len(Part(e.out, ks, "in")) + Len(Part(e.remaining, ks, "in"))
  BY <1>3
<1>5. Len(Part(e.out, ks, "in")) = Len(Part(lines, ks, "in"))
  <2>1. ASSUME NEW i \in 1..Len(e.out)
        PROVE  IsEntry(e.out[i], ks) <=> IsEntry(lines[i], ks)
    <3>1. i \in 1..Len(lines)
      BY <1>1
    <3> QED
      BY <3>1, Touched, Zenon
  <2> DEFINE o == e.out
  <2>3. /\ o \in Seq(X) /\ Len(o) = Len(lines)
        /\ \A i \in 1..Len(o) : Taken(o[i], ks, "in") <=> Taken(lines[i], ks, "in")
    BY <1>1, <2>1 DEF Taken
  <2> HIDE DEF o
  <2>4. Len(Part(o, ks, "in")) = Len(Part(lines, ks, "in"))
    BY <2>3, PartSame
  <2> QED
    BY <2>4 DEF o
<1>6. Range(e.remaining) = {y \in Range(kv) : \A h \in 1..Len(lines) : ~IsEntry(lines[h], {y.name})}
      /\ Writable(e.remaining) /\ DOMAIN e.remaining = 1..Len(e.remaining)
  BY <1>1 DEF IsEdit
<1>a. Len(Part(lines, ks, "in")) \in Nat /\ Part(lines, ks, "in") \in Seq(X)
  <2>1. Part(lines, ks, "in") \in Seq(X)
    BY PartType
  <2> QED
    BY <2>1
<1>7. CASE \E h \in 1..Len(lines) : IsEntry(lines[h], ks)
  <2>1. \A i \in 1..Len(e.remaining) : ~IsEntry(e.remaining[i], ks)
    <3> SUFFICES ASSUME NEW i \in 1..Len(e.remaining), IsEntry(e.remaining[i], ks) PROVE FALSE
      OBVIOUS
    <3>1. e.remaining[i] = x
      BY <1>1, OneSetting DEF IsEntry, ks
    <3> QED
      BY <1>1, <1>6, <1>7, <3>1 DEF ks
  <2>2. Part(e.remaining, ks, "in") = <<>>
    BY <1>1, <2>1, PartFirst DEF Taken
  <2>3. Len(Part(lines, ks, "in")) # 0
    <3> DEFINE I == {i \in 1..Len(lines) : IsEntry(lines[i], ks)}
               p == Min(I)
    <3>1. p \in I /\ \A i \in I : p <= i
      <4>0. Len(lines) \in Nat
        OBVIOUS
      <4>1. I \subseteq Nat /\ I # {}
        BY <1>7, <4>0
      <4> HIDE DEF I
      <4> QED
        BY <4>1, MinIs
    <3> HIDE DEF p
    <3>2. p \in 1..Len(lines) /\ IsEntry(lines[p], ks)
      BY <3>1 DEF IsEntry
    <3>3. ASSUME NEW h \in 1..p - 1 PROVE ~IsEntry(lines[h], ks)
      <4>1. h \in 1..Len(lines) /\ ~(p <= h)
        BY <3>2
      <4> QED
        BY <3>1, <4>1
    <3>4. Part(lines, ks, "in") # <<>>
      BY <3>2, <3>3, PartFirst DEF Taken
    <3> QED
      BY <1>a, <3>4
  <2>4. Len(Part(e.remaining, ks, "in")) = 0
    BY <2>2
  <2>5. Len(Part(B, ks, "in")) = Len(Part(lines, ks, "in"))
    BY <1>4, <1>5, <1>a, <2>4
  <2> QED
    BY <1>2, <2>3, <2>5 DEF Entries, ks, B
<1>8. CASE ~\E h \in 1..Len(lines) : IsEntry(lines[h], ks)
  <2>1. Part(lines, ks, "in") = <<>>
    <3>1. \A h \in 1..Len(lines) : ~IsEntry(lines[h], ks)
      BY <1>8
    <3> QED
      BY <3>1, PartFirst DEF Taken
  <2>2. PICK i \in 1..Len(e.remaining) : e.remaining[i] = x
    <3>1. x \in Range(e.remaining)
      BY <1>6, <1>8 DEF ks
    <3> QED
      BY <1>6, <3>1 DEF Range
  <2>3. IsEntry(e.remaining[i], ks)
    BY <1>1, <2>2 DEF IsEntry, ks
  <2>4. ASSUME NEW j \in 1..Len(e.remaining), j # i PROVE ~IsEntry(e.remaining[j], ks)
    <3>1. e.remaining[j].name # e.remaining[i].name
      BY <1>6, <2>4 DEF Writable
    <3> QED
      BY <2>2, <3>1 DEF IsEntry, ks
  <2>5. Len(Part(e.remaining, ks, "in")) = 1
    BY <1>1, <2>3, <2>4, PartOne DEF Taken
  <2>6. Len(Part(lines, ks, "in")) = 0
    BY <2>1
  <2>7. Len(Part(B, ks, "in")) = 1
    BY <1>4, <1>5, <2>5, <2>6
  <2> QED
    BY <1>2, <2>6, <2>7 DEF Entries, ks, B
<1> QED
  BY <1>7, <1>8

------------------------------------------------------------------------------
(* A file with its settings.                                               *)

\* Joining sequences is associative.
LEMMA Joined ==
    ASSUME NEW X, NEW f \in Seq(X), NEW g \in Seq(X), NEW h \in Seq(X)
    PROVE  (f \o g) \o h = f \o (g \o h)
BY ConcatAssociative

\* Three parts of a file.
Joint(P, B, R) == P \o B \o R

\* What is left of three parts is left of each.
LEMMA WithoutThrees ==
    ASSUME NEW X, NEW P \in Seq(X), NEW B \in Seq(X), NEW R \in Seq(X), NEW keys
    PROVE  Without(Joint(P, B, R), keys)
              = Joint(Without(P, keys), Without(B, keys), Without(R, keys))
<1> DEFINE PB == P \o B
<1>1. PB \in Seq(X)
  OBVIOUS
<1>2. Part(PB, keys, "out") = Part(P, keys, "out") \o Part(B, keys, "out")
  BY PartJoin
<1> HIDE DEF PB
<1>3. Part(PB \o R, keys, "out") = Part(PB, keys, "out") \o Part(R, keys, "out")
  BY <1>1, PartJoin, SMTT(30)
<1> QED
  BY <1>2, <1>3 DEF Without, PB, Joint

\* Written again, every setting finds itself in its place, and none is left to be added.
LEMMA EditAgain ==
    ASSUME NEW X, NEW lines \in Seq(X), NEW kv \in Seq(X), Writable(kv), NEW e,
           IsEdit(X, lines, kv, Len(lines), e), NEW d,
           IsEdit(X, Result(e), kv, Len(Result(e)), d)
    PROVE  Result(d) = Result(e)
<1> DEFINE B == Result(e)
<1>1. B \in Seq(X) /\ Len(B) \in Nat
  <2>1. B \in Seq(X)
    BY ResultIs
  <2> HIDE DEF B
  <2> QED
    BY <2>1
<1>2. ASSUME NEW x \in Range(kv)
      PROVE  \E p \in 1..Len(B) : B[p] = x /\ \A h \in 1..p - 1 : ~IsEntry(B[h], {x.name})
  BY SettingFirst
<1> HIDE DEF B
<1>3. /\ d.out \in Seq(X) /\ Len(d.out) = Len(B) /\ d.remaining \in Seq(X)
      /\ Range(d.remaining) = {x \in Range(kv) : \A h \in 1..Len(B) : ~IsEntry(B[h], {x.name})}
      /\ \A i \in 1..Len(B) : Rewritten(d.out[i], B, kv, i)
  BY DEF IsEdit, B
<1>4. ASSUME NEW i \in 1..Len(B) PROVE d.out[i] = B[i]
  <2>1. CASE First(B, kv, i)
    <3> DEFINE x == d.out[i]
    <3>1. x \in Range(kv) /\ x.name = B[i].name
      BY <1>3, <2>1 DEF Rewritten
    <3>2. /\ B[i].kind = "entry"
          /\ \A h \in 1..i - 1 : ~IsEntry(B[h], {B[i].name})
      BY <2>1 DEF First
    <3> HIDE DEF x
    <3>3. PICK p \in 1..Len(B) : B[p] = x /\ \A h \in 1..p - 1 : ~IsEntry(B[h], {x.name})
      BY <1>2, <3>1
    <3>4. x.kind = "entry"
      BY <3>1, OneSetting
    <3>5. IsEntry(B[p], {B[i].name}) /\ IsEntry(B[i], {x.name})
      BY <3>1, <3>2, <3>3, <3>4 DEF IsEntry
    <3>6. ~(p < i) /\ ~(i < p)
      BY <1>1, <3>2, <3>3, <3>5
    <3>7. p = i
      BY <1>1, <3>6
    <3> QED
      BY <3>3, <3>7 DEF x
  <2>2. CASE ~First(B, kv, i)
    BY <1>3, <2>2 DEF Rewritten
  <2> QED
    BY <2>1, <2>2
<1>5. d.out = B
  <2> DEFINE o == d.out
  <2>1. o \in Seq(X) /\ Len(o) = Len(B) /\ \A i \in 1..Len(o) : o[i] = B[i]
    BY <1>3, <1>4
  <2> HIDE DEF o
  <2>2. o = B
    BY <1>1, <2>1, SeqEqual
  <2> QED
    BY <2>2 DEF o
<1>6. d.remaining = <<>>
  <2> DEFINE m == d.remaining
  <2>1. m \in Seq(X) /\ DOMAIN m = 1..Len(m)
    BY <1>3
  <2>2. Range(m) = {}
    <3> SUFFICES ASSUME NEW x \in Range(m) PROVE FALSE
      OBVIOUS
    <3>1. x \in Range(kv) /\ \A h \in 1..Len(B) : ~IsEntry(B[h], {x.name})
      BY <1>3
    <3>2. PICK p \in 1..Len(B) : B[p] = x
      BY <1>2, <3>1
    <3>3. IsEntry(B[p], {x.name})
      BY <3>1, <3>2, OneSetting DEF IsEntry
    <3> QED
      BY <3>1, <3>3
  <2> HIDE DEF m
  <2>3. \A i \in 1..Len(m) : FALSE
    BY <2>1, <2>2 DEF Range
  <2>4. Len(m) = 0
    BY <2>1, <2>3
  <2>5. m = <<>>
    BY <2>1, <2>4
  <2> QED
    BY <2>5 DEF m
<1>7. B \o <<>> = B
  BY <1>1, ConcatEmptySeq
<1> QED
  BY <1>5, <1>6, <1>7 DEF Result, B

\* The edited file has the same three parts, the second one edited.
LEMMA UpsertLaid ==
    ASSUME NEW X, NEW P \in Seq(X), NEW B \in Seq(X), NEW R \in Seq(X), NEW s,
           Laid(s, P, B, R), NEW kv \in Seq(X), Writable(kv)
    PROVE  LET new == Result(EditLines(B, kv))
           IN  /\ Upsert(P \o B \o R, s, kv) = P \o new \o R
               /\ new \in Seq(X) /\ Laid(s, P, new, R)
<1> DEFINE A == P \o B \o R
           e == EditLines(B, kv)
           new == Result(e)
<1>1. IsEdit(X, B, kv, Len(B), e)
  BY LinesEdited
<1>2. /\ StartOf(A, s) = Len(P) /\ Block(A, Len(P)) = B
      /\ SubSeq(A, 1, Len(P)) = P /\ SubSeq(A, Len(P) + Len(B) + 1, Len(A)) = R
  BY Reads
<1> HIDE DEF A
<1>3. Upsert(A, s, kv) = P \o e.out \o e.remaining \o R
  BY <1>2 DEF Upsert
<1> HIDE DEF e
<1> DEFINE o == e.out
           m == e.remaining
<1>4. /\ o \in Seq(X) /\ Len(o) = Len(B) /\ m \in Seq(X) /\ new \in Seq(X)
      /\ Len(new) = Len(B) + Len(m)
      /\ \A i \in 1..Len(B) : new[i] = o[i]
      /\ \A i \in 1..Len(m) : new[Len(B) + i] = m[i] /\ m[i].kind = "entry"
  BY <1>1, ResultIs
<1>5. new = o \o m
  BY DEF Result
<1>6. \A i \in 1..Len(B) : o[i].kind = "header" <=> B[i].kind = "header"
  BY <1>1, Touched
<1> HIDE DEF o, m, new
<1>7. P \o o \o m \o R = P \o new \o R
  <2>1. o \in Seq(X) /\ m \in Seq(X)
    BY <1>4
  <2>2. (P \o o) \o m = P \o (o \o m)
    BY <2>1, Joined, SMTT(30)
  <2> QED
    BY <1>5, <2>2
<1>8. \A i \in 1..Len(new) : new[i].kind # "header"
  <2> SUFFICES ASSUME NEW i \in 1..Len(new) PROVE new[i].kind # "header"
    OBVIOUS
  <2>0. Len(B) \in Nat /\ Len(m) \in Nat
    BY <1>4
  <2>1. CASE i <= Len(B)
    <3>1. i \in 1..Len(B) /\ new[i] = o[i]
      BY <1>4, <2>0, <2>1
    <3>2. B[i].kind # "header"
      BY <3>1 DEF Laid
    <3> QED
      BY <1>6, <3>1, <3>2
  <2>2. CASE ~(i <= Len(B))
    <3> DEFINE j == i - Len(B)
    <3>1. j \in 1..Len(m) /\ Len(B) + j = i
      BY <1>4, <2>0, <2>2
    <3> HIDE DEF j
    <3>2. new[i] = m[j] /\ m[j].kind = "entry"
      BY <1>4, <3>1
    <3> QED
      BY <3>2
  <2> QED
    BY <2>1, <2>2
<1>9. Laid(s, P, new, R)
  BY <1>8 DEF Laid
<1> QED
  BY <1>3, <1>4, <1>7, <1>9 DEF A, new, o, m, e

\* An edit of any file that has the section is exact, and leaves all lines but the
\* settings' entries, in their order.
LEMMA EditExact ==
    ASSUME NEW X, NEW A \in Seq(X), NEW s, StartOf(A, s) # 0,
           NEW kv \in Seq(X), Writable(kv)
    PROVE  /\ Exact(A, s, kv)
           /\ Upsert(A, s, kv) \in Seq(X)
           /\ \A keys : (\A x \in Range(kv) : x.name \in keys) =>
                            Without(Upsert(A, s, kv), keys) = Without(A, keys)
<1>1. PICK P \in Seq(X), B \in Seq(X), R \in Seq(X) : A = P \o B \o R /\ Laid(s, P, B, R)
  BY Splits
<1> DEFINE e == EditLines(B, kv)
           new == Result(e)
           E == Upsert(A, s, kv)
           names == {kv[i].name : i \in DOMAIN kv}
<1>2. IsEdit(X, B, kv, Len(B), e)
  BY LinesEdited
<1>3. E = P \o new \o R /\ new \in Seq(X) /\ Laid(s, P, new, R)
  BY <1>1, UpsertLaid
<1> HIDE DEF E, names, e
<1>4. /\ StartOf(A, s) = Len(P) /\ Block(A, Len(P)) = B
      /\ SubSeq(A, 1, Len(P)) = P /\ SubSeq(A, Len(P) + Len(B) + 1, Len(A)) = R
  BY <1>1, Reads
<1> HIDE DEF new
<1>5. /\ StartOf(E, s) = Len(P) /\ Block(E, Len(P)) = new
      /\ SubSeq(E, 1, Len(P)) = P /\ SubSeq(E, Len(P) + Len(new) + 1, Len(E)) = R
  BY <1>3, Reads
<1>6. E \in Seq(X)
  <2>1. P \o new \o R \in Seq(X)
    BY <1>3, Threes
  <2> QED
    BY <1>3, <2>1
<1>7. \A x \in Range(kv) : x.name \in names
  BY DEF names, Range
<1>8. ASSUME NEW keys, \A x \in Range(kv) : x.name \in keys
      PROVE  Without(new, keys) = Without(B, keys)
  BY <1>2, <1>8, OthersStay DEF new
<1>9. TheRest(E, s, kv) = TheRest(A, s, kv)
  <2>1. TheRest(A, s, kv) = P \o Without(B, names) \o R
    BY <1>4 DEF TheRest, names
  <2>2. TheRest(E, s, kv) = P \o Without(new, names) \o R
    BY <1>5 DEF TheRest, names
  <2> QED
    BY <1>7, <1>8, <2>1, <2>2
<1>10. ASSUME NEW i \in DOMAIN kv
       PROVE  /\ Holds(E, s, kv[i])
              /\ LET old == Len(Values(A, s, kv[i].name))
                 IN  Len(Values(E, s, kv[i].name)) = IF old = 0 THEN 1 ELSE old
  <2> DEFINE x == kv[i]
             k == x.name
  <2>0. x \in Range(kv)
    BY DEF Range
  <2>1. Len(P) # 0
    BY <1>4
  <2> HIDE DEF x
  <2>2. Values(A, s, k) = Entries(B, {k}) /\ Values(E, s, k) = Entries(new, {k})
    BY <1>4, <1>5, <2>1 DEF Values
  <2>3. /\ Entries(new, {k}) # <<>> /\ Head(Entries(new, {k})) = x
        /\ Len(Entries(new, {k})) = IF Len(Entries(B, {k})) = 0 THEN 1 ELSE Len(Entries(B, {k}))
    BY <1>2, <2>0, SettingRead DEF new
  <2> QED
    BY <2>2, <2>3 DEF Holds, x
<1>11. Upsert(E, s, kv) = E
  <2> DEFINE d == EditLines(new, kv)
  <2>1. IsEdit(X, new, kv, Len(new), d)
    BY <1>3, LinesEdited
  <2>2. Upsert(P \o new \o R, s, kv) = P \o Result(d) \o R
    BY <1>3, UpsertLaid, SMTT(30)
  <2> HIDE DEF d
  <2>3. Result(d) = new
    BY <1>2, <2>1, EditAgain DEF new
  <2> QED
    BY <1>3, <2>2, <2>3
<1>12. Exact(A, s, kv)
  BY <1>9, <1>10, <1>11 DEF Exact, E
<1>13. ASSUME NEW keys, \A x \in Range(kv) : x.name \in keys
       PROVE  Without(E, keys) = Without(A, keys)
  <2>1. E = Joint(P, new, R) /\ A = Joint(P, B, R)
    BY <1>1, <1>3 DEF Joint
  <2>2. Without(new, keys) = Without(B, keys)
    BY <1>8, <1>13
  <2>3. /\ Without(Joint(P, new, R), keys)
             = Joint(Without(P, keys), Without(new, keys), Without(R, keys))
        /\ Without(Joint(P, B, R), keys)
             = Joint(Without(P, keys), Without(B, keys), Without(R, keys))
    BY <1>3, WithoutThrees
  <2> QED
    BY <2>1, <2>2, <2>3
<1> QED
  BY <1>6, <1>12, <1>13 DEF E

------------------------------------------------------------------------------
(* The tasks.                                                              *)

\* Where a task may be, and what it may be.
Ats == UnderWay \cup Updated \cup {"none", "no section", "no file", "not opened", "not written"}
TaskType == [at : Ats, section : Sections \cup {"None"},
             kv : Seq(FileLines), updated : Seq(FileLines)]

\* The file at the start is a file.
LEMMA OriginalIs == Original \in Seq(FileLines)
<1>1. Original \in Seq(Range(Original))
  BY FilesAssumption
<1>2. Range(Original) \subseteq FileLines
  BY DEF FileLines
<1> HIDE DEF FileLines
<1> QED
  BY <1>1, <1>2

\* The settings that go to the file, whatever the tuner shows.
LEMMA KvIs ==
    ASSUME ctx \in Sizes, mlock \in BOOLEAN
    PROVE  /\ Kv \in Seq(FileLines) /\ Kv # <<>> /\ Writable(Kv)
           /\ \A i \in DOMAIN Kv : Kv[i].name \in Tuned
<1> DEFINE c == Entry("ctx", ctx)
           m == Entry("mlock", "true")
<1>1. /\ c \in FileLines /\ c.kind = "entry" /\ c.name = "ctx"
      /\ m \in FileLines /\ m.kind = "entry" /\ m.name = "mlock"
  BY DEF FileLines, Entry
<1>2. Kv = <<c>> \o (IF mlock THEN <<m>> ELSE <<>>)
  BY DEF Kv
<1> HIDE DEF c, m, FileLines
<1>3. CASE mlock
  <2> DEFINE f == <<c>>
             g == <<m>>
             k == f \o g
  <2>1. f \in Seq(FileLines) /\ Len(f) = 1 /\ f[1] = c
    BY <1>1
  <2>2. g \in Seq(FileLines) /\ Len(g) = 1 /\ g[1] = m
    BY <1>1
  <2>3. Kv = k
    BY <1>2, <1>3, Zenon
  <2> HIDE DEF f, g
  <2>a. f \in Seq(FileLines) /\ g \in Seq(FileLines)
    BY <2>1, <2>2
  <2>b. /\ k \in Seq(FileLines) /\ Len(k) = Len(f) + Len(g)
        /\ \A i \in 1..Len(f) + Len(g) : k[i] = IF i <= Len(f) THEN f[i] ELSE g[i - Len(f)]
    BY <2>a, ConcatProperties
  <2> HIDE DEF k
  <2>4. k \in Seq(FileLines) /\ Len(k) = 2
    BY <2>1, <2>2, <2>b
  <2>5. k[1] = c /\ k[2] = m
    BY <2>1, <2>2, <2>b
  <2>6. DOMAIN k = {1, 2}
    BY <2>4
  <2> QED
    BY <1>1, <2>3, <2>4, <2>5, <2>6 DEF Writable, Tuned
<1>4. CASE ~mlock
  <2>1. Kv = <<c>>
    BY <1>2, <1>4
  <2> QED
    BY <1>1, <2>1 DEF Writable, Tuned
<1> QED
  BY <1>3, <1>4

\* A task that moves on keeps its settings, and no other task moves.
LEMMA Moved ==
    ASSUME TypeOK, NEW t \in Tasks, NEW at \in Ats, Move(t, at)
    PROVE  /\ task' \in [Tasks -> TaskType]
           /\ task'[t].at = at /\ task'[t].section = task[t].section
           /\ task'[t].kv = task[t].kv /\ task'[t].updated = task[t].updated
           /\ \A u \in Tasks : u # t => task'[u] = task[u]
<1> HIDE DEF FileLines, Ats
<1>1. task \in [Tasks -> TaskType]
  BY DEF TypeOK, TaskType, Ats
<1> QED
  BY <1>1 DEF Move, TaskType

\* Only a task's file and its place matter to what it is to have edited.
Shown == TypeOK /\ Edits

\* At the start nothing is under way.
LEMMA Initially == Init => IndInv
<1> SUFFICES ASSUME Init PROVE IndInv
  OBVIOUS
<1>1. /\ Original \in Seq(FileLines) /\ <<>> \in Seq(FileLines)
  BY OriginalIs
<1> HIDE DEF FileLines
<1>2. \A t \in Tasks : task[t] = Idle
  BY DEF Init
<1>3. Idle \in TaskType
  BY <1>1 DEF Idle, TaskType, Ats
<1>4. TypeOK
  <2>1. task \in [Tasks -> TaskType]
    BY <1>3 DEF Init
  <2>2. \A t \in Tasks : task[t].at = "none"
    BY <1>2 DEF Idle
  <2> QED
    BY <1>1, <2>1, <2>2 DEF Init, TypeOK, TaskType, Ats
<1>5. Edits
  BY <1>2 DEF Edits, Idle, Writable
<1>6. Alone
  BY <1>2 DEF Alone, Init, Idle, Active, UnderWay
<1> QED
  BY <1>4, <1>5, <1>6 DEF IndInv

\* A step of a task from where it had edited the file, if it still is to write it, and
\* that changes the files at most.
LEMMA ShownMoved ==
    ASSUME Shown, NEW t \in Tasks, NEW at \in Ats, Move(t, at), task[t].at # "none",
           at \in {"writing", "restart"} => task[t].at \in {"write", "writing"},
           at # "write",
           ini' \in Seq(FileLines), running' \in Seq(FileLines),
           UNCHANGED <<appVars, overlapped>>
    PROVE  Shown'
<1> HIDE DEF FileLines, Ats
<1>1. /\ task' \in [Tasks -> TaskType]
      /\ task'[t].at = at /\ task'[t].section = task[t].section
      /\ task'[t].kv = task[t].kv /\ task'[t].updated = task[t].updated
      /\ \A u \in Tasks : u # t => task'[u] = task[u]
  BY Moved DEF Shown
<1>2. TypeOK'
  <2>1. \A u \in Tasks : task'[u].at # "none" =>
            task'[u].section \in Sections /\ task'[u].kv # <<>>
    BY <1>1 DEF Shown, TypeOK
  <2> QED
    BY <1>1, <2>1 DEF Shown, TypeOK, appVars, TaskType, Ats
<1>3. Edits'
  <2> SUFFICES ASSUME NEW u \in Tasks
               PROVE  /\ Writable(task'[u].kv)
                      /\ \A i \in DOMAIN task'[u].kv : task'[u].kv[i].name \in Tuned
                      /\ task'[u].at \in {"write", "writing", "restart"} =>
                          \A i \in DOMAIN task'[u].kv :
                              Holds(task'[u].updated, task'[u].section, task'[u].kv[i])
    BY DEF Edits
  <2>1. CASE u = t
    BY <1>1, <2>1 DEF Shown, Edits
  <2>2. CASE u # t
    BY <1>1, <2>2 DEF Shown, Edits
  <2> QED
    BY <2>1, <2>2
<1> QED
  BY <1>2, <1>3 DEF Shown

\* What a task makes of the file it has read.
LEMMA ReadEdits ==
    ASSUME Shown, NEW t \in Tasks, StartOf(ini, task[t].section) # 0
    PROVE  LET new == Upsert(ini, task[t].section, task[t].kv)
           IN  /\ new \in Seq(FileLines)
               /\ \A i \in DOMAIN task[t].kv : Holds(new, task[t].section, task[t].kv[i])
               /\ Without(new, Tuned) = Without(ini, Tuned)
<1> DEFINE s == task[t].section
           kv == task[t].kv
<1>1. ini \in Seq(FileLines) /\ kv \in Seq(FileLines)
  BY DEF Shown, TypeOK
<1>2. Writable(kv) /\ \A i \in DOMAIN kv : kv[i].name \in Tuned
  BY DEF Shown, Edits
<1>3. \A x \in Range(kv) : x.name \in Tuned
  BY <1>2 DEF Range
<1> HIDE DEF s, kv, FileLines, Tuned
<1>4. StartOf(ini, s) # 0
  BY DEF s
<1>5. /\ Exact(ini, s, kv)
      /\ Upsert(ini, s, kv) \in Seq(FileLines)
      /\ Without(Upsert(ini, s, kv), Tuned) = Without(ini, Tuned)
  BY <1>1, <1>2, <1>3, <1>4, EditExact
<1>6. \A i \in DOMAIN kv : Holds(Upsert(ini, s, kv), s, kv[i])
  BY <1>5 DEF Exact
<1> QED
  BY <1>5, <1>6 DEF s, kv

\* Writing over a file leaves lines in it.
LEMMA Written ==
    ASSUME NEW X, NEW new \in Seq(X), NEW old \in Seq(X)
    PROVE  /\ new \o SubSeq(old, Len(new) + 1, Len(old)) \in Seq(X)
           /\ old = <<>> => new \o SubSeq(old, Len(new) + 1, Len(old)) = new
<1> DEFINE r == SubSeq(old, Len(new) + 1, Len(old))
<1>1. Len(new) \in Nat /\ Len(old) \in Nat
  OBVIOUS
<1>2. CASE Len(new) >= Len(old)
  <2>1. r = <<>>
    BY <1>1, <1>2
  <2> QED
    BY <2>1, ConcatEmptySeq
<1>3. CASE ~(Len(new) >= Len(old))
  <2>1. r \in Seq(X)
    BY <1>1, <1>3, Piece
  <2>2. old # <<>>
    BY <1>1, <1>3
  <2> QED
    BY <2>1, <2>2
<1> QED
  BY <1>2, <1>3

\* Events that leave the tasks and the file alone.
LEMMA Unmoved ==
    ASSUME IndInv, UNCHANGED <<ini, task, overlapped>>,
           show_tuner' \in BOOLEAN, ctx' \in Sizes, mlock' \in BOOLEAN, quit' \in BOOLEAN,
           active_model' \in Sections \cup {"None"}, running' \in Seq(FileLines)
    PROVE  IndInv'
<1> HIDE DEF FileLines
<1>1. TypeOK'
  BY DEF IndInv, TypeOK
<1>2. Edits'
  BY DEF IndInv, Edits
<1>3. ~overlapped' => Alone'
  BY DEF IndInv, Alone, Active, InPlace
<1> QED
  BY <1>1, <1>2, <1>3 DEF IndInv

\* A new task has the tuner's settings; if it finds another under way, they overlap.
LEMMA Entered ==
    ASSUME IndInv, NEW t \in Tasks, Enter(t)
    PROVE  IndInv'
<1> DEFINE new == [at |-> "read", section |-> active_model, kv |-> Kv, updated |-> <<>>]
<1>1. TypeOK /\ Edits
  BY DEF IndInv
<1>2. /\ active_model \in Sections
      /\ Kv \in Seq(FileLines) /\ Kv # <<>> /\ Writable(Kv)
      /\ \A i \in DOMAIN Kv : Kv[i].name \in Tuned
  BY <1>1, KvIs DEF TypeOK, Enter
<1> HIDE DEF FileLines
<1>3. task \in [Tasks -> TaskType]
  BY <1>1 DEF TypeOK, TaskType, Ats
<1>4. new \in TaskType
  BY <1>2 DEF TaskType, Ats, UnderWay
<1>5. /\ new.at = "read" /\ new.section = active_model /\ new.kv = Kv
      /\ new.updated = <<>>
  OBVIOUS
<1> HIDE DEF new
<1>6. /\ task' \in [Tasks -> TaskType] /\ task'[t] = new
      /\ \A u \in Tasks : u # t => task'[u] = task[u]
  <2>1. task' = [task EXCEPT ![t] = new]
    BY DEF Enter, new
  <2> QED
    BY <1>3, <1>4, <2>1
<1>7. TypeOK'
  <2>1. /\ show_tuner' \in BOOLEAN /\ overlapped' \in BOOLEAN
        /\ UNCHANGED <<ctx, mlock, active_model, quit, ini, running>>
    BY <1>1 DEF Enter, TypeOK
  <2>2. \A u \in Tasks : task'[u].at # "none" =>
            task'[u].section \in Sections /\ task'[u].kv # <<>>
    BY <1>1, <1>2, <1>5, <1>6 DEF TypeOK
  <2> QED
    BY <1>1, <1>6, <2>1, <2>2 DEF TypeOK, TaskType, Ats
<1>8. Edits'
  <2> SUFFICES ASSUME NEW u \in Tasks
               PROVE  /\ Writable(task'[u].kv)
                      /\ \A i \in DOMAIN task'[u].kv : task'[u].kv[i].name \in Tuned
                      /\ task'[u].at \in {"write", "writing", "restart"} =>
                          \A i \in DOMAIN task'[u].kv :
                              Holds(task'[u].updated, task'[u].section, task'[u].kv[i])
    BY DEF Edits
  <2>1. CASE u = t
    BY <1>2, <1>5, <1>6, <2>1
  <2>2. CASE u # t
    BY <1>1, <1>6, <2>2 DEF Edits
  <2> QED
    BY <2>1, <2>2
<1>9. ASSUME ~overlapped' PROVE Alone'
  <2>1. ~overlapped /\ \A u \in Tasks : ~Active(u)
    BY <1>9 DEF Enter
  <2>2. Alone /\ UNCHANGED ini /\ task[t].at = "none"
    BY <2>1 DEF Enter, IndInv
  <2>3. \A u \in Tasks : u # t => task'[u].at \notin UnderWay
    BY <1>6, <2>1 DEF Active
  <2>4. InPlace' => InPlace
    BY <1>6, <2>2 DEF InPlace
  <2> QED
    BY <1>5, <1>6, <2>2, <2>3, <2>4 DEF Alone, Active, UnderWay
<1> QED
  BY <1>7, <1>8, <1>9 DEF IndInv

\* When a task moves that is under way with no other, only it is under way.
LEMMA AloneMoved ==
    ASSUME Alone, NEW t \in Tasks, Active(t),
           \A u \in Tasks : u # t => task'[u] = task[u],
           task'[t].at = "writing" => ini' = <<>>,
           task'[t].at = "restart" => ini' = task'[t].updated,
           InPlace' => Without(ini', Tuned) = Without(Original, Tuned),
           /\ \A u \in Tasks : task'[u].at # "not written"
           /\ task'[t].at \in {"write", "writing"}
           => Without(task'[t].updated, Tuned) = Without(Original, Tuned)
    PROVE  Alone'
<1>1. \A u \in Tasks : u # t => task'[u].at \notin UnderWay
  BY DEF Alone, Active
<1> QED
  BY <1>1 DEF Alone, Active, UnderWay

\* A task that moves on and leaves the file as it is, neither before nor after it has it
\* open.
LEMMA OnlyMoved ==
    ASSUME IndInv, NEW t \in Tasks, NEW at \in Ats, Move(t, at), Active(t),
           task[t].at # "writing",
           at \in Ats \ (UnderWay \cup {"not written"}),
           running' \in Seq(FileLines), UNCHANGED <<appVars, ini, overlapped>>
    PROVE  IndInv'
<1>1. Shown /\ task[t].at # "none" /\ ini' \in Seq(FileLines)
  BY DEF IndInv, Shown, Active, UnderWay, TypeOK
<1>2. Shown'
  BY <1>1, ShownMoved DEF UnderWay
<1>3. task'[t].at = at /\ \A u \in Tasks : u # t => task'[u] = task[u]
  BY <1>1, Moved DEF Shown
<1>4. ASSUME ~overlapped' PROVE Alone'
  <2>1. Alone
    BY <1>4 DEF IndInv
  <2>2. InPlace' => InPlace
    BY <1>3 DEF InPlace, Active, UnderWay
  <2>3. InPlace' => Without(ini', Tuned) = Without(Original, Tuned)
    BY <2>1, <2>2 DEF Alone
  <2> QED
    BY <1>3, <2>1, <2>3, AloneMoved DEF UnderWay
<1> QED
  BY <1>2, <1>4 DEF Shown, IndInv

\* Read: what the task holds then is the file, edited.
LEMMA HasRead ==
    ASSUME IndInv, NEW t \in Tasks, Read(t)
    PROVE  IndInv'
<1>1. /\ TypeOK /\ Edits /\ Shown
      /\ task[t].at = "read" /\ Active(t) /\ UNCHANGED <<appVars, ini, running, overlapped>>
  BY DEF IndInv, Shown, Read, Active, UnderWay
<1>2. ini \in Seq(FileLines) /\ running' \in Seq(FileLines)
  BY <1>1 DEF TypeOK
<1>3. CASE StartOf(ini, task[t].section) = 0
  <2>1. Move(t, "no section")
    BY <1>3 DEF Read
  <2>2. "no section" \in Ats \ (UnderWay \cup {"not written"})
    BY DEF Ats, UnderWay
  <2> QED
    BY <1>1, <1>2, <2>1, <2>2, OnlyMoved
<1>4. CASE StartOf(ini, task[t].section) # 0
  <2> DEFINE new == Upsert(ini, task[t].section, task[t].kv)
  <2>1. /\ new \in Seq(FileLines)
        /\ \A i \in DOMAIN task[t].kv : Holds(new, task[t].section, task[t].kv[i])
        /\ Without(new, Tuned) = Without(ini, Tuned)
    BY <1>1, <1>4, ReadEdits
  <2>2. task' = [task EXCEPT ![t].at = "write", ![t].updated = new]
    BY <1>4 DEF Read
  <2> HIDE DEF new, FileLines
  <2>3. task \in [Tasks -> TaskType]
    BY <1>1 DEF TypeOK, TaskType, Ats
  <2>4. /\ task' \in [Tasks -> TaskType]
        /\ task'[t].at = "write" /\ task'[t].section = task[t].section
        /\ task'[t].kv = task[t].kv /\ task'[t].updated = new
        /\ \A u \in Tasks : u # t => task'[u] = task[u]
    BY <2>1, <2>2, <2>3 DEF TaskType, Ats, UnderWay
  <2>5. TypeOK'
    <3>1. \A u \in Tasks : task'[u].at # "none" =>
              task'[u].section \in Sections /\ task'[u].kv # <<>>
      BY <1>1, <2>4 DEF TypeOK
    <3> QED
      BY <1>1, <2>4, <3>1 DEF TypeOK, TaskType, Ats, appVars
  <2>6. Edits'
    <3> SUFFICES ASSUME NEW u \in Tasks
                 PROVE  /\ Writable(task'[u].kv)
                        /\ \A i \in DOMAIN task'[u].kv : task'[u].kv[i].name \in Tuned
                        /\ task'[u].at \in {"write", "writing", "restart"} =>
                            \A i \in DOMAIN task'[u].kv :
                                Holds(task'[u].updated, task'[u].section, task'[u].kv[i])
      BY DEF Edits
    <3>1. CASE u = t
      BY <1>1, <2>1, <2>4, <3>1 DEF Edits
    <3>2. CASE u # t
      BY <1>1, <2>4, <3>2 DEF Edits
    <3> QED
      BY <3>1, <3>2
  <2>7. ASSUME ~overlapped' PROVE Alone'
    <3>1. Alone
      BY <1>1, <2>7 DEF IndInv
    <3>2. /\ InPlace' => InPlace
          /\ (\A u \in Tasks : task'[u].at # "not written") => InPlace
      <4>1. ASSUME NEW u \in Tasks, u # t PROVE task[u].at # "writing"
        BY <1>1, <3>1, <4>1 DEF Alone, Active, UnderWay
      <4> QED
        BY <1>1, <2>4, <4>1 DEF InPlace
    <3>3. /\ InPlace' => Without(ini', Tuned) = Without(Original, Tuned)
          /\ (\A u \in Tasks : task'[u].at # "not written")
               => Without(new, Tuned) = Without(Original, Tuned)
      BY <1>1, <2>1, <3>1, <3>2 DEF Alone
    <3> QED
      BY <1>1, <2>4, <3>1, <3>3, AloneMoved
  <2> QED
    BY <2>5, <2>6, <2>7 DEF IndInv
<1> QED
  BY <1>3, <1>4

\* Truncate: the file is empty, and what is to be written has its other lines.
LEMMA Truncated ==
    ASSUME IndInv, NEW t \in Tasks, Truncate(t)
    PROVE  IndInv'
<1>1. /\ Shown /\ task[t].at = "write" /\ Active(t) /\ Move(t, "writing") /\ ini' = <<>>
      /\ UNCHANGED <<appVars, running, overlapped>>
  BY DEF IndInv, Shown, Truncate, Active, UnderWay
<1>2. "writing" \in Ats /\ ini' \in Seq(FileLines) /\ running' \in Seq(FileLines)
  <2>1. ini' \in Seq(FileLines)
    BY <1>1
  <2>2. "writing" \in Ats /\ running' \in Seq(FileLines)
    BY <1>1 DEF Ats, UnderWay, Shown, TypeOK
  <2> QED
    BY <2>1, <2>2
<1>3. Shown'
  BY <1>1, <1>2, ShownMoved
<1>4. /\ task'[t].at = "writing" /\ task'[t].updated = task[t].updated
      /\ \A u \in Tasks : u # t => task'[u] = task[u]
  BY <1>1, <1>2, Moved DEF Shown
<1>5. ASSUME ~overlapped' PROVE Alone'
  <2>1. Alone
    BY <1>1, <1>5 DEF IndInv
  <2>2. ~InPlace'
    BY <1>4 DEF InPlace
  <2>3. (\A u \in Tasks : task'[u].at # "not written") =>
            Without(task'[t].updated, Tuned) = Without(Original, Tuned)
    <3> SUFFICES ASSUME \A u \in Tasks : task'[u].at # "not written"
                 PROVE  Without(task'[t].updated, Tuned) = Without(Original, Tuned)
      OBVIOUS
    <3>1. \A u \in Tasks : task[u].at # "not written"
      BY <1>1, <1>4
    <3>2. \A u \in Tasks : task[u].at \in {"write", "writing"} =>
              Without(task[u].updated, Tuned) = Without(Original, Tuned)
      BY <2>1, <3>1 DEF Alone
    <3>3. task[t].at \in {"write", "writing"}
      BY <1>1
    <3>4. Without(task[t].updated, Tuned) = Without(Original, Tuned)
      BY <3>2, <3>3, Zenon
    <3> QED
      BY <1>4, <3>4
  <2> QED
    BY <1>1, <1>4, <2>1, <2>2, <2>3, AloneMoved
<1> QED
  BY <1>3, <1>5 DEF Shown, IndInv

\* Write: an empty file becomes what the task holds.
LEMMA HasWritten ==
    ASSUME IndInv, NEW t \in Tasks, Write(t)
    PROVE  IndInv'
<1> DEFINE new == task[t].updated
<1>1. /\ Shown /\ task[t].at = "writing" /\ Active(t) /\ Move(t, "restart")
      /\ ini' = new \o SubSeq(ini, Len(new) + 1, Len(ini))
      /\ UNCHANGED <<appVars, running, overlapped>>
  BY DEF IndInv, Shown, Write, Active, UnderWay
<1>2. /\ "restart" \in Ats /\ running' \in Seq(FileLines)
      /\ new \in Seq(FileLines) /\ ini \in Seq(FileLines)
  BY <1>1 DEF Ats, UnderWay, Shown, TypeOK
<1> HIDE DEF new
<1>3. ini' \in Seq(FileLines) /\ (ini = <<>> => ini' = new)
  BY <1>1, <1>2, Written
<1>4. Shown'
  BY <1>1, <1>2, <1>3, ShownMoved
<1>5. /\ task'[t].at = "restart" /\ task'[t].updated = new
      /\ \A u \in Tasks : u # t => task'[u] = task[u]
  BY <1>1, <1>2, Moved DEF Shown, new
<1>6. ASSUME ~overlapped' PROVE Alone'
  <2>1. Alone
    BY <1>1, <1>6 DEF IndInv
  <2>2. ini' = new
    BY <1>1, <1>3, <2>1 DEF Alone
  <2>3. InPlace' => Without(ini', Tuned) = Without(Original, Tuned)
    <3> SUFFICES ASSUME InPlace' PROVE Without(new, Tuned) = Without(Original, Tuned)
      BY <2>2, Zenon
    <3>1. \A u \in Tasks : task[u].at # "not written"
      BY <1>1, <1>5 DEF InPlace
    <3>2. \A u \in Tasks : task[u].at \in {"write", "writing"} =>
              Without(task[u].updated, Tuned) = Without(Original, Tuned)
      BY <2>1, <3>1 DEF Alone
    <3>3. task[t].at \in {"write", "writing"}
      BY <1>1
    <3> QED
      BY <3>2, <3>3, Zenon DEF new
  <2> QED
    BY <1>1, <1>5, <2>1, <2>2, <2>3, AloneMoved
<1> QED
  BY <1>4, <1>6 DEF Shown, IndInv

\* A write that fails leaves the file as it was, or empty.
LEMMA HasFailed ==
    ASSUME IndInv, NEW t \in Tasks, WriteFails(t)
    PROVE  IndInv'
<1>1. /\ Shown /\ Active(t) /\ ini' \in Seq(FileLines) /\ running' \in Seq(FileLines)
      /\ UNCHANGED <<appVars, ini, running, overlapped>>
  BY DEF IndInv, Shown, TypeOK, WriteFails, Active, UnderWay
<1>2. CASE task[t].at = "write"
  <2>1. Move(t, "not opened") /\ "not opened" \in Ats \ (UnderWay \cup {"not written"})
    BY <1>2 DEF WriteFails, Ats, UnderWay
  <2> QED
    BY <1>1, <1>2, <2>1, OnlyMoved
<1>3. CASE task[t].at = "writing"
  <2>1. Move(t, "not written") /\ "not written" \in Ats
    BY <1>3 DEF WriteFails, Ats, UnderWay
  <2>2. Shown'
    BY <1>1, <1>3, <2>1, ShownMoved
  <2>3. task'[t].at = "not written" /\ \A u \in Tasks : u # t => task'[u] = task[u]
    BY <1>1, <2>1, Moved DEF Shown
  <2>4. ~InPlace'
    BY <2>3 DEF InPlace
  <2>5. ASSUME ~overlapped' PROVE Alone'
    BY <1>1, <2>3, <2>4, <2>5, AloneMoved DEF IndInv
  <2> QED
    BY <2>2, <2>5 DEF Shown, IndInv
<1> QED
  BY <1>2, <1>3 DEF WriteFails

------------------------------------------------------------------------------
(* What every behaviour keeps.                                             *)

\* No step of Next, whoever takes it, breaks it.
LEMMA Inductive == IndInv /\ [Next]_vars => IndInv'
<1> SUFFICES ASSUME IndInv, [Next]_vars PROVE IndInv'
  OBVIOUS
<1>1. /\ TypeOK /\ ini \in Seq(FileLines) /\ running \in Seq(FileLines)
      /\ show_tuner \in BOOLEAN /\ mlock \in BOOLEAN /\ quit \in BOOLEAN
      /\ ctx \in Sizes /\ active_model \in Sections \cup {"None"}
  BY DEF IndInv, TypeOK
<1>2. CASE UNCHANGED vars
  BY <1>1, <1>2, Unmoved DEF vars, appVars
<1>3. CASE Toggle
  BY <1>1, <1>3, Unmoved DEF Toggle
<1>4. CASE Tune
  BY <1>1, <1>4, Unmoved DEF Tune
<1>5. CASE SetActive
  BY <1>1, <1>5, Unmoved DEF SetActive
<1>6. CASE Quit
  BY <1>1, <1>6, Unmoved DEF Quit
<1>7. CASE RouterRestart
  BY <1>1, <1>7, Unmoved DEF RouterRestart, appVars
<1>8. ASSUME NEW t \in Tasks, Enter(t) PROVE IndInv'
  BY <1>8, Entered
<1>9. ASSUME NEW t \in Tasks, Step(t) PROVE IndInv'
  <2>1. CASE Read(t)
    BY <2>1, HasRead
  <2>2. CASE ReadFails(t)
    <3>1. /\ Move(t, "no file") /\ Active(t) /\ task[t].at # "writing"
          /\ "no file" \in Ats \ (UnderWay \cup {"not written"})
          /\ UNCHANGED <<appVars, ini, running, overlapped>>
      BY <2>2 DEF ReadFails, Active, Ats, UnderWay
    <3> QED
      BY <1>1, <3>1, OnlyMoved
  <2>3. CASE Truncate(t)
    BY <2>3, Truncated
  <2>4. CASE Write(t)
    BY <2>4, HasWritten
  <2>5. CASE WriteFails(t)
    BY <2>5, HasFailed
  <2>6. CASE Restart(t)
    <3>1. /\ Move(t, "restarted") /\ Active(t) /\ task[t].at # "writing"
          /\ "restarted" \in Ats \ (UnderWay \cup {"not written"})
          /\ running' = ini /\ UNCHANGED <<appVars, ini, overlapped>>
      BY <2>6 DEF Restart, Active, Ats, UnderWay, Updated
    <3> QED
      BY <1>1, <3>1, OnlyMoved
  <2>7. CASE RestartFails(t)
    <3>1. /\ Move(t, "not restarted") /\ Active(t) /\ task[t].at # "writing"
          /\ "not restarted" \in Ats \ (UnderWay \cup {"not written"})
          /\ UNCHANGED <<appVars, ini, running, overlapped>>
      BY <2>7 DEF RestartFails, Active, Ats, UnderWay, Updated
    <3> QED
      BY <1>1, <3>1, OnlyMoved
  <2> QED
    BY <1>9, <2>1, <2>2, <2>3, <2>4, <2>5, <2>6, <2>7 DEF Step
<1> QED
  BY <1>2, <1>3, <1>4, <1>5, <1>6, <1>7, <1>8, <1>9 DEF Next

\* IndInv, for every number of applies.
THEOREM Invariant == Spec => []IndInv
BY Initially, Inductive, PTL DEF Spec

\* TypeOK, for every number of applies: files stay sequences of lines, and what a task
\* edits is one too.
THEOREM TypeCorrect == Spec => []TypeOK
<1>1. IndInv => TypeOK
  BY DEF IndInv
<1> QED
  BY <1>1, Invariant, PTL

\* OthersPreserved, for every router.ini: model paths, comments and the other sections
\* are where they were, whatever is tuned and applied, one apply at a time.
THEOREM OthersKept == Spec => []OthersPreserved
<1>1. IndInv => OthersPreserved
  BY DEF IndInv, Alone, OthersPreserved
<1> QED
  BY <1>1, Invariant, PTL

\* RestartApplies, for every router.ini: what the router reads on a reported restart has
\* the settings, since the file then is what the task has edited.
THEOREM AppliedOnRestart == Spec => RestartApplies
<1> DEFINE A == \A t \in Tasks :
                  task'[t].at = "restarted" /\ task[t].at # "restarted" /\ ~overlapped =>
                    \A i \in DOMAIN task[t].kv : Holds(running', task[t].section, task[t].kv[i])
<1>1. IndInv /\ [Next]_vars => A
  <2> SUFFICES ASSUME IndInv, [Next]_vars, NEW t \in Tasks,
                      task'[t].at = "restarted", task[t].at # "restarted", ~overlapped,
                      NEW i \in DOMAIN task[t].kv
               PROVE  Holds(running', task[t].section, task[t].kv[i])
    OBVIOUS
  <2>1. Restart(t)
    <3>1. task' # task
      OBVIOUS
    <3>2. PICK u \in Tasks : Enter(u) \/ Step(u)
      BY <3>1 DEF Next, vars, Toggle, Tune, SetActive, Quit, RouterRestart
    <3>3. task \in [Tasks -> TaskType] /\ Shown
      BY DEF IndInv, TypeOK, TaskType, Ats, Shown
    <3>4. t = u
      BY <3>2, <3>3 DEF Enter, Step, Read, ReadFails, Truncate, Write, WriteFails,
                        Restart, RestartFails, Move
    <3>5. ASSUME NEW at, Move(u, at) PROVE at = "restarted"
      BY <3>3, <3>4, <3>5 DEF Move, TaskType
    <3>6. ~ReadFails(u) /\ ~Truncate(u) /\ ~Write(u) /\ ~WriteFails(u) /\ ~RestartFails(u)
      BY <3>5 DEF ReadFails, Truncate, Write, WriteFails, RestartFails
    <3>7. ~Enter(u)
      BY <3>3, <3>4 DEF Enter, TaskType
    <3>8. ~Read(u)
      <4>1. CASE StartOf(ini, task[u].section) = 0
        BY <3>5, <4>1 DEF Read
      <4>2. CASE StartOf(ini, task[u].section) # 0
        BY <3>3, <3>4, <4>2 DEF Read, TaskType
      <4> QED
        BY <4>1, <4>2
    <3> QED
      BY <3>2, <3>4, <3>6, <3>7, <3>8 DEF Step
  <2>2. task[t].at = "restart" /\ running' = ini
    BY <2>1 DEF Restart
  <2>3. ini = task[t].updated
    BY <2>2 DEF IndInv, Alone
  <2>4. \A j \in DOMAIN task[t].kv : Holds(task[t].updated, task[t].section, task[t].kv[j])
    BY <2>2 DEF IndInv, Edits
  <2> QED
    BY <2>2, <2>3, <2>4, Zenon
<1>2. IndInv /\ [Next]_vars => [A]_vars
  BY <1>1
<1> QED
  BY <1>2, Invariant, PTL DEF Spec, RestartApplies

\* EditIsExact, for every file and all settings: an edit of router.ini changes the
\* settings it is given, in the section, and no other line.
THEOREM EditsExact == Spec => []EditIsExact
<1>1. FilesEditExactly
  <2> SUFFICES ASSUME NEW file \in Files, NEW s \in Sections, NEW kv \in Settings,
                      StartOf(file, s) # 0
               PROVE  Exact(file, s, kv)
    BY DEF FilesEditExactly
  <2> DEFINE X == Range(file) \cup Range(kv)
  <2>1. file \in Seq(Range(file)) /\ kv \in Seq(Range(kv)) /\ Writable(kv)
    BY FilesAssumption
  <2>2. Range(file) \subseteq X /\ Range(kv) \subseteq X
    OBVIOUS
  <2> HIDE DEF X
  <2>3. file \in Seq(X) /\ kv \in Seq(X)
    BY <2>1, <2>2
  <2> QED
    BY <2>1, <2>3, EditExact
<1>2. IndInv => \A s \in Sections : StartOf(ini, s) # 0 => Exact(ini, s, Kv)
  <2> SUFFICES ASSUME IndInv, NEW s \in Sections, StartOf(ini, s) # 0
               PROVE  Exact(ini, s, Kv)
    OBVIOUS
  <2>1. ini \in Seq(FileLines) /\ Kv \in Seq(FileLines) /\ Writable(Kv)
    BY KvIs DEF IndInv, TypeOK
  <2> QED
    BY <2>1, EditExact
<1>3. IndInv => EditIsExact
  BY <1>1, <1>2 DEF EditIsExact
<1> QED
  BY <1>3, Invariant, PTL

------------------------------------------------------------------------------
(* An update is lost only to one that overlaps it, or to a write that fails. *)

\* A section is nowhere just if no line is its header.
LEMMA StartNone ==
    ASSUME NEW X, NEW A \in Seq(X), NEW s
    PROVE  StartOf(A, s) = 0 <=> \A i \in 1..Len(A) : A[i] # Header(s)
<1> DEFINE I == {i \in 1..Len(A) : A[i] = Header(s)}
<1>1. StartOf(A, s) = IF I # {} THEN Min(I) ELSE 0
  BY DEF StartOf, SelectInSeq
<1>2. CASE I = {}
  BY <1>1, <1>2
<1>3. CASE I # {}
  <2>1. I \subseteq Nat /\ 0 \notin I
    OBVIOUS
  <2>2. PICK i \in I : TRUE
    BY <1>3
  <2>3. Min(I) \in I
    <3> HIDE DEF I
    <3> QED
      BY <1>3, <2>1, MinIs
  <2> QED
    BY <1>1, <1>3, <2>1, <2>2, <2>3
<1> QED
  BY <1>2, <1>3

\* The values in a section are those in its block.
LEMMA SectionIs ==
    ASSUME NEW X, NEW P \in Seq(X), NEW B \in Seq(X), NEW R \in Seq(X), NEW s,
           Laid(s, P, B, R), NEW k
    PROVE  Values(P \o B \o R, s, k) = Entries(B, {k})
<1> DEFINE A == P \o B \o R
<1>1. StartOf(A, s) = Len(P) /\ Block(A, Len(P)) = B
  BY Reads
<1>2. Len(P) # 0
  BY DEF Laid
<1> HIDE DEF A
<1>3. Values(A, s, k) = Entries(B, {k})
  BY <1>1, <1>2 DEF Values
<1> QED
  BY <1>3 DEF A

\* What follows a header does not matter to the sections before it, ...
LEMMA InFirst ==
    ASSUME NEW X, NEW A \in Seq(X), NEW Q \in Seq(X), NEW s, StartOf(A, s) # 0,
           A[Len(A)].kind = "header", A[Len(A)] # Header(s), NEW k
    PROVE  Values(A \o Q, s, k) = Values(A, s, k)
<1>1. PICK P \in Seq(X), B \in Seq(X), R \in Seq(X) : A = P \o B \o R /\ Laid(s, P, B, R)
  BY Splits
<1>2. /\ Len(P) \in Nat /\ Len(B) \in Nat /\ Len(R) \in Nat
      /\ Len(A) = Len(P) + Len(B) + Len(R)
      /\ \A i \in 1..Len(P) : A[i] = P[i]
      /\ \A i \in 1..Len(B) : A[Len(P) + i] = B[i]
  <2> DEFINE C == P \o B \o R
  <2>1. /\ Len(P) \in Nat /\ Len(B) \in Nat /\ Len(R) \in Nat
        /\ Len(C) = Len(P) + Len(B) + Len(R)
        /\ \A i \in 1..Len(P) : C[i] = P[i]
        /\ \A i \in 1..Len(B) : C[Len(P) + i] = B[i]
    BY Threes, SMTT(30)
  <2>2. A = C
    BY <1>1
  <2> HIDE DEF C
  <2> QED
    BY <2>1, <2>2
<1>3. Len(R) > 0
  <2> SUFFICES ASSUME Len(R) = 0 PROVE FALSE
    BY <1>2
  <2>1. CASE Len(B) = 0
    <3>1. Len(A) = Len(P) /\ Len(P) \in 1..Len(P)
      BY <1>1, <1>2, <2>1 DEF Laid
    <3> QED
      BY <1>1, <1>2, <3>1 DEF Laid
  <2>2. CASE Len(B) # 0
    <3>1. Len(A) = Len(P) + Len(B) /\ Len(B) \in 1..Len(B)
      BY <1>2, <2>2
    <3> QED
      BY <1>1, <1>2, <3>1 DEF Laid
  <2> QED
    BY <2>1, <2>2
<1> DEFINE S == R \o Q
<1>4. S \in Seq(X) /\ S[1] = R[1]
  BY <1>3, ConcatProperties
<1> HIDE DEF S
<1>5. Laid(s, P, B, S)
  BY <1>1, <1>3, <1>4 DEF Laid
<1>6. A \o Q = P \o B \o S
  <2> DEFINE PB == P \o B
  <2>1. PB \in Seq(X)
    OBVIOUS
  <2> HIDE DEF PB
  <2>2. (PB \o R) \o Q = PB \o (R \o Q)
    BY <2>1, Joined, SMTT(30)
  <2> QED
    BY <1>1, <2>2 DEF PB, S
<1>7. Values(P \o B \o S, s, k) = Entries(B, {k})
  BY <1>4, <1>5, SectionIs
<1>8. Values(P \o B \o R, s, k) = Entries(B, {k})
  BY <1>1, SectionIs
<1> QED
  BY <1>1, <1>6, <1>7, <1>8, Zenon

\* ... and what goes before does not matter to one that has no header there.
LEMMA InLast ==
    ASSUME NEW X, NEW A \in Seq(X), NEW Q \in Seq(X), NEW s, StartOf(A, s) = 0,
           StartOf(Q, s) # 0, NEW k
    PROVE  Values(A \o Q, s, k) = Values(Q, s, k)
<1>1. PICK P \in Seq(X), B \in Seq(X), R \in Seq(X) : Q = P \o B \o R /\ Laid(s, P, B, R)
  BY Splits
<1> DEFINE S == A \o P
<1>2. /\ S \in Seq(X) /\ Len(S) = Len(A) + Len(P)
      /\ \A i \in 1..Len(A) + Len(P) : S[i] = IF i <= Len(A) THEN A[i] ELSE P[i - Len(A)]
  BY ConcatProperties
<1>3. A \o Q = S \o B \o R
  <2>1. A \o (P \o B) = (A \o P) \o B
    BY Joined, SMTT(30)
  <2> DEFINE PB == P \o B
  <2>2. PB \in Seq(X)
    OBVIOUS
  <2> HIDE DEF PB
  <2>3. (A \o PB) \o R = A \o (PB \o R)
    BY <2>2, Joined, SMTT(30)
  <2> QED
    BY <1>1, <2>1, <2>3 DEF PB
<1> HIDE DEF S
<1>4. Laid(s, S, B, R)
  <2>0. Len(A) \in Nat /\ Len(P) \in Nat /\ Len(P) > 0
    BY <1>1 DEF Laid
  <2>1. Len(S) > 0 /\ S[Len(S)] = Header(s)
    <3> DEFINE l == Len(S)
    <3>1. l \in 1..Len(A) + Len(P) /\ ~(l <= Len(A)) /\ l - Len(A) = Len(P) /\ l > 0
      BY <1>2, <2>0
    <3> HIDE DEF l
    <3>2. S[l] = P[Len(P)]
      BY <1>2, <3>1
    <3>3. P[Len(P)] = Header(s)
      BY <1>1 DEF Laid
    <3> QED
      BY <3>1, <3>2, <3>3 DEF l
  <2>2. ASSUME NEW i \in 1..Len(S) - 1 PROVE S[i] # Header(s)
    <3>1. i \in 1..Len(A) + Len(P)
      BY <1>2, <2>0
    <3>2. CASE i <= Len(A)
      <4>1. i \in 1..Len(A) /\ S[i] = A[i]
        BY <1>2, <2>0, <3>1, <3>2
      <4> QED
        BY <4>1, StartNone
    <3>3. CASE ~(i <= Len(A))
      <4>1. i - Len(A) \in 1..Len(P) - 1 /\ S[i] = P[i - Len(A)]
        BY <1>2, <2>0, <3>1, <3>3
      <4> QED
        BY <1>1, <4>1 DEF Laid
    <3> QED
      BY <3>2, <3>3
  <2> QED
    BY <1>1, <2>1, <2>2 DEF Laid
<1>5. Values(S \o B \o R, s, k) = Entries(B, {k})
  BY <1>2, <1>4, SectionIs
<1>6. Values(P \o B \o R, s, k) = Entries(B, {k})
  BY <1>1, SectionIs
<1> QED
  BY <1>1, <1>3, <1>5, <1>6, Zenon

\* A section that is in neither of two files is not in them together.
LEMMA Nowhere ==
    ASSUME NEW X, NEW A \in Seq(X), NEW Q \in Seq(X), NEW s,
           StartOf(A, s) = 0, StartOf(Q, s) = 0
    PROVE  StartOf(A \o Q, s) = 0
<1> DEFINE S == A \o Q
<1>1. /\ S \in Seq(X) /\ Len(S) = Len(A) + Len(Q)
      /\ \A i \in 1..Len(A) + Len(Q) : S[i] = IF i <= Len(A) THEN A[i] ELSE Q[i - Len(A)]
  BY ConcatProperties
<1>2. Len(A) \in Nat /\ Len(Q) \in Nat
  OBVIOUS
<1> HIDE DEF S
<1>3. ASSUME NEW i \in 1..Len(S) PROVE S[i] # Header(s)
  <2>1. CASE i <= Len(A)
    <3>1. i \in 1..Len(A) /\ S[i] = A[i]
      BY <1>1, <1>2, <2>1
    <3> QED
      BY <3>1, StartNone
  <2>2. CASE ~(i <= Len(A))
    <3>1. i - Len(A) \in 1..Len(Q) /\ S[i] = Q[i - Len(A)]
      BY <1>1, <1>2, <2>2
    <3> QED
      BY <3>1, StartNone
  <2> QED
    BY <2>1, <2>2
<1>4. StartOf(S, s) = 0
  BY <1>1, <1>3, StartNone
<1> QED
  BY <1>4 DEF S

\* So the values of any other section do not depend on the block that is edited.
LEMMA Elsewhere ==
    ASSUME NEW X, NEW P \in Seq(X), NEW B \in Seq(X), NEW R \in Seq(X), NEW s,
           Laid(s, P, B, R), NEW other, other # s, NEW k
    PROVE  Values(P \o B \o R, other, k) =
              IF StartOf(P, other) # 0 THEN Values(P, other, k) ELSE Values(R, other, k)
<1>0. Len(P) \in Nat /\ Len(P) > 0 /\ P[Len(P)] = Header(s)
  BY DEF Laid
<1>1. CASE StartOf(P, other) # 0
  <2> DEFINE Q == B \o R
  <2>1. Q \in Seq(X)
    OBVIOUS
  <2>2. P[Len(P)].kind = "header" /\ P[Len(P)] # Header(other)
    BY <1>0 DEF Header
  <2>3. P \o B \o R = P \o Q
    BY Joined, SMTT(30)
  <2> HIDE DEF Q
  <2>4. Values(P \o Q, other, k) = Values(P, other, k)
    BY <1>1, <2>1, <2>2, InFirst
  <2> QED
    BY <1>1, <2>3, <2>4, Zenon
<1>2. CASE StartOf(P, other) = 0
  <2> DEFINE Q == P \o B
  <2>1. Q \in Seq(X)
    OBVIOUS
  <2>2. StartOf(B, other) = 0
    <3>1. \A i \in 1..Len(B) : B[i] # Header(other)
      BY DEF Laid, Header
    <3> QED
      BY <3>1, StartNone
  <2>3. StartOf(Q, other) = 0
    BY <1>2, <2>2, Nowhere
  <2> HIDE DEF Q
  <2>4. Values(Q \o R, other, k) = Values(R, other, k)
    <3>1. CASE StartOf(R, other) # 0
      BY <2>1, <2>3, <3>1, InLast
    <3>2. CASE StartOf(R, other) = 0
      <4>1. StartOf(Q \o R, other) = 0
        BY <2>1, <2>3, <3>2, Nowhere
      <4> QED
        BY <3>2, <4>1 DEF Values
    <3> QED
      BY <3>1, <3>2
  <2> QED
    BY <1>2, <2>4, Zenon DEF Q
<1> QED
  BY <1>1, <1>2

\* An edit of one section leaves the values in all others.
LEMMA OtherSections ==
    ASSUME NEW X, NEW A \in Seq(X), NEW s, StartOf(A, s) # 0,
           NEW kv \in Seq(X), Writable(kv), NEW other, other # s, NEW k
    PROVE  Values(Upsert(A, s, kv), other, k) = Values(A, other, k)
<1>1. PICK P \in Seq(X), B \in Seq(X), R \in Seq(X) : A = P \o B \o R /\ Laid(s, P, B, R)
  BY Splits
<1> DEFINE new == Result(EditLines(B, kv))
<1>2. Upsert(P \o B \o R, s, kv) = P \o new \o R /\ new \in Seq(X) /\ Laid(s, P, new, R)
  BY <1>1, UpsertLaid, SMTT(30)
<1> HIDE DEF new
<1> DEFINE v == IF StartOf(P, other) # 0 THEN Values(P, other, k) ELSE Values(R, other, k)
<1>3. Values(P \o B \o R, other, k) = v
  BY <1>1, Elsewhere
<1>4. Values(P \o new \o R, other, k) = v
  BY <1>2, Elsewhere
<1> QED
  BY <1>1, <1>2, <1>3, <1>4, Zenon

\* A task's step is that task's alone, and it keeps what it was asked.
LEMMA StepIs ==
    ASSUME IndInv, NEW t \in Tasks, Step(t)
    PROVE  /\ Active(t) /\ task'[t].at # "none"
           /\ task'[t].section = task[t].section /\ task'[t].kv = task[t].kv
           /\ \A u \in Tasks : u # t => task'[u] = task[u]
           /\ overlapped' = overlapped
<1>1. TypeOK
  BY DEF IndInv
<1>2. task \in [Tasks -> TaskType]
  BY <1>1 DEF TypeOK, TaskType, Ats
<1>3. ASSUME NEW at \in Ats, at # "none", Move(t, at)
      PROVE  /\ task'[t].at # "none"
             /\ task'[t].section = task[t].section /\ task'[t].kv = task[t].kv
             /\ \A u \in Tasks : u # t => task'[u] = task[u]
  BY <1>1, <1>3, Moved
<1>4. Active(t) /\ overlapped' = overlapped
  BY DEF Step, Read, ReadFails, Truncate, Write, WriteFails, Restart, RestartFails, Active,
         UnderWay
<1>5. CASE Read(t)
  <2>1. CASE StartOf(ini, task[t].section) = 0
    <3>1. Move(t, "no section") /\ "no section" \in Ats
      BY <1>5, <2>1 DEF Read, Ats
    <3> QED
      BY <1>3, <1>4, <3>1
  <2>2. CASE StartOf(ini, task[t].section) # 0
    <3> DEFINE new == Upsert(ini, task[t].section, task[t].kv)
    <3>1. task' = [task EXCEPT ![t].at = "write", ![t].updated = new]
      BY <1>5, <2>2 DEF Read
    <3> HIDE DEF new
    <3> QED
      BY <1>2, <1>4, <3>1 DEF TaskType
  <2> QED
    BY <2>1, <2>2
<1>6. CASE ~Read(t)
  <2>1. PICK at \in Ats : at # "none" /\ Move(t, at)
    BY <1>6 DEF Step, ReadFails, Truncate, Write, WriteFails, Restart, RestartFails, Ats,
                UnderWay, Updated
  <2> QED
    BY <1>3, <1>4, <2>1
<1> QED
  BY <1>5, <1>6

\* A step that concerns no task keeps its settings where they are.
LEMMA OrderUnmoved ==
    ASSUME KeptInv, UNCHANGED <<ini, task, overlapped>>
    PROVE  InOrder' /\ Survives'
<1>1. InOrder'
  BY DEF KeptInv, InOrder, Active
<1>2. Survives'
  BY DEF KeptInv, Survives, InPlace, Holding, NotOvertaken
<1> QED
  BY <1>1, <1>2

\* Tasks come one after the other.
LEMMA OrderEntered ==
    ASSUME KeptInv, NEW t \in Tasks, Enter(t)
    PROVE  InOrder'
<1>1. /\ task' \in [Tasks -> TaskType]
      /\ task'[t].at = "read" /\ task'[t].section # "None"
      /\ \A u \in Tasks : u # t => task'[u] = task[u]
  <2>1. task \in [Tasks -> TaskType] /\ active_model \in Sections /\ Kv \in Seq(FileLines)
    BY KvIs DEF KeptInv, IndInv, TypeOK, TaskType, Ats, Enter
  <2>0. <<>> \in Seq(FileLines) /\ "read" \in Ats
    BY DEF Ats, UnderWay
  <2> DEFINE new == [at |-> "read", section |-> active_model, kv |-> Kv, updated |-> <<>>]
  <2>2. new \in TaskType
    <3> HIDE DEF FileLines
    <3> QED
      BY <2>0, <2>1 DEF TaskType
  <2>3. new.at = "read" /\ new.section # "None"
    BY DEF Enter
  <2>4. task' = [task EXCEPT ![t] = new]
    BY DEF Enter
  <2> HIDE DEF new
  <2> QED
    BY <2>1, <2>2, <2>3, <2>4
<1>2. \A u \in Tasks : u > t => task[u].at = "none"
  BY DEF KeptInv, InOrder, Enter, Tasks
<1>3. /\ \A u \in Tasks : Active(u) => overlapped'
      /\ \A u \in Tasks : u < t => task[u].at # "none"
      /\ overlapped => overlapped'
  BY DEF Enter
<1>4. ASSUME NEW u \in Tasks
      PROVE  IF task'[u].at = "none" THEN task'[u] = Idle ELSE task'[u].section # "None"
  BY <1>1 DEF KeptInv, InOrder
<1>5. ASSUME NEW v \in Tasks, NEW u \in Tasks, u < v, task'[v].at # "none"
      PROVE  task'[u].at # "none" /\ (Active(u)' => overlapped')
  <2>1. u \in Nat /\ v \in Nat /\ t \in Nat
    BY DEF Tasks
  <2>2. v = t \/ task[v].at # "none"
    BY <1>1, <1>5
  <2>3. ~(v > t)
    BY <1>1, <1>2, <1>5, <2>1
  <2>4. u # t /\ u < t
    BY <1>5, <2>1, <2>3
  <2> QED
    BY <1>1, <1>3, <2>4 DEF Active
<1> QED
  BY <1>4, <1>5 DEF InOrder

\* A new task has done nothing yet; the one it replaces in its section no longer counts.
LEMMA SurvivesEntered ==
    ASSUME KeptInv, NEW t \in Tasks, Enter(t)
    PROVE  Survives'
<1>1. /\ task'[t].at = "read" /\ \A u \in Tasks : u # t => task'[u] = task[u]
  BY DEF KeptInv, IndInv, TypeOK, Enter
<1>2. task[t].at = "none" /\ ini' = ini /\ (overlapped => overlapped') /\ InOrder
  BY DEF Enter, KeptInv
<1> SUFFICES ASSUME ~overlapped', \A u \in Tasks : task'[u].at # "not written",
                    NEW v \in Tasks, task'[v].at \in Updated, NotOvertaken(v)'
             PROVE  /\ InPlace' => Holding(ini, v)'
                    /\ \A u \in Tasks :
                          task'[u].at \in {"write", "writing"} => Holding(task[u].updated, v)'
  BY DEF Survives
<1>3. v # t /\ task'[v] = task[v]
  BY <1>1 DEF Updated
<1>4. task[t].section = "None" /\ task[v].section # "None"
  <2>1. task[t] = Idle
    BY <1>2 DEF InOrder
  <2>2. task[v].at # "none"
    BY <1>3 DEF Updated
  <2>3. task[t].section = "None"
    <3>1. Idle.section = "None"
      BY DEF Idle
    <3> QED
      BY <2>1, <3>1, Zenon
  <2>4. task[v].section # "None"
    BY <1>2, <2>2 DEF InOrder
  <2> QED
    BY <2>3, <2>4
<1>5. NotOvertaken(v)
  BY <1>1, <1>3, <1>4 DEF NotOvertaken
<1>6. \A u \in Tasks : task[u].at # "not written"
  BY <1>1, <1>2
<1>7. /\ InPlace => Holding(ini, v)
      /\ \A u \in Tasks : task[u].at \in {"write", "writing"} => Holding(task[u].updated, v)
  BY <1>2, <1>3, <1>5, <1>6 DEF KeptInv, Survives
<1>8. InPlace' => InPlace
  BY <1>1, <1>2 DEF InPlace
<1>9. Holding(ini, v) => Holding(ini, v)'
  BY <1>2, <1>3 DEF Holding
<1>10. ASSUME NEW u \in Tasks, task'[u].at \in {"write", "writing"}
       PROVE  Holding(task[u].updated, v)'
  <2>1. u # t /\ task'[u] = task[u]
    BY <1>1, <1>10
  <2>2. Holding(task[u].updated, v)
    BY <1>7, <1>10, <2>1
  <2> QED
    BY <1>3, <2>1, <2>2 DEF Holding
<1> QED
  BY <1>7, <1>8, <1>9, <1>10

\* A task's step changes nothing in their order.
LEMMA OrderStep ==
    ASSUME KeptInv, NEW t \in Tasks, Step(t)
    PROVE  InOrder'
<1>1. IndInv /\ InOrder
  BY DEF KeptInv
<1>2. /\ Active(t) /\ task'[t].at # "none"
      /\ task'[t].section = task[t].section
      /\ \A u \in Tasks : u # t => task'[u] = task[u]
      /\ overlapped' = overlapped
  BY <1>1, StepIs
<1>3. task[t].at # "none" /\ task[t].section # "None"
  BY <1>1, <1>2 DEF Active, UnderWay, InOrder
<1>4. ASSUME NEW u \in Tasks
      PROVE  IF task'[u].at = "none" THEN task'[u] = Idle ELSE task'[u].section # "None"
  BY <1>1, <1>2, <1>3 DEF InOrder
<1>5. ASSUME NEW v \in Tasks, NEW u \in Tasks, u < v, task'[v].at # "none"
      PROVE  task'[u].at # "none" /\ (Active(u)' => overlapped')
  <2>1. task[v].at # "none"
    BY <1>2, <1>3, <1>5
  <2>2. task[u].at # "none" /\ (Active(u) => overlapped)
    BY <1>1, <1>5, <2>1 DEF InOrder
  <2>3. CASE u = t
    BY <1>2, <2>2, <2>3
  <2>4. CASE u # t
    BY <1>2, <2>2, <2>4 DEF Active
  <2> QED
    BY <2>3, <2>4
<1> QED
  BY <1>4, <1>5 DEF InOrder

\* Tasks are numbered.
LEMMA TasksAre == ASSUME NEW t \in Tasks PROVE t \in Nat
BY EntersAssumption DEF Tasks

\* Of two numbers the one that is not before the other is after it.
LEMMA After == ASSUME NEW a \in Nat, NEW b \in Nat, a # b, ~(a < b) PROVE a > b
OBVIOUS

\* A setting that is in two files' section alike is held by both.
LEMMA HeldAlike ==
    ASSUME NEW lines, NEW other, NEW t \in Tasks, Holding(lines, t),
           \A k : Values(other, task[t].section, k) = Values(lines, task[t].section, k)
    PROVE  Holding(other, t)
<1> SUFFICES ASSUME NEW i \in DOMAIN task[t].kv
             PROVE  Holds(other, task[t].section, task[t].kv[i])
  BY DEF Holding
<1> DEFINE e == task[t].kv[i]
<1>1. Holds(lines, task[t].section, e)
  BY DEF Holding
<1> HIDE DEF e
<1>2. Values(other, task[t].section, e.name) = Values(lines, task[t].section, e.name)
  OBVIOUS
<1>3. Holds(other, task[t].section, e)
  BY <1>1, <1>2 DEF Holds
<1> QED
  BY <1>3 DEF e

\* What a task makes of the file it has read holds the settings of another section.
LEMMA ReadHolds ==
    ASSUME IndInv, NEW t \in Tasks, NEW v \in Tasks, StartOf(ini, task[t].section) # 0,
           task[t].section # task[v].section, Holding(ini, v)
    PROVE  Holding(Upsert(ini, task[t].section, task[t].kv), v)
<1> DEFINE X == FileLines
           s == task[t].section
           kv == task[t].kv
           other == task[v].section
<1>1. ini \in Seq(X) /\ kv \in Seq(X) /\ Writable(kv)
  BY DEF IndInv, TypeOK, Edits
<1>2. StartOf(ini, s) # 0 /\ other # s
  OBVIOUS
<1> HIDE DEF X, s, kv, other
<1>3. \A k : Values(Upsert(ini, s, kv), other, k) = Values(ini, other, k)
  BY <1>1, <1>2, OtherSections
<1> DEFINE new == Upsert(ini, s, kv)
<1> HIDE DEF new
<1>4. \A k : Values(new, task[v].section, k) = Values(ini, task[v].section, k)
  BY <1>3 DEF new, other
<1>5. Holding(new, v)
  BY <1>4, HeldAlike
<1> QED
  BY <1>5 DEF new, s, kv

\* What is held stays held while the task and the lines are the same.
LEMMA HeldOn ==
    ASSUME NEW lines, NEW t \in Tasks, Holding(lines, t), NEW new,
           task'[t].section = task[t].section, task'[t].kv = task[t].kv, new = lines
    PROVE  \A i \in DOMAIN task'[t].kv : Holds(new, task'[t].section, task'[t].kv[i])
BY DEF Holding

\* A read that finds the section makes an edit of the file; nothing else changes what a
\* task holds.
LEMMA WhatIsHeld ==
    ASSUME IndInv, NEW t \in Tasks, Step(t)
    PROVE  \/ /\ Read(t) /\ StartOf(ini, task[t].section) # 0
              /\ task'[t].at = "write"
              /\ task'[t].updated = Upsert(ini, task[t].section, task[t].kv)
           \/ ~(Read(t) /\ StartOf(ini, task[t].section) # 0)
              /\ task'[t].updated = task[t].updated
<1>1. TypeOK /\ task \in [Tasks -> TaskType]
  BY DEF IndInv, TypeOK, TaskType, Ats
<1>2. CASE Read(t) /\ StartOf(ini, task[t].section) # 0
  <2> DEFINE new == Upsert(ini, task[t].section, task[t].kv)
  <2>1. task' = [task EXCEPT ![t].at = "write", ![t].updated = new]
    BY <1>2 DEF Read
  <2> HIDE DEF new
  <2>2. task'[t].at = "write" /\ task'[t].updated = new
    BY <1>1, <2>1 DEF TaskType
  <2> QED
    BY <1>2, <2>2 DEF new
<1>3. CASE ~(Read(t) /\ StartOf(ini, task[t].section) # 0)
  <2>1. PICK at \in Ats : Move(t, at)
    BY <1>3 DEF Step, Read, ReadFails, Truncate, Write, WriteFails, Restart, RestartFails, Ats,
                UnderWay, Updated
  <2> QED
    BY <1>1, <1>3, <2>1, Moved
<1> QED
  BY <1>2, <1>3

\* Where a step leaves the task says what it has done to the file.
LEMMA WhatIsDone ==
    ASSUME IndInv, NEW t \in Tasks, Step(t), task'[t].at # "not written"
    PROVE  \/ task[t].at = "writing" /\ task'[t].at = "restart"
              /\ ini' = task[t].updated \o SubSeq(ini, Len(task[t].updated) + 1, Len(ini))
           \/ task[t].at = "write" /\ task'[t].at = "writing"
           \/ task[t].at \in {"read", "write", "restart"} /\ ini' = ini
              /\ (task'[t].at \in Updated => task[t].at = "restart")
              /\ (task'[t].at \in {"write", "writing"} => task[t].at = "read")
<1>1. TypeOK /\ task \in [Tasks -> TaskType]
  BY DEF IndInv, TypeOK, TaskType, Ats
<1>2. ASSUME NEW at \in Ats, Move(t, at) PROVE task'[t].at = at
  BY <1>1, <1>2, Moved
<1>3. CASE Read(t)
  <2>1. task'[t].at \in {"no section", "write"}
    <3>1. CASE StartOf(ini, task[t].section) = 0
      BY <1>2, <1>3, <3>1 DEF Read, Ats
    <3>2. CASE StartOf(ini, task[t].section) # 0
      BY <1>3, <3>2, WhatIsHeld
    <3> QED
      BY <3>1, <3>2
  <2> QED
    BY <1>3, <2>1 DEF Read, Updated
<1>4. CASE ReadFails(t)
  BY <1>2, <1>4 DEF ReadFails, Ats, Updated
<1>5. CASE Truncate(t)
  BY <1>2, <1>5 DEF Truncate, Ats, UnderWay
<1>6. CASE Write(t)
  BY <1>2, <1>6 DEF Write, Ats, UnderWay
<1>7. CASE WriteFails(t)
  <2>1. task[t].at = "write" /\ Move(t, "not opened") /\ ini' = ini
    BY <1>2, <1>7 DEF WriteFails, Ats
  <2> QED
    BY <1>2, <2>1 DEF Ats, Updated
<1>8. CASE Restart(t)
  BY <1>2, <1>8 DEF Restart, Ats, Updated
<1>9. CASE RestartFails(t)
  BY <1>2, <1>9 DEF RestartFails, Ats, Updated
<1> QED
  BY <1>3, <1>4, <1>5, <1>6, <1>7, <1>8, <1>9 DEF Step

\* A task alone that is over with its write has its settings in the file.
LEMMA OwnSettings ==
    ASSUME KeptInv, NEW t \in Tasks, Step(t), IndInv', ~overlapped', task'[t].at \in Updated
    PROVE  /\ Holding(ini, t)'
           /\ \A u \in Tasks : task'[u].at \notin {"write", "writing"}
<1>1. IndInv
  BY DEF KeptInv
<1>2. /\ Active(t) /\ task'[t].section = task[t].section /\ task'[t].kv = task[t].kv
      /\ \A u \in Tasks : u # t => task'[u] = task[u]
      /\ ~overlapped
  BY <1>1, StepIs
<1>3. Alone
  BY <1>1, <1>2 DEF IndInv
<1>4. ini' = task[t].updated /\ task[t].at \in {"writing", "restart"}
  <2> DEFINE new == task[t].updated
  <2>1. task'[t].at # "not written"
    BY DEF Updated
  <2>2. CASE task[t].at = "writing" /\ ini' = new \o SubSeq(ini, Len(new) + 1, Len(ini))
    <3>1. ini = <<>>
      BY <1>3, <2>2 DEF Alone
    <3>2. new \in Seq(FileLines) /\ ini \in Seq(FileLines)
      BY <1>1 DEF IndInv, TypeOK
    <3> HIDE DEF new
    <3>3. ini' = new
      BY <2>2, <3>1, <3>2, Written
    <3> QED
      BY <2>2, <3>3 DEF new
  <2>3. CASE ini' = ini /\ task[t].at = "restart"
    BY <1>3, <2>3 DEF Alone
  <2>4. task'[t].at # "writing"
    BY DEF Updated
  <2> HIDE DEF new
  <2> QED
    BY <1>1, <2>1, <2>2, <2>3, <2>4, WhatIsDone DEF new
<1>5. Holding(task[t].updated, t)
  BY <1>1, <1>4 DEF IndInv, Edits, Holding
<1>6. Holding(ini, t)'
  <2>1. \A i \in DOMAIN task'[t].kv : Holds(ini', task'[t].section, task'[t].kv[i])
    BY <1>2, <1>4, <1>5, HeldOn
  <2> QED
    BY <2>1 DEF Holding
<1>7. ASSUME NEW u \in Tasks, task'[u].at \in {"write", "writing"} PROVE FALSE
  <2>1. u # t
    BY <1>7 DEF Updated
  <2>2. Active(u)
    BY <1>2, <1>7, <2>1 DEF Active, UnderWay
  <2> QED
    BY <1>2, <1>3, <2>1, <2>2 DEF Alone
<1> QED
  BY <1>6, <1>7

\* A task alone after another one leaves the other's settings in the file: either it
\* writes into another section, or the other one is overtaken.
LEMMA OthersSettings ==
    ASSUME KeptInv, NEW t \in Tasks, Step(t), IndInv', ~overlapped',
           \A u \in Tasks : task'[u].at # "not written",
           NEW v \in Tasks, v # t, task'[v].at \in Updated, NotOvertaken(v)'
    PROVE  /\ InPlace' => Holding(ini, v)'
           /\ \A u \in Tasks : task'[u].at \in {"write", "writing"} => Holding(task[u].updated, v)'
<1>1. IndInv /\ InOrder /\ Survives
  BY DEF KeptInv
<1>2. /\ Active(t) /\ task'[t].section = task[t].section
      /\ \A u \in Tasks : u # t => task'[u] = task[u]
      /\ ~overlapped /\ task'[v] = task[v]
  BY <1>1, StepIs
<1>3. Alone
  BY <1>1, <1>2 DEF IndInv
<1>4. \A u \in Tasks : u # t => ~Active(u)
  BY <1>2, <1>3 DEF Alone
<1>5. t > v /\ task[t].section # task[v].section
  <2>1. t \in Nat /\ v \in Nat
    BY TasksAre, Zenon
  <2>2. task[v].at # "none"
    BY <1>2 DEF Updated
  <2>3. ~(t < v)
    BY <1>1, <1>2, <2>2 DEF InOrder
  <2>4. t > v
    BY <2>1, <2>3, After, Zenon
  <2>5. task'[t].section # task'[v].section
    BY <2>4 DEF NotOvertaken
  <2> QED
    BY <1>2, <2>4, <2>5
<1>6. NotOvertaken(v)
  <2>1. ASSUME NEW u \in Tasks, u > v PROVE task[u].section # task[v].section
    <3>1. CASE u = t
      BY <1>5, <3>1
    <3>2. CASE u # t
      <4>1. task'[u].section # task'[v].section
        BY <2>1 DEF NotOvertaken
      <4> QED
        BY <1>2, <3>2, <4>1
    <3> QED
      BY <3>1, <3>2
  <2> QED
    BY <2>1 DEF NotOvertaken
<1>7. \A u \in Tasks : task[u].at # "not written"
  BY <1>2 DEF Active, UnderWay
<1>8. /\ InPlace => Holding(ini, v)
      /\ \A u \in Tasks : task[u].at \in {"write", "writing"} => Holding(task[u].updated, v)
  BY <1>1, <1>2, <1>6, <1>7 DEF Survives
<1>9. task[t].at # "writing" => InPlace
  BY <1>4, <1>7 DEF InPlace, Active, UnderWay
<1>10. ASSUME InPlace' PROVE Holding(ini, v)'
  <2> DEFINE new == task[t].updated
  <2>1. task'[t].at \notin {"writing", "not written"}
    BY <1>10 DEF InPlace
  <2>2. \E lines : Holding(lines, v) /\ ini' = lines
    <3>1. CASE task[t].at = "writing" /\ ini' = new \o SubSeq(ini, Len(new) + 1, Len(ini))
      <4>1. ini = <<>> /\ Holding(new, v)
        BY <1>3, <1>8, <3>1 DEF Alone
      <4>2. new \in Seq(FileLines) /\ ini \in Seq(FileLines)
        BY <1>1 DEF IndInv, TypeOK
      <4> HIDE DEF new
      <4>3. ini' = new
        BY <3>1, <4>1, <4>2, Written
      <4> QED
        BY <4>1, <4>3
    <3>2. CASE task[t].at \in {"read", "write", "restart"} /\ ini' = ini
      <4>1. Holding(ini, v)
        BY <1>8, <1>9, <3>2
      <4> QED
        BY <3>2, <4>1
    <3> HIDE DEF new
    <3> QED
      BY <1>1, <2>1, <3>1, <3>2, WhatIsDone DEF new
  <2>3. PICK lines : Holding(lines, v) /\ ini' = lines
    BY <2>2
  <2>4. \A i \in DOMAIN task'[v].kv : Holds(ini', task'[v].section, task'[v].kv[i])
    BY <1>2, <2>3, HeldOn
  <2> QED
    BY <2>4 DEF Holding
<1>11. ASSUME NEW u \in Tasks, task'[u].at \in {"write", "writing"}
       PROVE  Holding(task[u].updated, v)'
  <2>1. u = t
    BY <1>2, <1>4, <1>11 DEF Active, UnderWay
  <2>2. Holding(task'[t].updated, v)
    <3>1. CASE Read(t) /\ StartOf(ini, task[t].section) # 0
      <4>1. /\ task'[t].updated = Upsert(ini, task[t].section, task[t].kv)
            /\ task[t].at = "read"
        BY <1>1, <3>1, WhatIsHeld DEF Read
      <4>2. Holding(ini, v)
        BY <1>8, <1>9, <4>1
      <4>3. Holding(Upsert(ini, task[t].section, task[t].kv), v)
        BY <1>1, <1>5, <3>1, <4>2, ReadHolds
      <4> QED
        BY <4>1, <4>3
    <3>2. CASE ~(Read(t) /\ StartOf(ini, task[t].section) # 0)
      <4>1. task'[t].updated = task[t].updated
        BY <1>1, <3>2, WhatIsHeld
      <4>2. task[t].at = "write"
        <5>1. task[t].at # "read"
          <6>1. CASE task[t].at = "read"
            <7>1. Read(t) \/ ReadFails(t)
              BY <6>1 DEF Step, Truncate, Write, WriteFails, Restart, RestartFails
            <7>2. PICK at \in {"no section", "no file"} : Move(t, at)
              BY <3>2, <7>1 DEF Read, ReadFails
            <7>3. task'[t].at = at
              BY <1>1, <7>2, Moved DEF IndInv, Ats
            <7> QED
              BY <1>11, <2>1, <7>2, <7>3
          <6> QED
            BY <6>1
        <5> QED
          BY <1>1, <1>11, <2>1, <5>1, WhatIsDone
      <4> QED
        BY <1>8, <4>1, <4>2
    <3> QED
      BY <3>1, <3>2
  <2>3. \A i \in DOMAIN task'[v].kv : Holds(task'[t].updated, task'[v].section, task'[v].kv[i])
    BY <1>2, <2>2, HeldOn
  <2> QED
    BY <2>1, <2>3 DEF Holding
<1> QED
  BY <1>10, <1>11

\* KeptInv holds for ever.
LEMMA KeptOn == KeptInv /\ [Next]_vars => KeptInv'
<1> SUFFICES ASSUME KeptInv, [Next]_vars PROVE KeptInv'
  OBVIOUS
<1>1. IndInv'
  BY Inductive DEF KeptInv
<1>2. InOrder' /\ Survives'
  <2>1. CASE UNCHANGED <<ini, task, overlapped>>
    BY <2>1, OrderUnmoved
  <2>2. ASSUME NEW t \in Tasks, Enter(t) PROVE InOrder' /\ Survives'
    BY <2>2, OrderEntered, SurvivesEntered
  <2>3. ASSUME NEW t \in Tasks, Step(t) PROVE InOrder' /\ Survives'
    <3>1. ASSUME ~overlapped', \A u \in Tasks : task'[u].at # "not written",
                 NEW v \in Tasks, task'[v].at \in Updated, NotOvertaken(v)'
          PROVE  /\ InPlace' => Holding(ini, v)'
                 /\ \A u \in Tasks :
                       task'[u].at \in {"write", "writing"} => Holding(task[u].updated, v)'
      <4>1. CASE v = t
        <5>1. Holding(ini, t)' /\ \A u \in Tasks : task'[u].at \notin {"write", "writing"}
          BY <1>1, <2>3, <3>1, <4>1, OwnSettings
        <5> QED
          BY <4>1, <5>1
      <4>2. CASE v # t
        BY <1>1, <2>3, <3>1, <4>2, OthersSettings
      <4> QED
        BY <4>1, <4>2
    <3>2. Survives'
      BY <3>1 DEF Survives
    <3> QED
      BY <2>3, <3>2, OrderStep
  <2> QED
    BY <2>1, <2>2, <2>3 DEF Next, vars, Toggle, Tune, SetActive, Quit, RouterRestart
<1> QED
  BY <1>1, <1>2 DEF KeptInv

\* LoneUpdatesSurvive, for every router.ini and every number of applies: an update that
\* was reported is in the file for good, in whatever order the tasks end, unless another
\* one overlapped, a write failed or a later apply replaced it.
THEOREM LostOnlyToOverlap == Spec => []LoneUpdatesSurvive
<1>1. Init => KeptInv
  <2> SUFFICES ASSUME Init PROVE KeptInv
    OBVIOUS
  <2>1. \A t \in Tasks : task[t] = Idle /\ task[t].at = "none"
    BY DEF Init, Idle
  <2>2. InOrder
    BY <2>1 DEF InOrder
  <2>3. Survives
    BY <2>1 DEF Survives, Updated
  <2> QED
    BY <2>2, <2>3, Initially DEF KeptInv
<1>2. KeptInv => LoneUpdatesSurvive
  <2> SUFFICES ASSUME KeptInv, ~overlapped, \A t \in Tasks : ~Active(t),
                      \A t \in Tasks : task[t].at # "not written",
                      NEW v \in Tasks, task[v].at \in Updated,
                      \A u \in Tasks : u > v => task[u].section # task[v].section
               PROVE  \A i \in DOMAIN task[v].kv : Holds(ini, task[v].section, task[v].kv[i])
    BY DEF LoneUpdatesSurvive, UpdatesSurvive
  <2>1. InPlace
    BY DEF InPlace, Active, UnderWay
  <2>2. NotOvertaken(v)
    BY DEF NotOvertaken
  <2>3. Holding(ini, v)
    BY <2>1, <2>2 DEF KeptInv, Survives
  <2> QED
    BY <2>3 DEF Holding
<1> QED
  BY <1>1, <1>2, KeptOn, PTL DEF Spec
=============================================================================
