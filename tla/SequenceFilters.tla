--------------------------- MODULE SequenceFilters ---------------------------
(***************************************************************************)
(* Filtering a sequence, as Array.filter() does, and what it keeps.        *)
(*                                                                         *)
(* The filter is a recursive function, so that its meaning can be proved:  *)
(* what holds of every prefix is shown by the least number for which it    *)
(* would not.                                                              *)
(***************************************************************************)
EXTENDS Naturals, Sequences, SequencesExt, Functions, WellFoundedInduction, TLAPS

(* The elements of s that are in T, in their order.                         *)
KeepIn(s, T) ==
    LET kept[n \in 0..Len(s)] ==
            IF n = 0 THEN <<>>
            ELSE IF s[n] \in T THEN Append(kept[n - 1], s[n]) ELSE kept[n - 1]
    IN  kept[Len(s)]

(* Step, a function, applied n times over.                                  *)
Iterated(n, base, step) ==
    LET after[k \in 0..n] == IF k = 0 THEN base ELSE step[after[k - 1]]
    IN  after[n]

(* The numbers 1..n in the order of R, a set of pairs.                      *)
Sorts(f, n, R) ==
    /\ f \in [1..n -> 1..n] /\ Range(f) = 1..n
    /\ \A i, j \in 1..n : i < j => <<f[i], f[j]>> \in R

Ordering(n, R) == CHOOSE f \in [1..n -> 1..n] : Sorts(f, n, R)

-----------------------------------------------------------------------------

(* Induction over the numbers, for a set of them.                           *)
LEMMA SetInduction ==
    ASSUME NEW A, 0 \in A, \A n \in Nat : n \in A => n + 1 \in A
    PROVE  Nat \subseteq A
<1> DEFINE missing == Nat \ A
<1> SUFFICES ASSUME missing # {} PROVE FALSE
  OBVIOUS
<1>1. PICK x \in missing : \A y \in missing : ~(<<y, x>> \in OpToRel(<, Nat))
  BY NatLessThanWellFounded, WFMin
<1>2. x # 0 /\ x \in Nat
  OBVIOUS
<1>3. x - 1 \in Nat /\ <<x - 1, x>> \in OpToRel(<, Nat)
  BY <1>2 DEF OpToRel
<1>4. x - 1 \in A
  BY <1>1, <1>3
<1>5. (x - 1) + 1 \in A
  BY <1>3, <1>4
<1>6. (x - 1) + 1 = x
  BY <1>2
<1> QED BY <1>5, <1>6

-----------------------------------------------------------------------------

(* f filters the first m elements of s, one by one.                         *)
KeepsUpTo(f, s, T, m) ==
    f = [n \in 0..m |->
            IF n = 0 THEN <<>>
            ELSE IF s[n] \in T THEN Append(f[n - 1], s[n]) ELSE f[n - 1]]

LEMMA KeepsExists ==
    ASSUME NEW s, Len(s) \in Nat, NEW T
    PROVE  \E f : KeepsUpTo(f, s, T, Len(s))
<1> DEFINE A == {m \in Nat : \E f : KeepsUpTo(f, s, T, m)}
<1>1. 0 \in A
  <2> DEFINE f == [n \in 0..0 |-> <<>>]
  <2>1. KeepsUpTo(f, s, T, 0)
    BY DEF KeepsUpTo
  <2> QED BY <2>1
<1>2. ASSUME NEW m \in Nat, m \in A PROVE m + 1 \in A
  <2>1. PICK f : KeepsUpTo(f, s, T, m)
    BY <1>2
  <2> DEFINE g == [n \in 0..(m + 1) |->
                      IF n = m + 1
                      THEN IF s[n] \in T THEN Append(f[n - 1], s[n]) ELSE f[n - 1]
                      ELSE f[n]]
  <2>2. KeepsUpTo(g, s, T, m + 1)
    <3>1. \A n \in 0..m : f[n] = IF n = 0 THEN <<>>
                                 ELSE IF s[n] \in T THEN Append(f[n - 1], s[n]) ELSE f[n - 1]
      BY <2>1 DEF KeepsUpTo
    <3>2. \A n \in 0..m : g[n] = f[n]
      OBVIOUS
    <3>3. \A n \in 0..(m + 1) : n # 0 => n - 1 \in 0..m
      OBVIOUS
    <3> HIDE DEF g
    <3>4. \A n \in 0..(m + 1) :
             g[n] = IF n = 0 THEN <<>>
                    ELSE IF s[n] \in T THEN Append(g[n - 1], s[n]) ELSE g[n - 1]
      <4> TAKE n \in 0..(m + 1)
      <4>1. CASE n = m + 1
        BY <3>2, <3>3, <4>1 DEF g
      <4>2. CASE n \in 0..m
        BY <3>1, <3>2, <3>3, <4>2
      <4> QED BY <4>1, <4>2
    <3>5. g = [n \in 0..(m + 1) |-> g[n]]
      BY DEF g
    <3> QED BY <3>4, <3>5 DEF KeepsUpTo
  <2> QED BY <2>2
<1> HIDE DEF A
<1>3. Nat \subseteq A
  BY <1>1, <1>2, SetInduction
<1> QED BY <1>3 DEF A

LEMMA KeepInIs ==
    ASSUME NEW s, Len(s) \in Nat, NEW T
    PROVE  \E f : /\ KeepsUpTo(f, s, T, Len(s))
                  /\ KeepIn(s, T) = f[Len(s)]
<1> DEFINE f == CHOOSE f : KeepsUpTo(f, s, T, Len(s))
<1>1. KeepsUpTo(f, s, T, Len(s))
  BY KeepsExists
<1>2. KeepIn(s, T) = f[Len(s)]
  BY DEF KeepIn, KeepsUpTo
<1> QED BY <1>1, <1>2

LEMMA KeepInEmpty ==
    ASSUME NEW T PROVE KeepIn(<<>>, T) = <<>>
<1>1. PICK f : KeepsUpTo(f, <<>>, T, 0) /\ KeepIn(<<>>, T) = f[0]
  BY KeepInIs
<1> QED BY <1>1 DEF KeepsUpTo

(* What is added is kept or not; the rest is as before.                     *)
LEMMA KeepInAppend ==
    ASSUME NEW S, NEW s \in Seq(S), NEW e \in S, NEW T
    PROVE  KeepIn(Append(s, e), T) = IF e \in T THEN Append(KeepIn(s, T), e) ELSE KeepIn(s, T)
<1> DEFINE m == Len(s)
           t == Append(s, e)
<1>1. m \in Nat /\ Len(t) = m + 1 /\ t[m + 1] = e /\ \A i \in 1..m : t[i] = s[i]
  OBVIOUS
<1> HIDE DEF m, t
<1>2. PICK f : KeepsUpTo(f, s, T, m) /\ KeepIn(s, T) = f[m]
  BY <1>1, KeepInIs DEF m
<1>3. PICK g : KeepsUpTo(g, t, T, m + 1) /\ KeepIn(t, T) = g[m + 1]
  <2>1. Len(t) \in Nat
    BY <1>1
  <2>2. \E g : KeepsUpTo(g, t, T, Len(t)) /\ KeepIn(t, T) = g[Len(t)]
    BY <2>1, KeepInIs
  <2> QED BY <1>1, <2>2
<1> DEFINE A == {n \in Nat : n <= m => g[n] = f[n]}
<1>4. 0 \in A
  BY <1>1, <1>2, <1>3 DEF KeepsUpTo
<1>5. ASSUME NEW n \in Nat, n \in A PROVE n + 1 \in A
  <2> SUFFICES ASSUME n + 1 <= m PROVE g[n + 1] = f[n + 1]
    OBVIOUS
  <2>1. n + 1 \in 0..m /\ n + 1 \in 0..(m + 1) /\ (n + 1) - 1 = n /\ n + 1 # 0 /\ n + 1 \in 1..m
    BY <1>1
  <2>2. f[n + 1] = IF s[n + 1] \in T THEN Append(f[n], s[n + 1]) ELSE f[n]
    BY <1>2, <2>1 DEF KeepsUpTo
  <2>3. g[n + 1] = IF t[n + 1] \in T THEN Append(g[n], t[n + 1]) ELSE g[n]
    BY <1>3, <2>1 DEF KeepsUpTo
  <2>4. g[n] = f[n]
    BY <1>5, <1>1
  <2> QED BY <1>1, <2>1, <2>2, <2>3, <2>4
<1> HIDE DEF A
<1>6. m \in A
  BY <1>1, <1>4, <1>5, SetInduction
<1>7. g[m] = f[m]
  BY <1>1, <1>6 DEF A
<1>8. m + 1 \in 0..(m + 1) /\ (m + 1) - 1 = m /\ m + 1 # 0
  BY <1>1
<1>9. g[m + 1] = IF t[m + 1] \in T THEN Append(g[m], t[m + 1]) ELSE g[m]
  BY <1>3, <1>8 DEF KeepsUpTo
<1> QED BY <1>1, <1>2, <1>3, <1>7, <1>9 DEF t

(* A property of all prefixes, from one to the next.                        *)
LEMMA PrefixInduction ==
    ASSUME NEW S, NEW s \in Seq(S), NEW A, 0 \in A,
           \A n \in 0..(Len(s) - 1) : n \in A => n + 1 \in A
    PROVE  Len(s) \in A
<1> DEFINE B == {n \in Nat : n <= Len(s) => n \in A}
<1>0. Len(s) \in Nat
  OBVIOUS
<1>1. 0 \in B
  OBVIOUS
<1>2. ASSUME NEW n \in Nat, n \in B PROVE n + 1 \in B
  BY <1>2, <1>0
<1> HIDE DEF B
<1>3. Len(s) \in B
  BY <1>0, <1>1, <1>2, SetInduction
<1> QED BY <1>3 DEF B

(* A prefix with one more element.                                          *)
LEMMA NextPrefix ==
    ASSUME NEW S, NEW s \in Seq(S), NEW n \in 0..(Len(s) - 1)
    PROVE  /\ SubSeq(s, 1, n) \in Seq(S) /\ s[n + 1] \in S
           /\ SubSeq(s, 1, n + 1) = Append(SubSeq(s, 1, n), s[n + 1])
<1>1. SubSeq(s, 1, n) \in Seq(S) /\ Len(SubSeq(s, 1, n)) = n
  OBVIOUS
<1> QED BY <1>1

LEMMA WholePrefix ==
    ASSUME NEW S, NEW s \in Seq(S)
    PROVE  SubSeq(s, 1, Len(s)) = s /\ SubSeq(s, 1, 0) = <<>>
OBVIOUS

LEMMA RangeAppend ==
    ASSUME NEW S, NEW s \in Seq(S), NEW e \in S
    PROVE  Range(Append(s, e)) = Range(s) \cup {e}
<1> DEFINE n == Len(s)
<1>1. /\ n \in Nat /\ DOMAIN s = 1..n
      /\ DOMAIN Append(s, e) = 1..(n + 1) /\ Append(s, e)[n + 1] = e
      /\ \A i \in 1..n : Append(s, e)[i] = s[i]
  OBVIOUS
<1>2. 1..(n + 1) = (1..n) \cup {n + 1}
  BY <1>1
<1> QED BY <1>1, <1>2 DEF Range

(* Two sequences one after the other.                                       *)
LEMMA ConcatIs ==
    ASSUME NEW S, NEW s \in Seq(S), NEW t \in Seq(S)
    PROVE  /\ DOMAIN (s \o t) = 1..(Len(s) + Len(t)) /\ Len(s) \in Nat /\ Len(t) \in Nat
           /\ \A i \in 1..Len(s) : (s \o t)[i] = s[i]
           /\ \A i \in 1..Len(t) : (s \o t)[i + Len(s)] = t[i]
<1>1. /\ s \o t \in Seq(S) /\ Len(s \o t) = Len(s) + Len(t)
      /\ \A i \in 1..Len(s) : (s \o t)[i] = s[i]
      /\ \A i \in 1..Len(t) : (s \o t)[i + Len(s)] = t[i]
  OBVIOUS
<1> QED BY <1>1

LEMMA RangeConcat ==
    ASSUME NEW S, NEW s \in Seq(S), NEW t \in Seq(S)
    PROVE  s \o t \in Seq(S) /\ Range(s \o t) = Range(s) \cup Range(t)
<1> DEFINE u == s \o t
<1>1. /\ u \in Seq(S) /\ Len(u) = Len(s) + Len(t) /\ Len(s) \in Nat /\ Len(t) \in Nat
      /\ \A i \in 1..Len(s) : u[i] = s[i]
      /\ \A i \in 1..Len(t) : u[i + Len(s)] = t[i]
  OBVIOUS
<1>2. /\ Range(s) = {s[i] : i \in 1..Len(s)} /\ Range(t) = {t[i] : i \in 1..Len(t)}
      /\ Range(u) = {u[i] : i \in 1..Len(u)}
  BY <1>1 DEF Range
<1> HIDE DEF u
<1>3. ASSUME NEW i \in 1..Len(u) PROVE u[i] \in Range(s) \cup Range(t)
  <2>1. CASE i <= Len(s)
    BY <1>1, <1>2, <2>1
  <2>2. CASE ~(i <= Len(s))
    <3>1. i - Len(s) \in 1..Len(t) /\ (i - Len(s)) + Len(s) = i
      BY <1>1, <2>2
    <3> QED BY <1>1, <1>2, <3>1
  <2> QED BY <2>1, <2>2
<1>4. ASSUME NEW i \in 1..Len(s) PROVE s[i] \in Range(u)
  BY <1>1, <1>2
<1>5. ASSUME NEW i \in 1..Len(t) PROVE t[i] \in Range(u)
  <2>1. i + Len(s) \in 1..Len(u)
    BY <1>1
  <2> QED BY <1>1, <1>2, <2>1
<1>6. Range(u) \subseteq Range(s) \cup Range(t)
  BY <1>2, <1>3
<1>7. Range(s) \subseteq Range(u) /\ Range(t) \subseteq Range(u)
  BY <1>2, <1>4, <1>5
<1>8. u \in Seq(S) /\ Range(u) = Range(s) \cup Range(t)
  BY <1>1, <1>6, <1>7
<1> QED BY <1>8 DEF u

(* A filter keeps the elements of the set, and no other.                    *)
LEMMA KeepInRange ==
    ASSUME NEW S, NEW s \in Seq(S), NEW T
    PROVE  KeepIn(s, T) \in Seq(S \cap T) /\ Range(KeepIn(s, T)) = Range(s) \cap T
<1> DEFINE Kept(p) == KeepIn(p, T) \in Seq(S \cap T) /\ Range(KeepIn(p, T)) = Range(p) \cap T
           A == {n \in Nat : Kept(SubSeq(s, 1, n))}
<1>1. 0 \in A
  <2>1. SubSeq(s, 1, 0) = <<>>
    OBVIOUS
  <2>2. KeepIn(<<>>, T) = <<>> /\ <<>> \in Seq(S \cap T) /\ Range(<<>>) = {}
    BY KeepInEmpty DEF Range
  <2> QED BY <2>1, <2>2
<1>2. ASSUME NEW n \in 0..(Len(s) - 1), n \in A PROVE n + 1 \in A
  <2> DEFINE p == SubSeq(s, 1, n)
             e == s[n + 1]
  <2>1. /\ p \in Seq(S) /\ e \in S /\ SubSeq(s, 1, n + 1) = Append(p, e)
        /\ n + 1 \in Nat
    BY NextPrefix
  <2>2. KeepIn(p, T) \in Seq(S \cap T) /\ Range(KeepIn(p, T)) = Range(p) \cap T
    BY <1>2
  <2> HIDE DEF p, e
  <2>3. Range(Append(p, e)) = Range(p) \cup {e}
    BY <2>1, RangeAppend
  <2>4. CASE e \in T
    <3>1. KeepIn(Append(p, e), T) = Append(KeepIn(p, T), e)
      BY <2>1, <2>4, KeepInAppend
    <3>2. Range(Append(KeepIn(p, T), e)) = Range(KeepIn(p, T)) \cup {e}
      BY <2>1, <2>2, <2>4, RangeAppend
    <3>3. Append(KeepIn(p, T), e) \in Seq(S \cap T)
      BY <2>1, <2>2, <2>4
    <3>4. Kept(Append(p, e))
      BY <2>2, <2>3, <2>4, <3>1, <3>2, <3>3
    <3> QED BY <2>1, <3>4
  <2>5. CASE e \notin T
    <3>1. KeepIn(Append(p, e), T) = KeepIn(p, T)
      BY <2>1, <2>5, KeepInAppend
    <3>2. Kept(Append(p, e))
      BY <2>2, <2>3, <2>5, <3>1
    <3> QED BY <2>1, <3>2
  <2> QED BY <2>4, <2>5
<1>3. Len(s) \in A
  <2> HIDE DEF A
  <2> QED BY <1>1, <1>2, PrefixInduction
<1> QED BY <1>3, WholePrefix

(* A filter that lets all of them through.                                  *)
LEMMA KeepInAll ==
    ASSUME NEW S, NEW s \in Seq(S), NEW T, Range(s) \subseteq T
    PROVE  KeepIn(s, T) = s
<1> DEFINE A == {n \in Nat : KeepIn(SubSeq(s, 1, n), T) = SubSeq(s, 1, n)}
<1>1. 0 \in A
  BY KeepInEmpty, WholePrefix
<1>2. ASSUME NEW n \in 0..(Len(s) - 1), n \in A PROVE n + 1 \in A
  <2> DEFINE p == SubSeq(s, 1, n)
             e == s[n + 1]
  <2>1. /\ p \in Seq(S) /\ e \in S /\ SubSeq(s, 1, n + 1) = Append(p, e)
        /\ n + 1 \in Nat
    BY NextPrefix
  <2>2. KeepIn(p, T) = p
    BY <1>2
  <2>3. e \in T
    <3>1. n + 1 \in 1..Len(s)
      OBVIOUS
    <3> QED BY <3>1 DEF Range
  <2> HIDE DEF p, e
  <2>4. KeepIn(Append(p, e), T) = Append(p, e)
    BY <2>1, <2>2, <2>3, KeepInAppend
  <2> QED BY <2>1, <2>4
<1>3. Len(s) \in A
  <2> HIDE DEF A
  <2> QED BY <1>1, <1>2, PrefixInduction
<1> QED BY <1>3, WholePrefix

(* A filter of what a filter kept.                                          *)
LEMMA KeepInTwice ==
    ASSUME NEW S, NEW s \in Seq(S), NEW T, NEW U
    PROVE  KeepIn(KeepIn(s, T), U) = KeepIn(s, T \cap U)
<1> DEFINE A == {n \in Nat : KeepIn(KeepIn(SubSeq(s, 1, n), T), U)
                               = KeepIn(SubSeq(s, 1, n), T \cap U)}
<1>1. 0 \in A
  BY KeepInEmpty, WholePrefix
<1>2. ASSUME NEW n \in 0..(Len(s) - 1), n \in A PROVE n + 1 \in A
  <2> DEFINE p == SubSeq(s, 1, n)
             e == s[n + 1]
             k == KeepIn(p, T)
  <2>1. /\ p \in Seq(S) /\ e \in S /\ SubSeq(s, 1, n + 1) = Append(p, e)
        /\ n + 1 \in Nat
    BY NextPrefix
  <2>2. KeepIn(k, U) = KeepIn(p, T \cap U)
    BY <1>2
  <2> HIDE DEF p, e
  <2>3. k \in Seq(S \cap T)
    BY <2>1, KeepInRange
  <2>4. KeepIn(Append(p, e), T) = IF e \in T THEN Append(k, e) ELSE k
    BY <2>1, KeepInAppend
  <2>5. KeepIn(Append(p, e), T \cap U)
          = IF e \in T \cap U THEN Append(KeepIn(p, T \cap U), e) ELSE KeepIn(p, T \cap U)
    BY <2>1, KeepInAppend
  <2> HIDE DEF k
  <2> HIDE DEF A
  <2>6. ASSUME e \in T
        PROVE  KeepIn(Append(k, e), U) = IF e \in U THEN Append(KeepIn(k, U), e) ELSE KeepIn(k, U)
    <3> DEFINE V == S \cap T
    <3>1. e \in V /\ k \in Seq(V)
      BY <2>1, <2>3, <2>6
    <3> HIDE DEF V
    <3> QED BY <3>1, KeepInAppend
  <2>7. KeepIn(KeepIn(Append(p, e), T), U) = KeepIn(Append(p, e), T \cap U)
    <3>1. CASE e \in T /\ e \in U
      BY <2>2, <2>4, <2>5, <2>6, <3>1
    <3>2. CASE e \in T /\ e \notin U
      BY <2>2, <2>4, <2>5, <2>6, <3>2
    <3>3. CASE e \notin T
      BY <2>2, <2>4, <2>5, <3>3
    <3> QED BY <3>1, <3>2, <3>3
  <2> QED BY <2>1, <2>7 DEF A
<1>3. Len(s) \in A
  <2> HIDE DEF A
  <2> QED BY <1>1, <1>2, PrefixInduction
<1> QED BY <1>3, WholePrefix

(* A filter of those that the filters before it let through.                *)
LEMMA KeepInFewer ==
    ASSUME NEW S, NEW s \in Seq(S), NEW T \in SUBSET Range(s), NEW U \in SUBSET T
    PROVE  Range(KeepIn(s, T)) = T /\ KeepIn(KeepIn(s, T), U) = KeepIn(s, U)
<1>1. KeepIn(KeepIn(s, T), U) = KeepIn(s, T \cap U)
  BY KeepInTwice
<1>2. Range(KeepIn(s, T)) = Range(s) \cap T
  BY KeepInRange
<1>3. T \cap U = U /\ Range(s) \cap T = T
  OBVIOUS
<1> QED BY <1>1, <1>2, <1>3

NoRepeats(s) == \A i, j \in 1..Len(s) : s[i] = s[j] => i = j

LEMMA NoRepeatsAppend ==
    ASSUME NEW S, NEW s \in Seq(S), NoRepeats(s), NEW e \in S, e \notin Range(s)
    PROVE  NoRepeats(Append(s, e))
<1> DEFINE n == Len(s)
           t == Append(s, e)
<1>1. n \in Nat /\ Len(t) = n + 1 /\ t[n + 1] = e /\ \A i \in 1..n : t[i] = s[i]
  OBVIOUS
<1>2. \A i \in 1..n : s[i] # e
  BY DEF Range
<1> SUFFICES ASSUME NEW i \in 1..(n + 1), NEW j \in 1..(n + 1), t[i] = t[j] PROVE i = j
  BY <1>1 DEF NoRepeats
<1> HIDE DEF n, t
<1>3. (i \in 1..n \/ i = n + 1) /\ (j \in 1..n \/ j = n + 1)
  BY <1>1
<1> QED BY <1>1, <1>2, <1>3 DEF NoRepeats, n

(* What is kept of a sequence without repetitions has none.                 *)
LEMMA KeepInNoRepeats ==
    ASSUME NEW S, NEW s \in Seq(S), NoRepeats(s), NEW T
    PROVE  NoRepeats(KeepIn(s, T))
<1> DEFINE A == {n \in Nat : NoRepeats(KeepIn(SubSeq(s, 1, n), T))}
<1>1. 0 \in A
  <2>1. SubSeq(s, 1, 0) = <<>>
    OBVIOUS
  <2>2. NoRepeats(<<>>)
    BY DEF NoRepeats
  <2> QED BY <2>1, <2>2, KeepInEmpty
<1>2. ASSUME NEW n \in 0..(Len(s) - 1), n \in A PROVE n + 1 \in A
  <2> DEFINE p == SubSeq(s, 1, n)
             e == s[n + 1]
             k == KeepIn(p, T)
  <2>1. /\ p \in Seq(S) /\ e \in S /\ SubSeq(s, 1, n + 1) = Append(p, e)
        /\ n + 1 \in Nat
    BY NextPrefix
  <2>2. NoRepeats(k)
    BY <1>2
  <2>3. e \notin Range(p)
    <3>1. Len(p) = n /\ DOMAIN p = 1..n /\ \A i \in 1..n : p[i] = s[i]
      OBVIOUS
    <3>2. \A i \in 1..n : i \in 1..Len(s) /\ n + 1 \in 1..Len(s) /\ i # n + 1
      OBVIOUS
    <3>3. \A i \in 1..n : s[i] # s[n + 1]
      BY <3>2 DEF NoRepeats
    <3> HIDE DEF p
    <3> QED BY <3>1, <3>3 DEF Range
  <2> HIDE DEF p, e
  <2>4. k \in Seq(S \cap T) /\ Range(k) = Range(p) \cap T
    BY <2>1, KeepInRange
  <2>5. KeepIn(Append(p, e), T) = IF e \in T THEN Append(k, e) ELSE k
    BY <2>1, KeepInAppend
  <2> HIDE DEF k
  <2>6. CASE e \in T
    <3>1. e \in S \cap T /\ e \notin Range(k)
      BY <2>1, <2>3, <2>4, <2>6
    <3>2. NoRepeats(Append(k, e))
      BY <2>2, <2>4, <3>1, NoRepeatsAppend
    <3> QED BY <2>1, <2>5, <2>6, <3>2
  <2>7. CASE e \notin T
    BY <2>1, <2>2, <2>5, <2>7
  <2> QED BY <2>6, <2>7
<1>3. Len(s) \in A
  <2> HIDE DEF A
  <2> QED BY <1>1, <1>2, PrefixInduction
<1> QED BY <1>3, WholePrefix

(* x is in s at one place at most.                                          *)
OnceIn(s, x) == \A i, j \in 1..Len(s) : s[i] = x /\ s[j] = x => i = j

LEMMA OnceInAppend ==
    ASSUME NEW S, NEW s \in Seq(S), NEW x, OnceIn(s, x), NEW e \in S, e = x => x \notin Range(s)
    PROVE  OnceIn(Append(s, e), x)
<1> DEFINE n == Len(s)
           t == Append(s, e)
<1>1. n \in Nat /\ Len(t) = n + 1 /\ t[n + 1] = e /\ \A i \in 1..n : t[i] = s[i]
  OBVIOUS
<1>2. e = x => \A i \in 1..n : s[i] # x
  BY DEF Range
<1> SUFFICES ASSUME NEW i \in 1..(n + 1), NEW j \in 1..(n + 1), t[i] = x, t[j] = x PROVE i = j
  BY <1>1 DEF OnceIn
<1> HIDE DEF n, t
<1>3. (i \in 1..n \/ i = n + 1) /\ (j \in 1..n \/ j = n + 1)
  BY <1>1
<1> QED BY <1>1, <1>2, <1>3 DEF OnceIn, n

(* Filtering a sequence puts nothing into it again.                         *)
LEMMA KeepInOnce ==
    ASSUME NEW S, NEW s \in Seq(S), NEW x, OnceIn(s, x), NEW T
    PROVE  OnceIn(KeepIn(s, T), x)
<1> DEFINE A == {n \in Nat : OnceIn(KeepIn(SubSeq(s, 1, n), T), x)}
<1>1. 0 \in A
  <2>1. SubSeq(s, 1, 0) = <<>>
    OBVIOUS
  <2>2. OnceIn(<<>>, x)
    BY DEF OnceIn
  <2> QED BY <2>1, <2>2, KeepInEmpty
<1>2. ASSUME NEW n \in 0..(Len(s) - 1), n \in A PROVE n + 1 \in A
  <2> DEFINE p == SubSeq(s, 1, n)
             e == s[n + 1]
             k == KeepIn(p, T)
  <2>1. /\ p \in Seq(S) /\ e \in S /\ SubSeq(s, 1, n + 1) = Append(p, e)
        /\ n + 1 \in Nat
    BY NextPrefix
  <2>2. OnceIn(k, x)
    BY <1>2
  <2>3. e = x => x \notin Range(p)
    <3>1. Len(p) = n /\ DOMAIN p = 1..n /\ \A i \in 1..n : p[i] = s[i]
      OBVIOUS
    <3>2. \A i \in 1..n : i \in 1..Len(s) /\ n + 1 \in 1..Len(s) /\ i # n + 1
      OBVIOUS
    <3>3. e = x => \A i \in 1..n : s[i] # x
      BY <3>2 DEF OnceIn
    <3> HIDE DEF p, e
    <3> QED BY <3>1, <3>3 DEF Range
  <2> HIDE DEF p, e
  <2>4. k \in Seq(S \cap T) /\ Range(k) = Range(p) \cap T
    BY <2>1, KeepInRange
  <2>5. KeepIn(Append(p, e), T) = IF e \in T THEN Append(k, e) ELSE k
    BY <2>1, KeepInAppend
  <2> HIDE DEF k
  <2>6. CASE e \in T
    <3>1. e \in S \cap T /\ (e = x => x \notin Range(k))
      BY <2>1, <2>3, <2>4, <2>6
    <3>2. OnceIn(Append(k, e), x)
      BY <2>2, <2>4, <3>1, OnceInAppend
    <3> QED BY <2>1, <2>5, <2>6, <3>2
  <2>7. CASE e \notin T
    BY <2>1, <2>2, <2>5, <2>7
  <2> QED BY <2>6, <2>7
<1>3. Len(s) \in A
  <2> HIDE DEF A
  <2> QED BY <1>1, <1>2, PrefixInduction
<1> QED BY <1>3, WholePrefix

LEMMA LeastOf ==
    ASSUME NEW A \in SUBSET Nat, A # {}
    PROVE  \E x \in A : \A y \in A : x <= y
<1>1. PICK x \in A : \A y \in A : ~(<<y, x>> \in OpToRel(<, Nat))
  BY NatLessThanWellFounded, WFMin
<1>2. \A y \in A : ~(y < x)
  BY <1>1 DEF OpToRel
<1>3. x \in Nat /\ \A y \in A : y \in Nat
  OBVIOUS
<1> QED BY <1>2, <1>3

(* What is left of a sequence without its i-th element.                     *)
LEMMA RemoveAtIs ==
    ASSUME NEW S, NEW s \in Seq(S), NEW i \in 1..Len(s)
    PROVE  /\ RemoveAt(s, i) \in Seq(S) /\ Len(RemoveAt(s, i)) = Len(s) - 1
           /\ \A j \in 1..(Len(s) - 1) :
                 RemoveAt(s, i)[j] = IF j < i THEN s[j] ELSE s[j + 1]
<1> DEFINE before == SubSeq(s, 1, i - 1)
           after  == SubSeq(s, i + 1, Len(s))
<1>1. /\ before \in Seq(S) /\ Len(before) = i - 1
      /\ \A j \in 1..(i - 1) : before[j] = s[j]
  OBVIOUS
<1>2. /\ after \in Seq(S) /\ Len(after) = Len(s) - i
      /\ \A j \in 1..(Len(s) - i) : after[j] = s[j + i]
  OBVIOUS
<1> HIDE DEF before, after
<1>3. /\ before \o after \in Seq(S) /\ Len(before \o after) = Len(s) - 1
      /\ \A j \in 1..(Len(s) - 1) :
            (before \o after)[j] = IF j < i THEN s[j] ELSE s[j + 1]
  <2>1. before \o after \in Seq(S) /\ Len(before \o after) = Len(s) - 1
    BY <1>1, <1>2
  <2>2. ASSUME NEW j \in 1..(Len(s) - 1), j < i
        PROVE  (before \o after)[j] = s[j]
    BY <1>1, <1>2, <2>2
  <2>3. ASSUME NEW j \in 1..(Len(s) - 1), ~(j < i)
        PROVE  (before \o after)[j] = s[j + 1]
    <3>1. (before \o after)[j] = after[j - (i - 1)] /\ j - (i - 1) \in 1..(Len(s) - i)
      BY <1>1, <1>2, <2>3
    <3> QED BY <1>2, <3>1
  <2> QED BY <2>1, <2>2, <2>3
<1> QED BY <1>3 DEF RemoveAt, before, after

(* One occurrence goes, the other elements stay: of a sequence without      *)
(* repetitions nothing but the element itself is gone.                      *)
LosesOnly(t, s, i) ==
    /\ \A k \in 1..Len(t) : \E j \in 1..Len(s) : j # i /\ t[k] = s[j]
    /\ \A j \in 1..Len(s) : j # i => \E k \in 1..Len(t) : t[k] = s[j]
    /\ NoRepeats(s) => NoRepeats(t) /\ \A k \in 1..Len(t) : t[k] # s[i]

LEMMA RemoveAtKeeps ==
    ASSUME NEW S, NEW s \in Seq(S), NEW i \in 1..Len(s), NEW t, t = RemoveAt(s, i)
    PROVE  t \in Seq(S) /\ LosesOnly(t, s, i)
<1>1. /\ t \in Seq(S) /\ Len(t) = Len(s) - 1
      /\ \A j \in 1..(Len(s) - 1) : t[j] = IF j < i THEN s[j] ELSE s[j + 1]
  BY RemoveAtIs
<1>2. Len(s) \in Nat /\ Len(t) \in Nat /\ i \in Nat
  BY <1>1
<1>3. \A k \in 1..Len(t) : \E j \in 1..Len(s) : j # i /\ t[k] = s[j]
  <2> TAKE k \in 1..Len(t)
  <2>1. CASE k < i
    BY <1>1, <1>2, <2>1
  <2>2. CASE ~(k < i)
    <3>1. k + 1 \in 1..Len(s) /\ k + 1 # i /\ t[k] = s[k + 1]
      BY <1>1, <1>2, <2>2
    <3> QED BY <3>1
  <2> QED BY <2>1, <2>2
<1>4. ASSUME NEW j \in 1..Len(s), j # i PROVE \E k \in 1..Len(t) : t[k] = s[j]
  <2>1. CASE j < i
    BY <1>1, <1>2, <2>1
  <2>2. CASE ~(j < i)
    <3>1. j - 1 \in 1..Len(t) /\ t[j - 1] = s[(j - 1) + 1] /\ (j - 1) + 1 = j
      BY <1>1, <1>2, <1>4, <2>2
    <3> QED BY <3>1
  <2> QED BY <2>1, <2>2
<1>5. ASSUME NoRepeats(s)
      PROVE  NoRepeats(t) /\ \A k \in 1..Len(t) : t[k] # s[i]
  <2>1. \A k, l \in 1..Len(t) : t[k] = t[l] => k = l
    BY <1>1, <1>2, <1>5 DEF NoRepeats
  <2>2. \A k \in 1..Len(t) : t[k] # s[i]
    BY <1>3, <1>5 DEF NoRepeats
  <2> QED BY <2>1, <2>2 DEF NoRepeats
<1> QED BY <1>1, <1>3, <1>4, <1>5 DEF LosesOnly

(* The same of the first occurrence of e.                                   *)
LEMMA RemoveFirstKeeps ==
    ASSUME NEW S, NEW s \in Seq(S), NEW e, NEW t, t = RemoveFirst(s, e)
    PROVE  /\ t \in Seq(S) /\ Range(t) \subseteq Range(s)
           /\ \A x \in Range(s) : x # e => x \in Range(t)
           /\ NoRepeats(s) => NoRepeats(t) /\ e \notin Range(t)
<1> DEFINE I == {i \in 1..Len(s) : s[i] = e}
<1>1. CASE I = {}
  <2>1. t = s
    BY <1>1 DEF RemoveFirst
  <2>2. e \notin Range(s)
    BY <1>1 DEF Range
  <2> QED BY <2>1, <2>2
<1>2. CASE I # {}
  <2>1. t = RemoveAt(s, Min(I))
    BY <1>2 DEF RemoveFirst, SelectInSeq
  <2>2. I \in SUBSET Nat
    OBVIOUS
  <2>3. Min(I) \in I
    <3> HIDE DEF I
    <3>1. \E x \in I : \A y \in I : x <= y
      BY <1>2, <2>2, LeastOf
    <3> QED BY <3>1 DEF Min
  <2>4. PICK i \in 1..Len(s) : s[i] = e /\ t = RemoveAt(s, i)
    BY <2>1, <2>3
  <2>5. t \in Seq(S) /\ LosesOnly(t, s, i)
    BY <2>4, RemoveAtKeeps
  <2>6. Range(s) = {s[j] : j \in 1..Len(s)} /\ Range(t) = {t[k] : k \in 1..Len(t)}
    BY <2>5 DEF Range
  <2>7. Range(t) \subseteq Range(s)
    BY <2>5, <2>6 DEF LosesOnly
  <2>8. ASSUME NEW x \in Range(s), x # e PROVE x \in Range(t)
    BY <2>4, <2>5, <2>6, <2>8 DEF LosesOnly
  <2>9. NoRepeats(s) => NoRepeats(t) /\ e \notin Range(t)
    BY <2>4, <2>5, <2>6 DEF LosesOnly
  <2> QED BY <2>5, <2>7, <2>8, <2>9
<1> QED BY <1>1, <1>2

(* An order between any two elements stays between those that are kept.     *)
OrderedBy(s, R) == \A i, j \in 1..Len(s) : i < j => <<s[i], s[j]>> \in R

LEMMA OrderedByAppend ==
    ASSUME NEW S, NEW s \in Seq(S), NEW e \in S, NEW R, OrderedBy(s, R),
           \A x \in Range(s) : <<x, e>> \in R
    PROVE  OrderedBy(Append(s, e), R)
<1> DEFINE n == Len(s)
           t == Append(s, e)
<1>1. n \in Nat /\ Len(t) = n + 1 /\ t[n + 1] = e /\ \A i \in 1..n : t[i] = s[i]
  OBVIOUS
<1>2. \A i \in 1..n : <<s[i], e>> \in R
  BY DEF Range
<1> SUFFICES ASSUME NEW i \in 1..(n + 1), NEW j \in 1..(n + 1), i < j PROVE <<t[i], t[j]>> \in R
  BY <1>1 DEF OrderedBy
<1> HIDE DEF n, t
<1>3. i \in 1..n /\ (j \in 1..n \/ j = n + 1)
  BY <1>1
<1> QED BY <1>1, <1>2, <1>3 DEF OrderedBy, n

LEMMA KeepInOrder ==
    ASSUME NEW S, NEW s \in Seq(S), NEW R, OrderedBy(s, R), NEW T
    PROVE  OrderedBy(KeepIn(s, T), R)
<1> DEFINE A == {n \in Nat : OrderedBy(KeepIn(SubSeq(s, 1, n), T), R)}
<1>1. 0 \in A
  <2>1. SubSeq(s, 1, 0) = <<>>
    OBVIOUS
  <2>2. OrderedBy(<<>>, R)
    BY DEF OrderedBy
  <2> QED BY <2>1, <2>2, KeepInEmpty
<1>2. ASSUME NEW n \in 0..(Len(s) - 1), n \in A PROVE n + 1 \in A
  <2> DEFINE p == SubSeq(s, 1, n)
             e == s[n + 1]
             k == KeepIn(p, T)
  <2>1. /\ p \in Seq(S) /\ e \in S /\ SubSeq(s, 1, n + 1) = Append(p, e)
        /\ n + 1 \in Nat
    BY NextPrefix
  <2>2. OrderedBy(k, R)
    BY <1>2
  <2>3. \A x \in Range(p) : <<x, e>> \in R
    <3>1. Len(p) = n /\ DOMAIN p = 1..n /\ \A i \in 1..n : p[i] = s[i]
      OBVIOUS
    <3>2. \A i \in 1..n : i \in 1..Len(s) /\ n + 1 \in 1..Len(s) /\ i < n + 1
      OBVIOUS
    <3>3. \A i \in 1..n : <<s[i], s[n + 1]>> \in R
      BY <3>2 DEF OrderedBy
    <3> HIDE DEF p
    <3> QED BY <3>1, <3>3 DEF Range
  <2> HIDE DEF p, e
  <2>4. k \in Seq(S \cap T) /\ Range(k) = Range(p) \cap T
    BY <2>1, KeepInRange
  <2>5. KeepIn(Append(p, e), T) = IF e \in T THEN Append(k, e) ELSE k
    BY <2>1, KeepInAppend
  <2> HIDE DEF k
  <2>6. CASE e \in T
    <3>1. e \in S \cap T /\ \A x \in Range(k) : <<x, e>> \in R
      BY <2>1, <2>3, <2>4, <2>6
    <3>2. OrderedBy(Append(k, e), R)
      BY <2>2, <2>4, <3>1, OrderedByAppend
    <3> QED BY <2>1, <2>5, <2>6, <3>2
  <2>7. CASE e \notin T
    BY <2>1, <2>2, <2>5, <2>7
  <2> QED BY <2>6, <2>7
<1>3. Len(s) \in A
  <2> HIDE DEF A
  <2> QED BY <1>1, <1>2, PrefixInduction
<1> QED BY <1>3, WholePrefix

-----------------------------------------------------------------------------
(* Sorting                                                                  *)

(* A total order of the numbers, as far as n.                               *)
TotalOrder(R, n) ==
    /\ \A i, j \in 1..n : i # j => <<i, j>> \in R \/ <<j, i>> \in R
    /\ \A i, j, k \in 1..n : <<i, j>> \in R /\ <<j, k>> \in R => <<i, k>> \in R

(* The next number is put before the first that comes after it.             *)
LEMMA SortedInsert ==
    ASSUME NEW n \in Nat, NEW R, TotalOrder(R, n + 1), NEW f, Sorts(f, n, R)
    PROVE  \E g : Sorts(g, n + 1, R)
<1> DEFINE new == n + 1
           A == {k \in 0..n : \A i \in (k + 1)..n : <<f[i], new>> \notin R}
<1>1. /\ f \in [1..n -> 1..n] /\ Range(f) = 1..n
      /\ \A i, j \in 1..n : i < j => <<f[i], f[j]>> \in R
  BY DEF Sorts
<1>2. n \in A /\ A \subseteq Nat
  OBVIOUS
<1>3. PICK k \in A : \A y \in A : k <= y
  BY <1>2, LeastOf
<1>4. k \in 0..n /\ \A i \in (k + 1)..n : <<f[i], new>> \notin R
  OBVIOUS
<1>5. \A i \in 1..n : f[i] \in 1..new /\ f[i] # new /\ f[i] \in 1..n
  BY <1>1
<1>6. \A i \in 1..k : <<f[i], new>> \in R
  <2>1. SUFFICES ASSUME k > 0 PROVE \A i \in 1..k : <<f[i], new>> \in R
    BY <1>4
  <2>2. <<f[k], new>> \in R
    <3>1. k - 1 \notin A /\ k - 1 \in 0..n
      BY <1>3, <1>4, <2>1
    <3>2. PICK i \in ((k - 1) + 1)..n : <<f[i], new>> \in R
      BY <3>1
    <3>3. i = k
      BY <1>4, <2>1, <3>2
    <3> QED BY <3>2, <3>3
  <2> TAKE i \in 1..k
  <2>3. i \in 1..n /\ k \in 1..n /\ (i = k \/ i < k)
    BY <1>4, <2>1
  <2>4. i # k => <<f[i], f[k]>> \in R
    BY <1>1, <2>3
  <2>5. f[i] \in 1..new /\ f[k] \in 1..new /\ new \in 1..new
    BY <1>5, <2>3
  <2> HIDE DEF new, A
  <2> QED BY <2>2, <2>3, <2>4, <2>5 DEF TotalOrder, new
<1>7. \A i \in (k + 1)..n : i \in 1..n /\ <<new, f[i]>> \in R
  <2> TAKE i \in (k + 1)..n
  <2>1. i \in 1..n /\ <<f[i], new>> \notin R
    BY <1>4
  <2>2. f[i] \in 1..new /\ f[i] # new /\ new \in 1..new
    BY <1>5, <2>1
  <2> HIDE DEF new, A
  <2> QED BY <2>1, <2>2 DEF TotalOrder, new
<1> DEFINE g == [i \in 1..new |-> IF i <= k THEN f[i] ELSE IF i = k + 1 THEN new ELSE f[i - 1]]
<1>8. /\ \A i \in 1..k : i \in 1..n /\ i \in 1..new /\ g[i] = f[i]
      /\ k + 1 \in 1..new /\ g[k + 1] = new
      /\ \A i \in (k + 1)..n : i \in 1..n /\ i + 1 \in 1..new /\ g[i + 1] = f[i]
      /\ \A i \in 1..new : i \in 1..k \/ i = k + 1 \/ (i - 1 \in (k + 1)..n /\ (i - 1) + 1 = i)
  BY <1>4
<1>9. \A i \in 1..new :
         \/ i \in 1..k /\ g[i] = f[i]
         \/ i = k + 1 /\ g[i] = new
         \/ i - 1 \in (k + 1)..n /\ i - 1 \in 1..n /\ g[i] = f[i - 1]
  BY <1>8
<1>10. DOMAIN g = 1..new /\ g = [i \in 1..new |-> g[i]]
  OBVIOUS
<1> HIDE DEF g
<1>11. g \in [1..new -> 1..new]
  BY <1>5, <1>8, <1>9, <1>10
<1>12. Range(g) = 1..new
  <2>1. ASSUME NEW y \in 1..new PROVE \E i \in 1..new : g[i] = y
    <3>1. CASE y = new
      BY <1>8, <3>1
    <3>2. CASE y \in 1..n
      <4>1. PICK i \in 1..n : f[i] = y
        BY <1>1, <3>2 DEF Range
      <4>2. i \in 1..k \/ i \in (k + 1)..n
        BY <1>4
      <4> QED BY <1>8, <4>1, <4>2
    <3> QED BY <3>1, <3>2
  <2> QED BY <1>10, <1>11, <2>1 DEF Range
<1>13. ASSUME NEW i \in 1..new, NEW j \in 1..new, i < j PROVE <<g[i], g[j]>> \in R
  <2>1. CASE i \in 1..k /\ j \in 1..k
    BY <1>1, <1>8, <1>13, <2>1
  <2>2. CASE i \in 1..k /\ j = k + 1
    BY <1>6, <1>8, <2>2
  <2>3. CASE i \in 1..k /\ j - 1 \in (k + 1)..n
    <3>1. i \in 1..n /\ j - 1 \in 1..n /\ i < j - 1
      BY <1>4, <2>3
    <3>2. g[i] = f[i] /\ g[j] = f[j - 1]
      BY <1>8, <2>3, (j - 1) + 1 = j
    <3> QED BY <1>1, <3>1, <3>2
  <2>4. CASE i = k + 1 /\ j - 1 \in (k + 1)..n
    <3>1. g[i] = new /\ g[j] = f[j - 1]
      BY <1>8, <2>4, (j - 1) + 1 = j
    <3> QED BY <1>7, <2>4, <3>1
  <2>5. CASE i - 1 \in (k + 1)..n /\ j - 1 \in (k + 1)..n
    <3>1. i - 1 \in 1..n /\ j - 1 \in 1..n /\ i - 1 < j - 1
      BY <1>4, <1>13, <2>5
    <3>2. g[i] = f[i - 1] /\ g[j] = f[j - 1]
      BY <1>8, <2>5, (i - 1) + 1 = i, (j - 1) + 1 = j
    <3> QED BY <1>1, <3>1, <3>2
  <2>6. /\ i \in 1..k \/ i = k + 1 \/ i - 1 \in (k + 1)..n
        /\ j \in 1..k \/ j = k + 1 \/ j - 1 \in (k + 1)..n
    BY <1>8
  <2>7. /\ ~(i = k + 1 /\ j \in 1..k) /\ ~(i = k + 1 /\ j = k + 1)
        /\ ~(i - 1 \in (k + 1)..n /\ (j \in 1..k \/ j = k + 1))
    BY <1>4, <1>13
  <2> QED BY <2>1, <2>2, <2>3, <2>4, <2>5, <2>6, <2>7
<1> QED BY <1>11, <1>12, <1>13 DEF Sorts

LEMMA OrderingSorts ==
    ASSUME NEW n \in Nat, NEW R, TotalOrder(R, n)
    PROVE  Sorts(Ordering(n, R), n, R)
<1> DEFINE A == {m \in Nat : m <= n => \E f : Sorts(f, m, R)}
<1>1. 0 \in A
  <2> DEFINE f == [i \in 1..0 |-> i]
  <2>1. Sorts(f, 0, R)
    BY DEF Sorts, Range
  <2> QED BY <2>1
<1>2. ASSUME NEW m \in Nat, m \in A PROVE m + 1 \in A
  <2> SUFFICES ASSUME m + 1 <= n PROVE \E f : Sorts(f, m + 1, R)
    OBVIOUS
  <2>1. PICK f : Sorts(f, m, R)
    BY <1>2
  <2>2. TotalOrder(R, m + 1)
    <3>1. \A i \in 1..(m + 1) : i \in 1..n
      OBVIOUS
    <3> QED BY <3>1 DEF TotalOrder
  <2> QED BY <2>1, <2>2, SortedInsert
<1> HIDE DEF A
<1>3. n \in A
  BY <1>1, <1>2, SetInduction
<1>4. \E f \in [1..n -> 1..n] : Sorts(f, n, R)
  BY <1>3 DEF A, Sorts
<1> QED BY <1>4 DEF Ordering

-----------------------------------------------------------------------------
(* A function applied over and over.                                        *)

IteratesUpTo(f, base, step, n) ==
    f = [k \in 0..n |-> IF k = 0 THEN base ELSE step[f[k - 1]]]

LEMMA IteratesExists ==
    ASSUME NEW n \in Nat, NEW base, NEW step
    PROVE  \E f : IteratesUpTo(f, base, step, n)
<1> DEFINE A == {m \in Nat : \E f : IteratesUpTo(f, base, step, m)}
<1>1. 0 \in A
  <2> DEFINE f == [k \in 0..0 |-> base]
  <2>1. IteratesUpTo(f, base, step, 0)
    BY DEF IteratesUpTo
  <2> QED BY <2>1
<1>2. ASSUME NEW m \in Nat, m \in A PROVE m + 1 \in A
  <2>1. PICK f : IteratesUpTo(f, base, step, m)
    BY <1>2
  <2> DEFINE g == [k \in 0..(m + 1) |-> IF k = m + 1 THEN step[f[k - 1]] ELSE f[k]]
  <2>2. \A k \in 0..m : f[k] = IF k = 0 THEN base ELSE step[f[k - 1]]
    BY <2>1 DEF IteratesUpTo
  <2>3. \A k \in 0..(m + 1) : k # 0 => k - 1 \in 0..m
    OBVIOUS
  <2>4. \A k \in 0..m : g[k] = f[k]
    OBVIOUS
  <2>5. g = [k \in 0..(m + 1) |-> g[k]] /\ g[m + 1] = step[f[m]]
    OBVIOUS
  <2> HIDE DEF g
  <2>6. \A k \in 0..(m + 1) : g[k] = IF k = 0 THEN base ELSE step[g[k - 1]]
    <3> TAKE k \in 0..(m + 1)
    <3>1. CASE k = m + 1
      <4>1. k # 0 /\ k - 1 = m /\ m \in 0..m
        BY <3>1
      <4>2. g[k] = step[f[m]] /\ g[m] = f[m]
        BY <2>4, <2>5, <3>1, <4>1
      <4> QED BY <4>1, <4>2
    <3>2. CASE k \in 0..m
      BY <2>2, <2>3, <2>4, <3>2
    <3> QED BY <3>1, <3>2
  <2>7. IteratesUpTo(g, base, step, m + 1)
    BY <2>5, <2>6 DEF IteratesUpTo
  <2> QED BY <2>7
<1> HIDE DEF A
<1>3. n \in A
  BY <1>1, <1>2, SetInduction
<1> QED BY <1>3 DEF A

(* What holds at first and is kept by every step holds in the end.          *)
LEMMA IteratedKeeps ==
    ASSUME NEW n \in Nat, NEW S, NEW base \in S, NEW step, \A x \in S : step[x] \in S
    PROVE  Iterated(n, base, step) \in S
<1> DEFINE f == CHOOSE f : IteratesUpTo(f, base, step, n)
<1>1. IteratesUpTo(f, base, step, n)
  BY IteratesExists
<1>2. Iterated(n, base, step) = f[n]
  BY DEF Iterated, IteratesUpTo
<1> HIDE DEF f
<1> DEFINE A == {k \in Nat : k <= n => f[k] \in S}
<1>3. 0 \in A
  BY <1>1 DEF IteratesUpTo
<1>4. ASSUME NEW k \in Nat, k \in A PROVE k + 1 \in A
  <2> SUFFICES ASSUME k + 1 <= n PROVE f[k + 1] \in S
    OBVIOUS
  <2>1. k + 1 \in 0..n /\ k + 1 # 0 /\ (k + 1) - 1 = k /\ f[k] \in S
    BY <1>4
  <2>2. f[k + 1] = step[f[k]]
    BY <1>1, <2>1 DEF IteratesUpTo
  <2> QED BY <2>1, <2>2
<1> HIDE DEF A
<1>5. n \in A
  BY <1>3, <1>4, SetInduction
<1> QED BY <1>2, <1>5 DEF A
=============================================================================
