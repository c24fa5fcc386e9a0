---------------------------- MODULE SequenceFacts ----------------------------
(***************************************************************************)
(* Facts about sequences used as queues: what is in a queue after an       *)
(* append or a removal at the head, and that neither creates duplicates or *)
(* disturbs the order.  At the end, induction and recursion over the       *)
(* naturals, from the fact that a set of naturals has a least member.      *)
(***************************************************************************)
EXTENDS Integers, OrderedSequences, Functions, SequenceTheorems,
        WellFoundedInduction, TLAPS

(* No element occurs twice.                                                *)
Distinct(s) == \A i, j \in 1..Len(s) : s[i] = s[j] => i = j

(* For a sequence this is the library's notion of an injective function.   *)
LEMMA DistinctIsInjective ==
  ASSUME NEW S, NEW s \in Seq(S)
  PROVE  IsInjective(s) <=> Distinct(s)
<1>1. DOMAIN s = 1..Len(s)
  BY LenProperties
<1> QED
  BY <1>1 DEF IsInjective, Distinct

(* An empty queue has no elements, and a nonempty one has some.            *)
LEMMA EmptyRange ==
  ASSUME NEW S, NEW s \in Seq(S)
  PROVE  Range(s) = {} <=> s = <<>>
<1>1. Range(s) = {s[i] : i \in 1..Len(s)}
  BY RangeEquality
<1>2. s = <<>> => Range(s) = {}
  BY <1>1, EmptySeq
<1>3. s # <<>> => Len(s) \in Nat \ {0}
  BY EmptySeq
<1>4. s # <<>> => s[1] \in Range(s)
  BY <1>1, <1>3
<1> QED
  BY <1>2, <1>4

(* Appending adds the element to what the queue holds, and keeps it free   *)
(* of duplicates if the element is new.                                    *)
LEMMA AppendToQueue ==
  ASSUME NEW S, NEW s \in Seq(S), NEW e \in S
  PROVE  /\ Append(s, e) \in Seq(S)
         /\ Len(Append(s, e)) = Len(s) + 1
         /\ Append(s, e) # <<>>
         /\ Range(Append(s, e)) = Range(s) \cup {e}
         /\ IsInjective(s) /\ e \notin Range(s) => IsInjective(Append(s, e))
<1> DEFINE t == Append(s, e)
<1>1. /\ t \in Seq(S)
      /\ t # <<>>
      /\ Len(t) = Len(s) + 1
      /\ \A i \in 1..Len(s) : t[i] = s[i]
      /\ t[Len(s) + 1] = e
  BY AppendProperties
<1>2. Len(s) \in Nat
  BY LenProperties
<1>3. /\ Range(s) = {s[i] : i \in 1..Len(s)}
      /\ Range(t) = {t[i] : i \in 1..Len(t)}
  BY <1>1, RangeEquality
<1> HIDE DEF t
<1>4. Range(t) = Range(s) \cup {e}
  <2>1. ASSUME NEW x \in Range(t) PROVE x \in Range(s) \cup {e}
    <3>1. PICK i \in 1..Len(s) + 1 : x = t[i]
      BY <1>1, <1>3
    <3>2. CASE i = Len(s) + 1
      BY <3>1, <3>2, <1>1
    <3>3. CASE i # Len(s) + 1
      <4>1. i \in 1..Len(s)
        BY <1>2, <3>3
      <4> QED
        BY <4>1, <3>1, <1>1, <1>3
    <3> QED
      BY <3>2, <3>3
  <2>2. ASSUME NEW x \in Range(s) PROVE x \in Range(t)
    <3>1. PICK i \in 1..Len(s) : x = s[i]
      BY <1>3
    <3>2. i \in 1..Len(t) /\ x = t[i]
      BY <3>1, <1>1, <1>2
    <3> QED
      BY <3>2, <1>3
  <2>3. Len(s) + 1 \in 1..Len(t)
    BY <1>1, <1>2
  <2>4. e \in Range(t)
    BY <2>3, <1>1, <1>3
  <2> QED
    BY <2>1, <2>2, <2>4
<1>5. ASSUME Distinct(s), e \notin Range(s) PROVE Distinct(t)
  <2> SUFFICES ASSUME NEW i \in 1..Len(t), NEW j \in 1..Len(t), t[i] = t[j]
               PROVE  i = j
    BY DEF Distinct
  <2>1. \A k \in 1..Len(s) : t[k] # e
    BY <1>1, <1>3, <1>5
  <2>2. CASE i = Len(s) + 1 \/ j = Len(s) + 1
    BY <2>1, <2>2, <1>1, <1>2
  <2>3. CASE i # Len(s) + 1 /\ j # Len(s) + 1
    <3>1. i \in 1..Len(s) /\ j \in 1..Len(s)
      BY <2>3, <1>1, <1>2
    <3> QED
      BY <3>1, <1>1, <1>5 DEF Distinct
  <2> QED
    BY <2>2, <2>3
<1> QED
  BY <1>1, <1>4, <1>5, DistinctIsInjective DEF t

(* Removing the head of a queue without duplicates removes that element    *)
(* and no other.                                                           *)
LEMMA TakeFromQueue ==
  ASSUME NEW S, NEW s \in Seq(S), s # <<>>
  PROVE  /\ Head(s) \in S
         /\ Head(s) \in Range(s)
         /\ Tail(s) \in Seq(S)
         /\ Len(s) \in Nat \ {0}
         /\ Len(Tail(s)) = Len(s) - 1
         /\ Range(s) = Range(Tail(s)) \cup {Head(s)}
         /\ IsInjective(s) => /\ IsInjective(Tail(s))
                              /\ Head(s) \notin Range(Tail(s))
<1> DEFINE t == Tail(s)
<1>1. /\ Head(s) \in S
      /\ t \in Seq(S)
      /\ Len(t) = Len(s) - 1
      /\ \A i \in 1..Len(t) : t[i] = s[i + 1]
  BY HeadTailProperties
<1>2. Len(s) \in Nat \ {0}
  BY EmptySeq
<1>3. /\ Range(s) = {s[i] : i \in 1..Len(s)}
      /\ Range(t) = {t[i] : i \in 1..Len(t)}
  BY <1>1, RangeEquality
<1>4. Head(s) = s[1]
  OBVIOUS
<1> HIDE DEF t
<1>5. Head(s) \in Range(s)
  BY <1>2, <1>3, <1>4
<1>6. ASSUME NEW x \in Range(t) PROVE \E i \in 2..Len(s) : x = s[i]
  <2>1. PICK i \in 1..Len(t) : x = t[i]
    BY <1>3
  <2>2. i + 1 \in 2..Len(s) /\ x = s[i + 1]
    BY <2>1, <1>1, <1>2
  <2> QED
    BY <2>2
<1>7. Range(s) = Range(t) \cup {Head(s)}
  <2>1. ASSUME NEW x \in Range(t) PROVE x \in Range(s)
    <3>1. PICK i \in 2..Len(s) : x = s[i]
      BY <1>6
    <3>2. i \in 1..Len(s)
      BY <1>2
    <3> QED
      BY <3>1, <3>2, <1>3
  <2>2. ASSUME NEW x \in Range(s), x # Head(s) PROVE x \in Range(t)
    <3>1. PICK i \in 1..Len(s) : x = s[i]
      BY <1>3
    <3>2. i # 1
      BY <2>2, <3>1, <1>4
    <3>3. i - 1 \in 1..Len(t) /\ t[i - 1] = s[(i - 1) + 1] /\ (i - 1) + 1 = i
      BY <3>2, <1>1, <1>2
    <3>4. x = t[i - 1]
      BY <3>1, <3>3
    <3> QED
      BY <3>3, <3>4, <1>3
  <2> QED
    BY <2>1, <2>2, <1>5
<1>8. ASSUME Distinct(s) PROVE Distinct(t) /\ Head(s) \notin Range(t)
  <2>1. Head(s) \notin Range(t)
    <3> SUFFICES ASSUME Head(s) \in Range(t) PROVE FALSE
      OBVIOUS
    <3>1. PICK i \in 2..Len(s) : s[1] = s[i]
      BY <1>6, <1>4
    <3>2. 1 \in 1..Len(s) /\ i \in 1..Len(s) /\ i # 1
      BY <1>2
    <3> QED
      BY <3>1, <3>2, <1>8 DEF Distinct
  <2>2. ASSUME NEW i \in 1..Len(t), NEW j \in 1..Len(t), t[i] = t[j]
        PROVE  i = j
    <3>1. i + 1 \in 1..Len(s) /\ j + 1 \in 1..Len(s)
      BY <1>1, <1>2
    <3>2. s[i + 1] = s[j + 1]
      BY <2>2, <1>1
    <3>3. i + 1 = j + 1
      BY <3>1, <3>2, <1>8 DEF Distinct
    <3> QED
      BY <3>3
  <2> QED
    BY <2>1, <2>2 DEF Distinct
<1> QED
  BY <1>1, <1>2, <1>5, <1>7, <1>8, DistinctIsInjective DEF t

(* Queues that are in order.                                               *)
LEMMA AppendOrdered ==
  ASSUME NEW S, NEW s \in Seq(S), NEW e \in S, Increasing(s), Below(Range(s), {e})
  PROVE  Increasing(Append(s, e))
<1> DEFINE t == Append(s, e)
<1>1. /\ Len(t) = Len(s) + 1
      /\ \A i \in 1..Len(s) : t[i] = s[i]
      /\ t[Len(s) + 1] = e
      /\ Len(s) \in Nat
  BY AppendProperties, LenProperties
<1>2. \A i \in 1..Len(s) : s[i] < e
  BY RangeEquality DEF Below
<1> HIDE DEF t
<1>3. ASSUME NEW i \in 1..Len(t), NEW j \in 1..Len(t), i < j PROVE t[i] < t[j]
  <2>1. i \in 1..Len(s)
    BY <1>1, <1>3
  <2>2. CASE j = Len(s) + 1
    BY <2>1, <2>2, <1>1, <1>2
  <2>3. CASE j # Len(s) + 1
    <3>1. j \in 1..Len(s)
      BY <2>3, <1>1
    <3> QED
      BY <2>1, <3>1, <1>1, <1>3 DEF Increasing
  <2> QED
    BY <2>2, <2>3
<1> QED
  BY <1>3 DEF Increasing, t

LEMMA TailOrdered ==
  ASSUME NEW S, NEW s \in Seq(S), s # <<>>, Increasing(s)
  PROVE  Increasing(Tail(s)) /\ Below({Head(s)}, Range(Tail(s)))
<1> DEFINE t == Tail(s)
<1>1. /\ t \in Seq(S)
      /\ Len(t) = Len(s) - 1
      /\ \A i \in 1..Len(t) : t[i] = s[i + 1]
      /\ Head(s) = s[1]
  BY HeadTailProperties
<1>2. Len(s) \in Nat \ {0}
  BY EmptySeq
<1>3. Range(t) = {t[i] : i \in 1..Len(t)}
  BY <1>1, RangeEquality
<1> HIDE DEF t
<1>4. ASSUME NEW i \in 1..Len(t), NEW j \in 1..Len(t), i < j PROVE t[i] < t[j]
  <2>1. i + 1 \in 1..Len(s) /\ j + 1 \in 1..Len(s) /\ i + 1 < j + 1
    BY <1>1, <1>2, <1>4
  <2> QED
    BY <2>1, <1>1 DEF Increasing
<1>5. ASSUME NEW i \in 1..Len(t) PROVE s[1] < t[i]
  <2>1. 1 \in 1..Len(s) /\ i + 1 \in 1..Len(s) /\ 1 < i + 1
    BY <1>1, <1>2
  <2> QED
    BY <2>1, <1>1 DEF Increasing
<1> QED
  BY <1>1, <1>3, <1>4, <1>5 DEF Increasing, Below, t

LEMMA ConcatOrdered ==
  ASSUME NEW S, NEW s \in Seq(S), NEW t \in Seq(S),
         Increasing(s), Increasing(t), Below(Range(s), Range(t))
  PROVE  Increasing(s \o t)
<1> DEFINE u == s \o t
<1>1. /\ Len(u) = Len(s) + Len(t)
      /\ \A i \in 1..Len(s) + Len(t) :
           u[i] = IF i <= Len(s) THEN s[i] ELSE t[i - Len(s)]
      /\ Len(s) \in Nat /\ Len(t) \in Nat
  BY ConcatProperties, LenProperties
<1>2. \A i \in 1..Len(s), j \in 1..Len(t) : s[i] < t[j]
  BY RangeEquality DEF Below
<1> HIDE DEF u
<1>3. ASSUME NEW i \in 1..Len(u), NEW j \in 1..Len(u), i < j PROVE u[i] < u[j]
  <2>1. CASE j <= Len(s)
    <3>1. i \in 1..Len(s) /\ j \in 1..Len(s)
      BY <2>1, <1>1, <1>3
    <3> QED
      BY <3>1, <1>1, <1>3 DEF Increasing
  <2>2. CASE i <= Len(s) /\ ~(j <= Len(s))
    <3>1. i \in 1..Len(s) /\ j - Len(s) \in 1..Len(t)
      BY <2>2, <1>1
    <3>2. u[i] = s[i] /\ u[j] = t[j - Len(s)]
      BY <2>2, <1>1
    <3> QED
      BY <3>1, <3>2, <1>2
  <2>3. CASE ~(i <= Len(s))
    <3>1. /\ i - Len(s) \in 1..Len(t) /\ j - Len(s) \in 1..Len(t)
          /\ i - Len(s) < j - Len(s) /\ ~(j <= Len(s))
      BY <2>3, <1>1, <1>3
    <3>2. u[i] = t[i - Len(s)] /\ u[j] = t[j - Len(s)]
      BY <2>3, <3>1, <1>1
    <3> QED
      BY <3>1, <3>2 DEF Increasing
  <2> QED
    BY <1>1, <2>1, <2>2, <2>3
<1> QED
  BY <1>3 DEF Increasing, u

-----------------------------------------------------------------------------
(* Induction: a nonempty set of naturals has a least member.               *)
LessThan == {p \in Nat \X Nat : p[1] < p[2]}

LEMMA LessThanWellFounded == IsWellFoundedOn(LessThan, Nat)
<1>1. OpToRel(<, Nat) = LessThan
  BY Zenon DEF OpToRel, LessThan
<1>2. IsWellFoundedOn(OpToRel(<, Nat), Nat)
  BY NatLessThanWellFounded, Zenon
<1> QED
  BY <1>1, <1>2, Zenon

LEMMA LeastMember ==
  ASSUME NEW T \in SUBSET Nat, T # {}
  PROVE  \E n \in T : \A m \in T : n <= m
<1>1. PICK n \in T : \A m \in T : ~ (<<m, n>> \in LessThan)
  BY WFMin, LessThanWellFounded, Zenon
<1>2. ASSUME NEW m \in T PROVE n <= m
  <2>1. n \in Nat /\ m \in Nat
    OBVIOUS
  <2>2. ~ (m < n)
    BY <1>1, <2>1 DEF LessThan
  <2> QED
    BY <2>1, <2>2
<1> QED
  BY <1>2, Zenon

(* A set of naturals that holds 0, and with any number the next, holds all.*)
LEMMA Induction ==
  ASSUME NEW T, 0 \in T, \A n \in Nat : n \in T => n + 1 \in T
  PROVE  Nat \subseteq T
<1> SUFFICES ASSUME ~ (Nat \subseteq T) PROVE FALSE
  OBVIOUS
<1> DEFINE U == Nat \ T
<1>1. U \in SUBSET Nat /\ U # {}
  OBVIOUS
<1>2. PICK n \in U : \A m \in U : n <= m
  BY <1>1, LeastMember, Zenon
<1>3. n \in Nat \ {0} /\ n - 1 \in Nat
  BY <1>2
<1>4. n - 1 \in T
  BY <1>2, <1>3
<1>5. (n - 1) + 1 \in T
  BY <1>3, <1>4
<1>6. (n - 1) + 1 = n
  BY <1>3
<1> QED
  BY <1>2, <1>5, <1>6

(* A recursion over the naturals has a solution.                           *)
Solutions(S, a, step, n) ==
  {f \in [0..n -> S] :
     f[0] = a /\ \A k \in 0..n - 1 : f[k + 1] = step[<<k, f[k]>>]}

LEMMA SolutionsExist ==
  ASSUME NEW S, NEW a \in S, NEW step \in [Nat \X S -> S]
  PROVE  \A n \in Nat : \E f : f \in Solutions(S, a, step, n)
<1> DEFINE T == {n \in Nat : \E f : f \in Solutions(S, a, step, n)}
<1>1. 0 \in T
  <2> DEFINE f == [k \in 0..0 |-> a]
  <2>1. f \in Solutions(S, a, step, 0)
    BY DEF Solutions
  <2> QED
    BY <2>1
<1>2. ASSUME NEW n \in Nat, n \in T PROVE n + 1 \in T
  <2>1. PICK g : g \in Solutions(S, a, step, n)
    BY <1>2
  <2>2. /\ g \in [0..n -> S] /\ g[0] = a
        /\ \A k \in 0..n - 1 : g[k + 1] = step[<<k, g[k]>>]
    BY <2>1 DEF Solutions
  <2> DEFINE f == [k \in 0..n + 1 |-> IF k = n + 1 THEN step[<<n, g[n]>>] ELSE g[k]]
  <2>3. step[<<n, g[n]>>] \in S
    BY <2>2
  <2>4. f \in [0..n + 1 -> S]
    BY <2>2, <2>3
  <2>5. f[0] = a
    BY <2>2
  <2>6. ASSUME NEW k \in 0..n + 1 - 1 PROVE f[k + 1] = step[<<k, f[k]>>]
    <3>1. /\ k \in 0..n + 1 /\ k + 1 \in 0..n + 1 /\ k # n + 1 /\ k \in Int
          /\ k + 1 = n + 1 => k = n
      OBVIOUS
    <3>2. f[k] = g[k]
      BY <3>1
    <3>3. CASE k = n
      BY <3>1, <3>2, <3>3
    <3>4. CASE k # n
      BY <3>1, <3>2, <3>4, <2>2
    <3> QED
      BY <3>3, <3>4
  <2>7. f \in Solutions(S, a, step, n + 1)
    <3> HIDE DEF f
    <3> QED
      BY <2>4, <2>5, <2>6 DEF Solutions
  <2> QED
    BY <2>7
<1>3. Nat \subseteq T
  <2> HIDE DEF T
  <2> QED BY <1>1, <1>2, Induction
<1> QED
  BY <1>3

LEMMA SolutionsAgree ==
  ASSUME NEW S, NEW a, NEW step, NEW n \in Nat, NEW m \in Nat, n <= m,
         NEW f \in Solutions(S, a, step, n), NEW g \in Solutions(S, a, step, m)
  PROVE  \A k \in 0..n : f[k] = g[k]
<1> DEFINE T == {k \in Nat : k \in 0..n => f[k] = g[k]}
<1>1. 0 \in T
  BY DEF Solutions
<1>2. ASSUME NEW k \in Nat, k \in T PROVE k + 1 \in T
  <2> SUFFICES ASSUME k + 1 \in 0..n PROVE f[k + 1] = g[k + 1]
    OBVIOUS
  <2>1. k \in 0..n - 1 /\ k \in 0..m - 1 /\ k \in 0..n
    OBVIOUS
  <2>2. f[k] = g[k]
    BY <1>2, <2>1
  <2> QED
    BY <2>1, <2>2 DEF Solutions
<1>3. Nat \subseteq T
  <2> HIDE DEF T
  <2> QED BY <1>1, <1>2, Induction
<1> QED
  BY <1>3

IsRecursion(F, S, a, step) ==
  /\ F \in [Nat -> S]
  /\ F[0] = a
  /\ \A n \in Nat : F[n + 1] = step[<<n, F[n]>>]

LEMMA Recursion ==
  ASSUME NEW S, NEW a \in S, NEW step \in [Nat \X S -> S]
  PROVE  \E F : IsRecursion(F, S, a, step)
<1> DEFINE Sol(n) == Solutions(S, a, step, n)
           G(n) == CHOOSE f : f \in Sol(n)
           F == [n \in Nat |-> G(n)[n]]
<1>1. ASSUME NEW n \in Nat PROVE G(n) \in Sol(n)
  BY SolutionsExist
<1>2. ASSUME NEW n \in Nat PROVE G(n)[n] \in S
  <2>1. G(n) \in Sol(n) /\ n \in 0..n
    BY <1>1
  <2> HIDE DEF G
  <2> QED
    BY <2>1 DEF Solutions
<1>3. F \in [Nat -> S]
  BY <1>2
<1>4. F[0] = a
  BY <1>1 DEF Solutions
<1>5. ASSUME NEW n \in Nat PROVE F[n + 1] = step[<<n, F[n]>>]
  <2>1. G(n + 1)[n + 1] = step[<<n, G(n + 1)[n]>>]
    <3>1. G(n + 1) \in Sol(n + 1) /\ n \in 0..(n + 1) - 1
      BY <1>1
    <3> HIDE DEF G
    <3> QED
      BY <3>1 DEF Solutions
  <2>2. G(n) \in Sol(n) /\ G(n + 1) \in Sol(n + 1) /\ n <= n + 1 /\ n \in 0..n
    BY <1>1
  <2>3. G(n)[n] = G(n + 1)[n]
    <3> HIDE DEF G
    <3> QED
      BY <2>2, SolutionsAgree
  <2> HIDE DEF G
  <2> QED
    BY <2>1, <2>3
<1>6. IsRecursion(F, S, a, step)
  <2> HIDE DEF F
  <2> QED
    BY <1>3, <1>4, <1>5 DEF IsRecursion
<1> QED
  BY <1>6, Zenon
=============================================================================
