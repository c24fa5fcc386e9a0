------------------------- MODULE GrpcReconnectProofs -------------------------
(***************************************************************************)
(* For all budgets and backoff settings and every bound, the manager keeps *)
(* one connection, tells the truth about it, gives up exactly when its     *)
(* budget is used, pauses as designed until the doubling overflows, and in *)
(* the end does not pause at all.                                          *)
(***************************************************************************)
EXTENDS GrpcReconnect, SequenceFacts

-----------------------------------------------------------------------------
(* The arithmetic of durations.  The recursive functions are solutions of  *)
(* their equations by lemma Recursion.                                     *)

LEMMA PowersOfTwo ==
  /\ pow2[0] = 1
  /\ \A n \in Nat : pow2[n + 1] = 2 * pow2[n]
  /\ \A n \in Nat : pow2[n] \in Nat \ {0}
<1> DEFINE step == [p \in Nat \X Nat |-> 2 * p[2]]
           Solves(f) == f = [n \in Nat |-> IF n = 0 THEN 1 ELSE 2 * f[n - 1]]
<1>1. \E f : Solves(f)
  <2>1. 1 \in Nat /\ step \in [Nat \X Nat -> Nat]
    OBVIOUS
  <2> HIDE DEF step
  <2>2. PICK f : IsRecursion(f, Nat, 1, step)
    BY <2>1, Recursion, Zenon
  <2>3. ASSUME NEW n \in Nat PROVE f[n] = IF n = 0 THEN 1 ELSE 2 * f[n - 1]
    <3>1. CASE n = 0
      BY <2>2, <3>1 DEF IsRecursion
    <3>2. CASE n # 0
      <4>1. n - 1 \in Nat /\ (n - 1) + 1 = n /\ f[n - 1] \in Nat
        BY <2>2, <3>2 DEF IsRecursion
      <4>2. step[<<n - 1, f[n - 1]>>] = 2 * f[n - 1]
        BY <4>1 DEF step
      <4> QED
        BY <2>2, <3>2, <4>1, <4>2 DEF IsRecursion
    <3> QED
      BY <3>1, <3>2
  <2>4. Solves(f)
    BY <2>2, <2>3 DEF IsRecursion
  <2> QED
    BY <2>4, Zenon
<1>2. Solves(pow2)
  <2>1. pow2 = CHOOSE f : Solves(f)
    BY Zenon DEF pow2
  <2> HIDE DEF Solves
  <2> QED
    BY <1>1, <2>1
<1>3. pow2[0] = 1 /\ \A n \in Nat : pow2[n + 1] = 2 * pow2[n]
  BY <1>2
<1> DEFINE T == {n \in Nat : pow2[n] \in Nat \ {0}}
<1>4. Nat \subseteq T
  <2>1. 0 \in T
    BY <1>3
  <2>2. ASSUME NEW n \in Nat, n \in T PROVE n + 1 \in T
    <3>1. pow2[n + 1] = 2 * pow2[n] /\ pow2[n] \in Nat \ {0}
      BY <1>3, <2>2
    <3> QED
      BY <3>1
  <2> HIDE DEF T
  <2> QED
    BY <2>1, <2>2, Induction
<1> HIDE DEF Solves
<1> QED
  BY <1>3, <1>4

LEMMA WrapIsInteger == ASSUME NEW n \in Int PROVE Wrap(n) \in Int
<1>1. pow2[Width] \in Nat \ {0} /\ pow2[Width - 1] \in Nat
  BY PowersOfTwo, DurationAssumption
<1> QED
  BY <1>1 DEF Wrap

(* A duration that fits is kept.                                           *)
LEMMA WrapKeeps ==
  ASSUME NEW n \in Nat, n < pow2[Width - 1]
  PROVE  Wrap(n) = n
<1> DEFINE h == pow2[Width - 1]
<1>1. h \in Nat \ {0} /\ pow2[Width] = 2 * h
  <2>1. Width - 1 \in Nat /\ (Width - 1) + 1 = Width
    BY DurationAssumption
  <2> QED
    BY <2>1, PowersOfTwo
<1> HIDE DEF h
<1>2. n + h \in 0..2 * h - 1
  BY <1>1 DEF h
<1>3. (n + h) % (2 * h) = n + h
  BY <1>1, <1>2
<1> QED
  BY <1>1, <1>3 DEF Wrap, h

LEMMA Doubling ==
  /\ doubled[0] = Wrap(InitialBackoff * Second)
  /\ \A n \in Nat : doubled[n + 1] = Wrap(2 * doubled[n])
  /\ \A n \in Nat : doubled[n] \in Int
<1> DEFINE first == Wrap(InitialBackoff * Second)
           step == [p \in Nat \X Int |-> Wrap(2 * p[2])]
           Solves(f) == f = [n \in Nat |-> IF n = 0 THEN Wrap(InitialBackoff * Second)
                                                   ELSE Wrap(2 * f[n - 1])]
<1>1. first \in Int
  <2>1. InitialBackoff * Second \in Int
    BY DurationAssumption
  <2> QED
    BY <2>1, WrapIsInteger
<1>2. \E f : Solves(f)
  <2>1. step \in [Nat \X Int -> Int]
    <3>1. ASSUME NEW p \in Nat \X Int PROVE Wrap(2 * p[2]) \in Int
      <4>1. 2 * p[2] \in Int
        OBVIOUS
      <4> QED
        BY <4>1, WrapIsInteger
    <3> QED
      BY <3>1
  <2> HIDE DEF step
  <2>2. PICK f : IsRecursion(f, Int, first, step)
    BY <1>1, <2>1, Recursion, Zenon
  <2>3. ASSUME NEW n \in Nat
        PROVE  f[n] = IF n = 0 THEN Wrap(InitialBackoff * Second) ELSE Wrap(2 * f[n - 1])
    <3>1. CASE n = 0
      BY <2>2, <3>1 DEF IsRecursion
    <3>2. CASE n # 0
      <4>1. n - 1 \in Nat /\ (n - 1) + 1 = n /\ f[n - 1] \in Int
        BY <2>2, <3>2 DEF IsRecursion
      <4>2. step[<<n - 1, f[n - 1]>>] = Wrap(2 * f[n - 1])
        BY <4>1 DEF step
      <4> QED
        BY <2>2, <3>2, <4>1, <4>2 DEF IsRecursion
    <3> QED
      BY <3>1, <3>2
  <2>4. Solves(f)
    BY <2>2, <2>3 DEF IsRecursion
  <2> QED
    BY <2>4, Zenon
<1>3. Solves(doubled)
  <2>1. doubled = CHOOSE f : Solves(f)
    BY Zenon DEF doubled
  <2> HIDE DEF Solves
  <2> QED
    BY <1>2, <2>1
<1>4. /\ doubled[0] = first
      /\ \A n \in Nat : doubled[n + 1] = Wrap(2 * doubled[n])
  BY <1>3
<1> DEFINE T == {n \in Nat : doubled[n] \in Int}
<1>5. Nat \subseteq T
  <2>1. 0 \in T
    BY <1>1, <1>4
  <2>2. ASSUME NEW n \in Nat, n \in T PROVE n + 1 \in T
    <3>1. 2 * doubled[n] \in Int
      BY <2>2
    <3> QED
      BY <3>1, <1>4, WrapIsInteger
  <2> HIDE DEF T
  <2> QED
    BY <2>1, <2>2, Induction
<1> HIDE DEF Solves
<1> QED
  BY <1>4, <1>5

(* Until it overflows the doubling computes what it is meant to.           *)
LEMMA DoublingIsExact ==
  ASSUME NEW n \in Nat, InitialBackoff * Second * pow2[n] < pow2[Width - 1]
  PROVE  doubled[n] = InitialBackoff * Second * pow2[n]
<1> DEFINE full(k) == InitialBackoff * Second * pow2[k]
           T == {k \in Nat : full(k) < pow2[Width - 1] => doubled[k] = full(k)}
<1>1. ASSUME NEW k \in Nat PROVE full(k) \in Nat /\ full(k + 1) = 2 * full(k)
  <2> DEFINE unit == InitialBackoff * Second
  <2>1. unit \in Nat
    BY DurationAssumption
  <2>2. pow2[k] \in Nat /\ pow2[k + 1] = 2 * pow2[k]
    BY PowersOfTwo
  <2> HIDE DEF unit
  <2>3. unit * pow2[k] \in Nat /\ unit * pow2[k + 1] = 2 * (unit * pow2[k])
    BY <2>1, <2>2
  <2> QED
    BY <2>3 DEF unit
<1>2. pow2[Width - 1] \in Nat
  BY PowersOfTwo, DurationAssumption
<1>3. Nat \subseteq T
  <2>1. 0 \in T
    <3>1. full(0) = InitialBackoff * Second
      BY PowersOfTwo, DurationAssumption
    <3>2. full(0) \in Nat
      BY <1>1
    <3> HIDE DEF full
    <3> QED
      BY <3>1, <3>2, Doubling, WrapKeeps
  <2>2. ASSUME NEW k \in Nat, k \in T PROVE k + 1 \in T
    <3> SUFFICES ASSUME full(k + 1) < pow2[Width - 1] PROVE doubled[k + 1] = full(k + 1)
      OBVIOUS
    <3>1. full(k) \in Nat /\ full(k + 1) = 2 * full(k) /\ full(k + 1) \in Nat
      BY <1>1
    <3> HIDE DEF full
    <3>2. full(k) < pow2[Width - 1]
      BY <1>2, <3>1
    <3>3. doubled[k + 1] = Wrap(2 * doubled[k]) /\ doubled[k] = full(k)
      BY <2>2, <3>2, Doubling
    <3>4. Wrap(full(k + 1)) = full(k + 1)
      BY <3>1, WrapKeeps
    <3> QED
      BY <3>1, <3>3, <3>4
  <2> HIDE DEF T
  <2> QED
    BY <2>1, <2>2, Induction
<1> QED
  BY <1>3

LEMMA Division ==
  \A m \in Int, d \in Nat \ {0} :
    /\ m \div d \in Int /\ m % d \in 0..d - 1
    /\ m = d * (m \div d) + (m % d)
<1>1. \A m, d \in Int : d > 0 => m = d * (m \div d) + (m % d)
  BY SMT
<1>2. \A m, d \in Int : d > 0 => m % d \in 0..d - 1
  BY SMT
<1>3. \A m, d \in Int : d > 0 => m \div d \in Int
  BY SMT
<1> QED
  BY <1>1, <1>2, <1>3

(* What is left of n is n less some multiple of 2^Width, and in range.     *)
LEMMA WrapIsRemainder ==
  ASSUME NEW n \in Int
  PROVE  /\ \E q \in Int : Wrap(n) = n - pow2[Width] * q
         /\ Wrap(n) < pow2[Width] /\ - Wrap(n) < pow2[Width]
<1> DEFINE h == pow2[Width - 1]
           d == pow2[Width]
<1>1. h \in Nat \ {0} /\ d \in Nat \ {0} /\ d = 2 * h
  <2>1. Width - 1 \in Nat /\ (Width - 1) + 1 = Width
    BY DurationAssumption
  <2> QED
    BY <2>1, PowersOfTwo
<1> DEFINE r == (n + h) % d
           q == (n + h) \div d
<1>2. Wrap(n) = r - h
  BY DEF Wrap
<1> HIDE DEF h, d
<1>3. q \in Int /\ r \in 0..d - 1 /\ n + h = d * q + r
  <2>1. n + h \in Int
    BY <1>1
  <2> QED
    BY <1>1, <2>1, Division
<1> HIDE DEF r, q
<1>4. d * q \in Int
  BY <1>1, <1>3
<1> HIDE DEF d
<1>5. Wrap(n) = n - d * q
  BY <1>1, <1>2, <1>3, <1>4
<1>6. Wrap(n) < d /\ - Wrap(n) < d
  BY <1>1, <1>2, <1>3
<1> QED
  BY <1>3, <1>5, <1>6 DEF d

(* m ends in n zero bits at least.                                         *)
Multiple(m, n) == \E c \in Int : m = pow2[n] * c

(* Powers of two divide the higher ones.                                   *)
LEMMA HigherPowers == \A n, k \in Nat : Multiple(pow2[n + k], n)
<1> SUFFICES ASSUME NEW n \in Nat PROVE \A k \in Nat : Multiple(pow2[n + k], n)
  OBVIOUS
<1> DEFINE T == {k \in Nat : Multiple(pow2[n + k], n)}
<1>1. 0 \in T
  BY PowersOfTwo DEF Multiple
<1>2. ASSUME NEW k \in Nat, k \in T PROVE k + 1 \in T
  <2>1. PICK c \in Int : pow2[n + k] = pow2[n] * c
    BY <1>2 DEF Multiple
  <2>2. pow2[n + (k + 1)] = 2 * pow2[n + k] /\ pow2[n] \in Nat
    BY PowersOfTwo
  <2>3. pow2[n + (k + 1)] = pow2[n] * (2 * c) /\ 2 * c \in Int
    BY <2>1, <2>2
  <2> QED
    BY <2>3 DEF Multiple
<1> HIDE DEF T
<1>3. Nat \subseteq T
  BY <1>1, <1>2, Induction
<1> QED
  BY <1>3 DEF T

(* Cutting to Width bits leaves the low bits alone.                        *)
LEMMA WrapKeepsLowBits ==
  ASSUME NEW m \in Int, NEW n \in 0..Width, Multiple(m, n)
  PROVE  Multiple(Wrap(m), n)
<1>1. PICK q \in Int : Wrap(m) = m - pow2[Width] * q
  BY WrapIsRemainder
<1>2. PICK c \in Int : m = pow2[n] * c
  BY DEF Multiple
<1>3. PICK e \in Int : pow2[Width] = pow2[n] * e
  <2>1. n \in Nat /\ Width - n \in Nat /\ n + (Width - n) = Width
    BY DurationAssumption
  <2> QED
    BY <2>1, HigherPowers DEF Multiple
<1>4. pow2[n] \in Int
  BY PowersOfTwo, DurationAssumption
<1>5. Wrap(m) = pow2[n] * (c - e * q) /\ c - e * q \in Int
  <2>1. Wrap(m) = pow2[n] * c - (pow2[n] * e) * q
    BY <1>1, <1>2, <1>3
  <2> QED
    BY <2>1, <1>4
<1> QED
  BY <1>5 DEF Multiple

(* Every doubling shifts a zero in from the right.                         *)
LEMMA DoublingShifts ==
  ASSUME NEW k \in 0..Width, Multiple(Second, k)
  PROVE  \A n \in Nat : k + n <= Width => Multiple(doubled[n], k + n)
<1> USE DurationAssumption
<1> DEFINE T == {n \in Nat : k + n <= Width => Multiple(doubled[n], k + n)}
<1>1. 0 \in T
  <2>1. PICK s \in Int : Second = pow2[k] * s
    BY DEF Multiple
  <2>2. /\ InitialBackoff * Second = pow2[k] * (InitialBackoff * s)
        /\ InitialBackoff * s \in Int /\ InitialBackoff * Second \in Int
    <3>1. k \in Nat /\ pow2[k] \in Int
      BY PowersOfTwo
    <3> QED
      BY <2>1, <3>1
  <2>3. Multiple(InitialBackoff * Second, k)
    BY <2>2 DEF Multiple
  <2>4. Multiple(doubled[0], k)
    BY <2>2, <2>3, WrapKeepsLowBits, Doubling
  <2> QED
    BY <2>4
<1>2. ASSUME NEW n \in Nat, n \in T PROVE n + 1 \in T
  <2> SUFFICES ASSUME k + (n + 1) <= Width PROVE Multiple(doubled[n + 1], k + (n + 1))
    OBVIOUS
  <2>1. PICK c \in Int : doubled[n] = pow2[k + n] * c
    BY <1>2 DEF Multiple
  <2>2. pow2[k + (n + 1)] = 2 * pow2[k + n] /\ pow2[k + n] \in Nat
    <3>1. k + n \in Nat /\ k + (n + 1) = (k + n) + 1
      OBVIOUS
    <3> QED
      BY <3>1, PowersOfTwo
  <2>3. 2 * doubled[n] = pow2[k + (n + 1)] * c /\ 2 * doubled[n] \in Int
    BY <2>1, <2>2
  <2>4. Multiple(2 * doubled[n], k + (n + 1))
    BY <2>3 DEF Multiple
  <2>5. k + (n + 1) \in 0..Width
    OBVIOUS
  <2> QED
    BY <2>3, <2>4, <2>5, WrapKeepsLowBits, Doubling
<1> HIDE DEF T
<1>3. Nat \subseteq T
  BY <1>1, <1>2, Induction
<1> QED
  BY <1>3 DEF T

(* ... so that in the end only zeros are left.                             *)
LEMMA DoublingVanishes ==
  ASSUME NEW k \in 0..Width, Multiple(Second, k)
  PROVE  \A n \in Nat : k + n >= Width => doubled[n] = 0
<1> USE DurationAssumption
<1> DEFINE T == {n \in Nat : k + n >= Width => doubled[n] = 0}
<1>1. Wrap(0) = 0
  <2>1. 0 < pow2[Width - 1]
    BY PowersOfTwo
  <2> QED
    BY <2>1, WrapKeeps
<1>2. ASSUME NEW n \in Nat, k + n = Width PROVE doubled[n] = 0
  <2>1. PICK c \in Int : doubled[n] = pow2[Width] * c
    BY <1>2, DoublingShifts DEF Multiple
  <2>2. doubled[n] < pow2[Width] /\ - doubled[n] < pow2[Width]
    <3>1. CASE n = 0
      BY <3>1, Doubling, WrapIsRemainder
    <3>2. CASE n # 0
      <4>1. n - 1 \in Nat /\ (n - 1) + 1 = n
        BY <3>2
      <4>2. doubled[n] = Wrap(2 * doubled[n - 1]) /\ 2 * doubled[n - 1] \in Int
        BY <4>1, Doubling
      <4> QED
        BY <4>2, WrapIsRemainder
    <3> QED
      BY <3>1, <3>2
  <2>3. pow2[Width] \in Nat \ {0}
    BY PowersOfTwo
  <2>4. ~ (c >= 1) /\ ~ (c <= -1)
    <3>1. ASSUME c >= 1 PROVE FALSE
      <4>1. pow2[Width] * c >= pow2[Width]
        BY <2>3, <3>1
      <4> QED
        BY <4>1, <2>1, <2>2, <2>3, Doubling
    <3>2. ASSUME c <= -1 PROVE FALSE
      <4>1. - (pow2[Width] * c) >= pow2[Width]
        BY <2>3, <3>2
      <4> QED
        BY <4>1, <2>1, <2>2, <2>3, Doubling
    <3> QED
      BY <3>1, <3>2
  <2>5. c = 0
    BY <2>4
  <2> QED
    BY <2>1, <2>3, <2>5
<1>3. 0 \in T
  BY <1>2
<1>4. ASSUME NEW n \in Nat, n \in T PROVE n + 1 \in T
  <2>1. CASE k + n >= Width
    <3>1. doubled[n] = 0 /\ doubled[n + 1] = Wrap(2 * doubled[n])
      BY <1>4, <2>1, Doubling
    <3> QED
      BY <3>1, <1>1
  <2>2. CASE k + (n + 1) = Width
    BY <1>2, <2>2
  <2>3. CASE k + (n + 1) < Width
    BY <2>3
  <2> QED
    BY <2>1, <2>2, <2>3
<1> HIDE DEF T
<1>5. Nat \subseteq T
  BY <1>3, <1>4, Induction
<1> QED
  BY <1>5 DEF T

LEMMA BackoffIsInteger ==
  ASSUME NEW n \in Nat PROVE GetReconnectBackoff(n) \in Int
<1>1. MaxBackoff * Second \in Int
  BY DurationAssumption
<1> QED
  BY <1>1, Doubling DEF GetReconnectBackoff

(* ... and so does the backoff, which cuts it.                             *)
LEMMA BackoffIsExact ==
  ASSUME NEW n \in Nat, InitialBackoff * Second * pow2[n] < pow2[Width - 1]
  PROVE  LET full == InitialBackoff * pow2[n]
             base == IF full < MaxBackoff THEN full ELSE MaxBackoff
         IN  GetReconnectBackoff(n) = base * Second
<1> DEFINE full == InitialBackoff * pow2[n]
<1>1. /\ full \in Nat /\ MaxBackoff \in Nat /\ Second \in Nat \ {0}
      /\ InitialBackoff \in Nat /\ pow2[n] \in Nat
  BY DurationAssumption, PowersOfTwo
<1>2. doubled[n] = full * Second
  BY <1>1, DoublingIsExact
<1> HIDE DEF full
<1>3. (full * Second > MaxBackoff * Second) <=> full > MaxBackoff
  BY <1>1
<1>4. CASE full > MaxBackoff
  BY <1>1, <1>2, <1>3, <1>4 DEF GetReconnectBackoff, full
<1>5. CASE ~ (full > MaxBackoff)
  <2>1. full < MaxBackoff \/ full = MaxBackoff
    BY <1>1, <1>5
  <2> QED
    BY <1>1, <1>2, <1>3, <1>5, <2>1 DEF GetReconnectBackoff, full
<1> QED
  BY <1>4, <1>5

-----------------------------------------------------------------------------
(* The inductive invariant.                                                *)

(* With a budget the two counters move together: reconnects is one ahead   *)
(* from the reconnect to the end of the pause.                             *)
BudgetKept ==
  budget > 0 =>
    /\ attempt <= budget
    /\ rpc \in {"top", "streaming", "check"} => reconnects = attempt
    /\ rpc \in {"redial", "sleeping"} =>
         attempt < budget /\ reconnects = attempt + 1

(* From the reconnect to the end of the pause, the pause is that of the    *)
(* attempt that is counted.                                                *)
PauseKept ==
  rpc \in {"redial", "sleeping"} =>
    \E j \in Jitters : wait = GetReconnectBackoff(attempt) + j

IInv ==
  /\ TypeOK /\ OneConnection /\ StatusTruthful /\ BudgetKept /\ PauseKept
  /\ GivesUpAtBudget

LEMMA InitInv == Init => IInv
<1> USE BudgetAssumption
<1> SUFFICES ASSUME Init PROVE IInv
  OBVIOUS
<1>1. TypeOK
  <2>1. hasClient \in BOOLEAN /\ ctxDone \in BOOLEAN
    BY Zenon DEF Init
  <2>2. attempt \in 0..AttemptBound /\ reconnects \in 0..AttemptBound
    BY DEF Init
  <2>3. rpc \in States /\ budget \in Budgets /\ conns \in Nat /\ connStatus \in {0, 1}
      /\ wait \in Int
    BY DEF Init, States
  <2> QED
    BY <2>1, <2>2, <2>3, Zenon DEF TypeOK
<1>2. OneConnection /\ StatusTruthful
  BY DEF Init, OneConnection, StatusTruthful
<1>3. BudgetKept /\ PauseKept /\ GivesUpAtBudget
  BY DEF Init, BudgetKept, PauseKept, GivesUpAtBudget
<1> QED
  BY <1>1, <1>2, <1>3 DEF IInv

LEMMA StepInv == IInv /\ [Next]_vars => IInv'
<1> USE BudgetAssumption DEF IInv
<1> SUFFICES ASSUME IInv, [Next]_vars PROVE IInv'
  OBVIOUS
<1> DEFINE Opening == NoStream \/ StreamOpens \/ StreamFails \/ StreamEnds
           Dialling == DialSucceeds \/ DialFails
<1>1. CASE Stops
  <2>1. TypeOK' /\ OneConnection' /\ StatusTruthful'
    BY <1>1 DEF Stops, Stop, TypeOK, States, OneConnection, StatusTruthful
  <2>2. BudgetKept' /\ PauseKept' /\ GivesUpAtBudget'
    BY <1>1 DEF Stops, Stop, TypeOK, States, BudgetKept, PauseKept, GivesUpAtBudget
  <2> QED BY <2>1, <2>2
<1>2. CASE Opening
  <2>1. TypeOK' /\ OneConnection' /\ StatusTruthful'
    BY <1>2 DEF NoStream, StreamOpens, StreamFails, StreamEnds, TypeOK, States,
                OneConnection, StatusTruthful
  <2>2. BudgetKept' /\ PauseKept' /\ GivesUpAtBudget'
    <3>1. /\ UNCHANGED <<ctxDone, budget, attempt, reconnects>>
          /\ rpc \in {"top", "streaming"} /\ rpc' \in {"streaming", "check"}
      BY <1>2 DEF NoStream, StreamOpens, StreamFails, StreamEnds
    <3> QED
      BY <3>1 DEF BudgetKept, PauseKept, GivesUpAtBudget
  <2> QED BY <2>1, <2>2
<1>3. CASE GivesUp
  <2>1. TypeOK' /\ OneConnection' /\ StatusTruthful'
    BY <1>3 DEF GivesUp, TypeOK, States, OneConnection, StatusTruthful
  <2>2. BudgetKept' /\ PauseKept' /\ GivesUpAtBudget'
    BY <1>3 DEF GivesUp, BudgetUsed, TypeOK, States, BudgetKept, PauseKept, GivesUpAtBudget
  <2> QED BY <2>1, <2>2
<1>4. CASE Reconnects
  <2>1. TypeOK' /\ OneConnection' /\ StatusTruthful'
    BY <1>4 DEF Reconnects, OneMore, TypeOK, States, OneConnection, StatusTruthful
  <2>2. BudgetKept' /\ PauseKept' /\ GivesUpAtBudget'
    BY <1>4 DEF Reconnects, OneMore, BudgetUsed, TypeOK, States, BudgetKept, PauseKept,
                GivesUpAtBudget
  <2> QED BY <2>1, <2>2
<1>5. CASE Dialling
  <2>1. TypeOK' /\ OneConnection' /\ StatusTruthful'
    <3>1. CASE DialSucceeds
      BY <3>1 DEF DialSucceeds, TypeOK, States, OneConnection, StatusTruthful
    <3>2. CASE DialFails
      BY <3>2 DEF DialFails, TypeOK, States, OneConnection, StatusTruthful
    <3> QED BY <1>5, <3>1, <3>2
  <2>2. BudgetKept' /\ PauseKept' /\ GivesUpAtBudget'
    BY <1>5 DEF DialSucceeds, DialFails, TypeOK, States, BudgetKept, PauseKept,
                GivesUpAtBudget
  <2> QED BY <2>1, <2>2
<1>6. CASE Wakes
  <2>1. TypeOK' /\ OneConnection' /\ StatusTruthful'
    BY <1>6 DEF Wakes, OneMore, TypeOK, States, OneConnection, StatusTruthful
  <2>2. BudgetKept' /\ PauseKept' /\ GivesUpAtBudget'
    BY <1>6 DEF Wakes, OneMore, TypeOK, States, BudgetKept, PauseKept, GivesUpAtBudget
  <2> QED BY <2>1, <2>2
<1>7. CASE Cancel
  BY <1>7 DEF Cancel, TypeOK, States, OneConnection, StatusTruthful,
              BudgetKept, PauseKept, GivesUpAtBudget
<1>8. CASE UNCHANGED vars
  BY <1>8 DEF vars, TypeOK, States, OneConnection, StatusTruthful,
              BudgetKept, PauseKept, GivesUpAtBudget
<1> QED
  BY <1>1, <1>2, <1>3, <1>4, <1>5, <1>6, <1>7, <1>8 DEF Next, Manager, AtRest

LEMMA SpecInv == Spec => []IInv
  BY InitInv, StepInv, PTL DEF Spec

(* However often streams and dials fail, there is one open connection if   *)
(* the manager has a client and none if it has none: RunWithReconnect      *)
(* neither leaks a connection nor opens a stream on a closed one.          *)
THEOREM ConnectionKept == Spec => []OneConnection
<1>1. IInv => OneConnection
  BY DEF IInv
<1> QED
  BY <1>1, SpecInv, PTL

(* grpc_connection_status is one exactly while there is a stream.          *)
THEOREM GaugeIsTruthful == Spec => []StatusTruthful
<1>1. IInv => StatusTruthful
  BY DEF IInv
<1> QED
  BY <1>1, SpecInv, PTL

(* The manager gives up by itself only with a budget, and then after       *)
(* exactly max_attempts reconnects in the life of the process.             *)
THEOREM BudgetIsExact == Spec => []GivesUpAtBudget
<1>1. IInv => GivesUpAtBudget
  BY DEF IInv
<1> QED
  BY <1>1, SpecInv, PTL

(* The type invariant, with a pause that is an integer however often the   *)
(* doubling has overflowed.                                                *)
THEOREM TypeCorrect == Spec => []TypeOK
<1>1. IInv => TypeOK
  BY DEF IInv
<1> QED
  BY <1>1, SpecInv, PTL

(* For all settings, the pause is min(initial * 2^attempt, maximum) plus   *)
(* the jitter as long as the doubling of GetReconnectBackoff fits a        *)
(* duration.                                                               *)
THEOREM BackoffIsAsDesigned == Spec => []BackoffAsDesigned
<1>1. IInv => BackoffAsDesigned
  <2> SUFFICES ASSUME TypeOK, PauseKept, rpc = "sleeping",
                      InitialBackoff * Second * pow2[attempt] < pow2[Width - 1]
               PROVE  LET full == InitialBackoff * pow2[attempt]
                          base == IF full < MaxBackoff THEN full ELSE MaxBackoff
                      IN  wait - base * Second \in Jitters
    BY DEF IInv, BackoffAsDesigned
  <2> DEFINE full == InitialBackoff * pow2[attempt]
             base == IF full < MaxBackoff THEN full ELSE MaxBackoff
  <2>1. attempt \in Nat
    BY BudgetAssumption DEF TypeOK
  <2>2. PICK j \in Jitters : wait = GetReconnectBackoff(attempt) + j
    BY DEF PauseKept
  <2>3. GetReconnectBackoff(attempt) = base * Second
    BY <2>1, BackoffIsExact
  <2>4. j \in Int /\ GetReconnectBackoff(attempt) \in Int
    BY <2>1, BackoffIsInteger, DurationAssumption
  <2>5. wait - base * Second = j
    <3> HIDE DEF base
    <3> QED
      BY <2>2, <2>3, <2>4
  <2> QED
    BY <2>5
<1> QED
  BY <1>1, SpecInv, PTL

(* The other half of the design's sentence (professional.md:87), which the *)
(* code does not keep: a doubling shifts a zero in from the right, so      *)
(* after Width of them, less the zero bits a second ends in, no bit of the *)
(* initial backoff is left, and the manager reconnects without a pause.    *)
(* In the program a second is 10^9 and ends in 9 zero bits: 64 - 9 = 55.   *)
BackoffGone ==
  \A k \in 0..Width :
    rpc = "sleeping" /\ Second % pow2[k] = 0 /\ k + attempt >= Width
      => wait \in Jitters

(* For all settings, a manager that has reconnected often enough pauses    *)
(* for the jitter only, and never recovers: GetReconnectBackoff doubles    *)
(* first and cuts afterwards.                                              *)
THEOREM BackoffAlwaysVanishes == Spec => []BackoffGone
<1>1. IInv => BackoffGone
  <2> SUFFICES ASSUME TypeOK, PauseKept, NEW k \in 0..Width, rpc = "sleeping",
                      Second % pow2[k] = 0, k + attempt >= Width
               PROVE  wait \in Jitters
    BY DEF IInv, BackoffGone
  <2>1. attempt \in Nat
    BY BudgetAssumption DEF TypeOK
  <2>2. PICK j \in Jitters : wait = GetReconnectBackoff(attempt) + j
    BY DEF PauseKept
  <2>3. Multiple(Second, k)
    <3>1. Second \in Int /\ pow2[k] \in Nat \ {0}
      BY DurationAssumption, PowersOfTwo
    <3>2. /\ Second \div pow2[k] \in Int
          /\ Second = pow2[k] * (Second \div pow2[k]) + (Second % pow2[k])
      BY <3>1, Division
    <3> DEFINE c == Second \div pow2[k]
    <3>3. pow2[k] * c \in Int
      BY <3>1, <3>2
    <3>4. Second = pow2[k] * c
      BY <3>2, <3>3
    <3> QED
      BY <3>2, <3>4 DEF Multiple
  <2>4. doubled[attempt] = 0
    BY <2>1, <2>3, DoublingVanishes
  <2>5. MaxBackoff * Second \in Nat
    BY DurationAssumption
  <2>6. GetReconnectBackoff(attempt) = 0
    BY <2>4, <2>5 DEF GetReconnectBackoff
  <2>7. j \in Int
    BY DurationAssumption
  <2> QED
    BY <2>2, <2>6, <2>7
<1> QED
  BY <1>1, SpecInv, PTL
=============================================================================
