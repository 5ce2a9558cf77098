------------------------------ MODULE Repetition ------------------------------
(***************************************************************************)
(* A loop that takes one step after the other: what the layout of the      *)
(* calendar does with sorted bars and blocks, one at a turn.  It is a      *)
(* function, so that it can be proved about: RepeatedIs says that a turn   *)
(* takes one step, and UpTo that what holds at first and is kept by each   *)
(* turn holds to the last one, put as the set of turns at which it holds.  *)
(***************************************************************************)
EXTENDS WellFoundedInduction, TLAPS

CONSTANT Step(_)    \* what one turn of the loop does

\* What is there after so many turns.
Repeated(start, times) ==
    LET done[n \in 0..times] == IF n = 0 THEN start ELSE Step(done[n - 1]) IN done[times]

\* A set of natural numbers that is not empty has a least element.
LEMMA LeastOf ==
    ASSUME NEW S, S \subseteq Nat, S # {}
    PROVE  \E n \in S : \A m \in S : n <= m
<1> DEFINE R == {p \in Nat \X Nat : p[1] < p[2]}
<1>1. IsWellFoundedOn(R, Nat)
    BY NatLessThanWellFounded, Zenon DEF OpToRel
<1>2. \A m, n \in Nat : <<m, n>> \in R <=> m < n
    OBVIOUS
<1> HIDE DEF R
<1>3. PICK n \in S : \A m \in S : <<m, n>> \notin R
    BY <1>1, WFMin
<1>4. \A m \in S : n <= m
    <2>1. S \subseteq Nat /\ n \in Nat
        OBVIOUS
    <2>2. \A m \in S : m \in Nat /\ ~(m < n)
        BY <1>2, <1>3, <2>1
    <2>3. QED
        BY <2>1, <2>2
<1>5. QED
    BY <1>4

\* Induction up to a bound, over a set instead of a predicate.
LEMMA UpTo ==
    ASSUME NEW N \in Nat, NEW S, 0 \in S,
           \A n \in Nat : n < N /\ n \in S => n + 1 \in S
    PROVE  \A n \in 0..N : n \in S
<1> DEFINE bad == {n \in 0..N : n \notin S}
<1>1. SUFFICES ASSUME bad # {} PROVE FALSE
    OBVIOUS
<1>2. PICK n \in bad : \A m \in bad : n <= m
    <2>1. bad \subseteq Nat
        OBVIOUS
    <2> HIDE DEF bad
    <2>2. QED
        BY <1>1, <2>1, LeastOf
<1>3. n # 0 /\ n - 1 \in 0..N /\ n - 1 \in Nat /\ n - 1 < N /\ (n - 1) + 1 = n
    OBVIOUS
<1>4. n - 1 \in S
    BY <1>2, <1>3
<1>5. QED
    BY <1>3, <1>4

\* The function of the turns exists.
LEMMA Runs ==
    ASSUME NEW a, NEW N \in Nat
    PROVE  \E f : f = [n \in 0..N |-> IF n = 0 THEN a ELSE Step(f[n - 1])]
<1> DEFINE Is(f, k) == f = [n \in 0..k |-> IF n = 0 THEN a ELSE Step(f[n - 1])]
           S == {k \in 0..N : \E f : Is(f, k)}
<1>1. 0 \in S
    <2> DEFINE g == [n \in 0..0 |-> a]
    <2>1. Is(g, 0)
        OBVIOUS
    <2> HIDE DEF Is
    <2>2. QED
        BY <2>1
<1>2. ASSUME NEW k \in Nat, k < N, k \in S PROVE k + 1 \in S
    <2>1. PICK f : Is(f, k)
        BY <1>2
    <2> DEFINE g == [n \in 0..(k + 1) |-> IF n = k + 1 THEN Step(f[k]) ELSE f[n]]
    <2>2. \A n \in 0..k : g[n] = f[n]
        OBVIOUS
    <2>3. \A n \in 0..k : f[n] = IF n = 0 THEN a ELSE Step(f[n - 1])
        BY <2>1
    <2>4. \A n \in 0..(k + 1) : g[n] = IF n = 0 THEN a ELSE Step(g[n - 1])
        <3> SUFFICES ASSUME NEW n \in 0..(k + 1) PROVE g[n] = IF n = 0 THEN a ELSE Step(g[n - 1])
            OBVIOUS
        <3>1. CASE n = k + 1
            BY <2>2, <3>1
        <3>2. CASE n # k + 1
            <4>1. n \in 0..k /\ (n # 0 => n - 1 \in 0..k)
                BY <3>2
            <4> HIDE DEF g
            <4>2. QED
                BY <2>2, <2>3, <4>1
        <3>3. QED
            BY <3>1, <3>2
    <2>5. Is(g, k + 1)
        BY <2>4
    <2> HIDE DEF Is
    <2>6. QED
        BY <1>2, <2>5
<1> HIDE DEF S
<1>3. \A k \in 0..N : k \in S
    BY <1>1, <1>2, UpTo
<1>4. QED
    BY <1>3 DEF S

\* At first nothing is done, and each turn adds one step.
LEMMA RepeatedIs ==
    ASSUME NEW start
    PROVE  /\ Repeated(start, 0) = start
           /\ \A n \in Nat : Repeated(start, n + 1) = Step(Repeated(start, n))
<1> DEFINE done(times) ==
               CHOOSE f : f = [n \in 0..times |-> IF n = 0 THEN start ELSE Step(f[n - 1])]
<1>1. \A n \in Nat : Repeated(start, n) = done(n)[n]
    BY DEF Repeated
<1>2. \A times \in Nat :
          done(times) = [n \in 0..times |-> IF n = 0 THEN start ELSE Step(done(times)[n - 1])]
    <2> SUFFICES ASSUME NEW times \in Nat
                 PROVE  done(times) =
                            [n \in 0..times |-> IF n = 0 THEN start ELSE Step(done(times)[n - 1])]
        OBVIOUS
    <2>1. \E f : f = [n \in 0..times |-> IF n = 0 THEN start ELSE Step(f[n - 1])]
        BY Runs
    <2>2. QED
        BY <2>1
<1> HIDE DEF done
<1>3. Repeated(start, 0) = start
    <2>1. done(0)[0] = start
        BY <1>2
    <2>2. QED
        BY <1>1, <2>1
<1>4. ASSUME NEW k \in Nat PROVE Repeated(start, k + 1) = Step(Repeated(start, k))
    <2> DEFINE S == {n \in 0..k : done(k)[n] = done(k + 1)[n]}
    <2>1. \A n \in 0..k : done(k)[n] = IF n = 0 THEN start ELSE Step(done(k)[n - 1])
        BY <1>2
    <2>2. \A n \in 0..(k + 1) : done(k + 1)[n] = IF n = 0 THEN start ELSE Step(done(k + 1)[n - 1])
        BY <1>2
    <2>3. 0 \in S
        BY <2>1, <2>2
    <2>4. ASSUME NEW n \in Nat, n < k, n \in S PROVE n + 1 \in S
        <3>1. n + 1 \in 0..k /\ n + 1 \in 0..(k + 1) /\ n + 1 # 0 /\ (n + 1) - 1 = n
            BY <2>4
        <3>2. done(k)[n + 1] = Step(done(k)[n]) /\ done(k + 1)[n + 1] = Step(done(k + 1)[n])
            BY <2>1, <2>2, <3>1
        <3>3. QED
            BY <2>4, <3>1, <3>2
    <2> HIDE DEF S
    <2>5. k \in S
        <3>1. \A n \in 0..k : n \in S
            BY <2>3, <2>4, UpTo
        <3>2. QED
            BY <3>1
    <2>6. done(k)[k] = done(k + 1)[k]
        BY <2>5 DEF S
    <2>7. k + 1 \in 0..(k + 1) /\ k + 1 # 0 /\ (k + 1) - 1 = k
        OBVIOUS
    <2>8. done(k + 1)[k + 1] = Step(done(k + 1)[k])
        BY <2>2, <2>7
    <2>9. QED
        BY <1>1, <2>6, <2>8
<1>5. QED
    BY <1>3, <1>4
=============================================================================
