------------------------------ MODULE Folding ------------------------------
(***************************************************************************)
(* A fold over a sequence keeps what each of its steps keeps.  The step    *)
(* and the invariant are constants of this module, with four parameters    *)
(* each: ConfigFileProofs instantiates it once for every loop over the     *)
(* configuration file, the induction being done here for all of them.      *)
(***************************************************************************)
EXTENDS Integers, Sequences, SequencesExt, WellFoundedInduction, TLAPS

CONSTANTS
  Step(_, _, _, _, _, _),    \* Step(a, b, c, d, t, x): from t with the next element x
  Inv(_, _, _, _, _, _)      \* Inv(a, b, c, d, t, k): holds of t after k steps

Fold(a, b, c, d, base, seq) == FoldLeft(LAMBDA t, x : Step(a, b, c, d, t, x), base, seq)

\* Induction over the natural numbers for a set, from the well-foundedness of their order.
THEOREM Induction ==
  \A T : 0 \in T /\ (\A n \in Nat : n \in T => n + 1 \in T) => Nat \subseteq T
<1> SUFFICES ASSUME NEW T, 0 \in T, \A n \in Nat : n \in T => n + 1 \in T PROVE Nat \subseteq T
  BY Zenon
<1> DEFINE Less == OpToRel(<, Nat)
           Rest == Nat \ T
<1> SUFFICES ASSUME Rest # {} PROVE FALSE
  OBVIOUS
<1>1. PICK m \in Rest : \A n \in Rest : ~(<<n, m>> \in Less)
  <2>1. IsWellFoundedOn(Less, Nat)
    BY NatLessThanWellFounded
  <2>2. Rest \subseteq Nat
    OBVIOUS
  <2> HIDE DEF Less, Rest
  <2> QED
    BY <2>1, <2>2, WFMin
<1>2. m \in Nat /\ m # 0 /\ m \notin T
  OBVIOUS
<1>3. m - 1 \in Nat /\ m - 1 \notin T /\ m - 1 < m
  BY <1>2
<1>4. <<m - 1, m>> \in Less
  BY <1>2, <1>3, Zenon DEF OpToRel
<1> QED
  BY <1>1, <1>3, <1>4

\* The recursive function behind a fold exists: on the subsets of a longer domain it is the one on
\* those of the shorter domain, and one more step.
Equation(a, b, c, d, base, seq, f, n) ==
  f = [s \in SUBSET (1 .. n) |-> IF s = {} THEN base ELSE Step(a, b, c, d, f[s \ {Max(s)}], seq[Max(s)])]

LEMMA MaxIs ==
  ASSUME NEW s, NEW m \in Int, m \in s, \A x \in s : x \in Int /\ x <= m
  PROVE  Max(s) = m
<1>1. m \in s /\ \A y \in s : m >= y
  OBVIOUS
<1>2. Max(s) \in s /\ \A y \in s : Max(s) >= y
  BY <1>1, Zenon DEF Max
<1>3. Max(s) \in Int /\ Max(s) <= m /\ Max(s) >= m
  BY <1>2
<1> QED
  BY <1>3

LEMMA FunctionExists ==
  ASSUME NEW a, NEW b, NEW c, NEW d, NEW base, NEW seq
  PROVE  \A n \in Nat : \E f : Equation(a, b, c, d, base, seq, f, n)
<1> DEFINE T == {n \in Nat : \E f : Equation(a, b, c, d, base, seq, f, n)}
<1>1. 0 \in T
  <2> DEFINE f0 == [s \in SUBSET (1 .. 0) |-> base]
  <2>1. f0 = [s \in SUBSET (1 .. 0) |-> IF s = {} THEN base ELSE Step(a, b, c, d, f0[s \ {Max(s)}], seq[Max(s)])]
    <3>1. \A s \in SUBSET (1 .. 0) : s = {}
      OBVIOUS
    <3> QED
      BY <3>1, Zenon
  <2> QED
    BY <2>1 DEF Equation
<1>2. ASSUME NEW n \in Nat, n \in T PROVE n + 1 \in T
  <2>1. PICK f : Equation(a, b, c, d, base, seq, f, n)
    BY <1>2
  <2> DEFINE old == SUBSET (1 .. n)
             all == SUBSET (1 .. n + 1)
             g == [s \in all |-> IF n + 1 \in s THEN Step(a, b, c, d, f[s \ {n + 1}], seq[n + 1]) ELSE f[s]]
             Next(s) == IF s = {} THEN base ELSE Step(a, b, c, d, g[s \ {Max(s)}], seq[Max(s)])
  <2>2. \A s \in old : f[s] = IF s = {} THEN base ELSE Step(a, b, c, d, f[s \ {Max(s)}], seq[Max(s)])
    BY <2>1, Zenon DEF Equation
  <2>3. ASSUME NEW s \in all PROVE s \ {n + 1} \in old /\ (n + 1 \notin s => s \in old)
    OBVIOUS
  <2>4. \A s \in old : s \in all /\ n + 1 \notin s /\ g[s] = f[s]
    <3>1. \A s \in old : s \in all /\ n + 1 \notin s
      OBVIOUS
    <3> QED
      BY <3>1, Zenon
  <2>5. ASSUME NEW s \in all PROVE g[s] = Next(s)
    <3>1. CASE n + 1 \in s
      <4>1. Max(s) = n + 1
        <5>1. n + 1 \in Int /\ \A x \in s : x \in Int /\ x <= n + 1
          OBVIOUS
        <5> QED
          BY <3>1, <5>1, MaxIs
      <4>2. s # {} /\ g[s \ {n + 1}] = f[s \ {n + 1}]
        BY <3>1, <2>3, <2>4, Zenon
      <4>3. g[s] = Step(a, b, c, d, f[s \ {n + 1}], seq[n + 1])
        BY <3>1, Zenon
      <4> QED
        BY <4>1, <4>2, <4>3, Zenon
    <3>2. CASE n + 1 \notin s /\ s # {}
      <4>1. s \in old /\ s \ {Max(s)} \in old
        BY <3>2, <2>3
      <4>2. g[s] = f[s] /\ g[s \ {Max(s)}] = f[s \ {Max(s)}]
        BY <4>1, <2>4, Zenon
      <4>3. f[s] = Step(a, b, c, d, f[s \ {Max(s)}], seq[Max(s)])
        BY <4>1, <3>2, <2>2, Zenon
      <4> QED
        BY <3>2, <4>2, <4>3, Zenon
    <3>3. CASE n + 1 \notin s /\ s = {}
      <4>1. g[s] = f[s] /\ f[s] = base
        BY <3>3, <2>2, <2>3, <2>4, Zenon
      <4> QED
        BY <3>3, <4>1, Zenon
    <3> QED
      BY <3>1, <3>2, <3>3
  <2>6. g = [s \in all |-> Next(s)]
    BY <2>5, Zenon
  <2>7. Equation(a, b, c, d, base, seq, g, n + 1)
    BY <2>6, Zenon DEF Equation
  <2>8. n + 1 \in Nat
    OBVIOUS
  <2> HIDE DEF g
  <2> QED
    BY <2>7, <2>8, Zenon
<1> HIDE DEF T
<1>3. Nat \subseteq T
  BY <1>1, <1>2, Induction, Zenon
<1> QED
  BY <1>3 DEF T

\* What each step keeps holds of the fold.
THEOREM FoldKeeps ==
  \A a, b, c, d, base, seq :
     /\ Len(seq) \in Nat /\ DOMAIN seq = 1 .. Len(seq)
     /\ Inv(a, b, c, d, base, 0)
     /\ \A t : \A k \in DOMAIN seq : Inv(a, b, c, d, t, k - 1) => Inv(a, b, c, d, Step(a, b, c, d, t, seq[k]), k)
     => Inv(a, b, c, d, Fold(a, b, c, d, base, seq), Len(seq))
<1> TAKE a, b, c, d, base, seq
<1> HAVE /\ Len(seq) \in Nat /\ DOMAIN seq = 1 .. Len(seq)
         /\ Inv(a, b, c, d, base, 0)
         /\ \A t : \A k \in DOMAIN seq : Inv(a, b, c, d, t, k - 1) => Inv(a, b, c, d, Step(a, b, c, d, t, seq[k]), k)
<1> DEFINE n == Len(seq)
           iter == CHOOSE f : f = [s \in SUBSET DOMAIN seq |->
                                     IF s = {} THEN base ELSE Step(a, b, c, d, f[s \ {Max(s)}], seq[Max(s)])]
<1>1. iter = [s \in SUBSET DOMAIN seq |-> IF s = {} THEN base ELSE Step(a, b, c, d, iter[s \ {Max(s)}], seq[Max(s)])]
  <2>1. \E f : f = [s \in SUBSET DOMAIN seq |-> IF s = {} THEN base ELSE Step(a, b, c, d, f[s \ {Max(s)}], seq[Max(s)])]
    <3>1. PICK f : Equation(a, b, c, d, base, seq, f, Len(seq))
      BY FunctionExists, Zenon
    <3>2. f = [s \in SUBSET DOMAIN seq |-> IF s = {} THEN base ELSE Step(a, b, c, d, f[s \ {Max(s)}], seq[Max(s)])]
      BY <3>1, Zenon DEF Equation
    <3> QED
      BY <3>2, Zenon
  <2> QED
    BY <2>1, Zenon
<1>2. Fold(a, b, c, d, base, seq) = iter[DOMAIN seq]
  BY Zenon DEF Fold, FoldLeft, MapThenFoldSet
<1> HIDE DEF iter
<1> DEFINE T == {k \in Nat : k <= n => Inv(a, b, c, d, iter[1 .. k], k)}
<1>3. 0 \in T
  <2>1. 1 .. 0 = {} /\ {} \in SUBSET DOMAIN seq
    OBVIOUS
  <2>2. iter[{}] = base
    BY <1>1, <2>1, Zenon
  <2> QED
    BY <2>1, <2>2
<1>4. ASSUME NEW k \in Nat, k \in T PROVE k + 1 \in T
  <2> SUFFICES ASSUME k + 1 <= n PROVE Inv(a, b, c, d, iter[1 .. k + 1], k + 1)
    OBVIOUS
  <2>1. Inv(a, b, c, d, iter[1 .. k], k) /\ k + 1 \in DOMAIN seq /\ (k + 1) - 1 = k
    BY <1>4
  <2>2. Inv(a, b, c, d, Step(a, b, c, d, iter[1 .. k], seq[k + 1]), k + 1)
    BY <2>1
  <2>3. 1 .. k + 1 \in SUBSET DOMAIN seq /\ 1 .. k + 1 # {} /\ (1 .. k + 1) \ {k + 1} = 1 .. k
    <3>1. DOMAIN seq = 1 .. n /\ n \in Nat /\ k + 1 <= n
      BY <2>1
    <3> HIDE DEF n
    <3> QED
      BY ONLY k \in Nat, <3>1
  <2>4. Max(1 .. k + 1) = k + 1
    <3>1. k + 1 \in Int /\ k + 1 \in 1 .. k + 1 /\ \A x \in 1 .. k + 1 : x \in Int /\ x <= k + 1
      OBVIOUS
    <3> QED
      BY <3>1, MaxIs, Zenon
  <2>5. iter[1 .. k + 1] = Step(a, b, c, d, iter[(1 .. k + 1) \ {Max(1 .. k + 1)}], seq[Max(1 .. k + 1)])
    BY <1>1, <2>3, Zenon
  <2> QED
    BY <2>2, <2>3, <2>4, <2>5
<1> HIDE DEF T
<1>5. n \in T
  BY <1>3, <1>4, Induction, Zenon
<1> QED
  BY <1>2, <1>5 DEF T
=============================================================================
