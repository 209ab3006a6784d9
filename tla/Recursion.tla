----------------------------- MODULE Recursion -----------------------------
(***************************************************************************)
(* Induction over sets of numbers and the existence of functions defined   *)
(* by recursion, stated for sets and functions in place of operators:  a   *)
(* property P is taken as the set of the numbers that have it, the body of *)
(* a recursive definition as a function of the value before and the        *)
(* number.                                                                 *)
(***************************************************************************)
EXTENDS Integers, WellFoundedInduction, TLAPS

(* A set with 0 and the successor of each of its numbers has all numbers:  *)
(* a least number outside of it would have a predecessor in it.            *)
THEOREM NatSetInduction ==
  ASSUME NEW S, 0 \in S, \A n \in Nat : n \in S => n + 1 \in S
  PROVE  Nat \subseteq S
  <1> DEFINE Out == {n \in Nat : n \notin S}
  <1>1. SUFFICES ASSUME Out # {} PROVE FALSE
    OBVIOUS
  <1>2. PICK x \in Out : \A y \in Out : ~(<<y, x>> \in OpToRel(<, Nat))
    <2>1. Out \subseteq Nat
      OBVIOUS
    <2>. HIDE DEF Out
    <2>. QED
      BY <1>1, <2>1, NatLessThanWellFounded, WFMin
  <1>3. \A y \in Out : ~(y < x)
    BY <1>2 DEF OpToRel
  <1>4. x \in Nat /\ x \notin S /\ x # 0
    OBVIOUS
  <1>5. x - 1 \in Nat /\ x - 1 < x /\ (x - 1) + 1 = x
    BY <1>4
  <1>6. x - 1 \in S
    BY <1>3, <1>5
  <1>. QED
    BY <1>4, <1>5, <1>6

(* The same between two numbers.                                           *)
THEOREM IntervalInduction ==
  ASSUME NEW lo \in Int, NEW hi \in Int, NEW S, lo \in S,
         \A i \in lo .. hi - 1 : i \in S => i + 1 \in S
  PROVE  lo .. hi \subseteq S
  <1> DEFINE T == {n \in Nat : lo + n > hi \/ lo + n \in S}
  <1>1. 0 \in T
    OBVIOUS
  <1>2. \A n \in Nat : n \in T => n + 1 \in T
    <2>1. SUFFICES ASSUME NEW n \in Nat, n \in T, lo + (n + 1) <= hi
                   PROVE  lo + (n + 1) \in S
      OBVIOUS
    <2>2. lo + n \in lo .. hi - 1 /\ lo + n \in S /\ (lo + n) + 1 = lo + (n + 1)
      BY <2>1
    <2>. QED
      BY <2>2
  <1>3. Nat \subseteq T
    <2>. HIDE DEF T
    <2>. QED
      BY <1>1, <1>2, NatSetInduction
  <1>4. SUFFICES ASSUME NEW i \in lo .. hi PROVE i \in S
    OBVIOUS
  <1>5. i - lo \in Nat /\ lo + (i - lo) = i
    OBVIOUS
  <1>. QED
    BY <1>3, <1>5

(* The bodies of recursive definitions over 0 .. n with values in X, and   *)
(* their solutions.  The theorem is for use with both left unexpanded.     *)
Steps(n, X) == [X \X (1 .. n) -> X]

Solution(f, n, X, a, step) ==
  /\ f \in [0 .. n -> X]
  /\ f[0] = a
  /\ \A i \in 1 .. n : f[i] = step[<<f[i - 1], i>>]
  /\ f = [i \in 0 .. n |-> IF i = 0 THEN a ELSE step[<<f[i - 1], i>>]]

(* A recursive definition over 0 .. n has a solution.                      *)
THEOREM RecursiveFunctionExists ==
  ASSUME NEW n \in Nat, NEW X, NEW a \in X, NEW step \in Steps(n, X)
  PROVE  \E f : Solution(f, n, X, a, step)
  <1> DEFINE Solves(f, k) == f[0] = a /\ \A i \in 1 .. k : f[i] = step[<<f[i - 1], i>>]
             S == {k \in 0 .. n : \E f \in [0 .. k -> X] : Solves(f, k)}
  <1>1. 0 \in S
    <2>1. [i \in 0 .. 0 |-> a] \in [0 .. 0 -> X] /\ Solves([i \in 0 .. 0 |-> a], 0)
      OBVIOUS
    <2>2. 0 \in 0 .. n
      OBVIOUS
    <2>. HIDE DEF Solves
    <2>. QED
      BY <2>1, <2>2
  <1>2. ASSUME NEW k \in 0 .. n - 1, k \in S PROVE k + 1 \in S
    <2>1. PICK f \in [0 .. k -> X] : Solves(f, k)
      BY <1>2
    <2> DEFINE y == step[<<f[k], k + 1>>]
               g == [i \in 0 .. k + 1 |-> IF i = k + 1 THEN y ELSE f[i]]
    <2>2. y \in X
      <3>1. f[k] \in X /\ k + 1 \in 1 .. n
        OBVIOUS
      <3>. QED
        BY <3>1 DEF Steps
    <2>3. g \in [0 .. k + 1 -> X]
      <3>1. \A i \in 0 .. k + 1 : i # k + 1 => f[i] \in X
        OBVIOUS
      <3>. QED
        BY <2>2, <3>1
    <2>4. Solves(g, k + 1)
      <3>1. g[0] = a
        BY <2>1
      <3>2. ASSUME NEW i \in 1 .. k + 1 PROVE g[i] = step[<<g[i - 1], i>>]
        <4>1. g[i - 1] = f[i - 1]
          OBVIOUS
        <4>2. CASE i = k + 1
          <5>1. g[i] = y /\ i - 1 = k
            BY <4>2
          <5>. QED
            BY <4>1, <4>2, <5>1
        <4>3. CASE i # k + 1
          <5>1. i \in 1 .. k
            BY <4>3
          <5>2. g[i] = f[i] /\ f[i] = step[<<f[i - 1], i>>]
            BY <2>1, <5>1
          <5>. QED
            BY <4>1, <5>2
        <4>. QED
          BY <4>2, <4>3
      <3>. QED
        BY <3>1, <3>2
    <2>5. k + 1 \in 0 .. n
      OBVIOUS
    <2>. QED
      BY <2>3, <2>4, <2>5
  <1>3. 0 .. n \subseteq S
    <2>1. \A k \in 0 .. n - 1 : k \in S => k + 1 \in S
      BY <1>2
    <2>. HIDE DEF S
    <2>. QED
      BY <1>1, <2>1, IntervalInduction
  <1>4. PICK f \in [0 .. n -> X] : Solves(f, n)
    BY <1>3
  <1>5. f = [i \in 0 .. n |-> IF i = 0 THEN a ELSE step[<<f[i - 1], i>>]]
    <2>1. \A i \in 0 .. n : f[i] = IF i = 0 THEN a ELSE step[<<f[i - 1], i>>]
      <3>1. \A i \in 0 .. n : i = 0 \/ i \in 1 .. n
        OBVIOUS
      <3>. QED
        BY <1>4, <3>1
    <2>. QED
      BY <2>1
  <1>. QED
    BY <1>4, <1>5 DEF Solution

(* A function that follows the definition as long as its values are in X   *)
(* has all of its values in X.                                             *)
Follows(g, n, X, a, step) ==
  /\ g = [i \in 0 .. n |-> g[i]]
  /\ g[0] = a
  /\ \A i \in 1 .. n : g[i - 1] \in X => g[i] = step[<<g[i - 1], i>>]

THEOREM RecursiveFunctionType ==
  ASSUME NEW n \in Nat, NEW X, NEW a \in X, NEW step \in Steps(n, X),
         NEW g, Follows(g, n, X, a, step)
  PROVE  g \in [0 .. n -> X]
  <1> DEFINE S == {i \in 0 .. n : g[i] \in X}
  <1>1. 0 \in S
    BY DEF Follows
  <1>2. ASSUME NEW i \in 0 .. n - 1, i \in S PROVE i + 1 \in S
    <2>1. i + 1 \in 1 .. n /\ (i + 1) - 1 = i /\ g[i] \in X
      BY <1>2
    <2>2. g[i + 1] = step[<<g[i], i + 1>>]
      BY <2>1 DEF Follows
    <2>3. g[i + 1] \in X
      BY <2>1, <2>2 DEF Steps
    <2>. QED
      BY <2>1, <2>3
  <1>3. 0 .. n \subseteq S
    <2>1. \A i \in 0 .. n - 1 : i \in S => i + 1 \in S
      BY <1>2
    <2>. HIDE DEF S
    <2>. QED
      BY <1>1, <2>1, IntervalInduction
  <1>4. \A i \in 0 .. n : g[i] \in X
    BY <1>3
  <1>. QED
    BY <1>4 DEF Follows
=============================================================================
