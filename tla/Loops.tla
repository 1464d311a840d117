-------------------------------- MODULE Loops --------------------------------
(* What a loop computes, for the proofs: induction over the number of its
   rounds, and that a recursive function over them exists. *)
EXTENDS Integers, Sequences, SequencesExt, TLAPS, WellFoundedInduction

(* Induction over the natural numbers, for a set: what holds of 0, and of n + 1
   with n, holds of all, because what it failed for would have a least element. *)
LEMMA Induction ==
  ASSUME NEW S, 0 \in S, \A n \in Nat : n \in S => n + 1 \in S
  PROVE  \A n \in Nat : n \in S
<1> SUFFICES ASSUME NEW m \in Nat \ S PROVE FALSE
  OBVIOUS
<1> DEFINE T == Nat \ S
<1>1. T \subseteq Nat /\ T # {}
  OBVIOUS
<1> HIDE DEF T
<1>2. \E x \in T : \A y \in T : ~ (<<y, x>> \in OpToRel(<, Nat))
  BY <1>1, WFMin, NatLessThanWellFounded
<1>3. PICK x \in T : \A y \in T : ~ (y < x)
  BY <1>1, <1>2 DEF OpToRel
<1>4. x \in Nat /\ x # 0 /\ x - 1 \in Nat \ T
  BY <1>3 DEF T
<1> QED
  BY <1>3, <1>4 DEF T

(* A loop of N rounds that starts with base and computes step in each. *)
LEMMA Iteration ==
  ASSUME NEW A, NEW base \in A, NEW N \in Nat, NEW step \in [1 .. N -> [A -> A]]
  PROVE  \E f \in [0 .. N -> A] : f[0] = base /\ \A n \in 1 .. N : f[n] = step[n][f[n - 1]]
<1> DEFINE Runs(f, k) == f[0] = base /\ \A n \in 1 .. k : f[n] = step[n][f[n - 1]]
           S == {k \in Nat : k <= N => \E f \in [0 .. k -> A] : Runs(f, k)}
<1>1. 0 \in S
  <2> DEFINE f == [n \in 0 .. 0 |-> base]
  <2>1. f \in [0 .. 0 -> A] /\ Runs(f, 0)
    OBVIOUS
  <2> QED
    BY <2>1
<1>2. ASSUME NEW k \in Nat, k \in S PROVE k + 1 \in S
  <2> SUFFICES ASSUME k + 1 <= N PROVE \E f \in [0 .. k + 1 -> A] : Runs(f, k + 1)
    OBVIOUS
  <2>1. PICK f \in [0 .. k -> A] : Runs(f, k)
    BY <1>2
  <2> DEFINE last == step[k + 1][f[k]]
  <2>2. last \in A
    <3>1. k + 1 \in 1 .. N /\ f[k] \in A
      OBVIOUS
    <3> QED
      BY <3>1
  <2> HIDE DEF last
  <2> DEFINE g == [n \in 0 .. k + 1 |-> IF n = k + 1 THEN last ELSE f[n]]
  <2>3. g \in [0 .. k + 1 -> A]
    BY <2>2
  <2>4. g[k + 1] = last /\ \A n \in 0 .. k : g[n] = f[n]
    OBVIOUS
  <2> HIDE DEF g
  <2>5. g[0] = base
    BY <2>1, <2>4
  <2>6. ASSUME NEW n \in 1 .. k + 1 PROVE g[n] = step[n][g[n - 1]]
    <3>1. g[n - 1] = f[n - 1]
      BY <2>4
    <3>2. CASE n = k + 1
      <4>1. n - 1 = k
        BY <3>2
      <4> QED
        BY <2>4, <3>1, <3>2, <4>1 DEF last
    <3>3. CASE n \in 1 .. k
      BY <2>1, <2>4, <3>1, <3>3
    <3> QED
      BY <3>2, <3>3
  <2>7. Runs(g, k + 1)
    BY <2>5, <2>6
  <2> QED
    BY <2>3, <2>7
<1> HIDE DEF S
<1>3. N \in S
  BY <1>1, <1>2, Induction
<1>4. PICK f \in [0 .. N -> A] : Runs(f, N)
  BY <1>3 DEF S
<1> QED
  BY <1>4

(* The same, with the loop as one statement. *)
Loop(A, base, N, step, f) ==
  f \in [0 .. N -> A] /\ f[0] = base /\ \A n \in 1 .. N : f[n] = step[n][f[n - 1]]

(* A loop runs from any start. *)
LEMMA LoopRuns ==
  ASSUME NEW A, NEW base \in A, NEW N \in Nat, NEW step \in [1 .. N -> [A -> A]]
  PROVE  \E f : Loop(A, base, N, step, f)
  BY Iteration, SMTT(30) DEF Loop

(* One sequence after another. *)
LEMMA Joined ==
  ASSUME NEW A, NEW s \in Seq(A), NEW t \in Seq(A)
  PROVE  /\ s \o t \in Seq(A) /\ Len(s) \in Nat /\ Len(t) \in Nat
         /\ Len(s \o t) = Len(s) + Len(t)
         /\ DOMAIN s = 1 .. Len(s) /\ DOMAIN t = 1 .. Len(t)
         /\ DOMAIN (s \o t) = 1 .. Len(s) + Len(t)
         /\ \A i \in 1 .. Len(s) : (s \o t)[i] = s[i]
         /\ \A i \in 1 .. Len(t) : (s \o t)[Len(s) + i] = t[i]
  OBVIOUS

(* A set of sequences that concatenation does not lead out of. *)
Closed(W, A) == W \subseteq Seq(A) /\ << >> \in W /\ \A s, t \in W : s \o t \in W

(* The concatenation of a sequence of sequences, one after the other. *)
LEMMA FlattenRuns ==
  ASSUME NEW W, NEW A, Closed(W, A)
  PROVE  \A ss \in Seq(W) : Len(ss) # 0 =>
           \E f \in [1 .. Len(ss) -> W] :
             /\ f[1] = ss[1] /\ FlattenSeq(ss) = f[Len(ss)]
             /\ \A k \in 1 .. Len(ss) : k # 1 => f[k] = f[k - 1] \o ss[k]
<1>30. SUFFICES ASSUME NEW ss \in Seq(W), Len(ss) # 0
       PROVE \E f \in [1 .. Len(ss) -> W] :
             /\ f[1] = ss[1] /\ FlattenSeq(ss) = f[Len(ss)]
             /\ \A k \in 1 .. Len(ss) : k # 1 => f[k] = f[k - 1] \o ss[k]
  OBVIOUS
<1> DEFINE n == Len(ss)
<1>31. n \in Nat /\ (\A i \in 1 .. n : ss[i] \in W) /\ n # 0
  BY <1>30
<1> HIDE DEF n
<1> DEFINE Runs(g) == g = [i \in 1 .. n |-> IF i = 1 THEN ss[i] ELSE g[i - 1] \o ss[i]]
           flatten == CHOOSE g : Runs(g)
<1>1. FlattenSeq(ss) = flatten[n]
  BY <1>31 DEF FlattenSeq, n
<1>2. PICK m \in Nat : m + 1 = n
  BY <1>31
<1>20. PICK Q : Q = W
  OBVIOUS
<1>3. PICK base \in Q : base = ss[1]
  BY <1>31, <1>20
<1>4. PICK step \in [1 .. m -> [Q -> Q]] : \A k \in 1 .. m, w \in W : step[k][w] = w \o ss[k + 1]
  <2> DEFINE st == [k \in 1 .. m |-> [w \in W |-> w \o ss[k + 1]]]
  <2>1. \A k \in 1 .. m : ss[k + 1] \in W
    BY <1>31, <1>2
  <2>2. st \in [1 .. m -> [W -> W]]
    BY <2>1 DEF Closed
  <2> QED
    BY <1>20, <2>2
<1> HIDE DEF Runs, flatten
<1>5. PICK f \in [0 .. m -> Q] : f[0] = base /\ \A k \in 1 .. m : f[k] = step[k][f[k - 1]]
  BY Iteration, SMTT(60)
<1> DEFINE g == [i \in 1 .. n |-> f[i - 1]]
<1>6. g \in [1 .. n -> W]
  BY <1>2, <1>5, <1>20
<1>7. ASSUME NEW i \in 1 .. n PROVE g[i] = IF i = 1 THEN ss[i] ELSE g[i - 1] \o ss[i]
  <2>1. CASE i = 1
    BY <1>3, <1>5, <2>1
  <2>2. CASE i # 1
    <3>1. i - 1 \in 1 .. m /\ (i - 1) + 1 = i /\ i - 1 \in 1 .. n
      BY <1>2, <2>2
    <3>2. f[i - 1] = step[i - 1][f[(i - 1) - 1]] /\ f[(i - 1) - 1] \in W
      <4>1. (i - 1) - 1 \in 0 .. m
        BY <3>1
      <4> QED
        BY <1>5, <1>20, <3>1, <4>1
    <3>3. f[i - 1] = f[(i - 1) - 1] \o ss[i]
      BY <1>4, <3>1, <3>2
    <3> QED
      BY <2>2, <3>1, <3>3
  <2> QED
    BY <2>1, <2>2
<1>8. Runs(g)
  <2> HIDE DEF g
  <2>1. g = [i \in 1 .. n |-> g[i]]
    BY <1>6
  <2> QED
    BY <1>7, <2>1 DEF Runs
<1>9. Runs(flatten)
  BY <1>8 DEF flatten
<1>10. \A k \in 1 .. n : flatten[k] \in W
  <2> DEFINE P == {k \in Nat : k + 1 <= n => flatten[k + 1] \in W}
  <2>1. 0 \in P
    BY <1>31, <1>9, <1>3, <1>20 DEF Runs
  <2>2. ASSUME NEW k \in Nat, k \in P PROVE k + 1 \in P
    <3> SUFFICES ASSUME k + 2 <= n PROVE flatten[(k + 1) + 1] \in W
      OBVIOUS
    <3>1. flatten[k + 1] \in W
      BY <1>31, <2>2
    <3>2. (k + 1) + 1 \in 1 .. n /\ (k + 1) + 1 # 1 /\ ((k + 1) + 1) - 1 = k + 1
      BY <1>31
    <3>3. flatten[(k + 1) + 1] = flatten[k + 1] \o ss[(k + 1) + 1]
      BY <1>9, <3>2 DEF Runs
    <3>4. ss[(k + 1) + 1] \in W
      BY <1>31, <3>2
    <3> QED
      BY <3>1, <3>3, <3>4 DEF Closed
  <2>3. \A k \in Nat : k \in P
    <3> HIDE DEF P
    <3> QED
      BY <2>1, <2>2, Induction
  <2>4. ASSUME NEW k \in 1 .. n PROVE flatten[k] \in W
    <3>1. k - 1 \in Nat /\ (k - 1) + 1 = k /\ k <= n
      BY <1>31
    <3>2. k - 1 \in P
      BY <2>3, <3>1
    <3> QED
      BY <3>1, <3>2
  <2> QED
    BY <2>4
<1>11. flatten = [i \in 1 .. n |-> IF i = 1 THEN ss[i] ELSE flatten[i - 1] \o ss[i]]
  BY <1>9 DEF Runs
<1>12. DOMAIN flatten = 1 .. n /\ flatten = [i \in 1 .. n |-> flatten[i]]
  BY <1>11
<1>13. flatten \in [1 .. n -> W]
  BY <1>10, <1>12
<1>14. flatten[1] = ss[1] /\ \A k \in 1 .. n : k # 1 => flatten[k] = flatten[k - 1] \o ss[k]
  <2>1. 1 \in 1 .. n
    BY <1>31
  <2> QED
    BY <1>11, <2>1
<1> QED
  BY <1>1, <1>13, <1>14 DEF n

(* What concatenation does not lead out of, concatenations are in. *)
LEMMA FlattenIn ==
  ASSUME NEW W, NEW A, Closed(W, A)
  PROVE  \A ss \in Seq(W) : FlattenSeq(ss) \in W
<1>1. SUFFICES ASSUME NEW ss \in Seq(W) PROVE FlattenSeq(ss) \in W
  OBVIOUS
<1>2. CASE Len(ss) = 0
  <2>1. ss = << >>
    BY <1>1, <1>2
  <2> QED
    BY <2>1 DEF FlattenSeq, Closed
<1>3. CASE Len(ss) # 0
  <2>1. PICK f \in [1 .. Len(ss) -> W] : FlattenSeq(ss) = f[Len(ss)]
    BY <1>1, <1>3, FlattenRuns
  <2>2. Len(ss) \in 1 .. Len(ss)
    BY <1>1, <1>3
  <2> QED
    BY <2>1, <2>2
<1> QED
  BY <1>2, <1>3

(* Every element of every part is in the concatenation. *)
LEMMA FlattenHas ==
  ASSUME NEW A
  PROVE  \A ss \in Seq(Seq(A)) : \A i \in DOMAIN ss : \A j \in DOMAIN ss[i] :
           \E m \in DOMAIN FlattenSeq(ss) : FlattenSeq(ss)[m] = ss[i][j]
<1>1. SUFFICES ASSUME NEW ss \in Seq(Seq(A)), NEW i \in DOMAIN ss, NEW j \in DOMAIN ss[i]
               PROVE  \E m \in DOMAIN FlattenSeq(ss) : FlattenSeq(ss)[m] = ss[i][j]
  OBVIOUS
<1> DEFINE n == Len(ss)
           x == ss[i][j]
<1>2. n \in Nat /\ i \in 1 .. n /\ (\A k \in 1 .. n : ss[k] \in Seq(A)) /\ n # 0
  BY <1>1
<1>3. Closed(Seq(A), A)
  BY DEF Closed
<1>4. PICK f \in [1 .. n -> Seq(A)] :
         /\ f[1] = ss[1] /\ FlattenSeq(ss) = f[n]
         /\ \A k \in 1 .. n : k # 1 => f[k] = f[k - 1] \o ss[k]
  <2>1. PICK W : W = Seq(A)
    OBVIOUS
  <2>2. Closed(W, A) /\ ss \in Seq(W) /\ Len(ss) # 0
    BY <1>1, <1>2, <1>3, <2>1
  <2>3. \E f \in [1 .. n -> W] :
          /\ f[1] = ss[1] /\ FlattenSeq(ss) = f[n]
          /\ \A k \in 1 .. n : k # 1 => f[k] = f[k - 1] \o ss[k]
    <3>1. \A tt \in Seq(W) : Len(tt) # 0 =>
             \E f \in [1 .. Len(tt) -> W] :
               /\ f[1] = tt[1] /\ FlattenSeq(tt) = f[Len(tt)]
               /\ \A k \in 1 .. Len(tt) : k # 1 => f[k] = f[k - 1] \o tt[k]
      BY <2>2, FlattenRuns, Zenon
    <3> QED
      BY <2>2, <3>1, Zenon
  <2> QED
    BY <2>1, <2>3
<1> HIDE DEF n
<1> DEFINE In(k) == \E m \in DOMAIN f[k] : f[k][m] = x
           P == {d \in Nat : i + d <= n => In(i + d)}
<1>5. x \in A
  BY <1>2, <1>1 DEF x
<1>6. In(i)
  <2>1. CASE i = 1
    BY <1>1, <1>4, <2>1
  <2>2. CASE i # 1
    <3>1. i - 1 \in 1 .. n
      BY <1>2, <2>2
    <3>2. PICK s \in Seq(A), t \in Seq(A) : s = f[i - 1] /\ t = ss[i] /\ f[i] = s \o t
      BY <1>2, <1>4, <2>2, <3>1
    <3>3. j \in 1 .. Len(t) /\ t[j] = x
      BY <1>1, <3>2
    <3>4. Len(s) + j \in DOMAIN (s \o t) /\ (s \o t)[Len(s) + j] = t[j]
      BY <3>3, Joined, SMTT(60)
    <3> QED
      BY <3>2, <3>3, <3>4
  <2> QED
    BY <2>1, <2>2
<1>7. 0 \in P
  BY <1>2, <1>6
<1>8. ASSUME NEW d \in Nat, d \in P PROVE d + 1 \in P
  <2> SUFFICES ASSUME i + (d + 1) <= n PROVE In(i + (d + 1))
    OBVIOUS
  <2>1. i + d \in 1 .. n /\ i + (d + 1) \in 1 .. n /\ i + (d + 1) # 1 /\ (i + (d + 1)) - 1 = i + d
    <3>1. PICK p \in Nat, q \in Nat : p = i /\ q = n
      BY <1>2
    <3>2. 1 <= p /\ p + (d + 1) <= q
      BY <1>2, <3>1
    <3> HIDE DEF P
    <3>3. p + d \in 1 .. q /\ p + (d + 1) \in 1 .. q /\ p + (d + 1) # 1 /\ (p + (d + 1)) - 1 = p + d
      BY <3>2
    <3> QED
      BY <3>1, <3>3
  <2>2. In(i + d)
    BY <1>2, <1>8, <2>1
  <2> HIDE DEF P
  <2>3. PICK s \in Seq(A), t \in Seq(A) : s = f[i + d] /\ t = ss[i + (d + 1)] /\ f[i + (d + 1)] = s \o t
    BY <1>2, <1>4, <2>1
  <2>4. PICK m \in DOMAIN s : s[m] = x
    BY <2>2, <2>3
  <2>5. m \in DOMAIN (s \o t) /\ (s \o t)[m] = s[m]
    BY <2>4, Joined
  <2> QED
    BY <2>3, <2>4, <2>5
<1>9. \A d \in Nat : d \in P
  <2> HIDE DEF P
  <2> QED
    BY <1>7, <1>8, Induction
<1>10. n - i \in Nat /\ i + (n - i) = n
  BY <1>2
<1>11. In(n)
  <2>1. n - i \in P
    BY <1>9, <1>10
  <2>2. i + (n - i) <= n
    BY <1>2
  <2>3. In(i + (n - i))
    BY <2>1, <2>2
  <2> HIDE DEF In
  <2> QED
    BY <1>10, <2>3
<1> QED
  BY <1>4, <1>11
==============================================================================
