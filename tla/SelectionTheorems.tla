----------------------------- MODULE SelectionTheorems ----------------------------
(***************************************************************************)
(* Induction over the naturals as a fact about sets, recursion along a     *)
(* range, and what follows about Selected.                                 *)
(***************************************************************************)
EXTENDS Selection, FiniteSets, WellFoundedInduction, FiniteSetTheorems, TLAPS

(* A set that holds zero and, with a number, the next one holds them all.  *)
LEMMA SetInduction ==
  ASSUME NEW T, 0 \in T, \A n \in Nat : n \in T => n + 1 \in T
  PROVE  \A n \in Nat : n \in T
<1> DEFINE R == OpToRel(<, Nat)
           bad == {n \in Nat : n \notin T}
<1>1. IsWellFoundedOn(R, Nat)
  BY NatLessThanWellFounded
<1>2. SUFFICES ASSUME bad # {} PROVE FALSE
  OBVIOUS
<1> HIDE DEF R
<1>3. bad \in SUBSET Nat
  OBVIOUS
<1> HIDE DEF bad
<1>4. PICK x \in bad : \A y \in bad : ~ (<<y, x>> \in R)
  BY <1>1, <1>2, <1>3, WFMin
<1> USE DEF bad
<1>5. \A y \in bad : ~ (y < x)
  BY <1>4 DEF R, OpToRel
<1>6. x \in Nat /\ x \notin T
  OBVIOUS
<1>7. x - 1 \in Nat
  BY <1>6
<1>8. x - 1 \in T
  BY <1>5, <1>7
<1> QED BY <1>6, <1>7, <1>8

(* The same up to a bound.                                                 *)
LEMMA RangeInduction ==
  ASSUME NEW n \in Nat, NEW T, 0 \in T, \A k \in 1 .. n : k - 1 \in T => k \in T
  PROVE  \A k \in 0 .. n : k \in T
<1> DEFINE U == {k \in Nat : k <= n => k \in T}
<1>1. 0 \in U
  OBVIOUS
<1>2. ASSUME NEW k \in Nat, k \in U PROVE k + 1 \in U
  <2> SUFFICES ASSUME k + 1 <= n PROVE k + 1 \in T
    OBVIOUS
  <2>1. k + 1 \in 1 .. n /\ (k + 1) - 1 = k /\ k \in T
    BY <1>2
  <2> QED BY <2>1
<1> HIDE DEF U
<1>3. \A k \in Nat : k \in U
  BY <1>1, <1>2, SetInduction
<1> QED BY <1>3 DEF U

(* f starts from z and goes on by the steps.                               *)
Follows(f, n, V, z, step) ==
  /\ f \in [0 .. n -> V]
  /\ f[0] = z
  /\ \A k \in 1 .. n : f[k] = step[k][f[k-1]]

(* A function defined by recursion along a range exists.                   *)
LEMMA RangeRecursion ==
  ASSUME NEW n \in Nat, NEW V, NEW z \in V, NEW step \in [1 .. n -> [V -> V]]
  PROVE  \E f : Follows(f, n, V, z, step)
<1> DEFINE Upto(f, m) == Follows(f, m, V, z, step)
           T == {m \in 0 .. n : \E f : Upto(f, m)}
<1>1. 0 \in T
  <2> DEFINE f == [k \in 0 .. 0 |-> z]
  <2>1. Upto(f, 0)
    BY DEF Follows
  <2> HIDE DEF Upto
  <2> QED BY <2>1
<1>2. ASSUME NEW m \in 1 .. n, m - 1 \in T PROVE m \in T
  <2>1. PICK f : Upto(f, m - 1)
    BY <1>2
  <2>2. m - 1 \in Nat /\ f[m-1] \in V
    BY <2>1 DEF Follows
  <2> DEFINE g == [k \in 0 .. m |-> IF k = m THEN step[m][f[m-1]] ELSE f[k]]
  <2>3. step[m][f[m-1]] \in V
    BY <2>2
  <2>4. \A k \in 0 .. m : k # m => k \in 0 .. m - 1 /\ g[k] = f[k]
    BY <2>2
  <2>5. g \in [0 .. m -> V]
    <3>1. \A k \in 0 .. m : g[k] \in V
      BY <2>1, <2>3, <2>4 DEF Follows
    <3> QED BY <3>1
  <2>6. g[0] = z
    BY <2>1, <2>4 DEF Follows
  <2>7. ASSUME NEW k \in 1 .. m PROVE g[k] = step[k][g[k-1]]
    <3>1. k - 1 \in 0 .. m /\ k - 1 # m
      OBVIOUS
    <3>2. g[k-1] = f[k-1]
      BY <3>1, <2>4
    <3>3. CASE k = m
      <4>1. g[m] = step[m][f[m-1]]
        OBVIOUS
      <4> QED BY <4>1, <3>2, <3>3
    <3>4. CASE k # m
      <4>1. k \in 1 .. m - 1 /\ g[k] = f[k]
        BY <3>4, <2>4
      <4>2. f[k] = step[k][f[k-1]]
        BY <4>1, <2>1 DEF Follows
      <4> QED BY <4>1, <4>2, <3>2
    <3> QED BY <3>3, <3>4
  <2> HIDE DEF g
  <2>8. Upto(g, m)
    BY <2>5, <2>6, <2>7 DEF Follows
  <2> HIDE DEF Upto
  <2> QED BY <2>8
<1> HIDE DEF T
<1>3. n \in T
  <2>1. \A m \in 0 .. n : m \in T
    BY <1>1, <1>2, RangeInduction
  <2> QED BY <2>1
<1>4. PICK f : Upto(f, n)
  BY <1>3 DEF T
<1> QED BY <1>4

---------------------------------------------------------------------------
(* The selection.                                                          *)

(* What has been selected when the loop has looked at k elements.          *)
UpTo(s, S) ==
  CHOOSE f : f = [i \in 0 .. Len(s) |->
                    IF i = 0 THEN <<>> ELSE IF s[i] \in S THEN Append(f[i-1], s[i]) ELSE f[i-1]]

(* The loop starts with nothing and adds what is wanted.                   *)
LEMMA SelectedSteps ==
  ASSUME NEW X, NEW s \in Seq(X), NEW S
  PROVE  /\ Selected(s, S) = UpTo(s, S)[Len(s)]
         /\ UpTo(s, S) \in [0 .. Len(s) -> Seq(X)]
         /\ UpTo(s, S)[0] = <<>>
         /\ \A i \in 1 .. Len(s) : 
              UpTo(s, S)[i] = IF s[i] \in S THEN Append(UpTo(s, S)[i-1], s[i]) ELSE UpTo(s, S)[i-1]
<1> DEFINE n == Len(s)
           Next(f, i) == IF i = 0 THEN <<>> ELSE IF s[i] \in S THEN Append(f[i-1], s[i]) ELSE f[i-1]
           Solves(f) == f = [i \in 0 .. n |-> Next(f, i)]
           step == [i \in 1 .. n |-> [v \in Seq(X) |-> IF s[i] \in S THEN Append(v, s[i]) ELSE v]]
<1>1. n \in Nat /\ <<>> \in Seq(X) /\ \A i \in 1 .. n : s[i] \in X
  OBVIOUS
<1>2. step \in [1 .. n -> [Seq(X) -> Seq(X)]]
  BY <1>1
<1>3. \A i \in 1 .. n, v \in Seq(X) : step[i][v] = IF s[i] \in S THEN Append(v, s[i]) ELSE v
  OBVIOUS
<1> HIDE DEF step, n
<1>4. PICK f : Follows(f, n, Seq(X), <<>>, step)
  <2>1. n \in Nat
    BY <1>1
  <2>2. <<>> \in Seq(X)
    BY <1>1
  <2> QED BY <2>1, <2>2, <1>2, RangeRecursion
<1>5. \A i \in 1 .. n : f[i] = IF s[i] \in S THEN Append(f[i-1], s[i]) ELSE f[i-1]
  <2> SUFFICES ASSUME NEW i \in 1 .. n
               PROVE  f[i] = IF s[i] \in S THEN Append(f[i-1], s[i]) ELSE f[i-1]
    OBVIOUS
  <2>1. f[i-1] \in Seq(X)
    BY <1>1, <1>4 DEF Follows
  <2> QED BY <2>1, <1>3, <1>4 DEF Follows
<1>6. Solves(f)
  <2>1. \A i \in 0 .. n : f[i] = Next(f, i)
    <3>1. \A i \in 0 .. n : i = 0 \/ i \in 1 .. n
      BY <1>1
    <3>2. f[0] = <<>>
      BY <1>4 DEF Follows
    <3> QED BY <3>1, <3>2, <1>5
  <2>2. f = [i \in 0 .. n |-> f[i]]
    BY <1>4 DEF Follows
  <2> HIDE DEF Next
  <2> QED BY <2>1, <2>2
<1>7. UpTo(s, S) = CHOOSE g : Solves(g)
  BY DEF UpTo, n
<1> DEFINE u == UpTo(s, S)
<1> HIDE DEF Solves
<1>8. Solves(u)
  BY <1>6, <1>7
<1> HIDE DEF u
<1>9. \A i \in 0 .. n : u[i] = Next(u, i)
  <2>1. u = [i \in 0 .. n |-> Next(u, i)]
    BY <1>8 DEF Solves
  <2> HIDE DEF Next
  <2> QED BY <2>1
<1>10. u[0] = <<>>
  BY <1>1, <1>9
<1>11. \A i \in 1 .. n : u[i] = IF s[i] \in S THEN Append(u[i-1], s[i]) ELSE u[i-1]
  BY <1>1, <1>9
<1> DEFINE T == {i \in 0 .. n : u[i] \in Seq(X)}
<1>12. \A i \in 0 .. n : i \in T
  <2>1. 0 \in T
    <3>1. u[0] \in Seq(X)
      <4>1. \A e : e = <<>> => e \in Seq(X)
        OBVIOUS
      <4> QED BY <4>1, <1>10
    <3> QED BY <3>1, <1>1
  <2>2. ASSUME NEW i \in 1 .. n, i - 1 \in T PROVE i \in T
    <3>1. u[i-1] \in Seq(X) /\ s[i] \in X /\ i \in 0 .. n
      BY <2>2, <1>1
    <3>2. Append(u[i-1], s[i]) \in Seq(X)
      BY <3>1
    <3> QED BY <3>1, <3>2, <1>11
  <2> HIDE DEF T
  <2> QED BY <2>1, <2>2, <1>1, RangeInduction
<1>13. u \in [0 .. n -> Seq(X)]
  <2>1. u = [i \in 0 .. n |-> Next(u, i)]
    BY <1>8 DEF Solves
  <2> HIDE DEF Next
  <2>2. u = [i \in 0 .. n |-> u[i]]
    BY <2>1
  <2> QED BY <2>2, <1>12
<1>14. Selected(s, S) = u[n]
  BY DEF Selected, UpTo, u, n
<1> QED BY <1>10, <1>11, <1>13, <1>14 DEF u, n

(* What is selected is what is wanted of what there was.                   *)
LEMMA SelectedElements ==
  ASSUME NEW X, NEW s \in Seq(X), NEW S
  PROVE  /\ Selected(s, S) \in Seq(X)
         /\ \A j \in 1 .. Len(Selected(s, S)) :
              \E i \in 1 .. Len(s) : s[i] \in S /\ Selected(s, S)[j] = s[i]
         /\ \A i \in 1 .. Len(s) :
              s[i] \in S => \E j \in 1 .. Len(Selected(s, S)) : Selected(s, S)[j] = s[i]
<1> DEFINE n == Len(s)
           u == UpTo(s, S)
           Good(k) == /\ \A j \in 1 .. Len(u[k]) : \E i \in 1 .. n : s[i] \in S /\ u[k][j] = s[i]
                      /\ \A i \in 1 .. k : s[i] \in S => \E j \in 1 .. Len(u[k]) : u[k][j] = s[i]
           T == {k \in 0 .. n : Good(k)}
<1>1. n \in Nat /\ u \in [0 .. n -> Seq(X)] /\ u[0] = <<>> /\ Selected(s, S) = u[n]
  BY SelectedSteps
<1>2. \A i \in 1 .. n : u[i] = IF s[i] \in S THEN Append(u[i-1], s[i]) ELSE u[i-1]
  BY SelectedSteps
<1>0. n \in Nat
  OBVIOUS
<1> HIDE DEF u, n
<1>3. 0 \in T
  BY <1>1
<1>4. ASSUME NEW k \in 1 .. n, k - 1 \in T PROVE k \in T
  <2>1. Good(k - 1) /\ u[k-1] \in Seq(X) /\ s[k] \in X
    BY <1>1, <1>4 DEF n
  <2>2. CASE s[k] \notin S
    <3>1. u[k] = u[k-1]
      BY <1>2, <2>2
    <3>2. \A i \in 1 .. k : i = k \/ i \in 1 .. k - 1
      BY <1>0
    <3>3. Good(k)
      BY <2>1, <2>2, <3>1, <3>2
    <3> QED BY <3>3, <1>0
  <2>3. CASE s[k] \in S
    <3> DEFINE v == u[k-1]
    <3>1. u[k] = Append(v, s[k])
      BY <1>2, <2>3
    <3>2. v \in Seq(X) /\ Good(k - 1)
      BY <2>1
    <3> HIDE DEF v
    <3>3. /\ Len(u[k]) = Len(v) + 1 /\ Len(v) \in Nat
          /\ u[k][Len(v) + 1] = s[k]
          /\ \A j \in 1 .. Len(v) : u[k][j] = v[j]
      BY <3>1, <3>2, <2>1
    <3>4. ASSUME NEW j \in 1 .. Len(u[k]) PROVE \E i \in 1 .. n : s[i] \in S /\ u[k][j] = s[i]
      <4>1. CASE j = Len(v) + 1
        BY <4>1, <3>3, <2>3
      <4>2. CASE j \in 1 .. Len(v)
        BY <4>2, <3>3, <2>1 DEF v
      <4> QED BY <4>1, <4>2, <3>3
    <3>5. ASSUME NEW i \in 1 .. k, s[i] \in S PROVE \E j \in 1 .. Len(u[k]) : u[k][j] = s[i]
      <4>1. CASE i = k
        BY <4>1, <3>3
      <4>2. CASE i # k
        <5>1. i \in 1 .. k - 1
          BY <4>2, <1>1
        <5>2. PICK j \in 1 .. Len(v) : v[j] = s[i]
          BY <5>1, <2>1, <3>5 DEF v
        <5>3. j \in 1 .. Len(u[k])
          BY <3>3
        <5> QED BY <5>2, <5>3, <3>3
      <4> QED BY <4>1, <4>2
    <3>6. Good(k)
      BY <3>4, <3>5
    <3> QED BY <3>6, <1>0
  <2> QED BY <2>2, <2>3
<1> HIDE DEF T
<1>5. n \in T
  <2>1. \A k \in 0 .. n : k \in T
    BY <1>0, <1>3, <1>4, RangeInduction
  <2> QED BY <2>1, <1>0
<1>6. Good(n)
  BY <1>5 DEF T
<1> QED BY <1>1, <1>6 DEF n

(* Selecting and computing row by row can be done in either order, if the  *)
(* rows of what is wanted, and only those, are wanted.                     *)
LEMMA SelectedImage ==
  ASSUME NEW X, NEW s \in Seq(X), NEW S, NEW Y, NEW g \in [X -> Y], NEW R, NEW t \in Seq(Y),
         Len(t) = Len(s), \A i \in 1 .. Len(s) : t[i] = g[s[i]] /\ (t[i] \in R <=> s[i] \in S)
  PROVE  /\ Selected(t, R) \in Seq(Y) /\ Len(Selected(t, R)) = Len(Selected(s, S))
         /\ \A j \in 1 .. Len(Selected(s, S)) : Selected(t, R)[j] = g[Selected(s, S)[j]]
<1> DEFINE n == Len(s)
           u == UpTo(s, S)
           w == UpTo(t, R)
           Good(k) == w[k] = [j \in 1 .. Len(u[k]) |-> g[u[k][j]]]
           T == {k \in 0 .. n : Good(k)}
<1>1. n \in Nat /\ u \in [0 .. n -> Seq(X)] /\ u[0] = <<>> /\ Selected(s, S) = u[n]
  BY SelectedSteps
<1>2. \A i \in 1 .. n : u[i] = IF s[i] \in S THEN Append(u[i-1], s[i]) ELSE u[i-1]
  BY SelectedSteps
<1>3. t \in Seq(Y) /\ Len(t) = n /\ \A i \in 1 .. n : t[i] = g[s[i]] /\ (t[i] \in R <=> s[i] \in S)
  OBVIOUS
<1>0. n \in Nat
  OBVIOUS
<1> HIDE DEF u
<1>4. w \in [0 .. n -> Seq(Y)] /\ w[0] = <<>> /\ Selected(t, R) = w[n]
  BY <1>3, SelectedSteps
<1>5. \A i \in 1 .. n : w[i] = IF t[i] \in R THEN Append(w[i-1], t[i]) ELSE w[i-1]
  BY <1>3, SelectedSteps
<1> HIDE DEF w
<1>6. 0 \in T
  <2>1. Len(u[0]) = 0 /\ w[0] = <<>> /\ 0 \in 0 .. n
    BY <1>1, <1>4
  <2>2. [j \in 1 .. 0 |-> g[u[0][j]]] = <<>>
    OBVIOUS
  <2> HIDE DEF n
  <2> QED BY <2>1, <2>2
<1>7. ASSUME NEW k \in 1 .. n, k - 1 \in T PROVE k \in T
  <2> DEFINE v == u[k-1]
  <2>1. v \in Seq(X) /\ s[k] \in X /\ w[k-1] = [j \in 1 .. Len(v) |-> g[v[j]]]
    <3>1. k - 1 \in 0 .. n /\ Good(k - 1)
      BY <1>7
    <3>2. s[k] \in X
      OBVIOUS
    <3> HIDE DEF n
    <3> QED BY <1>1, <3>1, <3>2
  <2>2. CASE s[k] \notin S
    <3>1. u[k] = v /\ w[k] = w[k-1]
      BY <1>2, <1>3, <1>5, <2>2
    <3> HIDE DEF v, n
    <3>2. Good(k)
      BY <2>1, <3>1
    <3> QED BY <3>2, <1>0
  <2>3. CASE s[k] \in S
    <3>1. u[k] = Append(v, s[k]) /\ w[k] = Append(w[k-1], g[s[k]])
      BY <1>2, <1>3, <1>5, <2>3
    <3> HIDE DEF v
    <3>2. w[k-1] \in Seq(Y) /\ Len(w[k-1]) = Len(v) /\ g[s[k]] \in Y
      BY <1>4, <2>1
    <3>3. /\ Len(u[k]) = Len(v) + 1 /\ Len(v) \in Nat
          /\ u[k][Len(v) + 1] = s[k]
          /\ \A j \in 1 .. Len(v) : u[k][j] = v[j]
      BY <3>1, <2>1
    <3>4. /\ w[k] \in Seq(Y) /\ Len(w[k]) = Len(v) + 1
          /\ w[k][Len(v) + 1] = g[s[k]]
          /\ \A j \in 1 .. Len(v) : w[k][j] = g[v[j]]
      BY <3>1, <3>2, <2>1
    <3>5. w[k] = [j \in 1 .. Len(v) + 1 |-> w[k][j]]
      BY <3>4
    <3>6. \A j \in 1 .. Len(v) + 1 : w[k][j] = g[u[k][j]]
      <4> SUFFICES ASSUME NEW j \in 1 .. Len(v) + 1 PROVE w[k][j] = g[u[k][j]]
        OBVIOUS
      <4>1. j \in 1 .. Len(v) \/ j = Len(v) + 1
        BY <3>3
      <4>2. CASE j \in 1 .. Len(v)
        BY <4>2, <3>3, <3>4
      <4>3. CASE j = Len(v) + 1
        BY <4>3, <3>3, <3>4
      <4> QED BY <4>1, <4>2, <4>3
    <3>7. Good(k)
      <4>1. \A j \in 1 .. Len(v) + 1 : w[k][j] = g[u[k][j]]
        BY <3>6
      <4>2. w[k] = [j \in 1 .. Len(v) + 1 |-> g[u[k][j]]]
        BY <3>5, <4>1
      <4> QED BY <4>2, <3>3
    <3> QED BY <3>7, <1>0
  <2> QED BY <2>2, <2>3
<1> HIDE DEF T
<1>8. n \in T
  <2>1. \A k \in 0 .. n : k \in T
    BY <1>0, <1>6, <1>7, RangeInduction
  <2> QED BY <2>1, <1>0
<1>9. w[n] = [j \in 1 .. Len(u[n]) |-> g[u[n][j]]]
  BY <1>8 DEF T
<1>10. u[n] \in Seq(X) /\ w[n] \in Seq(Y) /\ Len(u[n]) \in Nat
  BY <1>0, <1>1, <1>4
<1>11. Len(w[n]) = Len(u[n]) /\ \A j \in 1 .. Len(u[n]) : w[n][j] = g[u[n][j]]
  BY <1>9, <1>10
<1> QED BY <1>1, <1>4, <1>10, <1>11

(* If everything is wanted, everything is selected.                        *)
LEMMA SelectedAll ==
  ASSUME NEW X, NEW s \in Seq(X)
  PROVE  Selected(s, X) = s
<1> DEFINE n == Len(s)
           u == UpTo(s, X)
           T == {k \in 0 .. n : u[k] = SubSeq(s, 1, k)}
<1>1. n \in Nat /\ u \in [0 .. n -> Seq(X)] /\ u[0] = <<>> /\ Selected(s, X) = u[n]
  BY SelectedSteps
<1>2. \A i \in 1 .. n : u[i] = Append(u[i-1], s[i])
  <2>1. \A i \in 1 .. n : u[i] = IF s[i] \in X THEN Append(u[i-1], s[i]) ELSE u[i-1]
    BY SelectedSteps
  <2>2. \A i \in 1 .. n : s[i] \in X
    OBVIOUS
  <2> HIDE DEF u, n
  <2> QED BY <2>1, <2>2
<1>3. \A k \in 1 .. n : SubSeq(s, 1, k) = Append(SubSeq(s, 1, k - 1), s[k])
  OBVIOUS
<1>4. SubSeq(s, 1, 0) = <<>> /\ SubSeq(s, 1, n) = s
  OBVIOUS
<1>0. n \in Nat
  OBVIOUS
<1> HIDE DEF u, n
<1>5. 0 \in T
  BY <1>0, <1>1, <1>4
<1>6. ASSUME NEW k \in 1 .. n, k - 1 \in T PROVE k \in T
  <2>1. u[k-1] = SubSeq(s, 1, k - 1) /\ k \in 0 .. n
    BY <1>0, <1>6
  <2>2. u[k] = SubSeq(s, 1, k)
    BY <2>1, <1>2, <1>3
  <2> QED BY <2>1, <2>2
<1> HIDE DEF T
<1>7. n \in T
  <2>1. \A k \in 0 .. n : k \in T
    BY <1>0, <1>5, <1>6, RangeInduction
  <2> QED BY <2>1, <1>0
<1> QED BY <1>1, <1>4, <1>7 DEF T

(* Before the first that is wanted nothing is selected.                    *)
LEMMA UpToNone ==
  ASSUME NEW X, NEW s \in Seq(X), NEW S, NEW m \in 0 .. Len(s), \A j \in 1 .. m : s[j] \notin S
  PROVE  UpTo(s, S)[m] = <<>>
<1> DEFINE u == UpTo(s, S)
           T == {k \in 0 .. m : u[k] = <<>>}
<1>1. u[0] = <<>>
  BY SelectedSteps
<1>2. \A i \in 1 .. m : u[i] = u[i-1]
  <2>1. \A i \in 1 .. Len(s) : u[i] = IF s[i] \in S THEN Append(u[i-1], s[i]) ELSE u[i-1]
    BY SelectedSteps
  <2>2. 1 .. m \subseteq 1 .. Len(s)
    OBVIOUS
  <2> HIDE DEF u
  <2> QED BY <2>1, <2>2
<1>3. m \in Nat
  OBVIOUS
<1> HIDE DEF u
<1>4. 0 \in T
  BY <1>1, <1>3
<1>5. ASSUME NEW k \in 1 .. m, k - 1 \in T PROVE k \in T
  BY <1>2, <1>3, <1>5
<1> HIDE DEF T
<1>6. \A k \in 0 .. m : k \in T
  BY <1>3, <1>4, <1>5, RangeInduction
<1>7. m \in T
  BY <1>3, <1>6
<1> QED BY <1>7 DEF T, u

(* If one is wanted, and nothing else, it is selected.                     *)
LEMMA SelectedOne ==
  ASSUME NEW X, NEW s \in Seq(X), NEW S, NEW i \in 1 .. Len(s), s[i] \in S,
         \A j \in 1 .. Len(s) : s[j] \in S => j = i
  PROVE  Selected(s, S) = <<s[i]>> /\ UpTo(s, S)[i-1] = <<>>
<1> DEFINE n == Len(s)
           u == UpTo(s, S)
           T == {k \in 0 .. n : k >= i => u[k] = <<s[i]>>}
<1>1. n \in Nat /\ Selected(s, S) = u[n]
  BY SelectedSteps
<1>2. \A k \in 1 .. n : u[k] = IF s[k] \in S THEN Append(u[k-1], s[k]) ELSE u[k-1]
  BY SelectedSteps
<1>3. u[i-1] = <<>>
  <2>1. i - 1 \in 0 .. Len(s) /\ \A j \in 1 .. i - 1 : s[j] \notin S
    OBVIOUS
  <2> QED BY <2>1, UpToNone
<1>4. i \in 1 .. n /\ n \in Nat /\ \A j \in 1 .. n : s[j] \in S => j = i
  OBVIOUS
<1> HIDE DEF u, n
<1>5. 0 \in T
  BY <1>4
<1>6. ASSUME NEW k \in 1 .. n, k - 1 \in T PROVE k \in T
  <2>1. k \in 0 .. n
    BY <1>4
  <2>2. CASE k = i
    <3>1. u[k] = Append(<<>>, s[i])
      BY <1>2, <1>3, <2>2
    <3> QED BY <2>1, <3>1
  <2>3. CASE k > i
    <3>1. u[k] = u[k-1] /\ k - 1 >= i
      BY <1>2, <1>4, <2>3
    <3> QED BY <1>6, <2>1, <3>1
  <2>4. CASE k < i
    BY <1>4, <2>1, <2>4
  <2> QED BY <1>4, <2>2, <2>3, <2>4
<1> HIDE DEF T
<1>7. \A k \in 0 .. n : k \in T
  BY <1>4, <1>5, <1>6, RangeInduction
<1>8. n \in T
  BY <1>4, <1>7
<1>9. u[n] = <<s[i]>>
  BY <1>4, <1>8 DEF T
<1> QED BY <1>1, <1>3, <1>9 DEF u

(* Entries that all differ still do once some are selected.                *)
LEMMA SelectedApart ==
  ASSUME NEW X, NEW s \in Seq(X), NEW S, \A i, j \in 1 .. Len(s) : i # j => s[i] # s[j]
  PROVE  \A i, j \in 1 .. Len(Selected(s, S)) : i # j => Selected(s, S)[i] # Selected(s, S)[j]
<1> DEFINE n == Len(s)
           u == UpTo(s, S)
           Good(k) == /\ \A j \in 1 .. Len(u[k]) : \E i \in 1 .. k : u[k][j] = s[i]
                      /\ \A i, j \in 1 .. Len(u[k]) : i # j => u[k][i] # u[k][j]
           T == {k \in 0 .. n : Good(k)}
<1>1. n \in Nat /\ u \in [0 .. n -> Seq(X)] /\ u[0] = <<>> /\ Selected(s, S) = u[n]
  BY SelectedSteps
<1>2. \A i \in 1 .. n : u[i] = IF s[i] \in S THEN Append(u[i-1], s[i]) ELSE u[i-1]
  BY SelectedSteps
<1>0. n \in Nat
  OBVIOUS
<1> HIDE DEF u, n
<1>3. 0 \in T
  BY <1>1
<1>4. ASSUME NEW k \in 1 .. n, k - 1 \in T PROVE k \in T
  <2>1. Good(k - 1) /\ u[k-1] \in Seq(X) /\ s[k] \in X
    BY <1>1, <1>4 DEF n
  <2>2. \A i \in 1 .. k - 1 : i \in 1 .. k /\ i # k /\ s[i] # s[k]
    <3>1. \A i \in 1 .. k - 1 : i \in 1 .. n /\ i \in 1 .. k /\ i # k /\ k \in 1 .. n
      BY <1>0
    <3> QED BY <3>1 DEF n
  <2>3. CASE s[k] \notin S
    <3>1. u[k] = u[k-1]
      BY <1>2, <2>3
    <3>2. Good(k)
      BY <2>1, <2>2, <3>1
    <3> QED BY <3>2, <1>0
  <2>4. CASE s[k] \in S
    <3> DEFINE v == u[k-1]
    <3>1. u[k] = Append(v, s[k])
      BY <1>2, <2>4
    <3>2. v \in Seq(X) /\ Good(k - 1)
      BY <2>1
    <3> HIDE DEF v
    <3>3. /\ Len(u[k]) = Len(v) + 1 /\ Len(v) \in Nat
          /\ u[k][Len(v) + 1] = s[k]
          /\ \A j \in 1 .. Len(v) : u[k][j] = v[j]
      BY <3>1, <3>2, <2>1
    <3>4. \A j \in 1 .. Len(u[k]) : j = Len(v) + 1 \/ j \in 1 .. Len(v)
      BY <3>3
    <3>5. \A j \in 1 .. Len(v) : \E i \in 1 .. k - 1 : v[j] = s[i]
      BY <3>2 DEF v
    <3>6. \A j \in 1 .. Len(v) : v[j] # s[k]
      BY <2>2, <3>5
    <3>7. \A i, j \in 1 .. Len(v) : i # j => v[i] # v[j]
      BY <3>2 DEF v
    <3>8. \A i, j \in 1 .. Len(u[k]) : i # j => u[k][i] # u[k][j]
      BY <3>3, <3>4, <3>6, <3>7
    <3>9. k \in 1 .. k
      BY <1>0
    <3>10. \A j \in 1 .. Len(u[k]) : \E i \in 1 .. k : u[k][j] = s[i]
      BY <2>2, <3>3, <3>4, <3>5, <3>9
    <3>11. Good(k)
      BY <3>8, <3>10
    <3> QED BY <3>11, <1>0
  <2> QED BY <2>3, <2>4
<1> HIDE DEF T
<1>5. n \in T
  <2>1. \A k \in 0 .. n : k \in T
    BY <1>0, <1>3, <1>4, RangeInduction
  <2> QED BY <2>1, <1>0
<1>6. Good(n)
  BY <1>5 DEF T
<1> QED BY <1>1, <1>6 DEF n

=============================================================================
