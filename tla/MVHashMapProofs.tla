-------------------------- MODULE MVHashMapProofs --------------------------
(***************************************************************************)
(* What MVHashMap::read returns, for maps of any length: the equation of   *)
(* its loop, that a dependency it reports is a lower transaction, and what *)
(* one more entry at the top changes.                                      *)
(*                                                                         *)
(* The loop is a recursive function, so facts about it need induction over *)
(* the natural numbers.  The induction theorems of the library have an     *)
(* operator as parameter; here induction is on membership in a set.        *)
(***************************************************************************)
EXTENDS MVHashMap, WellFoundedInduction, TLAPS

-----------------------------------------------------------------------------
(* Induction *)

\* Every set of natural numbers has a least element.
LEMMA LeastNat ==
    ASSUME NEW S, S \subseteq Nat, S # {}
    PROVE  \E m \in S : \A n \in S : m <= n
  <1>1. PICK m \in S : \A n \in S : ~(<<n, m>> \in OpToRel(<, Nat))
    BY WFMin, NatLessThanWellFounded
  <1>2. ASSUME NEW n \in S
        PROVE  m <= n
    <2>1. ~(n < m)
      BY <1>1, <1>2 DEF OpToRel
    <2> QED
      BY <2>1
  <1> QED
    BY <1>2

\* A set that contains 0 and the successor of each of its members contains Nat.
LEMMA SetInduction ==
    ASSUME NEW S, 0 \in S, \A n \in Nat : n \in S => n + 1 \in S
    PROVE  Nat \subseteq S
  <1>1. SUFFICES ASSUME Nat \ S # {} PROVE FALSE
    OBVIOUS
  <1>2. PICK m \in Nat \ S : \A n \in Nat \ S : m <= n
    BY <1>1, LeastNat
  <1>3. m - 1 \in Nat /\ m = (m - 1) + 1
    BY <1>2
  <1>4. m - 1 \in S
    BY <1>2, <1>3
  <1> QED
    BY <1>2, <1>3, <1>4

-----------------------------------------------------------------------------
(* The loop of read *)

\* One step of the loop.
Proceed(vm, t, n, before) ==
    IF before.kind # "Traversing" THEN before ELSE Visit(vm[t - n], t - n, before.acc)

\* f is the function that Traversal defines, as far as n.
Traverses(f, vm, t, acc, n) ==
    f = [i \in 0 .. n |-> IF i = 0 THEN Traversing(acc) ELSE Proceed(vm, t, i, f[i - 1])]

\* There is such a function.
LEMMA TraversalExists ==
    ASSUME NEW vm, NEW t, NEW acc, NEW n \in Nat
    PROVE  \E f : Traverses(f, vm, t, acc, n)
  <1> DEFINE S == {m \in Nat : \E f : Traverses(f, vm, t, acc, m)}
  <1>1. 0 \in S
    <2> DEFINE f == [i \in 0 .. 0 |-> Traversing(acc)]
    <2>1. ASSUME NEW i \in 0 .. 0
          PROVE  f[i] = IF i = 0 THEN Traversing(acc) ELSE Proceed(vm, t, i, f[i - 1])
      OBVIOUS
    <2>2. Traverses(f, vm, t, acc, 0)
      BY <2>1, Zenon DEF Traverses
    <2> QED
      BY <2>2
  <1>2. ASSUME NEW m \in Nat, m \in S
        PROVE  m + 1 \in S
    <2>1. PICK f : Traverses(f, vm, t, acc, m)
      BY <1>2
    <2> DEFINE g == [i \in 0 .. m + 1 |->
                        IF i = m + 1 THEN Proceed(vm, t, m + 1, f[m]) ELSE f[i]]
               E(i, h) == IF i = 0 THEN Traversing(acc) ELSE Proceed(vm, t, i, h[i - 1])
    <2>2. ASSUME NEW i \in 0 .. m + 1
          PROVE  g[i] = E(i, g)
      <3>1. CASE i = m + 1
        <4>1. g[i] = Proceed(vm, t, i, f[i - 1]) /\ g[i - 1] = f[i - 1] /\ i # 0
          BY <3>1
        <4> QED
          BY <4>1
      <3>2. CASE i = 0
        <4>1. g[i] = f[0] /\ f[0] = Traversing(acc)
          BY <2>1, <3>2 DEF Traverses
        <4> QED
          BY <3>2, <4>1
      <3>3. CASE i # 0 /\ i # m + 1
        <4>1. i - 1 \in 0 .. m /\ i \in 0 .. m /\ i - 1 # m + 1 /\ i - 1 \in 0 .. m + 1
          BY <3>3
        <4>2. g[i] = f[i] /\ g[i - 1] = f[i - 1]
          BY <4>1, <3>3
        <4>3. f[i] = Proceed(vm, t, i, f[i - 1])
          BY <2>1, <3>3, <4>1, Zenon DEF Traverses
        <4> QED
          BY <3>3, <4>2, <4>3
      <3> QED
        BY <3>1, <3>2, <3>3
    <2>3. Traverses(g, vm, t, acc, m + 1)
      <3> HIDE DEF g
      <3>1. g = [i \in 0 .. m + 1 |-> g[i]]
        BY DEF g
      <3> QED
        BY <2>2, <3>1, Zenon DEF Traverses
    <2>4. \E h : Traverses(h, vm, t, acc, m + 1)
      BY <2>3
    <2>5. m + 1 \in Nat
      OBVIOUS
    <2> QED
      BY <2>4, <2>5, Zenon
  <1>3. Nat \subseteq S
    <2> HIDE DEF S
    <2> QED
      BY <1>1, <1>2, SetInduction
  <1> QED
    BY <1>3, Zenon

\* The equation of the loop.
LEMMA TraversalDef ==
    ASSUME NEW vm, NEW t \in Nat, NEW acc
    PROVE  /\ Traversal(vm, t, acc)[0] = Traversing(acc)
           /\ \A n \in 1 .. t : Traversal(vm, t, acc)[n]
                                   = Proceed(vm, t, n, Traversal(vm, t, acc)[n - 1])
  <1>1. \E f : Traverses(f, vm, t, acc, t)
    BY TraversalExists
  <1>2. Traversal(vm, t, acc) = CHOOSE f : Traverses(f, vm, t, acc, t)
    BY Zenon DEF Traversal, Traverses, Proceed
  <1>3. Traverses(Traversal(vm, t, acc), vm, t, acc, t)
    BY <1>1, <1>2, Zenon
  <1> QED
    BY <1>3 DEF Traverses

-----------------------------------------------------------------------------
(* What read returns *)

\* What add_write, add_delta, mark_estimate and delete leave at an index.
IsEntry(e) ==
    \/ e = NoEntry
    \/ /\ e = [cell |-> "Write", flag |-> e.flag, inc |-> e.inc, data |-> e.data]
       /\ e.flag \in {"DONE", "ESTIMATE"}
    \/ /\ e = [cell |-> "Delta", flag |-> e.flag, delta |-> e.delta]
       /\ e.flag \in {"DONE", "ESTIMATE"}

\* An iteration of the loop goes on, or returns a result: a dependency only on
\* the transaction whose entry it is at.
LEMMA VisitResults ==
    ASSUME NEW e, IsEntry(e), NEW i, NEW acc
    PROVE  LET r == Visit(e, i, acc)
           IN  \/ r = Traversing(r.acc)
               \/ r = Dependency(i) /\ e.flag = "ESTIMATE" /\ e.cell # "None"
               \/ r.kind \in {"Version", "Resolved", "DeltaApplicationFailure"}
  <1>1. CASE e = NoEntry
    <2>1. Visit(e, i, acc) = Traversing(acc)
      BY <1>1 DEF Visit, NoEntry
    <2> QED
      BY <2>1 DEF Traversing
  <1>2. CASE e.cell \in {"Write", "Delta"} /\ e.flag = "ESTIMATE"
    <2>1. Visit(e, i, acc) = Dependency(i)
      BY <1>2 DEF Visit
    <2> QED
      BY <1>2, <2>1
  <1>3. CASE e.cell = "Write" /\ e.flag = "DONE"
    BY <1>3 DEF Visit, Version, Resolved, DeltaApplicationFailure
  <1>4. CASE e.cell = "Delta" /\ e.flag = "DONE"
    BY <1>4 DEF Visit, Traversing
  <1> QED
    BY <1>1, <1>2, <1>3, <1>4 DEF IsEntry

\* A dependency that read(vm, t) reports is a transaction below t with an ESTIMATE.
LEMMA ReadDependency ==
    ASSUME NEW vm, NEW t \in Nat, \A i \in 0 .. t - 1 : IsEntry(vm[i]),
           read(vm, t).kind = "Dependency"
    PROVE  /\ read(vm, t).idx \in 0 .. t - 1
           /\ vm[read(vm, t).idx].cell # "None"
           /\ vm[read(vm, t).idx].flag = "ESTIMATE"
  <1> DEFINE T == Traversal(vm, t, NoAccumulator)
             Estimate(r) == r.kind = "Dependency" =>
                                /\ r.idx \in 0 .. t - 1
                                /\ vm[r.idx].cell # "None" /\ vm[r.idx].flag = "ESTIMATE"
             S == {n \in Nat : n <= t => Estimate(T[n])}
  <1>1. 0 \in S
    <2>1. T[0] = Traversing(NoAccumulator)
      BY TraversalDef
    <2> HIDE DEF T
    <2> QED
      BY <2>1 DEF Traversing
  <1>2. ASSUME NEW n \in Nat, n \in S
        PROVE  n + 1 \in S
    <2>1. SUFFICES ASSUME n + 1 <= t PROVE Estimate(T[n + 1])
      OBVIOUS
    <2>2. n + 1 \in 1 .. t /\ (n + 1) - 1 = n /\ t - (n + 1) \in 0 .. t - 1
      BY <2>1
    <2>3. T[n + 1] = Proceed(vm, t, n + 1, T[n])
      BY <2>2, TraversalDef
    <2>4. Estimate(T[n])
      BY <1>2, <2>1
    <2> HIDE DEF T
    <2>5. CASE T[n].kind # "Traversing"
      BY <2>3, <2>4, <2>5 DEF Proceed
    <2>6. CASE T[n].kind = "Traversing"
      <3> DEFINE i == t - (n + 1)
                 r == Visit(vm[i], i, T[n].acc)
      <3>1. T[n + 1] = r
        BY <2>3, <2>6 DEF Proceed
      <3>2. \/ r = Traversing(r.acc)
            \/ r = Dependency(i) /\ vm[i].flag = "ESTIMATE" /\ vm[i].cell # "None"
            \/ r.kind \in {"Version", "Resolved", "DeltaApplicationFailure"}
        BY <2>2, VisitResults
      <3> HIDE DEF r
      <3> QED
        BY <2>2, <3>1, <3>2 DEF Traversing, Dependency
    <2> QED
      BY <2>5, <2>6
  <1>3. Estimate(T[t])
    <2> HIDE DEF S
    <2>1. t \in S
      BY <1>1, <1>2, SetInduction
    <2> QED
      BY <2>1 DEF S
  <1>4. read(vm, t) = IF T[t].kind = "Traversing" THEN Exhausted(T[t].acc) ELSE T[t]
    BY DEF read, Ended
  <1> HIDE DEF T
  <1>5. \A acc : Exhausted(acc).kind # "Dependency"
    BY DEF Exhausted, NotFound, Unresolved, DeltaApplicationFailure
  <1> QED
    BY <1>3, <1>4, <1>5

\* Where the loop ends when it starts below t with acc.
Down(vm, t, acc) == Ended(Traversal(vm, t, acc)[t])

\* The loop from t + 1 visits the entry of t, then goes on as the loop from t.
LEMMA DownStep ==
    ASSUME NEW vm, NEW t \in Nat, IsEntry(vm[t]), NEW acc
    PROVE  LET r == Visit(vm[t], t, acc)
           IN  Down(vm, t + 1, acc) = IF r.kind = "Traversing" THEN Down(vm, t, r.acc) ELSE r
  <1> DEFINE r == Visit(vm[t], t, acc)
             T == Traversal(vm, t + 1, acc)
             U == Traversal(vm, t, r.acc)
             S == {n \in Nat : n <= t => T[n + 1] = IF r.kind = "Traversing" THEN U[n] ELSE r}
  <1>a. /\ T[0] = Traversing(acc)
        /\ \A n \in 1 .. t + 1 : T[n] = Proceed(vm, t + 1, n, T[n - 1])
    BY TraversalDef
  <1>b. /\ U[0] = Traversing(r.acc)
        /\ \A n \in 1 .. t : U[n] = Proceed(vm, t, n, U[n - 1])
    <2> HIDE DEF r
    <2> QED
      BY TraversalDef
  <1>c. r.kind = "Traversing" => r = Traversing(r.acc)
    <2>1. \/ r = Traversing(r.acc)
          \/ r = Dependency(t) /\ vm[t].flag = "ESTIMATE" /\ vm[t].cell # "None"
          \/ r.kind \in {"Version", "Resolved", "DeltaApplicationFailure"}
      BY VisitResults
    <2> HIDE DEF r
    <2> QED
      BY <2>1 DEF Dependency
  <1>d. T[1] = r
    <2>1. 1 \in 1 .. t + 1 /\ 1 - 1 = 0 /\ (t + 1) - 1 = t
      OBVIOUS
    <2>2. T[1] = Proceed(vm, t + 1, 1, T[0])
      BY <1>a, <2>1
    <2> HIDE DEF T
    <2>3. T[0].kind = "Traversing" /\ T[0].acc = acc
      BY <1>a DEF Traversing
    <2> QED
      BY <2>1, <2>2, <2>3 DEF Proceed
  <1> HIDE DEF r, T, U
  <1>1. 0 \in S
    <2>1. 0 + 1 = 1
      OBVIOUS
    <2> QED
      BY <1>b, <1>c, <1>d, <2>1
  <1>2. ASSUME NEW n \in Nat, n \in S
        PROVE  n + 1 \in S
    <2>1. SUFFICES ASSUME n + 1 <= t
                   PROVE  T[(n + 1) + 1] = IF r.kind = "Traversing" THEN U[n + 1] ELSE r
      OBVIOUS
    <2>2. /\ n + 1 \in 1 .. t /\ (n + 1) + 1 \in 1 .. t + 1
          /\ ((n + 1) + 1) - 1 = n + 1 /\ (n + 1) - 1 = n
          /\ (t + 1) - ((n + 1) + 1) = t - (n + 1)
      BY <2>1
    <2>3. T[n + 1] = IF r.kind = "Traversing" THEN U[n] ELSE r
      BY <1>2, <2>1
    <2>4. T[(n + 1) + 1] = Proceed(vm, t + 1, (n + 1) + 1, T[n + 1])
      BY <1>a, <2>2
    <2>5. U[n + 1] = Proceed(vm, t, n + 1, U[n])
      BY <1>b, <2>2
    <2>6. \A x : Proceed(vm, t + 1, (n + 1) + 1, x) = Proceed(vm, t, n + 1, x)
      BY <2>2 DEF Proceed
    <2> QED
      BY <2>3, <2>4, <2>5, <2>6 DEF Proceed
  <1>3. T[t + 1] = IF r.kind = "Traversing" THEN U[t] ELSE r
    <2> HIDE DEF S
    <2>1. t \in S
      BY <1>1, <1>2, SetInduction
    <2> QED
      BY <2>1 DEF S
  <1> QED
    BY <1>3 DEF Down, Ended, r, T, U

\* The loop that visits nothing.
LEMMA DownZero ==
    ASSUME NEW vm, NEW acc
    PROVE  Down(vm, 0, acc) = Exhausted(acc)
  <1>1. Traversal(vm, 0, acc)[0] = Traversing(acc)
    BY TraversalDef
  <1> QED
    BY <1>1 DEF Down, Ended, Traversing

=============================================================================
