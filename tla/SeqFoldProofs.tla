---------------------------- MODULE SeqFoldProofs -----------------------------
(*****************************************************************************)
(* Lemmas about sequences of numbers and what loops over them compute:       *)
(* induction over numbers and trees, the existence of recursive functions,   *)
(* sums, concatenations and filters, and the order in which a queue hands    *)
(* its elements on.                                                          *)
(*****************************************************************************)
EXTENDS SeqFolds, WellFoundedInduction, TLAPS

(* Induction: a set of numbers with zero and every successor is Nat. *)
LEMMA Induction ==
  ASSUME NEW S \in SUBSET Nat, 0 \in S, \A n \in S : n + 1 \in S
  PROVE  S = Nat
  <1>1. SUFFICES ASSUME Nat \ S # {} PROVE FALSE
    BY Zenon
  <1>2. PICK x \in Nat \ S : \A y \in Nat \ S : ~(<<y, x>> \in OpToRel(<, Nat))
    BY <1>1, NatLessThanWellFounded, WFMin
  <1>3. x - 1 \in Nat /\ x - 1 < x
    OBVIOUS
  <1>4. x - 1 \in S
    BY Zenon, <1>2, <1>3 DEF OpToRel
  <1> QED
    BY <1>3, <1>4

(* f is the run of a loop with step h, from base, over m elements. *)
IsRun(f, m, T, base, h) ==
  /\ f \in [0..m -> T] /\ f[0] = base
  /\ \A n \in 1..m : f[n] = h[<<n, f[n - 1]>>]

(* Recursion: every loop has a run. *)
LEMMA Recursion ==
  ASSUME NEW T, NEW base \in T, NEW N \in Nat, NEW h \in [(1..N) \X T -> T]
  PROVE  \E f : IsRun(f, N, T, base, h)
  <1> DEFINE Runs(m) == \E f : IsRun(f, m, T, base, h)
             S == {m \in Nat : m <= N => Runs(m)}
  <1>1. Runs(0)
    <2>1. IsRun([i \in 0..0 |-> base], 0, T, base, h)
      BY DEF IsRun
    <2> QED
      BY <2>1
  <1>2. ASSUME NEW m \in Nat, m + 1 <= N, Runs(m) PROVE Runs(m + 1)
    <2>1. PICK f : IsRun(f, m, T, base, h)
      BY <1>2
    <2> DEFINE next == h[<<m + 1, f[m]>>]
               g == [n \in 0..m + 1 |-> IF n = m + 1 THEN next ELSE f[n]]
    <2>2. next \in T /\ f \in [0..m -> T]
      BY <1>2, <2>1 DEF IsRun
    <2>3. g \in [0..m + 1 -> T] /\ g[0] = base
      <3> HIDE DEF next
      <3> QED
        BY <2>1, <2>2 DEF IsRun
    <2>4. ASSUME NEW n \in 1..m + 1 PROVE g[n] = h[<<n, g[n - 1]>>]
      <3>1. g[n - 1] = f[n - 1]
        OBVIOUS
      <3>2. CASE n = m + 1
        <4>1. n - 1 = m /\ g[n] = next
          BY <3>2
        <4> QED
          BY Zenon, <3>1, <3>2, <4>1
      <3>3. CASE n # m + 1
        <4>1. n \in 1..m /\ g[n] = f[n]
          BY <3>3
        <4> QED
          BY <2>1, <3>1, <4>1 DEF IsRun
      <3> QED
        BY <3>2, <3>3
    <2> HIDE DEF g
    <2>5. IsRun(g, m + 1, T, base, h)
      BY <2>3, <2>4 DEF IsRun
    <2> QED
      BY <2>5
  <1> HIDE DEF Runs
  <1>3. 0 \in S /\ \A m \in S : m + 1 \in S
    BY <1>1, <1>2
  <1>4. S \in SUBSET Nat
    OBVIOUS
  <1>5. S = Nat
    <2> HIDE DEF S
    <2> QED
      BY Zenon, <1>3, <1>4, Induction
  <1> QED
    BY <1>5 DEF Runs

--------------------------------------------------------------------------------
(* f holds the sums of the initial parts of s. *)
Sums(f, s) ==
  /\ f \in [0..Len(s) -> Nat] /\ f[0] = 0
  /\ \A n \in 1..Len(s) : f[n] = f[n - 1] + s[n]

(* Total is the last of them. *)
LEMMA TotalSums ==
  ASSUME NEW s \in Seq(Nat)
  PROVE  \E f : Sums(f, s) /\ Total(s) = f[Len(s)]
  <1> DEFINE N == Len(s)
             h == [x \in (1..N) \X Nat |-> x[2] + s[x[1]]]
             up == CHOOSE g : g = [n \in 0..N |-> IF n = 0 THEN 0 ELSE g[n - 1] + s[n]]
  <1>1. N \in Nat /\ h \in [(1..N) \X Nat -> Nat]
    OBVIOUS
  <1>2. PICK f : IsRun(f, N, Nat, 0, h)
    <2> HIDE DEF h, N
    <2> QED
      BY Zenon, <1>1, Recursion
  <1>3. f \in [0..N -> Nat] /\ f[0] = 0 /\ \A n \in 1..N : f[n] = f[n - 1] + s[n]
    <2>1. f \in [0..N -> Nat] /\ f[0] = 0 /\ \A n \in 1..N : f[n] = h[<<n, f[n - 1]>>]
      BY Zenon, <1>2 DEF IsRun
    <2>2. ASSUME NEW n \in 1..N PROVE f[n - 1] \in Nat
      BY <2>1
    <2>3. ASSUME NEW n \in 1..N, NEW x \in Nat PROVE h[<<n, x>>] = x + s[n]
      OBVIOUS
    <2> HIDE DEF h
    <2> QED
      BY Zenon, <2>1, <2>2, <2>3
  <1>4. f = [n \in 0..N |-> IF n = 0 THEN 0 ELSE f[n - 1] + s[n]]
    BY <1>3
  <1>5. up = [n \in 0..N |-> IF n = 0 THEN 0 ELSE up[n - 1] + s[n]]
    BY Zenon, <1>4
  <1>6. Total(s) = up[N]
    BY DEF Total
  <1> HIDE DEF up
  <1> DEFINE E == {m \in Nat : m <= N => up[m] = f[m]}
  <1>7. 0 \in E /\ \A m \in E : m + 1 \in E
    BY <1>1, <1>3, <1>5
  <1>8. E \in SUBSET Nat
    OBVIOUS
  <1>9. E = Nat
    <2> HIDE DEF E
    <2> QED
      BY Zenon, <1>7, <1>8, Induction
  <1>10. up[N] = f[N]
    BY <1>1, <1>9
  <1> QED
    BY <1>3, <1>6, <1>10 DEF Sums

(* A total is a number. *)
LEMMA TotalType ==
  ASSUME NEW s \in Seq(Nat)
  PROVE  Total(s) \in Nat
  <1>1. PICK f : Sums(f, s) /\ Total(s) = f[Len(s)]
    BY TotalSums
  <1> QED
    BY <1>1 DEF Sums

LEMMA TotalEmpty == Total(<<>>) = 0
  <1>1. <<>> \in Seq(Nat) /\ Len(<<>>) = 0
    OBVIOUS
  <1>2. PICK f : Sums(f, <<>>) /\ Total(<<>>) = f[Len(<<>>)]
    BY <1>1, TotalSums
  <1> QED
    BY <1>1, <1>2 DEF Sums

(* It grows with its summands. *)
LEMMA TotalMonotonic ==
  ASSUME NEW s \in Seq(Nat), NEW t \in Seq(Nat), Len(s) = Len(t),
         \A n \in 1..Len(s) : s[n] <= t[n]
  PROVE  Total(s) <= Total(t)
  <1>1. PICK f : Sums(f, s) /\ Total(s) = f[Len(s)]
    BY TotalSums
  <1>2. PICK g : Sums(g, t) /\ Total(t) = g[Len(t)]
    BY TotalSums
  <1> DEFINE E == {m \in Nat : m <= Len(s) => f[m] <= g[m]}
  <1>3. 0 \in E
    BY <1>1, <1>2 DEF Sums
  <1>4. ASSUME NEW m \in E PROVE m + 1 \in E
    <2>1. SUFFICES ASSUME m + 1 <= Len(s) PROVE f[m + 1] <= g[m + 1]
      OBVIOUS
    <2>2. m + 1 \in 1..Len(s) /\ m \in 0..Len(s) /\ (m + 1) - 1 = m
      BY <2>1
    <2>3. f[m + 1] = f[m] + s[m + 1] /\ g[m + 1] = g[m] + t[m + 1]
      BY <1>1, <1>2, <2>2 DEF Sums
    <2>4. f[m] <= g[m]
      BY <2>2
    <2>6. f[m] \in Nat /\ g[m] \in Nat
      BY Zenon, <1>1, <1>2, <2>2 DEF Sums
    <2>5. s[m + 1] <= t[m + 1] /\ s[m + 1] \in Nat /\ t[m + 1] \in Nat
      BY <2>2
    <2> QED
      BY <2>3, <2>4, <2>5, <2>6
  <1>5. E \in SUBSET Nat
    OBVIOUS
  <1>6. E = Nat
    <2> HIDE DEF E
    <2> QED
      BY Zenon, <1>3, <1>4, <1>5, Induction
  <1> QED
    BY <1>1, <1>2, <1>6

(* Another summand adds to it, *)
LEMMA TotalAppend ==
  ASSUME NEW s \in Seq(Nat), NEW x \in Nat
  PROVE  Total(Append(s, x)) = Total(s) + x
  <1> DEFINE t == Append(s, x)
  <1>0. /\ t \in Seq(Nat) /\ Len(t) = Len(s) + 1 /\ t[Len(s) + 1] = x
        /\ \A n \in 1..Len(s) : t[n] = s[n]
    OBVIOUS
  <1> HIDE DEF t
  <1>1. PICK f : Sums(f, s) /\ Total(s) = f[Len(s)]
    BY TotalSums
  <1>2. PICK g : Sums(g, t) /\ Total(t) = g[Len(t)]
    BY <1>0, TotalSums
  <1> DEFINE E == {m \in Nat : m <= Len(s) => f[m] = g[m]}
  <1>3. 0 \in E
    BY <1>1, <1>2 DEF Sums
  <1>4. ASSUME NEW m \in E PROVE m + 1 \in E
    <2>1. SUFFICES ASSUME m + 1 <= Len(s) PROVE f[m + 1] = g[m + 1]
      OBVIOUS
    <2>2. m + 1 \in 1..Len(s) /\ m + 1 \in 1..Len(t) /\ (m + 1) - 1 = m
      BY <1>0, <2>1
    <2>3. f[m + 1] = f[m] + s[m + 1] /\ g[m + 1] = g[m] + t[m + 1]
      BY <1>1, <1>2, <2>2 DEF Sums
    <2> QED
      BY <1>0, <2>1, <2>2, <2>3
  <1>5. E \in SUBSET Nat
    OBVIOUS
  <1>6. E = Nat
    <2> HIDE DEF E
    <2> QED
      BY Zenon, <1>3, <1>4, <1>5, Induction
  <1>7. Len(s) \in Nat /\ Len(t) \in 1..Len(t) /\ Len(t) - 1 = Len(s)
    BY <1>0
  <1>8. g[Len(t)] = g[Len(s)] + x
    BY <1>0, <1>2, <1>7 DEF Sums
  <1>9. f[Len(s)] = g[Len(s)]
    BY <1>6, <1>7
  <1> QED
    BY <1>1, <1>2, <1>8, <1>9 DEF t

(* and so does what is added to one of the summands. *)
LEMMA TotalUpdate ==
  ASSUME NEW s \in Seq(Nat), NEW t \in Seq(Nat), NEW i \in 1..Len(s), NEW x \in Nat,
         Len(t) = Len(s), t[i] = s[i] + x, \A n \in 1..Len(s) : n # i => t[n] = s[n]
  PROVE  Total(t) = Total(s) + x
  <1>1. PICK f : Sums(f, s) /\ Total(s) = f[Len(s)]
    BY TotalSums
  <1>2. PICK g : Sums(g, t) /\ Total(t) = g[Len(t)]
    BY TotalSums
  <1> DEFINE E == {m \in Nat : m <= Len(s) => g[m] = f[m] + (IF m < i THEN 0 ELSE x)}
  <1>3. 0 \in E
    BY <1>1, <1>2 DEF Sums
  <1>4. ASSUME NEW m \in E PROVE m + 1 \in E
    <2>1. SUFFICES ASSUME m + 1 <= Len(s)
                   PROVE  g[m + 1] = f[m + 1] + (IF m + 1 < i THEN 0 ELSE x)
      OBVIOUS
    <2>2. m + 1 \in 1..Len(s) /\ m \in 0..Len(s) /\ (m + 1) - 1 = m
      BY <2>1
    <2>3. f[m + 1] = f[m] + s[m + 1] /\ g[m + 1] = g[m] + t[m + 1]
      BY <1>1, <1>2, <2>2 DEF Sums
    <2>4. g[m] = f[m] + (IF m < i THEN 0 ELSE x)
      BY <2>2
    <2>6. f[m] \in Nat
      BY Zenon, <1>1, <2>2 DEF Sums
    <2>7. s[m + 1] \in Nat
      BY <2>2
    <2>5. t[m + 1] = s[m + 1] + (IF m + 1 = i THEN x ELSE 0)
      BY <2>2, <2>7
    <2> HIDE DEF E
    <2> QED
      BY <2>2, <2>3, <2>4, <2>5, <2>6, <2>7
  <1>5. E \in SUBSET Nat
    OBVIOUS
  <1>6. E = Nat
    <2> HIDE DEF E
    <2> QED
      BY Zenon, <1>3, <1>4, <1>5, Induction
  <1>7. Len(s) \in Nat /\ ~(Len(s) < i)
    OBVIOUS
  <1>8. g[Len(s)] = f[Len(s)] + x
    BY <1>6, <1>7
  <1> QED
    BY <1>1, <1>2, <1>8

--------------------------------------------------------------------------------
(* f holds what the first sequences of ss make up. *)
Joins(f, ss) ==
  /\ f \in [0..Len(ss) -> Seq(Nat)] /\ f[0] = <<>>
  /\ \A n \in 1..Len(ss) : f[n] = f[n - 1] \o ss[n]

(* Joined is the last of them. *)
LEMMA JoinedJoins ==
  ASSUME NEW ss \in Seq(Seq(Nat))
  PROVE  \E f : Joins(f, ss) /\ Joined(ss) = f[Len(ss)]
  <1> DEFINE N == Len(ss)
             h == [x \in (1..N) \X Seq(Nat) |-> x[2] \o ss[x[1]]]
             up == CHOOSE g : g = [n \in 0..N |-> IF n = 0 THEN <<>> ELSE g[n - 1] \o ss[n]]
  <1>1. N \in Nat /\ <<>> \in Seq(Nat)
    OBVIOUS
  <1>2. h \in [(1..N) \X Seq(Nat) -> Seq(Nat)]
    <2>1. ASSUME NEW n \in 1..N, NEW x \in Seq(Nat) PROVE x \o ss[n] \in Seq(Nat)
      OBVIOUS
    <2> HIDE DEF N
    <2> QED
      BY Zenon, <2>1
  <1>3. PICK f : IsRun(f, N, Seq(Nat), <<>>, h)
    <2> HIDE DEF h, N
    <2> QED
      BY Zenon, <1>1, <1>2, Recursion
  <1>4. /\ f \in [0..N -> Seq(Nat)] /\ f[0] = <<>>
        /\ \A n \in 1..N : f[n] = f[n - 1] \o ss[n]
    <2>1. f \in [0..N -> Seq(Nat)] /\ f[0] = <<>> /\ \A n \in 1..N : f[n] = h[<<n, f[n - 1]>>]
      BY Zenon, <1>3 DEF IsRun
    <2>2. ASSUME NEW n \in 1..N PROVE f[n - 1] \in Seq(Nat)
      <3>1. n - 1 \in 0..N
        BY <1>1
      <3> QED
        BY Zenon, <2>1, <3>1
    <2>3. ASSUME NEW n \in 1..N, NEW x \in Seq(Nat) PROVE h[<<n, x>>] = x \o ss[n]
      BY Zenon
    <2> HIDE DEF h
    <2> QED
      BY Zenon, <2>1, <2>2, <2>3
  <1>5. f = [n \in 0..N |-> IF n = 0 THEN <<>> ELSE f[n - 1] \o ss[n]]
    <2>1. \A n \in 0..N : n = 0 \/ n \in 1..N
      BY <1>1
    <2> HIDE DEF N
    <2> QED
      BY Zenon, <1>4, <2>1
  <1>6. up = [n \in 0..N |-> IF n = 0 THEN <<>> ELSE up[n - 1] \o ss[n]]
    BY Zenon, <1>5
  <1>7. Joined(ss) = up[N]
    BY DEF Joined
  <1> HIDE DEF up
  <1> DEFINE E == {m \in Nat : m <= N => up[m] = f[m]}
  <1>8. 0 \in E
    BY <1>1, <1>4, <1>6
  <1>9. ASSUME NEW m \in E PROVE m + 1 \in E
    <2>1. SUFFICES ASSUME m + 1 <= N PROVE up[m + 1] = f[m + 1]
      OBVIOUS
    <2>5. m \in Nat /\ (m <= N => up[m] = f[m])
      BY Zenon
    <2> HIDE DEF N, E
    <2>2. up[m] = f[m] /\ m + 1 \in 1..N /\ m + 1 \in 0..N /\ m + 1 # 0 /\ (m + 1) - 1 = m
      BY <1>1, <2>1, <2>5
    <2>3. f[m + 1] = f[(m + 1) - 1] \o ss[m + 1]
      BY Zenon, <1>4, <2>2
    <2>4. up[m + 1] = up[(m + 1) - 1] \o ss[m + 1]
      BY Zenon, <1>6, <2>2
    <2> QED
      BY Zenon, <2>2, <2>3, <2>4
  <1>10. E \in SUBSET Nat
    OBVIOUS
  <1>11. E = Nat
    <2> HIDE DEF E
    <2> QED
      BY Zenon, <1>8, <1>9, <1>10, Induction
  <1>12. up[N] = f[N]
    BY <1>1, <1>11
  <1> QED
    BY Zenon, <1>4, <1>7, <1>12 DEF Joins

Increasing(s) == \A i, j \in 1..Len(s) : i < j => s[i] < s[j]

AllLess(s, t) == \A i \in 1..Len(s), j \in 1..Len(t) : s[i] < t[j]

(* The elements of s followed by t; *)
LEMMA ConcatElements ==
  ASSUME NEW s \in Seq(Nat), NEW t \in Seq(Nat)
  PROVE  /\ s \o t \in Seq(Nat) /\ Len(s \o t) = Len(s) + Len(t)
         /\ Len(s) \in Nat /\ Len(t) \in Nat
         /\ \A k \in 1..Len(s) : (s \o t)[k] = s[k]
         /\ \A k \in Len(s) + 1..Len(s) + Len(t) :
              k - Len(s) \in 1..Len(t) /\ (s \o t)[k] = t[k - Len(s)]
  OBVIOUS

(* each is one of s or one of t; *)
Pieces(u, s, t) ==
  \A k \in 1..Len(u) :
    \/ k \in 1..Len(s) /\ u[k] = s[k]
    \/ \E i \in 1..Len(t) : u[k] = t[i]

LEMMA ConcatPieces ==
  ASSUME NEW s \in Seq(Nat), NEW t \in Seq(Nat)
  PROVE  Pieces(s \o t, s, t)
  <1> DEFINE u == s \o t
  <1> SUFFICES ASSUME NEW k \in 1..Len(u)
               PROVE  \/ k \in 1..Len(s) /\ u[k] = s[k]
                      \/ \E i \in 1..Len(t) : u[k] = t[i]
    BY DEF Pieces
  <1>1. CASE k <= Len(s)
    BY <1>1
  <1>2. CASE k > Len(s)
    <2>1. k - Len(s) \in 1..Len(t) /\ u[k] = t[k - Len(s)]
      BY <1>2
    <2> QED
      BY <2>1
  <1> QED
    BY <1>1, <1>2

(* it is increasing if both are and all of s is below t. *)
LEMMA ConcatIncreasing ==
  ASSUME NEW s \in Seq(Nat), NEW t \in Seq(Nat),
         Increasing(s), Increasing(t), AllLess(s, t)
  PROVE  Increasing(s \o t)
  <1> DEFINE u == s \o t
  <1>1. /\ Len(u) = Len(s) + Len(t) /\ Len(s) \in Nat /\ Len(t) \in Nat
        /\ \A k \in 1..Len(s) : u[k] = s[k]
        /\ \A k \in Len(s) + 1..Len(s) + Len(t) : k - Len(s) \in 1..Len(t) /\ u[k] = t[k - Len(s)]
    BY ConcatElements
  <1> HIDE DEF u
  <1>2. ASSUME NEW i \in 1..Len(u), NEW j \in 1..Len(u), i < j PROVE u[i] < u[j]
    <2>1. CASE j <= Len(s)
      <3>1. i \in 1..Len(s) /\ j \in 1..Len(s)
        BY <1>1, <1>2, <2>1
      <3> QED
        BY <1>1, <1>2, <3>1 DEF Increasing
    <2>2. CASE i <= Len(s) /\ j > Len(s)
      <3>1. i \in 1..Len(s) /\ j \in Len(s) + 1..Len(s) + Len(t)
        BY <1>1, <1>2, <2>2
      <3>2. j - Len(s) \in 1..Len(t) /\ u[i] = s[i] /\ u[j] = t[j - Len(s)]
        BY <1>1, <3>1
      <3> QED
        BY Zenon, <3>1, <3>2 DEF AllLess
    <2>3. CASE i > Len(s)
      <3>1. i \in Len(s) + 1..Len(s) + Len(t) /\ j \in Len(s) + 1..Len(s) + Len(t)
        BY <1>1, <1>2, <2>3
      <3>2. /\ i - Len(s) \in 1..Len(t) /\ u[i] = t[i - Len(s)]
            /\ j - Len(s) \in 1..Len(t) /\ u[j] = t[j - Len(s)]
        BY <1>1, <3>1
      <3>3. i - Len(s) < j - Len(s)
        BY <1>1, <1>2, <3>1
      <3> QED
        BY Zenon, <3>2, <3>3 DEF Increasing
    <2> QED
      BY <1>1, <1>2, <2>1, <2>2, <2>3
  <1> QED
    BY <1>2 DEF Increasing, u

(* What is joined is made of the elements of its parts, *)
LEMMA JoinedFrom ==
  ASSUME NEW ss \in Seq(Seq(Nat))
  PROVE  /\ Joined(ss) \in Seq(Nat)
         /\ \A k \in 1..Len(Joined(ss)) :
              \E n \in 1..Len(ss) : \E i \in 1..Len(ss[n]) : Joined(ss)[k] = ss[n][i]
  <1>1. PICK f : Joins(f, ss) /\ Joined(ss) = f[Len(ss)]
    BY JoinedJoins
  <1> DEFINE From(m) == \A k \in 1..Len(f[m]) :
               \E n \in 1..m : \E i \in 1..Len(ss[n]) : f[m][k] = ss[n][i]
             E == {m \in Nat : m <= Len(ss) => From(m)}
  <1>2. From(0)
    BY <1>1 DEF Joins
  <1>3. ASSUME NEW m \in Nat, m + 1 <= Len(ss), From(m) PROVE From(m + 1)
    <2>1. /\ m \in 0..Len(ss) /\ m + 1 \in 1..Len(ss) /\ m + 1 \in 1..m + 1
          /\ (m + 1) - 1 = m /\ \A n \in 1..m : n \in 1..m + 1
      BY <1>3
    <2>2. f[m] \in Seq(Nat) /\ ss[m + 1] \in Seq(Nat) /\ f[m + 1] = f[m] \o ss[m + 1]
      <3>1. f[m] \in Seq(Nat)
        BY Zenon, <1>1, <2>1 DEF Joins
      <3>2. ss[m + 1] \in Seq(Nat)
        BY <2>1
      <3>3. f[m + 1] = f[(m + 1) - 1] \o ss[m + 1]
        BY Zenon, <1>1, <2>1 DEF Joins
      <3> QED
        BY Zenon, <2>1, <3>1, <3>2, <3>3
    <2>3. SUFFICES ASSUME NEW k \in 1..Len(f[m + 1])
                   PROVE  \E n \in 1..m + 1 : \E i \in 1..Len(ss[n]) : f[m + 1][k] = ss[n][i]
      BY Zenon
    <2>4. \/ k \in 1..Len(f[m]) /\ f[m + 1][k] = f[m][k]
          \/ \E i \in 1..Len(ss[m + 1]) : f[m + 1][k] = ss[m + 1][i]
      <3>1. Pieces(f[m + 1], f[m], ss[m + 1])
        BY <2>2, ConcatPieces
      <3> QED
        BY Zenon, <3>1 DEF Pieces
    <2> QED
      BY Zenon, <1>3, <2>1, <2>4
  <1> HIDE DEF From
  <1>4. 0 \in E /\ \A m \in E : m + 1 \in E
    BY <1>2, <1>3
  <1>5. E \in SUBSET Nat
    OBVIOUS
  <1>6. E = Nat
    <2> HIDE DEF E
    <2> QED
      BY Zenon, <1>4, <1>5, Induction
  <1>7. Len(ss) \in Nat /\ Len(ss) \in 0..Len(ss)
    OBVIOUS
  <1>8. From(Len(ss))
    BY <1>6, <1>7
  <1>9. f[Len(ss)] \in Seq(Nat)
    BY Zenon, <1>1, <1>7 DEF Joins
  <1> QED
    BY Zenon, <1>1, <1>8, <1>9 DEF From

(* and increasing if they are and lie one above the other. *)
LEMMA JoinedIncreasing ==
  ASSUME NEW ss \in Seq(Seq(Nat)), \A n \in 1..Len(ss) : Increasing(ss[n]),
         \A m, n \in 1..Len(ss) : m < n => AllLess(ss[m], ss[n])
  PROVE  Increasing(Joined(ss))
  <1>1. PICK f : Joins(f, ss) /\ Joined(ss) = f[Len(ss)]
    BY JoinedJoins
  <1> DEFINE E == {m \in Nat : m <= Len(ss) =>
                     /\ Increasing(f[m])
                     /\ \A n \in 1..Len(ss) : m < n => AllLess(f[m], ss[n])}
  <1>2. Increasing(f[0]) /\ \A n \in 1..Len(ss) : AllLess(f[0], ss[n])
    BY <1>1 DEF Joins, Increasing, AllLess
  <1>3. ASSUME NEW m \in Nat, m + 1 <= Len(ss), Increasing(f[m]),
               \A n \in 1..Len(ss) : m < n => AllLess(f[m], ss[n])
        PROVE  Increasing(f[m + 1]) /\ \A n \in 1..Len(ss) : m + 1 < n => AllLess(f[m + 1], ss[n])
    <2>1. m \in 0..Len(ss) /\ m + 1 \in 1..Len(ss) /\ m < m + 1 /\ (m + 1) - 1 = m
      BY <1>3
    <2>2. f[m] \in Seq(Nat) /\ ss[m + 1] \in Seq(Nat) /\ f[m + 1] = f[m] \o ss[m + 1]
      <3>1. f[m] \in Seq(Nat)
        BY Zenon, <1>1, <2>1 DEF Joins
      <3>2. ss[m + 1] \in Seq(Nat)
        BY <2>1
      <3>3. f[m + 1] = f[(m + 1) - 1] \o ss[m + 1]
        BY Zenon, <1>1, <2>1 DEF Joins
      <3> QED
        BY Zenon, <2>1, <3>1, <3>2, <3>3
    <2>3. Increasing(f[m + 1])
      BY Zenon, <1>3, <2>1, <2>2, ConcatIncreasing
    <2>4. ASSUME NEW n \in 1..Len(ss), m + 1 < n PROVE AllLess(f[m + 1], ss[n])
      <3>1. AllLess(f[m], ss[n]) /\ AllLess(ss[m + 1], ss[n])
        BY <1>3, <2>1, <2>4
      <3>2. ASSUME NEW i \in 1..Len(f[m + 1]), NEW j \in 1..Len(ss[n])
            PROVE  f[m + 1][i] < ss[n][j]
        <4>1. \/ i \in 1..Len(f[m]) /\ f[m + 1][i] = f[m][i]
              \/ \E k \in 1..Len(ss[m + 1]) : f[m + 1][i] = ss[m + 1][k]
          <5>1. Pieces(f[m + 1], f[m], ss[m + 1])
            BY <2>2, ConcatPieces
          <5> QED
            BY Zenon, <5>1 DEF Pieces
        <4> QED
          BY Zenon, <3>1, <4>1 DEF AllLess
      <3> QED
        BY <3>2 DEF AllLess
    <2> QED
      BY <2>3, <2>4
  <1>4. 0 \in E /\ \A m \in E : m + 1 \in E
    BY <1>2, <1>3
  <1>5. E \in SUBSET Nat
    OBVIOUS
  <1>6. E = Nat
    <2> HIDE DEF E
    <2> QED
      BY Zenon, <1>4, <1>5, Induction
  <1>7. Len(ss) \in Nat
    OBVIOUS
  <1> QED
    BY <1>1, <1>6, <1>7

--------------------------------------------------------------------------------
Kept(s, S, n, x) == IF s[n] \in S THEN Append(x, s[n]) ELSE x

(* f holds what is kept of the initial parts of s. *)
Keeps(f, s, S) ==
  /\ f \in [0..Len(s) -> Seq(Nat)] /\ f[0] = <<>>
  /\ \A n \in 1..Len(s) : f[n] = Kept(s, S, n, f[n - 1])

(* Among is the last of them. *)
LEMMA AmongKeeps ==
  ASSUME NEW S, NEW s \in Seq(Nat)
  PROVE  \E f : Keeps(f, s, S) /\ Among(s, S) = f[Len(s)]
  <1> DEFINE N == Len(s)
             h == [x \in (1..N) \X Seq(Nat) |-> Kept(s, S, x[1], x[2])]
             up == CHOOSE g : g = [n \in 0..N |->
                     IF n = 0 THEN <<>>
                     ELSE IF s[n] \in S THEN Append(g[n - 1], s[n]) ELSE g[n - 1]]
  <1>1. N \in Nat /\ <<>> \in Seq(Nat)
    OBVIOUS
  <1>2. h \in [(1..N) \X Seq(Nat) -> Seq(Nat)]
    <2>1. ASSUME NEW n \in 1..N, NEW x \in Seq(Nat) PROVE Kept(s, S, n, x) \in Seq(Nat)
      BY DEF Kept
    <2> HIDE DEF N
    <2> QED
      BY Zenon, <2>1
  <1>3. PICK f : IsRun(f, N, Seq(Nat), <<>>, h)
    <2> HIDE DEF h, N
    <2> QED
      BY Zenon, <1>1, <1>2, Recursion
  <1>4. Keeps(f, s, S)
    <2>1. f \in [0..N -> Seq(Nat)] /\ f[0] = <<>> /\ \A n \in 1..N : f[n] = h[<<n, f[n - 1]>>]
      BY Zenon, <1>3 DEF IsRun
    <2>2. ASSUME NEW n \in 1..N PROVE f[n - 1] \in Seq(Nat)
      <3>1. n - 1 \in 0..N
        BY <1>1
      <3> QED
        BY Zenon, <2>1, <3>1
    <2>3. ASSUME NEW n \in 1..N, NEW x \in Seq(Nat) PROVE h[<<n, x>>] = Kept(s, S, n, x)
      BY Zenon
    <2> HIDE DEF h
    <2> QED
      BY Zenon, <2>1, <2>2, <2>3 DEF Keeps
  <1>5. f = [n \in 0..N |-> IF n = 0 THEN <<>>
                            ELSE IF s[n] \in S THEN Append(f[n - 1], s[n]) ELSE f[n - 1]]
    <2>1. \A n \in 0..N : n = 0 \/ n \in 1..N
      BY <1>1
    <2>2. f = [n \in 0..N |-> f[n]]
      BY Zenon, <1>4 DEF Keeps
    <2>3. ASSUME NEW n \in 0..N
          PROVE  f[n] = IF n = 0 THEN <<>>
                        ELSE IF s[n] \in S THEN Append(f[n - 1], s[n]) ELSE f[n - 1]
      BY Zenon, <1>4, <2>1 DEF Keeps, Kept
    <2> HIDE DEF N
    <2> QED
      BY Zenon, <2>2, <2>3
  <1>6. up = [n \in 0..N |-> IF n = 0 THEN <<>>
                             ELSE IF s[n] \in S THEN Append(up[n - 1], s[n]) ELSE up[n - 1]]
    BY Zenon, <1>5
  <1>7. Among(s, S) = up[N]
    BY DEF Among
  <1> HIDE DEF up
  <1> DEFINE E == {m \in Nat : m <= N => up[m] = f[m]}
  <1>8. 0 \in E
    BY <1>1, <1>4, <1>6 DEF Keeps
  <1>9. ASSUME NEW m \in E PROVE m + 1 \in E
    <2>1. SUFFICES ASSUME m + 1 <= N PROVE up[m + 1] = f[m + 1]
      OBVIOUS
    <2>2. m \in Nat /\ (m <= N => up[m] = f[m])
      BY Zenon
    <2> HIDE DEF N, E
    <2>3. up[m] = f[m] /\ m + 1 \in 1..N /\ m + 1 \in 0..N /\ m + 1 # 0 /\ (m + 1) - 1 = m
      BY <1>1, <2>1, <2>2
    <2>4. f[m + 1] = Kept(s, S, m + 1, f[(m + 1) - 1])
      BY Zenon, <1>4, <2>3 DEF Keeps, N
    <2>5. up[m + 1] = Kept(s, S, m + 1, up[(m + 1) - 1])
      BY Zenon, <1>6, <2>3 DEF Kept
    <2> QED
      BY Zenon, <2>3, <2>4, <2>5
  <1>10. E \in SUBSET Nat
    OBVIOUS
  <1>11. E = Nat
    <2> HIDE DEF E
    <2> QED
      BY Zenon, <1>8, <1>9, <1>10, Induction
  <1>12. up[N] = f[N]
    BY <1>1, <1>11
  <1> QED
    BY Zenon, <1>4, <1>7, <1>12

(* It is made of elements of s that are in S, and increasing if s is. *)
LEMMA AmongFrom ==
  ASSUME NEW S, NEW s \in Seq(Nat)
  PROVE  /\ Among(s, S) \in Seq(Nat)
         /\ \A k \in 1..Len(Among(s, S)) :
              \E n \in 1..Len(s) : s[n] \in S /\ Among(s, S)[k] = s[n]
         /\ Increasing(s) => Increasing(Among(s, S))
  <1>1. PICK f : Keeps(f, s, S) /\ Among(s, S) = f[Len(s)]
    BY AmongKeeps
  <1> DEFINE From(m) == \A k \in 1..Len(f[m]) : \E n \in 1..m : s[n] \in S /\ f[m][k] = s[n]
             Up(m) == Increasing(s) => Increasing(f[m])
             E == {m \in Nat : m <= Len(s) => From(m) /\ Up(m)}
  <1>2. From(0) /\ Up(0)
    BY <1>1 DEF Keeps, Increasing
  <1>3. ASSUME NEW m \in Nat, m + 1 <= Len(s), From(m), Up(m) PROVE From(m + 1) /\ Up(m + 1)
    <2>1. /\ m \in 0..Len(s) /\ m + 1 \in 1..Len(s) /\ m + 1 \in 1..m + 1
          /\ (m + 1) - 1 = m /\ \A n \in 1..m : n \in 1..m + 1 /\ n \in 1..Len(s) /\ n < m + 1
      BY <1>3
    <2>2. f[m] \in Seq(Nat) /\ s[m + 1] \in Nat
      <3>1. f[m] \in Seq(Nat)
        BY Zenon, <1>1, <2>1 DEF Keeps
      <3>2. s[m + 1] \in Nat
        BY <2>1
      <3> QED
        BY <3>1, <3>2
    <2>3. f[m + 1] = Kept(s, S, m + 1, f[m])
      <3>1. f[m + 1] = Kept(s, S, m + 1, f[(m + 1) - 1])
        BY Zenon, <1>1, <2>1 DEF Keeps
      <3> QED
        BY Zenon, <2>1, <3>1
    <2>4. CASE s[m + 1] \notin S
      <3>1. f[m + 1] = f[m]
        BY Zenon, <2>3, <2>4 DEF Kept
      <3> QED
        BY Zenon, <1>3, <2>1, <3>1
    <2>5. CASE s[m + 1] \in S
      <3> DEFINE t == <<s[m + 1]>>
      <3>1. f[m + 1] = f[m] \o t
        BY <2>2, <2>3, <2>5 DEF Kept
      <3>2. t \in Seq(Nat) /\ Len(t) = 1 /\ t[1] = s[m + 1]
        BY <2>2
      <3> HIDE DEF t
      <3>3. Pieces(f[m + 1], f[m], t)
        BY <2>2, <3>1, <3>2, ConcatPieces
      <3>4. From(m + 1)
        <4>1. \A k \in 1..Len(f[m + 1]) :
                (k \in 1..Len(f[m]) /\ f[m + 1][k] = f[m][k]) \/ f[m + 1][k] = s[m + 1]
          BY <3>2, <3>3 DEF Pieces
        <4> QED
          BY Zenon, <1>3, <2>1, <2>5, <4>1
      <3>5. ASSUME Increasing(s) PROVE Increasing(f[m + 1])
        <4>1. Increasing(f[m]) /\ Increasing(t)
          BY <1>3, <3>2, <3>5 DEF Increasing
        <4>2. AllLess(f[m], t)
          <5>1. ASSUME NEW i \in 1..Len(f[m]) PROVE f[m][i] < s[m + 1]
            BY Zenon, <1>3, <2>1, <3>5 DEF Increasing
          <5>2. \A j \in 1..Len(t) : t[j] = s[m + 1]
            BY <3>2
          <5> QED
            BY Zenon, <5>1, <5>2 DEF AllLess
        <4> QED
          BY <2>2, <3>1, <3>2, <4>1, <4>2, ConcatIncreasing
      <3> QED
        BY <3>4, <3>5
    <2> QED
      BY <2>4, <2>5
  <1> HIDE DEF From, Up
  <1>4. 0 \in E /\ \A m \in E : m + 1 \in E
    BY <1>2, <1>3
  <1>5. E \in SUBSET Nat
    OBVIOUS
  <1>6. E = Nat
    <2> HIDE DEF E
    <2> QED
      BY Zenon, <1>4, <1>5, Induction
  <1>7. Len(s) \in Nat /\ Len(s) \in 0..Len(s)
    OBVIOUS
  <1>8. From(Len(s)) /\ Up(Len(s))
    BY <1>6, <1>7
  <1>9. f[Len(s)] \in Seq(Nat)
    BY Zenon, <1>1, <1>7 DEF Keeps
  <1> QED
    BY Zenon, <1>1, <1>8, <1>9 DEF From, Up

(* None of those is left out. *)
LEMMA AmongAll ==
  ASSUME NEW S, NEW s \in Seq(Nat), NEW n \in 1..Len(s), s[n] \in S
  PROVE  \E k \in 1..Len(Among(s, S)) : Among(s, S)[k] = s[n]
  <1>1. PICK f : Keeps(f, s, S) /\ Among(s, S) = f[Len(s)]
    BY AmongKeeps
  <1> DEFINE Has(m) == \E k \in 1..Len(f[m]) : f[m][k] = s[n]
             E == {m \in Nat : m <= Len(s) /\ n <= m => Has(m)}
  <1>2. 0 \in E
    OBVIOUS
  <1>3. ASSUME NEW m \in Nat, m + 1 <= Len(s), n <= m => Has(m), n <= m + 1 PROVE Has(m + 1)
    <2>1. /\ m \in 0..Len(s) /\ m + 1 \in 1..Len(s) /\ (m + 1) - 1 = m
          /\ n <= m \/ n = m + 1
      <3> HIDE DEF Has, E
      <3>1. Len(s) \in Nat /\ n \in Nat /\ m + 1 <= Len(s) /\ n <= m + 1
        BY <1>3
      <3> QED
        BY ONLY <3>1, m \in Nat
    <2>2. f[m] \in Seq(Nat) /\ f[m + 1] = Kept(s, S, m + 1, f[(m + 1) - 1])
      BY Zenon, <1>1, <2>1 DEF Keeps
    <2>4. CASE n = m + 1
      <3>1. f[m + 1] = Append(f[m], s[n])
        BY Zenon, <2>1, <2>2, <2>4 DEF Kept
      <3>2. Len(f[m + 1]) \in 1..Len(f[m + 1]) /\ f[m + 1][Len(f[m + 1])] = s[n]
        BY <2>2, <3>1
      <3> QED
        BY Zenon, <3>2
    <2>5. CASE n <= m
      <3>1. PICK k \in 1..Len(f[m]) : f[m][k] = s[n]
        BY <1>3, <2>5
      <3>2. s[m + 1] \in Nat
        BY <2>1
      <3>3. k \in 1..Len(f[m + 1]) /\ f[m + 1][k] = f[m][k]
        BY <2>1, <2>2, <3>1, <3>2 DEF Kept
      <3> QED
        BY Zenon, <3>1, <3>3
    <2> QED
      BY <2>1, <2>4, <2>5
  <1> HIDE DEF Has
  <1>4. \A m \in E : m + 1 \in E
    BY <1>3
  <1>5. E \in SUBSET Nat
    OBVIOUS
  <1>6. E = Nat
    <2> HIDE DEF E
    <2> QED
      BY Zenon, <1>2, <1>4, <1>5, Induction
  <1>7. Len(s) \in Nat /\ n <= Len(s)
    OBVIOUS
  <1>8. Has(Len(s))
    BY <1>6, <1>7
  <1> QED
    BY Zenon, <1>1, <1>8 DEF Has

-------------------------------------------------------------------------------
(* Induction over a tree of bounded height: a set that has a node whenever  *)
(* it has all lower ones has every node.                                    *)
LEMMA TreeInduction ==
  ASSUME NEW N, NEW K \in Nat, NEW height \in [N -> 0..K], NEW P \in SUBSET N,
         \A n \in N : (\A m \in N : height[m] < height[n] => m \in P) => n \in P
  PROVE  P = N
  <1> DEFINE S == {d \in Nat : \A n \in N : height[n] < d => n \in P}
  <1>1. 0 \in S
    OBVIOUS
  <1>2. ASSUME NEW d \in S PROVE d + 1 \in S
    <2>1. ASSUME NEW n \in N, height[n] < d + 1 PROVE n \in P
      <3>1. \A m \in N : height[m] < height[n] => height[m] < d
        BY <2>1
      <3> QED
        BY <3>1
    <2> QED
      BY <2>1
  <1>3. S = Nat
    <2>1. S \in SUBSET Nat
      OBVIOUS
    <2> HIDE DEF S
    <2> QED
      BY Zenon, <1>1, <1>2, <2>1, Induction
  <1>4. K + 1 \in S
    BY <1>3
  <1>5. \A n \in N : height[n] < K + 1
    OBVIOUS
  <1> QED
    BY <1>4, <1>5

(* What h makes of a node depends on the values of lower nodes only. *)
LooksDown(h, N, T, height) ==
  \A n \in N : \A f, g \in [N -> T] :
    (\A m \in N : height[m] < height[n] => f[m] = g[m]) => h[<<n, f>>] = h[<<n, g>>]

Solution(f, h, N, T) == f \in [N -> T] /\ \A n \in N : f[n] = h[<<n, f>>]

(* Recursion over a tree: where h asks for the values of lower nodes only,  *)
(* there is a function with h as its recursive equation.                    *)
LEMMA TreeRecursion ==
  ASSUME NEW N, NEW T, NEW any \in T, NEW K \in Nat, NEW height \in [N -> 0..K],
         NEW h \in [N \X [N -> T] -> T], LooksDown(h, N, T, height)
  PROVE  \E f : Solution(f, h, N, T)
  <1> DEFINE Solves(f, d) == \A n \in N : height[n] < d => f[n] = h[<<n, f>>]
             S == {d \in Nat : \E f \in [N -> T] : Solves(f, d)}
  <1>0. \A n \in N : height[n] \in Nat
    OBVIOUS
  <1>1. 0 \in S
    <2>1. [n \in N |-> any] \in [N -> T] /\ Solves([n \in N |-> any], 0)
      OBVIOUS
    <2> HIDE DEF Solves
    <2> QED
      BY <2>1
  <1>2. ASSUME NEW d \in Nat, NEW f \in [N -> T], Solves(f, d)
        PROVE  \E g \in [N -> T] : Solves(g, d + 1)
    <2> DEFINE g == [n \in N |-> IF height[n] = d THEN h[<<n, f>>] ELSE f[n]]
    <2>2. ASSUME NEW n \in N PROVE h[<<n, f>>] \in T
      OBVIOUS
    <2>3. g \in [N -> T]
      BY Zenon, <2>2
    <2>4. ASSUME NEW n \in N, height[n] < d + 1 PROVE g[n] = h[<<n, g>>]
      <3>1. ASSUME NEW m \in N, height[m] < height[n] PROVE height[m] # d
        <4>1. height[m] \in Nat /\ height[n] \in Nat
          BY Zenon, <1>0
        <4> QED
          BY ONLY <2>4, <3>1, <4>1
      <3>2. \A m \in N : height[m] < height[n] => f[m] = g[m]
        BY Zenon, <3>1
      <3> HIDE DEF g
      <3>3. h[<<n, f>>] = h[<<n, g>>]
        BY Zenon, <2>3, <3>2 DEF LooksDown
      <3>4. height[n] < d \/ height[n] = d
        <4>1. height[n] \in Nat
          BY Zenon, <1>0
        <4> QED
          BY ONLY <2>4, <4>1
      <3>5. g[n] = h[<<n, f>>]
        BY Zenon, <1>2, <3>4 DEF g
      <3> QED
        BY Zenon, <3>3, <3>5
    <2> HIDE DEF g
    <2>5. Solves(g, d + 1)
      BY Zenon, <2>4
    <2> HIDE DEF Solves
    <2> QED
      BY Zenon, <2>3, <2>5
  <1>3. S = Nat
    <2> HIDE DEF Solves
    <2>1. S \in SUBSET Nat /\ \A d \in S : d + 1 \in S
      BY <1>2
    <2> HIDE DEF S
    <2> QED
      BY Zenon, <1>1, <2>1, Induction
  <1>4. K + 1 \in S
    <2> HIDE DEF S
    <2> QED
      BY <1>3
  <1>5. PICK f \in [N -> T] : Solves(f, K + 1)
    BY Zenon, <1>4
  <1>6. \A n \in N : height[n] < K + 1
    OBVIOUS
  <1> QED
    BY Zenon, <1>5, <1>6 DEF Solution

-------------------------------------------------------------------------------
(* The elements of s are elements of t. *)
Within(s, t) == \A i \in 1..Len(s) : \E j \in 1..Len(t) : s[i] = t[j]

LEMMA WithinBelow ==
  ASSUME NEW s, NEW t, NEW u, NEW v, Within(s, u), Within(t, v), AllLess(u, v)
  PROVE  AllLess(s, t)
  BY Zenon DEF Within, AllLess

LEMMA WithinTwice ==
  ASSUME NEW s, NEW t, NEW u, Within(s, t), Within(t, u)
  PROVE  Within(s, u)
  BY Zenon DEF Within

LEMMA WithinSame ==
  ASSUME NEW s PROVE Within(s, s)
  BY Zenon DEF Within

LEMMA WithinEmpty ==
  ASSUME NEW s PROVE Within(<<>>, s)
  BY DEF Within

Els(s) == {s[n] : n \in 1..Len(s)}

(* With b[e] the packets of e: those of A come before those of B, and those *)
(* of each event of s before those of the next.                             *)
AllBelow(b, A, B) == \A e \in A, f \in B : AllLess(b[e], b[f])
Sorted(b, s) == \A i, j \in 1..Len(s) : i < j => AllLess(b[s[i]], b[s[j]])

(* The way to a destination, W being written, C collected, Q queued, P      *)
(* pushed, T in the hub's channel and R read, is in order.                  *)
Lined(b, W, C, Q, P, T, R) ==
  /\ Sorted(b, C) /\ Sorted(b, Q) /\ Sorted(b, T)
  /\ AllBelow(b, Els(C), Els(Q) \cup P \cup Els(T) \cup R)
  /\ AllBelow(b, Els(Q), P \cup Els(T) \cup R)
  /\ AllBelow(b, P, Els(T) \cup R)
  /\ AllBelow(b, Els(T), R)
  /\ \A e \in Els(C) \cup Els(Q) \cup P \cup Els(T) \cup R : AllLess(W, b[e])

(* It stays so when events lose packets, or are dropped before the push; *)
LEMMA LinedShrinks ==
  ASSUME NEW b, NEW c, NEW W, NEW C, NEW Q, NEW P, NEW T, NEW R, NEW O \in SUBSET P,
         Lined(b, W, C, Q, P, T, R),
         \A e \in Els(C) \cup Els(Q) \cup O \cup Els(T) \cup R : Within(c[e], b[e])
  PROVE  Lined(c, W, C, Q, O, T, R)
  <1> DEFINE U == Els(C) \cup Els(Q) \cup O \cup Els(T) \cup R
  <1>1. ASSUME NEW e \in U, NEW f \in U, AllLess(b[e], b[f]) PROVE AllLess(c[e], c[f])
    BY Zenon, <1>1, WithinBelow
  <1>2. ASSUME NEW e \in U PROVE AllLess(W, c[e])
    <2>1. AllLess(W, b[e])
      BY DEF Lined
    <2> QED
      BY Zenon, <2>1, WithinSame, WithinBelow
  <1>3. ASSUME NEW s, Els(s) \subseteq U, Sorted(b, s) PROVE Sorted(c, s)
    <2>1. \A i \in 1..Len(s) : s[i] \in U
      BY <1>3 DEF Els
    <2> HIDE DEF U
    <2> QED
      BY Zenon, <1>1, <1>3, <2>1 DEF Sorted
  <1>4. ASSUME NEW A \in SUBSET U, NEW B \in SUBSET U, AllBelow(b, A, B) PROVE AllBelow(c, A, B)
    <2> HIDE DEF U
    <2> QED
      BY Zenon, <1>1, <1>4 DEF AllBelow
  <1>5. Sorted(c, C) /\ Sorted(c, Q) /\ Sorted(c, T)
    BY <1>3 DEF Lined
  <1>6. AllBelow(c, Els(C), Els(Q) \cup O \cup Els(T) \cup R)
    <2>1. AllBelow(b, Els(C), Els(Q) \cup O \cup Els(T) \cup R)
      BY DEF Lined, AllBelow
    <2> QED
      BY <1>4, <2>1
  <1>7. AllBelow(c, Els(Q), O \cup Els(T) \cup R)
    <2>1. AllBelow(b, Els(Q), O \cup Els(T) \cup R)
      BY DEF Lined, AllBelow
    <2> QED
      BY <1>4, <2>1
  <1>8. AllBelow(c, O, Els(T) \cup R)
    <2>1. AllBelow(b, O, Els(T) \cup R)
      BY DEF Lined, AllBelow
    <2> QED
      BY <1>4, <2>1
  <1>9. AllBelow(c, Els(T), R)
    BY <1>4 DEF Lined
  <1> QED
    BY <1>2, <1>5, <1>6, <1>7, <1>8, <1>9 DEF Lined

(* An event that comes after those of s. *)
LEMMA SortedAppend ==
  ASSUME NEW S, NEW s \in Seq(S), NEW x \in S, NEW b, Sorted(b, s), AllBelow(b, Els(s), {x})
  PROVE  Sorted(b, Append(s, x)) /\ Els(Append(s, x)) = Els(s) \cup {x}
  <1> DEFINE t == Append(s, x)
  <1>1. /\ Len(t) = Len(s) + 1 /\ Len(s) \in Nat
        /\ \A i \in 1..Len(s) : t[i] = s[i]
        /\ t[Len(s) + 1] = x
    OBVIOUS
  <1> HIDE DEF t
  <1>2. ASSUME NEW i \in 1..Len(t), NEW j \in 1..Len(t), i < j PROVE AllLess(b[t[i]], b[t[j]])
    <2>1. i \in 1..Len(s) /\ t[i] = s[i] /\ s[i] \in Els(s)
      BY <1>1, <1>2 DEF Els
    <2>2. CASE j \in 1..Len(s)
      BY <1>1, <1>2, <2>1, <2>2 DEF Sorted
    <2>3. CASE j = Len(s) + 1
      BY <1>1, <2>1, <2>3 DEF AllBelow
    <2> QED
      BY <1>1, <2>2, <2>3
  <1>3. Els(t) = Els(s) \cup {x}
    <2>1. \A i \in 1..Len(t) : i \in 1..Len(s) \/ i = Len(s) + 1
      BY <1>1
    <2>2. \A i \in 1..Len(s) : i \in 1..Len(t)
      BY <1>1
    <2>3. Len(s) + 1 \in 1..Len(t)
      BY <1>1
    <2> QED
      BY Zenon, <1>1, <2>1, <2>2, <2>3 DEF Els
  <1> QED
    BY <1>2, <1>3 DEF t, Sorted

(* when the event read comes to the hub's channel, *)
LEMMA LinedEnqueue ==
  ASSUME NEW S, NEW b, NEW W, NEW C, NEW Q, NEW P, NEW T \in Seq(S), NEW r \in S,
         Lined(b, W, C, Q, P, T, {r})
  PROVE  Lined(b, W, C, Q, P, Append(T, r), {})
  <1>1. AllBelow(b, Els(T), {r}) /\ Sorted(b, T)
    BY DEF Lined
  <1>2. Sorted(b, Append(T, r)) /\ Els(Append(T, r)) = Els(T) \cup {r}
    BY <1>1, SortedAppend
  <1> QED
    BY <1>2 DEF Lined, AllBelow

(* the event pushed to the queue, *)
LEMMA LinedPush ==
  ASSUME NEW S, NEW b, NEW W, NEW C, NEW Q \in Seq(S), NEW T, NEW R, NEW e \in S,
         Lined(b, W, C, Q, {e}, T, R)
  PROVE  Lined(b, W, C, Append(Q, e), {}, T, R)
  <1>1. AllBelow(b, Els(Q), {e}) /\ Sorted(b, Q)
    BY DEF Lined, AllBelow
  <1>2. Sorted(b, Append(Q, e)) /\ Els(Append(Q, e)) = Els(Q) \cup {e}
    BY SMTT(30), <1>1, SortedAppend
  <1> QED
    BY <1>2 DEF Lined, AllBelow

(* the first n of the queue to the write, *)
LEMMA LinedCollect ==
  ASSUME NEW S, NEW b, NEW W, NEW Q \in Seq(S), NEW P, NEW T, NEW R, NEW n \in 1..Len(Q),
         Lined(b, W, <<>>, Q, P, T, R)
  PROVE  Lined(b, W, SubSeq(Q, 1, n), SubSeq(Q, n + 1, Len(Q)), P, T, R)
  <1> DEFINE u == SubSeq(Q, 1, n)
             v == SubSeq(Q, n + 1, Len(Q))
  <1>1. Len(Q) \in Nat /\ n \in Nat
    OBVIOUS
  <1>2. Len(u) = n /\ \A i \in 1..n : u[i] = Q[i] /\ i \in 1..Len(Q)
    BY <1>1
  <1>3. /\ Len(v) = Len(Q) - n
        /\ \A i \in 1..Len(Q) - n : v[i] = Q[i + n] /\ i + n \in 1..Len(Q) /\ n < i + n
    BY <1>1
  <1> HIDE DEF u, v
  <1>4. Els(u) \subseteq Els(Q) /\ Els(v) \subseteq Els(Q)
    <2>1. \A i \in 1..Len(u) : u[i] \in Els(Q)
      BY Zenon, <1>2 DEF Els
    <2>2. \A i \in 1..Len(v) : v[i] \in Els(Q)
      BY Zenon, <1>3 DEF Els
    <2> QED
      BY <2>1, <2>2 DEF Els
  <1>5. Sorted(b, Q)
    BY DEF Lined
  <1>6. Sorted(b, u)
    BY Zenon, <1>2, <1>5 DEF Sorted
  <1>7. Sorted(b, v)
    <2>1. ASSUME NEW i \in 1..Len(v), NEW j \in 1..Len(v), i < j PROVE i + n < j + n
      BY <1>1, <1>3, <2>1
    <2> QED
      BY Zenon, <1>3, <1>5, <2>1 DEF Sorted
  <1>8. AllBelow(b, Els(u), Els(v))
    <2>1. ASSUME NEW i \in 1..n, NEW j \in 1..Len(Q) - n PROVE AllLess(b[u[i]], b[v[j]])
      <3>1. i < j + n
        BY <1>1
      <3> QED
        BY Zenon, <1>2, <1>3, <1>5, <3>1 DEF Sorted
    <2> QED
      BY Zenon, <1>2, <1>3, <2>1 DEF AllBelow, Els
  <1> QED
    BY <1>4, <1>6, <1>7, <1>8 DEF Lined, AllBelow, u, v

(* and the first of the hub's channel, or packets of it, to the push.       *)
LEMMA LinedRoute ==
  ASSUME NEW S, NEW b, NEW c, NEW W, NEW C, NEW Q, NEW P, NEW T \in Seq(S), NEW R,
         T # <<>>, Lined(b, W, C, Q, {}, T, R),
         \A e \in Els(C) \cup Els(Q) \cup Els(Tail(T)) \cup R : Within(c[e], b[e]),
         \A e \in P : Within(c[e], b[Head(T)])
  PROVE  Lined(c, W, C, Q, P, Tail(T), R)
  <1> DEFINE t == Tail(T)
             U == Els(C) \cup Els(Q) \cup Els(t) \cup R
  <1>1. /\ Len(T) \in Nat \ {0} /\ Len(t) = Len(T) - 1 /\ Head(T) = T[1]
        /\ \A i \in 1..Len(t) : t[i] = T[i + 1] /\ i + 1 \in 1..Len(T) /\ 1 < i + 1
    OBVIOUS
  <1>2. 1 \in 1..Len(T) /\ \A i, j \in 1..Len(t) : i < j => i + 1 < j + 1
    BY <1>1
  <1>3. Sorted(b, T) /\ Head(T) \in Els(T)
    BY <1>1, <1>2 DEF Lined, Els
  <1> HIDE DEF t
  <1>4. Sorted(b, t) /\ Els(t) \subseteq Els(T) /\ AllBelow(b, {Head(T)}, Els(t))
    <2>1. Sorted(b, t)
      BY Zenon, <1>1, <1>2, <1>3 DEF Sorted
    <2>2. \A i \in 1..Len(t) : t[i] \in Els(T) /\ AllLess(b[T[1]], b[t[i]])
      BY Zenon, <1>1, <1>2, <1>3 DEF Sorted, Els
    <2>3. \A f \in Els(t) : f \in Els(T) /\ AllLess(b[T[1]], b[f])
      BY Zenon, <2>2 DEF Els
    <2> QED
      BY <1>1, <2>1, <2>3 DEF AllBelow
  <1>5. Lined(b, W, C, Q, {}, t, R)
    BY <1>4 DEF Lined, AllBelow
  <1>6. Lined(c, W, C, Q, {}, t, R)
    <2>1. \A e \in Els(C) \cup Els(Q) \cup {} \cup Els(t) \cup R : Within(c[e], b[e])
      BY DEF t
    <2>2. {} \in SUBSET {}
      OBVIOUS
    <2> QED
      BY Zenon, <1>5, <2>1, <2>2, LinedShrinks
  <1>7. ASSUME NEW e \in P
        PROVE  /\ \A f \in Els(C) \cup Els(Q) : AllLess(c[f], c[e])
               /\ \A f \in Els(t) \cup R : AllLess(c[e], c[f])
               /\ AllLess(W, c[e])
    <2>1. Within(c[e], b[Head(T)]) /\ \A f \in U : Within(c[f], b[f])
      BY DEF t
    <2>2. /\ \A f \in Els(C) \cup Els(Q) : AllLess(b[f], b[Head(T)])
          /\ AllLess(W, b[Head(T)])
          /\ \A f \in Els(t) \cup R : AllLess(b[Head(T)], b[f])
      BY <1>3, <1>4 DEF Lined, AllBelow
    <2> QED
      BY <2>1, <2>2, WithinSame, WithinBelow
  <1> QED
    BY <1>6, <1>7 DEF Lined, AllBelow, t

(* A new event joins at the end. *)
LEMMA LinedRead ==
  ASSUME NEW b, NEW c, NEW W, NEW C, NEW Q, NEW P, NEW T, NEW r,
         Lined(b, W, C, Q, P, T, {}),
         \A e \in Els(C) \cup Els(Q) \cup P \cup Els(T) : c[e] = b[e] /\ AllLess(b[e], c[r]),
         AllLess(W, c[r])
  PROVE  Lined(c, W, C, Q, P, T, {r})
  <1>1. Lined(c, W, C, Q, P, T, {})
    <2>1. \A e \in Els(C) \cup Els(Q) \cup P \cup Els(T) \cup {} : Within(c[e], b[e])
      BY WithinSame
    <2> QED
      BY Zenon, <2>1, LinedShrinks
  <1> QED
    BY <1>1 DEF Lined, AllBelow

(* The elements of w are packets of events of A. *)
Drawn(w, b, A) == \A k \in 1..Len(w) : \E e \in A : \E i \in 1..Len(b[e]) : w[k] = b[e][i]

LEMMA DrawnWithin ==
  ASSUME NEW b, NEW A, NEW v, NEW w, Drawn(v, b, A), Within(w, v)
  PROVE  Drawn(w, b, A)
  <1> SUFFICES ASSUME NEW k \in 1..Len(w)
               PROVE  \E e \in A : \E i \in 1..Len(b[e]) : w[k] = b[e][i]
    BY DEF Drawn
  <1>1. PICK j \in 1..Len(v) : w[k] = v[j]
    BY Zenon DEF Within
  <1>2. PICK e \in A : \E i \in 1..Len(b[e]) : v[j] = b[e][i]
    BY Zenon DEF Drawn
  <1> QED
    BY Zenon, <1>1, <1>2

(* What is written is packets of the events collected, in order. *)
LEMMA LinedWritten ==
  ASSUME NEW b, NEW W \in Seq(Nat), NEW C, NEW Q, NEW P, NEW T, NEW R, NEW w \in Seq(Nat),
         Lined(b, W, C, Q, P, T, R),
         Drawn(w, b, Els(C)), Increasing(W), Increasing(w)
  PROVE  Lined(b, W \o w, <<>>, Q, P, T, R) /\ Increasing(W \o w)
  <1>1. AllLess(W, w)
    <2>1. \A e \in Els(C) : AllLess(W, b[e])
      BY DEF Lined
    <2> QED
      BY Zenon, <2>1 DEF AllLess, Drawn
  <1>2. Increasing(W \o w)
    BY <1>1, ConcatIncreasing
  <1>3. ASSUME NEW e \in Els(Q) \cup P \cup Els(T) \cup R PROVE AllLess(W \o w, b[e])
    <2>1. AllLess(W, b[e])
      BY DEF Lined
    <2>2. AllLess(w, b[e])
      <3>1. \A f \in Els(C) : AllLess(b[f], b[e])
        BY DEF Lined, AllBelow
      <3> QED
        BY Zenon, <3>1 DEF AllLess, Drawn
    <2>3. Pieces(W \o w, W, w)
      BY ConcatPieces
    <2> QED
      BY Zenon, <2>1, <2>2, <2>3 DEF Pieces, AllLess
  <1>4. Els(<<>>) = {} /\ Sorted(b, <<>>)
    BY DEF Els, Sorted
  <1> QED
    BY <1>2, <1>3, <1>4 DEF Lined, AllBelow

===============================================================================
