-------------------------- MODULE UserVarsProofs --------------------------
(***************************************************************************)
(* The user variables, for every set of keys, every length of data and     *)
(* every size of the area.                                                 *)
(***************************************************************************)
EXTENDS UserVars, SequenceTheorems, WellFoundedInduction, TLAPS

(***************************************************************************)
(* Part 1: the loops over the records.                                     *)
(***************************************************************************)

(* Induction up to N, over a set instead of a predicate. *)
LEMMA CountUp ==
    ASSUME NEW N \in Nat, NEW G, 0 \in G,
           \A n \in 1 .. N : n - 1 \in G => n \in G
    PROVE  \A n \in 0 .. N : n \in G
<1> DEFINE T == {n \in 0 .. N : n \notin G}
<1> SUFFICES ASSUME T # {} PROVE FALSE
  OBVIOUS
<1>1. T \subseteq Nat
  OBVIOUS
<1>2. \E x \in T : \A y \in T : ~(<<y, x>> \in OpToRel(<, Nat))
  <2> HIDE DEF T
  <2> QED BY <1>1, WFMin, NatLessThanWellFounded, Zenon
<1>3. PICK x \in T : \A y \in T : ~(y < x)
  <2> HIDE DEF T
  <2> QED BY <1>1, <1>2, Zenon DEF OpToRel
<1>4. x \in 1 .. N /\ x - 1 \notin T
  BY <1>3
<1> QED
  BY <1>4

(* f has what a loop holds after each of its rounds. *)
Rounds(f, N, base, step) ==
    f = [n \in 0 .. N |-> IF n = 0 THEN base ELSE step[n][f[n - 1]]]

(* A loop that starts with base and applies step n in round n has a result *)
(* after each of its rounds.                                               *)
LEMMA Loop ==
    ASSUME NEW N \in Nat, NEW S, NEW base \in S, NEW step \in [1 .. N -> [S -> S]]
    PROVE  \E f \in [0 .. N -> S] : Rounds(f, N, base, step)
<1> DEFINE Upto(m, f) == /\ f \in [0 .. m -> S]
                         /\ f[0] = base
                         /\ \A n \in 1 .. m : f[n] = step[n][f[n - 1]]
           G == {m \in 0 .. N : \E f : Upto(m, f)}
<1>1. 0 \in G
  <2> DEFINE g == [n \in 0 .. 0 |-> base]
  <2>1. g \in [0 .. 0 -> S] /\ g[0] = base /\ 1 .. 0 = {}
    OBVIOUS
  <2>2. Upto(0, g)
    <3> HIDE DEF g
    <3> QED BY <2>1
  <2>3. 0 \in 0 .. N
    OBVIOUS
  <2> HIDE DEF Upto, g
  <2> QED BY <2>2, <2>3
<1>2. ASSUME NEW m \in 1 .. N, m - 1 \in G PROVE m \in G
  <2>1. PICK f : Upto(m - 1, f)
    BY <1>2
  <2> DEFINE g == [n \in 0 .. m |-> IF n = m THEN step[m][f[m - 1]] ELSE f[n]]
  <2>2. \A n \in 0 .. m : g[n] = IF n = m THEN step[m][f[m - 1]] ELSE f[n]
    OBVIOUS
  <2>3. f[m - 1] \in S /\ step[m] \in [S -> S]
    BY <2>1
  <2>4. g \in [0 .. m -> S]
    BY <2>1, <2>3
  <2>5. g[0] = base
    BY <2>1
  <2>6. \A n \in 1 .. m : g[n] = step[n][g[n - 1]]
    <3> TAKE n \in 1 .. m
    <3>1. g[n - 1] = f[n - 1]
      BY <2>2
    <3>2. CASE n = m
      BY <3>1, <3>2, <2>2
    <3>3. CASE n # m
      <4>1. n \in 1 .. m - 1
        BY <3>3
      <4>2. f[n] = step[n][f[n - 1]]
        BY <2>1, <4>1
      <4>3. g[n] = f[n]
        BY <2>2, <3>3
      <4> QED BY <4>2, <4>3, <3>1
    <3> QED BY <3>2, <3>3
  <2>7. Upto(m, g) /\ m \in 0 .. N
    BY <2>4, <2>5, <2>6
  <2> HIDE DEF Upto, g
  <2> QED BY <2>7
<1>3. N \in G
  <2> HIDE DEF G
  <2>1. \A n \in 1 .. N : n - 1 \in G => n \in G
    BY <1>2
  <2>2. \A n \in 0 .. N : n \in G
    BY <2>1, <1>1, CountUp
  <2> QED BY <2>2
<1>4. PICK f : Upto(N, f)
  <2> HIDE DEF Upto
  <2> QED BY <1>3
<1>5. \A n \in 0 .. N : f[n] = IF n = 0 THEN base ELSE step[n][f[n - 1]]
  <2> TAKE n \in 0 .. N
  <2>1. CASE n = 0
    BY <2>1, <1>4
  <2>2. CASE n # 0
    BY <2>2, <1>4
  <2> QED BY <2>1, <2>2
<1>6. f = [n \in 0 .. N |-> f[n]]
  BY <1>4
<1>7. Rounds(f, N, base, step)
  BY <1>5, <1>6 DEF Rounds
<1> QED
  BY <1>4, <1>7

Size(v) == RecordSize(v.key, v.val.len)

(* A record has at least a key of one byte, its terminator, length and     *)
(* type, and one byte of data.                                             *)
LEMMA SizeType ==
    ASSUME NEW v \in Var
    PROVE  Size(v) \in Nat /\ Size(v) >= 15
<1>1. v.key \in Keys /\ v.val.len \in DataLens
  BY DEF Var, Value
<1>2. KeyLen[v.key] \in Nat \ {0} /\ v.val.len \in Nat \ {0}
  BY <1>1, KeysAssumption, DataAssumption
<1> QED
  BY <1>2 DEF Size, RecordSize, PayloadSize

(* The countdown of bgenv_user_free. *)
Countdown(f, a) ==
    /\ f \in [0 .. Len(a) -> Int]
    /\ f[0] = ENV_MEM_USERVARS
    /\ \A n \in 1 .. Len(a) : f[n] = f[n - 1] - Size(a[n])

(* bgenv_user_free returns the end of its countdown. *)
LEMMA Free ==
    ASSUME NEW a \in Seq(Var)
    PROVE  \E f : Countdown(f, a) /\ bgenv_user_free(a) = f[Len(a)]
<1> DEFINE N == Len(a)
           step == [n \in 1 .. N |-> [x \in Int |-> x - Size(a[n])]]
           Eq(f) == f = [n \in 0 .. N |-> IF n = 0 THEN ENV_MEM_USERVARS
                                          ELSE f[n - 1] - RecordSize(a[n].key, a[n].val.len)]
           c == CHOOSE f : Eq(f)
<1>1. N \in Nat /\ \A n \in 1 .. N : a[n] \in Var
  OBVIOUS
<1>2. \A n \in 1 .. N : Size(a[n]) \in Int
  BY <1>1, SizeType
<1>3. step \in [1 .. N -> [Int -> Int]]
  BY <1>1, <1>2
<1>4. ENV_MEM_USERVARS \in Int
  BY AreaAssumption
<1>5. PICK f \in [0 .. N -> Int] : Rounds(f, N, ENV_MEM_USERVARS, step)
  <2> HIDE DEF N, step
  <2> QED BY <1>1, <1>3, <1>4, Loop
<1>6. \A n \in 1 .. N : step[n][f[n - 1]] = f[n - 1] - Size(a[n])
  BY <1>1
<1>7. Eq(f)
  <2> HIDE DEF N, step
  <2>1. \A n \in 0 .. N : (IF n = 0 THEN ENV_MEM_USERVARS ELSE step[n][f[n - 1]])
            = IF n = 0 THEN ENV_MEM_USERVARS
              ELSE f[n - 1] - RecordSize(a[n].key, a[n].val.len)
    BY <1>6, <1>1 DEF Size
  <2> QED BY <2>1, <1>5 DEF Rounds
<1>8. Eq(c)
  BY <1>7
<1>9. \A n \in 0 .. N : c[n] = IF n = 0 THEN ENV_MEM_USERVARS ELSE c[n - 1] - Size(a[n])
  <2> HIDE DEF c, N
  <2> QED BY <1>8 DEF Size
<1>10. \A n \in 0 .. N : n \in {m \in 0 .. N : c[m] \in Int}
  <2> HIDE DEF c, N
  <2>1. \A n \in 1 .. N : n - 1 \in {m \in 0 .. N : c[m] \in Int}
                          => n \in {m \in 0 .. N : c[m] \in Int}
    BY <1>1, <1>2, <1>9, SMTT(30)
  <2>2. 0 \in {m \in 0 .. N : c[m] \in Int}
    BY <1>1, <1>4, <1>9
  <2> QED BY <2>1, <2>2, <1>1, CountUp
<1>11. Countdown(c, a)
  <2>1. c = [n \in 0 .. N |-> c[n]]
    <3> HIDE DEF c, N
    <3> QED BY <1>8
  <2>2. c \in [0 .. N -> Int]
    <3> HIDE DEF c, N
    <3> QED BY <2>1, <1>10
  <2> QED
    <3> HIDE DEF c
    <3> QED BY <2>2, <1>9, <1>1 DEF Countdown
<1>12. bgenv_user_free(a) = c[N]
  BY DEF bgenv_user_free
<1> QED
  <2> HIDE DEF c
  <2> QED BY <1>11, <1>12

(* Sequences whose records have the same sizes up to N leave the same.     *)
LEMMA SameSizes ==
    ASSUME NEW a \in Seq(Var), NEW b \in Seq(Var), NEW f, NEW g,
           Countdown(f, a), Countdown(g, b),
           NEW N \in Nat, N <= Len(a), N <= Len(b),
           \A n \in 1 .. N : Size(a[n]) = Size(b[n])
    PROVE  \A n \in 0 .. N : f[n] = g[n]
<1> DEFINE G == {n \in 0 .. N : f[n] = g[n]}
<1>1. Len(a) \in Nat /\ Len(b) \in Nat
  OBVIOUS
<1>2. 0 \in G
  BY DEF Countdown
<1>3. ASSUME NEW n \in 1 .. N, n - 1 \in G PROVE n \in G
  <2>1. n \in 1 .. Len(a) /\ n \in 1 .. Len(b)
    BY <1>1
  <2>2. f[n] = f[n - 1] - Size(a[n]) /\ g[n] = g[n - 1] - Size(b[n])
    BY <2>1 DEF Countdown
  <2> QED BY <2>2, <1>3
<1>4. \A n \in 0 .. N : n \in G
  <2> HIDE DEF G
  <2>1. \A n \in 1 .. N : n - 1 \in G => n \in G
    BY <1>3
  <2> QED BY <2>1, <1>2, CountUp
<1> QED
  BY <1>4

(* Nothing but what the records take is missing from the area, and what is *)
(* left gets less with every record.                                       *)
LEMMA FreeBound ==
    ASSUME NEW a \in Seq(Var), NEW f, Countdown(f, a)
    PROVE  /\ \A n \in 0 .. Len(a) : f[n] >= f[Len(a)]
           /\ f[Len(a)] \in Int /\ f[Len(a)] <= ENV_MEM_USERVARS
<1> DEFINE N == Len(a)
           G == {n \in 0 .. N : f[N - n] >= f[N]}
<1>1. N \in Nat /\ f \in [0 .. N -> Int]
  BY DEF Countdown
<1>2. 0 \in G
  BY <1>1
<1>3. ASSUME NEW n \in 1 .. N, n - 1 \in G PROVE n \in G
  <2> DEFINE m == N - (n - 1)
  <2>1. m \in 1 .. N /\ m - 1 = N - n
    BY <1>1
  <2>2. f[m] = f[m - 1] - Size(a[m]) /\ a[m] \in Var
    BY <2>1 DEF Countdown
  <2>3. Size(a[m]) \in Nat
    BY <2>2, SizeType
  <2>4. f[m] \in Int /\ f[m - 1] \in Int /\ f[N] \in Int /\ f[m] >= f[N]
    BY <2>1, <1>1, <1>3
  <2>5. f[m - 1] >= f[N]
    BY <2>2, <2>3, <2>4
  <2> QED BY <2>5, <2>1
<1>4. \A n \in 0 .. N : n \in G
  <2> HIDE DEF G
  <2>1. \A n \in 1 .. N : n - 1 \in G => n \in G
    BY <1>3
  <2> QED BY <2>1, <1>1, <1>2, CountUp
<1>5. ASSUME NEW n \in 0 .. N PROVE f[n] >= f[N]
  <2>1. N - n \in 0 .. N /\ N - (N - n) = n
    BY <1>1
  <2>2. N - n \in G
    BY <2>1, <1>4
  <2> QED BY <2>1, <2>2
<1> QED
  BY <1>1, <1>5 DEF Countdown

(* It never returns more than the area has. *)
LEMMA FreeType ==
    ASSUME NEW a \in Seq(Var)
    PROVE  bgenv_user_free(a) \in Int /\ bgenv_user_free(a) <= ENV_MEM_USERVARS
BY Free, FreeBound

(* An empty area is all free. *)
LEMMA FreeEmpty == bgenv_user_free(<< >>) = ENV_MEM_USERVARS
<1>1. << >> \in Seq(Var) /\ Len(<< >>) = 0
  OBVIOUS
<1> QED
  BY <1>1, Free DEF Countdown

(* A record that is appended takes its size. *)
LEMMA FreeAppend ==
    ASSUME NEW a \in Seq(Var), NEW v \in Var
    PROVE  bgenv_user_free(Append(a, v)) = bgenv_user_free(a) - Size(v)
<1> DEFINE b == Append(a, v)
           N == Len(a)
<1>1. b \in Seq(Var) /\ Len(b) = N + 1 /\ N \in Nat /\ b[N + 1] = v
      /\ \A n \in 1 .. N : b[n] = a[n]
  OBVIOUS
<1> HIDE DEF b
<1>2. PICK f : Countdown(f, a) /\ bgenv_user_free(a) = f[N]
  BY Free
<1>3. PICK g : Countdown(g, b) /\ bgenv_user_free(b) = g[N + 1]
  BY <1>1, Free
<1>4. f[N] = g[N]
  <2>1. \A n \in 1 .. N : Size(a[n]) = Size(b[n])
    BY <1>1
  <2>2. \A n \in 0 .. N : f[n] = g[n]
    <3> HIDE DEF N
    <3>1. N <= Len(a) /\ N <= Len(b)
      BY <1>1 DEF N
    <3> QED BY <2>1, <3>1, <1>1, <1>2, <1>3, SameSizes
  <2> QED BY <2>2, <1>1
<1>5. g[N + 1] = g[N + 1 - 1] - Size(b[N + 1])
  BY <1>1, <1>3 DEF Countdown
<1> QED
  BY <1>1, <1>2, <1>3, <1>4, <1>5 DEF b

(* What is left of a sequence without its p-th element. *)
LEMMA Removed ==
    ASSUME NEW S, NEW a \in Seq(S), NEW p \in DOMAIN a
    PROVE  /\ RemoveAt(a, p) \in Seq(S)
           /\ Len(RemoveAt(a, p)) = Len(a) - 1
           /\ \A n \in 1 .. Len(a) - 1 : RemoveAt(a, p)[n] = IF n < p THEN a[n] ELSE a[n + 1]
<1>1. p \in 1 .. Len(a) /\ Len(a) \in Nat
  OBVIOUS
<1> DEFINE x == SubSeq(a, 1, p - 1)
           y == SubSeq(a, p + 1, Len(a))
<1>2. /\ x \in Seq(S) /\ Len(x) = p - 1
      /\ \A n \in 1 .. p - 1 : x[n] = a[n]
  BY <1>1
<1>3. /\ y \in Seq(S) /\ Len(y) = Len(a) - p
      /\ \A n \in 1 .. Len(a) - p : y[n] = a[p + n]
  BY <1>1
<1>4. RemoveAt(a, p) = x \o y
  BY DEF RemoveAt
<1> HIDE DEF x, y
<1>5. \A n \in 1 .. Len(a) - 1 :
          (x \o y)[n] = IF n < p THEN a[n] ELSE a[n + 1]
  BY <1>1, <1>2, <1>3
<1>6. x \o y \in Seq(S) /\ Len(x \o y) = Len(a) - 1
  BY <1>1, <1>2, <1>3
<1> QED
  BY <1>4, <1>5, <1>6

(* A record that is deleted gives its size back. *)
LEMMA FreeRemove ==
    ASSUME NEW a \in Seq(Var), NEW p \in DOMAIN a
    PROVE  bgenv_user_free(RemoveAt(a, p)) = bgenv_user_free(a) + Size(a[p])
<1> DEFINE b == RemoveAt(a, p)
           N == Len(a)
<1>1. b \in Seq(Var) /\ Len(b) = N - 1 /\ N \in Nat /\ p \in 1 .. N
      /\ \A n \in 1 .. N - 1 : b[n] = IF n < p THEN a[n] ELSE a[n + 1]
  BY Removed
<1> HIDE DEF b
<1>2. PICK f : Countdown(f, a) /\ bgenv_user_free(a) = f[N]
  BY Free
<1>3. PICK g : Countdown(g, b) /\ bgenv_user_free(b) = g[N - 1]
  BY <1>1, Free
<1>4. f[p - 1] = g[p - 1]
  <2>1. \A n \in 1 .. p - 1 : Size(a[n]) = Size(b[n])
    BY <1>1
  <2>2. \A n \in 0 .. p - 1 : f[n] = g[n]
    <3> DEFINE q == p - 1
    <3>1. q \in Nat /\ q <= Len(a) /\ q <= Len(b)
      BY <1>1
    <3>2. \A n \in 1 .. q : Size(a[n]) = Size(b[n])
      BY <2>1
    <3>3. \A n \in 0 .. q : f[n] = g[n]
      <4> HIDE DEF q
      <4> QED BY <3>1, <3>2, <1>1, <1>2, <1>3, SameSizes
    <3> QED BY <3>3
  <2> QED BY <2>2, <1>1
<1>5. Size(a[p]) \in Int
  BY SizeType, <1>1
<1> DEFINE G == {m \in 0 .. N - p : g[p - 1 + m] = f[p + m] + Size(a[p])}
<1>6. 0 \in G
  <2>1. f[p] = f[p - 1] - Size(a[p])
    BY <1>1, <1>2 DEF Countdown
  <2>2. f[p - 1] \in Int
    BY <1>1, <1>2 DEF Countdown
  <2> QED BY <1>1, <1>4, <1>5, <2>1, <2>2
<1>7. ASSUME NEW m \in 1 .. N - p, m - 1 \in G PROVE m \in G
  <2> DEFINE n == p - 1 + m
  <2>1. n \in 1 .. N - 1 /\ n + 1 \in 1 .. N /\ n >= p /\ n + 1 = p + m
        /\ n - 1 = p - 1 + (m - 1) /\ n = p + (m - 1) /\ n + 1 - 1 = n
    BY <1>1
  <2>2. b[n] = a[n + 1]
    BY <1>1, <2>1, SMTT(30)
  <2>3. g[n] = g[n - 1] - Size(b[n])
    BY <1>1, <1>3, <2>1 DEF Countdown
  <2>4. f[n + 1] = f[n] - Size(a[n + 1])
    <3> HIDE DEF n
    <3>1. f[n + 1] = f[n + 1 - 1] - Size(a[n + 1])
      BY <1>2, <2>1, SMTT(30) DEF Countdown
    <3> QED BY <3>1, <2>1
  <2>5. g[n - 1] = f[n] + Size(a[p])
    BY <1>7, <2>1
  <2>6. f[n] \in Int /\ a[n + 1] \in Var
    BY <1>1, <1>2, <2>1 DEF Countdown
  <2>7. Size(a[n + 1]) \in Int
    BY <2>6, SizeType
  <2>8. g[n] = f[n + 1] + Size(a[p])
    <3> HIDE DEF n
    <3> QED BY <2>2, <2>3, <2>4, <2>5, <2>6, <2>7, <1>5
  <2> QED BY <2>8, <2>1
<1>8. \A m \in 0 .. N - p : m \in G
  <2>1. N - p \in Nat
    BY <1>1
  <2> HIDE DEF G
  <2>2. \A m \in 1 .. N - p : m - 1 \in G => m \in G
    BY <1>7
  <2> QED BY <2>1, <2>2, <1>6, CountUp
<1>9. N - p \in G /\ p - 1 + (N - p) = N - 1 /\ p + (N - p) = N
  BY <1>8, <1>1
<1>10. g[N - 1] = f[N] + Size(a[p])
  BY <1>9
<1> QED
  BY <1>2, <1>3, <1>10 DEF b

(* A record that is overwritten by one of its size changes nothing. *)
LEMMA FreeReplace ==
    ASSUME NEW a \in Seq(Var), NEW p \in DOMAIN a, NEW v \in Var, Size(v) = Size(a[p])
    PROVE  bgenv_user_free(ReplaceAt(a, p, v)) = bgenv_user_free(a)
<1> DEFINE b == ReplaceAt(a, p, v)
           N == Len(a)
<1>1. b \in Seq(Var) /\ Len(b) = N /\ N \in Nat
      /\ \A n \in 1 .. N : b[n] = IF n = p THEN v ELSE a[n]
  BY DEF ReplaceAt
<1> HIDE DEF b
<1>2. PICK f : Countdown(f, a) /\ bgenv_user_free(a) = f[N]
  BY Free
<1>3. PICK g : Countdown(g, b) /\ bgenv_user_free(b) = g[N]
  BY <1>1, Free
<1>4. \A n \in 1 .. N : Size(a[n]) = Size(b[n])
  BY <1>1
<1>5. \A n \in 0 .. N : f[n] = g[n]
  <2> HIDE DEF N
  <2>1. N <= Len(a) /\ N <= Len(b)
    BY <1>1 DEF N
  <2> QED BY <2>1, <1>1, <1>2, <1>3, <1>4, SameSizes
<1> QED
  BY <1>1, <1>2, <1>3, <1>5 DEF b

(* The walk of bgenv_validate_uservars is the countdown, as long as a byte *)
(* is left at its end: it accepts every area that has its closing byte.    *)
LEMMA Validates ==
    ASSUME NEW a \in Seq(Var), bgenv_user_free(a) >= 1
    PROVE  bgenv_validate_uservars(a)
<1> DEFINE N == Len(a)
           Eq(g) == g = [n \in 0 .. N |-> IF n = 0 THEN ENV_MEM_USERVARS
                                          ELSE ValidateStep(g[n - 1], a[n])]
           c == CHOOSE g : Eq(g)
<1>1. N \in Nat /\ \A n \in 1 .. N : a[n] \in Var
  OBVIOUS
<1>2. PICK f : Countdown(f, a) /\ bgenv_user_free(a) = f[N]
  BY Free
<1>3. /\ f \in [0 .. N -> Int] /\ f[0] = ENV_MEM_USERVARS
      /\ \A n \in 1 .. N : f[n] = f[n - 1] - Size(a[n])
  BY <1>2 DEF Countdown
<1>4. \A n \in 0 .. N : f[n] >= 1
  <2>1. f[N] >= 1 /\ f[N] \in Int
    BY <1>1, <1>2, <1>3
  <2>2. \A n \in 0 .. N : f[n] >= f[N] /\ f[n] \in Int
    BY <1>2, <1>3, FreeBound
  <2> QED BY <2>1, <2>2
<1>5. ASSUME NEW n \in 1 .. N PROVE ValidateStep(f[n - 1], a[n]) = f[n]
  <2> DEFINE x == f[n - 1]
             v == a[n]
  <2>1. v \in Var /\ f[n] = x - Size(v) /\ f[n] >= 1 /\ x \in Int
    BY <1>1, <1>3, <1>4
  <2>2. v.key \in Keys /\ v.val.len \in DataLens
    BY <2>1 DEF Var, Value
  <2>3. KeyLen[v.key] \in Nat /\ v.val.len \in Nat
    BY <2>2, KeysAssumption, DataAssumption
  <2> HIDE DEF x, v
  <2> DEFINE K == KeyLen[v.key]
             L == v.val.len
  <2>4. Size(v) = K + 1 + (4 + 8 + L) /\ x - Size(v) >= 1
    BY <2>1 DEF Size, RecordSize, PayloadSize
  <2>5. ValidateStep(x, v) = IF x = -1 \/ K + 1 + 4 >= x \/ 4 + 8 + L >= x - (K + 1)
                             THEN -1 ELSE (x - (K + 1)) - (4 + 8 + L)
    BY DEF ValidateStep, PayloadSize
  <2>6. ValidateStep(x, v) = x - Size(v)
    <3> HIDE DEF K, L
    <3>1. K \in Nat /\ L \in Nat /\ x \in Int
      BY <2>1, <2>3 DEF K, L
    <3>2. x # -1 /\ ~(K + 1 + 4 >= x) /\ ~(4 + 8 + L >= x - (K + 1))
      BY <3>1, <2>4
    <3> QED BY <3>1, <3>2, <2>4, <2>5
  <2> QED BY <2>1, <2>6 DEF x, v
<1>6. Eq(f)
  <2>1. \A n \in 0 .. N : f[n] = IF n = 0 THEN ENV_MEM_USERVARS ELSE ValidateStep(f[n - 1], a[n])
    <3> TAKE n \in 0 .. N
    <3>1. CASE n = 0
      BY <3>1, <1>3
    <3>2. CASE n # 0
      BY <3>2, <1>1, <1>5
    <3> QED BY <3>1, <3>2
  <2>2. f = [n \in 0 .. N |-> f[n]]
    BY <1>3
  <2> QED BY <2>1, <2>2
<1>7. Eq(c)
  BY <1>6
<1>8. \A n \in 0 .. N : c[n] = IF n = 0 THEN ENV_MEM_USERVARS ELSE ValidateStep(c[n - 1], a[n])
  <2> HIDE DEF c, N
  <2> QED BY <1>7
<1>9. \A n \in 0 .. N : n \in {m \in 0 .. N : c[m] = f[m]}
  <2> HIDE DEF c, N
  <2> DEFINE G == {m \in 0 .. N : c[m] = f[m]}
  <2>1. ASSUME NEW n \in 1 .. N, n - 1 \in G PROVE n \in G
    <3>1. c[n] = ValidateStep(c[n - 1], a[n])
      BY <1>8, <1>1
    <3> QED BY <3>1, <2>1, <1>5
  <2>2. 0 \in G
    BY <1>1, <1>3, <1>8
  <2> HIDE DEF G
  <2>3. \A n \in 1 .. N : n - 1 \in G => n \in G
    BY <2>1
  <2>4. \A n \in 0 .. N : n \in G
    BY <2>2, <2>3, <1>1, CountUp
  <2> QED BY <2>4 DEF G
<1>10. c[N] >= 1 /\ c[N] \in Int
  <2> HIDE DEF c, N
  <2> QED BY <1>1, <1>3, <1>4, <1>9
<1>11. bgenv_validate_uservars(a) <=> c[N] # -1
  BY DEF bgenv_validate_uservars
<1> QED
  <2> HIDE DEF c
  <2> QED BY <1>10, <1>11

(***************************************************************************)
(* Part 2: looking up, deleting and collecting.                            *)
(***************************************************************************)

(* No key occurs twice. *)
Unique(a) == \A p, q \in DOMAIN a : a[p].key = a[q].key => p = q

Areas == {a \in Seq(Var) : Unique(a)}

(* The values the area has for a key are those of the records with that    *)
(* key.                                                                    *)
LEMMA HoldsIff ==
    ASSUME NEW a, NEW k, NEW x
    PROVE  x \in Holds(a, k) <=> \E p \in DOMAIN a : a[p].key = k /\ a[p].val = x
BY DEF Holds

(* bgenv_find_uservar returns a record with the key if there is one. *)
LEMMA Found ==
    ASSUME NEW a \in Seq(Var), NEW k
    PROVE  \/ /\ bgenv_find_uservar(a, k) = 0
              /\ \A p \in DOMAIN a : a[p].key # k
           \/ /\ bgenv_find_uservar(a, k) # 0
              /\ bgenv_find_uservar(a, k) \in DOMAIN a
              /\ a[bgenv_find_uservar(a, k)].key = k
<1> DEFINE S == {p \in DOMAIN a : a[p].key = k}
<1>1. S \subseteq Nat
  OBVIOUS
<1>2. CASE S = {}
  BY <1>2 DEF bgenv_find_uservar
<1>3. CASE S # {}
  <2> HIDE DEF S
  <2>1. \E x \in S : \A y \in S : ~(<<y, x>> \in OpToRel(<, Nat))
    BY <1>1, <1>3, WFMin, NatLessThanWellFounded, Zenon
  <2>2. \E x \in S : \A y \in S : ~(y < x)
    BY <1>1, <2>1, Zenon DEF OpToRel
  <2>3. \A x, y \in S : ~(y < x) => x <= y
    BY <1>1
  <2>4. \E x \in S : \A y \in S : x <= y
    BY <2>2, <2>3
  <2>5. (CHOOSE p \in S : \A q \in S : p <= q) \in S
    BY <2>4
  <2>6. bgenv_find_uservar(a, k) \in S
    BY <2>5, <1>3 DEF bgenv_find_uservar, S
  <2> QED BY <2>6 DEF S
<1> QED
  BY <1>2, <1>3

(* A deletion touches no other key and leaves nothing of its own. *)
LEMMA RemoveHolds ==
    ASSUME NEW a \in Areas, NEW p \in DOMAIN a
    PROVE  /\ RemoveAt(a, p) \in Areas
           /\ \A j : j # a[p].key => Holds(RemoveAt(a, p), j) = Holds(a, j)
           /\ Holds(RemoveAt(a, p), a[p].key) = {}
           /\ \A n \in DOMAIN RemoveAt(a, p) : RemoveAt(a, p)[n].key # a[p].key
<1> DEFINE b == RemoveAt(a, p)
<1>1. /\ a \in Seq(Var) /\ Len(a) \in Nat /\ p \in 1 .. Len(a) /\ DOMAIN a = 1 .. Len(a)
      /\ b \in Seq(Var) /\ DOMAIN b = 1 .. Len(a) - 1
      /\ \A n \in 1 .. Len(a) - 1 : b[n] = IF n < p THEN a[n] ELSE a[n + 1]
  BY Removed DEF Areas
<1>2. \A m, n \in 1 .. Len(a) : a[m].key = a[n].key => m = n
  BY <1>1 DEF Areas, Unique
<1> HIDE DEF b
<1>3. \A m \in 1 .. Len(a) : m # p => \E n \in DOMAIN b : b[n] = a[m]
  <2> SUFFICES ASSUME NEW m \in 1 .. Len(a), m # p PROVE \E n \in DOMAIN b : b[n] = a[m]
    OBVIOUS
  <2>1. CASE m < p
    BY <2>1, <1>1
  <2>2. CASE m > p
    <3>1. m - 1 \in DOMAIN b /\ ~(m - 1 < p) /\ (m - 1) + 1 = m
      BY <2>2, <1>1
    <3> QED BY <3>1, <1>1
  <2> QED BY <2>1, <2>2, <1>1
<1>4. ASSUME NEW n \in DOMAIN b
      PROVE  \E m \in 1 .. Len(a) : m # p /\ b[n] = a[m] /\ m = IF n < p THEN n ELSE n + 1
  BY <1>1
<1>5. Unique(b)
  <2> SUFFICES ASSUME NEW m \in DOMAIN b, NEW n \in DOMAIN b, b[m].key = b[n].key
               PROVE  m = n
    BY DEF Unique
  <2> QED BY <1>1, <1>2, <1>4
<1>6. ASSUME NEW n \in DOMAIN b PROVE b[n].key # a[p].key
  BY <1>1, <1>2, <1>4
<1>7. Holds(b, a[p].key) = {}
  BY <1>6, HoldsIff
<1>8. ASSUME NEW j, j # a[p].key PROVE Holds(b, j) = Holds(a, j)
  <2>1. \A x : x \in Holds(b, j) => x \in Holds(a, j)
    BY <1>4, <1>1, HoldsIff, SMTT(30)
  <2>2. \A x : x \in Holds(a, j) => x \in Holds(b, j)
    BY <1>3, <1>8, <1>1, HoldsIff
  <2> QED BY <2>1, <2>2
<1> QED
  BY <1>1, <1>5, <1>6, <1>7, <1>8 DEF b, Areas

(* A record appended under a new key touches no other. *)
LEMMA AppendHolds ==
    ASSUME NEW a \in Areas, NEW v \in Var, \A p \in DOMAIN a : a[p].key # v.key
    PROVE  /\ Append(a, v) \in Areas
           /\ \A j : j # v.key => Holds(Append(a, v), j) = Holds(a, j)
           /\ Holds(Append(a, v), v.key) = {v.val}
<1> DEFINE b == Append(a, v)
           N == Len(a)
<1>1. /\ a \in Seq(Var) /\ N \in Nat /\ DOMAIN a = 1 .. N
      /\ b \in Seq(Var) /\ DOMAIN b = 1 .. N + 1 /\ b[N + 1] = v
      /\ \A n \in 1 .. N : b[n] = a[n]
  BY DEF Areas
<1>2. \A m, n \in 1 .. N : a[m].key = a[n].key => m = n
  BY <1>1 DEF Areas, Unique
<1> HIDE DEF b, N
<1>3. Unique(b)
  BY <1>1, <1>2 DEF Unique
<1>4. ASSUME NEW j, j # v.key PROVE Holds(b, j) = Holds(a, j)
  <2>1. \A x : x \in Holds(b, j) => x \in Holds(a, j)
    BY <1>1, <1>4, HoldsIff
  <2>2. \A x : x \in Holds(a, j) => x \in Holds(b, j)
    BY <1>1, <1>4, HoldsIff
  <2> QED BY <2>1, <2>2
<1>5. Holds(b, v.key) = {v.val}
  <2>1. \A x : x \in Holds(b, v.key) => x = v.val
    BY <1>1, HoldsIff
  <2>2. v.val \in Holds(b, v.key)
    BY <1>1, HoldsIff
  <2> QED BY <2>1, <2>2
<1> QED
  BY <1>1, <1>3, <1>4, <1>5 DEF b, Areas

(* A record overwritten under its key touches no other. *)
LEMMA ReplaceHolds ==
    ASSUME NEW a \in Areas, NEW v \in Var, NEW p \in DOMAIN a, a[p].key = v.key
    PROVE  /\ ReplaceAt(a, p, v) \in Areas
           /\ \A j : j # v.key => Holds(ReplaceAt(a, p, v), j) = Holds(a, j)
           /\ Holds(ReplaceAt(a, p, v), v.key) = {v.val}
<1> DEFINE b == ReplaceAt(a, p, v)
           N == Len(a)
<1>1. /\ a \in Seq(Var) /\ N \in Nat /\ DOMAIN a = 1 .. N /\ p \in 1 .. N
      /\ b \in Seq(Var) /\ DOMAIN b = 1 .. N
      /\ \A n \in 1 .. N : b[n] = IF n = p THEN v ELSE a[n]
  BY DEF Areas, ReplaceAt
<1>2. \A m, n \in 1 .. N : a[m].key = a[n].key => m = n
  BY <1>1 DEF Areas, Unique
<1> HIDE DEF b, N
<1>3. Unique(b)
  BY <1>1, <1>2 DEF Unique
<1>4. ASSUME NEW j, j # v.key PROVE Holds(b, j) = Holds(a, j)
  <2>1. \A x : x \in Holds(b, j) => x \in Holds(a, j)
    BY <1>1, <1>4, HoldsIff
  <2>2. \A x : x \in Holds(a, j) => x \in Holds(b, j)
    BY <1>1, <1>4, HoldsIff
  <2> QED BY <2>1, <2>2
<1>5. Holds(b, v.key) = {v.val}
  <2>1. \A x : x \in Holds(b, v.key) => x = v.val
    BY <1>1, <1>2, HoldsIff
  <2>2. v.val \in Holds(b, v.key)
    BY <1>1, HoldsIff
  <2> QED BY <2>1, <2>2
<1> QED
  BY <1>1, <1>3, <1>4, <1>5 DEF b, Areas

(* bgenv_set_uservar with USERVAR_TYPE_DELETED. *)
LEMMA UnsetHolds ==
    ASSUME NEW a \in Areas, NEW k
    PROVE  /\ Unset(a, k) \in Areas
           /\ \A j : j # k => Holds(Unset(a, k), j) = Holds(a, j)
           /\ Holds(Unset(a, k), k) = {}
           /\ bgenv_user_free(Unset(a, k)) >= bgenv_user_free(a)
<1> DEFINE p == bgenv_find_uservar(a, k)
<1>1. a \in Seq(Var)
  BY DEF Areas
<1>2. CASE p = 0
  <2>1. \A q \in DOMAIN a : a[q].key # k
    BY <1>1, <1>2, Found
  <2>2. Holds(a, k) = {}
    BY <2>1, HoldsIff
  <2>3. Unset(a, k) = a
    BY <1>2 DEF Unset
  <2>4. bgenv_user_free(a) >= bgenv_user_free(a)
    BY <1>1, FreeType
  <2> QED BY <2>2, <2>3, <2>4
<1>3. CASE p # 0
  <2>1. p \in DOMAIN a /\ a[p].key = k
    BY <1>1, <1>3, Found
  <2>2. Unset(a, k) = RemoveAt(a, p)
    BY <1>3 DEF Unset, bgenv_del_uservar
  <2> HIDE DEF p
  <2>3. bgenv_user_free(RemoveAt(a, p)) = bgenv_user_free(a) + Size(a[p])
    BY <1>1, <2>1, FreeRemove
  <2>4. a[p] \in Var
    BY <1>1, <2>1
  <2>5. bgenv_user_free(RemoveAt(a, p)) >= bgenv_user_free(a)
    BY <2>3, <2>4, <1>1, SizeType, FreeType
  <2> QED BY <2>1, <2>2, <2>5, RemoveHolds
<1> QED
  BY <1>2, <1>3

(* ebg_env_finalize_update: after n rounds the first n registered keys are *)
(* gone, and no others.                                                    *)
LEMMA CollectedHolds ==
    ASSUME NEW a \in Areas, NEW r \in Seq(Keys)
    PROVE  /\ Collected(a, r) \in Areas
           /\ \A k : Holds(Collected(a, r), k) = IF \E p \in DOMAIN r : r[p] = k
                                                 THEN {} ELSE Holds(a, k)
           /\ bgenv_user_free(Collected(a, r)) >= bgenv_user_free(a)
<1> DEFINE N == Len(r)
           step == [n \in 1 .. N |-> [x \in Areas |-> Unset(x, r[n])]]
           Eq(g) == g = [n \in 0 .. N |-> IF n = 0 THEN a ELSE Unset(g[n - 1], r[n])]
           c == CHOOSE g : Eq(g)
<1>1. N \in Nat /\ DOMAIN r = 1 .. N
  OBVIOUS
<1>2. step \in [1 .. N -> [Areas -> Areas]]
  <2>1. \A x \in Areas, n \in 1 .. N : Unset(x, r[n]) \in Areas
    BY UnsetHolds
  <2> QED BY <2>1
<1>3. PICK f \in [0 .. N -> Areas] : Rounds(f, N, a, step)
  <2> HIDE DEF N, step
  <2> QED BY <1>1, <1>2, Loop
<1>4. \A n \in 1 .. N : step[n][f[n - 1]] = Unset(f[n - 1], r[n])
  <2> TAKE n \in 1 .. N
  <2>1. f[n - 1] \in Areas
    BY <1>1
  <2> QED BY <2>1
<1>5. Eq(f)
  <2> HIDE DEF N, step
  <2>1. \A n \in 0 .. N : (IF n = 0 THEN a ELSE step[n][f[n - 1]])
                              = IF n = 0 THEN a ELSE Unset(f[n - 1], r[n])
    BY <1>4, <1>1
  <2> QED BY <2>1, <1>3 DEF Rounds
<1>6. Eq(c)
  BY <1>5
<1>7. \A n \in 0 .. N : c[n] = IF n = 0 THEN a ELSE Unset(c[n - 1], r[n])
  <2> HIDE DEF c, N
  <2> QED BY <1>6
<1> DEFINE Gone(n, k) == \E p \in 1 .. n : r[p] = k
           Exact(n) == /\ c[n] \in Areas
                       /\ \A k : Holds(c[n], k) = IF Gone(n, k) THEN {} ELSE Holds(a, k)
                       /\ bgenv_user_free(c[n]) >= bgenv_user_free(a)
           G == {n \in 0 .. N : Exact(n)}
<1> HIDE DEF c, N
<1>8. 0 \in G
  <2>1. c[0] = a /\ 1 .. 0 = {} /\ 0 \in 0 .. N
    BY <1>1, <1>7
  <2>2. bgenv_user_free(a) \in Int
    BY FreeType DEF Areas
  <2> QED BY <2>1, <2>2
<1>9. ASSUME NEW n \in 1 .. N, n - 1 \in G PROVE n \in G
  <2> DEFINE b == c[n - 1]
  <2>1. b \in Areas
        /\ (\A k : Holds(b, k) = IF Gone(n - 1, k) THEN {} ELSE Holds(a, k))
        /\ bgenv_user_free(b) >= bgenv_user_free(a)
    BY <1>9
  <2>2. c[n] = Unset(b, r[n])
    BY <1>1, <1>7
  <2> HIDE DEF b
  <2>3. /\ c[n] \in Areas
        /\ \A j : j # r[n] => Holds(c[n], j) = Holds(b, j)
        /\ Holds(c[n], r[n]) = {}
        /\ bgenv_user_free(c[n]) >= bgenv_user_free(b)
    BY <2>1, <2>2, UnsetHolds
  <2>4. bgenv_user_free(c[n]) >= bgenv_user_free(a)
    <3>1. bgenv_user_free(a) \in Int /\ bgenv_user_free(b) \in Int
          /\ bgenv_user_free(c[n]) \in Int
      BY <2>1, <2>3, FreeType DEF Areas
    <3> QED BY <3>1, <2>1, <2>3
  <2>5. ASSUME NEW k PROVE Holds(c[n], k) = IF Gone(n, k) THEN {} ELSE Holds(a, k)
    <3>1. Gone(n, k) <=> Gone(n - 1, k) \/ r[n] = k
      BY <1>1
    <3>2. CASE r[n] = k
      BY <3>1, <3>2, <2>3
    <3>3. CASE r[n] # k
      <4> HIDE DEF Gone
      <4> QED BY <3>1, <3>3, <2>1, <2>3
    <3> QED BY <3>2, <3>3
  <2>6. Exact(n) /\ n \in 0 .. N
    <3> HIDE DEF Gone
    <3> QED BY <1>1, <2>3, <2>4, <2>5
  <2> HIDE DEF Exact
  <2> QED BY <2>6
<1>10. N \in G
  <2> HIDE DEF G
  <2>1. \A n \in 1 .. N : n - 1 \in G => n \in G
    BY <1>9
  <2>2. \A n \in 0 .. N : n \in G
    BY <2>1, <1>1, <1>8, CountUp
  <2> QED BY <2>2, <1>1
<1>11. Collected(a, r) = c[N]
  BY DEF Collected, c, N
<1> QED
  BY <1>1, <1>10, <1>11

(***************************************************************************)
(* Part 3: the calls.                                                      *)
(***************************************************************************)

UInv ==
    /\ area \in Areas
    /\ gc \in Seq(Keys) /\ Len(gc) <= MaxGc
    /\ finalized \in BOOLEAN
    /\ call \in Calls

(* What a set does, by its result. *)
SetDone(k, v, r) ==
    /\ call' = Set(k, v, r)
    /\ r \in {"ok", "ENOMEM"}
    /\ area' \in Areas
    /\ \A j : j # k => Holds(area', j) = Holds(area, j)
    /\ r = "ok" => Holds(area', k) = {v}
    /\ r = "ENOMEM" => RecordSize(k, v.len) >= bgenv_user_free(Unset(area, k))
    /\ ~Tight => bgenv_user_free(area') >= 1

(* Every outcome of bgenv_set_uservar. *)
LEMMA SetStep ==
    ASSUME UInv, NEW k \in Keys, NEW v \in Value, bgenv_set_uservar(k, v)
    PROVE  \E r : SetDone(k, v, r)
<1> DEFINE p == bgenv_find_uservar(area, k)
           new == [key |-> k, val |-> v]
           n == RecordSize(k, v.len)
<1>1. area \in Areas /\ area \in Seq(Var) /\ bgenv_user_free(area) >= 1
      /\ bgenv_user_free(area) \in Int
  BY FreeType DEF UInv, Areas, bgenv_set_uservar, Walkable
<1>2. new \in Var /\ new.key = k /\ new.val = v
  BY DEF Var
<1>3. Size(new) = n /\ n \in Int
  BY <1>2, SizeType DEF Size
<1>4. InsertNew(k, v) \/ Overwrite(k, v) \/ Resize(k, v)
  BY DEF bgenv_set_uservar
<1> HIDE DEF new, n
<1>5. CASE InsertNew(k, v)
  <2>1. p = 0 /\ \A q \in DOMAIN area : area[q].key # k
    BY <1>1, <1>5, Found DEF InsertNew
  <2>2. Unset(area, k) = area
    BY <2>1 DEF Unset
  <2>3. CASE AllocFits(area, n)
    <3>1. area' = Append(area, new) /\ call' = Set(k, v, "ok")
      BY <1>5, <2>3 DEF InsertNew, new, n
    <3>2. bgenv_user_free(Append(area, new)) = bgenv_user_free(area) - n
      BY <1>1, <1>2, <1>3, FreeAppend
    <3>3. bgenv_user_free(area') >= 1
      BY <3>1, <3>2, <1>1, <1>3, <2>3 DEF AllocFits
    <3>4. /\ area' \in Areas
          /\ \A j : j # k => Holds(area', j) = Holds(area, j)
          /\ Holds(area', k) = {v}
      BY <3>1, <1>1, <1>2, <2>1, AppendHolds
    <3>5. SetDone(k, v, "ok")
      BY <3>1, <3>3, <3>4 DEF SetDone
    <3> QED BY <3>5
  <2>4. CASE ~AllocFits(area, n)
    <3>1. area' = area /\ call' = Set(k, v, "ENOMEM")
      BY <1>5, <2>4 DEF InsertNew, n
    <3>2. n >= bgenv_user_free(area)
      BY <1>1, <1>3, <2>4 DEF AllocFits
    <3>3. SetDone(k, v, "ENOMEM")
      BY <3>1, <3>2, <1>1, <2>2 DEF SetDone, n
    <3> QED BY <3>3
  <2> QED BY <2>3, <2>4
<1>6. CASE Overwrite(k, v)
  <2>1. /\ p # 0 /\ area[p].val.len = v.len
        /\ area' = ReplaceAt(area, p, new) /\ call' = Set(k, v, "ok")
    BY <1>6 DEF Overwrite, new
  <2>2. p \in DOMAIN area /\ area[p].key = k
    BY <1>1, <2>1, Found
  <2>3. Size(area[p]) = Size(new)
    BY <2>1, <2>2, <1>2 DEF Size
  <2> HIDE DEF p
  <2>4. bgenv_user_free(area') >= 1
    BY <1>1, <1>2, <2>1, <2>2, <2>3, FreeReplace
  <2>5. /\ area' \in Areas
        /\ \A j : j # k => Holds(area', j) = Holds(area, j)
        /\ Holds(area', k) = {v}
    BY <2>1, <2>2, <1>1, <1>2, ReplaceHolds
  <2>6. SetDone(k, v, "ok")
    BY <2>1, <2>4, <2>5 DEF SetDone
  <2> QED BY <2>6
<1>7. CASE Resize(k, v)
  <2> DEFINE rest == RemoveAt(area, p)
  <2>1. p # 0 /\ MayAsk(k, v.len)
    BY <1>7 DEF Resize
  <2>2. p \in DOMAIN area /\ area[p].key = k
    BY <1>1, <2>1, Found
  <2>3. Unset(area, k) = rest
    BY <2>1 DEF Unset, bgenv_del_uservar
  <2>4. /\ rest \in Areas
        /\ \A j : j # k => Holds(rest, j) = Holds(area, j)
        /\ \A q \in DOMAIN rest : rest[q].key # k
    BY <1>1, <2>2, RemoveHolds
  <2>5. bgenv_user_free(rest) >= 1 /\ bgenv_user_free(rest) \in Int
    <3>1. bgenv_user_free(rest) >= bgenv_user_free(area)
      BY <1>1, <2>3, UnsetHolds
    <3>2. bgenv_user_free(rest) \in Int
      BY <2>4, FreeType DEF Areas
    <3> QED BY <3>1, <3>2, <1>1
  <2>6. Tight \/ n < bgenv_user_free(rest) \/ n > bgenv_user_free(rest) + 1
    BY <2>1, <2>3 DEF MayAsk, n
  <2>7. CASE ReallocFits(rest, n)
    <3>1. area' = Append(rest, new) /\ call' = Set(k, v, "ok")
      BY <1>7, <2>7 DEF Resize, bgenv_del_uservar, new, n
    <3> HIDE DEF rest
    <3>2. bgenv_user_free(Append(rest, new)) = bgenv_user_free(rest) - n
      BY <2>4, <1>2, <1>3, FreeAppend DEF Areas
    <3>3. ~Tight => bgenv_user_free(area') >= 1
      BY <3>1, <3>2, <2>5, <2>6, <1>3, <2>7 DEF ReallocFits
    <3>4. /\ area' \in Areas
          /\ \A j : j # k => Holds(area', j) = Holds(rest, j)
          /\ Holds(area', k) = {v}
      BY <3>1, <1>2, <2>4, AppendHolds
    <3>5. SetDone(k, v, "ok")
      BY <3>1, <3>3, <3>4, <2>4 DEF SetDone
    <3> QED BY <3>5
  <2>8. CASE ~ReallocFits(rest, n)
    <3>1. area' = rest /\ call' = Set(k, v, "ENOMEM")
      BY <1>7, <2>8 DEF Resize, bgenv_del_uservar, n
    <3> HIDE DEF rest
    <3>2. n >= bgenv_user_free(rest)
      BY <1>3, <2>5, <2>8 DEF ReallocFits
    <3>3. SetDone(k, v, "ENOMEM")
      BY <3>1, <3>2, <2>3, <2>4, <2>5 DEF SetDone, n
    <3> QED BY <3>3
  <2> QED BY <2>7, <2>8
<1> QED
  BY <1>4, <1>5, <1>6, <1>7

(* The empty area. *)
LEMMA EmptyArea == << >> \in Areas /\ bgenv_user_free(<< >>) >= 1
<1>1. << >> \in Areas
  BY DEF Areas, Unique
<1> QED
  BY <1>1, FreeEmpty, AreaAssumption

(* Every call keeps the keys apart, and the closing byte where the caller  *)
(* is not Tight.                                                           *)
LEMMA UserVarsStep ==
    ASSUME UInv, [Next]_vars
    PROVE  UInv' /\ (~Tight /\ bgenv_user_free(area) >= 1 => bgenv_user_free(area') >= 1)
<1>1. /\ area \in Areas /\ gc \in Seq(Keys) /\ Len(gc) <= MaxGc
      /\ finalized \in BOOLEAN /\ call \in Calls /\ bgenv_user_free(area) \in Int
  BY FreeType DEF UInv, Areas
<1>2. ASSUME NEW k \in Keys, NEW v \in Value, bgenv_set_uservar(k, v)
      PROVE  UInv' /\ (~Tight => bgenv_user_free(area') >= 1)
  <2>1. PICK r : SetDone(k, v, r)
    BY <1>2, SetStep
  <2>2. Set(k, v, r) \in Calls
    BY <2>1 DEF SetDone, Set, Calls
  <2>3. area' \in Areas /\ call' \in Calls /\ (~Tight => bgenv_user_free(area') >= 1)
    BY <2>1, <2>2 DEF SetDone
  <2>4. gc' = gc /\ finalized' = finalized
    BY <1>2 DEF bgenv_set_uservar
  <2> QED BY <1>1, <2>3, <2>4 DEF UInv
<1>3. ASSUME NEW k \in Keys, DeleteVar(k)
      PROVE  UInv' /\ bgenv_user_free(area') >= bgenv_user_free(area)
  <2>1. area' = Unset(area, k) /\ call' = Delete(k) /\ gc' = gc /\ finalized' = finalized
    BY <1>3 DEF DeleteVar
  <2>2. Delete(k) \in Calls
    BY DEF Delete, Calls
  <2>3. area' \in Areas /\ bgenv_user_free(area') >= bgenv_user_free(area)
    BY <1>1, <2>1, UnsetHolds
  <2> QED BY <1>1, <2>1, <2>2, <2>3 DEF UInv
<1>4. ASSUME NEW k \in Keys, ebg_env_register_gc_var(k)
      PROVE  UInv' /\ area' = area
  <2>1. gc' = Append(gc, k) /\ call' = Other("register") /\ area' = area
        /\ finalized' = finalized /\ Len(gc) < MaxGc
    BY <1>4 DEF ebg_env_register_gc_var
  <2>2. gc' \in Seq(Keys) /\ Len(gc') = Len(gc) + 1
    BY <1>1, <2>1
  <2>3. Len(gc') <= MaxGc
    BY <1>1, <2>1, <2>2, DataAssumption
  <2>4. Other("register") \in Calls
    BY DEF Other, Calls
  <2> QED BY <1>1, <2>1, <2>2, <2>3, <2>4 DEF UInv
<1>5. ASSUME ebg_env_finalize_update
      PROVE  UInv' /\ bgenv_user_free(area') >= bgenv_user_free(area)
  <2>1. area' = Collected(area, gc) /\ call' = Other("finalize") /\ gc' = gc
        /\ finalized' = TRUE
    BY <1>5 DEF ebg_env_finalize_update
  <2>2. Other("finalize") \in Calls
    BY DEF Other, Calls
  <2>3. area' \in Areas /\ bgenv_user_free(area') >= bgenv_user_free(area)
    BY <1>1, <2>1, CollectedHolds
  <2> QED BY <1>1, <2>1, <2>2, <2>3 DEF UInv
<1>6. ASSUME Reopen
      PROVE  UInv' /\ (area' = area \/ area' = << >>)
  <2>1. (area' = area \/ area' = << >>) /\ call' = Other("reopen") /\ gc' = << >>
        /\ finalized' = FALSE
    BY <1>6 DEF Reopen
  <2>2. Other("reopen") \in Calls
    BY DEF Other, Calls
  <2>3. << >> \in Seq(Keys) /\ Len(<< >>) <= MaxGc
    BY DataAssumption
  <2> QED BY <1>1, <2>1, <2>2, <2>3, EmptyArea DEF UInv
<1>7. CASE UNCHANGED vars
  BY <1>1, <1>7 DEF UInv, vars
<1>8. area' \in Areas => bgenv_user_free(area') \in Int
  BY FreeType DEF Areas
<1>9. UInv' => area' \in Areas
  BY DEF UInv
<1> QED
  <2>1. CASE \E k \in Keys, v \in Value : bgenv_set_uservar(k, v)
    BY <1>2, <2>1
  <2>2. CASE \E k \in Keys : DeleteVar(k)
    BY <1>1, <1>3, <1>8, <1>9, <2>2
  <2>3. CASE \E k \in Keys : ebg_env_register_gc_var(k)
    BY <1>4, <2>3
  <2>4. CASE ebg_env_finalize_update
    BY <1>1, <1>5, <1>8, <1>9, <2>4
  <2>5. CASE Reopen
    BY <1>6, <2>5, EmptyArea
  <2>6. CASE UNCHANGED vars
    BY <1>1, <1>7, <2>6 DEF vars
  <2> QED BY <2>1, <2>2, <2>3, <2>4, <2>5, <2>6 DEF Next

(***************************************************************************)
(* Part 4: the theorems.                                                   *)
(***************************************************************************)

(* UInv is inductive: whatever is set, deleted, registered, collected and  *)
(* read back, the area holds variables with keys of their own.             *)
THEOREM UserVarsInvariance == Spec => []UInv
<1>1. Init => UInv
  <2>1. Other("reopen") \in Calls
    BY DEF Other, Calls
  <2>2. << >> \in Seq(Keys) /\ Len(<< >>) <= MaxGc
    BY DataAssumption
  <2> QED BY <2>1, <2>2, EmptyArea DEF Init, UInv
<1>2. UInv /\ [Next]_vars => UInv'
  BY UserVarsStep
<1> QED
  BY <1>1, <1>2, PTL DEF Spec

(* No call of bgenv_set_uservar, and no collection, ever leaves two        *)
(* records with one key: what bgenv_find_uservar finds is all there is.    *)
THEOREM OneRecordPerKey == Spec => []KeysUnique
<1>1. UInv => KeysUnique
  BY DEF UInv, Areas, Unique, KeysUnique
<1> QED
  BY <1>1, UserVarsInvariance, PTL

(* The calls that name a key. *)
LEMMA KeyedCall ==
    ASSUME UInv, Next, call'.op \in {"set", "delete"}
    PROVE  \/ \E k \in Keys, v \in Value : \E r : SetDone(k, v, r)
           \/ \E k \in Keys : area' = Unset(area, k) /\ call' = Delete(k)
<1>1. CASE \E k \in Keys, v \in Value : bgenv_set_uservar(k, v)
  BY <1>1, SetStep
<1>2. CASE \E k \in Keys : DeleteVar(k)
  BY <1>2 DEF DeleteVar
<1>3. CASE \E k \in Keys : ebg_env_register_gc_var(k)
  BY <1>3 DEF ebg_env_register_gc_var, Other
<1>4. CASE ebg_env_finalize_update
  BY <1>4 DEF ebg_env_finalize_update, Other
<1>5. CASE Reopen
  BY <1>5 DEF Reopen, Other
<1> QED
  BY <1>1, <1>2, <1>3, <1>4, <1>5 DEF Next

(* A call is what it reports to be. *)
LEMMA OtherCall ==
    ASSUME UInv, Next
    PROVE  /\ call'.op = "finalize" => ebg_env_finalize_update
           /\ call'.op = "reopen" => Reopen
<1>1. CASE \E k \in Keys, v \in Value : bgenv_set_uservar(k, v)
  BY <1>1, SetStep DEF SetDone, Set
<1>2. CASE \E k \in Keys : DeleteVar(k)
  BY <1>2 DEF DeleteVar, Delete
<1>3. CASE \E k \in Keys : ebg_env_register_gc_var(k)
  BY <1>3 DEF ebg_env_register_gc_var, Other
<1>4. CASE ebg_env_finalize_update
  BY <1>4 DEF ebg_env_finalize_update, Other
<1>5. CASE Reopen
  BY <1>5 DEF Reopen, Other
<1> QED
  BY <1>1, <1>2, <1>3, <1>4, <1>5 DEF Next

(* bgenv_set_uservar and a deletion, also where the record has to move,    *)
(* leave every other variable as it was, and what was set successfully is  *)
(* what is then found.                                                     *)
THEOREM SetLocal == Spec => SetIsLocal
<1>1. ASSUME UInv, [Next]_vars
      PROVE  [call'.op \in {"set", "delete"} =>
                /\ \A j \in Keys \ {call'.key} : Holds(area, j)' = Holds(area, j)
                /\ call'.op = "set" /\ call'.ret = "ok"
                   => Holds(area, call.key)' = {call'.val}]_vars
  <2> SUFFICES ASSUME Next, call'.op \in {"set", "delete"}
               PROVE  /\ \A j \in Keys \ {call'.key} : Holds(area', j) = Holds(area, j)
                      /\ call'.op = "set" /\ call'.ret = "ok"
                         => Holds(area', call'.key) = {call'.val}
    BY <1>1 DEF Holds
  <2>1. ASSUME NEW k \in Keys, NEW v \in Value, NEW r, SetDone(k, v, r)
        PROVE  /\ \A j \in Keys \ {call'.key} : Holds(area', j) = Holds(area, j)
               /\ call'.op = "set" /\ call'.ret = "ok"
                  => Holds(area', call'.key) = {call'.val}
    <3>1. call'.key = k /\ call'.val = v /\ call'.ret = r
      BY <2>1 DEF SetDone, Set
    <3> QED BY <2>1, <3>1 DEF SetDone
  <2>2. ASSUME NEW k \in Keys, area' = Unset(area, k), call' = Delete(k)
        PROVE  /\ \A j \in Keys \ {call'.key} : Holds(area', j) = Holds(area, j)
               /\ call'.op # "set"
    <3>1. call'.key = k /\ call'.op = "delete"
      BY <2>2 DEF Delete
    <3>2. area \in Areas
      BY <1>1 DEF UInv
    <3> QED BY <2>2, <3>1, <3>2, UnsetHolds
  <2> QED BY <1>1, <2>1, <2>2, KeyedCall
<1> QED
  BY <1>1, UserVarsInvariance, PTL DEF Spec, SetIsLocal

(* bgenv_set_uservar answers ENOMEM only if the variable, in place of the  *)
(* one it replaces, would leave no byte for the end of the area.           *)
THEOREM Refused == Spec => RefusedOnlyIfFull
<1>1. ASSUME UInv, [Next]_vars
      PROVE  [call'.op = "set" /\ call'.ret = "ENOMEM"
                => RecordSize(call'.key, call'.val.len)
                       >= bgenv_user_free(Unset(area, call'.key))]_vars
  <2> SUFFICES ASSUME Next, call'.op = "set", call'.ret = "ENOMEM"
               PROVE  RecordSize(call'.key, call'.val.len)
                          >= bgenv_user_free(Unset(area, call'.key))
    BY <1>1
  <2>1. ASSUME NEW k \in Keys, NEW v \in Value, NEW r, SetDone(k, v, r)
        PROVE  RecordSize(call'.key, call'.val.len)
                   >= bgenv_user_free(Unset(area, call'.key))
    <3>1. call'.key = k /\ call'.val = v /\ r = "ENOMEM"
      BY <2>1 DEF SetDone, Set
    <3> QED BY <2>1, <3>1 DEF SetDone
  <2>2. ~\E k \in Keys : area' = Unset(area, k) /\ call' = Delete(k)
    BY DEF Delete
  <2> QED BY <1>1, <2>1, <2>2, KeyedCall
<1> QED
  BY <1>1, UserVarsInvariance, PTL DEF Spec, RefusedOnlyIfFull

(* ebg_env_finalize_update deletes every registered variable, and no other *)
(* one, however often and in whatever order they were registered.          *)
THEOREM Exact == Spec => GcIsExact
<1>1. ASSUME UInv, [Next]_vars
      PROVE  [call'.op = "finalize" =>
                \A k \in Keys :
                    Holds(area, k)' = IF \E p \in DOMAIN gc : gc[p] = k
                                      THEN {} ELSE Holds(area, k)]_vars
  <2> SUFFICES ASSUME Next, call'.op = "finalize"
               PROVE  \A k \in Keys : Holds(area', k) = IF \E p \in DOMAIN gc : gc[p] = k
                                                        THEN {} ELSE Holds(area, k)
    BY <1>1 DEF Holds
  <2>1. ebg_env_finalize_update
    BY <1>1, OtherCall
  <2>2. area' = Collected(area, gc) /\ area \in Areas /\ gc \in Seq(Keys)
    BY <1>1, <2>1 DEF ebg_env_finalize_update, UInv
  <2> QED BY <2>2, CollectedHolds
<1> QED
  BY <1>1, UserVarsInvariance, PTL DEF Spec, GcIsExact

(* As long as no replacement is asked for that would take the last byte,   *)
(* the area keeps its closing byte and the count of free bytes never wraps.*)
THEOREM Room ==
    ASSUME ~Tight
    PROVE  Spec => [](TypeOK /\ AreaTerminated)
<1>1. Init => AreaTerminated
  BY EmptyArea DEF Init, AreaTerminated
<1>2. UInv /\ AreaTerminated /\ [Next]_vars => AreaTerminated'
  BY UserVarsStep DEF AreaTerminated
<1>3. UInv /\ AreaTerminated => TypeOK
  <2> SUFFICES ASSUME UInv, AreaTerminated PROVE TypeOK
    OBVIOUS
  <2>1. area \in Seq(Var)
    BY DEF UInv, Areas
  <2>2. bgenv_user_free(area) \in 0 .. ENV_MEM_USERVARS
    BY <2>1, FreeType, AreaAssumption DEF AreaTerminated
  <2> QED BY <2>1, <2>2 DEF UInv, TypeOK
<1> QED
  BY <1>1, <1>2, <1>3, UserVarsInvariance, PTL DEF Spec

(* And then what one process writes the next one accepts: the validation   *)
(* of read_env never throws the environment away.                          *)
THEOREM Accepted ==
    ASSUME ~Tight
    PROVE  Spec => ReopenKeeps
<1>1. ASSUME UInv, AreaTerminated, [Next]_vars
      PROVE  [call'.op = "reopen" => area' = area]_vars
  <2> SUFFICES ASSUME Next, call'.op = "reopen" PROVE area' = area
    BY <1>1
  <2>1. Reopen
    BY <1>1, OtherCall
  <2>2. area \in Seq(Var) /\ bgenv_user_free(area) >= 1
    BY <1>1 DEF UInv, Areas, AreaTerminated
  <2> QED BY <2>1, <2>2, Validates DEF Reopen
<1> QED
  BY <1>1, UserVarsInvariance, Room, PTL DEF Spec, ReopenKeeps
=============================================================================
