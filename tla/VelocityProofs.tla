--------------------------- MODULE VelocityProofs ---------------------------
(***************************************************************************)
(* What a velocity window counts, for any window, cap, thresholds and      *)
(* bounds, and for transactions that are any time late.  The window is     *)
(* described by how many of its timestamps are at t or after it, for every *)
(* t: as many as came there since the last sweep, but for what the cap has *)
(* cut and what has expired.                                                *)
(***************************************************************************)
EXTENDS VelocityWindow, CollectionProofs

Least(a, b) == IF a < b THEN a ELSE b
Greatest(a, b) == IF a < b THEN b ELSE a

LEMMA ConstantsAreNumbers ==
  /\ Window \in Nat /\ Retention \in Nat /\ Skew \in Nat /\ Horizon \in Nat
  /\ MaxArrivals \in Nat /\ High \in Nat /\ Extreme \in Nat /\ MaxEvents \in Nat
  /\ High >= 1 /\ Extreme >= 1 /\ MaxEvents >= 1
  /\ High <= Extreme /\ Extreme <= MaxEvents /\ Window <= Retention
BY ConstantsAssumption

LEMMA TimesAreFinite == IsFiniteSet(Times) /\ (\A u \in Times : u \in Nat) /\ 0 \in Times
<1>1. Horizon + Skew \in Nat /\ Times = 0 .. Horizon + Skew
  BY ConstantsAreNumbers DEF Times
<1>2. QED
  BY <1>1, FS_Interval

----------------------------------------------------------------------------
(* What arrived. *)

(* The transactions of f dated t or later. *)
From(f, t) == SumFunctionOnSet(f, {u \in Times : u >= t})

Arrivals == [Times -> Nat]

LEMMA FromType ==
  ASSUME NEW f \in Arrivals, NEW t \in Int
  PROVE  From(f, t) \in Nat
<1> DEFINE S == {u \in Times : u >= t}
<1>1. IsFiniteSet(S) /\ \A u \in S : f[u] \in Nat
  BY TimesAreFinite, FS_Subset DEF Arrivals
<1> HIDE DEF S
<1>2. SumFunctionOnSet(f, S) \in Nat
  BY <1>1, SumType
<1>3. QED
  BY <1>2 DEF From, S

(* From a to b: those from a, but those after b. *)
LEMMA FromBetween ==
  ASSUME NEW f \in Arrivals, NEW a \in Int, NEW b \in Int, a <= b + 1
  PROVE  SumFunctionOnSet(f, {u \in Times : a <= u /\ u <= b}) = From(f, a) - From(f, b + 1)
<1> DEFINE S == {u \in Times : a <= u /\ u <= b}
           T == {u \in Times : u >= b + 1}
           U == {u \in Times : u >= a}
<1>1. S \cup T = U /\ S \cap T = {} /\ S \subseteq Times /\ T \subseteq Times
  <2>1. \A u \in Times : (u >= a <=> (a <= u /\ u <= b) \/ u >= b + 1)
                         /\ ~((a <= u /\ u <= b) /\ u >= b + 1)
    BY TimesAreFinite
  <2>2. QED
    BY <2>1
<1>2. IsFiniteSet(S) /\ IsFiniteSet(T) /\ \A u \in S \cup T : f[u] \in Nat
  BY <1>1, TimesAreFinite, FS_Subset DEF Arrivals
<1> HIDE DEF S, T, U
<1>3. SumFunctionOnSet(f, S \cup T) = SumFunctionOnSet(f, S) + SumFunctionOnSet(f, T)
  BY <1>1, <1>2, SumUnion
<1>4. SumFunctionOnSet(f, S) \in Nat /\ SumFunctionOnSet(f, T) \in Nat
  BY <1>2, SumType
<1>5. SumFunctionOnSet(f, U) = SumFunctionOnSet(f, S) + SumFunctionOnSet(f, T)
  BY <1>1, <1>3
<1>6. SumFunctionOnSet(f, S) = SumFunctionOnSet(f, U) - SumFunctionOnSet(f, T)
  BY <1>4, <1>5
<1>7. QED
  BY <1>6 DEF From, S, T, U

LEMMA FromFalls ==
  ASSUME NEW f \in Arrivals, NEW a \in Int, NEW b \in Int, a <= b
  PROVE  From(f, b) <= From(f, a)
<1> DEFINE T == {u \in Times : u >= b}
           U == {u \in Times : u >= a}
<1>1. T \in SUBSET U /\ IsFiniteSet(U) /\ \A u \in U : f[u] \in Nat
  <2>1. \A u \in Times : u >= b => u >= a
    BY TimesAreFinite
  <2>2. IsFiniteSet(U)
    BY TimesAreFinite, FS_Subset
  <2>3. QED
    BY <2>1, <2>2 DEF Arrivals
<1> HIDE DEF T, U
<1>2. SumFunctionOnSet(f, T) <= SumFunctionOnSet(f, U)
  BY <1>1, SumMonotonic
<1>3. QED
  BY <1>2 DEF From, T, U

(* Those at t make the difference between from t on and after t. *)
LEMMA FromAt ==
  ASSUME NEW f \in Arrivals, NEW t \in Times
  PROVE  From(f, t) = From(f, t + 1) + f[t]
<1>1. t \in Int /\ f[t] \in Nat
  BY TimesAreFinite DEF Arrivals
<1> DEFINE S == {u \in Times : t <= u /\ u <= t}
<1>2. S = {t}
  <2>1. \A u \in Times : t <= u /\ u <= t <=> u = t
    BY TimesAreFinite
  <2>2. QED
    BY <2>1
<1>3. SumFunctionOnSet(f, S) = f[t]
  <2> HIDE DEF S
  <2>1. SumFunctionOnSet(f, {t}) = f[t]
    BY <1>1, SumOfOne
  <2>2. QED
    BY <1>2, <2>1
<1>4. SumFunctionOnSet(f, S) = From(f, t) - From(f, t + 1)
  BY <1>1, FromBetween
<1> HIDE DEF S
<1>5. From(f, t) \in Nat /\ From(f, t + 1) \in Nat
  BY <1>1, FromType
<1>6. QED
  BY <1>1, <1>3, <1>4, <1>5

(* One more at ts. *)
LEMMA FromMore ==
  ASSUME NEW f \in Arrivals, NEW ts \in Times, NEW t \in Int
  PROVE  LET g == [f EXCEPT ![ts] = @ + 1]
         IN  g \in Arrivals /\ From(g, t) = IF t <= ts THEN From(f, t) + 1 ELSE From(f, t)
<1> DEFINE g == [f EXCEPT ![ts] = @ + 1]
           S == {u \in Times : u >= t}
<1>1. /\ g \in Arrivals /\ g[ts] = f[ts] + 1 /\ f[ts] \in Nat
      /\ \A u \in Times : f[u] \in Nat /\ g[u] \in Nat /\ (u # ts => g[u] = f[u])
  BY DEF Arrivals
<1>2. IsFiniteSet(S) /\ S \subseteq Times
  BY TimesAreFinite, FS_Subset
<1>3. t <= ts <=> ts \in S
  BY TimesAreFinite
<1> HIDE DEF g, S
<1>4. CASE ts \in S
  <2>1. SumFunctionOnSet(g, S) = SumFunctionOnSet(f, S) - f[ts] + g[ts]
    BY <1>1, <1>2, <1>4, SumChange
  <2>2. SumFunctionOnSet(f, S) \in Nat
    BY <1>1, <1>2, SumType
  <2>3. SumFunctionOnSet(g, S) = SumFunctionOnSet(f, S) + 1
    BY <1>1, <2>1, <2>2
  <2>4. QED
    BY <1>1, <1>3, <1>4, <2>3 DEF From, S, g
<1>5. CASE ts \notin S
  <2>1. \A u \in S : f[u] \in Nat /\ g[u] = f[u]
    BY <1>1, <1>2, <1>5
  <2>2. SumFunctionOnSet(g, S) = SumFunctionOnSet(f, S)
    BY <1>2, <2>1, SumSame
  <2>3. QED
    BY <1>1, <1>3, <1>5, <2>2 DEF From, S, g
<1>6. QED
  BY <1>4, <1>5

(* Kept in terms of From. *)
LEMMA KeptFrom ==
  ASSUME since \in Arrivals, NEW a \in Int
  PROVE  /\ Kept(a, Latest) = From(since, a)
         /\ \A b \in Int : a <= b + 1 => Kept(a, b) = From(since, a) - From(since, b + 1)
         /\ \A b \in Int : a > b => Kept(a, b) = 0
<1>1. {t \in Times : a <= t /\ t <= Latest} = {u \in Times : u >= a}
  BY ConstantsAreNumbers DEF Times, Latest
<1>2. Kept(a, Latest) = From(since, a)
  BY <1>1 DEF Kept, From
<1>3. ASSUME NEW b \in Int, a <= b + 1
      PROVE  Kept(a, b) = From(since, a) - From(since, b + 1)
  BY <1>3, FromBetween DEF Kept
<1>4. ASSUME NEW b \in Int, a > b PROVE Kept(a, b) = 0
  <2>1. {t \in Times : a <= t /\ t <= b} = {}
    <3>1. \A u \in Times : ~(a <= u /\ u <= b)
      BY <1>4, TimesAreFinite
    <3>2. QED
      BY <3>1
  <2>2. QED
    BY <2>1, SumEmpty DEF Kept
<1>5. QED
  BY <1>2, <1>3, <1>4

----------------------------------------------------------------------------
(* Ascending sequences of timestamps. *)

Ascending(s) == s \in Seq(Times) /\ \A i, j \in 1 .. Len(s) : j <= i => s[j] <= s[i]

(* How many of them are t or later. *)
Count(s, t) == Len(s) - Below(s, t)

LEMMA AscendingType ==
  ASSUME NEW s, Ascending(s)
  PROVE  s \in Seq(Times) /\ Len(s) \in Nat /\ \A i \in 1 .. Len(s) : s[i] \in Nat /\ s[i] \in Times
BY TimesAreFinite DEF Ascending

LEMMA BelowSplits ==
  ASSUME NEW s, Ascending(s), NEW t \in Int
  PROVE  /\ Below(s, t) \in 0 .. Len(s)
         /\ \A i \in 1 .. Len(s) : s[i] < t <=> i <= Below(s, t)
<1> DEFINE S == {i \in 1 .. Len(s) : s[i] >= t} \cup {Len(s) + 1}
           m == Min(S)
<1>1. Len(s) \in Nat /\ \A i \in 1 .. Len(s) : s[i] \in Nat
  BY AscendingType
<1>2. S \in SUBSET Nat /\ S # {} /\ S \subseteq 1 .. Len(s) + 1
  BY <1>1
<1>3. \A i \in 1 .. Len(s) : i \in S <=> s[i] >= t
  BY <1>1
<1>4. Below(s, t) = m - 1
  BY DEF Below
<1> HIDE DEF S
<1>5. m \in S /\ \A y \in S : m <= y
  BY <1>2, MinIsLeast
<1> HIDE DEF m
<1>6. m \in 1 .. Len(s) + 1
  BY <1>2, <1>5
<1>7. ASSUME NEW i \in 1 .. Len(s) PROVE s[i] < t <=> i <= m - 1
  <2>1. CASE i < m
    <3>1. i \notin S
      BY <1>1, <1>5, <1>6, <2>1
    <3>2. QED
      BY <1>1, <1>3, <1>6, <2>1, <3>1
  <2>2. CASE i >= m
    <3>1. m \in 1 .. Len(s) /\ s[m] >= t
      BY <1>1, <1>3, <1>5, <1>6, <2>2
    <3>2. s[m] <= s[i]
      BY <2>2, <3>1 DEF Ascending
    <3>3. ~(s[i] < t) /\ ~(i <= m - 1)
      BY <1>1, <1>6, <2>2, <3>1, <3>2
    <3>4. QED
      BY <3>3
  <2>3. QED
    BY <1>6, <2>1, <2>2
<1>8. QED
  BY <1>1, <1>4, <1>6, <1>7

LEMMA BelowIs ==
  ASSUME NEW s, Ascending(s), NEW t \in Int, NEW k \in 0 .. Len(s),
         \A i \in 1 .. Len(s) : s[i] < t <=> i <= k
  PROVE  Below(s, t) = k
<1> DEFINE b == Below(s, t)
<1>1. b \in 0 .. Len(s) /\ \A i \in 1 .. Len(s) : i <= b <=> i <= k
  BY BelowSplits
<1>2. Len(s) \in Nat
  BY AscendingType
<1> HIDE DEF b
<1>3. CASE b < k
  BY <1>1, <1>2, <1>3
<1>4. CASE k < b
  BY <1>1, <1>2, <1>4
<1>5. QED
  BY <1>1, <1>2, <1>3, <1>4 DEF b

LEMMA CountFalls ==
  ASSUME NEW s, Ascending(s), NEW a \in Int, NEW b \in Int, a <= b
  PROVE  Count(s, b) \in Nat /\ Count(s, b) <= Count(s, a) /\ Count(s, a) \in Nat /\ Count(s, a) <= Len(s)
<1> DEFINE k == Below(s, a)
           l == Below(s, b)
<1>1. k \in 0 .. Len(s) /\ \A i \in 1 .. Len(s) : s[i] < a <=> i <= k
  BY BelowSplits
<1>2. l \in 0 .. Len(s) /\ \A i \in 1 .. Len(s) : s[i] < b <=> i <= l
  BY BelowSplits
<1>3. Len(s) \in Nat /\ \A i \in 1 .. Len(s) : s[i] \in Nat
  BY AscendingType
<1> HIDE DEF k, l
<1>4. k <= l
  <2>1. CASE k = 0
    BY <1>2, <2>1
  <2>2. CASE k # 0
    <3>1. k \in 1 .. Len(s) /\ s[k] < a
      BY <1>1, <2>2
    <3>2. s[k] < b
      BY <1>3, <3>1
    <3>3. QED
      BY <1>2, <3>1, <3>2
  <2>3. QED
    BY <2>1, <2>2
<1>5. QED
  BY <1>1, <1>2, <1>3, <1>4 DEF Count, k, l

(* Without its first d. *)
LEMMA DropCounts ==
  ASSUME NEW s, Ascending(s), NEW d \in 0 .. Len(s)
  PROVE  LET r == SubSeq(s, d + 1, Len(s))
         IN  /\ Ascending(r) /\ Len(r) = Len(s) - d
             /\ \A t \in Int : Count(r, t) = Least(Len(s) - d, Count(s, t))
<1> DEFINE n == Len(s)
           r == SubSeq(s, d + 1, n)
<1>1. n \in Nat /\ s \in Seq(Times) /\ d \in Int /\ 0 <= d /\ d <= n
      /\ \A i \in 1 .. n : s[i] \in Nat /\ s[i] \in Times
  BY AscendingType
<1>2. r \in Seq(Times) /\ Len(r) = n - d /\ \A i \in 1 .. n - d : r[i] = s[d + i]
  <2> DEFINE m == d + 1
             v == SubSeq(s, m, n)
  <2>1. m \in Int /\ m >= 1 /\ m <= n + 1 /\ n - m + 1 = n - d
    BY <1>1
  <2> HIDE DEF m
  <2>2. v \in Seq(Times) /\ Len(v) = n - m + 1 /\ \A i \in 1 .. n - m + 1 : v[i] = s[m + i - 1]
    BY <1>1, <2>1
  <2> HIDE DEF v
  <2>3. \A i \in 1 .. n - d : m + i - 1 = d + i
    BY <1>1 DEF m
  <2>4. r = v
    BY DEF v, m
  <2>5. QED
    BY <2>1, <2>2, <2>3, <2>4
<1> HIDE DEF r
<1>3. Ascending(r)
  <2>1. SUFFICES ASSUME NEW i \in 1 .. n - d, NEW j \in 1 .. n - d, j <= i PROVE r[j] <= r[i]
    BY <1>2 DEF Ascending
  <2>2. d + i \in 1 .. n /\ d + j \in 1 .. n /\ d + j <= d + i
    BY <1>1, <2>1
  <2>3. QED
    BY <1>2, <2>2 DEF Ascending
<1>4. ASSUME NEW t \in Int PROVE Count(r, t) = Least(n - d, Count(s, t))
  <2> DEFINE b == Below(s, t)
             k == IF b <= d THEN 0 ELSE b - d
  <2>1. b \in 0 .. n /\ \A i \in 1 .. n : s[i] < t <=> i <= b
    BY BelowSplits
  <2> HIDE DEF b
  <2>2. k \in 0 .. Len(r)
    BY <1>1, <1>2, <2>1
  <2>3. ASSUME NEW i \in 1 .. Len(r) PROVE r[i] < t <=> i <= k
    <3>1. d + i \in 1 .. n /\ r[i] = s[d + i] /\ (d + i <= b <=> i <= k) /\ i \in 1 .. n - d
      BY <1>1, <1>2, <2>1
    <3>2. s[d + i] < t <=> d + i <= b
      BY <2>1, <3>1
    <3>3. QED
      BY <3>1, <3>2
  <2>4. Below(r, t) = k
    <3> HIDE DEF k
    <3>1. QED
      BY <1>3, <2>2, <2>3, BelowIs
  <2>5. Count(r, t) = (n - d) - k /\ Count(s, t) = n - b
    BY <1>2, <2>4 DEF Count, b
  <2>6. CASE b <= d
    <3>1. k = 0 /\ n - d <= n - b
      BY <1>1, <2>1, <2>6
    <3> HIDE DEF k
    <3>2. QED
      BY <1>1, <2>1, <2>5, <3>1 DEF Least
  <2>7. CASE ~(b <= d)
    <3>1. k = b - d
      BY <1>1, <2>1, <2>7
    <3> HIDE DEF k
    <3>2. QED
      BY <1>1, <2>1, <2>5, <2>7, <3>1 DEF Least
  <2>8. QED
    BY <2>6, <2>7
<1>5. QED
  BY <1>2, <1>3, <1>4 DEF r

(* Expired: what is left are those from e on. *)
LEMMA SinceCounts ==
  ASSUME NEW s, Ascending(s), NEW e \in Int
  PROVE  /\ Ascending(Since(s, e)) /\ Len(Since(s, e)) <= Len(s)
         /\ \A t \in Int : Count(Since(s, e), t) = Least(Count(s, e), Count(s, t))
<1> DEFINE d == Below(s, e)
           r == SubSeq(s, d + 1, Len(s))
<1>1. d \in 0 .. Len(s) /\ Len(s) \in Nat
  BY BelowSplits, AscendingType
<1>2. Since(s, e) = r /\ Count(s, e) = Len(s) - d
  BY DEF Since, Count
<1> HIDE DEF d
<1>3. /\ Ascending(r) /\ Len(r) = Len(s) - d
      /\ \A t \in Int : Count(r, t) = Least(Len(s) - d, Count(s, t))
  BY <1>1, DropCounts
<1> HIDE DEF r
<1>4. QED
  BY <1>1, <1>2, <1>3

(* Capped: the newest n are left. *)
LEMMA KeepNewestCounts ==
  ASSUME NEW s, Ascending(s), NEW n \in Nat
  PROVE  /\ Ascending(KeepNewest(s, n)) /\ Len(KeepNewest(s, n)) <= n
         /\ \A t \in Int : Count(KeepNewest(s, n), t) = Least(n, Count(s, t))
<1>1. Len(s) \in Nat
  BY AscendingType
<1>2. CASE Len(s) <= n
  <2>1. KeepNewest(s, n) = s
    BY <1>2 DEF KeepNewest
  <2>2. \A t \in Int : Count(s, t) \in Nat /\ Count(s, t) <= Len(s)
    BY CountFalls
  <2>3. QED
    BY <1>1, <1>2, <2>1, <2>2 DEF Least
<1>3. CASE ~(Len(s) <= n)
  <2> DEFINE d == Len(s) - n
             r == SubSeq(s, d + 1, Len(s))
  <2>1. KeepNewest(s, n) = r
    BY <1>3 DEF KeepNewest
  <2>2. d \in 0 .. Len(s) /\ Len(s) - d = n
    BY <1>1, <1>3
  <2> HIDE DEF d
  <2>3. /\ Ascending(r) /\ Len(r) = Len(s) - d
        /\ \A t \in Int : Count(r, t) = Least(Len(s) - d, Count(s, t))
    BY <2>2, DropCounts
  <2> HIDE DEF r
  <2>4. QED
    BY <2>1, <2>2, <2>3
<1>4. QED
  BY <1>2, <1>3

(* With ts at its place. *)
LEMMA InsertCounts ==
  ASSUME NEW s, Ascending(s), NEW ts \in Times
  PROVE  LET r == Insert(s, ts)
         IN  /\ Ascending(r) /\ Len(r) = Len(s) + 1
             /\ \A t \in Int : Count(r, t) = IF t <= ts THEN Count(s, t) + 1 ELSE Count(s, t)
<1> DEFINE n == Len(s)
           c == Below(s, ts + 1)
           at == c + 1
           r == InsertAt(s, at, ts)
<1>1. n \in Nat /\ s \in Seq(Times) /\ ts \in Int /\ \A i \in 1 .. n : s[i] \in Nat /\ s[i] \in Times
  BY AscendingType, TimesAreFinite
<1>2. c \in 0 .. n /\ \A i \in 1 .. n : s[i] < ts + 1 <=> i <= c
  <2>1. ts + 1 \in Int
    BY <1>1
  <2>2. QED
    BY <2>1, BelowSplits
<1>3. Insert(s, ts) = r
  BY DEF Insert
<1> HIDE DEF c
<1>4. at \in 1 .. n + 1 /\ \A i \in 1 .. n : i < at <=> s[i] <= ts
  BY <1>1, <1>2
<1> HIDE DEF at
<1>5. /\ r \in Seq(Times) /\ Len(r) = n + 1
      /\ \A j \in 1 .. n + 1 : r[j] = IF j < at THEN s[j] ELSE IF j = at THEN ts ELSE s[j - 1]
  BY <1>1, <1>4, InsertedAt
<1> HIDE DEF r
<1>6. Ascending(r)
  <2>1. SUFFICES ASSUME NEW i \in 1 .. n + 1, NEW j \in 1 .. n + 1, j < i PROVE r[j] <= r[i]
    <3>1. \A i \in 1 .. n + 1 : r[i] \in Nat
      BY <1>5, TimesAreFinite
    <3>2. QED
      BY <1>1, <1>5, <2>1, <3>1 DEF Ascending
  <2>2. CASE i < at
    <3>1. i \in 1 .. n /\ j \in 1 .. n /\ j < at
      BY <1>1, <1>4, <2>1, <2>2
    <3>2. QED
      BY <1>1, <1>5, <2>1, <2>2, <3>1 DEF Ascending
  <2>3. CASE i = at
    <3>1. j \in 1 .. n /\ j < at
      BY <1>1, <1>4, <2>1, <2>3
    <3>2. QED
      BY <1>1, <1>4, <1>5, <2>3, <3>1
  <2>4. CASE i > at
    <3>1. i - 1 \in 1 .. n /\ r[i] = s[i - 1] /\ s[i - 1] > ts /\ s[i - 1] \in Nat
      <4>1. i - 1 \in 1 .. n /\ ~(i - 1 < at) /\ ~(i < at) /\ i # at
        BY <1>1, <1>4, <2>4
      <4>2. r[i] = s[i - 1] /\ s[i - 1] \in Nat
        BY <1>1, <1>5, <4>1
      <4>3. ~(s[i - 1] <= ts)
        BY <1>4, <4>1
      <4>4. QED
        BY <1>1, <4>1, <4>2, <4>3
    <3>2. CASE j < at
      <4>1. j \in 1 .. n /\ r[j] = s[j] /\ s[j] <= ts /\ s[j] \in Nat
        BY <1>1, <1>4, <1>5, <3>2
      <4>2. QED
        BY <1>1, <3>1, <4>1
    <3>3. CASE j = at
      BY <1>1, <1>5, <3>1, <3>3
    <3>4. CASE j > at
      <4>1. j - 1 \in 1 .. n /\ r[j] = s[j - 1] /\ j - 1 <= i - 1
        BY <1>1, <1>4, <1>5, <2>1, <3>4
      <4>2. QED
        BY <3>1, <4>1 DEF Ascending
    <3>5. QED
      BY <1>4, <3>2, <3>3, <3>4
  <2>5. QED
    BY <1>4, <2>2, <2>3, <2>4
<1>7. ASSUME NEW t \in Int
      PROVE  Count(r, t) = IF t <= ts THEN Count(s, t) + 1 ELSE Count(s, t)
  <2> DEFINE b == Below(s, t)
             k == IF t <= ts THEN b ELSE b + 1
  <2>1. b \in 0 .. n /\ \A i \in 1 .. n : s[i] < t <=> i <= b
    BY BelowSplits
  <2> HIDE DEF b
  <2>2. IF t <= ts THEN b < at ELSE at <= b + 1
    <3>1. CASE t <= ts
      <4>1. CASE b = 0
        BY <1>4, <3>1, <4>1
      <4>2. CASE b # 0
        <5>1. b \in 1 .. n /\ s[b] < t /\ s[b] \in Nat
          BY <1>1, <2>1, <4>2
        <5>2. s[b] <= ts
          BY <1>1, <3>1, <5>1
        <5>3. QED
          BY <1>4, <3>1, <5>1, <5>2
      <4>3. QED
        BY <4>1, <4>2
    <3>2. CASE ~(t <= ts)
      <4>1. CASE at = 1
        BY <2>1, <3>2, <4>1
      <4>2. CASE at # 1
        <5>1. at - 1 \in 1 .. n /\ at - 1 < at
          BY <1>1, <1>4, <4>2
        <5>2. s[at - 1] <= ts /\ s[at - 1] \in Nat
          BY <1>1, <1>4, <5>1
        <5>3. s[at - 1] < t
          BY <1>1, <3>2, <5>2
        <5>4. at - 1 <= b
          BY <2>1, <5>1, <5>3
        <5>5. QED
          BY <1>1, <1>4, <2>1, <3>2, <5>4
      <4>3. QED
        BY <4>1, <4>2
    <3>3. QED
      BY <3>1, <3>2
  <2>3. k \in 0 .. Len(r)
    BY <1>1, <1>5, <2>1
  <2>4. ASSUME NEW i \in 1 .. Len(r) PROVE r[i] < t <=> i <= k
    <3>0. i \in 1 .. n + 1
      BY <1>5
    <3>1. CASE i < at
      <4>1. i \in 1 .. n /\ r[i] = s[i] /\ s[i] <= ts /\ s[i] \in Nat
        BY <1>1, <1>4, <1>5, <3>0, <3>1
      <4>2. s[i] < t <=> i <= b
        BY <2>1, <4>1
      <4>3. CASE t <= ts
        BY <4>1, <4>2, <4>3
      <4>4. CASE ~(t <= ts)
        BY <1>1, <1>4, <2>1, <2>2, <3>0, <3>1, <4>1, <4>4
      <4>5. QED
        BY <4>3, <4>4
    <3>2. CASE i = at
      BY <1>1, <1>4, <1>5, <2>1, <2>2, <3>0, <3>2
    <3>3. CASE i > at
      <4>1. i - 1 \in 1 .. n /\ ~(i - 1 < at) /\ ~(i < at) /\ i # at
        BY <1>1, <1>4, <3>0, <3>3
      <4>2. r[i] = s[i - 1] /\ s[i - 1] \in Nat /\ ~(s[i - 1] <= ts)
        BY <1>1, <1>4, <1>5, <3>0, <4>1
      <4>3. s[i - 1] < t <=> i - 1 <= b
        BY <2>1, <4>1
      <4>4. CASE t <= ts
        BY <1>1, <1>4, <2>1, <2>2, <3>0, <3>3, <4>2, <4>4
      <4>5. CASE ~(t <= ts)
        BY <1>1, <2>1, <3>0, <4>2, <4>3, <4>5
      <4>6. QED
        BY <4>4, <4>5
    <3>4. QED
      BY <1>4, <3>0, <3>1, <3>2, <3>3
  <2>5. Below(r, t) = k
    <3> HIDE DEF k
    <3>1. QED
      BY <1>6, <2>3, <2>4, BelowIs
  <2>6. Count(r, t) = (n + 1) - k
    <3> HIDE DEF k
    <3>1. QED
      BY <1>5, <2>5 DEF Count
  <2>7. Count(s, t) = n - b
    BY DEF Count, b
  <2>8. QED
    BY <1>1, <2>1, <2>6, <2>7
<1>8. QED
  BY <1>3, <1>5, <1>6, <1>7

(* The last one is the greatest. *)
LEMMA LastCounts ==
  ASSUME NEW s, Ascending(s)
  PROVE  /\ s # <<>> => Last(s) \in Times /\ Last(s) \in Nat /\ Count(s, Last(s)) >= 1
                        /\ Count(s, Last(s) + 1) = 0
         /\ \A t \in Int : Count(s, t) >= 1 /\ Count(s, t + 1) = 0 => s # <<>> /\ Last(s) = t
<1> DEFINE n == Len(s)
<1>1. n \in Nat /\ s \in Seq(Times) /\ \A i \in 1 .. n : s[i] \in Nat /\ s[i] \in Times
  BY AscendingType
<1>2. s # <<>> => n >= 1
  BY <1>1
<1>3. Last(s) = s[n]
  BY DEF Last
<1>4. ASSUME n >= 1 PROVE Count(s, s[n]) >= 1 /\ Count(s, s[n] + 1) = 0
  <2>1. n \in 1 .. n /\ s[n] \in Int /\ s[n] + 1 \in Int
    BY <1>1, <1>4
  <2>2. Below(s, s[n]) \in 0 .. n /\ (s[n] < s[n] <=> n <= Below(s, s[n]))
    BY <2>1, BelowSplits
  <2>3. Below(s, s[n] + 1) \in 0 .. n /\ (s[n] < s[n] + 1 <=> n <= Below(s, s[n] + 1))
    BY <2>1, BelowSplits
  <2>4. QED
    BY <1>1, <2>1, <2>2, <2>3 DEF Count
<1>5. ASSUME NEW t \in Int, Count(s, t) >= 1, Count(s, t + 1) = 0 PROVE n >= 1 /\ s[n] = t
  <2>0. t + 1 \in Int
    OBVIOUS
  <2>1. Below(s, t) \in 0 .. n /\ Below(s, t + 1) \in 0 .. n
        /\ (\A i \in 1 .. n : s[i] < t <=> i <= Below(s, t))
        /\ (\A i \in 1 .. n : s[i] < t + 1 <=> i <= Below(s, t + 1))
    BY <2>0, BelowSplits
  <2>2. Below(s, t) <= n - 1 /\ Below(s, t + 1) = n
    BY <1>1, <1>5, <2>1 DEF Count
  <2>3. n \in 1 .. n /\ ~(n <= Below(s, t)) /\ n <= Below(s, t + 1)
    BY <1>1, <2>1, <2>2
  <2>4. ~(s[n] < t) /\ s[n] < t + 1 /\ s[n] \in Nat
    BY <1>1, <2>1, <2>3
  <2>5. QED
    BY <2>3, <2>4
<1>6. QED
  BY <1>1, <1>2, <1>3, <1>4, <1>5

----------------------------------------------------------------------------
(* Types. *)

TInv ==
  /\ clock \in 0 .. Horizon
  /\ arrivals \in [Times -> 0 .. MaxArrivals]
  /\ since \in [Times -> 0 .. MaxArrivals]
  /\ \A t \in Times : since[t] <= arrivals[t]
  /\ last \in [ts : Times, count : 0 .. MaxEvents]
  /\ Ascending(seen) /\ Len(seen) <= MaxEvents

LEMMA ArrivalsType == TInv => arrivals \in Arrivals /\ since \in Arrivals
BY ConstantsAreNumbers DEF TInv, Arrivals

LEMMA NewestType ==
  ASSUME NEW s, Ascending(s), NEW ts \in Times
  PROVE  Newest(s, ts) \in Times /\ Newest(s, ts) \in Nat /\ Newest(s, ts) >= ts
         /\ (s # <<>> => Last(s) <= Newest(s, ts))
<1>1. s # <<>> => Last(s) \in Times /\ Last(s) \in Nat
  BY LastCounts
<1>2. ts \in Nat
  BY TimesAreFinite
<1>3. CASE s # <<>> /\ Last(s) > ts
  <2>1. Newest(s, ts) = Last(s)
    BY <1>3 DEF Newest
  <2>2. QED
    BY <1>1, <1>2, <1>3, <2>1
<1>4. CASE ~(s # <<>> /\ Last(s) > ts)
  <2>1. Newest(s, ts) = ts
    BY <1>4 DEF Newest
  <2>2. QED
    BY <1>1, <1>2, <1>4, <2>1
<1>5. QED
  BY <1>3, <1>4

(* The count that touch returns for an event that is not too old, in terms *)
(* of the window the event has been filed in.                              *)
LEMMA WindowCounted ==
  ASSUME NEW w, Ascending(w), NEW ts \in Times
  PROVE  LET n == Count(w, ts - Window) - Count(w, ts + 1)
         IN  /\ n \in Nat
             /\ Min({Below(w, ts + 1) - Below(w, ts - Window), MaxEvents}) = Least(n, MaxEvents)
<1> DEFINE a == Below(w, ts - Window)
           b == Below(w, ts + 1)
<1>1. ts - Window \in Int /\ ts + 1 \in Int /\ ts - Window <= ts + 1 /\ MaxEvents \in Nat
  BY ConstantsAreNumbers, TimesAreFinite
<1>2. /\ Count(w, ts + 1) \in Nat /\ Count(w, ts - Window) \in Nat
      /\ Count(w, ts + 1) <= Count(w, ts - Window)
  BY <1>1, CountFalls
<1>3. a \in Int /\ b \in Int /\ Len(w) \in Nat
  BY <1>1, BelowSplits, AscendingType
<1>4. Count(w, ts + 1) = Len(w) - b /\ Count(w, ts - Window) = Len(w) - a
  BY DEF Count
<1> HIDE DEF a, b
<1>5. b - a = Count(w, ts - Window) - Count(w, ts + 1) /\ b - a \in Int
  BY <1>3, <1>4
<1>6. Min({b - a, MaxEvents}) = Least(b - a, MaxEvents)
  BY <1>1, <1>5, MinOfTwo DEF Least
<1>7. Min({b - a, MaxEvents}) = Least(Count(w, ts - Window) - Count(w, ts + 1), MaxEvents)
  BY <1>5, <1>6
<1>8. QED
  BY <1>2, <1>7 DEF a, b

LEMMA TouchType ==
  ASSUME NEW s, Ascending(s), Len(s) <= MaxEvents, NEW ts \in Times
  PROVE  /\ Ascending(touch(s, ts).events) /\ Len(touch(s, ts).events) <= MaxEvents
         /\ touch(s, ts).count \in 0 .. MaxEvents
<1> DEFINE e == Newest(s, ts) - Window
           fresh == Since(s, e)
           w == Insert(fresh, ts)
           c == Min({Below(w, ts + 1) - Below(w, ts - Window), MaxEvents})
<1>1. MaxEvents \in Nat /\ MaxEvents >= 1 /\ e \in Int
  BY NewestType, ConstantsAreNumbers
<1>2. Ascending(fresh) /\ Len(fresh) <= MaxEvents
  <2>1. Len(s) \in Nat
    BY AscendingType
  <2> HIDE DEF e
  <2>2. Ascending(fresh) /\ Len(fresh) <= Len(s)
    BY <1>1, SinceCounts
  <2>3. Len(fresh) \in Nat
    BY <2>2, AscendingType
  <2>4. QED
    BY <1>1, <2>1, <2>2, <2>3
<1>3. /\ (ts < e => touch(s, ts).events = fresh /\ touch(s, ts).count = 1)
      /\ (~(ts < e) => touch(s, ts).events = KeepNewest(w, MaxEvents) /\ touch(s, ts).count = c)
  BY DEF touch
<1> HIDE DEF e, fresh
<1>4. Ascending(w)
  BY <1>2, InsertCounts
<1>5. c \in 0 .. MaxEvents
  <2> DEFINE n == Count(w, ts - Window) - Count(w, ts + 1)
  <2> HIDE DEF w
  <2>1. n \in Nat /\ c = Least(n, MaxEvents)
    BY <1>4, WindowCounted
  <2> HIDE DEF n, c
  <2>2. QED
    BY <1>1, <2>1 DEF Least
<1> HIDE DEF w, c
<1>6. Ascending(KeepNewest(w, MaxEvents)) /\ Len(KeepNewest(w, MaxEvents)) <= MaxEvents
  BY <1>1, <1>4, KeepNewestCounts
<1>7. QED
  BY <1>1, <1>2, <1>3, <1>5, <1>6

(* No transaction arrives beyond the bound. *)
LEMMA ArrivalsBounded ==
  ASSUME TInv, NEW ts \in Times, SumFunction(arrivals) < MaxArrivals
  PROVE  LET f == [arrivals EXCEPT ![ts] = @ + 1]
             g == [since EXCEPT ![ts] = @ + 1]
         IN  /\ f \in [Times -> 0 .. MaxArrivals] /\ g \in [Times -> 0 .. MaxArrivals]
             /\ \A t \in Times : g[t] <= f[t]
<1>1. arrivals \in Arrivals /\ MaxArrivals \in Nat
  BY ArrivalsType, ConstantsAreNumbers
<1>2. SumFunction(arrivals) = SumFunctionOnSet(arrivals, Times)
  BY <1>1 DEF SumFunction, SumFunctionOnSet, FoldFunction, Arrivals
<1>3. \A u \in Times : arrivals[u] \in Nat
  BY <1>1 DEF Arrivals
<1>4. SumFunctionOnSet(arrivals, {ts}) <= SumFunctionOnSet(arrivals, Times)
  BY <1>3, TimesAreFinite, SumMonotonic
<1>5. SumFunctionOnSet(arrivals, {ts}) = arrivals[ts]
  BY <1>3, SumOfOne
<1>6. SumFunctionOnSet(arrivals, Times) \in Nat
  BY <1>3, TimesAreFinite, SumType
<1>7. arrivals[ts] + 1 \in 0 .. MaxArrivals
  <2>1. arrivals[ts] \in Nat
    BY <1>3
  <2>2. QED
    BY <1>1, <1>2, <1>4, <1>5, <1>6, <2>1
<1>8. /\ since[ts] + 1 \in 0 .. MaxArrivals
      /\ since[ts] + 1 <= arrivals[ts] + 1
  <2>1. since[ts] \in Nat /\ arrivals[ts] \in Nat /\ since[ts] <= arrivals[ts]
    BY <1>3 DEF TInv
  <2>2. QED
    BY <1>1, <1>7, <2>1
<1>9. QED
  BY <1>7, <1>8 DEF TInv

LEMMA TypesKept == TInv /\ [Next]_vars => TInv'
<1> SUFFICES ASSUME TInv, [Next]_vars PROVE TInv'
  OBVIOUS
<1>1. ASSUME NEW ts \in Times, Score(ts) PROVE TInv'
  <2>1. /\ Ascending(touch(seen, ts).events) /\ Len(touch(seen, ts).events) <= MaxEvents
        /\ touch(seen, ts).count \in 0 .. MaxEvents
    BY TouchType DEF TInv
  <2>2. /\ arrivals' \in [Times -> 0 .. MaxArrivals] /\ since' \in [Times -> 0 .. MaxArrivals]
        /\ \A t \in Times : since'[t] <= arrivals'[t]
    BY <1>1, ArrivalsBounded DEF Score
  <2>3. Ascending(seen') /\ Len(seen') <= MaxEvents
    BY <1>1, <2>1 DEF Score
  <2>4. last' \in [ts : Times, count : 0 .. MaxEvents]
    BY <1>1, <2>1 DEF Score
  <2>5. clock' \in 0 .. Horizon
    BY <1>1 DEF Score, TInv
  <2>6. Ascending(seen)'
    BY <2>3 DEF Ascending
  <2>7. QED
    BY <2>2, <2>3, <2>4, <2>5, <2>6 DEF TInv
<1>2. CASE Tick
  BY <1>2, ConstantsAreNumbers DEF Tick, TInv, Ascending
<1>3. CASE Sweep
  <2>1. seen' = <<>> /\ Len(<<>>) = 0 /\ <<>> \in Seq(Times)
    BY <1>3 DEF Sweep, Forgotten
  <2>2. Ascending(seen)' /\ Len(seen') <= MaxEvents
    BY <2>1, ConstantsAreNumbers DEF Ascending
  <2>3. since' \in [Times -> 0 .. MaxArrivals]
    BY <1>3, ConstantsAreNumbers DEF Sweep, Forgotten
  <2>4. \A t \in Times : arrivals[t] \in Nat /\ since'[t] = 0
    BY <1>3 DEF Sweep, Forgotten, TInv
  <2>5. \A t \in Times : since'[t] <= arrivals[t]
    BY <2>4
  <2>6. QED
    BY <1>3, <2>2, <2>3, <2>5 DEF Sweep, TInv
<1>4. CASE UNCHANGED vars
  BY <1>4 DEF vars, TInv, Ascending
<1>5. QED
  BY <1>1, <1>2, <1>3, <1>4 DEF Next

LEMMA TypesAtFirst == Init => TInv
<1> SUFFICES ASSUME Init PROVE TInv
  OBVIOUS
<1>1. Ascending(<<>>) /\ Len(<<>>) = 0
  BY DEF Ascending
<1>2. QED
  BY <1>1, ConstantsAreNumbers, TimesAreFinite DEF Init, TInv

(* The window is ascending and within its cap, the clock, the arrivals and *)
(* the answers within their bounds.                                        *)
THEOREM TypeCorrect == Spec => []TypeOK
<1>1. TInv => TypeOK
  <2> SUFFICES ASSUME TInv PROVE TypeOK
    OBVIOUS
  <2>1. \A i \in 1 .. Len(seen) : seen[i] \in Times
    BY AscendingType DEF TInv
  <2>2. \A i \in 1 .. Len(seen) : \A j \in 1 .. i : seen[j] <= seen[i]
    <3>1. Len(seen) \in Nat /\ Ascending(seen)
      BY AscendingType DEF TInv
    <3>2. QED
      BY <3>1 DEF Ascending
  <2>3. QED
    BY <2>1, <2>2 DEF TInv, TypeOK
<1>2. QED
  BY TypesAtFirst, TypesKept, <1>1, PTL DEF Spec

----------------------------------------------------------------------------
(* What the window holds. *)

(* s has at t or later what f has there, at e or later, within the cap. *)
Holds(s, f, e) ==
  Ascending(s) /\ \A t \in Int : Count(s, t) = Least(MaxEvents, From(f, Greatest(t, e)))

(* A live window holds what came since the last sweep and is dated in the  *)
(* Window before its newest, and nothing is newer; where there is no       *)
(* window, nothing has come since.                                         *)
WInv ==
  /\ seen # <<>> => /\ From(since, Last(seen) + 1) = 0
                    /\ Holds(seen, since, Last(seen) - Window)
  /\ seen = <<>> => \A t \in Int : From(since, t) = 0

(* What is left for an event at ts once the expired ones are gone. *)
LEMMA FreshHolds ==
  ASSUME TInv, WInv, NEW ts \in Times
  PROVE  LET n == Newest(seen, ts)
         IN  /\ Holds(Since(seen, n - Window), since, n - Window)
             /\ From(since, n + 1) = 0
             /\ n # ts => From(since, n) >= 1
<1> DEFINE n == Newest(seen, ts)
           e == n - Window
           l == Last(seen) - Window
<1>1. /\ MaxEvents \in Nat /\ MaxEvents >= 1 /\ Window \in Nat /\ ts \in Nat
      /\ since \in Arrivals /\ Ascending(seen)
  BY ConstantsAreNumbers, TimesAreFinite, ArrivalsType DEF TInv
<1>2. n \in Nat /\ n >= ts /\ (seen # <<>> => Last(seen) <= n) /\ e \in Int
  BY <1>1, NewestType
<1>3. CASE seen = <<>>
  <2>1. n = ts
    BY <1>3 DEF Newest
  <2>2. \A t \in Int : From(since, t) = 0
    BY <1>3 DEF WInv
  <2> HIDE DEF n, e
  <2>4. From(since, n + 1) = 0
    <3>1. n + 1 \in Int
      BY <1>2
    <3>2. QED
      BY <2>2, <3>1
  <2>5. ASSUME NEW t \in Int
        PROVE  Count(Since(seen, e), t) = Least(MaxEvents, From(since, Greatest(t, e)))
    <3>1. Count(Since(seen, e), t) = 0
      <4>1. Count(Since(seen, e), t) = Least(Count(seen, e), Count(seen, t))
        BY <1>1, <1>2, SinceCounts
      <4>2. Len(seen) = 0
        BY <1>3
      <4>3. t <= t /\ e <= e
        BY <1>2
      <4>4. Count(seen, t) \in Nat /\ Count(seen, t) <= Len(seen)
        BY <1>1, <4>3, CountFalls
      <4>5. Count(seen, e) \in Nat /\ Count(seen, e) <= Len(seen)
        BY <1>1, <1>2, <4>3, CountFalls
      <4>6. Count(seen, t) = 0 /\ Count(seen, e) = 0
        BY <4>2, <4>4, <4>5
      <4>7. QED
        BY <4>1, <4>6 DEF Least
    <3>2. Greatest(t, e) \in Int
      BY <1>2 DEF Greatest
    <3>3. From(since, Greatest(t, e)) = 0
      BY <2>2, <3>2
    <3>4. QED
      BY <1>1, <3>1, <3>3 DEF Least
  <2>6. Ascending(Since(seen, e))
    BY <1>1, <1>2, SinceCounts
  <2>7. QED
    BY <2>1, <2>4, <2>5, <2>6 DEF Holds, n, e
<1>4. CASE seen # <<>>
  <2>0. Last(seen) \in Nat /\ l \in Int
    BY <1>1, <1>4, LastCounts
  <2>1. l <= e /\ Last(seen) <= n
    BY <1>1, <1>2, <1>4, <2>0
  <2>2. /\ From(since, Last(seen) + 1) = 0
        /\ \A t \in Int : Count(seen, t) = Least(MaxEvents, From(since, Greatest(t, l)))
    BY <1>4 DEF WInv, Holds
  <2>3. n # ts => n = Last(seen)
    BY DEF Newest
  <2>4. l <= Last(seen)
    BY <1>1, <2>0
  <2> HIDE DEF n, e, l
  <2>5. From(since, n + 1) = 0
    <3>1. n + 1 \in Int /\ Last(seen) + 1 \in Int /\ Last(seen) + 1 <= n + 1
      BY <1>2, <2>0, <2>1
    <3>2. From(since, n + 1) <= From(since, Last(seen) + 1)
      BY <1>1, <3>1, FromFalls
    <3>3. From(since, n + 1) \in Nat
      BY <1>1, <3>1, FromType
    <3>4. QED
      BY <2>2, <3>2, <3>3
  <2>6. n # ts => From(since, n) >= 1
    <3>1. Count(seen, Last(seen)) >= 1
      BY <1>1, <1>4, LastCounts
    <3>2. Greatest(Last(seen), l) = Last(seen)
      BY <2>0, <2>4 DEF Greatest
    <3>3. Count(seen, Last(seen)) = Least(MaxEvents, From(since, Greatest(Last(seen), l)))
      BY <2>0, <2>2
    <3>4. Least(MaxEvents, From(since, Last(seen))) >= 1
      BY <3>1, <3>2, <3>3
    <3>5. From(since, Last(seen)) \in Nat
      BY <1>1, <2>0, FromType
    <3>6. From(since, Last(seen)) >= 1
      BY <1>1, <3>4, <3>5 DEF Least
    <3>7. QED
      BY <2>3, <3>6
  <2>7. ASSUME NEW t \in Int
        PROVE  Count(Since(seen, e), t) = Least(MaxEvents, From(since, Greatest(t, e)))
    <3>1. Count(Since(seen, e), t) = Least(Count(seen, e), Count(seen, t))
      BY <1>1, <1>2, SinceCounts
    <3>2. Count(seen, e) = Least(MaxEvents, From(since, e))
      <4>1. Greatest(e, l) = e
        BY <1>2, <2>0, <2>1 DEF Greatest
      <4>2. Count(seen, e) = Least(MaxEvents, From(since, Greatest(e, l)))
        BY <1>2, <2>2
      <4>3. QED
        BY <4>1, <4>2
    <3>3. Count(seen, t) = Least(MaxEvents, From(since, Greatest(t, l)))
      BY <2>2
    <3>4. From(since, e) \in Nat
      BY <1>1, <1>2, FromType
    <3>5. CASE t < e
      <4>1. Greatest(t, e) = e
        BY <3>5 DEF Greatest
      <4>2. Greatest(t, l) \in Int /\ Greatest(t, l) <= e
        BY <1>2, <2>0, <2>1, <3>5 DEF Greatest
      <4>3. From(since, e) <= From(since, Greatest(t, l)) /\ From(since, Greatest(t, l)) \in Nat
        BY <1>1, <1>2, <4>2, FromFalls, FromType
      <4>4. Least(Least(MaxEvents, From(since, e)), Least(MaxEvents, From(since, Greatest(t, l))))
              = Least(MaxEvents, From(since, e))
        BY <1>1, <3>4, <4>3 DEF Least
      <4>5. QED
        BY <3>1, <3>2, <3>3, <4>1, <4>4
    <3>6. CASE ~(t < e)
      <4>1. Greatest(t, e) = t /\ Greatest(t, l) = t
        BY <1>2, <2>0, <2>1, <3>6 DEF Greatest
      <4>2. From(since, t) <= From(since, e) /\ From(since, t) \in Nat
        BY <1>1, <1>2, <3>6, FromFalls, FromType
      <4>3. Least(Least(MaxEvents, From(since, e)), Least(MaxEvents, From(since, t)))
              = Least(MaxEvents, From(since, t))
        BY <1>1, <3>4, <4>2 DEF Least
      <4>4. QED
        BY <3>1, <3>2, <3>3, <4>1, <4>3
    <3>7. QED
      BY <3>5, <3>6
  <2>8. Ascending(Since(seen, e))
    BY <1>1, <1>2, SinceCounts
  <2>9. QED
    BY <2>5, <2>6, <2>7, <2>8 DEF Holds, n, e
<1>5. QED
  BY <1>3, <1>4

(* Filed, an event no older than the window is one of what it holds. *)
LEMMA FiledHolds ==
  ASSUME NEW s, NEW f \in Arrivals, NEW e \in Int, NEW ts \in Times, e <= ts, Holds(s, f, e)
  PROVE  LET g == [f EXCEPT ![ts] = @ + 1]
         IN  Holds(KeepNewest(Insert(s, ts), MaxEvents), g, e)
<1> DEFINE g == [f EXCEPT ![ts] = @ + 1]
           w == Insert(s, ts)
           r == KeepNewest(w, MaxEvents)
<1>1. MaxEvents \in Nat /\ ts \in Nat /\ Ascending(s)
  BY ConstantsAreNumbers, TimesAreFinite DEF Holds
<1>2. /\ Ascending(w)
      /\ \A t \in Int : Count(w, t) = IF t <= ts THEN Count(s, t) + 1 ELSE Count(s, t)
  BY <1>1, InsertCounts
<1> HIDE DEF w
<1>3. /\ Ascending(r)
      /\ \A t \in Int : Count(r, t) = Least(MaxEvents, Count(w, t))
  BY <1>1, <1>2, KeepNewestCounts
<1>4. ASSUME NEW t \in Int
      PROVE  Count(r, t) = Least(MaxEvents, From(g, Greatest(t, e)))
  <2> DEFINE m == Greatest(t, e)
  <2>1. m \in Int /\ (m <= ts <=> t <= ts)
    BY <1>1 DEF Greatest
  <2>2. Count(s, t) = Least(MaxEvents, From(f, m))
    BY DEF Holds
  <2>3. Count(r, t) = Least(MaxEvents, Count(w, t))
    BY <1>3
  <2>4. Count(w, t) = IF t <= ts THEN Count(s, t) + 1 ELSE Count(s, t)
    BY <1>2
  <2> HIDE DEF m, r
  <2>5. From(g, m) = IF m <= ts THEN From(f, m) + 1 ELSE From(f, m)
    BY <2>1, FromMore
  <2>6. From(f, m) \in Nat
    BY <2>1, FromType
  <2> HIDE DEF g
  <2>7. CASE t <= ts
    <3>1. From(g, m) = From(f, m) + 1 /\ Count(w, t) = Least(MaxEvents, From(f, m)) + 1
      BY <2>1, <2>2, <2>4, <2>5, <2>7
    <3>2. Least(MaxEvents, Least(MaxEvents, From(f, m)) + 1) = Least(MaxEvents, From(f, m) + 1)
      BY <1>1, <2>6 DEF Least
    <3>3. QED
      BY <2>3, <3>1, <3>2 DEF m
  <2>8. CASE ~(t <= ts)
    <3>1. From(g, m) = From(f, m) /\ Count(w, t) = Least(MaxEvents, From(f, m))
      BY <2>1, <2>2, <2>4, <2>5, <2>8
    <3>2. Least(MaxEvents, Least(MaxEvents, From(f, m))) = Least(MaxEvents, From(f, m))
      BY <1>1, <2>6 DEF Least
    <3>3. QED
      BY <2>3, <3>1, <3>2 DEF m
  <2>9. QED
    BY <2>7, <2>8
<1>5. QED
  BY <1>3, <1>4 DEF Holds, w, r, g

(* An event older than the whole window does not belong to it. *)
LEMMA OlderHolds ==
  ASSUME NEW s, NEW f \in Arrivals, NEW e \in Int, NEW ts \in Times, ts < e, Holds(s, f, e)
  PROVE  LET g == [f EXCEPT ![ts] = @ + 1] IN Holds(s, g, e)
<1> DEFINE g == [f EXCEPT ![ts] = @ + 1]
<1>1. ts \in Nat
  BY TimesAreFinite
<1>2. ASSUME NEW t \in Int PROVE From(g, Greatest(t, e)) = From(f, Greatest(t, e))
  <2>1. Greatest(t, e) \in Int /\ ~(Greatest(t, e) <= ts)
    BY <1>1 DEF Greatest
  <2>2. QED
    BY <2>1, FromMore
<1>3. QED
  BY <1>2 DEF Holds

(* The window after an event: its newest is the newest of all. *)
LEMMA TouchHolds ==
  ASSUME TInv, WInv, NEW ts \in Times
  PROVE  LET n == Newest(seen, ts)
             g == [since EXCEPT ![ts] = @ + 1]
             r == touch(seen, ts).events
         IN  /\ From(g, n + 1) = 0 /\ From(g, n) >= 1
             /\ Holds(r, g, n - Window)
             /\ r # <<>> /\ Last(r) = n
<1> DEFINE n == Newest(seen, ts)
           e == n - Window
           g == [since EXCEPT ![ts] = @ + 1]
           fresh == Since(seen, e)
           r == touch(seen, ts).events
<1>1. /\ MaxEvents \in Nat /\ MaxEvents >= 1 /\ Window \in Nat /\ ts \in Nat
      /\ since \in Arrivals /\ n \in Nat /\ n >= ts /\ e \in Int /\ e <= n
  <2>1. Ascending(seen)
    BY DEF TInv
  <2>2. n \in Nat /\ n >= ts
    BY <2>1, NewestType
  <2>3. QED
    BY <2>2, ConstantsAreNumbers, TimesAreFinite, ArrivalsType
<1>2. /\ Holds(fresh, since, e)
      /\ From(since, n + 1) = 0
      /\ n # ts => From(since, n) >= 1
  BY FreshHolds
<1>3. /\ ts < e => r = fresh
      /\ ~(ts < e) => r = KeepNewest(Insert(fresh, ts), MaxEvents)
  BY DEF touch
<1>4. e = n - Window
  OBVIOUS
<1> HIDE DEF n, e, fresh, r, g
<1>5. From(g, n + 1) = 0
  <2>1. n + 1 \in Int /\ ~(n + 1 <= ts)
    BY <1>1
  <2>2. QED
    BY <1>1, <1>2, <2>1, FromMore DEF g
<1>6. From(g, n) >= 1
  <2>1. From(g, n) = IF n <= ts THEN From(since, n) + 1 ELSE From(since, n)
    BY <1>1, FromMore DEF g
  <2>2. From(since, n) \in Nat
    BY <1>1, FromType
  <2>3. QED
    BY <1>1, <1>2, <2>1, <2>2
<1>7. Holds(r, g, e)
  <2>1. CASE ts < e
    BY <1>1, <1>2, <1>3, <2>1, OlderHolds DEF g
  <2>2. CASE ~(ts < e)
    <3>1. e <= ts
      BY <1>1, <2>2
    <3>2. QED
      BY <1>1, <1>2, <1>3, <2>2, <3>1, FiledHolds DEF g
  <2>3. QED
    BY <2>1, <2>2
<1>8. r # <<>> /\ Last(r) = n
  <2>1. Count(r, n) = Least(MaxEvents, From(g, n))
    <3>1. Greatest(n, e) = n
      BY <1>1 DEF Greatest
    <3>2. Count(r, n) = Least(MaxEvents, From(g, Greatest(n, e)))
      BY <1>1, <1>7 DEF Holds
    <3>3. QED
      BY <3>1, <3>2
  <2>2. Count(r, n + 1) = Least(MaxEvents, From(g, n + 1))
    <3>1. Greatest(n + 1, e) = n + 1 /\ n + 1 \in Int
      BY <1>1 DEF Greatest
    <3>2. Count(r, n + 1) = Least(MaxEvents, From(g, Greatest(n + 1, e)))
      BY <1>7, <3>1 DEF Holds
    <3>3. QED
      BY <3>1, <3>2
  <2>3. g \in Arrivals
    BY <1>1, FromMore DEF g
  <2>4. From(g, n) \in Nat
    BY <1>1, <2>3, FromType
  <2>5. Count(r, n) >= 1 /\ Count(r, n + 1) = 0
    BY <1>1, <1>5, <1>6, <2>1, <2>2, <2>4 DEF Least
  <2>6. Ascending(r)
    BY <1>7 DEF Holds
  <2>7. QED
    BY <1>1, <2>5, <2>6, LastCounts
<1>9. QED
  BY <1>4, <1>5, <1>6, <1>7, <1>8 DEF n, g, r

(* Where nothing is counted, nothing is there. *)
LEMMA NoneFrom ==
  ASSUME NEW f, \A u \in Times : f[u] = 0, NEW t \in Int
  PROVE  From(f, t) = 0
<1> DEFINE S == {u \in Times : u >= t}
<1>1. IsFiniteSet(S) /\ S \subseteq Times
  BY TimesAreFinite, FS_Subset
<1>2. \A u \in S : f[u] = 0
  BY <1>1
<1> HIDE DEF S
<1>3. \A u \in S : f[u] \in Nat
  BY <1>2
<1>4. SumFunctionOnSet(f, S) = 0
  BY <1>1, <1>2, <1>3, SumZero
<1>5. QED
  BY <1>4 DEF From, S

(* Each action keeps WInv. *)
LEMMA ScoreKeepsWindow ==
  ASSUME TInv, WInv, NEW ts \in Times, Score(ts)
  PROVE  WInv'
<1> DEFINE n == Newest(seen, ts)
           g == [since EXCEPT ![ts] = @ + 1]
           r == touch(seen, ts).events
<1>1. From(g, n + 1) = 0 /\ Holds(r, g, n - Window) /\ r # <<>> /\ Last(r) = n
  BY TouchHolds
<1>2. seen' = r /\ since' = g
  BY DEF Score
<1> HIDE DEF r, g, n
<1>3. From(since', Last(seen') + 1) = 0 /\ Holds(seen', since', Last(seen') - Window)
  BY <1>1, <1>2
<1>4. QED
  BY <1>1, <1>2, <1>3 DEF WInv, Holds, From, Ascending

LEMMA SweepKeepsWindow ==
  ASSUME Sweep
  PROVE  WInv'
<1>1. seen' = <<>> /\ \A u \in Times : since'[u] = 0
  BY DEF Sweep, Forgotten
<1>2. \A t \in Int : From(since', t) = 0
  BY <1>1, NoneFrom
<1>3. QED
  BY <1>1, <1>2 DEF WInv, From

LEMMA WindowKept == TInv /\ WInv /\ [Next]_vars => WInv'
<1> SUFFICES ASSUME TInv, WInv, [Next]_vars PROVE WInv'
  OBVIOUS
<1>1. ASSUME seen' = seen, since' = since PROVE WInv'
  BY <1>1 DEF WInv, Holds, From, Ascending
<1>2. QED
  BY <1>1, ScoreKeepsWindow, SweepKeepsWindow DEF Next, Tick, vars

LEMMA WindowAtFirst == Init => WInv
<1> SUFFICES ASSUME Init PROVE WInv
  OBVIOUS
<1>1. \A u \in Times : since[u] = 0
  BY DEF Init
<1>2. \A t \in Int : From(since, t) = 0
  BY <1>1, NoneFrom
<1>3. QED
  BY <1>2 DEF Init, WInv

(* How often t is in an ascending sequence. *)
LEMMA OccurrencesCounted ==
  ASSUME Ascending(seen), NEW t \in Int
  PROVE  Occurrences(t) = Count(seen, t) - Count(seen, t + 1)
<1> DEFINE a == Below(seen, t)
           b == Below(seen, t + 1)
           n == Len(seen)
<1>1. t + 1 \in Int /\ n \in Nat /\ \A i \in 1 .. n : seen[i] \in Nat
  BY AscendingType
<1>2. a \in 0 .. n /\ \A i \in 1 .. n : seen[i] < t <=> i <= a
  BY BelowSplits
<1>3. b \in 0 .. n /\ \A i \in 1 .. n : seen[i] < t + 1 <=> i <= b
  BY <1>1, BelowSplits
<1>4. Count(seen, t) = n - a /\ Count(seen, t + 1) = n - b
  BY DEF Count
<1>5. Count(seen, t + 1) <= Count(seen, t)
  <2>1. t <= t + 1
    OBVIOUS
  <2>2. QED
    BY <1>1, <2>1, CountFalls
<1>6. DOMAIN seen = 1 .. n
  BY AscendingType
<1> HIDE DEF a, b, n
<1>7. a <= b
  BY <1>1, <1>2, <1>3, <1>4, <1>5
<1>8. {i \in DOMAIN seen : seen[i] = t} = (a + 1) .. b
  <2>1. ASSUME NEW i \in 1 .. n PROVE seen[i] = t <=> i \in (a + 1) .. b
    <3>1. seen[i] \in Nat /\ (seen[i] < t <=> i <= a) /\ (seen[i] < t + 1 <=> i <= b)
      BY <1>1, <1>2, <1>3
    <3>2. QED
      BY <1>1, <1>2, <1>3, <3>1
  <2>2. (a + 1) .. b \subseteq 1 .. n
    BY <1>1, <1>2, <1>3
  <2>3. QED
    BY <1>6, <2>1, <2>2
<1>9. Cardinality((a + 1) .. b) = b - a
  <2>1. a + 1 \in Int /\ b \in Int
    BY <1>2, <1>3
  <2>2. Cardinality((a + 1) .. b) = IF (a + 1) > b THEN 0 ELSE b - (a + 1) + 1
    BY <2>1, FS_Interval
  <2>3. QED
    BY <1>2, <1>3, <1>7, <2>2
<1>10. Occurrences(t) = b - a
  BY <1>8, <1>9 DEF Occurrences
<1>11. b - a = Count(seen, t) - Count(seen, t + 1)
  BY <1>1, <1>2, <1>3, <1>4
<1>12. QED
  BY <1>10, <1>11

LEMMA WindowHoldsTheNewest == TInv /\ WInv => HoldsTheNewest
<1> SUFFICES ASSUME TInv, WInv, seen # <<>>
             PROVE  /\ Kept(Last(seen) + 1, Latest) = 0
                    /\ \A t \in Times :
                          Occurrences(t) =
                             IF t < Last(seen) - Window THEN 0
                             ELSE Min({since[t], Max({0, MaxEvents - Kept(t + 1, Latest)})})
  BY DEF HoldsTheNewest
<1> DEFINE e == Last(seen) - Window
<1>1. /\ since \in Arrivals /\ Ascending(seen) /\ Last(seen) \in Nat /\ e \in Int
      /\ MaxEvents \in Nat /\ \A t \in Times : since[t] \in Nat
  <2>1. since \in Arrivals /\ Ascending(seen)
    BY ArrivalsType DEF TInv
  <2>2. Last(seen) \in Nat
    BY <2>1, LastCounts
  <2>3. QED
    BY <2>1, <2>2, ConstantsAreNumbers DEF Arrivals
<1>2. /\ From(since, Last(seen) + 1) = 0
      /\ \A t \in Int : Count(seen, t) = Least(MaxEvents, From(since, Greatest(t, e)))
  BY DEF WInv, Holds
<1>3. Kept(Last(seen) + 1, Latest) = 0
  <2>1. Last(seen) + 1 \in Int
    BY <1>1
  <2>2. QED
    BY <1>1, <1>2, <2>1, KeptFrom
<1> HIDE DEF e
<1>4. ASSUME NEW t \in Times
      PROVE  Occurrences(t) = IF t < e THEN 0
                              ELSE Min({since[t], Max({0, MaxEvents - Kept(t + 1, Latest)})})
  <2>1. t \in Int /\ t + 1 \in Int /\ since[t] \in Nat
    BY <1>1, TimesAreFinite
  <2>2. Occurrences(t) = Count(seen, t) - Count(seen, t + 1)
    BY <1>1, <2>1, OccurrencesCounted
  <2>3. /\ Count(seen, t) = Least(MaxEvents, From(since, Greatest(t, e)))
        /\ Count(seen, t + 1) = Least(MaxEvents, From(since, Greatest(t + 1, e)))
    BY <1>2, <2>1
  <2>4. CASE t < e
    <3>1. Greatest(t, e) = e /\ Greatest(t + 1, e) = e
      BY <1>1, <2>1, <2>4 DEF Greatest
    <3>2. From(since, e) \in Nat
      BY <1>1, FromType
    <3>3. Least(MaxEvents, From(since, e)) \in Nat
      BY <1>1, <3>2 DEF Least
    <3>4. Occurrences(t) = 0
      BY <2>2, <2>3, <3>1, <3>3
    <3>5. QED
      BY <2>4, <3>4
  <2>5. CASE ~(t < e)
    <3>1. Greatest(t, e) = t /\ Greatest(t + 1, e) = t + 1
      BY <1>1, <2>1, <2>5 DEF Greatest
    <3> DEFINE x == From(since, t + 1)
               y == MaxEvents - x
    <3>2. x \in Nat /\ y \in Int
      <4>1. x \in Nat
        BY <1>1, <2>1, FromType
      <4>2. QED
        BY <1>1, <4>1
    <3>3. Kept(t + 1, Latest) = x
      BY <1>1, <2>1, KeptFrom
    <3>4. From(since, t) = x + since[t]
      BY <1>1, FromAt
    <3>5. Occurrences(t) = Least(MaxEvents, x + since[t]) - Least(MaxEvents, x)
      BY <2>2, <2>3, <3>1, <3>4
    <3>6. y = MaxEvents - x
      OBVIOUS
    <3> HIDE DEF x, y
    <3>7. Max({0, y}) = Greatest(0, y)
      BY <3>2, MaxOfTwo DEF Greatest
    <3>8. Greatest(0, y) \in Int
      BY <3>2 DEF Greatest
    <3>9. Min({since[t], Greatest(0, y)}) = Least(since[t], Greatest(0, y))
      BY <2>1, <3>8, MinOfTwo DEF Least
    <3>10. Least(MaxEvents, x + since[t]) - Least(MaxEvents, x) = Least(since[t], Greatest(0, y))
      BY <1>1, <2>1, <3>2, <3>6 DEF Least, Greatest
    <3>11. Occurrences(t) = Min({since[t], Max({0, y})})
      BY <3>5, <3>7, <3>9, <3>10
    <3>12. MaxEvents - Kept(t + 1, Latest) = y
      BY <3>3, <3>6
    <3>13. QED
      BY <2>5, <3>11, <3>12
  <2>6. QED
    BY <2>4, <2>5
<1>5. QED
  BY <1>3, <1>4 DEF e

(* What the sweeper forgot is older than Retention: of what is younger,    *)
(* everything that ever came has come since.                               *)
FInv == \A t \in Times : t >= clock - Retention => since[t] = arrivals[t]

LEMMA SweepForgetsTheOld ==
  ASSUME TInv, WInv, FInv, Sweep
  PROVE  FInv'
<1>1. /\ since \in Arrivals /\ Ascending(seen) /\ seen # <<>> /\ clock \in Nat /\ Retention \in Nat
      /\ \A t \in Times : t \in Nat /\ since[t] \in Nat
  <2>1. since \in Arrivals
    BY ArrivalsType
  <2>2. QED
    BY <2>1, ConstantsAreNumbers, TimesAreFinite DEF Sweep, TInv, Arrivals
<1>2. Last(seen) \in Nat /\ Last(seen) < clock - Retention
  BY <1>1, LastCounts DEF Sweep
<1>3. From(since, Last(seen) + 1) = 0
  BY <1>1 DEF WInv
<1>4. clock' = clock /\ arrivals' = arrivals /\ \A t \in Times : since'[t] = 0
  BY DEF Sweep, Forgotten
<1>5. ASSUME NEW t \in Times, t >= clock - Retention PROVE since[t] = 0
  <2>1. t \in Int /\ t + 1 \in Int /\ Last(seen) + 1 \in Int /\ Last(seen) + 1 <= t
    BY <1>1, <1>2, <1>5
  <2>2. From(since, t) <= From(since, Last(seen) + 1) /\ From(since, t) \in Nat
    BY <1>1, <2>1, FromFalls, FromType
  <2>3. From(since, t) = From(since, t + 1) + since[t] /\ From(since, t + 1) \in Nat
    BY <1>1, <2>1, FromAt, FromType
  <2>4. QED
    BY <1>1, <1>3, <2>2, <2>3
<1>6. \A t \in Times : t >= clock - Retention => arrivals[t] = 0
  BY <1>5 DEF FInv
<1>7. QED
  BY <1>4, <1>6 DEF FInv

LEMMA YoungKept == TInv /\ WInv /\ FInv /\ [Next]_vars => FInv'
<1> SUFFICES ASSUME TInv, WInv, FInv, [Next]_vars PROVE FInv'
  OBVIOUS
<1>0. clock \in Nat /\ Retention \in Nat /\ \A t \in Times : t \in Nat
  BY ConstantsAreNumbers, TimesAreFinite DEF TInv
<1>1. ASSUME NEW ts \in Times, Score(ts) PROVE FInv'
  <2>1. clock' = clock /\ DOMAIN arrivals = Times /\ DOMAIN since = Times
    BY <1>1 DEF Score, TInv
  <2>2. \A t \in Times : /\ arrivals'[t] = IF t = ts THEN arrivals[t] + 1 ELSE arrivals[t]
                         /\ since'[t] = IF t = ts THEN since[t] + 1 ELSE since[t]
    BY <1>1, <2>1 DEF Score
  <2>3. QED
    BY <2>1, <2>2 DEF FInv
<1>2. CASE Tick
  <2>1. clock' = clock + 1 /\ since' = since /\ arrivals' = arrivals
    BY <1>2 DEF Tick
  <2>2. \A t \in Times : t >= clock' - Retention => t >= clock - Retention
    BY <1>0, <2>1
  <2>3. QED
    BY <2>1, <2>2 DEF FInv
<1>3. CASE Sweep
  BY <1>3, SweepForgetsTheOld
<1>4. CASE UNCHANGED vars
  BY <1>4 DEF vars, FInv
<1>5. QED
  BY <1>1, <1>2, <1>3, <1>4 DEF Next

LEMMA WindowIsForgettable == TInv /\ FInv => SweptIsForgettable
<1> SUFFICES ASSUME TInv, FInv, NEW ts \in Arrivable, clock - ts <= Retention - Window,
                    NEW t \in Times, t >= ts - Window
             PROVE  since[t] = arrivals[t]
  BY DEF SweptIsForgettable
<1>1. ts \in Nat /\ t \in Nat /\ clock \in Nat /\ Retention \in Nat /\ Window \in Nat
  BY TimesAreFinite, ConstantsAreNumbers DEF Arrivable, TInv
<1>2. t >= clock - Retention
  BY <1>1
<1>3. QED
  BY <1>2 DEF FInv

(* Late arrivals push no newer history out, whatever the order: a live     *)
(* window always holds the newest of what came since the sweeper last took *)
(* the key, as many as the cap allows.                                     *)
THEOREM TheNewestAreHeld == Spec => []HoldsTheNewest
BY TypesAtFirst, WindowAtFirst, TypesKept, WindowKept, WindowHoldsTheNewest, PTL DEF Spec

(* Whatever the sweeper ever forgot, a transaction that comes at most      *)
(* Retention - Window behind the clock misses none of it.                  *)
THEOREM OnlyForgettableIsSwept == Spec => []SweptIsForgettable
<1>1. Init => FInv
  BY DEF Init, FInv
<1>2. QED
  BY <1>1, TypesAtFirst, WindowAtFirst, TypesKept, WindowKept, YoungKept, WindowIsForgettable,
     PTL DEF Spec

----------------------------------------------------------------------------
(* What the latest transaction was answered. *)

(* What touch counts for an event at ts when f arrived before it, and the  *)
(* newest of all is at n.                                                  *)
Answer(f, ts, n) ==
  IF ts < n - Window THEN 1
  ELSE Least((Least(MaxEvents, From(f, n - Window)) + 1) - Least(MaxEvents, From(f, ts + 1)), MaxEvents)

(* The same when f is what has arrived up to and with the event.           *)
AnswerAfter(f, ts, n) ==
  IF ts < n - Window THEN 1
  ELSE Least((Least(MaxEvents, From(f, n - Window) - 1) + 1) - Least(MaxEvents, From(f, ts + 1)), MaxEvents)

(* The newest of what arrived is at n. *)
NewestAt(f, n) == n \in Times /\ From(f, n) >= 1 /\ From(f, n + 1) = 0

(* Where there is a window, the answer is told by what came since the last *)
(* sweep alone.                                                            *)
AInv ==
  seen # <<>> =>
     /\ From(since, last.ts) >= From(since, last.ts + 1) + 1
     /\ \E n \in Times : /\ NewestAt(since, n) /\ last.ts <= n
                         /\ last.count = AnswerAfter(since, last.ts, n)

LEMMA TouchAnswers ==
  ASSUME TInv, WInv, NEW ts \in Times
  PROVE  touch(seen, ts).count = Answer(since, ts, Newest(seen, ts))
<1> DEFINE n == Newest(seen, ts)
           e == n - Window
           fresh == Since(seen, e)
           w == Insert(fresh, ts)
           c == Min({Below(w, ts + 1) - Below(w, ts - Window), MaxEvents})
<1>1. ts \in Nat /\ n \in Nat /\ Window \in Nat /\ n >= ts /\ e = n - Window
  <2>1. Ascending(seen)
    BY DEF TInv
  <2>2. QED
    BY <2>1, NewestType, TimesAreFinite, ConstantsAreNumbers
<1>2. Holds(fresh, since, e)
  BY FreshHolds
<1>3. touch(seen, ts).count = IF ts < e THEN 1 ELSE c
  BY DEF touch
<1> HIDE DEF n, e, fresh
<1>4. Ascending(fresh)
  BY <1>2 DEF Holds
<1>5. /\ Ascending(w)
      /\ \A t \in Int : Count(w, t) = IF t <= ts THEN Count(fresh, t) + 1 ELSE Count(fresh, t)
  BY <1>4, InsertCounts
<1> HIDE DEF w
<1>6. CASE ts < e
  BY <1>1, <1>3, <1>6 DEF Answer, n
<1>7. CASE ~(ts < e)
  <2>1. c = Least(Count(w, ts - Window) - Count(w, ts + 1), MaxEvents)
    BY <1>5, WindowCounted
  <2>2. /\ ts - Window \in Int /\ ts + 1 \in Int /\ ts - Window <= ts /\ ~(ts + 1 <= ts)
        /\ Greatest(ts - Window, e) = e /\ Greatest(ts + 1, e) = ts + 1
    BY <1>1, <1>7 DEF Greatest
  <2>3. Count(w, ts - Window) = Least(MaxEvents, From(since, e)) + 1
    <3>1. Count(w, ts - Window) = Count(fresh, ts - Window) + 1
      BY <1>5, <2>2
    <3>2. Count(fresh, ts - Window) = Least(MaxEvents, From(since, Greatest(ts - Window, e)))
      BY <1>2, <2>2 DEF Holds
    <3>3. QED
      BY <2>2, <3>1, <3>2
  <2>4. Count(w, ts + 1) = Least(MaxEvents, From(since, ts + 1))
    <3>1. Count(w, ts + 1) = Count(fresh, ts + 1)
      BY <1>5, <2>2
    <3>2. Count(fresh, ts + 1) = Least(MaxEvents, From(since, Greatest(ts + 1, e)))
      BY <1>2, <2>2 DEF Holds
    <3>3. QED
      BY <2>2, <3>1, <3>2
  <2> HIDE DEF c
  <2>5. touch(seen, ts).count
          = Least((Least(MaxEvents, From(since, e)) + 1) - Least(MaxEvents, From(since, ts + 1)), MaxEvents)
    BY <1>3, <1>7, <2>1, <2>3, <2>4
  <2>6. QED
    BY <1>1, <1>7, <2>5 DEF Answer, n
<1>8. QED
  BY <1>6, <1>7

LEMMA ScoreAnswers ==
  ASSUME TInv, WInv, NEW ts \in Times, Score(ts)
  PROVE  AInv'
<1> DEFINE n == Newest(seen, ts)
           e == n - Window
           f == since
           g == [since EXCEPT ![ts] = @ + 1]
<1>2. /\ ts \in Nat /\ n \in Nat /\ n \in Times /\ Window \in Nat /\ n >= ts /\ e \in Int /\ e <= n
      /\ f \in Arrivals /\ ts + 1 \in Int /\ ts <= ts + 1 /\ ~(ts + 1 <= ts)
  <2>1. Ascending(seen)
    BY DEF TInv
  <2>2. n \in Nat /\ n \in Times /\ n >= ts
    BY <2>1, NewestType
  <2>3. QED
    BY <2>2, TimesAreFinite, ConstantsAreNumbers, ArrivalsType
<1>3. From(g, n) >= 1 /\ From(g, n + 1) = 0
  BY TouchHolds
<1>4. touch(seen, ts).count = Answer(f, ts, n)
  BY TouchAnswers
<1>5. since' = g /\ last'.ts = ts /\ last'.count = touch(seen, ts).count
  BY DEF Score
<1>6. e = n - Window
  OBVIOUS
<1> HIDE DEF n, e
<1>7. From(g, ts + 1) = From(f, ts + 1)
  BY <1>2, FromMore
<1>8. From(g, ts) >= From(g, ts + 1) + 1
  <2>1. From(g, ts) = From(f, ts) + 1
    <3>1. ts \in Int /\ ts <= ts
      BY <1>2
    <3>2. QED
      BY <1>2, <3>1, FromMore
  <2>2. ts \in Int
    BY <1>2
  <2>3. From(f, ts + 1) <= From(f, ts) /\ From(f, ts) \in Nat /\ From(f, ts + 1) \in Nat
    BY <1>2, <2>2, FromFalls, FromType
  <2>4. QED
    BY <1>7, <2>1, <2>3
<1>9. Answer(f, ts, n) = AnswerAfter(g, ts, n)
  <2>1. CASE ts < e
    BY <1>6, <2>1 DEF Answer, AnswerAfter
  <2>2. CASE ~(ts < e)
    <3>1. From(g, e) = From(f, e) + 1
      <4>1. e <= ts
        BY <1>2, <2>2
      <4>2. QED
        BY <1>2, <4>1, FromMore
    <3>2. From(f, e) \in Nat
      BY <1>2, FromType
    <3>3. From(g, e) - 1 = From(f, e)
      BY <3>1, <3>2
    <3>4. QED
      BY <1>6, <1>7, <3>3 DEF Answer, AnswerAfter
  <2>3. QED
    BY <2>1, <2>2
<1> HIDE DEF g, f
<1>10. NewestAt(g, n) /\ ts <= n
  BY <1>2, <1>3 DEF NewestAt
<1>11. last'.count = AnswerAfter(g, ts, n)
  BY <1>4, <1>5, <1>9
<1>12. /\ From(since', last'.ts) >= From(since', last'.ts + 1) + 1
       /\ \E m \in Times : /\ NewestAt(since', m) /\ last'.ts <= m
                           /\ last'.count = AnswerAfter(since', last'.ts, m)
  BY <1>2, <1>5, <1>8, <1>10, <1>11
<1>13. QED
  BY <1>12 DEF AInv, From, NewestAt, AnswerAfter

LEMMA AnswerKept == TInv /\ WInv /\ AInv /\ [Next]_vars => AInv'
<1> SUFFICES ASSUME TInv, WInv, AInv, [Next]_vars PROVE AInv'
  OBVIOUS
<1>1. ASSUME seen' = seen, since' = since, last' = last PROVE AInv'
  BY <1>1 DEF AInv, From, NewestAt, AnswerAfter
<1>2. CASE Sweep
  BY <1>2 DEF Sweep, Forgotten, AInv
<1>3. QED
  BY <1>1, <1>2, ScoreAnswers DEF Next, Tick, vars

LEMMA AnswerAtFirst == Init => AInv
BY DEF Init, AInv

(* In an answer: what is from expiry on, and what is after ts. *)
LEMMA AnswerFacts ==
  ASSUME TInv, NEW n \in Times, NewestAt(since, n), last.ts <= n,
         From(since, last.ts) >= From(since, last.ts + 1) + 1
  PROVE  LET ts == last.ts
             e == n - Window
         IN  /\ ts \in Nat /\ e \in Int /\ ts - Window \in Int /\ ts - Window <= e
             /\ From(since, ts + 1) \in Nat /\ From(since, e) \in Nat
             /\ From(since, ts - Window) \in Nat
             /\ From(since, e) <= From(since, ts - Window)
             /\ From(since, ts - Window) >= From(since, ts + 1) + 1
             /\ e <= ts => From(since, e) >= From(since, ts + 1) + 1
             /\ Kept(ts - Window, ts) = From(since, ts - Window) - From(since, ts + 1)
             /\ Kept(ts + 1, Latest) = From(since, ts + 1)
             /\ Kept(e, Latest) = From(since, e)
             /\ e <= ts + 1 => Kept(e, ts) = From(since, e) - From(since, ts + 1)
             /\ e > ts => Kept(e, ts) = 0
<1> DEFINE ts == last.ts
           e == n - Window
           s == ts - Window
           u == ts + 1
<1>1. /\ ts \in Nat /\ n \in Nat /\ e \in Int /\ s \in Int /\ u \in Int /\ ts \in Int
      /\ s <= e /\ s <= ts /\ s <= u /\ ts <= u /\ since \in Arrivals
  <2>1. ts \in Nat /\ n \in Nat /\ Window \in Nat /\ ts <= n
    BY TimesAreFinite, ConstantsAreNumbers DEF TInv
  <2>2. since \in Arrivals
    BY ArrivalsType
  <2>3. QED
    BY <2>1, <2>2
<1>2. /\ Kept(s, ts) = From(since, s) - From(since, u)
      /\ Kept(u, Latest) = From(since, u)
      /\ Kept(e, Latest) = From(since, e)
      /\ e <= u => Kept(e, ts) = From(since, e) - From(since, u)
      /\ e > ts => Kept(e, ts) = 0
  BY <1>1, KeptFrom
<1>3. From(since, ts) >= From(since, u) + 1
  OBVIOUS
<1> HIDE DEF ts, e, s, u
<1>4. /\ From(since, u) \in Nat /\ From(since, e) \in Nat
      /\ From(since, s) \in Nat /\ From(since, ts) \in Nat
  BY <1>1, FromType
<1>5. From(since, e) <= From(since, s) /\ From(since, ts) <= From(since, s)
  BY <1>1, FromFalls
<1>6. e <= ts => From(since, ts) <= From(since, e)
  BY <1>1, FromFalls
<1>7. From(since, s) >= From(since, u) + 1
  BY <1>3, <1>4, <1>5
<1>8. e <= ts => From(since, e) >= From(since, u) + 1
  BY <1>3, <1>4, <1>6
<1>9. QED
  BY <1>1, <1>2, <1>4, <1>5, <1>7, <1>8 DEF ts, e, s, u

(* The flag does not see beyond the cap. *)
LEMMA FlagSeesTheCap ==
  ASSUME NEW x \in Nat
  PROVE  Flag(Least(x, MaxEvents)) = Flag(x)
<1>1. Least(x, MaxEvents) \in Nat /\ (Least(x, MaxEvents) = x \/ (Least(x, MaxEvents) = MaxEvents /\ x >= MaxEvents))
  BY ConstantsAreNumbers DEF Least
<1>2. QED
  BY <1>1, ConstantsAreNumbers DEF Flag

LEMMA AnswersFlagExactly == TInv /\ AInv => NewestFlaggedExactly
<1> SUFFICES ASSUME TInv, AInv, seen # <<>>, Kept(last.ts + 1, Latest) = 0
             PROVE  Flag(last.count) = Flag(Kept(last.ts - Window, last.ts))
  BY DEF NewestFlaggedExactly
<1> DEFINE a == From(since, last.ts - Window)
           b == From(since, last.ts + 1)
<1>0. last.ts \in Nat /\ Window \in Nat /\ since \in Arrivals
  BY TimesAreFinite, ConstantsAreNumbers, ArrivalsType DEF TInv
<1>1. From(since, last.ts) >= From(since, last.ts + 1) + 1
  BY DEF AInv
<1>2. PICK n \in Times : /\ NewestAt(since, n) /\ last.ts <= n
                         /\ last.count = AnswerAfter(since, last.ts, n)
  BY DEF AInv
<1>3. /\ a \in Nat /\ b \in Nat /\ a >= b + 1
      /\ Kept(last.ts - Window, last.ts) = a - b
      /\ Kept(last.ts + 1, Latest) = b
  BY <1>1, <1>2, AnswerFacts
<1>4. b = 0
  BY <1>3
<1>5. n = last.ts
  <2>1. n \in Nat
    BY TimesAreFinite
  <2>2. SUFFICES ASSUME last.ts + 1 <= n PROVE FALSE
    BY <1>0, <1>2, <2>1
  <2>3. last.ts + 1 \in Int /\ n \in Int
    BY <1>0, <2>1
  <2>4. From(since, n) <= From(since, last.ts + 1) /\ From(since, n) \in Nat
    BY <1>0, <2>2, <2>3, FromFalls, FromType
  <2>5. From(since, n) >= 1
    BY <1>2 DEF NewestAt
  <2>6. QED
    BY <1>4, <2>4, <2>5
<1>6. last.count = Least((Least(MaxEvents, a - 1) + 1) - Least(MaxEvents, b), MaxEvents)
  <2>1. ~(last.ts < n - Window)
    BY <1>0, <1>5
  <2>2. QED
    BY <1>2, <1>5, <2>1 DEF AnswerAfter
<1> HIDE DEF a, b
<1>7. last.count = Least(a, MaxEvents)
  <2>1. MaxEvents \in Nat /\ MaxEvents >= 1
    BY ConstantsAreNumbers
  <2>2. Least((Least(MaxEvents, a - 1) + 1) - Least(MaxEvents, 0), MaxEvents) = Least(a, MaxEvents)
    BY <1>3, <1>4, <2>1 DEF Least
  <2>3. QED
    BY <1>4, <1>6, <2>2
<1>8. Flag(last.count) = Flag(a)
  BY <1>3, <1>7, FlagSeesTheCap
<1>9. Kept(last.ts - Window, last.ts) = a
  BY <1>3, <1>4
<1>10. QED
  BY <1>8, <1>9

(* The greatest of a set, when one is. *)
LEMMA IsMax ==
  ASSUME NEW S \in SUBSET Int, NEW x \in S, \A y \in S : y <= x
  PROVE  Max(S) = x
<1>1. \E z \in S : \A y \in S : z >= y
  OBVIOUS
<1>2. Max(S) \in S /\ \A y \in S : Max(S) >= y
  BY <1>1 DEF Max
<1>3. Max(S) <= x /\ Max(S) >= x /\ Max(S) \in Int /\ x \in Int
  BY <1>2
<1>4. QED
  BY <1>3

LEMMA NewestIsMax ==
  ASSUME TInv, NEW n \in Times, NewestAt(since, n), last.ts <= n
  PROVE  Max({last.ts} \cup {t \in Times : since[t] > 0}) = n
<1> DEFINE S == {last.ts} \cup {t \in Times : since[t] > 0}
<1>1. last.ts \in Nat /\ n \in Nat /\ since \in Arrivals /\ \A t \in Times : t \in Nat /\ since[t] \in Nat
  <2>1. since \in Arrivals
    BY ArrivalsType
  <2>2. QED
    BY <2>1, TimesAreFinite DEF TInv, Arrivals
<1>2. since[n] > 0
  <2>1. From(since, n) = From(since, n + 1) + since[n]
    BY <1>1, FromAt
  <2>2. QED
    BY <1>1, <2>1 DEF NewestAt
<1>3. ASSUME NEW t \in Times, since[t] > 0 PROVE t <= n
  <2>1. SUFFICES ASSUME n + 1 <= t PROVE FALSE
    BY <1>1
  <2>2. From(since, t) = From(since, t + 1) + since[t]
    BY <1>1, FromAt
  <2>3. t \in Int /\ t + 1 \in Int /\ n + 1 \in Int
    BY <1>1
  <2>4. From(since, t) <= From(since, n + 1)
    BY <1>1, <2>1, <2>3, FromFalls
  <2>5. From(since, t + 1) \in Nat /\ From(since, n + 1) = 0
    BY <1>1, <2>3, FromType DEF NewestAt
  <2>6. QED
    BY <1>1, <1>3, <2>2, <2>4, <2>5
<1>4. S \in SUBSET Int /\ n \in S /\ \A y \in S : y <= n
  <2>1. ASSUME NEW y \in S PROVE y \in Int /\ y <= n
    <3>1. CASE y = last.ts
      BY <1>1, <3>1
    <3>2. CASE y \in Times /\ since[y] > 0
      BY <1>1, <1>3, <3>2
    <3>3. QED
      BY <3>1, <3>2
  <2>2. n \in S
    BY <1>2
  <2> HIDE DEF S
  <2>3. QED
    BY <2>1, <2>2
<1> HIDE DEF S
<1>5. Max(S) = n
  BY <1>4, IsMax
<1>6. QED
  BY <1>5 DEF S

(* The closed form of a count: of a from expiry on, itself included, and b *)
(* of them dated after it, the cap left all but cut.                       *)
LEMMA CountClosed ==
  ASSUME NEW a \in Nat, NEW b \in Nat, a >= b + 1
  PROVE  Least((Least(MaxEvents, a - 1) + 1) - Least(MaxEvents, b), MaxEvents)
           = Greatest(1, Least(MaxEvents, (a - b) - Greatest(0, (a - 1) - MaxEvents)))
<1>1. MaxEvents \in Nat /\ MaxEvents >= 1
  BY ConstantsAreNumbers
<1>2. CASE a - 1 <= MaxEvents
  BY <1>1, <1>2 DEF Least, Greatest
<1>3. CASE a - 1 > MaxEvents
  BY <1>1, <1>3 DEF Least, Greatest
<1>4. QED
  BY <1>1, <1>2, <1>3

LEMMA AnswersCountTheWindow == TInv /\ AInv => CountsItsWindow
<1> DEFINE expiry == Max({last.ts} \cup {t \in Times : since[t] > 0}) - Window
           cut == Max({0, Kept(expiry, Latest) - 1 - MaxEvents})
<1> SUFFICES ASSUME TInv, AInv, seen # <<>>
             PROVE  /\ last.count <= Kept(last.ts - Window, last.ts)
                    /\ last.count = Max({1, Min({MaxEvents, Kept(expiry, last.ts) - cut})})
  BY DEF CountsItsWindow
<1>1. From(since, last.ts) >= From(since, last.ts + 1) + 1
  BY DEF AInv
<1>2. PICK n \in Times : /\ NewestAt(since, n) /\ last.ts <= n
                         /\ last.count = AnswerAfter(since, last.ts, n)
  BY DEF AInv
<1> DEFINE e == n - Window
           a == From(since, e)
           b == From(since, last.ts + 1)
           d == From(since, last.ts - Window)
           k == Kept(e, last.ts)
           c == Greatest(0, (a - 1) - MaxEvents)
<1>3. expiry = e
  <2>1. Max({last.ts} \cup {t \in Times : since[t] > 0}) = n
    BY <1>2, NewestIsMax
  <2>2. QED
    BY <2>1
<1>4. /\ last.ts \in Nat /\ e \in Int /\ a \in Nat /\ b \in Nat /\ d \in Nat
      /\ a <= d /\ d >= b + 1 /\ (e <= last.ts => a >= b + 1)
      /\ Kept(last.ts - Window, last.ts) = d - b
      /\ Kept(e, Latest) = a
      /\ (e <= last.ts + 1 => k = a - b)
      /\ (e > last.ts => k = 0)
  BY <1>1, <1>2, AnswerFacts
<1>5. last.count = IF last.ts < e THEN 1
                   ELSE Least((Least(MaxEvents, a - 1) + 1) - Least(MaxEvents, b), MaxEvents)
  BY <1>2 DEF AnswerAfter
<1>6. MaxEvents \in Nat /\ MaxEvents >= 1
  BY ConstantsAreNumbers
<1>7. cut = Max({0, Kept(e, Latest) - 1 - MaxEvents})
  BY <1>3
<1>8. Kept(expiry, last.ts) = k
  BY <1>3
<1> HIDE DEF expiry, cut, e, a, b, d, k, c
<1>9. cut = c /\ c \in Nat
  <2>1. (a - 1) - MaxEvents \in Int
    BY <1>4, <1>6
  <2>2. Max({0, (a - 1) - MaxEvents}) = Greatest(0, (a - 1) - MaxEvents)
    BY <2>1, MaxOfTwo DEF Greatest
  <2>3. Greatest(0, (a - 1) - MaxEvents) \in Nat
    BY <2>1 DEF Greatest
  <2>4. QED
    BY <1>4, <1>7, <2>2, <2>3 DEF c
<1>10. k - c \in Int
  BY <1>4, <1>9
<1>11. Max({1, Min({MaxEvents, k - c})}) = Greatest(1, Least(MaxEvents, k - c))
  <2>1. Min({MaxEvents, k - c}) = Least(MaxEvents, k - c)
    BY <1>6, <1>10, MinOfTwo DEF Least
  <2>2. Least(MaxEvents, k - c) \in Int
    BY <1>6, <1>10 DEF Least
  <2>3. Max({1, Least(MaxEvents, k - c)}) = Greatest(1, Least(MaxEvents, k - c))
    BY <2>2, MaxOfTwo DEF Greatest
  <2>4. QED
    BY <2>1, <2>3
<1>12. last.count = Greatest(1, Least(MaxEvents, k - c)) /\ last.count <= d - b
  <2>1. CASE last.ts < e
    <3>1. last.count = 1 /\ k = 0
      BY <1>4, <1>5, <2>1
    <3>2. QED
      BY <1>4, <1>6, <1>9, <3>1 DEF Least, Greatest
  <2>2. CASE ~(last.ts < e)
    <3>1. k = a - b /\ a >= b + 1
      BY <1>4, <2>2
    <3>2. last.count = Greatest(1, Least(MaxEvents, (a - b) - c))
      BY <1>4, <1>5, <2>2, <3>1, CountClosed DEF c
    <3>3. Greatest(1, Least(MaxEvents, (a - b) - c)) <= a - b
      BY <1>4, <1>6, <1>9, <3>1 DEF Least, Greatest
    <3>4. a - b <= d - b /\ Greatest(1, Least(MaxEvents, (a - b) - c)) \in Int
      BY <1>4, <1>6, <1>9 DEF Least, Greatest
    <3>5. Greatest(1, Least(MaxEvents, (a - b) - c)) <= d - b
      BY <1>4, <3>3, <3>4
    <3>6. QED
      BY <3>1, <3>2, <3>5
  <2>3. QED
    BY <2>1, <2>2
<1>13. QED
  BY <1>4, <1>8, <1>9, <1>11, <1>12

(* The cap and the expiry change no decision about a transaction that is   *)
(* the newest of its key: it is flagged as by a window that cut nothing of *)
(* what came since the sweeper last took the key.                          *)
THEOREM FlaggedExactly == Spec => []NewestFlaggedExactly
BY TypesAtFirst, WindowAtFirst, AnswerAtFirst, TypesKept, WindowKept, AnswerKept,
   AnswersFlagExactly, PTL DEF Spec

(* However late it comes, a transaction is charged for none outside its    *)
(* window.  Of what came since the sweeper last took the key, it counts    *)
(* all of its window but what the newest has expired and what the cap had  *)
(* cut; the formula says exactly how many.                                 *)
THEOREM WindowCountedFairly == Spec => []CountsItsWindow
BY TypesAtFirst, WindowAtFirst, AnswerAtFirst, TypesKept, WindowKept, AnswerKept,
   AnswersCountTheWindow, PTL DEF Spec
=============================================================================
