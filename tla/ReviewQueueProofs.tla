------------------------- MODULE ReviewQueueProofs -------------------------
(***************************************************************************)
(* The invariants of the case store and of the review queue on top of it,  *)
(* for any cases, labels, capacity, frame size and number of faults: those *)
(* of the store first, which no other state enters, then those of the      *)
(* reducer, the stream and the request together.                            *)
(***************************************************************************)
EXTENDS ReviewQueue, CollectionProofs

----------------------------------------------------------------------------
(* The store's order. *)

StoreInv == StoreTypeOK /\ OldestFirst

LEMMA StoreInitInv == Init => StoreInv
<1> SUFFICES ASSUME Init PROVE StoreInv
  OBVIOUS
<1>1. /\ open = {} /\ openIDs = <<>> /\ openedAt = [id \in Cases |-> 0]
      /\ counts = [l \in Labels |-> 0] /\ history = <<>> /\ opens = 0 /\ now = 0
      /\ MaxOpen \in Nat \ {0} /\ MaxOpens \in Nat
  BY StoreAssumption DEF Init, StoreInit
<1>2. StoreTypeOK
  BY <1>1 DEF StoreTypeOK
<1>3. DOMAIN openIDs = {} /\ Len(openIDs) = 0
  BY <1>1
<1>4. OldestFirst
  BY <1>1, <1>3 DEF OldestFirst, IsInjective, Range
<1>5. QED
  BY <1>2, <1>4 DEF StoreInv

(* Opening a case keeps it. *)
LEMMA OpenKeeps ==
  ASSUME StoreInv, NEW id \in Cases, Open(id), id \notin open
  PROVE  /\ StoreInv'
         /\ opens' = opens + 1 /\ counts' = counts /\ history' = history
         /\ \E e : open' = (open \cup {id}) \ e /\ (e = {} \/ \E x \in open \cup {id} : e = {x})
<1> DEFINE ids == Append(openIDs, id)
           full == Len(ids) > MaxOpen
           evicted == IF full THEN {Head(ids)} ELSE {}
<1>1. /\ opens < MaxOpens /\ opens' = opens + 1 /\ now' \in {now, now + 1} \ {0}
      /\ openedAt' = [c \in Cases |-> IF c = id THEN now'
                                      ELSE IF c \in evicted THEN 0 ELSE openedAt[c]]
      /\ open' = (open \cup {id}) \ evicted
      /\ openIDs' = IF full THEN Tail(ids) ELSE ids
      /\ counts' = counts /\ history' = history
  BY DEF Open
<1>2. /\ open \subseteq Cases /\ openIDs \in Seq(Cases) /\ openedAt \in [Cases -> 0 .. now]
      /\ now \in 0 .. opens /\ now \in Nat /\ opens \in 0 .. MaxOpens
      /\ counts \in [Labels -> 0 .. MaxOpens]
      /\ history \in Seq(Resolutions) /\ Len(history) <= MaxOpen
      /\ MaxOpen \in Nat \ {0} /\ MaxOpens \in Nat
  BY StoreAssumption DEF StoreInv, StoreTypeOK
<1>3. /\ Range(openIDs) = open /\ Len(openIDs) <= MaxOpen /\ IsInjective(openIDs)
      /\ \A i, j \in 1 .. Len(openIDs) : i < j => openedAt[openIDs[i]] <= openedAt[openIDs[j]]
      /\ Len(openIDs) \in Nat
  <2>1. Len(openIDs) \in Nat /\ DOMAIN openIDs = 1 .. Len(openIDs)
    BY <1>2
  <2>2. OldestFirst
    BY DEF StoreInv
  <2>3. /\ Range(openIDs) = open /\ Len(openIDs) <= MaxOpen /\ IsInjective(openIDs)
        /\ \A i, j \in DOMAIN openIDs : i < j => openedAt[openIDs[i]] <= openedAt[openIDs[j]]
    BY <2>2, Zenon DEF OldestFirst
  <2> HIDE DEF ids, full, evicted
  <2>4. QED
    BY <2>1, <2>2, <2>3
<1>4. /\ ids \in Seq(Cases) /\ Len(ids) = Len(openIDs) + 1 /\ ids[Len(openIDs) + 1] = id
      /\ \A i \in 1 .. Len(openIDs) : ids[i] = openIDs[i] /\ ids[i] # id
      /\ Range(ids) = open \cup {id} /\ IsInjective(ids)
  <2>1. \A i \in 1 .. Len(openIDs) : openIDs[i] # id
    BY <1>2, <1>3 DEF Range
  <2>2. QED
    BY <1>2, <1>3, <2>1, AppendedTo
<1> HIDE DEF ids
<1>5. now' \in now .. now + 1 /\ now' \in Nat
  BY <1>1, <1>2
<1>6. \A i, j \in 1 .. Len(ids) : i < j => ids[i] # id
  BY <1>3, <1>4
(* In ids, the case opened last has the greatest time. *)
<1> DEFINE at == [c \in Cases |-> IF c = id THEN now' ELSE openedAt[c]]
<1>7. \A i, j \in 1 .. Len(ids) : i < j => at[ids[i]] <= at[ids[j]]
  <2>1. SUFFICES ASSUME NEW i \in 1 .. Len(ids), NEW j \in 1 .. Len(ids), i < j
                 PROVE  at[ids[i]] <= at[ids[j]]
    OBVIOUS
  <2>2. i \in 1 .. Len(openIDs) /\ ids[i] \in Cases /\ ids[i] # id /\ ids[j] \in Cases
    BY <1>3, <1>4, <2>1
  <2>3. at[ids[i]] = openedAt[openIDs[i]] /\ openedAt[openIDs[i]] \in 0 .. now
    BY <1>2, <1>4, <2>2
  <2>4. CASE j = Len(openIDs) + 1
    BY <1>2, <1>4, <1>5, <2>2, <2>3, <2>4
  <2>5. CASE j # Len(openIDs) + 1
    <3>1. j \in 1 .. Len(openIDs)
      BY <1>3, <1>4, <2>5
    <3>2. at[ids[j]] = openedAt[openIDs[j]]
      BY <1>4, <2>2, <3>1
    <3>3. QED
      BY <1>3, <2>1, <2>2, <2>3, <3>1, <3>2
  <2>6. QED
    BY <2>4, <2>5
<1>8. StoreTypeOK'
  <2>1. openedAt' \in [Cases -> 0 .. now'] /\ now' \in 0 .. opens' /\ opens' \in 0 .. MaxOpens
    BY <1>1, <1>2, <1>5
  <2>2. open' \subseteq Cases
    BY <1>1, <1>2
  <2>3. openIDs' \in Seq(Cases)
    BY <1>1, <1>3, <1>4
  <2>4. QED
    BY <1>1, <1>2, <2>1, <2>2, <2>3 DEF StoreTypeOK
<1>9. CASE ~full
  <2>1. openIDs' = ids /\ open' = open \cup {id} /\ openedAt' = at
    BY <1>1, <1>9
  <2>2. Len(ids) <= MaxOpen
    BY <1>2, <1>3, <1>4, <1>9
  <2> HIDE DEF at
  <2>3. OldestFirst'
    BY <1>4, <1>7, <2>1, <2>2 DEF OldestFirst
  <2>4. open' = (open \cup {id}) \ {}
    BY <2>1
  <2>5. QED
    BY <1>1, <1>8, <2>3, <2>4 DEF StoreInv
<1>10. CASE full
  <2>1. openIDs' = Tail(ids) /\ open' = (open \cup {id}) \ {Head(ids)} /\ ids # <<>>
    BY <1>1, <1>3, <1>4, <1>10
  <2>2. /\ Tail(ids) \in Seq(Cases) /\ Len(Tail(ids)) = Len(openIDs) /\ Head(ids) \in Range(ids)
        /\ \A i \in 1 .. Len(openIDs) : Tail(ids)[i] = ids[i + 1] /\ Tail(ids)[i] # Head(ids)
        /\ IsInjective(Tail(ids)) /\ Range(Tail(ids)) = Range(ids) \ {Head(ids)}
    <3>1. /\ Tail(ids) \in Seq(Cases) /\ Len(Tail(ids)) = Len(ids) - 1
          /\ \A i \in 1 .. Len(Tail(ids)) : Tail(ids)[i] = ids[i + 1]
          /\ IsInjective(Tail(ids)) /\ Range(Tail(ids)) = Range(ids) \ {Head(ids)}
          /\ Head(ids) = ids[1]
      BY <1>4, <2>1, TailProperties
    <3>2. Len(Tail(ids)) = Len(openIDs) /\ 1 \in 1 .. Len(ids)
      BY <1>3, <1>4, <3>1
    <3>3. \A i \in 1 .. Len(openIDs) : Tail(ids)[i] \in Range(Tail(ids))
      BY <3>1, <3>2 DEF Range
    <3>4. Head(ids) \in Range(ids)
      BY <1>4, <3>1, <3>2 DEF Range
    <3>5. QED
      BY <3>1, <3>2, <3>3, <3>4
  <2>3. \A i \in 1 .. Len(openIDs) : openedAt'[Tail(ids)[i]] = at[ids[i + 1]]
    BY <1>1, <1>10, <2>2
  <2> HIDE DEF at
  <2>4. \A i, j \in 1 .. Len(openIDs) :
           i < j => openedAt'[Tail(ids)[i]] <= openedAt'[Tail(ids)[j]]
    <3>1. \A i \in 1 .. Len(openIDs) : i + 1 \in 1 .. Len(ids)
      BY <1>3, <1>4
    <3>2. QED
      BY <1>3, <1>7, <2>3, <3>1
  <2>5. OldestFirst'
    BY <1>3, <1>4, <2>1, <2>2, <2>4 DEF OldestFirst
  <2>6. QED
    BY <1>1, <1>4, <1>8, <2>1, <2>2, <2>5 DEF StoreInv
<1>11. QED
  BY <1>9, <1>10

(* Resolving a case keeps it: what Without leaves is still in order. *)
LEMMA ResolveKeeps ==
  ASSUME StoreInv, NEW id \in Cases, NEW label \in Labels, Resolve(id, label),
         counts' \in [Labels -> 0 .. MaxOpens], history' \in Seq(Resolutions), Len(history') <= MaxOpen
  PROVE  StoreInv'
<1> DEFINE r == Without(openIDs, id)
<1>1. /\ id \in open /\ open' = open \ {id} /\ openIDs' = r
      /\ openedAt' = [openedAt EXCEPT ![id] = 0] /\ now' = now /\ opens' = opens
  BY DEF Resolve, Found
<1>2. /\ open \subseteq Cases /\ openIDs \in Seq(Cases) /\ openedAt \in [Cases -> 0 .. now]
      /\ now \in 0 .. opens /\ now \in Nat /\ opens \in 0 .. MaxOpens
  BY StoreAssumption DEF StoreInv, StoreTypeOK
<1>3. /\ Range(openIDs) = open /\ Len(openIDs) <= MaxOpen
      /\ \A i, j \in 1 .. Len(openIDs) : i < j => openedAt[openIDs[i]] <= openedAt[openIDs[j]]
      /\ Len(openIDs) \in Nat /\ IsInjective(openIDs) /\ MaxOpen \in Nat
  <2>1. Len(openIDs) \in Nat /\ DOMAIN openIDs = 1 .. Len(openIDs)
    BY <1>2
  <2>2. OldestFirst
    BY DEF StoreInv
  <2>3. /\ Range(openIDs) = open /\ Len(openIDs) <= MaxOpen /\ IsInjective(openIDs)
        /\ \A i, j \in DOMAIN openIDs : i < j => openedAt[openIDs[i]] <= openedAt[openIDs[j]]
    BY <2>2, Zenon DEF OldestFirst
  <2> HIDE DEF r
  <2>4. QED
    BY <2>1, <2>2, <2>3, StoreAssumption
<1>4. /\ r \in Seq(Cases) /\ Len(r) \in Nat /\ Len(r) <= Len(openIDs)
      /\ Range(r) = Range(openIDs) \ {id}
      /\ \A j \in 1 .. Len(r) : \A i \in 1 .. j - 1 :
            \E q \in 1 .. Len(openIDs) : openIDs[q] = r[j] /\ \E p \in 1 .. q - 1 : openIDs[p] = r[i]
      /\ IsInjective(openIDs) => IsInjective(r)
  <2>1. openIDs \in Seq(Cases)
    BY <1>2
  <2>2. QED
    BY <2>1, WithoutProperties
<1> HIDE DEF r
<1>5. \A i \in 1 .. Len(r) : r[i] \in Cases /\ r[i] # id
  <2>1. \A i \in 1 .. Len(r) : r[i] \in Range(r) /\ r[i] \in Cases
    BY <1>4 DEF Range
  <2>2. QED
    BY <1>4, <2>1
<1>6. ASSUME NEW i \in 1 .. Len(r), NEW j \in 1 .. Len(r), i < j
      PROVE  openedAt'[r[i]] <= openedAt'[r[j]]
  <2>1. i \in 1 .. j - 1
    BY <1>4, <1>6
  <2>2. PICK q \in 1 .. Len(openIDs) : openIDs[q] = r[j] /\ \E p \in 1 .. q - 1 : openIDs[p] = r[i]
    BY <1>4, <2>1
  <2>3. PICK p \in 1 .. q - 1 : openIDs[p] = r[i]
    BY <2>2
  <2>4. p \in 1 .. Len(openIDs) /\ p < q
    BY <1>3
  <2>5. openedAt[r[i]] <= openedAt[r[j]]
    BY <1>3, <2>2, <2>3, <2>4
  <2>6. openedAt'[r[i]] = openedAt[r[i]] /\ openedAt'[r[j]] = openedAt[r[j]]
    BY <1>1, <1>2, <1>5
  <2>7. QED
    BY <2>5, <2>6
<1>7. StoreTypeOK'
  <2>1. openedAt' \in [Cases -> 0 .. now']
    BY <1>1, <1>2
  <2>2. QED
    BY <1>1, <1>2, <1>4, <2>1 DEF StoreTypeOK
<1>8. OldestFirst'
  <2>1. DOMAIN r = 1 .. Len(r) /\ Len(r) <= MaxOpen
    BY <1>3, <1>4
  <2>2. Range(r) = open'
    BY <1>1, <1>3, <1>4
  <2>3. IsInjective(r)
    BY <1>3, <1>4
  <2> HIDE DEF r
  <2>4. QED
    BY <1>1, <1>6, <2>1, <2>2, <2>3 DEF OldestFirst
<1>9. QED
  BY <1>1, <1>3, <1>4, <1>7, <1>8 DEF StoreInv

----------------------------------------------------------------------------
(* The labels. *)

(* Where in s the label l is. *)
Places(s, l) == {i \in 1 .. Len(s) : s[i].label = l}

(* What has been counted, and what the history has of it. *)
LabelInv ==
    /\ SumFunction(counts) + Cardinality(open) <= opens
    /\ Len(history) = Min({MaxOpen, SumFunction(counts)})
    /\ \A i \in 1 .. Len(history) : history[i].nth = SumFunction(counts) - Len(history) + i
    /\ \A l \in Labels : Cardinality(Places(history, l)) <= counts[l]

LEMMA PlacesAreFinite ==
  ASSUME NEW S, NEW s \in Seq(S), NEW l
  PROVE  IsFiniteSet(Places(s, l)) /\ Cardinality(Places(s, l)) \in Nat
<1>1. IsFiniteSet(1 .. Len(s)) /\ Places(s, l) \in SUBSET (1 .. Len(s))
  BY FS_Interval DEF Places
<1>2. IsFiniteSet(Places(s, l))
  BY <1>1, FS_Subset
<1>3. QED
  BY <1>2, FS_CardinalityType

LEMMA PlacesAppend ==
  ASSUME NEW S, NEW s \in Seq(S), NEW e \in S, NEW l
  PROVE  Cardinality(Places(Append(s, e), l)) =
            IF e.label = l THEN Cardinality(Places(s, l)) + 1 ELSE Cardinality(Places(s, l))
<1> DEFINE r == Append(s, e)
           n == Len(s) + 1
<1>1. /\ Len(s) \in Nat /\ n \in Nat /\ Len(r) = n /\ r[n] = e /\ \A i \in 1 .. Len(s) : r[i] = s[i]
      /\ \A i \in 1 .. n : i = n \/ i \in 1 .. Len(s)
      /\ n \in 1 .. n /\ \A i \in 1 .. Len(s) : i \in 1 .. n /\ i # n
  OBVIOUS
<1> HIDE DEF r, n
<1>2. n \notin Places(s, l)
  BY <1>1 DEF Places
<1>3. CASE e.label = l
  <2>1. Places(r, l) = Places(s, l) \cup {n}
    BY <1>1, <1>3 DEF Places
  <2>2. QED
    BY <1>2, <1>3, <2>1, PlacesAreFinite, FS_AddElement DEF r
<1>4. CASE e.label # l
  <2>1. Places(r, l) = Places(s, l)
    BY <1>1, <1>4 DEF Places
  <2>2. QED
    BY <1>4, <2>1 DEF r
<1>5. QED
  BY <1>3, <1>4

(* A list that has each of its elements at another place of s has no label *)
(* more often than s.                                                      *)
LEMMA PlacesOfPart ==
  ASSUME NEW S, NEW s \in Seq(S), NEW t \in Seq(S), NEW l,
         NEW at \in [1 .. Len(t) -> 1 .. Len(s)], IsInjective(at),
         \A i \in 1 .. Len(t) : t[i] = s[at[i]]
  PROVE  Cardinality(Places(t, l)) <= Cardinality(Places(s, l))
<1> DEFINE f == [i \in Places(t, l) |-> at[i]]
<1>1. f \in [Places(t, l) -> Places(s, l)] /\ IsInjective(f)
  BY DEF Places, IsInjective
<1>2. f \in Injection(Places(t, l), Places(s, l))
  BY <1>1 DEF Injection
<1>3. IsFiniteSet(Places(s, l))
  BY PlacesAreFinite
<1>4. QED
  BY <1>2, <1>3, FS_Injection

LEMMA NewestProperties ==
  ASSUME NEW s \in Seq(Resolutions)
  PROVE  LET k == Min({MaxOpen, Len(s)})
             r == Newest(s)
         IN  /\ r \in Seq(Resolutions) /\ Len(r) = k /\ k \in 0 .. MaxOpen /\ k <= Len(s)
             /\ \A j \in 1 .. k : r[j] = s[Len(s) - k + j]
             /\ \A l : Cardinality(Places(r, l)) <= Cardinality(Places(s, l))
<1> DEFINE k == Min({MaxOpen, Len(s)})
           n == Len(s)
           r == Newest(s)
<1>1. n \in Nat /\ MaxOpen \in Nat
  BY StoreAssumption
<1>2. k = IF MaxOpen < n THEN MaxOpen ELSE n
  BY <1>1, MinOfTwo
<1>3. k \in 0 .. MaxOpen /\ k <= n /\ k \in Nat
  BY <1>1, <1>2
<1>4. r = SubSeq(s, n - k + 1, n)
  BY DEF Newest
<1> HIDE DEF k, r
<1>5. r \in Seq(Resolutions) /\ Len(r) = k /\ \A j \in 1 .. k : r[j] = s[n - k + j]
  <2>1. n - k + 1 \in Int /\ n - k + 1 >= 1 /\ n - k + 1 <= n + 1 /\ n - (n - k + 1) + 1 = k
    BY <1>1, <1>3
  <2> DEFINE m == n - k + 1
             t == SubSeq(s, m, n)
  <2>2. m \in Int /\ m >= 1 /\ m <= n + 1 /\ n - m + 1 = k
    BY <2>1
  <2> HIDE DEF m
  <2>3. t \in Seq(Resolutions) /\ Len(t) = n - m + 1 /\ \A j \in 1 .. n - m + 1 : t[j] = s[m + j - 1]
    BY <1>1, <2>2
  <2> HIDE DEF t
  <2>4. \A j \in 1 .. k : m + j - 1 = n - k + j
    BY <1>1, <1>3 DEF m
  <2>5. r = t
    BY <1>4 DEF t, m
  <2>6. QED
    BY <2>2, <2>3, <2>4, <2>5
<1>6. ASSUME NEW l PROVE Cardinality(Places(r, l)) <= Cardinality(Places(s, l))
  <2> DEFINE at == [j \in 1 .. k |-> n - k + j]
  <2>1. at \in [1 .. Len(r) -> 1 .. Len(s)] /\ IsInjective(at) /\ \A j \in 1 .. Len(r) : r[j] = s[at[j]]
    BY <1>1, <1>3, <1>5 DEF IsInjective
  <2> HIDE DEF at
  <2>2. QED
    BY <1>5, <2>1, PlacesOfPart
<1>7. QED
  BY <1>3, <1>5, <1>6 DEF k, r

LEMMA CountsSum ==
  ASSUME StoreTypeOK
  PROVE  /\ SumFunction(counts) = SumFunctionOnSet(counts, Labels) /\ SumFunction(counts) \in Nat
         /\ \A l \in Labels : counts[l] <= SumFunction(counts)
<1>1. DOMAIN counts = Labels /\ \A l \in Labels : counts[l] \in Nat
  BY StoreAssumption DEF StoreTypeOK
<1>2. SumFunction(counts) = SumFunctionOnSet(counts, Labels)
  BY <1>1 DEF SumFunction
<1>3. SumFunctionOnSet(counts, Labels) \in Nat
  BY <1>1, SumType, StoreAssumption
<1>4. \A l \in Labels : counts[l] <= SumFunctionOnSet(counts, Labels)
  <2>1. SUFFICES ASSUME NEW l \in Labels PROVE counts[l] <= SumFunctionOnSet(counts, Labels)
    OBVIOUS
  <2>2. SumFunctionOnSet(counts, {l}) <= SumFunctionOnSet(counts, Labels)
    BY <1>1, SumMonotonic, StoreAssumption
  <2>3. SumFunctionOnSet(counts, {l}) = counts[l]
    BY <1>1, SumOfOne
  <2>4. QED
    BY <2>2, <2>3
<1>5. QED
  BY <1>2, <1>3, <1>4

LEMMA LabelInitInv == Init => LabelInv
<1> SUFFICES ASSUME Init PROVE LabelInv
  OBVIOUS
<1>1. /\ open = {} /\ counts = [l \in Labels |-> 0] /\ history = <<>> /\ opens = 0
      /\ MaxOpen \in Nat \ {0}
  BY StoreAssumption DEF Init, StoreInit
<1>2. SumFunction(counts) = 0
  <2>1. \A l \in Labels : counts[l] \in Nat /\ counts[l] = 0
    BY <1>1
  <2>2. DOMAIN counts = Labels
    BY <1>1
  <2>3. SumFunctionOnSet(counts, Labels) = 0
    BY <2>1, SumZero, StoreAssumption
  <2>4. QED
    BY <2>2, <2>3 DEF SumFunction
<1>3. Cardinality(open) = 0 /\ Len(history) = 0
  BY <1>1, FS_EmptySet
<1>4. Min({MaxOpen, SumFunction(counts)}) = 0
  <2>1. SumFunction(counts) \in Int /\ MaxOpen \in Int
    BY <1>1, <1>2
  <2>2. Min({MaxOpen, SumFunction(counts)})
          = IF MaxOpen < SumFunction(counts) THEN MaxOpen ELSE SumFunction(counts)
    BY <2>1, MinOfTwo
  <2>3. QED
    BY <1>1, <1>2, <2>2
<1>5. \A l : Places(history, l) = {}
  BY <1>3 DEF Places
<1>6. \A l \in Labels : Cardinality(Places(history, l)) <= counts[l]
  BY <1>1, <1>5, FS_EmptySet
<1>7. \A i \in 1 .. Len(history) : history[i].nth = SumFunction(counts) - Len(history) + i
  BY <1>3
<1>8. QED
  BY <1>1, <1>2, <1>3, <1>4, <1>6, <1>7 DEF LabelInv

(* A label counted, of a case that was open. *)
LEMMA LabelledKeeps ==
  ASSUME StoreTypeOK, LabelInv, IsFiniteSet(open), NEW id \in open, NEW label \in Labels,
         Labelled(label), open' = open \ {id}, opens' = opens
  PROVE  LabelInv' /\ counts' \in [Labels -> 0 .. MaxOpens] /\ history' \in Seq(Resolutions)
         /\ Len(history') <= MaxOpen
<1> DEFINE e == [nth |-> ResolvedTotal + 1, label |-> label]
           h == Append(history, e)
<1>1. /\ counts \in [Labels -> 0 .. MaxOpens] /\ history \in Seq(Resolutions) /\ opens \in 0 .. MaxOpens
      /\ MaxOpens \in Nat /\ MaxOpen \in Nat /\ Len(history) \in Nat
      /\ counts' = [counts EXCEPT ![label] = @ + 1]
  BY StoreAssumption DEF StoreTypeOK, Labelled
<1>2. SumFunction(counts') = SumFunction(counts) + 1
  <2>1. /\ \A l \in Labels : counts[l] \in Nat /\ counts'[l] \in Nat
        /\ \A l \in Labels \ {label} : counts'[l] = counts[l]
        /\ counts'[label] = counts[label] + 1 /\ counts[label] \in Nat
        /\ DOMAIN counts = Labels /\ DOMAIN counts' = Labels
    BY <1>1
  <2>2. SumFunctionOnSet(counts', Labels)
          = SumFunctionOnSet(counts, Labels) - counts[label] + counts'[label]
    BY <2>1, SumChange, StoreAssumption
  <2>3. SumFunctionOnSet(counts, Labels) \in Nat
    BY <2>1, SumType, StoreAssumption
  <2>4. SumFunctionOnSet(counts', Labels) = SumFunctionOnSet(counts, Labels) + 1
    BY <2>1, <2>2, <2>3
  <2>5. QED
    BY <2>1, <2>4 DEF SumFunction
<1>3. Cardinality(open') = Cardinality(open) - 1 /\ Cardinality(open) \in Nat
      /\ Cardinality(open') \in Nat
  <2>1. Cardinality(open \ {id}) = Cardinality(open) - 1 /\ IsFiniteSet(open \ {id})
    BY FS_RemoveElement
  <2>2. Cardinality(open) \in Nat /\ Cardinality(open \ {id}) \in Nat
    BY <2>1, FS_CardinalityType
  <2>3. QED
    BY <2>1, <2>2
<1>4. SumFunction(counts) \in Nat
  BY CountsSum
<1>5. SumFunction(counts') + Cardinality(open') <= opens'
  BY <1>1, <1>2, <1>3, <1>4 DEF LabelInv
<1>6. counts' \in [Labels -> 0 .. MaxOpens]
  <2>1. counts[label] <= SumFunction(counts) /\ counts[label] \in Nat
    BY <1>1, CountsSum
  <2>2. SumFunction(counts) + 1 <= opens
    BY <1>1, <1>2, <1>3, <1>4, <1>5
  <2>3. counts[label] + 1 \in 0 .. MaxOpens
    BY <1>1, <1>4, <2>1, <2>2
  <2>4. QED
    BY <1>1, <2>3
<1>7. /\ e \in Resolutions /\ e.label = label /\ e.nth = SumFunction(counts) + 1
      /\ h \in Seq(Resolutions) /\ Len(h) = Len(history) + 1
      /\ h[Len(history) + 1] = e /\ \A i \in 1 .. Len(history) : h[i] = history[i]
  BY <1>1, <1>4 DEF ResolvedTotal, Resolutions
<1>8. \A l : Cardinality(Places(h, l)) = IF label = l THEN Cardinality(Places(history, l)) + 1
                                         ELSE Cardinality(Places(history, l))
  BY <1>1, <1>7, PlacesAppend
<1>9. history' = Newest(h)
  BY DEF Labelled
<1> HIDE DEF h, e
<1>10. /\ history' \in Seq(Resolutions) /\ Len(history') = Min({MaxOpen, Len(h)}) /\ Len(history') <= MaxOpen
       /\ \A l : Cardinality(Places(history', l)) <= Cardinality(Places(h, l))
       /\ \A j \in 1 .. Len(history') : history'[j] = h[Len(h) - Len(history') + j]
  <2> DEFINE k == Min({MaxOpen, Len(h)})
             r == Newest(h)
  <2>1. /\ r \in Seq(Resolutions) /\ Len(r) = k /\ k \in 0 .. MaxOpen
        /\ \A j \in 1 .. k : r[j] = h[Len(h) - k + j]
        /\ \A l : Cardinality(Places(r, l)) <= Cardinality(Places(h, l))
    BY <1>7, NewestProperties
  <2> HIDE DEF k, r
  <2>3. /\ history' \in Seq(Resolutions) /\ Len(history') = k /\ k <= MaxOpen
        /\ \A l : Cardinality(Places(history', l)) <= Cardinality(Places(h, l))
        /\ \A j \in 1 .. k : history'[j] = h[Len(h) - k + j]
    BY <1>1, <1>9, <2>1 DEF r
  <2>4. QED
    BY <2>3 DEF k
<1>11. Len(history') = Min({MaxOpen, SumFunction(counts')})
  <2>1. Len(history) = IF MaxOpen < SumFunction(counts) THEN MaxOpen ELSE SumFunction(counts)
    BY <1>1, <1>4, MinOfTwo DEF LabelInv
  <2>2. Len(h) \in Nat /\ SumFunction(counts') \in Nat
    BY <1>1, <1>2, <1>4, <1>7
  <2>3. /\ Min({MaxOpen, Len(h)}) = IF MaxOpen < Len(h) THEN MaxOpen ELSE Len(h)
        /\ Min({MaxOpen, SumFunction(counts')})
             = IF MaxOpen < SumFunction(counts') THEN MaxOpen ELSE SumFunction(counts')
    <3>1. \A n \in Int : Min({MaxOpen, n}) = IF MaxOpen < n THEN MaxOpen ELSE n
      BY <1>1, MinOfTwo
    <3>2. QED
      BY <2>2, <3>1
  <2>4. QED
    BY <1>1, <1>2, <1>4, <1>7, <1>10, <2>1, <2>2, <2>3
<1>12. ASSUME NEW l \in Labels PROVE Cardinality(Places(history', l)) <= counts'[l]
  <2>1. /\ Cardinality(Places(history', l)) <= Cardinality(Places(h, l))
        /\ Cardinality(Places(history, l)) <= counts[l]
        /\ counts[l] \in Nat
    BY <1>1, <1>10 DEF LabelInv
  <2>2. /\ Cardinality(Places(history', l)) \in Nat /\ Cardinality(Places(h, l)) \in Nat
        /\ Cardinality(Places(history, l)) \in Nat
    BY <1>1, <1>7, <1>10, PlacesAreFinite
  <2>3. CASE l = label
    BY <1>1, <1>8, <2>1, <2>2, <2>3
  <2>4. CASE l # label
    BY <1>1, <1>8, <2>1, <2>2, <2>4
  <2>5. QED
    BY <2>3, <2>4
<1>13. ASSUME NEW i \in 1 .. Len(history')
       PROVE  history'[i].nth = SumFunction(counts') - Len(history') + i
  <2> DEFINE j == Len(h) - Len(history') + i
  <2>1. Len(history') \in Nat /\ Len(history') <= Len(h) /\ i \in Nat /\ i >= 1 /\ i <= Len(history')
    <3>1. Len(h) \in Nat /\ MaxOpen \in Int /\ Len(history') = Min({MaxOpen, Len(h)})
      BY <1>1, <1>7, <1>10
    <3>2. Min({MaxOpen, Len(h)}) = IF MaxOpen < Len(h) THEN MaxOpen ELSE Len(h)
      BY <3>1, MinOfTwo
    <3>3. QED
      BY <1>1, <3>1, <3>2
  <2>2. j \in 1 .. Len(h) /\ history'[i] = h[j] /\ Len(h) \in Nat
    <3>1. history'[i] = h[j]
      BY <1>10
    <3>2. Len(h) \in Nat
      BY <1>1, <1>7
    <3>3. QED
      BY <2>1, <3>1, <3>2
  <2>3. h[j].nth = SumFunction(counts) - Len(history) + j
    <3>1. CASE j = Len(history) + 1
      BY <1>1, <1>4, <1>7, <3>1
    <3>2. CASE j # Len(history) + 1
      <4>1. j \in 1 .. Len(history)
        <5>1. Len(history) \in Nat /\ Len(h) = Len(history) + 1
          BY <1>1, <1>7
        <5> HIDE DEF j
        <5>2. QED
          BY <2>2, <3>2, <5>1
      <4>2. history[j].nth = SumFunction(counts) - Len(history) + j
        BY <4>1 DEF LabelInv
      <4>3. QED
        BY <1>7, <4>1, <4>2
    <3>3. QED
      BY <3>1, <3>2
  <2>4. history'[i].nth = SumFunction(counts) - Len(history) + j
    BY <2>2, <2>3
  <2>5. QED
    BY <1>1, <1>2, <1>4, <1>7, <2>1, <2>4
<1>14. QED
  BY <1>5, <1>6, <1>10, <1>11, <1>12, <1>13 DEF LabelInv

LEMMA OpenIsFinite ==
  ASSUME StoreInv
  PROVE  IsFiniteSet(open) /\ Cardinality(open) \in Nat
<1>1. openIDs \in Seq(Cases) /\ Range(openIDs) = open
  BY DEF StoreInv, StoreTypeOK, OldestFirst
<1>2. IsFiniteSet(Range(openIDs))
  BY <1>1, RangeIsFinite
<1>3. QED
  BY <1>1, <1>2, FS_CardinalityType

LEMMA StoreSame ==
  ASSUME StoreInv, LabelInv, UNCHANGED store
  PROVE  StoreInv' /\ LabelInv'
BY DEF store, StoreInv, StoreTypeOK, OldestFirst, LabelInv

LEMMA OpenStep ==
  ASSUME StoreInv, LabelInv, NEW id \in Cases, Open(id)
  PROVE  StoreInv' /\ LabelInv'
<1>1. CASE id \in open
  BY <1>1, StoreSame DEF Open
<1>2. CASE id \notin open
  <2>1. /\ StoreInv' /\ opens' = opens + 1 /\ counts' = counts /\ history' = history
        /\ \E e : open' = (open \cup {id}) \ e /\ (e = {} \/ \E x \in open \cup {id} : e = {x})
    BY <1>2, OpenKeeps
  <2>2. IsFiniteSet(open \cup {id}) /\ Cardinality(open \cup {id}) = Cardinality(open) + 1
    BY <1>2, OpenIsFinite, FS_AddElement
  <2>3. open' \in SUBSET (open \cup {id})
    BY <2>1
  <2>4. IsFiniteSet(open') /\ Cardinality(open') <= Cardinality(open) + 1
    <3>1. IsFiniteSet(open') /\ Cardinality(open') <= Cardinality(open \cup {id})
      BY <2>2, <2>3, FS_Subset
    <3>2. QED
      BY <2>2, <3>1
  <2>5. Cardinality(open') \in Nat /\ Cardinality(open) \in Nat
    BY <2>4, FS_CardinalityType, OpenIsFinite
  <2>6. opens \in Nat /\ SumFunction(counts) \in Nat /\ SumFunction(counts) + Cardinality(open) <= opens
    BY CountsSum DEF StoreInv, StoreTypeOK, LabelInv
  <2>7. SumFunction(counts) + Cardinality(open') <= opens'
    BY <2>1, <2>4, <2>5, <2>6
  <2>8. LabelInv'
    BY <2>1, <2>7 DEF LabelInv
  <2>9. QED
    BY <2>1, <2>8
<1>3. QED
  BY <1>1, <1>2

LEMMA ResolveStep ==
  ASSUME StoreInv, LabelInv, NEW id \in Cases, NEW label \in Labels, Resolve(id, label)
  PROVE  StoreInv' /\ LabelInv'
<1>1. id \in open /\ open' = open \ {id} /\ opens' = opens /\ Labelled(label)
  BY DEF Resolve, Found
<1>2. LabelInv' /\ counts' \in [Labels -> 0 .. MaxOpens] /\ history' \in Seq(Resolutions)
      /\ Len(history') <= MaxOpen
  BY <1>1, OpenIsFinite, LabelledKeeps DEF StoreInv
<1>3. QED
  BY <1>2, ResolveKeeps

(* Whatever the stream, the analysts and the reducer do, the store does    *)
(* one of its operations or nothing.                                       *)
LEMMA StoreStep ==
  ASSUME StoreInv, LabelInv, [Next]_vars,
         request = None \/ (request.id \in Cases /\ request.label \in Labels)
  PROVE  StoreInv' /\ LabelInv'
<1>1. ASSUME NEW id \in Cases, Flagged(id) PROVE StoreInv' /\ LabelInv'
  BY <1>1, OpenStep DEF Flagged
<1>2. ASSUME NEW id \in Cases, NEW label \in Labels, ResolvedElsewhere(id, label)
      PROVE  StoreInv' /\ LabelInv'
  BY <1>2, ResolveStep DEF ResolvedElsewhere
<1>3. ASSUME ServerResolves PROVE StoreInv' /\ LabelInv'
  <2>1. CASE Found(request.id)
    BY <1>3, <2>1, ResolveStep DEF ServerResolves
  <2>2. CASE ~Found(request.id)
    BY <1>3, <2>2, StoreSame DEF ServerResolves
  <2>3. QED
    BY <2>1, <2>2
<1>4. CASE UNCHANGED store
  BY <1>4, StoreSame
<1>5. ASSUME NEW i \in 1 .. MaxOpen + 1, NEW label \in Labels, ResolveStart(i, label)
      PROVE  UNCHANGED store
  BY <1>5 DEF ResolveStart
<1>6. (\/ StreamTick \/ StreamSend \/ Reconnect \/ RequestFails \/ Loaded \/ ResolveOkOrGone
       \/ ResolveFail \/ Pause \/ Resume \/ UNCHANGED vars) => UNCHANGED store
  BY DEF StreamTick, StreamSend, Reconnect, RequestFails, Loaded, ResolveOkOrGone, ResolveFail,
     Pause, Resume, vars
<1>7. QED
  BY <1>1, <1>2, <1>3, <1>4, <1>5, <1>6 DEF Next

----------------------------------------------------------------------------
(* The request. *)

(* What the reducer's request asks for is in flight: as long as the button *)
(* is busy there is a request, for that case, and the row is kept.         *)
InFlightOK ==
    /\ request = None \/ request \in Requests
    /\ pending = None \/ pending \in Rows
    /\ busy \in Cases \cup {None}
    /\ (busy = None <=> request = None) /\ (busy = None <=> pending = None)
    /\ busy # None => request.id = busy /\ pending.c = busy

LEMMA InFlightStep ==
  ASSUME InFlightOK, cases \in Seq(Cases), [Next]_vars
  PROVE  InFlightOK'
<1>n. None \notin Cases /\ None \notin Requests /\ None \notin Rows
  BY QueueAssumption
<1>1. CASE UNCHANGED <<request, pending, busy>>
  BY <1>1 DEF InFlightOK
<1>2. ASSUME NEW i \in 1 .. MaxOpen + 1, NEW label \in Labels, ResolveStart(i, label)
      PROVE  InFlightOK'
  <2>1. /\ i \in 1 .. Len(cases) /\ busy' = cases[i] /\ pending' = [c |-> cases[i], index |-> i]
        /\ request' = [id |-> cases[i], label |-> label, status |-> "sent"]
    BY <1>2 DEF ResolveStart
  <2>2. cases[i] \in Cases /\ i \in Nat \ {0}
    BY <2>1
  <2>3. request' \in Requests /\ pending' \in Rows /\ busy' \in Cases
    BY <2>1, <2>2 DEF Requests, Rows
  <2>4. request'.id = busy' /\ pending'.c = busy'
    BY <2>1
  <2>5. QED
    BY <1>n, <2>3, <2>4 DEF InFlightOK
<1>3. ASSUME NEW status \in {"sent", "ok", "gone", "fail"}, request # None,
             request' = [request EXCEPT !.status = status], UNCHANGED <<busy, pending>>
      PROVE  InFlightOK'
  <2>1. request \in Requests
    BY <1>3 DEF InFlightOK
  <2>2. request' \in Requests /\ request'.id = request.id
    BY <1>3, <2>1 DEF Requests
  <2>3. QED
    BY <1>3, <1>n, <2>2 DEF InFlightOK
<1>4. CASE ServerResolves
  BY <1>3, <1>4 DEF ServerResolves, queueState
<1>5. CASE RequestFails
  BY <1>3, <1>5 DEF RequestFails, queueState
<1>6. CASE ResolveOkOrGone \/ ResolveFail
  <2>1. request' = None /\ busy' = None /\ pending' = None
    BY <1>6 DEF ResolveOkOrGone, ResolveFail
  <2>2. QED
    BY <2>1 DEF InFlightOK
<1>7. ASSUME NEW id \in Cases, Flagged(id) PROVE UNCHANGED <<request, pending, busy>>
  BY <1>7 DEF Flagged, connection, queueState
<1>8. ASSUME NEW id \in Cases, NEW label \in Labels, ResolvedElsewhere(id, label)
      PROVE  UNCHANGED <<request, pending, busy>>
  BY <1>8 DEF ResolvedElsewhere, connection, queueState
<1>9. (\/ StreamTick \/ StreamSend \/ Reconnect \/ Loaded \/ Pause \/ Resume \/ UNCHANGED vars)
        => UNCHANGED <<request, pending, busy>>
  BY DEF StreamTick, StreamSend, Reconnect, Loaded, Pause, Resume, vars, connection, queueState
<1>10. QED
  BY <1>1, <1>2, <1>4, <1>5, <1>6, <1>7, <1>8, <1>9 DEF Next

----------------------------------------------------------------------------
(* The rows. *)

(* What the server may list: each case once, and no more than fit.         *)
Frame(list) == list \in Seq(Cases) /\ IsInjective(list) /\ Len(list) <= QueueInStream

FramesOK == frames \in Seq(Seq(Cases)) /\ \A i \in 1 .. Len(frames) : Frame(frames[i])

(* A row more than a frame has, the one rolled back, is there only while   *)
(* no other is in flight.                                                  *)
RowsOK ==
    /\ cases \in Seq(Cases) /\ IsInjective(cases) /\ busy \notin Range(cases)
    /\ Len(cases) <= QueueInStream + 1 /\ (busy # None => Len(cases) <= QueueInStream)
    /\ deferred = None \/ Frame(deferred)
    /\ paused \in BOOLEAN /\ held \in BOOLEAN

LEMMA Listed ==
  ASSUME StoreInv, NEW list \in Lists(QueueInStream)
  PROVE  Frame(list) /\ Range(list) \subseteq open
<1>1. PICK order \in SetToSeqs(open) : list = SubSeq(order, 1, Min({QueueInStream, Len(order)}))
  BY DEF Lists
<1>2. Cardinality(open) \in Nat /\ QueueInStream \in Nat /\ open \subseteq Cases
  BY OpenIsFinite, QueueAssumption DEF StoreInv, StoreTypeOK
<1> DEFINE n == Cardinality(open)
           k == Min({QueueInStream, Len(order)})
<1> HIDE DEF n
<1>3. order \in [1 .. n -> open] /\ \A i, j \in 1 .. n : i # j => order[i] # order[j]
  BY DEF SetToSeqs, n
<1>4. order \in Seq(open) /\ Len(order) = n /\ n \in Nat
  BY <1>2, <1>3 DEF n
<1>5. k = IF QueueInStream < Len(order) THEN QueueInStream ELSE Len(order)
  BY <1>2, <1>4, MinOfTwo
<1> HIDE DEF k
<1>6. k \in Nat /\ k <= n /\ k <= QueueInStream
  BY <1>2, <1>4, <1>5
<1>7. list = SubSeq(order, 1, k)
  BY <1>1 DEF k
<1>8. list \in Seq(open) /\ Len(list) = k /\ \A i \in 1 .. k : list[i] = order[i]
  <2>1. SubSeq(order, 1, k) \in Seq(open) /\ Len(SubSeq(order, 1, k)) = k
        /\ \A i \in 1 .. k : SubSeq(order, 1, k)[i] = order[i]
    BY <1>4, <1>6
  <2>2. QED
    BY <1>7, <2>1
<1>9. IsInjective(list)
  <2>1. DOMAIN list = 1 .. k /\ 1 .. k \subseteq 1 .. n
    BY <1>4, <1>6, <1>8
  <2>2. QED
    BY <1>3, <1>8, <2>1 DEF IsInjective
<1>10. Range(list) \subseteq open /\ list \in Seq(Cases)
  BY <1>2, <1>8 DEF Range
<1>11. QED
  BY <1>6, <1>8, <1>9, <1>10 DEF Frame

LEMMA FrameWithoutBusy ==
  ASSUME NEW list, Frame(list)
  PROVE  Frame(WithoutBusy(list)) /\ Range(WithoutBusy(list)) = Range(list) \ {busy}
<1> DEFINE r == Without(list, busy)
<1>1. list \in Seq(Cases) /\ IsInjective(list) /\ Len(list) <= QueueInStream /\ Len(list) \in Nat
      /\ QueueInStream \in Nat
  BY QueueAssumption DEF Frame
<1>2. /\ r \in Seq(Cases) /\ Len(r) \in Nat /\ Len(r) <= Len(list)
      /\ Range(r) = Range(list) \ {busy} /\ (IsInjective(list) => IsInjective(r))
  <2>1. list \in Seq(Cases)
    BY <1>1
  <2>2. QED
    BY <2>1, WithoutProperties
<1> HIDE DEF r
<1>3. Frame(r) /\ Range(r) = Range(list) \ {busy}
  BY <1>1, <1>2 DEF Frame
<1>4. QED
  BY <1>3 DEF WithoutBusy, r

(* The frame the stream delivers next.                                     *)
LEMMA NextFrame ==
  ASSUME FramesOK, frames # <<>>
  PROVE  /\ Frame(Head(frames)) /\ Tail(frames) \in Seq(Seq(Cases))
         /\ Len(Tail(frames)) = Len(frames) - 1 /\ Head(frames) = frames[1] /\ 1 \in 1 .. Len(frames)
         /\ \A i \in 1 .. Len(Tail(frames)) : Tail(frames)[i] = frames[i + 1] /\ i + 1 \in 1 .. Len(frames)
<1>1. frames \in Seq(Seq(Cases)) /\ Len(frames) \in Nat /\ Len(frames) >= 1
  BY DEF FramesOK
<1>2. /\ Tail(frames) \in Seq(Seq(Cases)) /\ Len(Tail(frames)) = Len(frames) - 1
      /\ Head(frames) = frames[1]
      /\ \A i \in 1 .. Len(Tail(frames)) : Tail(frames)[i] = frames[i + 1]
  BY <1>1, TailProperties
<1>3. 1 \in 1 .. Len(frames) /\ \A i \in 1 .. Len(Tail(frames)) : i + 1 \in 1 .. Len(frames)
  BY <1>1, <1>2
<1>4. Frame(Head(frames))
  BY <1>2, <1>3 DEF FramesOK
<1>5. QED
  BY <1>2, <1>3, <1>4

LEMMA FramesStep ==
  ASSUME StoreInv, FramesOK, [Next]_vars
  PROVE  FramesOK'
<1>1. CASE UNCHANGED frames
  BY <1>1 DEF FramesOK, Frame
<1>2. CASE StreamSend
  <2>1. PICK list \in Lists(QueueInStream) : frames' = Append(frames, list)
    BY <1>2 DEF StreamSend
  <2>2. Frame(list) /\ list \in Seq(Cases)
    BY Listed DEF Frame
  <2>3. frames \in Seq(Seq(Cases))
    BY DEF FramesOK
  <2>4. /\ frames' \in Seq(Seq(Cases)) /\ Len(frames') = Len(frames) + 1
        /\ frames'[Len(frames) + 1] = list /\ \A i \in 1 .. Len(frames) : frames'[i] = frames[i]
        /\ \A i \in 1 .. Len(frames) + 1 : i = Len(frames) + 1 \/ i \in 1 .. Len(frames)
    BY <2>1, <2>2, <2>3
  <2>5. ASSUME NEW i \in 1 .. Len(frames') PROVE Frame(frames'[i])
    BY <2>2, <2>4 DEF FramesOK
  <2>6. QED
    BY <2>4, <2>5 DEF FramesOK, Frame
<1>3. CASE Reconnect
  <2>1. frames' = <<>> /\ Len(frames') = 0
    BY <1>3 DEF Reconnect
  <2>2. QED
    BY <2>1 DEF FramesOK
<1>4. CASE Loaded
  <2>1. frames # <<>> /\ frames' = Tail(frames)
    BY <1>4 DEF Loaded
  <2>2. ASSUME NEW i \in 1 .. Len(Tail(frames)) PROVE Frame(Tail(frames)[i])
    BY <2>1, NextFrame DEF FramesOK
  <2>3. QED
    BY <2>1, <2>2, NextFrame DEF FramesOK, Frame
<1>5. ASSUME NEW id \in Cases, Flagged(id) PROVE UNCHANGED frames
  BY <1>5 DEF Flagged, connection
<1>6. ASSUME NEW id \in Cases, NEW label \in Labels, ResolvedElsewhere(id, label)
      PROVE  UNCHANGED frames
  BY <1>6 DEF ResolvedElsewhere, connection
<1>7. ASSUME NEW i \in 1 .. MaxOpen + 1, NEW label \in Labels, ResolveStart(i, label)
      PROVE  UNCHANGED frames
  BY <1>7 DEF ResolveStart
<1>8. (\/ StreamTick \/ ServerResolves \/ RequestFails \/ ResolveOkOrGone \/ ResolveFail
       \/ Pause \/ Resume \/ UNCHANGED vars) => UNCHANGED frames
  BY DEF StreamTick, ServerResolves, RequestFails, ResolveOkOrGone, ResolveFail, Pause, Resume,
     vars, connection
<1>9. QED
  BY <1>1, <1>2, <1>3, <1>4, <1>5, <1>6, <1>7, <1>8 DEF Next

LEMMA NoneIsNoRow ==
  ASSUME NEW list \in Seq(Cases)
  PROVE  None \notin Range(list)
BY QueueAssumption DEF Range

LEMMA RowsStep ==
  ASSUME FramesOK, InFlightOK, RowsOK, [Next]_vars
  PROVE  RowsOK'
<1>t. /\ cases \in Seq(Cases) /\ IsInjective(cases) /\ busy \notin Range(cases)
      /\ Len(cases) <= QueueInStream + 1 /\ (busy # None => Len(cases) <= QueueInStream)
      /\ deferred = None \/ Frame(deferred)
      /\ paused \in BOOLEAN /\ held \in BOOLEAN
  BY DEF RowsOK
<1>q. QueueInStream \in Nat /\ Len(cases) \in Nat
  BY <1>t, QueueAssumption
<1>1. CASE UNCHANGED <<queueState, held>>
  BY <1>1 DEF RowsOK, queueState, Frame
<1>2. CASE Loaded
  <2>1. Frame(Head(frames))
    BY <1>2, NextFrame DEF Loaded
  <2>2. CASE paused
    <3>1. deferred' = Head(frames) /\ held' = FALSE /\ UNCHANGED <<cases, busy, paused>>
      BY <1>2, <2>2 DEF Loaded
    <3>2. QED
      BY <1>t, <2>1, <3>1 DEF RowsOK, Frame
  <2>3. CASE ~paused
    <3>1. /\ cases' = WithoutBusy(Head(frames)) /\ held' = (busy \in Range(Head(frames)))
          /\ UNCHANGED <<deferred, busy, paused>>
      BY <1>2, <2>3 DEF Loaded
    <3>2. Frame(cases') /\ busy \notin Range(cases')
      BY <2>1, <3>1, FrameWithoutBusy
    <3>3. held' \in BOOLEAN
      BY <3>1
    <3>4. cases' \in Seq(Cases) /\ IsInjective(cases') /\ Len(cases') <= QueueInStream
          /\ Len(cases') \in Nat
      BY <3>2 DEF Frame
    <3>5. Len(cases') <= QueueInStream + 1
      BY <1>q, <3>4
    <3>6. QED
      BY <1>t, <3>1, <3>2, <3>3, <3>4, <3>5 DEF RowsOK, Frame
  <2>4. QED
    BY <2>2, <2>3
<1>3. ASSUME NEW i \in 1 .. MaxOpen + 1, NEW label \in Labels, ResolveStart(i, label)
      PROVE  RowsOK'
  <2>1. /\ i \in 1 .. Len(cases) /\ cases' = RemoveAt(cases, i) /\ busy' = cases[i]
        /\ UNCHANGED <<deferred, paused, held>>
    BY <1>3, <1>t DEF ResolveStart, ghosts
  <2>2. /\ cases' \in Seq(Cases) /\ Len(cases') = Len(cases) - 1 /\ IsInjective(cases')
        /\ Range(cases') = Range(cases) \ {cases[i]}
    <3>1. /\ RemoveAt(cases, i) \in Seq(Cases) /\ Len(RemoveAt(cases, i)) = Len(cases) - 1
          /\ IsInjective(cases) => IsInjective(RemoveAt(cases, i))
                                     /\ Range(RemoveAt(cases, i)) = Range(cases) \ {cases[i]}
      BY <1>t, <2>1, RemovedAt
    <3>2. QED
      BY <1>t, <2>1, <3>1
  <2>3. Len(cases') <= QueueInStream /\ Len(cases') <= QueueInStream + 1
    BY <1>t, <1>q, <2>2
  <2>4. busy' \notin Range(cases')
    BY <2>1, <2>2
  <2>5. QED
    BY <1>t, <2>1, <2>2, <2>3, <2>4 DEF RowsOK, Frame
<1>4. CASE ResolveOkOrGone
  <2>1. /\ busy' = None /\ deferred' = WithoutDeferred /\ held' = (held \/ deferred' # deferred)
        /\ UNCHANGED <<cases, paused>>
    BY <1>4 DEF ResolveOkOrGone
  <2>2. deferred' = None \/ Frame(deferred')
    BY <1>t, <2>1, FrameWithoutBusy DEF WithoutDeferred
  <2>3. busy' \notin Range(cases')
    BY <1>t, <2>1, NoneIsNoRow
  <2>4. held' \in BOOLEAN
    BY <2>1
  <2>5. QED
    BY <1>t, <2>1, <2>2, <2>3, <2>4 DEF RowsOK, Frame
<1>5. CASE ResolveFail
  <2> DEFINE at == Min({pending.index, Len(cases) + 1})
  <2>1. /\ cases' = InsertAt(cases, at, pending.c) /\ busy' = None /\ held' = TRUE
        /\ UNCHANGED <<deferred, paused>> /\ request # None
    BY <1>5 DEF ResolveFail
  <2>2. busy # None /\ pending \in Rows /\ pending.c = busy /\ busy \in Cases
    BY <2>1 DEF InFlightOK
  <2>3. pending.index \in Nat \ {0}
    BY <2>2 DEF Rows
  <2>4. at = IF pending.index < Len(cases) + 1 THEN pending.index ELSE Len(cases) + 1
    BY <1>q, <2>3, MinOfTwo
  <2>5. at \in 1 .. Len(cases) + 1
    BY <1>q, <2>3, <2>4
  <2> HIDE DEF at
  <2> DEFINE r == InsertAt(cases, at, pending.c)
  <2>6. /\ r \in Seq(Cases) /\ Len(r) = Len(cases) + 1
        /\ IsInjective(cases) /\ pending.c \notin Range(cases) => IsInjective(r)
    BY <1>t, <2>2, <2>5, InsertedAt
  <2> HIDE DEF r
  <2>7. cases' = r
    BY <2>1 DEF r
  <2>8. cases' \in Seq(Cases) /\ IsInjective(cases') /\ Len(cases') <= QueueInStream + 1
    BY <1>t, <1>q, <2>2, <2>6, <2>7
  <2>9. busy' \notin Range(cases')
    BY <2>1, <2>8, NoneIsNoRow
  <2>10. QED
    BY <1>t, <2>1, <2>8, <2>9 DEF RowsOK, Frame
<1>6. CASE Pause
  BY <1>6, <1>t DEF Pause, RowsOK, Frame, ghosts
<1>7. CASE Resume
  <2>1. /\ paused' = FALSE /\ deferred' = None /\ busy' = busy
    BY <1>7 DEF Resume
  <2>2. CASE deferred = None
    <3>1. UNCHANGED <<cases, held>>
      BY <1>7, <2>2 DEF Resume
    <3>2. QED
      BY <1>t, <2>1, <3>1 DEF RowsOK
  <2>3. CASE deferred # None
    <3>1. cases' = WithoutBusy(deferred) /\ held' = (held \/ busy \in Range(deferred))
      BY <1>7, <2>3 DEF Resume
    <3>2. Frame(cases') /\ busy \notin Range(cases')
      BY <1>t, <2>3, <3>1, FrameWithoutBusy
    <3>3. cases' \in Seq(Cases) /\ IsInjective(cases') /\ Len(cases') <= QueueInStream
          /\ Len(cases') \in Nat
      BY <3>2 DEF Frame
    <3>4. Len(cases') <= QueueInStream + 1 /\ held' \in BOOLEAN
      BY <1>q, <3>1, <3>3
    <3>5. QED
      BY <2>1, <3>2, <3>3, <3>4 DEF RowsOK
  <2>4. QED
    BY <2>2, <2>3
<1>8. ASSUME NEW id \in Cases, Flagged(id) PROVE UNCHANGED <<queueState, held>>
  BY <1>8 DEF Flagged
<1>9. ASSUME NEW id \in Cases, NEW label \in Labels, ResolvedElsewhere(id, label)
      PROVE  UNCHANGED <<queueState, held>>
  BY <1>9 DEF ResolvedElsewhere, ghosts
<1>10. (\/ StreamTick \/ StreamSend \/ Reconnect \/ ServerResolves \/ RequestFails
        \/ UNCHANGED vars) => UNCHANGED <<queueState, held>>
  BY DEF StreamTick, StreamSend, Reconnect, ServerResolves, RequestFails, vars, ghosts
<1>11. QED
  BY <1>1, <1>2, <1>3, <1>4, <1>5, <1>6, <1>7, <1>8, <1>9, <1>10 DEF Next

----------------------------------------------------------------------------
(* The cases that are gone. *)

Gone == told \ tainted

(* The rows come from frames, from the deferred one and from a roll-back:  *)
(* what is gone is in none of them.                                        *)
GoneInv ==
    /\ told \subseteq Cases /\ told \cap open = {} /\ tainted \subseteq told
    /\ \A i \in 1 .. Len(frames) : Range(frames[i]) \cap Gone = {}
    /\ Range(cases) \cap Gone = {} /\ busy \notin Gone
    /\ deferred = None \/ Range(deferred) \cap Gone = {}

(* Less is gone, less is shown, and nothing is on its way that was not.    *)
LEMMA GoneLess ==
  ASSUME GoneInv, told' \subseteq Cases, told' \cap open' = {}, tainted' \subseteq told',
         Gone' \subseteq Gone, UNCHANGED frames,
         Range(cases') \subseteq Range(cases) \cup {busy}, busy' \in Range(cases) \cup {busy, None},
         deferred' = None \/ (deferred # None /\ Range(deferred') \subseteq Range(deferred))
  PROVE  GoneInv'
<1>1. \A i \in 1 .. Len(frames') : Range(frames'[i]) \cap Gone' = {}
  BY DEF GoneInv
<1>2. busy' \notin Gone'
  <2>1. None \notin Cases /\ Gone' \subseteq Cases
    BY QueueAssumption DEF Gone
  <2>2. QED
    BY <2>1 DEF GoneInv
<1>3. Range(cases') \cap Gone' = {}
  BY DEF GoneInv
<1>4. deferred' = None \/ Range(deferred') \cap Gone' = {}
  BY DEF GoneInv
<1>5. QED
  BY <1>1, <1>2, <1>3, <1>4 DEF GoneInv

LEMMA GoneOfFlagged ==
  ASSUME GoneInv, NEW id \in Cases, Flagged(id)
  PROVE  GoneInv'
<1>1. /\ Open(id) /\ told' = told \ {id} /\ tainted' = tainted \ {id}
      /\ UNCHANGED <<frames, cases, busy, deferred>>
  BY DEF Flagged, connection, queueState
<1>2. open' \subseteq open \cup {id}
  BY <1>1 DEF Open, store
<1>3. told' \cap open' = {} /\ told' \subseteq Cases /\ tainted' \subseteq told' /\ Gone' \subseteq Gone
  BY <1>1, <1>2 DEF GoneInv, Gone
<1>4. QED
  BY <1>1, <1>3, GoneLess

(* The analyst is told of its case: no frame lists it, or it is tainted;   *)
(* the rows did without it, and the deferred frame does from now on.       *)
LEMMA GoneOfAnswer ==
  ASSUME GoneInv, FramesOK, InFlightOK, RowsOK, ResolveOkOrGone
  PROVE  GoneInv'
<1> DEFINE id == request.id
<1>1. /\ request # None /\ busy' = None /\ deferred' = WithoutDeferred /\ Told(id)
      /\ UNCHANGED <<frames, cases, open>>
  BY DEF ResolveOkOrGone, store
<1>2. busy = id /\ id \in Cases /\ id \notin Range(cases)
  BY <1>1 DEF InFlightOK, RowsOK
<1>3. deferred' = None \/ (deferred # None /\ Range(deferred') = Range(deferred) \ {id})
  <2>1. CASE deferred = None
    BY <1>1, <2>1 DEF WithoutDeferred
  <2>2. CASE deferred # None
    <3>1. Frame(deferred) /\ deferred' = WithoutBusy(deferred)
      BY <1>1, <2>2 DEF WithoutDeferred, RowsOK
    <3>2. QED
      BY <1>2, <2>2, <3>1, FrameWithoutBusy
  <2>3. QED
    BY <2>1, <2>2
<1>r. /\ Range(cases') \subseteq Range(cases) \cup {busy} /\ busy' \in Range(cases) \cup {busy, None}
      /\ deferred' = None \/ (deferred # None /\ Range(deferred') \subseteq Range(deferred))
      /\ UNCHANGED frames
  BY <1>1, <1>3
<1> HIDE DEF id
<1>4. CASE id \in open
  <2>1. told' = told /\ tainted' = tainted
    BY <1>1, <1>4 DEF Told
  <2>2. Gone' = Gone
    BY <2>1 DEF Gone
  <2>3. told' \subseteq Cases /\ told' \cap open' = {} /\ tainted' \subseteq told' /\ Gone' \subseteq Gone
    BY <1>1, <2>1, <2>2 DEF GoneInv
  <2>4. QED
    BY <1>r, <2>3, GoneLess
<1>5. CASE id \notin open /\ \E i \in DOMAIN frames : id \in Range(frames[i])
  <2>1. told' = told \cup {id} /\ tainted' = tainted \cup {id}
    BY <1>1, <1>5 DEF Told
  <2>2. Gone' \subseteq Gone
    BY <2>1 DEF Gone
  <2>3. told' \subseteq Cases /\ told' \cap open' = {} /\ tainted' \subseteq told'
    BY <1>1, <1>2, <1>5, <2>1 DEF GoneInv
  <2>4. QED
    BY <1>r, <2>2, <2>3, GoneLess
<1>6. CASE id \notin open /\ ~ \E i \in DOMAIN frames : id \in Range(frames[i])
  <2>1. told' = told \cup {id} /\ tainted' = tainted
    BY <1>1, <1>6 DEF Told
  <2>2. Gone' \subseteq Gone \cup {id} /\ Gone' \subseteq Cases
    BY <1>2, <2>1 DEF Gone, GoneInv
  <2>3. told' \subseteq Cases /\ told' \cap open' = {} /\ tainted' \subseteq told'
    BY <1>1, <1>2, <1>6, <2>1 DEF GoneInv
  <2>4. \A i \in 1 .. Len(frames) : id \notin Range(frames[i])
    BY <1>6 DEF FramesOK
  <2>5. \A i \in 1 .. Len(frames') : Range(frames'[i]) \cap Gone' = {}
    BY <1>1, <2>2, <2>4 DEF GoneInv
  <2>6. Range(cases') \cap Gone' = {}
    BY <1>1, <1>2, <2>2 DEF GoneInv
  <2>7. busy' \notin Gone'
    BY <1>1, <2>2, QueueAssumption
  <2>8. deferred' = None \/ Range(deferred') \cap Gone' = {}
    BY <1>3, <2>2 DEF GoneInv
  <2>9. QED
    BY <2>3, <2>5, <2>6, <2>7, <2>8 DEF GoneInv
<1>7. QED
  BY <1>4, <1>5, <1>6

LEMMA GoneOfLoaded ==
  ASSUME GoneInv, FramesOK, Loaded
  PROVE  GoneInv'
<1>1. frames # <<>> /\ frames' = Tail(frames) /\ UNCHANGED <<open, told, tainted, busy>>
  BY DEF Loaded, store
<1>2. Gone' = Gone /\ told' \subseteq Cases /\ told' \cap open' = {} /\ tainted' \subseteq told'
      /\ busy' \notin Gone'
  BY <1>1 DEF Gone, GoneInv
<1>3. Range(Head(frames)) \cap Gone = {} /\ Frame(Head(frames))
  BY <1>1, NextFrame DEF GoneInv
<1>4. \A i \in 1 .. Len(frames') : Range(frames'[i]) \cap Gone' = {}
  <2>1. ASSUME NEW i \in 1 .. Len(Tail(frames)) PROVE Range(Tail(frames)[i]) \cap Gone = {}
    BY <1>1, NextFrame DEF GoneInv
  <2>2. QED
    BY <1>1, <1>2, <2>1
<1>5. CASE paused
  <2>1. deferred' = Head(frames) /\ cases' = cases
    BY <1>5 DEF Loaded
  <2>2. QED
    BY <1>2, <1>3, <1>4, <2>1 DEF GoneInv
<1>6. CASE ~paused
  <2>1. cases' = WithoutBusy(Head(frames)) /\ deferred' = deferred
    BY <1>6 DEF Loaded
  <2>2. Range(cases') \subseteq Range(Head(frames))
    BY <1>3, <2>1, FrameWithoutBusy
  <2>3. Range(cases') \cap Gone' = {}
    BY <1>2, <1>3, <2>2
  <2>4. QED
    BY <1>2, <1>4, <2>1, <2>3 DEF GoneInv
<1>7. QED
  BY <1>5, <1>6

LEMMA GoneStep ==
  ASSUME StoreInv, GoneInv, FramesOK, InFlightOK, RowsOK, [Next]_vars
  PROVE  GoneInv'
(* Steps that close cases at most, and leave what is shown alone. *)
<1>1. ASSUME open' \subseteq open, UNCHANGED <<frames, cases, busy, deferred, told, tainted>>
      PROVE  GoneInv'
  BY <1>1 DEF GoneInv, Gone
<1>2. ASSUME NEW id \in Cases, Flagged(id) PROVE GoneInv'
  BY <1>2, GoneOfFlagged
<1>3. ASSUME NEW id \in Cases, NEW label \in Labels, ResolvedElsewhere(id, label)
      PROVE  GoneInv'
  <2>1. open' \subseteq open /\ UNCHANGED <<frames, cases, busy, deferred, told, tainted>>
    BY <1>3 DEF ResolvedElsewhere, Resolve, connection, queueState, ghosts
  <2>2. QED
    BY <1>1, <2>1
<1>4. CASE ServerResolves
  <2>1. open' \subseteq open
    BY <1>4 DEF ServerResolves, Resolve, store
  <2>2. UNCHANGED <<frames, cases, busy, deferred, told, tainted>>
    BY <1>4 DEF ServerResolves, queueState, ghosts
  <2>3. QED
    BY <1>1, <2>1, <2>2
<1>5. CASE StreamTick \/ RequestFails \/ Pause \/ UNCHANGED vars
  <2>1. UNCHANGED <<open, frames, cases, busy, deferred, told, tainted>>
    BY <1>5 DEF StreamTick, RequestFails, Pause, vars, store, connection, queueState, ghosts
  <2>2. QED
    BY <1>1, <2>1
<1>6. CASE StreamSend
  <2>1. PICK list \in Lists(QueueInStream) : frames' = Append(frames, list)
    BY <1>6 DEF StreamSend
  <2>2. UNCHANGED <<open, cases, busy, deferred, told, tainted>>
    BY <1>6 DEF StreamSend, store, queueState, ghosts
  <2>3. Frame(list) /\ list \in Seq(Cases) /\ Range(list) \subseteq open
    BY Listed DEF Frame
  <2>4. Range(list) \cap Gone = {}
    BY <2>3 DEF GoneInv, Gone
  <2>5. /\ Len(frames') = Len(frames) + 1
        /\ frames'[Len(frames) + 1] = list /\ \A i \in 1 .. Len(frames) : frames'[i] = frames[i]
        /\ \A i \in 1 .. Len(frames) + 1 : i = Len(frames) + 1 \/ i \in 1 .. Len(frames)
    BY <2>1, <2>3 DEF FramesOK
  <2>6. ASSUME NEW i \in 1 .. Len(frames') PROVE Range(frames'[i]) \cap Gone = {}
    <3>1. CASE i = Len(frames) + 1
      BY <2>4, <2>5, <3>1
    <3>2. CASE i # Len(frames) + 1
      BY <2>5, <3>2 DEF GoneInv
    <3>3. QED
      BY <3>1, <3>2
  <2>7. Gone' = Gone
    BY <2>2 DEF Gone
  <2>8. QED
    BY <2>2, <2>6, <2>7 DEF GoneInv
<1>7. CASE Reconnect
  <2>1. frames' = <<>> /\ UNCHANGED <<open, cases, busy, deferred, told, tainted>>
    BY <1>7 DEF Reconnect, store, queueState, ghosts
  <2>2. Len(frames') = 0 /\ Gone' = Gone
    BY <2>1 DEF Gone
  <2>3. QED
    BY <2>1, <2>2 DEF GoneInv
<1>8. CASE Loaded
  BY <1>8, GoneOfLoaded
<1>9. ASSUME NEW i \in 1 .. MaxOpen + 1, NEW label \in Labels, ResolveStart(i, label)
      PROVE  GoneInv'
  <2>1. /\ i \in 1 .. Len(cases) /\ cases' = RemoveAt(cases, i) /\ busy' = cases[i]
        /\ UNCHANGED <<open, frames, deferred, told, tainted>>
    BY <1>9 DEF ResolveStart, RowsOK, store, ghosts
  <2>2. Range(RemoveAt(cases, i)) = Range(cases) \ {cases[i]}
    BY <2>1, RemovedAt DEF RowsOK
  <2>3. cases[i] \in Range(cases)
    BY <2>1 DEF Range, RowsOK
  <2>4. Range(cases') \subseteq Range(cases) \cup {busy} /\ busy' \in Range(cases) \cup {busy, None}
    BY <2>1, <2>2, <2>3
  <2>5. deferred' = None \/ (deferred # None /\ Range(deferred') \subseteq Range(deferred))
    BY <2>1
  <2>6. told' \subseteq Cases /\ told' \cap open' = {} /\ tainted' \subseteq told' /\ Gone' \subseteq Gone
    BY <2>1 DEF GoneInv, Gone
  <2>7. QED
    BY <2>1, <2>4, <2>5, <2>6, GoneLess
<1>10. CASE ResolveOkOrGone
  BY <1>10, GoneOfAnswer
<1>11. CASE ResolveFail
  <2> DEFINE at == Min({pending.index, Len(cases) + 1})
             r == InsertAt(cases, at, pending.c)
  <2>1. /\ cases' = r /\ busy' = None
        /\ UNCHANGED <<open, frames, deferred, told, tainted>> /\ request # None
    BY <1>11 DEF ResolveFail, store
  <2>2. pending \in Rows /\ pending.c = busy /\ busy \in Cases
    BY <2>1 DEF InFlightOK
  <2>3. pending.index \in Nat \ {0} /\ cases \in Seq(Cases) /\ Len(cases) \in Nat
    BY <2>2 DEF Rows, RowsOK
  <2>4. at = IF pending.index < Len(cases) + 1 THEN pending.index ELSE Len(cases) + 1
    BY <2>3, MinOfTwo
  <2>5. at \in 1 .. Len(cases) + 1
    BY <2>3, <2>4
  <2> HIDE DEF at
  <2>6. Range(r) = Range(cases) \cup {busy}
    BY <2>2, <2>3, <2>5, InsertedAt
  <2> HIDE DEF r
  <2>7. Range(cases') \subseteq Range(cases) \cup {busy} /\ busy' \in Range(cases) \cup {busy, None}
    BY <2>1, <2>6
  <2>8. deferred' = None \/ (deferred # None /\ Range(deferred') \subseteq Range(deferred))
    BY <2>1
  <2>9. told' \subseteq Cases /\ told' \cap open' = {} /\ tainted' \subseteq told' /\ Gone' \subseteq Gone
    BY <2>1 DEF GoneInv, Gone
  <2>10. QED
    BY <2>1, <2>7, <2>8, <2>9, GoneLess
<1>12. CASE Resume
  <2>1. deferred' = None /\ UNCHANGED <<open, frames, busy, told, tainted>>
    BY <1>12 DEF Resume, store, connection
  <2>2. Range(cases') \cap Gone = {}
    <3>1. CASE deferred = None
      BY <1>12, <3>1 DEF Resume, GoneInv
    <3>2. CASE deferred # None
      <4>1. cases' = WithoutBusy(deferred) /\ Frame(deferred)
        BY <1>12, <3>2 DEF Resume, RowsOK
      <4>2. Range(cases') \subseteq Range(deferred)
        BY <4>1, FrameWithoutBusy
      <4>3. QED
        BY <3>2, <4>2 DEF GoneInv
    <3>3. QED
      BY <3>1, <3>2
  <2>3. Gone' = Gone
    BY <2>1 DEF Gone
  <2>4. QED
    BY <2>1, <2>2, <2>3 DEF GoneInv
<1>13. QED
  BY <1>2, <1>3, <1>4, <1>5, <1>6, <1>7, <1>8, <1>9, <1>10, <1>11, <1>12 DEF Next

----------------------------------------------------------------------------
(* The theorems. *)

(* The handler marshals again only what it has compared.                   *)
SentOK == sending \in BOOLEAN /\ (lastSent = None => ~sending)

LEMMA SentStep ==
  ASSUME StoreInv, SentOK, [Next]_vars
  PROVE  SentOK'
<1>1. CASE UNCHANGED handler
  BY <1>1 DEF SentOK, handler
<1>2. CASE StreamTick
  <2>1. PICK list \in Lists(QueueInStream) :
           lastSent' = [queue |-> list, scored |-> opens, counts |-> counts]
    BY <1>2 DEF StreamTick
  <2>2. list \in Seq(Cases) /\ opens \in Nat
    BY Listed DEF Frame, StoreInv, StoreTypeOK
  <2>3. counts \in [Labels -> Nat]
    BY StoreAssumption DEF StoreInv, StoreTypeOK
  <2>4. lastSent' \in Sent
    BY <2>1, <2>2, <2>3 DEF Sent
  <2>5. lastSent' # None
    BY <2>4, QueueAssumption
  <2>6. sending' = TRUE
    BY <1>2 DEF StreamTick
  <2>7. QED
    BY <2>5, <2>6 DEF SentOK
<1>3. CASE StreamSend \/ Reconnect
  BY <1>3 DEF StreamSend, Reconnect, SentOK
<1>4. ASSUME NEW id \in Cases, Flagged(id) PROVE UNCHANGED handler
  BY <1>4 DEF Flagged, connection
<1>5. ASSUME NEW id \in Cases, NEW label \in Labels, ResolvedElsewhere(id, label)
      PROVE  UNCHANGED handler
  BY <1>5 DEF ResolvedElsewhere, connection
<1>6. ASSUME NEW i \in 1 .. MaxOpen + 1, NEW label \in Labels, ResolveStart(i, label)
      PROVE  UNCHANGED handler
  BY <1>6 DEF ResolveStart
<1>7. (\/ ServerResolves \/ RequestFails \/ Loaded \/ ResolveOkOrGone \/ ResolveFail \/ Pause
       \/ Resume \/ UNCHANGED vars) => UNCHANGED handler
  BY DEF ServerResolves, RequestFails, Loaded, ResolveOkOrGone, ResolveFail, Pause, Resume,
     vars, connection
<1>8. QED
  BY <1>1, <1>2, <1>3, <1>4, <1>5, <1>6, <1>7 DEF Next

(* The inductive invariant: the store's order and its labels, the request  *)
(* in flight, the frames, the rows, and what is gone.                      *)
IInv ==
    StoreInv /\ LabelInv /\ InFlightOK /\ FramesOK /\ RowsOK /\ SentOK /\ GoneInv

LEMMA IInvInit == Init => IInv
<1> SUFFICES ASSUME Init PROVE IInv
  OBVIOUS
<1>1. /\ frames = <<>> /\ lastSent = None /\ sending = FALSE /\ request = None
      /\ cases = <<>> /\ busy = None /\ pending = None /\ paused = FALSE /\ deferred = None
      /\ told = {} /\ tainted = {} /\ held = FALSE /\ open = {}
  BY DEF Init, StoreInit
<1>2. DOMAIN cases = {} /\ Len(cases) = 0 /\ Len(frames) = 0 /\ Range(cases) = {}
  BY <1>1 DEF Range
<1>3. InFlightOK /\ SentOK
  BY <1>1 DEF InFlightOK, SentOK
<1>f. FramesOK
  BY <1>1, <1>2 DEF FramesOK
<1>4. RowsOK
  <2>1. cases \in Seq(Cases) /\ IsInjective(cases) /\ busy \notin Range(cases)
    BY <1>1, <1>2 DEF IsInjective
  <2>2. Len(cases) <= QueueInStream + 1
    BY <1>2, QueueAssumption
  <2>3. QED
    BY <1>1, <2>1, <2>2 DEF RowsOK
<1>5. GoneInv
  BY <1>1, <1>2 DEF GoneInv, Gone
<1>6. QED
  BY <1>3, <1>f, <1>4, <1>5, StoreInitInv, LabelInitInv DEF IInv

LEMMA IInvStep == IInv /\ [Next]_vars => IInv'
<1> SUFFICES ASSUME IInv, [Next]_vars PROVE IInv'
  OBVIOUS
<1>1. request = None \/ (request.id \in Cases /\ request.label \in Labels)
  BY DEF IInv, InFlightOK, Requests
<1>2. StoreInv' /\ LabelInv'
  BY <1>1, StoreStep DEF IInv
<1>3. InFlightOK'
  BY InFlightStep DEF IInv, RowsOK
<1>4. FramesOK'
  BY FramesStep DEF IInv
<1>5. RowsOK'
  BY RowsStep DEF IInv
<1>6. SentOK'
  BY SentStep DEF IInv
<1>7. GoneInv'
  BY GoneStep DEF IInv
<1>8. QED
  BY <1>2, <1>3, <1>4, <1>5, <1>6, <1>7 DEF IInv

LEMMA Invariant == Spec => []IInv
BY IInvInit, IInvStep, PTL DEF Spec

(* Every variable of the store, the stream and the reducer keeps its type, *)
(* and the rows outgrow a frame by the one rolled back at most.            *)
THEOREM TypeCorrect == Spec => []TypeOK
<1>1. IInv => TypeOK
  <2> SUFFICES ASSUME IInv PROVE TypeOK
    OBVIOUS
  <2>1. StoreTypeOK
    BY DEF IInv, StoreInv
  <2>2. \A i \in DOMAIN frames : frames[i] \in Seq(Cases)
    BY DEF IInv, FramesOK
  <2>3. QED
    BY <2>1, <2>2 DEF IInv, InFlightOK, RowsOK, SentOK, GoneInv, Frame, TypeOK
<1>2. QED
  BY <1>1, Invariant, PTL

(* The insertion order of the store is its open cases, oldest first, and   *)
(* no longer than the store is large, whatever is evicted, resolved and    *)
(* reopened: MemStore evicts the oldest case and leaks no id.              *)
THEOREM StoreInOrder == Spec => []OldestFirst
<1>1. IInv => OldestFirst
  BY DEF IInv, StoreInv
<1>2. QED
  BY <1>1, Invariant, PTL

(* No opening of a case is labelled twice, however many analysts resolve   *)
(* it, and the resolved list shows the newest labels that were counted.    *)
THEOREM LabelledOnce == Spec => []EachOpeningLabelledOnce
<1>1. IInv => EachOpeningLabelledOnce
  <2> SUFFICES ASSUME IInv PROVE EachOpeningLabelledOnce
    OBVIOUS
  <2> DEFINE n == Len(history)
             k == Min({MaxOpen, n})
             listed == ListResolved(MaxOpen)
  <2>1. /\ history \in Seq(Resolutions) /\ n \in Nat /\ n <= MaxOpen /\ MaxOpen \in Nat
        /\ \A i \in 1 .. n : history[i] \in Resolutions
    BY StoreAssumption DEF IInv, StoreInv, StoreTypeOK
  <2>2. k = IF MaxOpen < n THEN MaxOpen ELSE n
    BY <2>1, MinOfTwo
  <2>3. k = n
    BY <2>1, <2>2
  <2>4. listed = [i \in 1 .. k |-> history[n + 1 - i]]
    BY DEF ListResolved
  <2> HIDE DEF listed, k
  <2>5. listed \in Seq(Resolutions) /\ Len(listed) = n /\ DOMAIN listed = 1 .. n
        /\ \A i \in 1 .. n : listed[i] = history[n + 1 - i]
    <3>1. \A i \in 1 .. n : n + 1 - i \in 1 .. n
      BY <2>1
    <3>2. listed = [i \in 1 .. n |-> history[n + 1 - i]]
      BY <2>3, <2>4
    <3>3. QED
      BY <2>1, <3>1, <3>2
  <2>6. ASSUME NEW l \in Labels
        PROVE  Cardinality({i \in DOMAIN listed : listed[i].label = l}) <= counts[l]
    <3> DEFINE at == [i \in 1 .. n |-> n + 1 - i]
    <3>1. at \in [1 .. Len(listed) -> 1 .. Len(history)] /\ IsInjective(at)
          /\ \A i \in 1 .. Len(listed) : listed[i] = history[at[i]]
      BY <2>1, <2>5 DEF IsInjective
    <3> HIDE DEF at
    <3>2. Cardinality(Places(listed, l)) <= Cardinality(Places(history, l))
      BY <2>1, <2>5, <3>1, PlacesOfPart
    <3>3. {i \in DOMAIN listed : listed[i].label = l} = Places(listed, l)
      BY <2>5 DEF Places
    <3>4. Cardinality(Places(history, l)) <= counts[l] /\ counts[l] \in Nat
      BY StoreAssumption DEF IInv, LabelInv, StoreInv, StoreTypeOK
    <3>5. Cardinality(Places(listed, l)) \in Nat /\ Cardinality(Places(history, l)) \in Nat
      BY <2>1, <2>5, PlacesAreFinite
    <3>6. Cardinality(Places(listed, l)) <= counts[l]
      BY <3>2, <3>4, <3>5
    <3>7. QED
      BY <3>3, <3>6
  <2>7. Len(listed) = Min({MaxOpen, SumFunction(counts)})
        /\ SumFunction(counts) + Cardinality(open) <= opens
    BY <2>5 DEF IInv, LabelInv
  <2>8. ASSUME NEW i \in DOMAIN listed PROVE listed[i].nth = SumFunction(counts) + 1 - i
    <3>1. i \in 1 .. n /\ i \in Nat /\ n + 1 - i \in 1 .. n /\ listed[i] = history[n + 1 - i]
      BY <2>1, <2>5
    <3>2. \A j \in 1 .. n : history[j].nth = SumFunction(counts) - n + j
      BY DEF IInv, LabelInv
    <3>3. listed[i].nth = SumFunction(counts) - n + (n + 1 - i)
      BY <3>1, <3>2
    <3>4. SumFunction(counts) \in Nat
      BY CountsSum DEF IInv, StoreInv
    <3>5. QED
      BY <2>1, <3>1, <3>3, <3>4
  <2>9. QED
    BY <2>6, <2>7, <2>8 DEF EachOpeningLabelledOnce, ResolvedTotal, listed
<1>2. QED
  BY <1>1, Invariant, PTL

(* No frame, roll-back or resumption doubles a row, or shows the case      *)
(* whose resolve is in flight.                                             *)
THEOREM ShownOnce == Spec => []EachCaseShownOnce
<1>1. IInv => EachCaseShownOnce
  BY DEF IInv, InFlightOK, RowsOK, EachCaseShownOnce
<1>2. QED
  BY <1>1, Invariant, PTL

(* A case the analyst was told is resolved or gone is not shown again,     *)
(* unless a frame that was under way then still lists it, or it reopens.   *)
THEOREM GoneForGood == Spec => []GoneStaysGone
<1>1. IInv => GoneStaysGone
  BY DEF IInv, GoneInv, Gone, GoneStaysGone
<1>2. QED
  BY <1>1, Invariant, PTL
=============================================================================
