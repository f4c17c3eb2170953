------------------------- MODULE HistoryFetchProofs -------------------------
(***************************************************************************)
(* Proofs about the paging loops and finish_result, for any range, page    *)
(* limit, page budget and clock, and any venue.                            *)
(***************************************************************************)
EXTENDS HistoryFetch, FiniteSetTheorems, TLAPS

-----------------------------------------------------------------------------
(* Ranks *)

Below(S, key, x) == {y \in S : key[y] < key[x]}

LEMMA BelowFinite ==
    ASSUME NEW S, IsFiniteSet(S), NEW key \in [S -> Int], NEW x \in S
    PROVE  /\ IsFiniteSet(Below(S, key, x))
           /\ Cardinality(Below(S, key, x)) \in 0 .. Cardinality(S) - 1
<1>1. Below(S, key, x) \in SUBSET S /\ x \notin Below(S, key, x)
  BY DEF Below
<1>2. /\ IsFiniteSet(Below(S, key, x))
      /\ Cardinality(Below(S, key, x)) <= Cardinality(S)
      /\ Cardinality(S) # Cardinality(Below(S, key, x))
  BY <1>1, FS_Subset
<1>3. Cardinality(S) \in Nat /\ Cardinality(Below(S, key, x)) \in Nat
  BY <1>2, FS_CardinalityType
<1>. QED  BY <1>2, <1>3

\* A smaller key has fewer keys below it.
LEMMA BelowMonotone ==
    ASSUME NEW S, IsFiniteSet(S), NEW key \in [S -> Int], NEW x \in S, NEW y \in S,
           key[x] < key[y]
    PROVE  Cardinality(Below(S, key, x)) < Cardinality(Below(S, key, y))
<1>1. Below(S, key, x) \in SUBSET Below(S, key, y) /\ Below(S, key, x) # Below(S, key, y)
  BY DEF Below
<1>2. /\ Cardinality(Below(S, key, x)) <= Cardinality(Below(S, key, y))
      /\ Cardinality(Below(S, key, y)) # Cardinality(Below(S, key, x))
  BY <1>1, BelowFinite, FS_Subset
<1>3. Cardinality(Below(S, key, x)) \in Nat /\ Cardinality(Below(S, key, y)) \in Nat
  BY BelowFinite, FS_CardinalityType
<1>. QED  BY <1>2, <1>3

\* Distinct keys have the ranks from 0 on, each once: there are as many ranks as
\* there are elements.
LEMMA EveryRank ==
    ASSUME NEW S, IsFiniteSet(S), NEW key \in [S -> Int],
           \A x, y \in S : key[x] = key[y] => x = y,
           NEW i \in 0 .. Cardinality(S) - 1
    PROVE  \E x \in S : Cardinality(Below(S, key, x)) = i
<1>. DEFINE n == Cardinality(S)
            rank == [x \in S |-> Cardinality(Below(S, key, x))]
<1>1. n \in Nat
  BY FS_CardinalityType
<1>2. \A x \in S : rank[x] \in 0 .. n - 1
  BY BelowFinite
<1>3. ASSUME NEW x \in S, NEW y \in S, rank[x] = rank[y] PROVE x = y
  <2>1. ~ (key[x] < key[y]) /\ ~ (key[y] < key[x])
    BY <1>2, <1>3, BelowMonotone
  <2>. QED  BY <2>1
<1>4. rank \in Injection(S, 0 .. n - 1)
  BY <1>2, <1>3 DEF Injection, IsInjective
<1>5. IsFiniteSet(0 .. n - 1) /\ Cardinality(0 .. n - 1) = n
  BY <1>1, FS_Interval
<1>6. rank \in Surjection(S, 0 .. n - 1)
  <2>. HIDE DEF rank
  <2>. QED  BY <1>4, <1>5, FS_Injection
<1>. QED  BY <1>6 DEF Surjection

-----------------------------------------------------------------------------
(* The order of the candles *)

Start(C) == [c \in C |-> c.start]

\* The candles of C before c.
Earlier(C, c) == {d \in C : d.start < c.start}

LEMMA EarlierBelow ==
    ASSUME NEW C, NEW c \in C
    PROVE  Earlier(C, c) = Below(C, Start(C), c)
BY DEF Earlier, Below, Start

\* What sorting makes of candles with distinct start times: each is at the place
\* given by the number of those before it.
InOrder(s, C) ==
    /\ s \in [1 .. Cardinality(C) -> C]
    /\ \A i \in 1 .. Cardinality(C) : Cardinality(Earlier(C, s[i])) = i - 1
    /\ \A i, j \in 1 .. Cardinality(C) : i < j => s[i].start < s[j].start
    /\ \A c \in C : /\ Cardinality(Earlier(C, c)) + 1 \in 1 .. Cardinality(C)
                    /\ s[Cardinality(Earlier(C, c)) + 1] = c

LEMMA SortedInOrder ==
    ASSUME NEW C, IsFiniteSet(C), \A c \in C : c.start \in Nat, ~ Conflicting(C)
    PROVE  InOrder(Sorted(C), C)
<1>. DEFINE n == Cardinality(C)
            s == Sorted(C)
            rank(c) == Cardinality(Earlier(C, c))
<1>1. /\ n \in Nat
      /\ Start(C) \in [C -> Int]
      /\ \A c, d \in C : Start(C)[c] = Start(C)[d] => c = d
  BY FS_CardinalityType DEF Start, Conflicting
<1>2. \A c \in C : rank(c) \in 0 .. n - 1
  BY <1>1, BelowFinite, EarlierBelow
<1>3. \A c, d \in C : c.start < d.start => rank(c) < rank(d)
  <2>. SUFFICES ASSUME NEW c \in C, NEW d \in C, c.start < d.start PROVE rank(c) < rank(d)
    OBVIOUS
  <2>1. Start(C)[c] < Start(C)[d]
    BY DEF Start
  <2>. QED  BY <2>1, <1>1, BelowMonotone, EarlierBelow
<1>4. \A c, d \in C : rank(c) = rank(d) => c = d
  <2>. SUFFICES ASSUME NEW c \in C, NEW d \in C, rank(c) = rank(d) PROVE c = d
    OBVIOUS
  <2>1. rank(c) \in Nat
    BY <1>1, <1>2
  <2>2. ~ (c.start < d.start) /\ ~ (d.start < c.start)
    BY <2>1, <1>3
  <2>. QED  BY <2>2 DEF Conflicting
<1>5. \A i \in 1 .. n : \E c \in C : rank(c) = i - 1
  <2>. SUFFICES ASSUME NEW i \in 1 .. n PROVE \E c \in C : rank(c) = i - 1
    OBVIOUS
  <2>1. i - 1 \in 0 .. n - 1
    BY <1>1
  <2>2. PICK c \in C : Cardinality(Below(C, Start(C), c)) = i - 1
    BY <2>1, <1>1, EveryRank
  <2>. QED  BY <2>2, EarlierBelow
<1>6. s = [i \in 1 .. n |-> CHOOSE c \in C : rank(c) = i - 1]
  BY DEF Sorted, Earlier
<1>. HIDE DEF n, s, rank
<1>7. /\ s \in [1 .. n -> C]
      /\ \A i \in 1 .. n : rank(s[i]) = i - 1
  BY <1>5, <1>6
<1>8. \A c \in C : rank(c) + 1 \in 1 .. n /\ s[rank(c) + 1] = c
  <2>. SUFFICES ASSUME NEW c \in C PROVE rank(c) + 1 \in 1 .. n /\ s[rank(c) + 1] = c
    OBVIOUS
  <2>1. rank(c) + 1 \in 1 .. n /\ (rank(c) + 1) - 1 = rank(c)
    BY <1>1, <1>2
  <2>2. s[rank(c) + 1] \in C /\ rank(s[rank(c) + 1]) = rank(c)
    BY <2>1, <1>7
  <2>. QED  BY <2>1, <2>2, <1>4
<1>9. \A i, j \in 1 .. n : i < j => s[i].start < s[j].start
  <2>. SUFFICES ASSUME NEW i \in 1 .. n, NEW j \in 1 .. n, i < j PROVE s[i].start < s[j].start
    OBVIOUS
  <2>1. s[i] \in C /\ s[j] \in C /\ rank(s[i]) = i - 1 /\ rank(s[j]) = j - 1
    BY <1>7
  <2>2. s[i].start \in Nat /\ s[j].start \in Nat
    BY <2>1
  <2>3. s[i].start # s[j].start
    BY <2>1, <1>1 DEF Conflicting
  <2>4. ~ (s[j].start < s[i].start)
    BY <2>1, <1>1, <1>3
  <2>. QED  BY <2>2, <2>3, <2>4
<1>. QED  BY <1>7, <1>8, <1>9 DEF InOrder, n, s, rank

-----------------------------------------------------------------------------
(* The pages of an honest venue *)

\* A page leads its window: it leaves out nothing that comes before what it holds,
\* is not empty unless the window is, and is short only if it is the whole window.
Leads(P, M, key) ==
    /\ P \subseteq M
    /\ \A m \in P, k \in M : key[k] < key[m] => k \in P
    /\ M # {} => P # {}
    /\ Cardinality(P) < PageLimit => P = M

LEMMA LeadingPage ==
    ASSUME NEW M, IsFiniteSet(M), NEW key \in [M -> Int],
           \A x, y \in M : key[x] = key[y] => x = y
    PROVE  Leads({m \in M : Cardinality(Below(M, key, m)) < PageLimit}, M, key)
<1>. DEFINE P == {m \in M : Cardinality(Below(M, key, m)) < PageLimit}
            n == Cardinality(M)
            rank(m) == Cardinality(Below(M, key, m))
<1>1. n \in Nat /\ PageLimit \in Nat \ {0}
  BY FS_CardinalityType, HistoryAssumption
<1>2. \A m \in M : rank(m) \in 0 .. n - 1
  BY BelowFinite
<1>3. \A i \in 0 .. n - 1 : \E m \in M : rank(m) = i
  BY EveryRank
<1>4. \A m, k \in M : key[k] < key[m] => rank(k) < rank(m)
  BY BelowMonotone
<1>5. P = {m \in M : rank(m) < PageLimit} /\ P \subseteq M
  OBVIOUS
<1>. HIDE DEF P, n, rank
<1>6. \A m \in P, k \in M : key[k] < key[m] => k \in P
  <2>. SUFFICES ASSUME NEW m \in P, NEW k \in M, key[k] < key[m] PROVE k \in P
    OBVIOUS
  <2>1. rank(k) \in Nat /\ rank(m) \in Nat /\ rank(k) < rank(m) /\ rank(m) < PageLimit
    BY <1>1, <1>2, <1>4, <1>5
  <2>. QED  BY <2>1, <1>1, <1>5
<1>7. ASSUME M # {} PROVE P # {}
  <2>1. PICK x : x \in M
    BY <1>7
  <2>2. 0 \in 0 .. n - 1
    BY <1>1, <1>2, <2>1
  <2>3. PICK m \in M : rank(m) = 0
    BY <2>2, <1>3
  <2>. QED  BY <2>3, <1>1, <1>5
<1>8. ASSUME Cardinality(P) < PageLimit PROVE P = M
  <2>. SUFFICES ASSUME NEW m \in M, m \notin P PROVE FALSE
    BY <1>5
  <2>1. PageLimit <= rank(m) /\ rank(m) <= n - 1
    BY <1>1, <1>2, <1>5
  <2>2. \A i \in 0 .. PageLimit - 1 : \E x \in P : rank(x) = i
    <3>. SUFFICES ASSUME NEW i \in 0 .. PageLimit - 1 PROVE \E x \in P : rank(x) = i
      OBVIOUS
    <3>1. i \in 0 .. n - 1 /\ i < PageLimit
      BY <1>1, <1>2, <2>1
    <3>. QED  BY <3>1, <1>3, <1>5
  <2>. DEFINE at == [i \in 0 .. PageLimit - 1 |-> CHOOSE x \in P : rank(x) = i]
  <2>3. \A i \in 0 .. PageLimit - 1 : at[i] \in P /\ rank(at[i]) = i
    BY <2>2
  <2>4. at \in Injection(0 .. PageLimit - 1, P)
    <3>. HIDE DEF at
    <3>1. at \in [0 .. PageLimit - 1 -> P]
      BY <2>3 DEF at
    <3>2. \A i, j \in 0 .. PageLimit - 1 : at[i] = at[j] => i = j
      BY <2>3
    <3>. QED  BY <3>1, <3>2 DEF Injection, IsInjective
  <2>5. IsFiniteSet(P) /\ Cardinality(P) \in Nat
    BY <1>5, FS_Subset, FS_CardinalityType
  <2>6. Cardinality(0 .. PageLimit - 1) = PageLimit
    BY <1>1, FS_Interval
  <2>7. Cardinality(0 .. PageLimit - 1) <= Cardinality(P)
    <3>. HIDE DEF at
    <3>. QED  BY <2>4, <2>5, FS_Injection
  <2>. QED  BY <2>5, <2>6, <2>7, <1>1, <1>8
<1>. QED  BY <1>5, <1>6, <1>7, <1>8 DEF Leads, P, rank

\* Start times by increasing and by decreasing value.
Up(M) == [m \in M |-> m]
Down(M) == [m \in M |-> 0 - m]

LEMMA UpKey ==
    ASSUME NEW M \in SUBSET Nat
    PROVE  /\ Up(M) \in [M -> Int]
           /\ \A x, y \in M : Up(M)[x] = Up(M)[y] => x = y
BY DEF Up

LEMMA DownKey ==
    ASSUME NEW M \in SUBSET Nat
    PROVE  /\ Down(M) \in [M -> Int]
           /\ \A x, y \in M : Down(M)[x] = Down(M)[y] => x = y
<1>1. \A m \in M : m \in Nat /\ Down(M)[m] = 0 - m
  BY DEF Down
<1>2. Down(M) \in [M -> Int]
  BY DEF Down
<1>. QED  BY <1>1, <1>2

LEMMA BelowUp ==
    ASSUME NEW M \in SUBSET Nat, NEW m \in M
    PROVE  Below(M, Up(M), m) = {n \in M : n < m}
BY DEF Below, Up

LEMMA BelowDown ==
    ASSUME NEW M \in SUBSET Nat, NEW m \in M
    PROVE  Below(M, Down(M), m) = {n \in M : n > m}
<1>1. \A n \in M : n \in Nat /\ Down(M)[n] = 0 - n
  BY DEF Down
<1>2. \A n \in M : Down(M)[n] < Down(M)[m] <=> n > m
  BY <1>1
<1>. QED  BY <1>2 DEF Below

LEMMA FirstLeads ==
    ASSUME NEW M \in SUBSET Nat, IsFiniteSet(M)
    PROVE  Leads(First(M), M, Up(M))
<1>1. First(M) = {m \in M : Cardinality(Below(M, Up(M), m)) < PageLimit}
  BY BelowUp DEF First
<1>. DEFINE key == Up(M)
<1>2. key \in [M -> Int] /\ \A x, y \in M : key[x] = key[y] => x = y
  BY UpKey
<1>. HIDE DEF key
<1>3. Leads({m \in M : Cardinality(Below(M, key, m)) < PageLimit}, M, key)
  BY <1>2, LeadingPage
<1>. QED  BY <1>1, <1>3 DEF key

LEMMA LastLeads ==
    ASSUME NEW M \in SUBSET Nat, IsFiniteSet(M)
    PROVE  Leads(Last(M), M, Down(M))
<1>1. Last(M) = {m \in M : Cardinality(Below(M, Down(M), m)) < PageLimit}
  BY BelowDown DEF Last
<1>. DEFINE key == Down(M)
<1>2. key \in [M -> Int] /\ \A x, y \in M : key[x] = key[y] => x = y
  BY DownKey
<1>. HIDE DEF key
<1>3. Leads({m \in M : Cardinality(Below(M, key, m)) < PageLimit}, M, key)
  BY <1>2, LeadingPage
<1>. QED  BY <1>1, <1>3 DEF key

\* A finite set of start times has a least and a greatest.
LEMMA Extremes ==
    ASSUME NEW M \in SUBSET Nat, IsFiniteSet(M), M # {}
    PROVE  /\ \E m \in M : \A n \in M : m <= n
           /\ \E m \in M : \A n \in M : n <= m
<1>1. Cardinality(M) \in Nat /\ Cardinality(M) # 0
  BY FS_CardinalityType, FS_EmptySet
<1>2. 0 \in 0 .. Cardinality(M) - 1
  BY <1>1
<1>3. ASSUME NEW key \in [M -> Int], \A x, y \in M : key[x] = key[y] => x = y
      PROVE  \E m \in M : \A n \in M : ~ (key[n] < key[m])
  <2>1. PICK m \in M : Cardinality(Below(M, key, m)) = 0
    BY <1>2, <1>3, EveryRank
  <2>2. Below(M, key, m) = {}
    BY <2>1, BelowFinite, FS_EmptySet
  <2>. QED  BY <2>2 DEF Below
<1>4. PICK a \in M : \A n \in M : ~ (Up(M)[n] < Up(M)[a])
  BY <1>3, UpKey
<1>5. PICK b \in M : \A n \in M : ~ (Down(M)[n] < Down(M)[b])
  BY <1>3, DownKey
<1>6. \A n \in M : a <= n
  BY <1>4 DEF Up
<1>7. \A n \in M : n <= b
  <2>1. \A n \in M : n \in Nat /\ Down(M)[n] = 0 - n
    BY DEF Down
  <2>. QED  BY <2>1, <1>5
<1>. QED  BY <1>6, <1>7

-----------------------------------------------------------------------------
(* Alignment *)

LEMMA Product == ASSUME NEW a \in Int, NEW b \in Int PROVE a * b \in Int
OBVIOUS

LEMMA ProductMonotone ==
    ASSUME NEW a \in Int, NEW b \in Int, NEW d \in Nat \ {0}
    PROVE  /\ a < b <=> a * d < b * d
           /\ a <= b <=> a * d <= b * d
OBVIOUS

LEMMA AlignedMultiple ==
    ASSUME NEW t \in Nat
    PROVE  Aligned(t) <=> \E k \in Nat : t = k * Interval
<1>. DEFINE I == Interval
<1>1. I \in Nat \ {0}
  BY HistoryAssumption
<1>2. ASSUME t % I = 0 PROVE \E k \in Nat : t = k * I
  <2>1. t \div I \in Nat /\ t = I * (t \div I) + (t % I)
    BY <1>1
  <2>. QED  BY <2>1, <1>1, <1>2
<1>3. ASSUME NEW k \in Nat, t = k * I PROVE t % I = 0
  <2>1. t % I \in 0 .. I - 1 /\ t = I * (t \div I) + (t % I) /\ t \div I \in Nat
    BY <1>1
  <2>. QED  BY <2>1, <1>1, <1>3
<1>. QED  BY <1>2, <1>3 DEF Aligned

\* Aligned times that differ are an interval apart.
LEMMA AlignedApart ==
    ASSUME NEW m \in Nat, NEW n \in Nat, Aligned(m), Aligned(n), m < n
    PROVE  m + Interval <= n
<1>. DEFINE I == Interval
<1>1. I \in Nat \ {0}
  BY HistoryAssumption
<1>2. PICK j \in Nat : m = j * I
  BY AlignedMultiple
<1>3. PICK k \in Nat : n = k * I
  BY AlignedMultiple
<1>. HIDE DEF I
<1>4. j < k
  BY <1>1, <1>2, <1>3, ProductMonotone
<1>5. (j + 1) * I <= k * I
  BY <1>1, <1>4, ProductMonotone
<1>6. (j + 1) * I = j * I + I
  BY <1>1
<1>. QED  BY <1>2, <1>3, <1>5, <1>6 DEF I

LEMMA AlignedLater ==
    ASSUME NEW m \in Nat, Aligned(m), NEW n \in Nat
    PROVE  Aligned(m + n * Interval)
<1>. DEFINE I == Interval
<1>1. I \in Nat \ {0}
  BY HistoryAssumption
<1>2. PICK k \in Nat : m = k * I
  BY AlignedMultiple
<1>3. (k + n) * I = m + n * I /\ k + n \in Nat /\ m + n * I \in Nat
  BY <1>1, <1>2
<1>. QED  BY <1>3, AlignedMultiple

\* A range holds no more aligned times than there are intervals in it.
LEMMA AlignedCount ==
    ASSUME NEW D \in SUBSET Nat, IsFiniteSet(D), NEW a \in Nat, NEW b \in Nat,
           Aligned(a), Aligned(b), \A d \in D : Aligned(d) /\ a <= d /\ d < b
    PROVE  a <= b => Cardinality(D) * Interval <= b - a
<1>. DEFINE I == Interval
<1>1. I \in Nat \ {0}
  BY HistoryAssumption
<1>2. PICK j \in Nat : a = j * I
  BY AlignedMultiple
<1>3. PICK k \in Nat : b = k * I
  BY AlignedMultiple
<1>4. \A d \in D : \E i \in Nat : d = i * I
  BY AlignedMultiple
<1>. HIDE DEF I
<1>. DEFINE index == [d \in D |-> CHOOSE i \in Nat : d = i * I]
<1>5. \A d \in D : index[d] \in Nat /\ d = index[d] * I
  BY <1>4
<1>. HIDE DEF index
<1>6. \A d \in D : index[d] \in j .. k - 1
  <2>. SUFFICES ASSUME NEW d \in D PROVE index[d] \in j .. k - 1
    OBVIOUS
  <2>1. index[d] \in Nat /\ j * I <= index[d] * I /\ index[d] * I < k * I
    BY <1>2, <1>3, <1>5
  <2>2. j <= index[d] /\ index[d] < k
    BY <2>1, <1>1, ProductMonotone
  <2>. QED  BY <2>1, <2>2
<1>7. index \in Injection(D, j .. k - 1)
  <2>1. index \in [D -> j .. k - 1]
    BY <1>6 DEF index
  <2>2. \A x, y \in D : index[x] = index[y] => x = y
    BY <1>5
  <2>. QED  BY <2>1, <2>2 DEF Injection, IsInjective
<1>8. /\ IsFiniteSet(j .. k - 1)
      /\ Cardinality(j .. k - 1) = IF j > k - 1 THEN 0 ELSE (k - 1) - j + 1
  BY FS_Interval
<1>9. Cardinality(D) <= Cardinality(j .. k - 1) /\ Cardinality(D) \in Nat
  BY <1>7, <1>8, FS_Injection, FS_CardinalityType
<1>10. ASSUME a <= b PROVE Cardinality(D) * I <= b - a
  <2>1. j <= k
    BY <1>1, <1>2, <1>3, <1>10, ProductMonotone
  <2>2. Cardinality(D) <= k - j
    BY <2>1, <1>8, <1>9
  <2>3. Cardinality(D) * I <= (k - j) * I
    BY <2>2, <1>1, <1>9, ProductMonotone
  <2>4. (k - j) * I = k * I - j * I
    BY <1>1
  <2>. QED  BY <2>3, <2>4, <1>2, <1>3
<1>. QED  BY <1>10 DEF I

-----------------------------------------------------------------------------
(* The inductive invariant *)

Paging == status \in {"time", "page"}

Typed ==
    /\ provider \in Providers /\ request \in Requests /\ honest \in BOOLEAN
    /\ now \in Nat /\ asked_at \in Nat /\ server_time_ms \in Nat
    /\ asked_at <= now /\ server_time_ms <= now
    /\ cursor \in Nat /\ pages \in 0 .. MaxPages
    /\ candles \subseteq [start : Nat, value : Nat, finality : {"Open", "Closed", "Unknown"}]
    /\ IsFiniteSet(candles)

\* The cursor is inside the range as long as there is a page to ask for.
Underway ==
    /\ status \in {"new", "time"} => candles = {} /\ pages = 0
    /\ Paging =>
          /\ Valid(request) /\ Aligned(cursor)
          /\ IF provider \in Backward THEN request.start < cursor /\ cursor <= request.end
             ELSE request.start <= cursor /\ cursor < request.end

\* The part of the range the cursor has passed.
Passed(m) == IF provider \in Backward THEN m >= cursor ELSE m < cursor
Distance == IF provider \in Backward THEN request.end - cursor ELSE cursor - request.start

\* The candles asked for that were there when the request arrived.
Known == {m \in Available(asked_at) : m >= request.start /\ m + Interval <= request.end}

\* From an honest venue: what the cursor has passed was collected, once and from
\* nowhere else, and each page has moved the cursor by as many candles as a page
\* holds.
Collected ==
    /\ ~ Conflicting(candles)
    /\ \A c \in candles : /\ c.start \in Available(now)
                          /\ c.finality = "Closed" => c.value = Interval
    /\ Paging =>
          /\ \A c \in candles : Passed(c.start)
          /\ \A m \in Known : Passed(m) => m \in Starts(candles)
          /\ pages * (PageLimit * Interval) <= Distance
    /\ status = "ok" => Known \subseteq Starts(candles)
    /\ status \notin {"stalled", "conflict", "failed"}

Returned ==
    status = "ok" => /\ ~ Conflicting(Retained(candles))
                     /\ result = Truncated(Sorted(Retained(candles)))

IInv == Typed /\ Underway /\ (honest => Collected) /\ Returned

-----------------------------------------------------------------------------
(* What a page brings *)

CandleType == [start : Nat, value : Nat, finality : {"Open", "Closed", "Unknown"}]
RowType == [start : Nat, value : Nat]

LEMMA CandleOfRow ==
    ASSUME provider \in Providers, NEW row \in RowType, NEW t
    PROVE  /\ Candle(row, t) \in CandleType
           /\ Candle(row, t).start = row.start
<1>1. \E f \in {"Open", "Closed", "Unknown"} : Candle(row, t) = build_candle(row, f)
  <2>1. \A m, u : elapsed_finality(m, u) \in {"Open", "Closed", "Unknown"}
    BY DEF elapsed_finality
  <2>2. provider \in {"bybit", "okx", "binance", "kucoin", "mexc", "bingx"}
    BY HistoryAssumption
  <2>. QED
    BY <2>1, <2>2 DEF Candle, parse_bybit, parse_binance, parse_okx, parse_kucoin, parse_mexc, parse_bingx
<1>. QED  BY <1>1 DEF build_candle, CandleType, RowType

\* A candle that a venue's row shows as closed has its final value: the time it
\* is judged by is not after the time of the answer.
LEMMA ClosedCandle ==
    ASSUME provider \in Providers, NEW t \in Nat, NEW m \in Nat, m <= t,
           server_time_ms \in Nat, server_time_ms <= t,
           Candle(Row(m, t), t).finality = "Closed"
    PROVE  Candle(Row(m, t), t).value = Interval
<1>1. Interval \in Nat /\ provider \in {"bybit", "okx", "binance", "kucoin", "mexc", "bingx"}
  BY HistoryAssumption
<1>2. ASSUME NEW u \in Nat, u <= t, elapsed_finality(m, u) = "Closed"
      PROVE  Row(m, t).value = Interval
  <2>1. m + Interval <= u
    BY <1>2 DEF elapsed_finality
  <2>. QED  BY <2>1, <1>1, <1>2 DEF Row
<1>3. Row(m, t).start = m
  BY DEF Row
<1>4. \A f : /\ build_candle(Row(m, t), f).finality = f
             /\ build_candle(Row(m, t), f).value = Row(m, t).value
  BY DEF build_candle
<1>5. CASE provider = "bybit"
  <2>1. Candle(Row(m, t), t) = build_candle(Row(m, t), elapsed_finality(m, t))
    BY <1>5, <1>3 DEF Candle, parse_bybit
  <2>. QED  BY <2>1, <1>2, <1>4
<1>6. CASE provider \in {"binance", "mexc", "bingx"}
  <2>1. Candle(Row(m, t), t) = build_candle(Row(m, t), elapsed_finality(m, server_time_ms))
    BY <1>6, <1>3 DEF Candle, parse_binance, parse_mexc, parse_bingx
  <2>. QED  BY <2>1, <1>2, <1>4
<1>7. CASE provider = "okx"
  <2>1. Candle(Row(m, t), t)
            = build_candle(Row(m, t), IF Row(m, t).value = Interval THEN "Closed" ELSE "Open")
    BY <1>7 DEF Candle, parse_okx
  <2>. QED  BY <2>1, <1>4
<1>8. CASE provider = "kucoin"
  <2>1. Candle(Row(m, t), t) = build_candle(Row(m, t), "Unknown")
    BY <1>8 DEF Candle, parse_kucoin
  <2>. QED  BY <2>1, <1>4
<1>. QED  BY <1>1, <1>5, <1>6, <1>7, <1>8

LEMMA AvailableFinite ==
    ASSUME NEW t \in Nat
    PROVE  /\ Available(t) \subseteq Nat /\ IsFiniteSet(Available(t))
           /\ \A m \in Available(t) : Aligned(m) /\ m <= t
<1>1. IsFiniteSet(0 .. t) /\ Available(t) \in SUBSET (0 .. t)
  BY FS_Interval DEF Available
<1>. QED  BY <1>1, FS_Subset DEF Available

\* The start times in an honest page.
Shown(t) ==
    IF provider \in Backward THEN Last(Available(t) \cap Window) ELSE First(Available(t) \cap Window)

LEMMA HonestRowsOf ==
    ASSUME NEW t \in Nat
    PROVE  /\ Shown(t) \subseteq Available(t) \cap Window
           /\ HonestRows(t) = {Row(m, t) : m \in Shown(t)}
           /\ HonestRows(t) \subseteq RowType /\ IsFiniteSet(HonestRows(t))
           /\ Cardinality(HonestRows(t)) = Cardinality(Shown(t))
<1>. DEFINE f == [m \in Shown(t) |-> Row(m, t)]
<1>1. Shown(t) \subseteq Available(t) \cap Window
  BY DEF Shown, First, Last
<1>2. IsFiniteSet(Shown(t)) /\ \A m \in Shown(t) : m \in Nat /\ m <= t
  BY <1>1, AvailableFinite, FS_Subset
<1>3. HonestRows(t) = {Row(m, t) : m \in Shown(t)}
  BY DEF HonestRows, Shown
<1>. HIDE DEF Shown
<1>4. \A m \in Shown(t) : Row(m, t) \in RowType /\ Row(m, t).start = m
  BY <1>2, HistoryAssumption DEF Row, RowType
<1>5. f \in Surjection(Shown(t), HonestRows(t)) /\ f \in Injection(Shown(t), HonestRows(t))
  <2>1. f \in [Shown(t) -> HonestRows(t)]
    BY <1>3
  <2>2. \A r \in HonestRows(t) : \E m \in Shown(t) : f[m] = r
    BY <1>3
  <2>3. \A m, n \in Shown(t) : f[m] = f[n] => m = n
    BY <1>4
  <2>. QED  BY <2>1, <2>2, <2>3 DEF Surjection, Injection, IsInjective
<1>6. IsFiniteSet(HonestRows(t)) /\ Cardinality(HonestRows(t)) = Cardinality(Shown(t))
  <2>. HIDE DEF f
  <2>. QED  BY <1>2, <1>5, FS_Surjection
<1>. QED  BY <1>1, <1>3, <1>4, <1>6

LEMMA PageRows ==
    ASSUME NEW t \in Nat, NEW page \in Pages(t)
    PROVE  page.rows \subseteq RowType /\ IsFiniteSet(page.rows)
<1>1. CASE honest
  BY <1>1, HonestRowsOf DEF Pages
<1>2. CASE ~ honest
  <2>1. PICK R \in SUBSET [start : Ticks, value : {0, Interval}] : page.rows = R
    BY <1>2 DEF Pages
  <2>2. Ticks \subseteq Nat /\ {0, Interval} \subseteq Nat
    BY HistoryAssumption
  <2>3. [start : Ticks, value : {0, Interval}] \subseteq RowType
    BY <2>2 DEF RowType
  <2>4. IsFiniteSet([start : Ticks, value : {0, Interval}])
    <3>. DEFINE g == [p \in Ticks \X {0, Interval} |-> [start |-> p[1], value |-> p[2]]]
                T == [start : Ticks, value : {0, Interval}]
    <3>1. IsFiniteSet(Ticks) /\ IsFiniteSet({0, Interval})
      <4>1. IsFiniteSet({0}) /\ {0, Interval} = {0} \cup {Interval}
        BY FS_Singleton
      <4>2. IsFiniteSet({0} \cup {Interval})
        BY <4>1, FS_AddElement
      <4>. QED  BY <4>1, <4>2, HistoryAssumption
    <3>2. IsFiniteSet(Ticks \X {0, Interval})
      BY <3>1, FS_Product
    <3>3. ASSUME NEW r \in T PROVE \E p \in Ticks \X {0, Interval} : g[p] = r
      <4>1. <<r.start, r.value>> \in Ticks \X {0, Interval}
        OBVIOUS
      <4>2. g[<<r.start, r.value>>] = [start |-> r.start, value |-> r.value]
        BY <4>1
      <4>. QED  BY <4>1, <4>2
    <3>4. g \in Surjection(Ticks \X {0, Interval}, T)
      BY <3>3 DEF Surjection
    <3>. HIDE DEF g, T
    <3>5. IsFiniteSet(T)
      BY <3>2, <3>4, FS_Surjection
    <3>. QED  BY <3>5 DEF T
  <2>. QED  BY <2>1, <2>3, <2>4, FS_Subset
<1>. QED  BY <1>1, <1>2

LEMMA PageCandles ==
    ASSUME provider \in Providers, NEW t \in Nat, NEW rows, rows \subseteq RowType, IsFiniteSet(rows)
    PROVE  /\ Parsed(rows, t) \subseteq CandleType /\ IsFiniteSet(Parsed(rows, t))
           /\ Starts(Parsed(rows, t)) = {row.start : row \in rows}
           /\ Starts(Parsed(rows, t)) \subseteq Nat /\ IsFiniteSet(Starts(Parsed(rows, t)))
<1>. DEFINE C == Parsed(rows, t)
            f == [row \in rows |-> Candle(row, t)]
            g == [c \in C |-> c.start]
<1>1. \A row \in rows : Candle(row, t) \in CandleType /\ Candle(row, t).start = row.start
  BY CandleOfRow
<1>2. C = {Candle(row, t) : row \in rows}
  BY DEF Parsed
<1>3. C \subseteq CandleType
  BY <1>1, <1>2
<1>4. Starts(C) = {row.start : row \in rows}
  <2>1. Starts(C) = {c.start : c \in C}
    BY DEF Starts
  <2>. HIDE DEF C
  <2>. QED  BY <2>1, <1>1, <1>2
<1>5. f \in Surjection(rows, C)
  BY <1>2 DEF Surjection
<1>6. IsFiniteSet(C)
  <2>. HIDE DEF f, C
  <2>. QED  BY <1>5, FS_Surjection
<1>7. g \in Surjection(C, Starts(C))
  <2>. HIDE DEF C
  <2>. QED  BY DEF Surjection, Starts
<1>8. IsFiniteSet(Starts(C))
  <2>. HIDE DEF g, C
  <2>. QED  BY <1>6, <1>7, FS_Surjection
<1>9. Starts(C) \subseteq Nat
  BY <1>4 DEF RowType
<1>. QED  BY <1>3, <1>4, <1>6, <1>8, <1>9

LEMMA OldestNewest ==
    ASSUME NEW C, C # {}, Starts(C) \subseteq Nat, IsFiniteSet(Starts(C))
    PROVE  /\ Oldest(C) \in Starts(C) /\ \A m \in Starts(C) : Oldest(C) <= m
           /\ Newest(C) \in Starts(C) /\ \A m \in Starts(C) : m <= Newest(C)
<1>1. Starts(C) # {}
  BY DEF Starts
<1>2. /\ \E m \in Starts(C) : \A n \in Starts(C) : m <= n
      /\ \E m \in Starts(C) : \A n \in Starts(C) : n <= m
  BY <1>1, Extremes
<1>. HIDE DEF Starts
<1>. QED  BY <1>2 DEF Oldest, Newest

\* When a page ends the paging.
Final(C, len) ==
    \/ provider \in Spans /\ page_end >= request.end
    \/ provider \notin Spans /\ (C = {} \/ Short(len))
    \/ provider \in Backward /\ C # {} /\ Oldest(C) <= request.start
    \/ provider \in Forward /\ C # {} /\ Newest(C) + Interval >= request.end

\* When it does not, and where the cursor goes.
Onward(C, len, next) ==
    \/ provider \in Spans /\ next = page_end /\ page_end < request.end
    \/ /\ provider \in Backward /\ C # {} /\ ~ Short(len)
       /\ next = Oldest(C) /\ request.start < next /\ next < cursor
    \/ /\ provider \in Forward /\ C # {} /\ ~ Short(len)
       /\ next = Newest(C) + Interval /\ cursor < next /\ next < request.end

LEMMA Disjoint ==
    ASSUME provider \in Providers
    PROVE  /\ provider \in Backward \/ provider \in Forward \/ provider \in Spans
           /\ provider \in Backward => provider \notin Forward /\ provider \notin Spans
           /\ provider \in Forward => provider \notin Spans
BY HistoryAssumption DEF Backward, Forward, Spans

LEMMA RequestType ==
    ASSUME request \in Requests
    PROVE  request.start \in Nat /\ request.end \in Nat /\ request.limit \in Nat
BY HistoryAssumption

\* The four things that a page can lead to.
LEMMA PageOutcome ==
    ASSUME Typed, NEW page, NEW t, PageArrives(page, t),
           Starts(Parsed(page.rows, t)) \subseteq Nat, IsFiniteSet(Starts(Parsed(page.rows, t)))
    PROVE  LET C == Parsed(page.rows, t)
           IN  \/ (\E m \in Starts(C) : ~ Aligned(m)) /\ EndPaging("failed")
               \/ /\ \A m \in Starts(C) : Aligned(m)
                  /\ \/ C # {} /\ Stalled(C) /\ EndPaging("stalled")
                     \/ Final(C, page.len) /\ finish_result(candles \cup C)
                     \/ \E next : Onward(C, page.len, next) /\ NextPage(candles \cup C, next)
<1>. DEFINE C == Parsed(page.rows, t)
<1>. HIDE DEF C
<1>1. CASE \E m \in Starts(C) : ~ Aligned(m)
  BY <1>1 DEF PageArrives, C
<1>2. CASE \A m \in Starts(C) : Aligned(m)
  <2>1. \/ provider \in Spans /\ SpanPage(C)
        \/ provider \notin Spans /\ C = {} /\ finish_result(candles)
        \/ provider \notin Spans /\ C # {} /\ Stalled(C) /\ EndPaging("stalled")
        \/ provider \in Backward /\ C # {} /\ ~ Stalled(C) /\ BackwardPage(C, page.len)
        \/ provider \in Forward /\ C # {} /\ ~ Stalled(C) /\ ForwardPage(C, page.len)
    BY <1>2 DEF PageArrives, C
  <2>2. cursor \in Nat /\ request.start \in Nat /\ request.end \in Nat /\ Interval \in Nat
    BY RequestType, HistoryAssumption DEF Typed
  <2>3. C # {} => Oldest(C) \in Nat /\ Newest(C) \in Nat
    BY OldestNewest DEF C
  <2>4. ASSUME provider \in Spans, SpanPage(C)
        PROVE  \/ Final(C, page.len) /\ finish_result(candles \cup C)
               \/ \E next : Onward(C, page.len, next) /\ NextPage(candles \cup C, next)
    <3>1. page_end \in Nat
      BY <2>2, HistoryAssumption DEF page_end
    <3>2. CASE page_end >= request.end
      BY <2>4, <3>2 DEF SpanPage, Final
    <3>3. CASE ~ (page_end >= request.end)
      <4>1. page_end < request.end
        BY <2>2, <3>1, <3>3
      <4>2. Onward(C, page.len, page_end) /\ NextPage(candles \cup C, page_end)
        BY <2>4, <3>3, <4>1 DEF SpanPage, Onward
      <4>. QED  BY <4>2
    <3>. QED  BY <3>2, <3>3
  <2>5. ASSUME provider \notin Spans, C = {}, finish_result(candles)
        PROVE  Final(C, page.len) /\ finish_result(candles \cup C)
    <3>1. candles \cup C = candles
      BY <2>5
    <3>. QED  BY <2>5, <3>1 DEF Final
  <2>6. ASSUME provider \in Backward, C # {}, ~ Stalled(C), BackwardPage(C, page.len)
        PROVE  \/ Final(C, page.len) /\ finish_result(candles \cup C)
               \/ \E next : Onward(C, page.len, next) /\ NextPage(candles \cup C, next)
    <3>1. provider \notin Spans /\ provider \notin Forward
      BY <2>6, Disjoint DEF Typed
    <3>2. CASE Oldest(C) <= request.start \/ Short(page.len)
      BY <2>6, <3>1, <3>2 DEF BackwardPage, Final
    <3>3. CASE ~ (Oldest(C) <= request.start) /\ ~ Short(page.len)
      <4>1. request.start < Oldest(C) /\ Oldest(C) < cursor
        BY <2>2, <2>3, <2>6, <3>3 DEF Stalled
      <4>2. Onward(C, page.len, Oldest(C)) /\ NextPage(candles \cup C, Oldest(C))
        BY <2>6, <3>3, <4>1 DEF BackwardPage, Onward
      <4>. QED  BY <4>2
    <3>. QED  BY <3>2, <3>3
  <2>7. ASSUME provider \in Forward, C # {}, ~ Stalled(C), ForwardPage(C, page.len)
        PROVE  \/ Final(C, page.len) /\ finish_result(candles \cup C)
               \/ \E next : Onward(C, page.len, next) /\ NextPage(candles \cup C, next)
    <3>. DEFINE next == Newest(C) + Interval
    <3>1. provider \notin Spans /\ next \in Nat
      BY <2>2, <2>3, <2>7, Disjoint DEF Typed
    <3>2. CASE next >= request.end \/ Short(page.len)
      BY <2>7, <3>1, <3>2 DEF ForwardPage, Final
    <3>3. CASE ~ (next >= request.end) /\ ~ Short(page.len)
      <4>1. cursor < next /\ next < request.end
        BY <2>2, <2>7, <3>1, <3>3 DEF Stalled
      <4>2. Onward(C, page.len, next) /\ NextPage(candles \cup C, next)
        BY <2>7, <3>3, <4>1 DEF ForwardPage, Onward
      <4>. QED  BY <4>2
    <3>. QED  BY <3>2, <3>3
  <2>8. \/ C # {} /\ Stalled(C) /\ EndPaging("stalled")
        \/ Final(C, page.len) /\ finish_result(candles \cup C)
        \/ \E next : Onward(C, page.len, next) /\ NextPage(candles \cup C, next)
    BY <2>1, <2>4, <2>5, <2>6, <2>7
  <2>. QED  BY <1>2, <2>8 DEF C
<1>. QED  BY <1>1, <1>2

LEMMA PageSpan == PageLimit * Interval \in Nat \ {0}
<1>1. PageLimit \in Nat \ {0} /\ Interval \in Nat \ {0}
  BY HistoryAssumption
<1>. QED  BY <1>1

\* A page that is not the last moves the cursor on, inside the range.
LEMMA OnwardInside ==
    ASSUME Typed, Underway, status = "page",
           NEW C, Starts(C) \subseteq Nat, IsFiniteSet(Starts(C)), \A m \in Starts(C) : Aligned(m),
           NEW len, NEW next, Onward(C, len, next)
    PROVE  /\ next \in Nat /\ Aligned(next)
           /\ IF provider \in Backward THEN request.start < next /\ next < cursor
              ELSE cursor < next /\ next < request.end
<1>1. /\ cursor \in Nat /\ request.start \in Nat /\ request.end \in Nat /\ Interval \in Nat
      /\ Aligned(cursor) /\ cursor <= request.end
  BY RequestType, HistoryAssumption DEF Typed, Underway, Paging
<1>2. CASE provider \in Spans
  <2>. DEFINE span == PageLimit * Interval
  <2>1. provider \notin Backward /\ next = page_end /\ page_end < request.end
    BY <1>2, Disjoint DEF Onward, Typed
  <2>2. span \in Nat \ {0} /\ Aligned(cursor + span)
    BY <1>1, AlignedLater, PageSpan, HistoryAssumption
  <2>3. page_end = cursor + span
    BY <2>1, <1>1 DEF page_end
  <2>. HIDE DEF span
  <2>. QED  BY <2>1, <2>2, <2>3, <1>1
<1>3. CASE provider \in Backward
  <2>1. C # {} /\ next = Oldest(C) /\ request.start < next /\ next < cursor
    BY <1>3, Disjoint DEF Onward, Typed
  <2>2. next \in Starts(C)
    BY <2>1, OldestNewest
  <2>. QED  BY <2>1, <2>2, <1>3
<1>4. CASE provider \in Forward
  <2>1. /\ provider \notin Backward
        /\ C # {} /\ next = Newest(C) + Interval /\ cursor < next /\ next < request.end
    BY <1>4, Disjoint DEF Onward, Typed
  <2>2. Newest(C) \in Nat /\ Aligned(Newest(C))
    BY <2>1, OldestNewest
  <2>3. Aligned(Newest(C) + 1 * Interval) /\ 1 * Interval = Interval
    BY <2>2, <1>1, AlignedLater
  <2>. QED  BY <2>1, <2>2, <2>3, <1>1
<1>. QED  BY <1>2, <1>3, <1>4, Disjoint DEF Typed

\* The candles after a page, and what it costs.
LEMMA PageTyped ==
    ASSUME Typed, FetchPage
    PROVE  \E page \in Pages(now') :
             LET C == Parsed(page.rows, now')
             IN  /\ now' \in Nat /\ now <= now'
                 /\ page.rows \subseteq RowType
                 /\ PageArrives(page, now')
                 /\ C \subseteq CandleType /\ IsFiniteSet(C)
                 /\ Starts(C) = {row.start : row \in page.rows}
                 /\ Starts(C) \subseteq Nat /\ IsFiniteSet(Starts(C))
<1>1. now' \in Nat /\ now <= now'
  BY HistoryAssumption DEF Typed, FetchPage, Elapse
<1>2. PICK page \in Pages(now') : PageArrives(page, now')
  BY DEF FetchPage
<1>3. page.rows \subseteq RowType /\ IsFiniteSet(page.rows)
  BY <1>1, PageRows
<1>. DEFINE C == Parsed(page.rows, now')
<1>4. /\ C \subseteq CandleType /\ IsFiniteSet(C)
      /\ Starts(C) = {row.start : row \in page.rows}
      /\ Starts(C) \subseteq Nat /\ IsFiniteSet(Starts(C))
  BY <1>1, <1>3, PageCandles DEF Typed
<1>. QED  BY <1>1, <1>2, <1>3, <1>4

-----------------------------------------------------------------------------
(* Every step preserves the invariant: whatever the venue answers *)

General == Typed /\ Underway /\ Returned

LEMMA FetchGeneral == ASSUME General, FetchPage PROVE General'
<1>1. PICK page \in Pages(now') :
             LET C == Parsed(page.rows, now')
             IN  /\ now' \in Nat /\ now <= now'
                 /\ page.rows \subseteq RowType
                 /\ PageArrives(page, now')
                 /\ C \subseteq CandleType /\ IsFiniteSet(C)
                 /\ Starts(C) = {row.start : row \in page.rows}
                 /\ Starts(C) \subseteq Nat /\ IsFiniteSet(Starts(C))
  BY PageTyped DEF General
<1>. DEFINE C == Parsed(page.rows, now')
<1>2. \/ (\E m \in Starts(C) : ~ Aligned(m)) /\ EndPaging("failed")
      \/ /\ \A m \in Starts(C) : Aligned(m)
         /\ \/ C # {} /\ Stalled(C) /\ EndPaging("stalled")
            \/ Final(C, page.len) /\ finish_result(candles \cup C)
            \/ \E next : Onward(C, page.len, next) /\ NextPage(candles \cup C, next)
  BY <1>1, PageOutcome DEF General
<1>3. C \subseteq CandleType /\ IsFiniteSet(C) /\ Starts(C) \subseteq Nat /\ IsFiniteSet(Starts(C))
  BY <1>1
<1>. HIDE DEF C
<1>4. /\ pages' \in 0 .. MaxPages
      /\ UNCHANGED <<fixed, server_time_ms>>
      /\ now' \in Nat /\ now <= now' /\ status = "page"
  BY <1>1, HistoryAssumption DEF FetchPage, BudgetSpent, General, Typed
<1>5. candles \cup C \subseteq CandleType /\ IsFiniteSet(candles \cup C)
  BY <1>3, FS_Union DEF General, Typed, CandleType
<1>6. ASSUME cursor' \in Nat, candles' \in {candles, candles \cup C} PROVE Typed'
  <2>1. candles' \subseteq CandleType /\ IsFiniteSet(candles')
    BY <1>5, <1>6 DEF General, Typed, CandleType
  <2>2. asked_at <= now' /\ server_time_ms <= now'
    BY <1>4 DEF General, Typed
  <2>. QED  BY <1>4, <1>6, <2>1, <2>2 DEF General, Typed, fixed, CandleType
<1>7. cursor \in Nat
  BY DEF General, Typed
<1>8. ASSUME NEW s \in {"failed", "stalled"}, EndPaging(s) PROVE General'
  <2>1. status' \in {"failed", "stalled"} /\ UNCHANGED <<cursor, candles, result>>
    BY <1>8 DEF EndPaging
  <2>2. Typed'
    BY <2>1, <1>6, <1>7
  <2>. QED  BY <2>1, <2>2 DEF General, Underway, Returned, Paging
<1>9. ASSUME finish_result(candles \cup C) PROVE General'
  <2>1. /\ status' \in {"conflict", "ok"} /\ cursor' = cursor /\ candles' = candles \cup C
        /\ status' = "ok" => /\ ~ Conflicting(Retained(candles'))
                             /\ result' = Truncated(Sorted(Retained(candles')))
    BY <1>9 DEF finish_result
  <2>2. Typed'
    BY <2>1, <1>6, <1>7
  <2>3. request' = request
    BY <1>4 DEF fixed
  <2>4. Returned'
    BY <2>1, <2>3 DEF Returned, Retained, Truncated
  <2>. QED  BY <2>1, <2>2, <2>4 DEF General, Underway, Paging
<1>10. ASSUME NEW next, \A m \in Starts(C) : Aligned(m),
              Onward(C, page.len, next), NextPage(candles \cup C, next)
       PROVE  General'
  <2>1. /\ next \in Nat /\ Aligned(next)
        /\ IF provider \in Backward THEN request.start < next /\ next < cursor
           ELSE cursor < next /\ next < request.end
    BY <1>3, <1>4, <1>10, OnwardInside DEF General
  <2>2. status' = "page" /\ cursor' = next /\ candles' = candles \cup C
    BY <1>4, <1>10 DEF NextPage
  <2>3. Typed'
    BY <2>1, <2>2, <1>6
  <2>4. Underway'
    <3>1. /\ Valid(request)
          /\ IF provider \in Backward THEN request.start < cursor /\ cursor <= request.end
             ELSE request.start <= cursor /\ cursor < request.end
      BY <1>4 DEF General, Underway, Paging
    <3>2. request.start \in Nat /\ request.end \in Nat
      BY RequestType DEF General, Typed
    <3>3. IF provider \in Backward THEN request.start < next /\ next <= request.end
          ELSE request.start <= next /\ next < request.end
      BY <3>1, <3>2, <2>1, <1>7
    <3>4. provider' = provider /\ request' = request
      BY <1>4 DEF fixed
    <3>. QED  BY <3>1, <3>3, <3>4, <2>1, <2>2 DEF Underway, Paging, Valid
  <2>. QED  BY <2>2, <2>3, <2>4 DEF General, Returned
<1>. QED  BY <1>2, <1>8, <1>9, <1>10

-----------------------------------------------------------------------------
(* Every step preserves the invariant: an honest venue *)

LEMMA PageEnd ==
    ASSUME Typed, Underway, status = "page"
    PROVE  /\ page_end \in Nat /\ Aligned(page_end)
           /\ cursor <= page_end /\ page_end - cursor <= PageLimit * Interval
           /\ page_end <= request.end
           /\ page_end < request.end => page_end = cursor + PageLimit * Interval
<1>. DEFINE span == PageLimit * Interval
<1>1. /\ cursor \in Nat /\ request.end \in Nat /\ Aligned(cursor) /\ Aligned(request.end)
      /\ cursor <= request.end
  <2>1. request.start \in Nat /\ request.end \in Nat /\ cursor \in Nat
    BY RequestType DEF Typed
  <2>. QED  BY <2>1 DEF Underway, Paging, Valid
<1>2. span \in Nat \ {0} /\ Aligned(cursor + span)
  BY <1>1, AlignedLater, PageSpan, HistoryAssumption
<1>3. page_end = IF cursor + span < request.end THEN cursor + span ELSE request.end
  BY DEF page_end
<1>. HIDE DEF span
<1>4. CASE cursor + span < request.end
  BY <1>1, <1>2, <1>3, <1>4 DEF span
<1>5. CASE ~ (cursor + span < request.end)
  BY <1>1, <1>2, <1>3, <1>5 DEF span
<1>. QED  BY <1>4, <1>5

\* What the query covers, whichever way the provider is asked for it.
LEMMA WindowCovers ==
    ASSUME Typed, Underway, status = "page", NEW m \in Nat, Aligned(m)
    PROVE  /\ provider \in Backward => (m \in Window <=> request.start <= m /\ m < cursor)
           /\ provider \in Forward => (m \in Window <=> cursor <= m /\ m < request.end)
           /\ provider \in Spans => (m \in Window <=> cursor <= m /\ m < page_end)
<1>1. /\ cursor \in Nat /\ request.start \in Nat \ {0} /\ request.end \in Nat \ {0}
      /\ Interval \in Nat \ {0} /\ cursor # 0
  <2>1. request.start \in Nat /\ request.end \in Nat /\ cursor \in Nat /\ Interval \in Nat \ {0}
    BY RequestType, HistoryAssumption DEF Typed
  <2>. QED  BY <2>1 DEF Underway, Paging, Valid
<1>2. page_end \in Nat /\ Aligned(page_end) /\ cursor <= page_end
  BY PageEnd
<1>4. CASE provider = "bybit"
  <2>1. Window = request.start .. cursor - 1
    BY <1>4 DEF Window, exclusive_query_end
  <2>. QED  BY <2>1, <1>1, <1>4 DEF Backward, Forward, Spans
<1>5. CASE provider = "okx"
  <2>1. Window = {u \in 0 .. cursor : u < cursor /\ u > request.start - 1}
    BY <1>5 DEF Window
  <2>. QED  BY <2>1, <1>1, <1>5 DEF Backward, Forward, Spans
<1>6. CASE provider = "binance"
  <2>1. Window = cursor .. request.end - 1
    BY <1>6 DEF Window, exclusive_query_end
  <2>. QED  BY <2>1, <1>1, <1>6 DEF Backward, Forward, Spans
<1>7. CASE provider \in {"kucoin", "bingx"}
  <2>1. Window = cursor .. page_end - 1
    BY <1>7 DEF Window, exclusive_query_end
  <2>. QED  BY <2>1, <1>1, <1>2, <1>7 DEF Backward, Forward, Spans
<1>8. CASE provider = "mexc"
  <2>1. m < page_end => m + Interval <= page_end
    BY <1>2, AlignedApart
  <2>2. Window = cursor .. page_end - Interval
    BY <1>8 DEF Window
  <2>3. m <= page_end - Interval <=> m < page_end
    BY <2>1, <1>1, <1>2
  <2>4. m \in Window <=> cursor <= m /\ m <= page_end - Interval
    BY <2>2, <1>1, <1>2
  <2>. QED  BY <2>3, <2>4, <1>8 DEF Backward, Forward, Spans
<1>. QED  BY <1>4, <1>5, <1>6, <1>7, <1>8, HistoryAssumption DEF Typed

\* Nothing between the cursor and what an honest page shows is left out, and a
\* page shows all there is unless it is full.
LEMMA ShownWell ==
    ASSUME Typed, Underway, status = "page", NEW t \in Nat
    PROVE  LET A == Available(t) \cap Window
               H == Shown(t)
           IN  /\ H \subseteq A /\ IsFiniteSet(H)
               /\ H = {} \/ Cardinality(H) < PageLimit \/ provider \in Spans => H = A
               /\ provider \in Backward => \A m \in H, k \in A : k > m => k \in H
               /\ provider \in Forward => \A m \in H, k \in A : k < m => k \in H
<1>. DEFINE A == Available(t) \cap Window
            H == Shown(t)
<1>1. A \in SUBSET Nat /\ IsFiniteSet(A) /\ \A m \in A : Aligned(m)
  BY AvailableFinite, FS_Subset
<1>2. CASE provider \in Backward
  <2>1. H = Last(A) /\ Leads(Last(A), A, Down(A))
    BY <1>1, <1>2, LastLeads DEF Shown
  <2>2. provider \notin Spans /\ provider \notin Forward
    BY <1>2, Disjoint DEF Typed
  <2>3. \A k \in A : k \in Nat /\ Down(A)[k] = 0 - k
    BY <1>1 DEF Down
  <2>. HIDE DEF A, H
  <2>4. H \subseteq A /\ (H = {} \/ Cardinality(H) < PageLimit => H = A)
    BY <2>1 DEF Leads
  <2>5. \A m \in H, k \in A : k > m => k \in H
    <3>. SUFFICES ASSUME NEW m \in H, NEW k \in A, k > m PROVE k \in H
      OBVIOUS
    <3>1. Down(A)[k] < Down(A)[m]
      BY <2>3, <2>4
    <3>. QED  BY <3>1, <2>1 DEF Leads
  <2>6. IsFiniteSet(H)
    BY <1>1, <2>4, FS_Subset
  <2>. QED  BY <2>2, <2>4, <2>5, <2>6 DEF A, H
<1>3. CASE provider \notin Backward
  <2>1. H = First(A) /\ Leads(First(A), A, Up(A))
    BY <1>1, <1>3, FirstLeads DEF Shown
  <2>2. \A k \in A : k \in Nat /\ Up(A)[k] = k
    BY <1>1 DEF Up
  <2>3. ASSUME provider \in Spans PROVE H = A
    <3>1. cursor \in Nat /\ Aligned(cursor)
      BY DEF Typed, Underway, Paging
    <3>2. /\ page_end \in Nat /\ Aligned(page_end) /\ cursor <= page_end
          /\ page_end - cursor <= PageLimit * Interval
      BY PageEnd
    <3>3. \A m \in A : m \in Nat /\ Aligned(m) /\ m \in Window
      BY <1>1
    <3>4. \A m \in A : Aligned(m) /\ cursor <= m /\ m < page_end
      BY <3>3, <2>3, WindowCovers, Disjoint DEF Typed
    <3>. HIDE DEF A, H
    <3>5. Cardinality(A) \in Nat /\ Cardinality(A) * Interval <= page_end - cursor
      BY <3>1, <3>2, <3>4, <1>1, AlignedCount, FS_CardinalityType
    <3>6. Cardinality(A) * Interval \in Int /\ PageLimit * Interval \in Int
      BY <3>5, HistoryAssumption
    <3>7. Cardinality(A) * Interval <= PageLimit * Interval
      BY <3>2, <3>5, <3>6, <3>1
    <3>8. Cardinality(A) <= PageLimit
      BY <3>5, <3>7, ProductMonotone, HistoryAssumption
    <3>9. \A m \in A : Cardinality({n \in A : n < m}) < PageLimit
      <4>. SUFFICES ASSUME NEW m \in A PROVE Cardinality({n \in A : n < m}) < PageLimit
        OBVIOUS
      <4>1. Cardinality(Below(A, Up(A), m)) \in 0 .. Cardinality(A) - 1
        BY <1>1, UpKey, BelowFinite
      <4>2. Cardinality({n \in A : n < m}) \in 0 .. Cardinality(A) - 1
        BY <1>1, <4>1, BelowUp
      <4>. QED  BY <4>2, <3>5, <3>8, HistoryAssumption
    <3>. QED  BY <3>9, <2>1 DEF First
  <2>. HIDE DEF A, H
  <2>4. H \subseteq A /\ (H = {} \/ Cardinality(H) < PageLimit => H = A)
    BY <2>1 DEF Leads
  <2>5. \A m \in H, k \in A : k < m => k \in H
    BY <2>1, <2>2, <2>4 DEF Leads
  <2>6. IsFiniteSet(H)
    BY <1>1, <2>4, FS_Subset
  <2>. QED  BY <1>3, <2>3, <2>4, <2>5, <2>6 DEF A, H
<1>. QED  BY <1>2, <1>3

\* The candles of an honest page: one for each start time shown, and final if
\* they say so.
LEMMA HonestCandles ==
    ASSUME Typed, honest, NEW t \in Nat, now <= t, NEW page \in Pages(t)
    PROVE  LET C == Parsed(page.rows, t)
           IN  /\ Starts(C) = Shown(t) /\ (C = {} <=> Shown(t) = {})
               /\ page.len = Cardinality(Shown(t))
               /\ ~ Conflicting(C)
               /\ \A c \in C : /\ c.start \in Available(t)
                               /\ c.finality = "Closed" => c.value = Interval
<1>. DEFINE C == Parsed(page.rows, t)
            H == Shown(t)
            candle(m) == Candle(Row(m, t), t)
<1>1. /\ H \subseteq Available(t) /\ HonestRows(t) = {Row(m, t) : m \in H}
      /\ HonestRows(t) \subseteq RowType /\ IsFiniteSet(HonestRows(t))
      /\ Cardinality(HonestRows(t)) = Cardinality(H)
  BY HonestRowsOf
<1>2. page.rows = HonestRows(t) /\ page.len = Cardinality(HonestRows(t))
  BY DEF Pages
<1>3. \A m \in H : m \in Nat /\ m <= t
  BY <1>1, AvailableFinite
<1>. HIDE DEF H
<1>4. C = {candle(m) : m \in H}
  BY <1>1, <1>2 DEF Parsed
<1>5. \A m \in H : /\ candle(m).start = m
                   /\ candle(m).finality = "Closed" => candle(m).value = Interval
  <2>. SUFFICES ASSUME NEW m \in H
                PROVE  /\ candle(m).start = m
                       /\ candle(m).finality = "Closed" => candle(m).value = Interval
    OBVIOUS
  <2>1. Row(m, t) \in RowType /\ Row(m, t).start = m
    BY <1>1 DEF Row
  <2>2. candle(m).start = m
    BY <2>1, CandleOfRow DEF Typed
  <2>3. server_time_ms \in Nat /\ server_time_ms <= t
    BY DEF Typed
  <2>. QED  BY <2>2, <2>3, <1>3, ClosedCandle DEF Typed
<1>. HIDE DEF C, candle
<1>6. Starts(C) = H /\ (C = {} <=> H = {})
  BY <1>4, <1>5 DEF Starts
<1>7. ~ Conflicting(C)
  BY <1>4, <1>5 DEF Conflicting
<1>8. \A c \in C : c.start \in Available(t) /\ (c.finality = "Closed" => c.value = Interval)
  BY <1>1, <1>4, <1>5
<1>. QED  BY <1>1, <1>2, <1>6, <1>7, <1>8 DEF C, H

\* What the page adds was not passed before.
LEMMA ShownAhead ==
    ASSUME Typed, Underway, status = "page", NEW t \in Nat, NEW m \in Shown(t)
    PROVE  m \in Nat /\ Aligned(m) /\ ~ Passed(m)
<1>1. m \in Nat /\ Aligned(m) /\ m \in Window
  BY HonestRowsOf, AvailableFinite
<1>2. cursor \in Nat /\ request.start \in Nat
  BY RequestType DEF Typed
<1>3. CASE provider \in Backward
  <2>1. m < cursor
    BY <1>1, <1>3, WindowCovers
  <2>. QED  BY <2>1, <1>1, <1>2, <1>3 DEF Passed
<1>4. CASE provider \notin Backward
  <2>1. cursor <= m
    BY <1>1, <1>4, WindowCovers, Disjoint DEF Typed
  <2>. QED  BY <2>1, <1>1, <1>2, <1>4 DEF Passed
<1>. QED  BY <1>3, <1>4

\* Candles of the request that the page does not show are left for another page,
\* and there is one.
LEMMA MissingLater ==
    ASSUME Typed, Underway, status = "page", NEW t \in Nat, now <= t,
           NEW C, Starts(C) = Shown(t), C = {} <=> Shown(t) = {},
           NEW m \in Known, ~ Passed(m), m \notin Shown(t)
    PROVE  /\ ~ Final(C, Cardinality(Shown(t)))
           /\ \A next : Onward(C, Cardinality(Shown(t)), next) =>
                 IF provider \in Backward THEN m < next ELSE next <= m
<1>. DEFINE A == Available(t) \cap Window
            H == Shown(t)
<1>0. /\ m \in Available(asked_at) /\ asked_at \in Nat /\ now \in Nat /\ asked_at <= now
      /\ m >= request.start /\ m + Interval <= request.end
  BY DEF Typed, Known
<1>1. /\ m \in Nat /\ m \in Available(t) /\ Aligned(m)
      /\ m >= request.start /\ m + Interval <= request.end
  <2>1. 0 .. asked_at \subseteq 0 .. t /\ 0 .. t \subseteq Nat
    BY <1>0
  <2>. QED  BY <1>0, <2>1 DEF Available
<1>2. /\ cursor \in Nat /\ request.start \in Nat /\ request.end \in Nat /\ Interval \in Nat \ {0}
      /\ page_end \in Nat
  BY RequestType, PageEnd, HistoryAssumption DEF Typed
<1>3. /\ H \subseteq A /\ IsFiniteSet(H)
      /\ H = {} \/ Cardinality(H) < PageLimit \/ provider \in Spans => H = A
      /\ provider \in Backward => \A h \in H, k \in A : k > h => k \in H
      /\ provider \in Forward => \A h \in H, k \in A : k < h => k \in H
  BY ShownWell
<1>4. H \subseteq Nat /\ \A h \in H : Aligned(h)
  BY <1>3, AvailableFinite
<1>. HIDE DEF H
<1>5. C # {} => Oldest(C) \in H /\ Newest(C) \in H
  BY <1>3, <1>4, OldestNewest DEF H
<1>6. CASE provider \in Spans
  <2>1. provider \notin Backward /\ provider \notin Forward
    BY <1>6, Disjoint DEF Typed
  <2>2. m \notin Window
    BY <1>1, <1>3, <1>6 DEF H
  <2>3. page_end <= m
    BY <2>2, <2>1, <1>1, <1>2, <1>6, WindowCovers DEF Passed
  <2>4. page_end < request.end
    BY <2>3, <1>1, <1>2
  <2>5. ~ (page_end >= request.end)
    BY <2>4, <1>2
  <2>. QED  BY <2>1, <2>3, <2>5, <1>6 DEF Final, Onward
<1>7. CASE provider \in Backward
  <2>1. provider \notin Spans /\ provider \notin Forward
    BY <1>7, Disjoint DEF Typed
  <2>2. m \in A
    BY <1>1, <1>2, <1>7, WindowCovers DEF Passed
  <2>3. C # {} /\ ~ (Cardinality(H) < PageLimit)
    BY <2>2, <1>3 DEF H
  <2>4. Oldest(C) \in H /\ Oldest(C) \in Nat
    BY <2>3, <1>4, <1>5
  <2>5. ~ (m > Oldest(C)) /\ m # Oldest(C)
    BY <2>2, <2>4, <1>3, <1>7 DEF H
  <2>6. m < Oldest(C)
    BY <2>4, <2>5, <1>1
  <2>7. ~ (Oldest(C) <= request.start)
    BY <2>4, <2>6, <1>1, <1>2
  <2>. QED  BY <2>1, <2>3, <2>6, <2>7, <1>7 DEF Final, Onward, Short, H
<1>8. CASE provider \in Forward
  <2>1. provider \notin Spans /\ provider \notin Backward
    BY <1>8, Disjoint DEF Typed
  <2>2. m < request.end
    BY <1>1, <1>2
  <2>3. m \in A
    BY <2>1, <2>2, <1>1, <1>2, <1>8, WindowCovers DEF Passed
  <2>4. C # {} /\ ~ (Cardinality(H) < PageLimit)
    BY <2>3, <1>3 DEF H
  <2>5. Newest(C) \in H /\ Newest(C) \in Nat /\ Aligned(Newest(C))
    BY <2>4, <1>4, <1>5
  <2>6. ~ (m < Newest(C)) /\ m # Newest(C)
    BY <2>3, <2>5, <1>3, <1>8 DEF H
  <2>7. Newest(C) < m
    BY <2>5, <2>6, <1>1
  <2>8. Newest(C) + Interval <= m
    BY <2>5, <2>7, <1>1, AlignedApart
  <2>9. ~ (Newest(C) + Interval >= request.end)
    BY <2>2, <2>5, <2>8, <1>1, <1>2
  <2>. QED  BY <2>1, <2>4, <2>8, <2>9, <1>8 DEF Final, Onward, Short, H
<1>. QED  BY <1>6, <1>7, <1>8, Disjoint DEF Typed

\* A page of an honest venue that is not the last moves the cursor by as many
\* candles as a page holds, past all that it shows.
LEMMA OnwardPasses ==
    ASSUME Typed, Underway, status = "page", NEW t \in Nat,
           NEW C, Starts(C) = Shown(t), C = {} <=> Shown(t) = {},
           NEW next \in Nat, Aligned(next), Onward(C, Cardinality(Shown(t)), next)
    PROVE  /\ \A m \in Shown(t) : IF provider \in Backward THEN m >= next ELSE m < next
           /\ PageLimit * Interval
                 <= IF provider \in Backward THEN cursor - next ELSE next - cursor
<1>. DEFINE H == Shown(t)
            n == Cardinality(Shown(t))
<1>1. H \subseteq Nat /\ IsFiniteSet(H) /\ \A m \in H : Aligned(m) /\ m \in Window
  BY HonestRowsOf, ShownWell, AvailableFinite
<1>2. /\ cursor \in Nat /\ Aligned(cursor) /\ Interval \in Nat \ {0} /\ PageLimit \in Nat \ {0}
      /\ n \in Nat
  BY <1>1, HistoryAssumption, FS_CardinalityType DEF Typed, Underway, Paging
<1>. HIDE DEF H, n
<1>3. ASSUME ~ Short(n), NEW a \in Nat, NEW b \in Nat, Aligned(a), Aligned(b), a <= b,
             \A m \in H : a <= m /\ m < b
      PROVE  PageLimit * Interval <= b - a
  <2>1. PageLimit <= n
    BY <1>2, <1>3 DEF Short
  <2>2. PageLimit * Interval <= n * Interval
    BY <2>1, <1>2, ProductMonotone
  <2>3. n * Interval <= b - a
    BY <1>1, <1>3, AlignedCount DEF H, n
  <2>4. PageLimit * Interval \in Int /\ n * Interval \in Int
    BY <1>2, Product
  <2>. QED  BY <2>2, <2>3, <2>4
<1>4. CASE provider \in Spans
  <2>1. provider \notin Backward /\ provider \notin Forward /\ next = page_end /\ page_end < request.end
    BY <1>4, Disjoint DEF Typed, Onward
  <2>2. \A m \in H : m < page_end
    BY <1>1, <1>4, WindowCovers
  <2>3. page_end = cursor + PageLimit * Interval
    BY <2>1, PageEnd
  <2>4. PageLimit * Interval \in Int
    BY <1>2, Product
  <2>5. next - cursor = PageLimit * Interval
    BY <2>1, <2>3, <2>4, <1>2
  <2>. QED  BY <2>1, <2>2, <2>4, <2>5 DEF H
<1>5. CASE provider \in Backward
  <2>1. C # {} /\ ~ Short(n) /\ next = Oldest(C) /\ next < cursor
    BY <1>5, Disjoint DEF Typed, Onward, n
  <2>2. \A m \in H : next <= m
    BY <2>1, <1>1, OldestNewest DEF H
  <2>3. \A m \in H : m < cursor
    BY <1>1, <1>5, WindowCovers
  <2>4. PageLimit * Interval <= cursor - next
    BY <2>1, <2>2, <2>3, <1>2, <1>3
  <2>5. \A m \in H : m >= next
    BY <2>2, <1>1
  <2>. QED  BY <2>4, <2>5, <1>5 DEF H
<1>6. CASE provider \in Forward
  <2>1. /\ provider \notin Backward
        /\ C # {} /\ ~ Short(n) /\ next = Newest(C) + Interval /\ cursor < next
    BY <1>6, Disjoint DEF Typed, Onward, n
  <2>2. Newest(C) \in Nat /\ \A m \in H : m <= Newest(C)
    BY <2>1, <1>1, OldestNewest DEF H
  <2>3. \A m \in H : m < next
    BY <2>1, <2>2, <1>1, <1>2
  <2>4. \A m \in H : cursor <= m
    BY <1>1, <1>6, WindowCovers
  <2>5. PageLimit * Interval <= next - cursor
    BY <2>1, <2>3, <2>4, <1>2, <1>3
  <2>. QED  BY <2>1, <2>3, <2>5 DEF H
<1>. QED  BY <1>4, <1>5, <1>6, Disjoint DEF Typed

LEMMA FetchCollected ==
    ASSUME General, honest, Collected, FetchPage
    PROVE  Collected'
<1>1. PICK page \in Pages(now') :
             LET C == Parsed(page.rows, now')
             IN  /\ now' \in Nat /\ now <= now'
                 /\ page.rows \subseteq RowType
                 /\ PageArrives(page, now')
                 /\ C \subseteq CandleType /\ IsFiniteSet(C)
                 /\ Starts(C) = {row.start : row \in page.rows}
                 /\ Starts(C) \subseteq Nat /\ IsFiniteSet(Starts(C))
  BY PageTyped DEF General
<1>. DEFINE C == Parsed(page.rows, now')
            H == Shown(now')
            X == candles \cup C
<1>2. \/ (\E m \in Starts(C) : ~ Aligned(m)) /\ EndPaging("failed")
      \/ /\ \A m \in Starts(C) : Aligned(m)
         /\ \/ C # {} /\ Stalled(C) /\ EndPaging("stalled")
            \/ Final(C, page.len) /\ finish_result(candles \cup C)
            \/ \E next : Onward(C, page.len, next) /\ NextPage(candles \cup C, next)
  BY <1>1, PageOutcome DEF General
<1>3. /\ Typed /\ Underway /\ status = "page" /\ pages' = pages + 1
      /\ UNCHANGED <<fixed, server_time_ms>>
      /\ now' \in Nat /\ now \in Nat /\ now <= now' /\ cursor \in Nat
      /\ Starts(C) \subseteq Nat /\ IsFiniteSet(Starts(C))
  BY <1>1 DEF General, FetchPage, Typed
<1>4. /\ Starts(C) = H /\ (C = {} <=> H = {})
      /\ page.len = Cardinality(H)
      /\ ~ Conflicting(C)
      /\ \A c \in C : /\ c.start \in Available(now')
                      /\ c.finality = "Closed" => c.value = Interval
  BY <1>1, HonestCandles DEF General
<1>5. \A m \in H : m \in Nat /\ Aligned(m) /\ ~ Passed(m)
  BY <1>3, ShownAhead
<1>6. /\ gaps' = gaps /\ request' = request /\ asked_at' = asked_at /\ provider' = provider
      /\ honest' = honest
  BY <1>3 DEF fixed
<1>7. Available(now)' = Available(now') /\ Known' = Known
  BY <1>6 DEF Available, Known
<1>8. Available(now) \subseteq Available(now')
  BY <1>3 DEF Available
<1>. HIDE DEF C, H
<1>9. \A c \in candles : Passed(c.start)
  BY <1>3 DEF Collected, Paging
<1>10. ~ Conflicting(X)
  <2>. SUFFICES ASSUME NEW c \in X, NEW d \in X, c.start = d.start PROVE c = d
    BY DEF Conflicting
  <2>1. \A e \in C : ~ Passed(e.start)
    BY <1>4, <1>5 DEF Starts
  <2>2. \/ c \in candles /\ d \in candles
        \/ c \in C /\ d \in C
    BY <2>1, <1>9
  <2>. QED  BY <2>2, <1>4 DEF Collected, Conflicting
<1>11. \A c \in X : c.start \in Available(now') /\ (c.finality = "Closed" => c.value = Interval)
  BY <1>4, <1>8 DEF Collected
<1>12. Starts(X) = Starts(candles) \cup H
  BY <1>4 DEF Starts
<1>13. \A m \in Known : Passed(m) => m \in Starts(X)
  BY <1>3, <1>12 DEF Collected, Paging
<1>14. ASSUME NEW m \in Known, m \notin Starts(X)
       PROVE  /\ ~ Final(C, page.len)
              /\ \A next : Onward(C, page.len, next) =>
                    IF provider \in Backward THEN m < next ELSE next <= m
  <2>1. ~ Passed(m) /\ m \notin H
    BY <1>12, <1>13, <1>14
  <2>. QED  BY <2>1, <1>3, <1>4, MissingLater DEF H
<1>. HIDE DEF X
<1>15. CASE (\E m \in Starts(C) : ~ Aligned(m)) /\ EndPaging("failed")
  BY <1>4, <1>5, <1>15
<1>16. CASE C # {} /\ Stalled(C) /\ EndPaging("stalled")
  <2>1. Oldest(C) \in H /\ Newest(C) \in H
    BY <1>3, <1>4, <1>16, OldestNewest
  <2>2. Oldest(C) \in Nat /\ ~ Passed(Oldest(C)) /\ Newest(C) \in Nat /\ ~ Passed(Newest(C))
    BY <2>1, <1>5
  <2>3. CASE provider \in Backward
    <3>1. ~ (Oldest(C) >= cursor)
      BY <2>2, <2>3 DEF Passed
    <3>. QED  BY <3>1, <2>3, <1>3, <1>16, Disjoint DEF Stalled, Typed
  <2>4. CASE provider \in Forward
    <3>1. provider \notin Backward /\ ~ (Newest(C) < cursor)
      BY <2>2, <2>4, <1>3, Disjoint DEF Passed, Typed
    <3>2. ~ (Newest(C) + Interval <= cursor)
      BY <3>1, <2>2, <1>3, HistoryAssumption
    <3>. QED  BY <3>1, <3>2, <1>16 DEF Stalled
  <2>. QED  BY <2>3, <2>4, <1>16 DEF Stalled
<1>17. CASE Final(C, page.len) /\ finish_result(candles \cup C)
  <2>1. finish_result(X)
    BY <1>17 DEF X
  <2>2. ~ Conflicting(Retained(X))
    BY <1>10 DEF Conflicting, Retained
  <2>3. candles' = X /\ status' = "ok"
    BY <2>1, <2>2 DEF finish_result
  <2>4. Known \subseteq Starts(X)
    BY <1>14, <1>17
  <2>. QED  BY <2>3, <2>4, <1>7, <1>10, <1>11 DEF Collected, Paging, Conflicting, Starts
<1>18. ASSUME NEW next, \A m \in Starts(C) : Aligned(m),
              Onward(C, page.len, next), NextPage(candles \cup C, next)
       PROVE  Collected'
  <2>1. candles' = X /\ cursor' = next /\ status' = "page"
    BY <1>3, <1>18 DEF NextPage, X
  <2>2. /\ next \in Nat /\ Aligned(next)
        /\ IF provider \in Backward THEN request.start < next /\ next < cursor
           ELSE cursor < next /\ next < request.end
    BY <1>3, <1>18, OnwardInside
  <2>3. /\ \A m \in H : IF provider \in Backward THEN m >= next ELSE m < next
        /\ PageLimit * Interval
              <= IF provider \in Backward THEN cursor - next ELSE next - cursor
    BY <2>2, <1>3, <1>4, <1>18, OnwardPasses DEF H
  <2>4. \A m : Passed(m)' <=> IF provider \in Backward THEN m >= next ELSE m < next
    BY <2>1, <1>6 DEF Passed
  <2>5. \A c \in X : Passed(c.start)'
    <3>. SUFFICES ASSUME NEW c \in X PROVE Passed(c.start)'
      OBVIOUS
    <3>1. CASE c \in C
      BY <3>1, <2>3, <2>4, <1>4 DEF Starts
    <3>2. CASE c \in candles
      <4>1. Passed(c.start) /\ c.start \in Nat
        BY <3>2, <1>3, <1>9 DEF Typed
      <4>. QED  BY <4>1, <2>2, <2>4, <1>3 DEF Passed
    <3>. QED  BY <3>1, <3>2 DEF X
  <2>6. \A m \in Known : Passed(m)' => m \in Starts(X)
    <3>. SUFFICES ASSUME NEW m \in Known, m \notin Starts(X) PROVE ~ Passed(m)'
      OBVIOUS
    <3>1. IF provider \in Backward THEN m < next ELSE next <= m
      BY <1>14, <1>18
    <3>2. m \in Nat
      BY <1>3, AvailableFinite DEF Known, Typed
    <3>3. ~ (IF provider \in Backward THEN m >= next ELSE m < next)
      BY <3>1, <3>2, <2>2
    <3>. QED  BY <3>3, <2>4
  <2>7. pages' * (PageLimit * Interval) <= Distance'
    <3>. DEFINE S == PageLimit * Interval
    <3>1. S \in Nat \ {0} /\ pages \in Nat
      BY <1>3, PageSpan, HistoryAssumption DEF Typed
    <3>2. pages * S <= Distance
      BY <1>3 DEF Collected, Paging
    <3>3. request.start \in Nat /\ request.end \in Nat
      BY <1>3, RequestType DEF Typed
    <3>4. S <= IF provider \in Backward THEN cursor - next ELSE next - cursor
      BY <2>3
    <3>5. Distance' = IF provider \in Backward THEN request.end - next ELSE next - request.start
      BY <2>1, <1>6 DEF Distance
    <3>. HIDE DEF S
    <3>6. (pages + 1) * S = pages * S + S /\ pages * S \in Int
      BY <3>1
    <3>7. pages * S + S <= Distance'
      BY <3>1, <3>2, <3>3, <3>4, <3>5, <3>6, <2>2, <1>3 DEF Distance
    <3>. QED  BY <3>6, <3>7, <1>3 DEF S
  <2>8. Starts(candles)' = Starts(X) /\ Conflicting(candles)' = Conflicting(X)
    BY <2>1 DEF Starts, Conflicting
  <2>. QED  BY <2>1, <2>5, <2>6, <2>7, <2>8, <1>7, <1>10, <1>11 DEF Collected, Paging
<1>. QED  BY <1>2, <1>15, <1>16, <1>17, <1>18

-----------------------------------------------------------------------------
(* The other steps *)

LEMMA InitIInv == ASSUME Init PROVE IInv
<1>1. now \in Nat
  <2>1. CASE honest
    BY <2>1, HistoryAssumption DEF Init
  <2>2. CASE ~ honest
    BY <2>2 DEF Init
  <2>. QED  BY <2>1, <2>2
<1>2. Typed
  BY <1>1, FS_EmptySet, HistoryAssumption DEF Init, Typed
<1>3. Underway /\ Returned
  BY DEF Init, Underway, Returned, Paging
<1>4. Collected
  BY DEF Init, Collected, Paging, Conflicting
<1>. QED  BY <1>2, <1>3, <1>4 DEF IInv

LEMMA NewRequestPreserves == ASSUME IInv, NewRequest PROVE IInv'
<1>1. /\ status = "new" /\ status' \in {"rejected", "time", "page"}
      /\ status' # "rejected" => Valid(request)
      /\ cursor' = IF provider \in Backward THEN request.end ELSE request.start
      /\ UNCHANGED <<fixed, now, server_time_ms, pages, candles, result>>
  BY DEF NewRequest
<1>2. request.start \in Nat /\ request.end \in Nat
  BY RequestType DEF IInv, Typed
<1>3. Typed'
  BY <1>1, <1>2 DEF IInv, Typed, fixed
<1>4. candles = {} /\ pages = 0
  BY <1>1 DEF IInv, Underway
<1>5. Underway'
  <2>1. Valid(request) => /\ Aligned(request.start) /\ Aligned(request.end)
                          /\ request.start < request.end
    BY <1>2 DEF Valid
  <2>. QED  BY <1>1, <1>2, <1>4, <2>1 DEF Underway, Paging, Valid, fixed
<1>6. Collected'
  <2>1. \A m \in Known : ~ Passed(m)'
    <3>. SUFFICES ASSUME NEW m \in Known PROVE ~ Passed(m)'
      OBVIOUS
    <3>1. m \in Nat /\ m >= request.start /\ m + Interval <= request.end /\ Interval \in Nat \ {0}
      BY AvailableFinite, HistoryAssumption DEF Known, IInv, Typed
    <3>2. provider' = provider
      BY <1>1 DEF fixed
    <3>3. CASE provider \in Backward
      <4>1. cursor' = request.end /\ ~ (m >= request.end)
        BY <3>1, <3>3, <1>1, <1>2
      <4>. QED  BY <4>1, <3>2, <3>3 DEF Passed
    <3>4. CASE provider \notin Backward
      <4>1. cursor' = request.start /\ ~ (m < request.start)
        BY <3>1, <3>4, <1>1, <1>2
      <4>. QED  BY <4>1, <3>2, <3>4 DEF Passed
    <3>. QED  BY <3>3, <3>4
  <2>2. Known' = Known
    BY <1>1 DEF Known, Available, fixed
  <2>3. pages' * (PageLimit * Interval) <= Distance'
    <3>1. Distance' = 0
      BY <1>1, <1>2 DEF Distance, fixed
    <3>2. pages' * (PageLimit * Interval) = 0
      BY <1>1, <1>4, PageSpan
    <3>. QED  BY <3>1, <3>2
  <2>. QED  BY <1>1, <1>4, <2>1, <2>2, <2>3 DEF Collected, Paging, Conflicting
<1>7. Returned'
  BY <1>1 DEF Returned
<1>. QED  BY <1>3, <1>5, <1>6, <1>7 DEF IInv

LEMMA ServerTimePreserves == ASSUME IInv, ServerTime PROVE IInv'
<1>1. /\ status = "time" /\ status' = "page" /\ server_time_ms' = now'
      /\ now' \in Nat /\ now <= now'
      /\ UNCHANGED <<fixed, cursor, pages, candles, result>>
  BY HistoryAssumption DEF ServerTime, Elapse, IInv, Typed
<1>2. Typed'
  <2>1. asked_at <= now'
    BY <1>1 DEF IInv, Typed
  <2>. QED  BY <1>1, <2>1 DEF IInv, Typed, fixed
<1>3. Underway' /\ Returned'
  BY <1>1 DEF IInv, Underway, Paging, Valid, Returned, fixed
<1>4. ASSUME honest PROVE Collected'
  <2>1. Collected /\ candles = {} /\ Paging /\ Paging'
    BY <1>1, <1>4 DEF IInv, Underway, Paging
  <2>2. Known' = Known /\ Starts(candles)' = Starts(candles) /\ Distance' = Distance
    BY <1>1 DEF Known, Available, Starts, Distance, fixed
  <2>3. \A m : Passed(m)' <=> Passed(m)
    BY <1>1 DEF Passed, fixed
  <2>. QED  BY <1>1, <2>1, <2>2, <2>3 DEF Collected, Conflicting
<1>5. honest' = honest
  BY <1>1 DEF fixed
<1>. QED  BY <1>2, <1>3, <1>4, <1>5 DEF IInv

LEMMA FetchPreserves == ASSUME IInv, FetchPage PROVE IInv'
<1>1. General'
  BY FetchGeneral DEF IInv, General
<1>2. honest' = honest
  BY DEF FetchPage, fixed
<1>3. honest => Collected'
  BY FetchCollected DEF IInv, General
<1>. QED  BY <1>1, <1>2, <1>3 DEF IInv, General

\* The page budget is enough for an honest venue: pages of PageLimit candles
\* cover the longest range there may be.
LEMMA BudgetSuffices ==
    ASSUME Typed, Underway, Collected, status = "page"
    PROVE  ~ BudgetSpent
<1>. DEFINE S == PageLimit * Interval
<1>1. S \in Nat \ {0} /\ pages \in Nat /\ MaxPages \in Nat /\ MaxRange \in Nat
  BY PageSpan, HistoryAssumption DEF Typed
<1>2. pages * S <= Distance
  BY DEF Collected, Paging
<1>3. request.start \in Nat /\ request.end \in Nat /\ cursor \in Nat
  BY RequestType DEF Typed
<1>4. Distance < request.end - request.start /\ Distance \in Int
  BY <1>3 DEF Underway, Paging, Distance
<1>5. request.end - request.start <= MaxRange
  BY DEF Underway, Paging, Valid
<1>6. MaxRange <= MaxPages * S
  BY HistoryAssumption
<1>. HIDE DEF S
<1>7. pages * S \in Int /\ MaxPages * S \in Int
  BY <1>1
<1>8. pages * S < MaxPages * S
  BY <1>1, <1>2, <1>3, <1>4, <1>5, <1>6, <1>7
<1>9. pages < MaxPages
  BY <1>1, <1>8, ProductMonotone
<1>. QED  BY <1>1, <1>9 DEF BudgetSpent

LEMMA FailurePreserves == ASSUME IInv, OutOfPages \/ RequestFails PROVE IInv'
<1>1. ~ honest
  BY BudgetSuffices DEF OutOfPages, RequestFails, IInv
<1>2. /\ status' \in {"stalled", "failed"} /\ pages' \in 0 .. MaxPages
      /\ UNCHANGED <<fixed, now, server_time_ms, cursor, candles, result>>
  BY HistoryAssumption DEF OutOfPages, RequestFails, EndPaging, BudgetSpent, IInv, Typed
<1>. QED  BY <1>1, <1>2 DEF IInv, Typed, Underway, Returned, Paging, fixed

LEMMA NextPreserves == ASSUME IInv, [Next]_vars PROVE IInv'
<1>1. CASE UNCHANGED vars \/ Terminated
  <2>1. UNCHANGED vars
    BY <1>1 DEF Terminated
  <2>. QED
    BY <2>1 DEF vars, IInv, Typed, Underway, Paging, Valid, Collected, Conflicting, Available, Known,
                Passed, Distance, Starts, Returned, Retained, Truncated
<1>2. CASE NewRequest
  BY <1>2, NewRequestPreserves
<1>3. CASE ServerTime
  BY <1>3, ServerTimePreserves
<1>4. CASE FetchPage
  BY <1>4, FetchPreserves
<1>5. CASE OutOfPages \/ RequestFails
  BY <1>5, FailurePreserves
<1>. QED  BY <1>1, <1>2, <1>3, <1>4, <1>5 DEF Next

\* The invariant holds in every reachable state.
THEOREM Invariance == Spec => []IInv
BY InitIInv, NextPreserves, PTL DEF Spec

-----------------------------------------------------------------------------
(* Theorems *)

Lower(a, b) == IF a < b THEN a ELSE b

LEMMA LowerBound ==
    ASSUME NEW a \in Nat, NEW b \in Nat
    PROVE  /\ Lower(a, b) \in Nat /\ Lower(a, b) <= b
           /\ \A k \in 1 .. a : k <= b => k \in 1 .. Lower(a, b) /\ k <= Lower(a, b)
BY DEF Lower

\* The result is the earliest part, up to the limit, of the candles collected in
\* the range, in order.
LEMMA ResultOf ==
    ASSUME IInv, status = "ok"
    PROVE  LET C == Retained(candles)
               n == Lower(Cardinality(C), request.limit)
           IN  /\ C \subseteq CandleType /\ IsFiniteSet(C) /\ Cardinality(C) \in Nat
               /\ ~ Conflicting(C) /\ InOrder(Sorted(C), C)
               /\ Len(result) = n /\ DOMAIN result = 1 .. n
               /\ \A i \in 1 .. n : i \in 1 .. Cardinality(C) /\ result[i] = Sorted(C)[i]
<1>. DEFINE C == Retained(candles)
            s == Sorted(C)
            n == Lower(Cardinality(C), request.limit)
<1>1. C \subseteq candles
  BY DEF Retained
<1>2. C \subseteq CandleType /\ IsFiniteSet(C)
  BY <1>1, FS_Subset DEF IInv, Typed, CandleType
<1>3. ~ Conflicting(C) /\ result = Truncated(s)
  BY DEF IInv, Returned
<1>4. Cardinality(C) \in Nat /\ request.limit \in Nat
  BY <1>2, FS_CardinalityType, RequestType DEF IInv, Typed
<1>5. InOrder(s, C)
  BY <1>2, <1>3, SortedInOrder DEF CandleType
<1>. HIDE DEF C, s
<1>6. s \in Seq(C) /\ Len(s) = Cardinality(C)
  BY <1>4, <1>5 DEF InOrder
<1>7. result = SubSeq(s, 1, n)
  BY <1>3, <1>6 DEF Truncated, Lower
<1>8. n \in 0 .. Len(s)
  BY <1>4, <1>6 DEF Lower
<1>. HIDE DEF n
<1>9. Len(result) = n /\ DOMAIN result = 1 .. n /\ \A i \in 1 .. n : result[i] = s[i]
  BY <1>6, <1>7, <1>8
<1>10. \A i \in 1 .. n : i \in 1 .. Cardinality(C)
  BY <1>6, <1>8
<1>. QED  BY <1>2, <1>3, <1>4, <1>5, <1>9, <1>10 DEF C, s, n

\* Whatever rows a venue sends, in whatever order and however often, the result
\* is in the range, in order and no longer than the limit.
THEOREM ResultsWellFormed == Spec => []ResultWellFormed
<1>1. ASSUME IInv, Succeeded PROVE ResultWellFormed
  <2>. DEFINE C == Retained(candles)
              n == Lower(Cardinality(C), request.limit)
  <2>1. /\ C \subseteq CandleType /\ Cardinality(C) \in Nat /\ InOrder(Sorted(C), C)
        /\ Len(result) = n /\ DOMAIN result = 1 .. n
        /\ \A i \in 1 .. n : i \in 1 .. Cardinality(C) /\ result[i] = Sorted(C)[i]
    BY <1>1, ResultOf DEF Succeeded
  <2>2. \A c \in C : c.start >= request.start /\ c.start + Interval <= request.end
    BY DEF Retained
  <2>3. request.limit \in Nat
    BY <1>1, RequestType DEF IInv, Typed
  <2>. HIDE DEF C
  <2>4. Len(result) <= request.limit /\ n \in Nat
    BY <2>1, <2>3, LowerBound, Zenon
  <2>. HIDE DEF n
  <2>5. ASSUME NEW i \in DOMAIN result
        PROVE  /\ result[i].start >= request.start
               /\ result[i].start + Interval <= request.end
               /\ i > 1 => result[i - 1].start < result[i].start
    <3>1. i \in 1 .. n /\ i \in 1 .. Cardinality(C) /\ result[i] = Sorted(C)[i] /\ result[i] \in C
      BY <2>1 DEF InOrder
    <3>2. ASSUME i > 1 PROVE result[i - 1].start < result[i].start
      <4>3. i \in 1 .. n /\ n \in Nat
        BY <3>1, <2>4
      <4>1. i - 1 \in 1 .. n /\ i - 1 < i
        BY <4>3, <3>2
      <4>2. i - 1 \in 1 .. Cardinality(C) /\ result[i - 1] = Sorted(C)[i - 1]
        BY <4>1, <2>1
      <4>. QED  BY <3>1, <4>1, <4>2, <2>1 DEF InOrder
    <3>. QED  BY <3>1, <3>2, <2>2
  <2>. QED  BY <2>4, <2>5 DEF ResultWellFormed
<1>2. IInv => ResultWellFormed
  BY <1>1 DEF ResultWellFormed
<1>. QED  BY <1>2, Invariance, PTL

\* No candle is reported as closed before it is, whether finality is judged by
\* the time sent with the page, by a server time read earlier or by the venue.
THEOREM ClosedCandlesFinal == Spec => []ClosedIsFinal
<1>1. ASSUME IInv, honest, Succeeded, NEW i \in DOMAIN result, result[i].finality = "Closed"
      PROVE  result[i].value = Interval
  <2>1. result[i] \in Retained(candles)
    BY <1>1, ResultOf DEF Succeeded, InOrder
  <2>2. result[i] \in candles
    BY <2>1 DEF Retained
  <2>. QED  BY <1>1, <2>2 DEF IInv, Collected
<1>2. IInv => ClosedIsFinal
  BY <1>1 DEF ClosedIsFinal
<1>. QED  BY <1>2, Invariance, PTL

\* Whatever the candles the venue has and has not, and however its clock runs
\* while the pages are fetched, none that was there when the request arrived is
\* skipped, and none is out of its place.
THEOREM EarliestAreReturned == Spec => []EarliestReturned
<1>1. ASSUME IInv, honest, Succeeded, NEW m \in Known,
             Cardinality({n \in Known : n < m}) + 1 <= request.limit
      PROVE  /\ Cardinality({n \in Known : n < m}) + 1 <= Len(result)
             /\ result[Cardinality({n \in Known : n < m}) + 1].start = m
  <2>. DEFINE C == Retained(candles)
              before == {n \in Known : n < m}
              k == Cardinality(before) + 1
              l == Lower(Cardinality(C), request.limit)
  <2>1. /\ C \subseteq CandleType /\ IsFiniteSet(C) /\ Cardinality(C) \in Nat
        /\ ~ Conflicting(C) /\ InOrder(Sorted(C), C)
        /\ Len(result) = l
        /\ \A i \in 1 .. l : i \in 1 .. Cardinality(C) /\ result[i] = Sorted(C)[i]
    BY <1>1, ResultOf DEF Succeeded
  <2>2. \A n \in Known : n \in Nat /\ n <= asked_at /\ n >= request.start /\ n + Interval <= request.end
    BY <1>1, AvailableFinite DEF IInv, Typed, Known
  <2>3. \A n \in Known : \E c \in C : c.start = n
    <3>. SUFFICES ASSUME NEW n \in Known PROVE \E c \in C : c.start = n
      OBVIOUS
    <3>1. PICK c \in candles : c.start = n
      BY <1>1 DEF IInv, Collected, Succeeded, Starts
    <3>. QED  BY <3>1, <2>2 DEF Retained
  <2>4. ASSUME NEW c \in C, c.start < m PROVE c.start \in Known
    <3>1. /\ c.start \in Nat /\ c.start \in Available(now)
          /\ c.start >= request.start /\ c.start + Interval <= request.end
      BY <1>1, <2>1 DEF Retained, IInv, Collected, CandleType
    <3>2. c.start <= asked_at /\ asked_at \in Nat
      BY <1>1, <2>2, <2>4, <3>1 DEF IInv, Typed
    <3>3. c.start \in Available(asked_at)
      BY <3>1, <3>2 DEF Available
    <3>. QED  BY <3>1, <3>3 DEF Known
  <2>5. PICK c \in C : c.start = m
    BY <2>3
  <2>6. Cardinality(Earlier(C, c)) = Cardinality(before)
    <3>. DEFINE f == [d \in Earlier(C, c) |-> d.start]
    <3>. HIDE DEF C
    <3>1. Earlier(C, c) \subseteq C /\ \A d \in Earlier(C, c) : d.start < m
      BY <2>5 DEF Earlier
    <3>2. f \in [Earlier(C, c) -> before]
      BY <2>4, <3>1
    <3>3. \A d, e \in Earlier(C, c) : f[d] = f[e] => d = e
      BY <2>1, <3>1 DEF Conflicting
    <3>4. \A n \in before : \E d \in Earlier(C, c) : f[d] = n
      BY <2>3, <2>5 DEF Earlier
    <3>5. f \in Surjection(Earlier(C, c), before) /\ f \in Injection(Earlier(C, c), before)
      BY <3>2, <3>3, <3>4 DEF Surjection, Injection, IsInjective
    <3>6. IsFiniteSet(Earlier(C, c))
      BY <2>1, <3>1, FS_Subset
    <3>. HIDE DEF f, before
    <3>. QED  BY <3>5, <3>6, FS_Surjection
  <2>. HIDE DEF C, before
  <2>7. k \in 1 .. Cardinality(C) /\ Sorted(C)[k] = c
    BY <2>1, <2>6 DEF InOrder
  <2>8. request.limit \in Nat /\ k <= request.limit
    BY <1>1, RequestType DEF IInv, Typed, before
  <2>9. k \in 1 .. l /\ k <= l
    BY <2>1, <2>7, <2>8, LowerBound
  <2>10. k <= Len(result) /\ result[k] = c
    BY <2>1, <2>7, <2>9
  <2>. QED  BY <2>5, <2>10 DEF before
<1>2. IInv => EarliestReturned
  <2>. SUFFICES ASSUME IInv, honest, Succeeded,
                       NEW m \in Known, Cardinality({n \in Known : n < m}) + 1 <= request.limit
                PROVE  /\ Cardinality({n \in Known : n < m}) + 1 <= Len(result)
                       /\ result[Cardinality({n \in Known : n < m}) + 1].start = m
    BY DEF EarliestReturned, Known
  <2>. QED  BY <1>1
<1>. QED  BY <1>2, Invariance, PTL

Statuses == {"new", "time", "page", "ok", "rejected", "stalled", "conflict", "failed"}
StatusTyped == status \in Statuses

LEMMA StatusInvariance == Spec => []StatusTyped
<1>1. Init => StatusTyped
  BY DEF Init, StatusTyped, Statuses
<1>2. StatusTyped /\ [Next]_vars => StatusTyped'
  <2>. SUFFICES ASSUME StatusTyped, [Next]_vars PROVE StatusTyped'
    OBVIOUS
  <2>1. CASE FetchPage
    BY <2>1 DEF FetchPage, PageArrives, EndPaging, SpanPage, BackwardPage, ForwardPage, NextPage,
                finish_result, StatusTyped, Statuses
  <2>. QED
    BY <2>1 DEF Next, vars, NewRequest, ServerTime, OutOfPages, RequestFails, Terminated, EndPaging,
                StatusTyped, Statuses
<1>. QED  BY <1>1, <1>2, PTL DEF Spec

\* A valid request to an honest venue never runs out of pages, stalls or meets
\* a conflict, for any range and page limit the budget is made for.
THEOREM HonestVenuesSucceed == Spec => []HonestVenueSucceeds
<1>1. IInv /\ StatusTyped => HonestVenueSucceeds
  BY DEF IInv, Collected, HonestVenueSucceeds, Finished, StatusTyped, Statuses
<1>. QED  BY <1>1, Invariance, StatusInvariance, PTL

\* No venue, honest or not, keeps a paging loop from ending: the cursor only ever
\* moves towards its goal, and the pages are counted.
THEOREM PagingAlwaysProgresses == Spec => PagingProgresses
<1>. DEFINE Progress ==
              /\ status = "page" /\ status' = "page" =>
                    IF provider \in Backward THEN cursor' < cursor ELSE cursor' > cursor
              /\ pages' <= MaxPages
<1>1. ASSUME IInv, IInv', [Next]_vars, ~ UNCHANGED vars PROVE Progress
  <2>1. pages' <= MaxPages
    BY <1>1 DEF IInv, Typed
  <2>2. ASSUME status = "page", status' = "page"
        PROVE  IF provider \in Backward THEN cursor' < cursor ELSE cursor' > cursor
    <3>1. FetchPage
      BY <1>1, <2>2 DEF Next, NewRequest, ServerTime, OutOfPages, RequestFails, EndPaging, Terminated
    <3>2. PICK page \in Pages(now') :
             LET C == Parsed(page.rows, now')
             IN  /\ now' \in Nat /\ now <= now'
                 /\ page.rows \subseteq RowType
                 /\ PageArrives(page, now')
                 /\ C \subseteq CandleType /\ IsFiniteSet(C)
                 /\ Starts(C) = {row.start : row \in page.rows}
                 /\ Starts(C) \subseteq Nat /\ IsFiniteSet(Starts(C))
      BY <1>1, <3>1, PageTyped DEF IInv
    <3>. DEFINE C == Parsed(page.rows, now')
    <3>3. \/ (\E m \in Starts(C) : ~ Aligned(m)) /\ EndPaging("failed")
          \/ /\ \A m \in Starts(C) : Aligned(m)
             /\ \/ C # {} /\ Stalled(C) /\ EndPaging("stalled")
                \/ Final(C, page.len) /\ finish_result(candles \cup C)
                \/ \E next : Onward(C, page.len, next) /\ NextPage(candles \cup C, next)
      BY <1>1, <3>2, PageOutcome DEF IInv
    <3>4. Starts(C) \subseteq Nat /\ IsFiniteSet(Starts(C))
      BY <3>2
    <3>. HIDE DEF C
    <3>5. PICK next : Onward(C, page.len, next) /\ NextPage(candles \cup C, next)
      BY <2>2, <3>3 DEF EndPaging, finish_result
    <3>6. (\A m \in Starts(C) : Aligned(m)) /\ cursor' = next
      BY <2>2, <3>3, <3>5 DEF EndPaging, NextPage
    <3>7. /\ next \in Nat
          /\ IF provider \in Backward THEN request.start < next /\ next < cursor
             ELSE cursor < next /\ next < request.end
      BY <1>1, <2>2, <3>4, <3>5, <3>6, OnwardInside DEF IInv
    <3>8. cursor \in Nat
      BY <1>1 DEF IInv, Typed
    <3>. QED  BY <3>6, <3>7, <3>8
  <2>. QED  BY <2>1, <2>2
<1>2. IInv /\ IInv' /\ [Next]_vars => [Progress]_vars
  BY <1>1
<1>. QED  BY <1>2, Invariance, PTL DEF Spec, PagingProgresses
=============================================================================
