----------------------------- MODULE HooksProofs -----------------------------
(***************************************************************************)
(* Theorems about `dira install-hooks` and its --uninstall: for every list *)
(* of events, every file that may be found, any number of processes and    *)
(* any writes of others between their steps.  First come the lemmas on     *)
(* numbers and lists that the proofs about the other commands use too.     *)
(***************************************************************************)
EXTENDS InstallHooks, FiniteSetTheorems, TLAPS

\* The least element of a set of numbers is one of them.
Less == {ss \in Nat \X Nat : ss[1] < ss[2]}

LEMMA LessIsWellFounded == IsWellFoundedOn(Less, Nat)
BY NatLessThanWellFounded DEF OpToRel, Less

LEMMA MinIsIn ==
  ASSUME NEW S \in SUBSET Nat, S # {}
  PROVE  Min(S) \in S /\ \A y \in S : Min(S) <= y
<1>1. PICK x \in S : \A y \in S : ~(<<y, x>> \in Less)
  BY LessIsWellFounded, WFMin
<1>2. ASSUME NEW y \in S PROVE x <= y
  <2>1. <<y, x>> \in Nat \X Nat /\ <<y, x>>[1] = y /\ <<y, x>>[2] = x
    OBVIOUS
  <2>2. ~(y < x)
    BY <1>1, <2>1 DEF Less
  <2>3. QED
    BY <2>2
<1>3. QED
  BY <1>2 DEF Min

\* A set of numbers that holds 0 and, with the number before, every number up to n.
LEMMA CountedUp ==
  ASSUME NEW n \in Nat, NEW S, 0 \in S, \A i \in 1 .. n : i - 1 \in S => i \in S
  PROVE  \A i \in 0 .. n : i \in S
<1> DEFINE missing == {i \in 0 .. n : i \notin S}
<1>1. SUFFICES ASSUME missing # {} PROVE FALSE
  OBVIOUS
<1>2. missing \in SUBSET Nat
  OBVIOUS
<1>3. PICK m \in missing : \A x \in missing : m <= x
  <2> HIDE DEF missing
  <2>1. QED
    BY <1>1, <1>2, MinIsIn
<1>4. m \in 1 .. n /\ m - 1 \in 0 .. n /\ ~(m <= m - 1)
  OBVIOUS
<1>5. m - 1 \in S
  BY <1>3, <1>4
<1>6. QED
  BY <1>4, <1>5

\* Two lists begin with the same n pieces.
Alike(s, t, n) == \A k \in 1 .. n : s[k] = t[k]

\* What has been joined once the first n lists are.
JoinedUpTo(f, n, lists) ==
    f = [i \in 1 .. n |-> IF i = 1 THEN lists[i] ELSE f[i - 1] \o lists[i]]

LEMMA JoinsExist ==
  ASSUME NEW lists, NEW n \in Nat
  PROVE  \A k \in 0 .. n : \E f : JoinedUpTo(f, k, lists)
<1> DEFINE S == {k \in 0 .. n : \E f : JoinedUpTo(f, k, lists)}
<1>1. 0 \in S
  <2> DEFINE f == [i \in 1 .. 0 |-> <<>>]
  <2>1. JoinedUpTo(f, 0, lists)
    BY DEF JoinedUpTo
  <2>2. QED
    BY <2>1
<1>2. ASSUME NEW k \in 1 .. n, k - 1 \in S PROVE k \in S
  <2>1. PICK f : JoinedUpTo(f, k - 1, lists)
    BY <1>2
  <2>2. f = [i \in 1 .. k - 1 |-> IF i = 1 THEN lists[i] ELSE f[i - 1] \o lists[i]]
    BY <2>1 DEF JoinedUpTo
  <2> DEFINE g == [i \in 1 .. k |-> IF i < k THEN f[i]
                                   ELSE IF k = 1 THEN lists[k] ELSE f[k - 1] \o lists[k]]
  <2>3. ASSUME NEW i \in 1 .. k
        PROVE  g[i] = IF i = 1 THEN lists[i] ELSE g[i - 1] \o lists[i]
    <3>1. CASE i = k
      BY <1>2, <3>1
    <3>2. CASE i # k
      <4>1. i \in 1 .. k - 1 /\ g[i] = f[i] /\ (i # 1 => g[i - 1] = f[i - 1])
        BY <1>2, <3>2
      <4>2. f[i] = IF i = 1 THEN lists[i] ELSE f[i - 1] \o lists[i]
        BY <2>2, <4>1
      <4>3. QED
        BY <4>1, <4>2
    <3>3. QED
      BY <3>1, <3>2
  <2>4. g = [i \in 1 .. k |-> g[i]]
    OBVIOUS
  <2> HIDE DEF g
  <2>5. g = [i \in 1 .. k |-> IF i = 1 THEN lists[i] ELSE g[i - 1] \o lists[i]]
    BY <2>3, <2>4
  <2>6. JoinedUpTo(g, k, lists)
    BY <2>5 DEF JoinedUpTo
  <2>7. QED
    BY <2>6
<1> HIDE DEF S
<1>3. \A k \in 0 .. n : k \in S
  BY <1>1, <1>2, CountedUp
<1>4. QED
  BY <1>3 DEF S

\* A list with another behind it has the members of both.
LEMMA MembersOfBoth ==
  ASSUME NEW S, NEW s \in Seq(S), NEW t \in Seq(S)
  PROVE  s \o t \in Seq(S) /\ Range(s \o t) = Range(s) \cup Range(t)
<1>1. s \o t \in Seq(S) /\ Len(s \o t) = Len(s) + Len(t)
  OBVIOUS
<1>2. \A i \in 1 .. Len(s) : (s \o t)[i] = s[i]
  OBVIOUS
<1>3. \A i \in 1 .. Len(t) : (s \o t)[Len(s) + i] = t[i]
  OBVIOUS
<1>4. ASSUME NEW i \in 1 .. Len(s) + Len(t) PROVE (s \o t)[i] \in Range(s) \cup Range(t)
  <2>1. CASE i \in 1 .. Len(s)
    BY <1>2, <2>1 DEF Range
  <2>2. CASE i \notin 1 .. Len(s)
    <3>1. i - Len(s) \in 1 .. Len(t) /\ Len(s) + (i - Len(s)) = i
      BY <2>2
    <3>2. QED
      BY <1>3, <3>1 DEF Range
  <2>3. QED
    BY <2>1, <2>2
<1>5. Range(s) \subseteq Range(s \o t)
  <2>1. \A i \in 1 .. Len(s) : i \in DOMAIN (s \o t)
    BY <1>1
  <2>2. QED
    BY <1>2, <2>1 DEF Range
<1>6. Range(t) \subseteq Range(s \o t)
  <2>1. ASSUME NEW i \in 1 .. Len(t) PROVE t[i] \in Range(s \o t)
    <3>1. Len(s) + i \in DOMAIN (s \o t) /\ (s \o t)[Len(s) + i] = t[i]
      BY <1>1, <1>3
    <3>2. QED
      BY <3>1 DEF Range
  <2>2. QED
    BY <2>1 DEF Range
<1>7. DOMAIN (s \o t) = 1 .. Len(s) + Len(t)
  BY <1>1
<1>8. Range(s \o t) \subseteq Range(s) \cup Range(t)
  BY <1>4, <1>7 DEF Range
<1>9. QED
  BY <1>1, <1>5, <1>6, <1>8

\* The greatest of the numbers up to k is k.
LEMMA GreatestUpTo ==
  ASSUME NEW k \in Nat, NEW t \in SUBSET (1 .. k), k \in t
  PROVE  Max(t) = k
<1>1. \A y \in t : k >= y
  OBVIOUS
<1>2. \A x \in t : (\A y \in t : x >= y) => x = k
  OBVIOUS
<1>3. QED
  BY <1>1, <1>2 DEF Max

-----------------------------------------------------------------------------
\* The greatest of some of the first n numbers is one of them.
LEMMA MaxIsIn ==
  ASSUME NEW n \in Nat, NEW S \in SUBSET (0 .. n), S # {}
  PROVE  Max(S) \in S /\ \A y \in S : Max(S) >= y
<1> DEFINE above == {n - x : x \in S}
<1>0. \A x \in S : x \in 0 .. n
  OBVIOUS
<1>1. above \in SUBSET Nat /\ above # {}
  <2>1. \A x \in S : n - x \in Nat
    BY <1>0
  <2>2. QED
    BY <2>1
<1>2. PICK m \in above : \A y \in above : m <= y
  <2> HIDE DEF above
  <2>1. QED
    BY <1>1, MinIsIn
<1>3. PICK x \in S : m = n - x
  OBVIOUS
<1>4. ASSUME NEW y \in S PROVE x >= y
  <2>1. n - y \in above
    OBVIOUS
  <2>2. m <= n - y /\ x \in Int /\ y \in Int
    BY <1>0, <1>2, <2>1
  <2>3. QED
    BY <1>0, <1>3, <2>2
<1> HIDE DEF above
<1>5. QED
  BY <1>4 DEF Max

\* The tokens that are kept, as far as the nth.
KeptUpTo(f, n, body, K) ==
    f = [k \in 0 .. n |->
           IF k = 0 THEN <<>> ELSE IF k \in K THEN Append(f[k - 1], body[k]) ELSE f[k - 1]]

LEMMA KeepingExists ==
  ASSUME NEW body, NEW K, NEW m \in Nat
  PROVE  \A n \in 0 .. m : \E f : KeptUpTo(f, n, body, K)
<1> DEFINE S == {n \in 0 .. m : \E f : KeptUpTo(f, n, body, K)}
<1>1. 0 \in S
  <2> DEFINE f == [k \in 0 .. 0 |-> <<>>]
  <2>1. KeptUpTo(f, 0, body, K)
    BY DEF KeptUpTo
  <2>2. QED
    BY <2>1
<1>2. ASSUME NEW n \in 1 .. m, n - 1 \in S PROVE n \in S
  <2>1. PICK f : KeptUpTo(f, n - 1, body, K)
    BY <1>2
  <2>2. f = [k \in 0 .. n - 1 |->
               IF k = 0 THEN <<>> ELSE IF k \in K THEN Append(f[k - 1], body[k]) ELSE f[k - 1]]
    BY <2>1 DEF KeptUpTo
  <2> DEFINE g == [k \in 0 .. n |-> IF k < n THEN f[k]
                                   ELSE IF n \in K THEN Append(f[n - 1], body[n]) ELSE f[n - 1]]
  <2>3. ASSUME NEW k \in 0 .. n
        PROVE  g[k] = IF k = 0 THEN <<>> ELSE IF k \in K THEN Append(g[k - 1], body[k]) ELSE g[k - 1]
    <3>1. CASE k = n
      BY <1>2, <3>1
    <3>2. CASE k # n
      <4>1. k \in 0 .. n - 1 /\ g[k] = f[k] /\ (k # 0 => g[k - 1] = f[k - 1])
        BY <1>2, <3>2
      <4>2. f[k] = IF k = 0 THEN <<>> ELSE IF k \in K THEN Append(f[k - 1], body[k]) ELSE f[k - 1]
        BY <2>2, <4>1
      <4>3. QED
        BY <4>1, <4>2
    <3>3. QED
      BY <3>1, <3>2
  <2>4. g = [k \in 0 .. n |-> g[k]]
    OBVIOUS
  <2> HIDE DEF g
  <2>5. g = [k \in 0 .. n |->
               IF k = 0 THEN <<>> ELSE IF k \in K THEN Append(g[k - 1], body[k]) ELSE g[k - 1]]
    BY <2>3, <2>4
  <2>6. KeptUpTo(g, n, body, K)
    BY <2>5 DEF KeptUpTo
  <2>7. QED
    BY <2>6
<1> HIDE DEF S
<1>3. \A n \in 0 .. m : n \in S
  BY <1>1, <1>2, CountedUp
<1>4. QED
  BY <1>3 DEF S

\* h counts the positions of K upwards.
Ascending(h, n, K) ==
    /\ h \in [1 .. n -> K]
    /\ \A i, j \in 1 .. n : i < j => h[i] < h[j]
    /\ \A p \in K : \E i \in 1 .. n : h[i] = p

LEMMA SeqDomain ==
  ASSUME NEW body, IsSeq(body)
  PROVE  Len(body) \in Nat /\ DOMAIN body = 1 .. Len(body) /\ body = [p \in DOMAIN body |-> body[p]]
BY DEF IsSeq

\* What is kept is what stands at those positions, in their order.
LEMMA KeptInOrder ==
  ASSUME NEW body, IsSeq(body), NEW K \in SUBSET DOMAIN body
  PROVE  \E n \in Nat : \E h : /\ Ascending(h, n, K)
                               /\ Kept(body, K) = [i \in 1 .. n |-> body[h[i]]]
<1>0. Len(body) \in Nat /\ DOMAIN body = 1 .. Len(body)
  BY SeqDomain
<1> DEFINE m == Len(body)
           upTo == CHOOSE f : f = [k \in 0 .. m |->
                     IF k = 0 THEN <<>> ELSE IF k \in K THEN Append(f[k - 1], body[k]) ELSE f[k - 1]]
           Counted(k) == \E n \in Nat : \E h : /\ Ascending(h, n, K \cap (1 .. k))
                                               /\ upTo[k] = [i \in 1 .. n |-> body[h[i]]]
           S == {k \in 0 .. m : Counted(k)}
<1>1. Kept(body, K) = upTo[m]
  BY DEF Kept
<1>2. upTo = [k \in 0 .. m |->
                IF k = 0 THEN <<>> ELSE IF k \in K THEN Append(upTo[k - 1], body[k]) ELSE upTo[k - 1]]
  <2> HIDE DEF m
  <2>1. m \in Nat /\ m \in 0 .. m
    BY <1>0 DEF m
  <2>2. PICK f : KeptUpTo(f, m, body, K)
    BY <2>1, KeepingExists
  <2>3. f = [k \in 0 .. m |->
                IF k = 0 THEN <<>> ELSE IF k \in K THEN Append(f[k - 1], body[k]) ELSE f[k - 1]]
    BY <2>2 DEF KeptUpTo
  <2>4. QED
    BY <2>3
<1>m. m \in Nat
  BY <1>0
<1> HIDE DEF upTo, m
<1>3. 0 \in S
  <2>1. upTo[0] = <<>>
    BY <1>m, <1>2
  <2> DEFINE h == [i \in 1 .. 0 |-> body[i]]
  <2>2. Ascending(h, 0, K \cap (1 .. 0)) /\ <<>> = [i \in 1 .. 0 |-> body[h[i]]]
    BY DEF Ascending
  <2>3. K \cap (1 .. 0) = {} /\ 0 \in 0 .. m
    BY <1>m
  <2> HIDE DEF h
  <2>4. Counted(0)
    BY <2>1, <2>2
  <2>5. QED
    BY <2>3, <2>4
<1>4. ASSUME NEW k \in 1 .. m, k - 1 \in S PROVE k \in S
  <2>0. PICK n \in Nat : \E h : /\ Ascending(h, n, K \cap (1 .. k - 1))
                                /\ upTo[k - 1] = [i \in 1 .. n |-> body[h[i]]]
    BY <1>4
  <2>1. PICK h : /\ Ascending(h, n, K \cap (1 .. k - 1))
                 /\ upTo[k - 1] = [i \in 1 .. n |-> body[h[i]]]
    BY <2>0
  <2>2. upTo[k] = IF k \in K THEN Append(upTo[k - 1], body[k]) ELSE upTo[k - 1]
    <3>1. k \in 0 .. m /\ k # 0
      BY <1>m
    <3>2. QED
      BY <1>2, <3>1
  <2>3. k \in 0 .. m /\ k \in Nat
    BY <1>m
  <2>4. CASE k \notin K
    <3>1. K \cap (1 .. k) = K \cap (1 .. k - 1)
      BY <2>3, <2>4
    <3>2. Ascending(h, n, K \cap (1 .. k)) /\ upTo[k] = [i \in 1 .. n |-> body[h[i]]]
      BY <2>1, <2>2, <2>4, <3>1
    <3>3. Counted(k)
      BY <3>2
    <3>4. QED
      BY <2>3, <3>3
  <2>5. CASE k \in K
    <3> DEFINE g == [i \in 1 .. n + 1 |-> IF i <= n THEN h[i] ELSE k]
    <3>1. \A i \in 1 .. n : h[i] \in K /\ h[i] \in 1 .. k - 1 /\ g[i] = h[i]
      BY <2>1 DEF Ascending
    <3>2. g[n + 1] = k /\ DOMAIN g = 1 .. n + 1 /\ g = [i \in 1 .. n + 1 |-> g[i]]
      OBVIOUS
    <3> HIDE DEF g
    <3>3. g \in [1 .. n + 1 -> K \cap (1 .. k)]
      <4>1. ASSUME NEW i \in 1 .. n + 1 PROVE g[i] \in K \cap (1 .. k)
        <5>1. CASE i \in 1 .. n
          BY <2>3, <3>1, <5>1
        <5>2. CASE i \notin 1 .. n
          <6>1. i = n + 1
            BY <5>2
          <6>2. QED
            BY <2>3, <2>5, <3>2, <6>1
        <5>3. QED
          BY <5>1, <5>2
      <4>2. QED
        BY <3>2, <4>1
    <3>4. ASSUME NEW i \in 1 .. n + 1, NEW j \in 1 .. n + 1, i < j PROVE g[i] < g[j]
      <4>1. i \in 1 .. n
        BY <3>4
      <4>2. CASE j = n + 1
        <5>1. g[i] \in 1 .. k - 1 /\ g[j] = k
          BY <3>1, <3>2, <4>1, <4>2
        <5>2. QED
          BY <2>3, <5>1
      <4>3. CASE j # n + 1
        <5>1. j \in 1 .. n
          BY <4>3
        <5>2. h[i] < h[j]
          BY <2>1, <3>4, <4>1, <5>1 DEF Ascending
        <5>3. QED
          BY <3>1, <4>1, <5>1, <5>2
      <4>4. QED
        BY <4>2, <4>3
    <3>5. ASSUME NEW p \in K \cap (1 .. k) PROVE \E i \in 1 .. n + 1 : g[i] = p
      <4>1. CASE p = k
        BY <3>2, <4>1
      <4>2. CASE p # k
        <5>1. p \in K \cap (1 .. k - 1)
          BY <2>3, <4>2
        <5>2. PICK i \in 1 .. n : h[i] = p
          BY <2>1, <5>1 DEF Ascending
        <5>3. QED
          BY <3>1, <5>2
      <4>3. QED
        BY <4>1, <4>2
    <3>6. Ascending(g, n + 1, K \cap (1 .. k))
      BY <3>3, <3>4, <3>5 DEF Ascending
    <3>7. Append([i \in 1 .. n |-> body[h[i]]], body[k]) = [i \in 1 .. n + 1 |-> body[g[i]]]
      <4> DEFINE s == [i \in 1 .. n |-> body[h[i]]]
      <4>1. s \in Seq({body[h[i]] : i \in 1 .. n}) /\ Len(s) = n
        OBVIOUS
      <4>2. Append(s, body[k]) = [i \in 1 .. n + 1 |-> IF i = n + 1 THEN body[k] ELSE s[i]]
        <5> HIDE DEF s
        <5>1. QED
          BY <4>1
      <4>3. ASSUME NEW i \in 1 .. n + 1
            PROVE  (IF i = n + 1 THEN body[k] ELSE s[i]) = body[g[i]]
        <5>1. CASE i = n + 1
          BY <3>2, <5>1
        <5>2. CASE i # n + 1
          <6>1. i \in 1 .. n
            BY <5>2
          <6>2. s[i] = body[h[i]] /\ g[i] = h[i]
            BY <3>1, <6>1
          <6>3. QED
            BY <5>2, <6>2
        <5>3. QED
          BY <5>1, <5>2
      <4>4. QED
        BY <4>2, <4>3
    <3>8. Counted(k)
      <4>1. upTo[k] = [i \in 1 .. n + 1 |-> body[g[i]]]
        BY <2>1, <2>2, <2>5, <3>7
      <4>2. n + 1 \in Nat
        OBVIOUS
      <4>3. QED
        BY <3>6, <4>1, <4>2
    <3>9. QED
      BY <2>3, <3>8
  <2>6. QED
    BY <2>4, <2>5
<1>5. \A k \in 0 .. m : k \in S
  <2> HIDE DEF S
  <2>1. QED
    BY <1>m, <1>3, <1>4, CountedUp
<1>6. m \in 0 .. m /\ K \cap (1 .. m) = K
  BY <1>0, <1>m DEF m
<1>7. Counted(m)
  BY <1>5, <1>6
<1>80. PICK n \in Nat : \E h : /\ Ascending(h, n, K \cap (1 .. m))
                               /\ upTo[m] = [i \in 1 .. n |-> body[h[i]]]
  BY <1>7
<1>8. PICK h : /\ Ascending(h, n, K \cap (1 .. m))
               /\ upTo[m] = [i \in 1 .. n |-> body[h[i]]]
  BY <1>80
<1>9. Ascending(h, n, K) /\ Kept(body, K) = [i \in 1 .. n |-> body[h[i]]]
  BY <1>1, <1>6, <1>8
<1>10. QED
  BY <1>9

\* Items and commas alternate after a comma and an item more.
LEMMA OneMoreItem ==
  ASSUME NEW n \in Nat, NEW I \in SUBSET (1 .. n), NEW C \in SUBSET (1 .. n), n \in I, Alternating(I, C)
  PROVE  Alternating(I \cup {n + 3}, C \cup {n + 1})
<1> DEFINE J == I \cup {n + 3}
           D == C \cup {n + 1}
<1>0. \A x \in I \cup C : x \in Nat /\ x <= n
  OBVIOUS
<1>1. ASSUME NEW p \in J, NEW q \in J, p < q PROVE \E c \in D : p < c /\ c < q
  <2>1. CASE q = n + 3
    <3>1. p < n + 1 /\ n + 1 < q
      BY <1>0, <1>1, <2>1
    <3>2. QED
      BY <3>1
  <2>2. CASE q # n + 3
    <3>1. p \in I /\ q \in I
      BY <1>0, <1>1, <2>2
    <3>2. PICK c \in C : p < c /\ c < q
      BY <1>1, <3>1 DEF Alternating
    <3>3. QED
      BY <3>2
  <2>3. QED
    BY <2>1, <2>2
<1>2. ASSUME NEW c \in D PROVE \E p \in J : p < c /\ \A d \in D : d < c => d < p
  <2>1. CASE c = n + 1
    <3>1. PICK top \in I : top = n
      OBVIOUS
    <3>2. \A d \in C : d # n
      <4>1. SUFFICES ASSUME n \in C PROVE FALSE
        OBVIOUS
      <4>2. PICK q \in I : n < q
        BY <4>1 DEF Alternating
      <4>3. QED
        BY <1>0, <4>2
    <3>3. n < c /\ \A d \in D : d < c => d < n
      BY <1>0, <2>1, <3>2
    <3>4. QED
      BY <3>3
  <2>2. CASE c # n + 1
    <3>1. c \in C
      BY <2>2
    <3>2. PICK p \in I : p < c /\ \A d \in C : d < c => d < p
      BY <3>1 DEF Alternating
    <3>3. ~(n + 1 < c)
      BY <1>0, <3>1
    <3>4. QED
      BY <3>2, <3>3
  <2>3. QED
    BY <2>1, <2>2
<1>3. ASSUME NEW c \in D PROVE \E q \in J : c < q /\ \A d \in D : c < d => q < d
  <2>1. CASE c = n + 1
    <3>1. c < n + 3 /\ \A d \in D : ~(c < d)
      BY <1>0, <2>1
    <3>2. QED
      BY <3>1
  <2>2. CASE c # n + 1
    <3>1. c \in C
      BY <2>2
    <3>2. PICK q \in I : c < q /\ \A d \in C : c < d => q < d
      BY <3>1 DEF Alternating
    <3>3. q < n + 1
      BY <1>0
    <3>4. QED
      BY <3>2, <3>3
  <2>3. QED
    BY <2>1, <2>2
<1>4. Alternating(J, D)
  <2> HIDE DEF J, D
  <2>1. QED
    BY <1>1, <1>2, <1>3 DEF Alternating
<1>5. QED
  BY <1>4

\* The positions h counts stand as the positions counted do.
LEMMA CountedAlternate ==
  ASSUME NEW n \in Nat, NEW m \in Nat, NEW K \in SUBSET (1 .. m), NEW h, Ascending(h, n, K),
         NEW I, NEW C, Alternating(I \cap K, C \cap K),
         NEW J \in SUBSET (1 .. n), \A i \in 1 .. n : i \in J <=> h[i] \in I,
         NEW D \in SUBSET (1 .. n), \A i \in 1 .. n : i \in D <=> h[i] \in C
  PROVE  Alternating(J, D)
<1>0. \A i \in 1 .. n : h[i] \in K
  BY DEF Ascending
<1>1. \A i \in 1 .. n : h[i] \in K /\ h[i] \in Nat
  <2>1. \A x \in K : x \in Nat
    OBVIOUS
  <2>2. QED
    BY <1>0, <2>1
<1>2. \A i, j \in 1 .. n : h[i] < h[j] <=> i < j
  <2>1. ASSUME NEW i \in 1 .. n, NEW j \in 1 .. n, h[i] < h[j] PROVE i < j
    <3>1. i # j /\ ~(j < i)
      BY <1>1, <2>1 DEF Ascending
    <3>2. QED
      BY <3>1
  <2>2. QED
    BY <2>1 DEF Ascending
<1>3. ASSUME NEW p \in K PROVE \E i \in 1 .. n : h[i] = p
  BY DEF Ascending
<1>4. ASSUME NEW p \in J, NEW q \in J, p < q PROVE \E c \in D : p < c /\ c < q
  <2>1. h[p] \in I \cap K /\ h[q] \in I \cap K /\ h[p] < h[q]
    BY <1>1, <1>2, <1>4
  <2>2. PICK c \in C \cap K : h[p] < c /\ c < h[q]
    BY <2>1 DEF Alternating
  <2>3. PICK i \in 1 .. n : h[i] = c
    BY <1>3
  <2>4. i \in D /\ p < i /\ i < q
    BY <1>2, <2>2, <2>3
  <2>5. QED
    BY <2>4
<1>5. ASSUME NEW c \in D PROVE \E p \in J : p < c /\ \A d \in D : d < c => d < p
  <2>1. h[c] \in C \cap K
    BY <1>1
  <2>2. PICK x \in I \cap K : x < h[c] /\ \A d \in C \cap K : d < h[c] => d < x
    BY <2>1 DEF Alternating
  <2>3. PICK p \in 1 .. n : h[p] = x
    BY <1>3
  <2>4. p \in J /\ p < c
    BY <1>2, <2>2, <2>3
  <2>5. ASSUME NEW d \in D, d < c PROVE d < p
    <3>1. h[d] \in C \cap K /\ h[d] < h[c]
      BY <1>1, <1>2, <2>5
    <3>2. QED
      BY <1>2, <2>2, <2>3, <3>1
  <2>6. QED
    BY <2>4, <2>5
<1>6. ASSUME NEW c \in D PROVE \E q \in J : c < q /\ \A d \in D : c < d => q < d
  <2>1. h[c] \in C \cap K
    BY <1>1
  <2>2. PICK x \in I \cap K : h[c] < x /\ \A d \in C \cap K : h[c] < d => x < d
    BY <2>1 DEF Alternating
  <2>3. PICK q \in 1 .. n : h[q] = x
    BY <1>3
  <2>4. q \in J /\ c < q
    BY <1>2, <2>2, <2>3
  <2>5. ASSUME NEW d \in D, c < d PROVE q < d
    <3>1. h[d] \in C \cap K /\ h[c] < h[d]
      BY <1>1, <1>2, <2>5
    <3>2. QED
      BY <1>2, <2>2, <2>3, <3>1
  <2>6. QED
    BY <2>4, <2>5
<1>7. QED
  BY <1>4, <1>5, <1>6 DEF Alternating

\* Of the items exactly those to be removed are in the spans.
LEMMA SpansTakeTheirItems ==
  ASSUME NEW body, IsSeq(body), NEW P \in SUBSET Items(body)
  PROVE  Items(body) \cap removalSpans(body, P) = P
<1> DEFINE n == Len(body)
           I == Items(body)
           kept == I \ P
           Before(p) == {q \in kept : q < p}
<1>0. n \in Nat /\ I \in SUBSET (1 .. n) /\ I \in SUBSET Nat
  BY SeqDomain DEF Items
<1>1. CASE P = {}
  BY <1>1 DEF removalSpans
<1>2. CASE P # {} /\ kept = {}
  <2>1. removalSpans(body, P) = 1 .. Max(P)
    BY <1>2 DEF removalSpans
  <2>2. Max(P) \in P /\ \A y \in P : Max(P) >= y
    <3>1. P \in SUBSET (0 .. n)
      BY <1>0
    <3> HIDE DEF n
    <3>2. QED
      BY <1>0, <1>2, <3>1, MaxIsIn
  <2>3. \A p \in P : p \in 1 .. Max(P)
    BY <1>0, <2>2
  <2>4. QED
    BY <1>2, <2>1, <2>3
<1>3. CASE P # {} /\ kept # {}
  <2> DEFINE span(p) == IF Before(p) = {} THEN p .. Min(kept) - 1 ELSE Max(Before(p)) + 1 .. p
  <2>1. removalSpans(body, P) = UNION {span(p) : p \in P}
    BY <1>3 DEF removalSpans
  <2>2. Min(kept) \in kept /\ \A y \in kept : Min(kept) <= y
    <3> HIDE DEF kept
    <3>1. kept \in SUBSET Nat /\ kept # {}
      BY <1>0, <1>3 DEF kept
    <3>2. QED
      BY <3>1, MinIsIn
  <2>3. ASSUME NEW p \in P PROVE p \in span(p) /\ \A q \in kept : q \notin span(p)
    <3>0. p \in Nat /\ p \notin kept /\ \A q \in kept : q \in Nat
      BY <1>0
    <3>1. CASE Before(p) = {}
      <4>1. p < Min(kept)
        <5>1. Min(kept) \in Nat /\ Min(kept) # p /\ ~(Min(kept) < p)
          BY <2>2, <3>0, <3>1
        <5>2. QED
          BY <3>0, <5>1
      <4>2. span(p) = p .. Min(kept) - 1
        BY <3>1
      <4> HIDE DEF span, kept
      <4>3. QED
        BY <2>2, <3>0, <4>1, <4>2
    <3>2. CASE Before(p) # {}
      <4>1. Max(Before(p)) \in Before(p) /\ \A y \in Before(p) : Max(Before(p)) >= y
        <5> DEFINE B == Before(p)
        <5>1. B \in SUBSET (0 .. n) /\ B # {}
          BY <1>0, <3>2
        <5> HIDE DEF B, n
        <5>2. Max(B) \in B /\ \A y \in B : Max(B) >= y
          BY <1>0, <5>1, MaxIsIn
        <5>3. QED
          BY <5>2 DEF B
      <4>2. span(p) = Max(Before(p)) + 1 .. p
        BY <3>2
      <4>3. PICK b : b = Max(Before(p))
        OBVIOUS
      <4>4. b \in kept /\ b < p /\ \A y \in kept : y < p => b >= y
        BY <4>1, <4>3
      <4>5. span(p) = b + 1 .. p
        BY <4>2, <4>3
      <4> HIDE DEF span, kept
      <4>6. QED
        BY <3>0, <4>4, <4>5
    <3>3. QED
      BY <3>1, <3>2
  <2> HIDE DEF span
  <2>4. QED
    BY <2>1, <2>3
<1>4. QED
  BY <1>1, <1>2, <1>3

\* What is left alternates as before.
LEMMA SpansLeaveAlternating ==
  ASSUME NEW body, IsSeq(body), Alternates(body), NEW P \in SUBSET Items(body),
         NEW K, K = DOMAIN body \ removalSpans(body, P)
  PROVE  Alternating(Items(body) \cap K, Commas(body) \cap K)
<1> DEFINE n == Len(body)
           I == Items(body)
           C == Commas(body)
           kept == I \ P
           Before(p) == {q \in kept : q < p}
<1>0. n \in Nat /\ I \in SUBSET (1 .. n) /\ C \in SUBSET (1 .. n) /\ DOMAIN body = 1 .. n
  BY SeqDomain DEF Items, Commas
<1>1. \A x \in I \cup C : x \in Nat
  BY <1>0
<1>2. I \cap K = kept
  BY <1>0, SpansTakeTheirItems DEF Items
<1>3. Alternating(I, C) /\ I \cap C = {}
  <2>1. Alternating(I, C)
    BY DEF Alternates
  <2>2. Comma.kind = "sep"
    BY DEF Comma, Token
  <2>3. \A p \in I : body[p].kind # "sep"
    BY DEF Items
  <2>4. \A p \in C : body[p] = Comma
    BY DEF Commas
  <2>5. QED
    BY <2>1, <2>2, <2>3, <2>4
<1>4. CASE P = {}
  <2>1. K = 1 .. n
    BY <1>0, <1>4 DEF removalSpans
  <2>2. I \cap K = I /\ C \cap K = C
    BY <1>0, <2>1
  <2>3. QED
    BY <1>3, <2>2
<1>5. CASE P # {} /\ kept = {}
  <2>1. removalSpans(body, P) = 1 .. Max(P)
    BY <1>5 DEF removalSpans
  <2>2. Max(P) \in P /\ \A y \in P : Max(P) >= y
    <3>1. P \in SUBSET (0 .. n)
      BY <1>0
    <3> HIDE DEF n
    <3>2. QED
      BY <1>0, <1>5, <3>1, MaxIsIn
  <2>3. ASSUME NEW c \in C PROVE c \in 1 .. Max(P)
    <3>1. PICK q \in I : c < q
      BY <1>3 DEF Alternating
    <3>2. q \in P /\ Max(P) >= q /\ Max(P) \in Nat /\ c >= 1
      BY <1>0, <1>1, <1>5, <2>2, <3>1
    <3>3. QED
      BY <1>1, <3>1, <3>2
  <2>4. I \cap K = {} /\ C \cap K = {}
    BY <1>2, <1>5, <2>1, <2>3
  <2>5. QED
    BY <2>4 DEF Alternating
<1>6. CASE P # {} /\ kept # {}
  <2> DEFINE span(p) == IF Before(p) = {} THEN p .. Min(kept) - 1 ELSE Max(Before(p)) + 1 .. p
  <2>1. removalSpans(body, P) = UNION {span(p) : p \in P}
    BY <1>6 DEF removalSpans
  <2>2. Min(kept) \in kept /\ \A y \in kept : Min(kept) <= y
    <3> HIDE DEF kept
    <3>1. kept \in SUBSET Nat /\ kept # {}
      BY <1>1, <1>6 DEF kept
    <3>2. QED
      BY <3>1, MinIsIn
  \* Whichever span a position is in, it is a removed item's.
  <2>3. ASSUME NEW x, x \in K PROVE \A p \in P : x \notin span(p)
    BY <2>1, <2>3
  <2>4. ASSUME NEW x \in 1 .. n, \A p \in P : x \notin span(p) PROVE x \in K
    BY <1>0, <2>1, <2>4
  \* The last item kept before any place.
  <2>5. ASSUME NEW x \in Nat, Before(x) # {}
        PROVE  \E b \in kept : b < x /\ \A y \in kept : y < x => y <= b
    <3> DEFINE B == Before(x)
    <3>1. B \in SUBSET (0 .. n) /\ B # {}
      BY <1>0, <2>5
    <3> HIDE DEF B, n
    <3>2. Max(B) \in B /\ \A y \in B : Max(B) >= y
      BY <1>0, <3>1, MaxIsIn
    <3> USE DEF B
    <3>3. \A y \in kept : y < x => y <= Max(B)
      <4>1. \A y \in kept : y \in Nat
        BY <1>1
      <4>2. QED
        BY <3>2, <4>1
    <3>4. QED
      BY <3>2, <3>3
  \* The span of a removed item with that kept one before it.
  <2>6. ASSUME NEW p \in P, NEW b \in kept, b < p, \A y \in kept : y < p => y <= b
        PROVE  span(p) = b + 1 .. p
    <3>0. p \in Nat /\ b \in Nat /\ \A y \in kept : y \in Nat
      BY <1>1
    <3> DEFINE B == Before(p)
    <3>1. B # {}
      BY <2>6
    <3>2. Max(B) = b
      <4>1. B \in SUBSET (0 .. n)
        BY <1>0
      <4>2. b \in B /\ \A y \in B : y <= b
        BY <2>6
      <4>3. \A y \in B : y \in Nat
        BY <3>0
      <4> HIDE DEF B, n
      <4>4. Max(B) \in B /\ \A y \in B : Max(B) >= y
        BY <1>0, <3>1, <4>1, MaxIsIn
      <4>5. Max(B) \in Nat /\ Max(B) <= b /\ Max(B) >= b
        BY <4>2, <4>3, <4>4
      <4>6. QED
        BY <3>0, <4>5
    <3>3. QED
      BY <3>1, <3>2
  <2>7. ASSUME NEW p \in P, Before(p) = {} PROVE span(p) = p .. Min(kept) - 1
    BY <2>7
  <2> HIDE DEF span
  \* Between two items that are kept.
  <2>8. ASSUME NEW p \in kept, NEW q \in kept, p < q PROVE \E c \in C \cap K : p < c /\ c < q
    <3>1. p \in Nat /\ q \in Nat
      BY <1>1
    <3>2. PICK b \in kept : b < q /\ \A y \in kept : y < q => y <= b
      BY <2>5, <2>8, <3>1
    <3>3. b \in Nat /\ p <= b
      BY <1>1, <2>8, <3>2
    <3> DEFINE R == {r \in P : b < r /\ r < q}
    \* The last item before q, kept or not.
    <3>4. \E l \in I : b <= l /\ l < q /\ (\A r \in R : r <= l) /\ (l = b \/ l \in R)
      <4>1. CASE R = {}
        BY <3>2, <3>3, <4>1
      <4>2. CASE R # {}
        <5>1. R \in SUBSET (0 .. n) /\ \A r \in R : r \in Nat /\ r \in I
          BY <1>0, <1>1
        <5> HIDE DEF n, R
        <5>2. Max(R) \in R /\ \A r \in R : Max(R) >= r
          BY <1>0, <4>2, <5>1, MaxIsIn
        <5> USE DEF R
        <5>3. b <= Max(R) /\ Max(R) < q /\ Max(R) \in I
          BY <3>3, <5>1, <5>2
        <5>4. \A r \in R : r <= Max(R)
          BY <5>1, <5>2
        <5>5. QED
          BY <5>2, <5>3, <5>4
      <4>3. QED
        BY <4>1, <4>2
    <3>5. PICK l \in I : b <= l /\ l < q /\ (\A r \in R : r <= l) /\ (l = b \/ l \in R)
      BY <3>4
    <3>6. PICK c \in C : l < c /\ c < q
      BY <1>3, <3>5 DEF Alternating
    <3>7. l \in Nat /\ c \in Nat /\ c \in 1 .. n
      BY <1>0, <1>1
    <3>8. ASSUME NEW r \in P PROVE c \notin span(r)
      <4>1. r \in Nat /\ r # q /\ r # b
        BY <1>1
      <4>2. CASE b < r /\ r < q
        <5>1. r <= l
          BY <3>5, <4>2
        <5>2. \A y \in kept : y < r => y <= b
          <6>1. ASSUME NEW y \in kept, y < r PROVE y < q
            BY <1>1, <4>1, <4>2, <6>1, <3>1
          <6>2. QED
            BY <3>2, <6>1
        <5>3. span(r) = b + 1 .. r
          BY <2>6, <4>2, <5>2
        <5>4. QED
          BY <3>3, <3>6, <3>7, <4>1, <5>1, <5>3
      <4>3. CASE r < b
        <5>1. \A x \in span(r) : x < b
          <6>1. CASE Before(r) = {}
            <7>1. Min(kept) <= b /\ Min(kept) \in Nat
              BY <1>1, <2>2
            <7>2. QED
              BY <2>7, <3>3, <4>1, <6>1, <7>1
          <6>2. CASE Before(r) # {}
            <7>1. PICK d \in kept : d < r /\ \A y \in kept : y < r => y <= d
              BY <2>5, <4>1, <6>2
            <7>2. span(r) = d + 1 .. r
              BY <2>6, <7>1
            <7>3. d \in Nat
              BY <1>1
            <7>4. QED
              BY <3>3, <4>1, <4>3, <7>2, <7>3
          <6>3. QED
            BY <6>1, <6>2
        <5>2. QED
          BY <3>3, <3>5, <3>6, <3>7, <5>1
      <4>4. CASE q < r
        <5>1. Before(r) # {}
          BY <4>4
        <5>2. PICK d \in kept : d < r /\ \A y \in kept : y < r => y <= d
          BY <2>5, <4>1, <5>1
        <5>3. span(r) = d + 1 .. r /\ q <= d /\ d \in Nat
          BY <1>1, <2>6, <4>4, <5>2
        <5>4. QED
          BY <3>1, <3>6, <3>7, <4>1, <5>3
      <4>5. QED
        BY <3>1, <3>3, <4>1, <4>2, <4>3, <4>4
    <3>9. c \in K /\ p < c
      BY <2>4, <3>1, <3>3, <3>5, <3>6, <3>7, <3>8
    <3>10. QED
      BY <3>6, <3>9
  \* Before a comma that is kept.
  <2>9. ASSUME NEW c \in C \cap K
        PROVE  /\ \E p \in kept : p < c /\ \A d \in C \cap K : d < c => d < p
               /\ \E q \in kept : c < q /\ \A d \in C \cap K : c < d => q < d
    <3>1. c \in Nat
      BY <1>1
    <3>2. PICK i \in I : i < c /\ \A d \in C : d < c => d < i
      BY <1>3 DEF Alternating
    <3>3. PICK j \in I : c < j /\ \A d \in C : c < d => j < d
      BY <1>3 DEF Alternating
    <3>4. i \in Nat /\ j \in Nat
      BY <1>1
    <3>5. Before(c) # {}
      <4>1. SUFFICES ASSUME Before(c) = {} PROVE FALSE
        OBVIOUS
      <4>2. Min(kept) \in Nat /\ c < Min(kept)
        <5>1. Min(kept) \in kept /\ Min(kept) \in Nat
          BY <1>1, <2>2
        <5>2. ~(Min(kept) < c) /\ Min(kept) # c
          BY <1>3, <4>1, <5>1
        <5>3. QED
          BY <3>1, <5>1, <5>2
      <4>3. i \in P
        BY <3>2, <4>1
      <4>4. Before(i) = {}
        <5>1. ASSUME NEW y \in kept, y < i PROVE y < c
          BY <1>1, <3>1, <3>2, <3>4, <5>1
        <5>2. QED
          BY <4>1, <5>1
      <4>5. c \in span(i)
        BY <2>7, <3>1, <3>2, <3>4, <4>2, <4>3, <4>4
      <4>6. QED
        BY <2>3, <4>3, <4>5
    <3>6. PICK b \in kept : b < c /\ \A y \in kept : y < c => y <= b
      BY <2>5, <3>1, <3>5
    <3>7. b \in Nat
      BY <1>1
    <3>8. ASSUME NEW d \in C \cap K, d < c PROVE d < b
      <4>1. d \in Nat /\ d < i /\ d # b
        BY <1>1, <1>3, <3>2, <3>8
      <4>2. SUFFICES ASSUME b < d PROVE FALSE
        BY <3>7, <4>1
      <4>3. i \in P
        <5>1. i \notin kept
          BY <3>2, <3>4, <3>6, <3>7, <4>1, <4>2
        <5>2. QED
          BY <5>1
      <4>4. b < i /\ \A y \in kept : y < i => y <= b
        <5>1. ASSUME NEW y \in kept, y < i PROVE y < c
          BY <1>1, <3>1, <3>2, <3>4, <5>1
        <5>2. b < i
          BY <3>4, <3>7, <4>1, <4>2
        <5>3. QED
          BY <3>6, <5>1, <5>2
      <4>5. d \in span(i)
        <5>1. span(i) = b + 1 .. i
          BY <2>6, <4>3, <4>4
        <5>2. QED
          BY <3>4, <3>7, <4>1, <4>2, <5>1
      <4>6. QED
        BY <2>3, <4>3, <4>5
    <3>9. j \in kept
      <4>1. SUFFICES ASSUME j \in P PROVE FALSE
        OBVIOUS
      <4>2. \A y \in kept : y < j => y <= b
        <5>1. ASSUME NEW y \in kept, y < j PROVE y < c
          <6>1. y \in Nat /\ y # c
            BY <1>1, <1>3
          <6>2. SUFFICES ASSUME c < y PROVE FALSE
            BY <3>1, <6>1
          <6>3. PICK e \in C : y < e /\ e < j
            BY <1>3, <5>1 DEF Alternating
          <6>4. e \in Nat /\ c < e
            BY <1>1, <3>1, <6>1, <6>2, <6>3
          <6>5. QED
            BY <3>3, <3>4, <6>3, <6>4
        <5>2. QED
          BY <3>6, <5>1
      <4>3. b < j
        BY <3>1, <3>3, <3>4, <3>6, <3>7
      <4>4. span(j) = b + 1 .. j
        BY <2>6, <4>1, <4>2, <4>3
      <4>5. c \in span(j)
        BY <3>1, <3>3, <3>4, <3>6, <3>7, <4>4
      <4>6. QED
        BY <2>3, <4>1, <4>5
    <3>10. /\ b \in kept /\ b < c /\ \A d \in C \cap K : d < c => d < b
           /\ j \in kept /\ c < j /\ \A d \in C \cap K : c < d => j < d
      BY <3>3, <3>6, <3>8, <3>9
    <3>11. QED
      BY <3>10
  <2>10. Alternating(kept, C \cap K)
    <3> HIDE DEF kept, C
    <3>1. QED
      BY <2>8, <2>9 DEF Alternating
  <2>11. QED
    BY <1>2, <2>10
<1>7. QED
  BY <1>4, <1>5, <1>6

Thirds(m) == \A p \in 1 .. 3 * m : \E j \in 1 .. m : p \in {3 * j - 2, 3 * j - 1, 3 * j}

LEMMA InThirds ==
  ASSUME NEW n \in Nat
  PROVE  \A m \in 0 .. n : Thirds(m)
<1> DEFINE S == {m \in 0 .. n : Thirds(m)}
<1>1. 0 \in S
  BY DEF Thirds
<1>2. ASSUME NEW m \in 1 .. n, m - 1 \in S PROVE m \in S
  <2>1. ASSUME NEW p \in 1 .. 3 * m PROVE \E j \in 1 .. m : p \in {3 * j - 2, 3 * j - 1, 3 * j}
    <3>1. CASE p <= 3 * (m - 1)
      <4>1. p \in 1 .. 3 * (m - 1)
        BY <3>1
      <4>2. PICK j \in 1 .. m - 1 : p \in {3 * j - 2, 3 * j - 1, 3 * j}
        BY <1>2, <4>1 DEF Thirds
      <4>3. j \in 1 .. m
        OBVIOUS
      <4>4. QED
        BY <4>2, <4>3
    <3>2. CASE ~(p <= 3 * (m - 1))
      <4>1. p \in {3 * m - 2, 3 * m - 1, 3 * m} /\ m \in 1 .. m
        BY <3>2
      <4>2. QED
        BY <4>1
    <3>3. QED
      BY <3>1, <3>2
  <2>2. m \in 0 .. n
    OBVIOUS
  <2>3. QED
    BY <2>1, <2>2 DEF Thirds
<1> HIDE DEF S
<1>3. \A m \in 0 .. n : m \in S
  BY <1>1, <1>2, CountedUp
<1>4. QED
  BY <1>3 DEF S

\* Item after item with a comma and a blank before it.
Strung(s, items, m) ==
    /\ s \in Seq(Range(items) \cup {Comma, Blank}) /\ Len(s) = 3 * m
    /\ \A j \in 1 .. m : s[3 * j - 2] = Comma /\ s[3 * j - 1] = Blank /\ s[3 * j] = items[j]

LEMMA OneMoreStrung ==
  ASSUME NEW items, IsSeq(items), NEW m \in 1 .. Len(items), NEW s, Strung(s, items, m - 1)
  PROVE  Strung(s \o <<Comma, Blank, items[m]>>, items, m)
<1> DEFINE X == Range(items) \cup {Comma, Blank}
           t == <<Comma, Blank, items[m]>>
<1>0. Len(items) \in Nat /\ DOMAIN items = 1 .. Len(items)
  BY SeqDomain
<1>1. items[m] \in X /\ Comma \in X /\ Blank \in X
  BY <1>0 DEF Range
<1>2. s \in Seq(X) /\ Len(s) = 3 * (m - 1)
  BY DEF Strung
<1>3. \A j \in 1 .. m - 1 : s[3 * j - 2] = Comma /\ s[3 * j - 1] = Blank /\ s[3 * j] = items[j]
  BY DEF Strung
<1> HIDE DEF X
<1>4. t \in Seq(X) /\ Len(t) = 3 /\ t[1] = Comma /\ t[2] = Blank /\ t[3] = items[m]
  BY <1>1
<1> HIDE DEF t
<1>4a. s \in Seq(X) /\ t \in Seq(X)
  BY <1>2, <1>4
<1>4b. s \o t \in Seq(X) /\ Len(s \o t) = Len(s) + Len(t)
  BY <1>4a
<1>4c. \A p \in 1 .. Len(t) : (s \o t)[Len(s) + p] = t[p]
  BY <1>4a
<1>5. s \o t \in Seq(X) /\ Len(s \o t) = 3 * m
  <2>1. 3 * (m - 1) + 3 = 3 * m
    BY <1>0
  <2>2. QED
    BY <1>2, <1>4, <1>4b, <2>1
<1>6. \A p \in 1 .. 3 * (m - 1) : (s \o t)[p] = s[p]
  BY <1>0, <1>2, <1>4
<1>7. \A p \in 1 .. 3 : (s \o t)[3 * (m - 1) + p] = t[p]
  BY <1>2, <1>4, <1>4c
<1>8. ASSUME NEW j \in 1 .. m
      PROVE  (s \o t)[3 * j - 2] = Comma /\ (s \o t)[3 * j - 1] = Blank /\ (s \o t)[3 * j] = items[j]
  <2>1. CASE j = m
    <3>1. 3 * (m - 1) + 1 = 3 * j - 2 /\ 3 * (m - 1) + 2 = 3 * j - 1 /\ 3 * (m - 1) + 3 = 3 * j
      BY <1>0, <2>1
    <3>2. 1 \in 1 .. 3 /\ 2 \in 1 .. 3 /\ 3 \in 1 .. 3
      OBVIOUS
    <3>3. QED
      BY <1>4, <1>7, <2>1, <3>1, <3>2
  <2>2. CASE j # m
    <3>1. /\ j \in 1 .. m - 1 /\ 3 * j - 2 \in 1 .. 3 * (m - 1)
          /\ 3 * j - 1 \in 1 .. 3 * (m - 1) /\ 3 * j \in 1 .. 3 * (m - 1)
      BY <1>0, <2>2
    <3>2. QED
      BY <1>3, <1>6, <3>1
  <2>3. QED
    BY <2>1, <2>2
<1>9. QED
  BY <1>5, <1>8 DEF Strung, X, t

LEMMA BehindIsStrung ==
  ASSUME NEW items, IsSeq(items)
  PROVE  Strung(Behind(items), items, Len(items))
<1> DEFINE n == Len(items)
           lists == [k \in 1 .. n |-> <<Comma, Blank, items[k]>>]
           upTo == CHOOSE f : f = [i \in 1 .. n |-> IF i = 1 THEN lists[i] ELSE f[i - 1] \o lists[i]]
           T == {k \in 0 .. n : k > 0 => Strung(upTo[k], items, k)}
<1>1. n \in Nat
  BY SeqDomain
<1>2. PICK ls : ls = lists
  OBVIOUS
<1>3. Len(ls) = n /\ \A k \in 1 .. n : ls[k] = <<Comma, Blank, items[k]>>
  <2>1. DOMAIN ls = 1 .. n
    BY <1>2
  <2>2. ls \in Seq({ls[k] : k \in 1 .. n})
    BY <1>1, <1>2
  <2>3. QED
    BY <1>1, <1>2, <2>1, <2>2
<1>4. Behind(items) = FlattenSeq(ls)
  BY <1>2 DEF Behind
<1>5. Strung(<<>>, items, 0)
  BY DEF Strung
<1>6. CASE n = 0
  <2>1. FlattenSeq(ls) = ls /\ ls = <<>>
    BY <1>2, <1>3, <1>6 DEF FlattenSeq
  <2>2. QED
    BY <1>4, <1>5, <1>6, <2>1
<1>7. CASE n # 0
  <2>1. FlattenSeq(ls) = upTo[n]
    BY <1>2, <1>3, <1>7 DEF FlattenSeq
  <2>2. upTo = [i \in 1 .. n |-> IF i = 1 THEN lists[i] ELSE upTo[i - 1] \o lists[i]]
    <3> HIDE DEF n, lists
    <3>1. n \in 0 .. n
      BY <1>1
    <3>2. PICK f : JoinedUpTo(f, n, lists)
      BY <1>1, <3>1, JoinsExist
    <3>3. f = [i \in 1 .. n |-> IF i = 1 THEN lists[i] ELSE f[i - 1] \o lists[i]]
      BY <3>2 DEF JoinedUpTo
    <3>4. QED
      BY <3>3
  <2> HIDE DEF upTo
  <2>3. \A k \in 1 .. n : upTo[k] = IF k = 1 THEN ls[k] ELSE upTo[k - 1] \o ls[k]
    <3> HIDE DEF lists
    <3>1. \A k \in 1 .. n : upTo[k] = IF k = 1 THEN lists[k] ELSE upTo[k - 1] \o lists[k]
      BY <2>2
    <3>2. QED
      BY <1>2, <3>1
  <2> HIDE DEF lists, n
  <2>4. 0 \in T
    BY <1>1
  <2>5. ASSUME NEW k \in 1 .. n, k - 1 \in T PROVE k \in T
    <3>1. upTo[k] = (IF k = 1 THEN <<>> ELSE upTo[k - 1]) \o <<Comma, Blank, items[k]>>
      <4>1. ls[k] = <<Comma, Blank, items[k]>> /\ ls[k] = <<>> \o <<Comma, Blank, items[k]>>
        BY <1>3
      <4>2. QED
        BY <2>3, <4>1
    <3>2. Strung(IF k = 1 THEN <<>> ELSE upTo[k - 1], items, k - 1)
      <4>1. CASE k = 1
        BY <1>5, <4>1
      <4>2. CASE k # 1
        <5>1. k - 1 > 0
          BY <1>1, <4>2
        <5>2. QED
          BY <2>5, <4>2, <5>1
      <4>3. QED
        BY <4>1, <4>2
    <3>3. Strung(upTo[k], items, k)
      <4>1. k \in 1 .. Len(items)
        BY DEF n
      <4>2. QED
        BY <3>1, <3>2, <4>1, OneMoreStrung
    <3>4. k \in 0 .. n
      BY <1>1
    <3>5. QED
      BY <3>3, <3>4
  <2> HIDE DEF T
  <2>6. \A k \in 0 .. n : k \in T
    BY <1>1, <2>4, <2>5, CountedUp
  <2>7. Strung(upTo[n], items, n)
    <3>1. n \in 0 .. n /\ n > 0
      BY <1>1, <1>7
    <3>2. QED
      BY <2>6, <3>1 DEF T
  <2>8. QED
    BY <1>4, <2>1, <2>7 DEF n
<1>8. QED
  BY <1>6, <1>7


\* r is body with the items behind its last one.
Spliced(r, body, items, last) ==
    /\ last \in Items(body) /\ \A p \in Items(body) : p <= last
    /\ IsSeq(r) /\ Len(r) = Len(body) + 3 * Len(items)
    /\ \A p \in 1 .. last : r[p] = body[p]
    /\ \A j \in 1 .. Len(items) :
          r[last + 3 * j - 2] = Comma /\ r[last + 3 * j - 1] = Blank /\ r[last + 3 * j] = items[j]
    /\ \A p \in last + 1 .. Len(body) : r[p + 3 * Len(items)] = body[p]

LEMMA SeqOfSome ==
  ASSUME NEW S, NEW s \in Seq(S)
  PROVE  IsSeq(s) /\ Range(s) \subseteq S
<1>1. Len(s) \in Nat /\ DOMAIN s = 1 .. Len(s) /\ s = [p \in 1 .. Len(s) |-> s[p]]
  OBVIOUS
<1>2. \A p \in 1 .. Len(s) : s[p] \in Range(s)
  BY <1>1 DEF Range
<1>3. \A p \in 1 .. Len(s) : s[p] \in S
  OBVIOUS
<1>4. s \in [1 .. Len(s) -> Range(s)]
  BY <1>1, <1>2
<1>5. s \in Seq(Range(s))
  BY <1>1, <1>4
<1>6. QED
  BY <1>1, <1>3, <1>5 DEF IsSeq, Range

LEMMA InsertionSplices ==
  ASSUME NEW body, IsSeq(body), Items(body) # {}, NEW items, IsSeq(items)
  PROVE  Spliced(insertAll(body, items), body, items, Max(Items(body)))
<1> DEFINE n == Len(body)
           m == Len(items)
           mid == Behind(items)
<1>0. n \in Nat /\ m \in Nat /\ DOMAIN body = 1 .. n /\ Items(body) \in SUBSET (1 .. n)
  BY SeqDomain DEF Items
<1>1. PICK last : last = Max(Items(body))
  OBVIOUS
<1>2. last \in Items(body) /\ \A p \in Items(body) : p <= last
  <2> DEFINE I == Items(body)
  <2>1. I \in SUBSET (0 .. n) /\ I # {} /\ \A p \in I : p \in Nat
    BY <1>0
  <2> HIDE DEF I, n
  <2>2. Max(I) \in I /\ \A p \in I : Max(I) >= p
    BY <1>0, <2>1, MaxIsIn
  <2>3. \A p \in I : p <= Max(I)
    BY <2>1, <2>2
  <2>4. QED
    BY <1>1, <2>2, <2>3 DEF I
<1>3. last \in 1 .. n
  BY <1>0, <1>2
<1> DEFINE X == Range(body) \cup (Range(items) \cup {Comma, Blank})
           head == SubSeq(body, 1, last)
           tail == SubSeq(body, last + 1, n)
<1>4. insertAll(body, items) = (head \o mid) \o tail
  BY <1>1 DEF insertAll
<1>5. body \in Seq(Range(body))
  BY DEF IsSeq
<1>6. head \in Seq(Range(body)) /\ Len(head) = last /\ \A p \in 1 .. last : head[p] = body[p]
  BY <1>0, <1>3, <1>5
<1>7. tail \in Seq(Range(body)) /\ Len(tail) = n - last /\ \A p \in 1 .. n - last : tail[p] = body[last + p]
  <2> HIDE DEF n
  <2>1. last + 1 \in 1 .. n + 1 /\ last + 1 \in Nat
    BY <1>0, <1>3
  <2>2. \A p \in last + 1 .. n : body[p] \in Range(body)
    BY <1>0, <1>3 DEF Range
  <2>3. tail = [p \in 1 .. (1 + n) - (last + 1) |-> body[p + (last + 1) - 1]]
    BY <1>0, <1>3, <1>5
  <2>4. (1 + n) - (last + 1) = n - last /\ n - last \in Nat
    BY <1>0, <1>3
  <2> HIDE DEF tail
  <2>5. \A p \in 1 .. n - last : tail[p] = body[last + p] /\ last + p \in last + 1 .. n
    BY <1>0, <1>3, <2>3, <2>4
  <2>6. tail \in [1 .. n - last -> Range(body)]
    BY <2>2, <2>3, <2>4, <2>5
  <2>7. QED
    BY <2>4, <2>5, <2>6
<1>8. Strung(mid, items, m)
  BY BehindIsStrung
<1>9. mid \in Seq(Range(items) \cup {Comma, Blank}) /\ Len(mid) = 3 * m
  BY <1>8 DEF Strung
<1> HIDE DEF head, tail, mid, n, m
<1>10. head \in Seq(X) /\ mid \in Seq(X) /\ tail \in Seq(X)
  BY <1>6, <1>7, <1>9
<1> HIDE DEF X
<1>11. PICK s : s = head \o mid
  OBVIOUS
<1>12. s \in Seq(X) /\ Len(s) = Len(head) + Len(mid)
  BY <1>10, <1>11
<1>13. \A p \in 1 .. Len(head) : s[p] = head[p]
  BY <1>10, <1>11
<1>14. \A p \in 1 .. Len(mid) : s[Len(head) + p] = mid[p]
  BY <1>10, <1>11
<1>15. PICK r : r = s \o tail
  OBVIOUS
<1>16. r \in Seq(X) /\ Len(r) = Len(s) + Len(tail)
  <2>1. s \in Seq(X) /\ tail \in Seq(X)
    BY <1>10, <1>12
  <2>2. QED
    BY <1>15, <2>1
<1>17. \A p \in 1 .. Len(s) : r[p] = s[p]
  BY <1>10, <1>12, <1>15
<1>18. \A p \in 1 .. Len(tail) : r[Len(s) + p] = tail[p]
  BY <1>10, <1>12, <1>15
<1>19. \A p \in 1 .. last : r[p] = body[p]
  BY <1>0, <1>3, <1>6, <1>9, <1>12, <1>13, <1>17
<1>20. \A p \in 1 .. 3 * m : r[last + p] = mid[p]
  <2>1. ASSUME NEW p \in 1 .. 3 * m PROVE r[last + p] = mid[p]
    <3>1. last + p \in 1 .. Len(s) /\ s[last + p] = mid[p]
      BY <1>0, <1>3, <1>6, <1>9, <1>12, <1>14
    <3>2. QED
      BY <1>17, <3>1
  <2>2. QED
    BY <2>1
<1>21. ASSUME NEW j \in 1 .. m
       PROVE  r[last + 3 * j - 2] = Comma /\ r[last + 3 * j - 1] = Blank /\ r[last + 3 * j] = items[j]
  <2>1. 3 * j - 2 \in 1 .. 3 * m /\ 3 * j - 1 \in 1 .. 3 * m /\ 3 * j \in 1 .. 3 * m
    BY <1>0
  <2>2. last + 3 * j - 2 = last + (3 * j - 2) /\ last + 3 * j - 1 = last + (3 * j - 1)
    BY <1>0, <1>3
  <2>3. mid[3 * j - 2] = Comma /\ mid[3 * j - 1] = Blank /\ mid[3 * j] = items[j]
    BY <1>8 DEF Strung
  <2>4. QED
    BY <1>20, <2>1, <2>2, <2>3
<1>22. ASSUME NEW p \in last + 1 .. n PROVE r[p + 3 * m] = body[p]
  <2>1. p - last \in 1 .. Len(tail) /\ Len(s) + (p - last) = p + 3 * m /\ last + (p - last) = p
    BY <1>0, <1>3, <1>6, <1>7, <1>9, <1>12
  <2>2. tail[p - last] = body[p]
    BY <1>7, <2>1
  <2>3. QED
    BY <1>18, <2>1, <2>2
<1>23. Len(r) = n + 3 * m
  BY <1>0, <1>3, <1>6, <1>7, <1>9, <1>12, <1>16
<1>24. IsSeq(r)
  BY <1>16, SeqOfSome
<1>25. Spliced(r, body, items, last)
  BY <1>2, <1>19, <1>21, <1>22, <1>23, <1>24 DEF Spliced, n, m
<1>26. QED
  BY <1>1, <1>4, <1>11, <1>15, <1>25

\* A position of what was spliced is one of before, one in what is new, or one behind.
LEMMA SplicedPositions ==
  ASSUME NEW body, IsSeq(body), NEW items, IsSeq(items), NEW last, NEW r, Spliced(r, body, items, last),
         NEW p \in DOMAIN r
  PROVE  \/ p \in 1 .. last
         \/ \E j \in 1 .. Len(items) : p \in {last + 3 * j - 2, last + 3 * j - 1, last + 3 * j}
         \/ p - 3 * Len(items) \in last + 1 .. Len(body)
<1> DEFINE n == Len(body)
           m == Len(items)
<1>0. n \in Nat /\ m \in Nat /\ DOMAIN body = 1 .. n /\ last \in 1 .. n
  BY SeqDomain DEF Spliced, Items
<1>1. p \in 1 .. n + 3 * m
  BY SeqDomain DEF Spliced
<1>2. CASE p - last \in 1 .. 3 * m
  <2>1. Thirds(m)
    <3>1. m \in 0 .. m
      BY <1>0
    <3> HIDE DEF m
    <3>2. QED
      BY <1>0, <3>1, InThirds
  <2>2. PICK j \in 1 .. m : p - last \in {3 * j - 2, 3 * j - 1, 3 * j}
    BY <1>2, <2>1 DEF Thirds
  <2>3. p \in {last + 3 * j - 2, last + 3 * j - 1, last + 3 * j}
    BY <1>0, <1>1, <2>2
  <2>4. QED
    BY <2>3
<1>3. CASE p - last \notin 1 .. 3 * m
  BY <1>0, <1>1, <1>3
<1>4. QED
  BY <1>2, <1>3

LEMMA SplicedTokens ==
  ASSUME NEW body, IsTokens(body), NEW items, IsTokens(items), NEW last, NEW r, Spliced(r, body, items, last),
         \A j \in DOMAIN items : items[j].kind # "sep"
  PROVE  /\ IsTokens(r)
         /\ Items(r) = Items(body) \cup {last + 3 * j : j \in 1 .. Len(items)}
         /\ Alternates(body) => Alternates(r)
<1> DEFINE n == Len(body)
           m == Len(items)
           I == Items(body)
           C == Commas(body)
<1>0. /\ IsSeq(body) /\ IsSeq(items) /\ n \in Nat /\ m \in Nat /\ DOMAIN body = 1 .. n /\ DOMAIN items = 1 .. m
      /\ last \in 1 .. n /\ I \in SUBSET (1 .. last)
  <2>1. IsSeq(body) /\ IsSeq(items)
    BY DEF IsTokens
  <2>2. n \in Nat /\ m \in Nat /\ DOMAIN body = 1 .. n /\ DOMAIN items = 1 .. m
    BY <2>1, SeqDomain
  <2>3. last \in I /\ \A p \in I : p <= last
    BY DEF Spliced
  <2>4. I \subseteq 1 .. n
    BY <2>2 DEF Items
  <2>5. QED
    BY <2>1, <2>2, <2>3, <2>4
<1>1. IsSeq(r) /\ Len(r) = n + 3 * m /\ DOMAIN r = 1 .. n + 3 * m
  BY SeqDomain DEF Spliced
<1>2. \A p \in 1 .. last : r[p] = body[p]
  BY DEF Spliced
<1>3. \A j \in 1 .. m :
        r[last + 3 * j - 2] = Comma /\ r[last + 3 * j - 1] = Blank /\ r[last + 3 * j] = items[j]
  BY DEF Spliced
<1>4. \A p \in last + 1 .. n : r[p + 3 * m] = body[p] /\ body[p].kind = "sep"
  <2>1. \A p \in last + 1 .. n : p \notin I /\ p \in DOMAIN body
    BY <1>0
  <2>2. \A p \in last + 1 .. n : body[p].kind = "sep"
    BY <2>1 DEF Items
  <2>3. QED
    BY <2>2 DEF Spliced
<1>5. ASSUME NEW p \in DOMAIN r
      PROVE  \/ p \in 1 .. last
             \/ \E j \in 1 .. m : p \in {last + 3 * j - 2, last + 3 * j - 1, last + 3 * j}
             \/ p - 3 * m \in last + 1 .. n
  BY <1>0, SplicedPositions
<1>6. Comma.kind = "sep" /\ Blank.kind = "sep" /\ IsToken(Comma) /\ IsToken(Blank) /\ Comma # Blank
  BY DEF Comma, Blank, IsToken, Token
<1>7. IsTokens(r)
  <2>1. ASSUME NEW p \in DOMAIN r PROVE IsToken(r[p])
    <3>1. CASE p \in 1 .. last
      BY <1>0, <1>2, <3>1 DEF IsTokens
    <3>2. CASE \E j \in 1 .. m : p \in {last + 3 * j - 2, last + 3 * j - 1, last + 3 * j}
      <4>1. PICK j \in 1 .. m : p \in {last + 3 * j - 2, last + 3 * j - 1, last + 3 * j}
        BY <3>2
      <4>2. IsToken(items[j])
        BY <1>0 DEF IsTokens
      <4>3. QED
        BY <1>3, <1>6, <4>1, <4>2
    <3>3. CASE p - 3 * m \in last + 1 .. n
      <4>1. (p - 3 * m) + 3 * m = p /\ p - 3 * m \in DOMAIN body
        BY <1>0, <1>1, <3>3
      <4>2. r[p] = body[p - 3 * m]
        BY <1>4, <3>3, <4>1
      <4>3. QED
        BY <4>1, <4>2 DEF IsTokens
    <3>4. QED
      BY <1>5, <3>1, <3>2, <3>3
  <2>2. QED
    BY <1>1, <2>1 DEF IsTokens
<1> DEFINE J == I \cup {last + 3 * j : j \in 1 .. m}
           D == (C \cap (1 .. last)) \cup {last + 3 * j - 2 : j \in 1 .. m}
<1>8. Items(r) = J
  <2>1. ASSUME NEW p \in Items(r) PROVE p \in J
    <3>1. p \in DOMAIN r /\ r[p].kind # "sep"
      BY <2>1 DEF Items
    <3>2. CASE p \in 1 .. last
      BY <1>0, <1>2, <3>1, <3>2 DEF Items
    <3>3. CASE \E j \in 1 .. m : p \in {last + 3 * j - 2, last + 3 * j - 1, last + 3 * j}
      BY <1>3, <1>6, <3>1, <3>3
    <3>4. CASE p - 3 * m \in last + 1 .. n
      <4>1. (p - 3 * m) + 3 * m = p
        BY <1>0, <1>1, <3>1
      <4>2. QED
        BY <1>4, <3>1, <3>4, <4>1
    <3>5. QED
      BY <1>5, <3>1, <3>2, <3>3, <3>4
  <2>2. ASSUME NEW p \in I PROVE p \in Items(r)
    <3>1. p \in 1 .. last /\ p \in DOMAIN r /\ body[p].kind # "sep"
      BY <1>0, <1>1 DEF Items
    <3>2. QED
      BY <1>2, <3>1 DEF Items
  <2>3. ASSUME NEW j \in 1 .. m PROVE last + 3 * j \in Items(r)
    <3>1. last + 3 * j \in DOMAIN r
      BY <1>0, <1>1
    <3>2. QED
      BY <1>0, <1>3, <3>1 DEF Items
  <2>4. QED
    BY <2>1, <2>2, <2>3
<1>9. ASSUME Alternates(body) PROVE Alternates(r)
  <2>1. Alternating(I, C)
    BY <1>9 DEF Alternates
  <2>2. C \subseteq 1 .. n
    BY <1>0 DEF Commas
  <2>3. C \in SUBSET (1 .. last)
    <3>1. ASSUME NEW c \in C PROVE c \in 1 .. last
      <4>1. PICK q \in I : c < q
        BY <2>1 DEF Alternating
      <4>2. QED
        BY <1>0, <2>2, <4>1
    <3>2. QED
      BY <3>1
  <2>4. Commas(r) = D
    <3>1. ASSUME NEW p \in Commas(r) PROVE p \in D
      <4>1. p \in DOMAIN r /\ r[p] = Comma
        BY <3>1 DEF Commas
      <4>2. CASE p \in 1 .. last
        <5>1. p \in C
          BY <1>0, <1>2, <4>1, <4>2 DEF Commas
        <5>2. QED
          BY <4>2, <5>1
      <4>3. CASE \E j \in 1 .. m : p \in {last + 3 * j - 2, last + 3 * j - 1, last + 3 * j}
        <5>1. PICK j \in 1 .. m : p \in {last + 3 * j - 2, last + 3 * j - 1, last + 3 * j}
          BY <4>3
        <5>2. p # last + 3 * j - 1 /\ p # last + 3 * j
          <6>1. r[last + 3 * j - 1] = Blank /\ r[last + 3 * j] = items[j] /\ items[j].kind # "sep"
            BY <1>0, <1>3
          <6>2. QED
            BY <1>6, <4>1, <6>1
        <5>3. QED
          BY <5>1, <5>2
      <4>4. CASE p - 3 * m \in last + 1 .. n
        <5>1. (p - 3 * m) + 3 * m = p
          BY <1>0, <1>1, <4>1
        <5>2. p - 3 * m \in C
          BY <1>0, <1>4, <4>1, <4>4, <5>1 DEF Commas
        <5>3. QED
          BY <1>0, <2>3, <4>4, <5>2
      <4>5. QED
        BY <1>5, <4>1, <4>2, <4>3, <4>4
    <3>2. ASSUME NEW p \in C \cap (1 .. last) PROVE p \in Commas(r)
      BY <1>0, <1>1, <1>2 DEF Commas
    <3>3. ASSUME NEW j \in 1 .. m PROVE last + 3 * j - 2 \in Commas(r)
      <4>1. last + 3 * j - 2 \in DOMAIN r
        BY <1>0, <1>1
      <4>2. QED
        BY <1>3, <4>1 DEF Commas
    <3>4. QED
      BY <3>1, <3>2, <3>3
  <2> DEFINE JJ(k) == I \cup {last + 3 * j : j \in 1 .. k}
             DD(k) == C \cup {last + 3 * j - 2 : j \in 1 .. k}
             T == {k \in 0 .. m : Alternating(JJ(k), DD(k))}
  <2>5. 0 \in T
    <3>1. JJ(0) = I /\ DD(0) = C
      OBVIOUS
    <3> HIDE DEF JJ, DD
    <3>2. QED
      BY <1>0, <2>1, <3>1
  <2>6. ASSUME NEW k \in 1 .. m, k - 1 \in T PROVE k \in T
    <3>1. PICK l : l = last + 3 * (k - 1)
      OBVIOUS
    <3>2. l \in Nat /\ l >= last /\ l + 3 = last + 3 * k /\ l + 1 = last + 3 * k - 2
      BY <1>0, <3>1
    <3>3. JJ(k - 1) \in SUBSET (1 .. l) /\ DD(k - 1) \in SUBSET (1 .. l)
      <4>1. \A j \in 1 .. k - 1 : last + 3 * j \in 1 .. l /\ last + 3 * j - 2 \in 1 .. l
        BY <1>0, <3>1
      <4>2. 1 .. last \subseteq 1 .. l
        BY <1>0, <3>2
      <4>3. QED
        BY <1>0, <2>3, <4>1, <4>2
    <3>4. l \in JJ(k - 1)
      <4>1. CASE k = 1
        <5>1. l = last /\ last \in I
          BY <1>0, <3>1, <4>1 DEF Spliced
        <5>2. QED
          BY <5>1
      <4>2. CASE k # 1
        <5>1. k - 1 \in 1 .. k - 1
          BY <1>0, <4>2
        <5>2. QED
          BY <3>1, <5>1
      <4>3. QED
        BY <4>1, <4>2
    <3>5. JJ(k) = JJ(k - 1) \cup {l + 3} /\ DD(k) = DD(k - 1) \cup {l + 1}
      <4>1. 1 .. k = (1 .. k - 1) \cup {k}
        BY <1>0
      <4>2. QED
        BY <3>2, <4>1
    <3>6. Alternating(JJ(k - 1), DD(k - 1)) /\ k \in 0 .. m
      BY <1>0, <2>6
    <3> HIDE DEF JJ, DD
    <3>7. Alternating(JJ(k), DD(k))
      BY <3>2, <3>3, <3>4, <3>5, <3>6, OneMoreItem
    <3>8. QED
      BY <3>6, <3>7
  <2>7. \A k \in 0 .. m : k \in T
    <3> HIDE DEF T, m
    <3>1. QED
      BY <1>0, <2>5, <2>6, CountedUp
  <2>8. Alternating(JJ(m), DD(m))
    <3>1. m \in 0 .. m
      BY <1>0
    <3> HIDE DEF JJ, DD, m
    <3>2. QED
      BY <2>7, <3>1
  <2>9. JJ(m) = Items(r) /\ DD(m) = Commas(r)
    BY <1>8, <2>3, <2>4
  <2> HIDE DEF JJ, DD
  <2>10. QED
    BY <2>8, <2>9 DEF Alternates
<1>10. QED
  BY <1>7, <1>8, <1>9

\* What is kept of some tokens.
LEMMA KeptTokens ==
  ASSUME NEW body, IsTokens(body), NEW K \in SUBSET DOMAIN body
  PROVE  /\ IsTokens(Kept(body, K))
         /\ \A i \in DOMAIN Kept(body, K) : \E p \in K : Kept(body, K)[i] = body[p]
         /\ \A i \in Items(Kept(body, K)) : \E p \in Items(body) \cap K : Kept(body, K)[i] = body[p]
         /\ \A p \in Items(body) \cap K : \E i \in Items(Kept(body, K)) : Kept(body, K)[i] = body[p]
         /\ Alternating(Items(body) \cap K, Commas(body) \cap K) => Alternates(Kept(body, K))
<1>0. IsSeq(body) /\ Len(body) \in Nat /\ DOMAIN body = 1 .. Len(body)
  BY SeqDomain DEF IsTokens
<1>90. PICK n \in Nat : \E h : Ascending(h, n, K) /\ Kept(body, K) = [i \in 1 .. n |-> body[h[i]]]
  BY <1>0, KeptInOrder
<1>1. PICK h : Ascending(h, n, K) /\ Kept(body, K) = [i \in 1 .. n |-> body[h[i]]]
  BY <1>90
<1>2. PICK r : r = Kept(body, K)
  OBVIOUS
<1>3. \A i \in 1 .. n : h[i] \in K /\ h[i] \in DOMAIN body /\ r[i] = body[h[i]]
  <2>1. \A i \in 1 .. n : h[i] \in K
    BY <1>1 DEF Ascending
  <2>2. QED
    BY <1>1, <1>2, <2>1
<1>4. IsSeq(r) /\ DOMAIN r = 1 .. n
  <2>1. \A i \in 1 .. n : r[i] \in Range(body)
    BY <1>3 DEF Range
  <2>2. r = [i \in 1 .. n |-> r[i]]
    BY <1>1, <1>2
  <2>3. r \in Seq(Range(body))
    BY <2>1, <2>2
  <2>4. QED
    BY <2>2, <2>3, SeqOfSome
<1>5. IsTokens(r)
  BY <1>3, <1>4 DEF IsTokens
<1>6. Items(r) = {i \in 1 .. n : h[i] \in Items(body)}
  BY <1>3, <1>4 DEF Items
<1>7. Commas(r) = {i \in 1 .. n : h[i] \in Commas(body)}
  BY <1>3, <1>4 DEF Commas
<1>8. ASSUME NEW i \in Items(r) PROVE \E p \in Items(body) \cap K : r[i] = body[p]
  BY <1>3, <1>6
<1>9. ASSUME NEW p \in Items(body) \cap K PROVE \E i \in Items(r) : r[i] = body[p]
  <2>1. PICK i \in 1 .. n : h[i] = p
    BY <1>1 DEF Ascending
  <2>2. QED
    BY <1>3, <1>6, <2>1
<1>10. ASSUME Alternating(Items(body) \cap K, Commas(body) \cap K) PROVE Alternates(r)
  <2>1. K \in SUBSET (1 .. Len(body))
    BY <1>0
  <2>2. Alternating(Items(r), Commas(r))
    <3>1. PICK m, I, C : m = Len(body) /\ I = Items(body) /\ C = Commas(body)
      OBVIOUS
    <3>2. m \in Nat /\ K \in SUBSET (1 .. m) /\ Ascending(h, n, K) /\ Alternating(I \cap K, C \cap K)
      BY <1>0, <1>1, <1>10, <2>1, <3>1
    <3>3. PICK J \in SUBSET (1 .. n), D \in SUBSET (1 .. n) :
             /\ J = Items(r) /\ D = Commas(r)
             /\ \A i \in 1 .. n : i \in J <=> h[i] \in I
             /\ \A i \in 1 .. n : i \in D <=> h[i] \in C
      BY <1>6, <1>7, <3>1
    <3>4. Alternating(J, D)
      BY <3>2, <3>3, CountedAlternate
    <3>5. QED
      BY <3>3, <3>4
  <2>3. QED
    BY <2>2 DEF Alternates
<1>11. \A i \in DOMAIN r : \E p \in K : r[i] = body[p]
  BY <1>3, <1>4
<1>12. QED
  BY <1>2, <1>5, <1>8, <1>9, <1>10, <1>11

\* Deletion leaves the other items, and leaves a list a list.
LEMMA DeletedTokens ==
  ASSUME NEW body, IsTokens(body), NEW P \in SUBSET Items(body)
  PROVE  /\ IsTokens(deleteAll(body, P))
         /\ \A i \in Items(deleteAll(body, P)) : \E p \in Items(body) \ P : deleteAll(body, P)[i] = body[p]
         /\ \A p \in Items(body) \ P : \E i \in Items(deleteAll(body, P)) : deleteAll(body, P)[i] = body[p]
         /\ Alternates(body) => Alternates(deleteAll(body, P))
<1> DEFINE K == DOMAIN body \ removalSpans(body, P)
<1>1. deleteAll(body, P) = Kept(body, K)
  BY DEF deleteAll
<1>2. IsSeq(body)
  BY DEF IsTokens
<1>3. Items(body) \cap K = Items(body) \ P
  BY <1>2, SpansTakeTheirItems DEF Items
<1>4. K \in SUBSET DOMAIN body
  OBVIOUS
<1>5. Alternates(body) => Alternating(Items(body) \cap K, Commas(body) \cap K)
  BY <1>2, SpansLeaveAlternating
<1> HIDE DEF K
<1>6. /\ IsTokens(Kept(body, K))
      /\ \A i \in Items(Kept(body, K)) : \E p \in Items(body) \cap K : Kept(body, K)[i] = body[p]
      /\ \A p \in Items(body) \cap K : \E i \in Items(Kept(body, K)) : Kept(body, K)[i] = body[p]
      /\ Alternating(Items(body) \cap K, Commas(body) \cap K) => Alternates(Kept(body, K))
  BY <1>4, KeptTokens
<1>7. QED
  BY <1>1, <1>3, <1>5, <1>6

\* Into an empty container the items go first.
LEMMA InsertedFirst ==
  ASSUME NEW body, IsTokens(body), Items(body) = {}, NEW items, IsTokens(items),
         \A j \in DOMAIN items : items[j].kind # "sep"
  PROVE  LET r == insertAll(body, items)
         IN  /\ IsTokens(r) /\ Items(r) = DOMAIN items
             /\ Len(r) = Len(items) + Len(body)
             /\ \A j \in DOMAIN items : r[j] = items[j]
             /\ \A p \in DOMAIN body : r[Len(items) + p] = body[p]
             /\ Alternates(body) /\ Len(items) = 1 => Alternates(r)
<1> DEFINE n == Len(body)
           m == Len(items)
           X == Range(items) \cup Range(body)
<1>0. /\ IsSeq(body) /\ n \in Nat /\ DOMAIN body = 1 .. n
      /\ IsSeq(items) /\ m \in Nat /\ DOMAIN items = 1 .. m
  BY SeqDomain DEF IsTokens
<1>1. PICK r : r = items \o body
  OBVIOUS
<1>2. insertAll(body, items) = r
  BY <1>1 DEF insertAll
<1>3. items \in Seq(X) /\ body \in Seq(X)
  BY <1>0 DEF IsSeq
<1> HIDE DEF X
<1>4. r \in Seq(X) /\ Len(r) = m + n
  BY <1>1, <1>3
<1>5. \A j \in 1 .. m : r[j] = items[j]
  BY <1>1, <1>3
<1>6. \A p \in 1 .. n : r[m + p] = body[p]
  BY <1>1, <1>3
<1>7. IsSeq(r) /\ DOMAIN r = 1 .. m + n
  BY <1>4, SeqOfSome
<1>8. ASSUME NEW p \in DOMAIN r, p \notin 1 .. m PROVE p - m \in 1 .. n /\ r[p] = body[p - m]
  <2>1. p - m \in 1 .. n /\ m + (p - m) = p
    BY <1>0, <1>7, <1>8
  <2>2. QED
    BY <1>6, <2>1
<1>9. IsTokens(r)
  <2>1. ASSUME NEW p \in DOMAIN r PROVE IsToken(r[p])
    <3>1. CASE p \in 1 .. m
      BY <1>0, <1>5, <3>1 DEF IsTokens
    <3>2. CASE p \notin 1 .. m
      BY <1>0, <1>8, <3>2 DEF IsTokens
    <3>3. QED
      BY <3>1, <3>2
  <2>2. QED
    BY <1>7, <2>1 DEF IsTokens
<1>10. \A p \in 1 .. n : body[p].kind = "sep"
  BY <1>0 DEF Items
<1>11. Items(r) = 1 .. m
  <2>1. ASSUME NEW p \in Items(r) PROVE p \in 1 .. m
    <3>1. p \in DOMAIN r /\ r[p].kind # "sep"
      BY DEF Items
    <3>2. QED
      BY <1>8, <1>10, <3>1
  <2>2. ASSUME NEW p \in 1 .. m PROVE p \in Items(r)
    <3>1. p \in DOMAIN r /\ items[p].kind # "sep"
      BY <1>0, <1>7
    <3>2. QED
      BY <1>5, <3>1 DEF Items
  <2>3. QED
    BY <2>1, <2>2
<1>12. ASSUME Alternates(body), m = 1 PROVE Alternates(r)
  <2>1. Commas(body) = {}
    BY <1>12 DEF Alternates, Alternating
  <2>2. Commas(r) = {}
    <3>1. SUFFICES ASSUME NEW p \in DOMAIN r, r[p] = Comma PROVE FALSE
      BY DEF Commas
    <3>2. p \notin 1 .. m
      <4>1. Comma.kind = "sep"
        BY DEF Comma, Token
      <4>2. QED
        BY <1>0, <1>5, <3>1, <4>1
    <3>3. p - m \in DOMAIN body /\ body[p - m] = Comma
      BY <1>0, <1>8, <3>1, <3>2
    <3>4. QED
      BY <2>1, <3>3 DEF Commas
  <2>3. Items(r) = {1}
    BY <1>11, <1>12
  <2>4. QED
    BY <2>2, <2>3 DEF Alternates, Alternating
<1>13. QED
  BY <1>0, <1>2, <1>4, <1>5, <1>6, <1>9, <1>11, <1>12

\* Insertion leaves what there was and adds the items.
LEMMA InsertedTokens ==
  ASSUME NEW body, IsTokens(body), NEW items, IsTokens(items),
         \A j \in DOMAIN items : items[j].kind # "sep"
  PROVE  LET r == insertAll(body, items)
         IN  /\ IsTokens(r)
             /\ \A p \in Items(r) : \/ \E q \in Items(body) : r[p] = body[q]
                                    \/ \E j \in DOMAIN items : r[p] = items[j]
             /\ \A q \in Items(body) : \E p \in Items(r) : r[p] = body[q]
             /\ \A j \in DOMAIN items : \E p \in Items(r) : r[p] = items[j]
             /\ Alternates(body) /\ (Items(body) = {} => Len(items) = 1) => Alternates(r)
<1>1. PICK r : r = insertAll(body, items)
  OBVIOUS
<1>2. CASE Items(body) = {}
  <2>1. /\ IsTokens(r) /\ Items(r) = DOMAIN items
        /\ \A j \in DOMAIN items : r[j] = items[j]
        /\ Alternates(body) /\ Len(items) = 1 => Alternates(r)
    BY <1>1, <1>2, InsertedFirst
  <2>2. QED
    BY <1>1, <1>2, <2>1
<1>3. CASE Items(body) # {}
  <2>0. IsSeq(body) /\ IsSeq(items) /\ DOMAIN items = 1 .. Len(items)
    BY SeqDomain DEF IsTokens
  <2>1. PICK last : Spliced(r, body, items, last)
    BY <1>1, <1>3, <2>0, InsertionSplices
  <2>2. /\ IsTokens(r)
        /\ Items(r) = Items(body) \cup {last + 3 * j : j \in 1 .. Len(items)}
        /\ Alternates(body) => Alternates(r)
    BY <2>1, SplicedTokens
  <2>3. \A q \in Items(body) : r[q] = body[q]
    <3>1. \A q \in Items(body) : q \in 1 .. last
      <4>1. Len(body) \in Nat /\ DOMAIN body = 1 .. Len(body)
        BY <2>0, SeqDomain
      <4>2. last \in Items(body) /\ \A p \in Items(body) : p <= last
        BY <2>1 DEF Spliced
      <4>3. \A q \in Items(body) : q \in 1 .. Len(body)
        BY <4>1 DEF Items
      <4>4. QED
        BY <4>2, <4>3
    <3>2. QED
      BY <2>1, <3>1 DEF Spliced
  <2>4. \A j \in 1 .. Len(items) : r[last + 3 * j] = items[j]
    BY <2>1 DEF Spliced
  <2>5. QED
    BY <1>1, <1>3, <2>0, <2>2, <2>3, <2>4
<1>4. QED
  BY <1>2, <1>3

\* The same tokens, of which some items may have another body.
Refilled(r, body) ==
    /\ r = [p \in DOMAIN body |-> r[p]]
    /\ \A p \in DOMAIN body : r[p] = Token(body[p].key, body[p].kind, r[p].body)
    /\ \A p \in DOMAIN body : p \notin Items(body) => r[p] = body[p]

LEMMA RefilledTokens ==
  ASSUME NEW body, IsTokens(body), NEW r, Refilled(r, body)
  PROVE  /\ IsTokens(r) /\ DOMAIN r = DOMAIN body
         /\ Items(r) = Items(body) /\ Commas(r) = Commas(body)
         /\ \A p \in DOMAIN body : r[p].key = body[p].key /\ r[p].kind = body[p].kind
         /\ \A key : Member(r, key) = Member(body, key)
         /\ Alternates(body) => Alternates(r)
<1>0. IsSeq(body) /\ Len(body) \in Nat /\ DOMAIN body = 1 .. Len(body)
  BY SeqDomain DEF IsTokens
<1>1. r = [p \in 1 .. Len(body) |-> r[p]] /\ DOMAIN r = DOMAIN body
  BY <1>0 DEF Refilled
<1>2. r \in Seq({r[p] : p \in 1 .. Len(body)})
  BY <1>0, <1>1
<1>3. IsSeq(r)
  BY <1>2, SeqOfSome
<1>4. \A p \in DOMAIN body : r[p].key = body[p].key /\ r[p].kind = body[p].kind /\ IsToken(r[p])
  <2>1. \A p \in DOMAIN body : r[p] = Token(body[p].key, body[p].kind, r[p].body)
    BY DEF Refilled
  <2>2. \A k, l, b : Token(k, l, b).key = k /\ Token(k, l, b).kind = l /\ IsToken(Token(k, l, b))
    BY DEF Token, IsToken
  <2>3. QED
    BY <2>1, <2>2
<1>5. IsTokens(r)
  BY <1>1, <1>3, <1>4 DEF IsTokens
<1>6. Items(r) = Items(body)
  BY <1>1, <1>4 DEF Items
<1>7. Commas(r) = Commas(body)
  <2>1. ASSUME NEW p \in DOMAIN body PROVE r[p] = Comma <=> body[p] = Comma
    <3>1. CASE p \in Items(body)
      <4>1. body[p].kind # "sep" /\ r[p].kind # "sep"
        BY <1>4, <3>1 DEF Items
      <4>2. Comma.kind = "sep"
        BY DEF Comma, Token
      <4>3. QED
        BY <4>1, <4>2
    <3>2. CASE p \notin Items(body)
      BY <3>2 DEF Refilled
    <3>3. QED
      BY <3>1, <3>2
  <2>2. QED
    BY <1>1, <2>1 DEF Commas
<1>8. ASSUME NEW key PROVE Member(r, key) = Member(body, key)
  <2>1. \A p \in Items(body) : r[p].key = body[p].key
    BY <1>4 DEF Items
  <2>2. {p \in Items(r) : r[p].key = key} = {p \in Items(body) : body[p].key = key}
    BY <1>6, <2>1
  <2>3. QED
    BY <2>2 DEF Member
<1>9. Alternates(body) => Alternates(r)
  BY <1>6, <1>7 DEF Alternates
<1>10. QED
  BY <1>1, <1>4, <1>5, <1>6, <1>7, <1>8, <1>9

\* Which member a key stands for.
LEMMA MemberIsLast ==
  ASSUME NEW body, IsTokens(body), NEW key
  PROVE  /\ Member(body, key) = 0 <=> \A p \in Items(body) : body[p].key # key
         /\ Member(body, key) # 0 =>
               /\ Member(body, key) \in Items(body) /\ body[Member(body, key)].key = key
               /\ \A p \in Items(body) : body[p].key = key => p <= Member(body, key)
<1> DEFINE found == {p \in Items(body) : body[p].key = key}
           n == Len(body)
<1>0. n \in Nat /\ Items(body) \in SUBSET (1 .. n)
  BY SeqDomain DEF IsTokens, Items
<1>1. CASE found = {}
  BY <1>1 DEF Member
<1>2. CASE found # {}
  <2>1. found \in SUBSET (0 .. n) /\ \A p \in found : p \in Nat /\ p >= 1
    BY <1>0
  <2>2. Member(body, key) = Max(found)
    BY <1>2 DEF Member
  <2> HIDE DEF found, n
  <2>3. Max(found) \in found /\ \A p \in found : Max(found) >= p
    BY <1>0, <1>2, <2>1, MaxIsIn
  <2>4. Max(found) # 0 /\ \A p \in found : p <= Max(found)
    BY <2>1, <2>3
  <2>5. QED
    BY <2>2, <2>3, <2>4 DEF found
<1>3. QED
  BY <1>1, <1>2

\* A list of one item.
LEMMA OneItem ==
  ASSUME NEW t, IsToken(t), t.kind # "sep"
  PROVE  IsTokens(<<t>>) /\ Items(<<t>>) = {1} /\ <<t>>[1] = t /\ Alternates(<<t>>)
<1>1. <<t>> \in Seq({t}) /\ Len(<<t>>) = 1 /\ DOMAIN <<t>> = {1} /\ <<t>>[1] = t
  OBVIOUS
<1>2. IsTokens(<<t>>)
  BY <1>1, SeqOfSome DEF IsTokens
<1>3. Items(<<t>>) = {1}
  BY <1>1 DEF Items
<1>4. Commas(<<t>>) = {}
  <2>1. Comma.kind = "sep"
    BY DEF Comma, Token
  <2>2. QED
    BY <1>1, <2>1 DEF Commas
<1>5. Alternates(<<t>>)
  BY <1>3, <1>4 DEF Alternates, Alternating
<1>6. QED
  BY <1>1, <1>2, <1>3, <1>5

LEMMA EntriesAreTokens ==
  ASSUME NEW commands
  PROVE  IsToken(Entry(commands)) /\ Entry(commands).kind # "sep" /\ Entry(commands).body = commands
BY DEF IsToken, Entry, Token

\* Dira's own entry, and the member of an event with it alone.
LEMMA OwnEntry ==
  /\ IsTokens(<<Entry(<<Dira>>)>>) /\ Alternates(<<Entry(<<Dira>>)>>) /\ Len(<<Entry(<<Dira>>)>>) = 1
  /\ \A j \in DOMAIN <<Entry(<<Dira>>)>> : <<Entry(<<Dira>>)>>[j] = Entry(<<Dira>>)
  /\ Entry(<<Dira>>).kind # "sep" /\ Dira \in ToSet(Entry(<<Dira>>).body)
  /\ AnyOwned(<<Entry(<<Dira>>)>>)
<1>1. PICK e : e = Entry(<<Dira>>)
  OBVIOUS
<1>2. IsToken(e) /\ e.kind # "sep" /\ e.body = <<Dira>>
  BY <1>1, EntriesAreTokens
<1>3. IsTokens(<<e>>) /\ Items(<<e>>) = {1} /\ <<e>>[1] = e /\ Alternates(<<e>>)
  BY <1>2, OneItem
<1>4. Dira \in ToSet(e.body)
  <2>1. 1 \in DOMAIN <<Dira>> /\ <<Dira>>[1] = Dira
    OBVIOUS
  <2>2. QED
    BY <1>2, <2>1 DEF ToSet
<1>5. AnyOwned(<<e>>)
  BY <1>3, <1>4 DEF AnyOwned
<1>6. DOMAIN <<e>> = {1} /\ Len(<<e>>) = 1
  OBVIOUS
<1>7. QED
  BY <1>1, <1>2, <1>3, <1>4, <1>5, <1>6

LEMMA EventTokens ==
  /\ Len(Events) \in Nat /\ Len(Events) > 0 /\ DOMAIN Events = 1 .. Len(Events)
  /\ DOMAIN AllEvents = DOMAIN Events /\ Len(AllEvents) = Len(Events) /\ IsTokens(AllEvents)
  /\ Items(AllEvents) = DOMAIN AllEvents
  /\ \A k \in DOMAIN AllEvents :
        /\ AllEvents[k] = eventArray(Events[k])
        /\ AllEvents[k].key = Events[k] /\ AllEvents[k].kind = "array"
        /\ AllEvents[k].body = <<Entry(<<Dira>>)>>
        /\ AnyOwned(AllEvents[k].body) /\ \A strict : IsEvent(strict, AllEvents[k])
<1>1. Len(Events) \in Nat /\ Len(Events) > 0 /\ DOMAIN Events = 1 .. Len(Events)
  BY EventsAssumption
<1>2. PICK n : n = Len(Events)
  OBVIOUS
<1>3. AllEvents = [k \in 1 .. n |-> eventArray(Events[k])]
  BY <1>2 DEF AllEvents
<1>4. AllEvents \in Seq({eventArray(Events[k]) : k \in 1 .. n}) /\ Len(AllEvents) = n /\ DOMAIN AllEvents = 1 .. n
  BY <1>1, <1>2, <1>3
<1>5. ASSUME NEW k \in 1 .. n
      PROVE  /\ AllEvents[k] = eventArray(Events[k])
             /\ AllEvents[k].key = Events[k] /\ AllEvents[k].kind = "array"
             /\ AllEvents[k].body = <<Entry(<<Dira>>)>> /\ IsToken(AllEvents[k])
  BY <1>3 DEF eventArray, Token, IsToken
<1>6. IsTokens(AllEvents)
  BY <1>4, <1>5, SeqOfSome DEF IsTokens
<1>7. Items(AllEvents) = DOMAIN AllEvents
  BY <1>4, <1>5 DEF Items
<1>8. ASSUME NEW k \in 1 .. n PROVE AnyOwned(AllEvents[k].body) /\ \A strict : IsEvent(strict, AllEvents[k])
  BY <1>5, OwnEntry DEF IsEvent
<1>9. QED
  BY <1>1, <1>2, <1>4, <1>5, <1>6, <1>7, <1>8

\* A command of dira's under every event.
InForce(hooks) ==
    \A k \in DOMAIN Events :
        Member(hooks, Events[k]) # 0 /\ AnyOwned(hooks[Member(hooks, Events[k])].body)

LEMMA ForceFromMembers ==
  ASSUME NEW hooks, IsTokens(hooks),
         \A k \in DOMAIN Events : \E p \in Items(hooks) : hooks[p].key = Events[k],
         \A k \in DOMAIN Events : \A p \in Items(hooks) : hooks[p].key = Events[k] => AnyOwned(hooks[p].body)
  PROVE  InForce(hooks)
<1>1. ASSUME NEW k \in DOMAIN Events
      PROVE  Member(hooks, Events[k]) # 0 /\ AnyOwned(hooks[Member(hooks, Events[k])].body)
  <2>1. Member(hooks, Events[k]) # 0
    BY MemberIsLast
  <2>2. PICK p : p = Member(hooks, Events[k])
    OBVIOUS
  <2>3. p \in Items(hooks) /\ hooks[p].key = Events[k]
    BY <2>1, <2>2, MemberIsLast
  <2>4. QED
    BY <2>1, <2>2, <2>3
<1>2. QED
  BY <1>1 DEF InForce

\* What is written where there is no file.
LEMMA FreshHooks ==
  /\ hooksMember.key = "hooks" /\ hooksMember.kind = "object" /\ IsToken(hooksMember)
  /\ \A strict : IsHooksBody(strict, hooksMember.body)
  /\ InForce(hooksMember.body)
  /\ \A k \in DOMAIN Events : \E p \in Items(hooksMember.body) : hooksMember.body[p] = AllEvents[k]
  /\ \A p \in Items(hooksMember.body) : \E k \in DOMAIN Events : hooksMember.body[p] = AllEvents[k]
  /\ \A p, q \in Items(hooksMember.body) : hooksMember.body[p].key = hooksMember.body[q].key => p = q
<1> DEFINE n == Len(Events)
<1>0. n \in Nat /\ n > 0 /\ DOMAIN Events = 1 .. n
  BY EventTokens
<1>1. PICK all : all = AllEvents
  OBVIOUS
<1>2. PICK first, rest : first = Head(all) /\ rest = Tail(all)
  OBVIOUS
<1>3. /\ all \in Seq(Range(all)) /\ Len(all) = n /\ DOMAIN all = 1 .. n
      /\ \A k \in 1 .. n : IsToken(all[k]) /\ all[k].kind = "array"
  BY <1>0, <1>1, EventTokens DEF IsTokens, IsSeq
<1>4. /\ first = all[1] /\ rest \in Seq(Range(all)) /\ Len(rest) = n - 1 /\ DOMAIN rest = 1 .. n - 1
      /\ \A k \in 1 .. n - 1 : rest[k] = all[k + 1]
  <2> HIDE DEF n
  <2>1. first = all[1]
    BY <1>0, <1>2, <1>3
  <2>2. all # <<>>
    BY <1>0, <1>3
  <2>3. rest \in Seq(Range(all)) /\ Len(rest) = n - 1
    BY <1>0, <1>2, <1>3, <2>2
  <2>4. \A k \in 1 .. n - 1 : rest[k] = all[k + 1]
    BY <1>0, <1>2, <1>3, <2>2
  <2>5. DOMAIN rest = 1 .. n - 1
    BY <2>3
  <2>6. QED
    BY <2>1, <2>3, <2>4, <2>5
<1>5. IsTokens(rest) /\ \A j \in DOMAIN rest : rest[j].kind # "sep"
  <2>1. \A k \in 1 .. n - 1 : k + 1 \in 1 .. n
    BY <1>0
  <2>2. \A k \in 1 .. n - 1 : IsToken(rest[k]) /\ rest[k].kind = "array"
    BY <1>3, <1>4, <2>1
  <2>3. QED
    BY <1>4, <2>2, SeqOfSome DEF IsTokens
<1> DEFINE base == <<Blank, first, Blank>>
<1>6. IsToken(first) /\ first.kind = "array" /\ first \in Range(all)
  BY <1>0, <1>3, <1>4 DEF Range
<1>7. Blank.kind = "sep" /\ IsToken(Blank) /\ Blank # Comma
  BY DEF Blank, Comma, Token, IsToken
<1>8. /\ base \in Seq({Blank, first}) /\ Len(base) = 3 /\ DOMAIN base = 1 .. 3
      /\ base[1] = Blank /\ base[2] = first /\ base[3] = Blank
  OBVIOUS
<1>9. IsTokens(base) /\ Items(base) = {2} /\ Alternates(base)
  <2> HIDE DEF base
  <2>1. 1 .. 3 = {1, 2, 3}
    OBVIOUS
  <2>2. IsTokens(base)
    BY <1>6, <1>7, <1>8, <2>1, SeqOfSome DEF IsTokens
  <2>3. Items(base) = {2}
    BY <1>6, <1>7, <1>8, <2>1 DEF Items
  <2>4. first # Comma
    <3>1. Comma.kind = "sep"
      BY DEF Comma, Token
    <3>2. QED
      BY <1>6, <3>1
  <2>5. Commas(base) = {}
    BY <1>7, <1>8, <2>1, <2>4 DEF Commas
  <2>6. QED
    BY <2>2, <2>3, <2>5 DEF Alternates, Alternating
<1>10. Max({2}) = 2
  <2>1. \A x \in {2} : (\A y \in {2} : x >= y) <=> x = 2
    OBVIOUS
  <2>2. QED
    BY <2>1 DEF Max
<1>11. hooksMember.body = insertAll(base, rest)
  <2>1. insertAll(base, rest) = SubSeq(base, 1, 2) \o Behind(rest) \o SubSeq(base, 2 + 1, Len(base))
    <3> HIDE DEF base
    <3>1. QED
      BY <1>9, <1>10 DEF insertAll
  <2>2. SubSeq(base, 1, 2) = <<Blank, first>> /\ SubSeq(base, 2 + 1, Len(base)) = <<Blank>>
    <3>1. PICK b : b = base
      OBVIOUS
    <3>2. b \in Seq({Blank, first}) /\ Len(b) = 3 /\ b[1] = Blank /\ b[2] = first /\ b[3] = Blank
      BY <1>8, <3>1
    <3>3. PICK s, t : s = SubSeq(b, 1, 2) /\ t = SubSeq(b, 3, 3)
      OBVIOUS
    <3>4. s \in Seq({Blank, first}) /\ Len(s) = 2 /\ s[1] = b[1] /\ s[2] = b[2]
      BY <3>2, <3>3
    <3>5. t \in Seq({Blank, first}) /\ Len(t) = 1 /\ t[1] = b[3]
      BY <3>2, <3>3
    <3>6. s = <<Blank, first>>
      BY <3>2, <3>4
    <3>7. t = <<Blank>>
      BY <3>2, <3>5
    <3> HIDE DEF base
    <3>8. 2 + 1 = 3 /\ Len(base) = 3
      BY <3>1, <3>2
    <3>9. QED
      BY <3>1, <3>3, <3>6, <3>7, <3>8
  <2>3. hooksMember.body = <<Blank, first>> \o Behind(rest) \o <<Blank>>
    BY <1>1, <1>2 DEF hooksMember, Token
  <2>4. QED
    BY <2>1, <2>2, <2>3
<1>12. PICK r : r = insertAll(base, rest)
  OBVIOUS
<1>13. /\ IsTokens(r)
       /\ \A p \in Items(r) : \/ \E q \in Items(base) : r[p] = base[q]
                              \/ \E j \in DOMAIN rest : r[p] = rest[j]
       /\ \A q \in Items(base) : \E p \in Items(r) : r[p] = base[q]
       /\ \A j \in DOMAIN rest : \E p \in Items(r) : r[p] = rest[j]
       /\ Alternates(r)
  <2> HIDE DEF base
  <2>1. Items(base) # {}
    BY <1>9
  <2>2. QED
    BY <1>5, <1>9, <1>12, <2>1, InsertedTokens
<1> HIDE DEF base, n
<1>14. ASSUME NEW p \in Items(r) PROVE \E k \in 1 .. n : r[p] = all[k]
  <2>1. CASE \E q \in Items(base) : r[p] = base[q]
    <3>1. 1 \in 1 .. n
      BY <1>0
    <3>2. QED
      BY <1>4, <1>8, <1>9, <2>1, <3>1
  <2>2. CASE \E j \in DOMAIN rest : r[p] = rest[j]
    <3>1. \A k \in 1 .. n - 1 : k + 1 \in 1 .. n
      BY <1>0
    <3>2. QED
      BY <1>4, <2>2, <3>1
  <2>3. QED
    BY <1>13, <2>1, <2>2
<1>15. ASSUME NEW k \in 1 .. n PROVE \E p \in Items(r) : r[p] = all[k]
  <2>1. CASE k = 1
    BY <1>4, <1>8, <1>9, <1>13, <2>1
  <2>2. CASE k # 1
    <3>1. k - 1 \in 1 .. n - 1 /\ (k - 1) + 1 = k
      BY <1>0, <2>2
    <3>2. rest[k - 1] = all[k]
      BY <1>4, <3>1
    <3>3. QED
      BY <1>4, <1>13, <3>1, <3>2
  <2>3. QED
    BY <2>1, <2>2
<1>16. ASSUME NEW strict PROVE IsHooksBody(strict, r)
  <2>1. \A q \in Items(r) : IsEvent(strict, r[q])
    BY <1>0, <1>1, <1>14, EventTokens
  <2>2. Items(r) # {}
    <3>1. 1 \in 1 .. n
      BY <1>0
    <3>2. QED
      BY <1>15, <3>1
  <2>3. QED
    BY <1>13, <2>1, <2>2 DEF IsHooksBody
<1>17. InForce(r)
  <2>1. \A k \in DOMAIN Events : \E p \in Items(r) : r[p].key = Events[k]
    BY <1>0, <1>1, <1>15, EventTokens
  <2>2. \A p \in Items(r) : AnyOwned(r[p].body)
    BY <1>0, <1>1, <1>14, EventTokens
  <2>3. QED
    BY <1>13, <2>1, <2>2, ForceFromMembers
<1>18. hooksMember.key = "hooks" /\ hooksMember.kind = "object" /\ IsToken(hooksMember)
  BY DEF hooksMember, Token, IsToken
<1>19. hooksMember.body = r
  BY <1>11, <1>12
<1>20. /\ \A k \in DOMAIN Events : \E p \in Items(r) : r[p] = AllEvents[k]
       /\ \A p \in Items(r) : \E k \in DOMAIN Events : r[p] = AllEvents[k]
  BY <1>0, <1>1, <1>14, <1>15
<1>21. ASSUME NEW p \in Items(r) PROVE \E k \in 1 .. n : p = 3 * k - 1 /\ r[p] = all[k]
  <2>1. Spliced(r, base, rest, 2)
    <3>1. IsSeq(base) /\ IsSeq(rest) /\ Items(base) # {}
      BY <1>5, <1>9 DEF IsTokens
    <3>2. Max(Items(base)) = 2
      BY <1>9, <1>10
    <3>3. QED
      BY <1>12, <3>1, <3>2, InsertionSplices
  <2>2. Items(r) = Items(base) \cup {2 + 3 * j : j \in 1 .. Len(rest)}
    BY <1>5, <1>9, <2>1, SplicedTokens
  <2>3. CASE p = 2
    <3>1. 2 \in 1 .. 2 /\ 1 \in 1 .. n /\ 2 = 3 * 1 - 1
      BY <1>0
    <3>2. r[2] = all[1]
      BY <1>4, <1>8, <2>1, <3>1 DEF Spliced
    <3>3. QED
      BY <2>3, <3>1, <3>2
  <2>4. CASE p # 2
    <3>1. PICK j \in 1 .. n - 1 : p = 2 + 3 * j
      BY <1>4, <1>9, <2>2, <2>4
    <3>2. j + 1 \in 1 .. n /\ p = 3 * (j + 1) - 1
      BY <1>0, <3>1
    <3>3. r[2 + 3 * j] = rest[j]
      BY <1>4, <2>1 DEF Spliced
    <3>4. QED
      BY <1>4, <3>1, <3>2, <3>3
  <2>5. QED
    BY <2>3, <2>4
<1>22. ASSUME NEW p \in Items(r), NEW q \in Items(r), r[p].key = r[q].key PROVE p = q
  <2>1. PICK k \in 1 .. n : p = 3 * k - 1 /\ r[p] = all[k]
    BY <1>21
  <2>2. PICK l \in 1 .. n : q = 3 * l - 1 /\ r[q] = all[l]
    BY <1>21
  <2>3. all[k].key = Events[k] /\ all[l].key = Events[l]
    BY <1>0, <1>1, EventTokens
  <2>4. Events[k] = Events[l]
    BY <1>22, <2>1, <2>2, <2>3
  <2>5. k = l
    BY <1>0, <2>4, EventsAssumption DEF IsInjective
  <2>6. QED
    BY <2>1, <2>2, <2>5
<1>23. QED
  BY <1>16, <1>17, <1>18, <1>19, <1>20, <1>22

\* The tokens of a file have all their fields.
LEMMA TokenFields ==
  ASSUME NEW t, IsToken(t), NEW b
  PROVE  [t EXCEPT !.body = b] = Token(t.key, t.kind, b)
<1>1. PICK k, l, c : k = t.key /\ l = t.kind /\ c = t.body
  OBVIOUS
<1>2. t = [key |-> k, kind |-> l, body |-> c]
  BY <1>1 DEF IsToken, Token
<1>3. [t EXCEPT !.body = b] = [key |-> k, kind |-> l, body |-> b]
  BY <1>2
<1>4. QED
  BY <1>1, <1>3 DEF Token

LEMMA TokenParts ==
  ASSUME NEW k, NEW l, NEW b
  PROVE  Token(k, l, b).key = k /\ Token(k, l, b).kind = l /\ Token(k, l, b).body = b /\ IsToken(Token(k, l, b))
BY DEF Token, IsToken

\* A list in which one item or another has a new body.
Rebodied(r, body, P, F) ==
    r = [p \in DOMAIN body |-> IF p \in P THEN [body[p] EXCEPT !.body = F[p]] ELSE body[p]]

LEMMA NewBodies ==
  ASSUME NEW body, IsTokens(body), NEW P \in SUBSET Items(body), NEW F, NEW r, Rebodied(r, body, P, F)
  PROVE  /\ Refilled(r, body)
         /\ \A p \in P : r[p] = Token(body[p].key, body[p].kind, F[p]) /\ r[p].body = F[p]
         /\ \A p \in DOMAIN body \ P : r[p] = body[p]
<1>1. \A p \in DOMAIN body : r[p] = IF p \in P THEN [body[p] EXCEPT !.body = F[p]] ELSE body[p]
  BY DEF Rebodied
<1>2. r = [p \in DOMAIN body |-> r[p]]
  BY DEF Rebodied
<1>3. \A p \in DOMAIN body : IsToken(body[p]) /\ body[p] = Token(body[p].key, body[p].kind, body[p].body)
  BY DEF IsTokens, IsToken
<1>4. ASSUME NEW p \in P
      PROVE  /\ r[p] = Token(body[p].key, body[p].kind, F[p]) /\ r[p].body = F[p]
  <2>1. p \in DOMAIN body
    BY DEF Items
  <2>2. PICK t, b : t = body[p] /\ b = F[p]
    OBVIOUS
  <2>3. r[p] = [t EXCEPT !.body = b] /\ IsToken(t)
    BY <1>1, <1>3, <2>1, <2>2
  <2>4. r[p] = Token(t.key, t.kind, b)
    BY <2>3, TokenFields
  <2>5. QED
    BY <2>2, <2>4, TokenParts
<1>5. \A p \in DOMAIN body \ P : r[p] = body[p]
  BY <1>1
<1>6. Refilled(r, body)
  <2>1. ASSUME NEW p \in DOMAIN body PROVE r[p] = Token(body[p].key, body[p].kind, r[p].body)
    BY <1>3, <1>4, <1>5
  <2>2. QED
    BY <1>2, <1>5, <2>1 DEF Refilled
<1>7. QED
  BY <1>4, <1>5, <1>6

\* An event dira had no command under gets one more entry.
LEMMA FilledEvents ==
  ASSUME NEW hooks, IsTokens(hooks)
  PROVE  /\ Refilled(Filled(hooks), hooks) /\ Lacking(hooks) \subseteq Items(hooks)
         /\ \A p \in Lacking(hooks) :
               Filled(hooks)[p].body = insertAll(hooks[p].body, <<Entry(<<Dira>>)>>)
         /\ \A p \in DOMAIN hooks \ Lacking(hooks) : Filled(hooks)[p] = hooks[p]
<1>1. PICK f, e : f = Filled(hooks) /\ e = <<Entry(<<Dira>>)>>
  OBVIOUS
<1> DEFINE F == [p \in DOMAIN hooks |-> insertAll(hooks[p].body, e)]
<1>2. Rebodied(f, hooks, Lacking(hooks), F)
  BY <1>1 DEF Filled, Rebodied
<1>3. Lacking(hooks) \in SUBSET Items(hooks)
  <2>1. ASSUME NEW p \in Lacking(hooks) PROVE p \in Items(hooks)
    <3>1. PICK k \in DOMAIN Events : Member(hooks, Events[k]) = p
      BY DEF Lacking, IsEventsMember
    <3>2. p # 0
      <4>1. p \in 1 .. Len(hooks) /\ Len(hooks) \in Nat
        BY SeqDomain DEF Lacking, IsTokens
      <4>2. QED
        BY <4>1
    <3>3. QED
      BY <3>1, <3>2, MemberIsLast
  <2>2. QED
    BY <2>1
<1>4. \A p \in Lacking(hooks) : p \in DOMAIN hooks /\ F[p] = insertAll(hooks[p].body, e)
  BY DEF Lacking
<1> HIDE DEF F
<1>5. /\ Refilled(f, hooks)
      /\ \A p \in Lacking(hooks) : f[p].body = F[p]
      /\ \A p \in DOMAIN hooks \ Lacking(hooks) : f[p] = hooks[p]
  BY <1>2, <1>3, NewBodies
<1>6. QED
  BY <1>1, <1>3, <1>4, <1>5

\* The members of "hooks" once dira's are among them.
LEMMA EventsInstalled ==
  ASSUME NEW strict, NEW hooks, IsHooksBody(strict, hooks), strict \in BOOLEAN
  PROVE  IsHooksBody(strict, WithEvents(hooks)) /\ InForce(WithEvents(hooks))
<1>1. IsTokens(hooks) /\ \A q \in Items(hooks) : IsEvent(strict, hooks[q])
  BY DEF IsHooksBody
<1>2. PICK f, e : f = Filled(hooks) /\ e = <<Entry(<<Dira>>)>>
  OBVIOUS
<1>3. /\ Refilled(f, hooks) /\ Lacking(hooks) \subseteq Items(hooks)
      /\ \A p \in Lacking(hooks) : f[p].body = insertAll(hooks[p].body, e)
      /\ \A p \in DOMAIN hooks \ Lacking(hooks) : f[p] = hooks[p]
  BY <1>1, <1>2, FilledEvents
<1>4. /\ IsTokens(f) /\ DOMAIN f = DOMAIN hooks
      /\ Items(f) = Items(hooks)
      /\ \A p \in DOMAIN hooks : f[p].key = hooks[p].key /\ f[p].kind = hooks[p].kind
      /\ \A key : Member(f, key) = Member(hooks, key)
      /\ Alternates(hooks) => Alternates(f)
  BY <1>1, <1>3, RefilledTokens
<1>5. ASSUME NEW p \in Items(f) PROVE IsEvent(strict, f[p])
  <2>1. p \in DOMAIN hooks /\ IsTokens(hooks[p].body) /\ (strict => Alternates(hooks[p].body))
    BY <1>1, <1>4 DEF IsEvent, Items
  <2>2. CASE p \in Lacking(hooks)
    <3>1. PICK b : b = hooks[p].body
      OBVIOUS
    <3>2. f[p].body = insertAll(b, e) /\ IsTokens(b) /\ (strict => Alternates(b))
      BY <1>3, <2>1, <2>2, <3>1
    <3>3. IsTokens(e) /\ Len(e) = 1 /\ \A j \in DOMAIN e : e[j].kind # "sep"
      BY <1>2, OwnEntry
    <3>4. IsTokens(insertAll(b, e)) /\ (Alternates(b) => Alternates(insertAll(b, e)))
      BY <3>2, <3>3, InsertedTokens
    <3>5. QED
      BY <3>2, <3>4 DEF IsEvent
  <2>3. CASE p \notin Lacking(hooks)
    BY <1>1, <1>3, <1>4, <2>1, <2>3
  <2>4. QED
    BY <2>2, <2>3
\* What stands for an event in the file has a command of dira's afterwards.
<1>6. ASSUME NEW k \in DOMAIN Events, Member(hooks, Events[k]) # 0
      PROVE  AnyOwned(f[Member(hooks, Events[k])].body)
  <2>1. PICK p : p = Member(hooks, Events[k])
    OBVIOUS
  <2>2. p \in Items(hooks) /\ p \in DOMAIN hooks
    BY <1>1, <1>6, <2>1, MemberIsLast DEF Items
  <2>3. CASE p \in Lacking(hooks)
    <3>1. PICK b : b = hooks[p].body
      OBVIOUS
    <3>2. f[p].body = insertAll(b, e) /\ IsTokens(b)
      BY <1>1, <1>3, <2>2, <2>3, <3>1 DEF IsEvent
    <3>3. IsTokens(e) /\ 1 \in DOMAIN e /\ \A j \in DOMAIN e : e[j].kind # "sep"
      BY <1>2, OwnEntry
    <3>4. PICK i \in Items(insertAll(b, e)) : insertAll(b, e)[i] = e[1]
      BY <3>2, <3>3, InsertedTokens
    <3>5. Dira \in ToSet(e[1].body)
      BY <1>2, <3>3, OwnEntry
    <3>6. QED
      BY <2>1, <3>2, <3>4, <3>5 DEF AnyOwned
  <2>4. CASE p \notin Lacking(hooks)
    <3>1. AnyOwned(hooks[p].body)
      BY <2>1, <2>2, <2>4 DEF Lacking, IsEventsMember
    <3>2. QED
      BY <1>3, <2>1, <2>2, <2>4, <3>1
  <2>5. QED
    BY <2>3, <2>4
<1> DEFINE K == {k \in DOMAIN Events : Member(hooks, Events[k]) = 0}
<1>7. PICK missing : missing = NewEvents(hooks)
  OBVIOUS
<1>8. /\ IsTokens(missing)
      /\ \A i \in DOMAIN missing : \E k \in K : missing[i] = AllEvents[k]
      /\ \A k \in K : \E i \in DOMAIN missing : missing[i] = AllEvents[k]
  <2>1. missing = Kept(AllEvents, K) /\ K \in SUBSET DOMAIN AllEvents
    BY <1>7, EventTokens DEF NewEvents
  <2>2. IsTokens(AllEvents) /\ Items(AllEvents) \cap K = K
    BY <2>1, EventTokens
  <2> HIDE DEF K
  <2>3. PICK all : all = AllEvents
    OBVIOUS
  <2>4. IsTokens(all) /\ K \in SUBSET DOMAIN all
    BY <2>1, <2>2, <2>3
  <2>5. /\ IsTokens(Kept(all, K))
        /\ \A i \in DOMAIN Kept(all, K) : \E k \in K : Kept(all, K)[i] = all[k]
        /\ \A k \in Items(all) \cap K : \E i \in Items(Kept(all, K)) : Kept(all, K)[i] = all[k]
    BY <2>4, KeptTokens
  <2>6. \A i \in Items(missing) : i \in DOMAIN missing
    BY DEF Items
  <2>7. QED
    BY <2>1, <2>2, <2>3, <2>5, <2>6
<1>9. CASE missing = <<>>
  <2>1. K = {}
    <3>1. DOMAIN missing = {}
      BY <1>9
    <3> HIDE DEF K
    <3>2. QED
      BY <1>8, <3>1
  <2>2. InForce(f)
    BY <1>4, <1>6, <2>1 DEF InForce
  <2>3. IsHooksBody(strict, f)
    BY <1>4, <1>5 DEF IsHooksBody
  <2>4. QED
    BY <1>2, <1>7, <1>9, <2>2, <2>3 DEF WithEvents
<1>10. CASE missing # <<>>
  <2>1. PICK r : r = insertAll(f, missing)
    OBVIOUS
  <2>2. \A j \in DOMAIN missing :
           /\ missing[j].kind # "sep" /\ IsEvent(strict, missing[j]) /\ AnyOwned(missing[j].body)
           /\ \E k \in K : missing[j].key = Events[k]
    <3>1. ASSUME NEW j \in DOMAIN missing
          PROVE  /\ missing[j].kind # "sep" /\ IsEvent(strict, missing[j]) /\ AnyOwned(missing[j].body)
                 /\ \E k \in K : missing[j].key = Events[k]
      <4>1. PICK k \in K : missing[j] = AllEvents[k]
        BY <1>8
      <4>2. k \in DOMAIN AllEvents
        BY EventTokens
      <4>3. QED
        BY <4>1, <4>2, EventTokens
    <3>2. QED
      BY <3>1
  <2>3. /\ IsTokens(r)
        /\ \A p \in Items(r) : \/ \E q \in Items(f) : r[p] = f[q]
                               \/ \E j \in DOMAIN missing : r[p] = missing[j]
        /\ \A q \in Items(f) : \E p \in Items(r) : r[p] = f[q]
        /\ \A j \in DOMAIN missing : \E p \in Items(r) : r[p] = missing[j]
        /\ Alternates(f) /\ (Items(f) = {} => Len(missing) = 1) => Alternates(r)
    BY <1>4, <1>8, <2>1, <2>2, InsertedTokens
  <2>4. \A p \in Items(r) : IsEvent(strict, r[p])
    BY <1>5, <2>2, <2>3
  <2>5. strict => Alternates(r) /\ Items(r) # {}
    BY <1>4, <2>3 DEF IsHooksBody
  <2>6. IsHooksBody(strict, r)
    BY <2>3, <2>4, <2>5 DEF IsHooksBody
  \* Of an event that was there the same member counts.
  <2>7. ASSUME NEW k \in DOMAIN Events, Member(hooks, Events[k]) # 0
        PROVE  Member(r, Events[k]) # 0 /\ AnyOwned(r[Member(r, Events[k])].body)
    <3>1. PICK m : m = Member(hooks, Events[k])
      OBVIOUS
    <3>2. m \in Items(f) /\ f[m].key = Events[k] /\ m # 0
          /\ \A p \in Items(f) : f[p].key = Events[k] => p <= m
      <4>1. m = Member(f, Events[k]) /\ m # 0
        BY <1>4, <2>7, <3>1
      <4>2. QED
        BY <1>4, <4>1, MemberIsLast
    <3>3. IsSeq(f) /\ IsSeq(missing) /\ Items(f) # {}
      BY <1>4, <1>8, <3>2 DEF IsTokens
    <3>4. PICK last : Spliced(r, f, missing, last)
      BY <2>1, <3>3, InsertionSplices
    <3>5. Items(r) = Items(f) \cup {last + 3 * j : j \in 1 .. Len(missing)}
      BY <1>4, <1>8, <2>2, <3>4, SplicedTokens
    <3>6. \A p \in Items(f) : r[p] = f[p]
      <4>1. \A p \in Items(f) : p \in 1 .. last
        <5>1. \A p \in Items(f) : p \in 1 .. Len(f)
          BY <3>3, SeqDomain DEF Items
        <5>2. last \in Items(f) /\ \A p \in Items(f) : p <= last
          BY <3>4 DEF Spliced
        <5>3. Len(f) \in Nat
          BY <3>3, SeqDomain
        <5>4. QED
          BY <5>1, <5>2, <5>3
      <4>2. QED
        BY <3>4, <4>1 DEF Spliced
    <3>7. ASSUME NEW p \in Items(r), p \notin Items(f) PROVE r[p].key # Events[k]
      <4>1. PICK j \in 1 .. Len(missing) : p = last + 3 * j
        BY <3>5, <3>7
      <4>2. r[p] = missing[j] /\ j \in DOMAIN missing
        BY <3>3, <3>4, <4>1, SeqDomain DEF Spliced
      <4>3. PICK l \in K : missing[j].key = Events[l]
        BY <2>2, <4>2
      <4>4. Member(hooks, Events[l]) = 0
        BY <4>3
      <4>5. QED
        BY <2>7, <4>2, <4>3, <4>4
    <3>8. PICK q : q = Member(r, Events[k])
      OBVIOUS
    <3>9. q # 0 /\ q \in Items(r) /\ r[q].key = Events[k] /\ \A p \in Items(r) : r[p].key = Events[k] => p <= q
      <4>1. m \in Items(r) /\ r[m].key = Events[k]
        BY <3>2, <3>5, <3>6
      <4>2. q # 0
        BY <2>3, <3>8, <4>1, MemberIsLast
      <4>3. QED
        BY <2>3, <3>8, <4>2, MemberIsLast
    <3>10. q \in Items(f) /\ f[q].key = Events[k]
      BY <3>6, <3>7, <3>9
    <3>11. q = m
      <4>1. q <= m /\ m <= q
        BY <3>2, <3>5, <3>6, <3>9, <3>10
      <4>2. q \in Nat /\ m \in Nat
        BY <3>2, <3>3, <3>10, SeqDomain DEF Items
      <4>3. QED
        BY <4>1, <4>2
    <3>12. AnyOwned(f[m].body)
      BY <1>6, <2>7, <3>1
    <3>13. QED
      BY <3>6, <3>8, <3>9, <3>10, <3>11, <3>12
  \* One that was not there is dira's alone.
  <2>8. ASSUME NEW k \in DOMAIN Events, Member(hooks, Events[k]) = 0
        PROVE  Member(r, Events[k]) # 0 /\ AnyOwned(r[Member(r, Events[k])].body)
    <3>1. \A p \in Items(f) : f[p].key # Events[k]
      BY <1>4, <2>8, MemberIsLast
    <3>2. PICK j \in DOMAIN missing : missing[j] = AllEvents[k]
      BY <1>8, <2>8
    <3>3. AllEvents[k].key = Events[k]
      BY EventTokens
    <3>4. Member(r, Events[k]) # 0
      <4>1. PICK p \in Items(r) : r[p] = missing[j]
        BY <2>3
      <4>2. r[p].key = Events[k]
        BY <3>2, <3>3, <4>1
      <4>3. QED
        BY <2>3, <4>2, MemberIsLast
    <3>5. PICK q : q = Member(r, Events[k])
      OBVIOUS
    <3>6. q \in Items(r) /\ r[q].key = Events[k]
      BY <2>3, <3>4, <3>5, MemberIsLast
    <3>7. \E i \in DOMAIN missing : r[q] = missing[i]
      BY <2>3, <3>1, <3>6
    <3>8. QED
      BY <2>2, <3>4, <3>5, <3>7
  <2>9. InForce(r)
    BY <2>7, <2>8 DEF InForce
  <2>10. WithEvents(hooks) = r
    BY <1>2, <1>7, <1>10, <2>1 DEF WithEvents
  <2>11. QED
    BY <2>6, <2>9, <2>10
<1>11. QED
  BY <1>9, <1>10

Replaced(r, doc, m, b) == r = [doc EXCEPT ![m].body = b]

LEMMA OneNewBody ==
  ASSUME NEW doc, IsTokens(doc), NEW m \in Items(doc), NEW b,
         NEW r, Replaced(r, doc, m, b)
  PROVE  /\ Refilled(r, doc) /\ r[m] = Token(doc[m].key, doc[m].kind, b)
         /\ \A p \in DOMAIN doc \ {m} : r[p] = doc[p]
<1>1. PICK F, P : F = [p \in DOMAIN doc |-> b] /\ P = {m}
  OBVIOUS
<1>2. m \in DOMAIN doc /\ P \in SUBSET Items(doc)
  BY <1>1 DEF Items
<1>3. doc = [p \in DOMAIN doc |-> doc[p]]
  BY SeqDomain DEF IsTokens
<1>4. Rebodied(r, doc, P, F)
  <2>1. r = [p \in DOMAIN doc |-> IF p = m THEN [doc[m] EXCEPT !.body = b] ELSE doc[p]]
    BY <1>2, <1>3 DEF Replaced
  <2>2. \A p \in DOMAIN doc : p \in P => p = m /\ F[p] = b
    BY <1>1
  <2>3. QED
    BY <1>1, <2>1, <2>2 DEF Rebodied
<1>5. F[m] = b /\ m \in P
  BY <1>1, <1>2
<1>6. /\ Refilled(r, doc)
      /\ \A p \in P : r[p] = Token(doc[p].key, doc[p].kind, F[p]) /\ r[p].body = F[p]
      /\ \A p \in DOMAIN doc \ P : r[p] = doc[p]
  BY <1>2, <1>4, NewBodies
<1>7. QED
  BY <1>1, <1>5, <1>6

\* What is installed where there was no file.
LEMMA FreshSettings ==
  /\ \A strict : Sound(strict, freshSettings)
  /\ Items(freshSettings) = {2} /\ freshSettings[2] = hooksMember
  /\ freshSettings # <<>>
<1>1. PICK t : t = hooksMember
  OBVIOUS
<1>2. IsToken(t) /\ t.kind = "object"
  BY <1>1, FreshHooks
<1>3. PICK b : b = <<Blank, t, Blank>>
  OBVIOUS
<1>4. b \in Seq({Blank, t}) /\ Len(b) = 3 /\ DOMAIN b = 1 .. 3 /\ b[1] = Blank /\ b[2] = t /\ b[3] = Blank
  BY <1>3
<1>5. Blank.kind = "sep" /\ IsToken(Blank) /\ Blank # Comma /\ Comma.kind = "sep"
  BY DEF Blank, Comma, Token, IsToken
<1>6. 1 .. 3 = {1, 2, 3}
  OBVIOUS
<1>7. IsTokens(b)
  BY <1>2, <1>4, <1>5, <1>6, SeqOfSome DEF IsTokens
<1>8. Items(b) = {2}
  BY <1>2, <1>4, <1>5, <1>6 DEF Items
<1>9. Commas(b) = {}
  BY <1>2, <1>4, <1>5, <1>6 DEF Commas
<1>10. Alternates(b)
  BY <1>8, <1>9 DEF Alternates, Alternating
<1>11. \A strict : Sound(strict, b)
  BY <1>1, <1>4, <1>7, <1>8, <1>10, FreshHooks DEF Sound
<1>12. b = freshSettings /\ b # <<>>
  BY <1>1, <1>3, <1>4 DEF freshSettings
<1>13. QED
  BY <1>1, <1>4, <1>8, <1>11, <1>12

\* What an install makes of a file it can read.
LEMMA EditsInForce ==
  ASSUME NEW strict \in BOOLEAN, NEW doc, Sound(strict, doc),
         Member(doc, "hooks") # 0 => doc[Member(doc, "hooks")].kind = "object"
  PROVE  /\ Sound(strict, installEdits(doc)) /\ Registered(installEdits(doc))
         /\ installEdits(doc)[Member(installEdits(doc), "hooks")].kind = "object"
<1>1. /\ IsTokens(doc) /\ (strict => Alternates(doc))
      /\ \A p \in Items(doc) : IsHooks(doc[p]) => IsHooksBody(strict, doc[p].body)
  BY DEF Sound
<1>2. CASE Member(doc, "hooks") = 0
  <2>1. PICK t : t = hooksMember
    OBVIOUS
  <2>2. t.key = "hooks" /\ t.kind = "object" /\ IsToken(t)
        /\ IsHooksBody(strict, t.body) /\ InForce(t.body)
    BY <2>1, FreshHooks
  <2>3. PICK one : one = <<t>>
    OBVIOUS
  <2>4. IsTokens(one) /\ Len(one) = 1 /\ DOMAIN one = {1} /\ one[1] = t
        /\ \A j \in DOMAIN one : one[j].kind # "sep"
    BY <2>2, <2>3, OneItem
  <2>5. PICK r : r = insertAll(doc, one)
    OBVIOUS
  <2>6. /\ IsTokens(r)
        /\ \A p \in Items(r) : \/ \E q \in Items(doc) : r[p] = doc[q]
                               \/ \E j \in DOMAIN one : r[p] = one[j]
        /\ \A j \in DOMAIN one : \E p \in Items(r) : r[p] = one[j]
        /\ Alternates(doc) => Alternates(r)
    BY <1>1, <2>4, <2>5, InsertedTokens
  <2>7. Sound(strict, r)
    <3>1. ASSUME NEW p \in Items(r), IsHooks(r[p]) PROVE IsHooksBody(strict, r[p].body)
      BY <1>1, <2>2, <2>4, <2>6, <3>1
    <3>2. QED
      BY <1>1, <2>6, <3>1 DEF Sound
  <2>8. PICK m : m = Member(r, "hooks")
    OBVIOUS
  <2>9. m # 0 /\ m \in Items(r) /\ r[m].key = "hooks"
    <3>1. \E p \in Items(r) : r[p].key = "hooks"
      BY <2>2, <2>4, <2>6
    <3>2. m # 0
      BY <2>6, <2>8, <3>1, MemberIsLast
    <3>3. QED
      BY <2>6, <2>8, <3>2, MemberIsLast
  <2>10. r[m] = t
    <3>1. \A q \in Items(doc) : doc[q].key # "hooks"
      BY <1>1, <1>2, MemberIsLast
    <3>2. QED
      BY <2>4, <2>6, <2>9, <3>1
  <2>11. Registered(r)
    BY <2>2, <2>8, <2>9, <2>10 DEF Registered, Hooks, InForce
  <2>12. r = installEdits(doc)
    BY <1>2, <2>1, <2>3, <2>5 DEF installEdits
  <2>13. QED
    BY <2>2, <2>7, <2>8, <2>10, <2>11, <2>12
<1>3. CASE Member(doc, "hooks") # 0
  <2>1. PICK m : m = Member(doc, "hooks")
    OBVIOUS
  <2>2. m # 0 /\ m \in Items(doc) /\ doc[m].key = "hooks" /\ doc[m].kind = "object"
    BY <1>1, <1>3, <2>1, MemberIsLast
  <2>3. PICK h : h = doc[m].body
    OBVIOUS
  <2>4. IsHooksBody(strict, h)
    BY <1>1, <2>2, <2>3 DEF IsHooks
  <2>5. PICK b : b = WithEvents(h)
    OBVIOUS
  <2>6. IsHooksBody(strict, b) /\ InForce(b)
    BY <2>4, <2>5, EventsInstalled
  <2>7. PICK r : r = [doc EXCEPT ![m].body = b]
    OBVIOUS
  <2>8. /\ Refilled(r, doc) /\ r[m] = Token(doc[m].key, doc[m].kind, b)
        /\ \A p \in DOMAIN doc \ {m} : r[p] = doc[p]
    <3>1. Replaced(r, doc, m, b)
      BY <2>7 DEF Replaced
    <3>2. QED
      BY <1>1, <2>2, <3>1, OneNewBody
  <2>9. /\ IsTokens(r) /\ Items(r) = Items(doc) /\ Member(r, "hooks") = m
        /\ Alternates(doc) => Alternates(r)
    BY <1>1, <2>1, <2>8, RefilledTokens
  <2>10. r[m].key = "hooks" /\ r[m].kind = "object" /\ r[m].body = b
    BY <2>2, <2>8, TokenParts
  <2>11. Sound(strict, r)
    <3>1. ASSUME NEW p \in Items(r), IsHooks(r[p]) PROVE IsHooksBody(strict, r[p].body)
      <4>1. CASE p = m
        BY <2>6, <2>10, <4>1
      <4>2. CASE p # m
        <5>1. p \in DOMAIN doc /\ p \in Items(doc)
          BY <2>9 DEF Items
        <5>2. QED
          BY <1>1, <2>8, <3>1, <4>2, <5>1
      <4>3. QED
        BY <4>1, <4>2
    <3>2. QED
      BY <1>1, <2>9, <3>1 DEF Sound
  <2>12. Registered(r)
    BY <2>2, <2>6, <2>9, <2>10 DEF Registered, Hooks, InForce
  <2>13. r = installEdits(doc)
    <3>1. installEdits(doc) = [doc EXCEPT ![m].body = WithEvents(@)]
      BY <1>3, <2>1 DEF installEdits
    <3>2. m \in DOMAIN doc
      BY <2>2 DEF Items
    <3>3. [doc EXCEPT ![m].body = WithEvents(@)] = [doc EXCEPT ![m].body = WithEvents(h)]
      BY <2>3, <3>2
    <3>4. QED
      BY <2>5, <2>7, <3>1, <3>3
  <2>14. QED
    BY <2>9, <2>10, <2>11, <2>12, <2>13
<1>4. QED
  BY <1>2, <1>3

\* What is reported as installed, or found installed, is in force.
LEMMA InstallIsInForce ==
  ASSUME NEW strict \in BOOLEAN, NEW doc, doc = Absent \/ doc = Torn \/ Sound(strict, doc),
         Install(doc).outcome # "refused"
  PROVE  /\ Sound(strict, Install(doc).data) /\ Registered(Install(doc).data)
         /\ strict => WellFormed(Install(doc).data)
<1>1. PICK d : d = Install(doc).data
  OBVIOUS
<1>2. Sound(strict, d) /\ Registered(d) /\ d[Member(d, "hooks")].kind = "object"
  <2>1. CASE doc = Absent
    <3>1. d = freshSettings
      BY <1>1, <2>1 DEF Install
    <3>2. IsTokens(d) /\ Items(d) = {2} /\ d[2] = hooksMember /\ Sound(strict, d)
      BY <3>1, FreshSettings DEF Sound
    <3>3. d[2].key = "hooks" /\ d[2].kind = "object" /\ InForce(d[2].body)
      BY <3>2, FreshHooks
    <3>4. Member(d, "hooks") = 2
      <4>1. Member(d, "hooks") # 0
        BY <3>2, <3>3, MemberIsLast
      <4>2. Member(d, "hooks") \in Items(d)
        BY <3>2, <4>1, MemberIsLast
      <4>3. QED
        BY <3>2, <4>2
    <3>5. QED
      BY <3>2, <3>3, <3>4 DEF Registered, Hooks, InForce
  <2>2. CASE doc # Absent
    <3>1. Scans(doc) /\ (Member(doc, "hooks") = 0 \/ Shaped(Hooks(doc)))
      BY <2>2 DEF Install
    <3>2. d = installEdits(doc)
      BY <1>1, <2>2, <3>1 DEF Install
    <3>3. Sound(strict, doc) /\ (Member(doc, "hooks") # 0 => doc[Member(doc, "hooks")].kind = "object")
      BY <2>2, <3>1 DEF Scans
    <3>4. QED
      BY <3>2, <3>3, EditsInForce
  <2>3. QED
    BY <2>1, <2>2
<1>3. ASSUME strict PROVE WellFormed(d)
  <2>1. PICK m : m = Member(d, "hooks")
    OBVIOUS
  <2>2. IsTokens(d) /\ m # 0
    BY <1>2, <2>1 DEF Sound, Registered
  <2>3. m \in Items(d) /\ d[m].key = "hooks"
    BY <2>1, <2>2, MemberIsLast
  <2>4. IsHooksBody(strict, d[m].body) /\ Alternates(d)
    BY <1>2, <1>3, <2>1, <2>3 DEF Sound, IsHooks
  <2>5. Alternates(d[m].body) /\ \A p \in Items(d[m].body) : Alternates(d[m].body[p].body)
    BY <1>3, <2>4 DEF IsHooksBody, IsEvent
  <2>6. QED
    BY <2>1, <2>4, <2>5 DEF WellFormed, Hooks
<1>4. QED
  BY <1>1, <1>2, <1>3

\* An uninstalled event is without dira's entries, or as it was.
LEMMA PrunedBodies ==
  ASSUME NEW hooks, IsTokens(hooks)
  PROVE  /\ Refilled(Pruned(hooks), hooks) /\ Touched(hooks) \subseteq Items(hooks)
         /\ \A p \in Touched(hooks) \ Emptied(hooks) :
               Pruned(hooks)[p].body = deleteAll(hooks[p].body, OwnedIn(hooks[p].body))
         /\ \A p \in DOMAIN hooks \ (Touched(hooks) \ Emptied(hooks)) : Pruned(hooks)[p] = hooks[p]
<1>1. PICK f, P : f = Pruned(hooks) /\ P = Touched(hooks) \ Emptied(hooks)
  OBVIOUS
<1>2. Touched(hooks) \subseteq Items(hooks) /\ P \in SUBSET Items(hooks)
  BY <1>1 DEF Touched
<1> DEFINE F == [p \in DOMAIN hooks |-> deleteAll(hooks[p].body, OwnedIn(hooks[p].body))]
<1>3. Rebodied(f, hooks, P, F)
  BY <1>1 DEF Pruned, Rebodied
<1>4. \A p \in P : p \in DOMAIN hooks /\ F[p] = deleteAll(hooks[p].body, OwnedIn(hooks[p].body))
  BY <1>2 DEF Items
<1> HIDE DEF F
<1>5. /\ Refilled(f, hooks)
      /\ \A p \in P : f[p].body = F[p]
      /\ \A p \in DOMAIN hooks \ P : f[p] = hooks[p]
  BY <1>2, <1>3, NewBodies
<1>6. QED
  BY <1>1, <1>2, <1>4, <1>5

\* An event that keeps other entries loses dira's.
LEMMA PrunedEvents ==
  ASSUME NEW strict \in BOOLEAN, NEW hooks, IsHooksBody(strict, hooks)
  PROVE  /\ Refilled(Pruned(hooks), hooks) /\ Emptied(hooks) \subseteq Items(hooks)
         /\ IsHooksBody(strict, Pruned(hooks))
<1>1. PICK f : f = Pruned(hooks)
  OBVIOUS
<1>2. /\ IsTokens(hooks) /\ \A q \in Items(hooks) : IsEvent(strict, hooks[q])
      /\ strict => Alternates(hooks) /\ Items(hooks) # {}
  BY DEF IsHooksBody
<1>3. PICK P : P = Touched(hooks) \ Emptied(hooks)
  OBVIOUS
<1>4. P \in SUBSET Items(hooks) /\ Emptied(hooks) \subseteq Items(hooks)
  BY <1>3 DEF Touched, Emptied
<1>7. /\ Refilled(f, hooks)
      /\ \A p \in P : f[p].body = deleteAll(hooks[p].body, OwnedIn(hooks[p].body))
      /\ \A p \in DOMAIN hooks \ P : f[p] = hooks[p]
  BY <1>1, <1>2, <1>3, PrunedBodies
<1>8. /\ IsTokens(f) /\ Items(f) = Items(hooks)
      /\ Alternates(hooks) => Alternates(f)
  BY <1>2, <1>7, RefilledTokens
<1>9. ASSUME NEW q \in Items(f) PROVE IsEvent(strict, f[q])
  <2>1. q \in Items(hooks) /\ q \in DOMAIN hooks /\ IsEvent(strict, hooks[q])
    BY <1>2, <1>8 DEF Items
  <2>2. CASE q \in P
    <3>1. PICK b : b = hooks[q].body
      OBVIOUS
    <3>2. IsTokens(b) /\ (strict => Alternates(b)) /\ OwnedIn(b) \in SUBSET Items(b)
      BY <2>1, <3>1 DEF IsEvent, OwnedIn
    <3>3. f[q].body = deleteAll(b, OwnedIn(b))
      BY <1>7, <2>2, <3>1
    <3>4. QED
      BY <3>2, <3>3, DeletedTokens DEF IsEvent
  <2>3. CASE q \notin P
    BY <1>7, <2>1, <2>3
  <2>4. QED
    BY <2>2, <2>3
<1>10. QED
  BY <1>1, <1>2, <1>4, <1>7, <1>8, <1>9 DEF IsHooksBody

\* A file whose "hooks" gets another body of that form.
LEMMA OneNewHooks ==
  ASSUME NEW strict \in BOOLEAN, NEW doc, Sound(strict, doc), NEW m \in Items(doc),
         NEW b, IsHooksBody(strict, b), NEW r, Replaced(r, doc, m, b)
  PROVE  /\ Sound(strict, r) /\ Items(r) = Items(doc)
         /\ \A key : Member(r, key) = Member(doc, key)
         /\ r[m].key = doc[m].key /\ r[m].kind = doc[m].kind /\ r[m].body = b
<1>1. /\ IsTokens(doc) /\ (strict => Alternates(doc))
      /\ \A p \in Items(doc) : IsHooks(doc[p]) => IsHooksBody(strict, doc[p].body)
  BY DEF Sound
<1>2. /\ Refilled(r, doc) /\ r[m] = Token(doc[m].key, doc[m].kind, b)
      /\ \A p \in DOMAIN doc \ {m} : r[p] = doc[p]
  BY <1>1, OneNewBody
<1>3. /\ IsTokens(r) /\ Items(r) = Items(doc)
      /\ \A key : Member(r, key) = Member(doc, key)
      /\ Alternates(doc) => Alternates(r)
  BY <1>1, <1>2, RefilledTokens
<1>4. r[m].key = doc[m].key /\ r[m].kind = doc[m].kind /\ r[m].body = b
  BY <1>2, TokenParts
<1>5. Sound(strict, r)
  <2>1. ASSUME NEW p \in Items(r), IsHooks(r[p]) PROVE IsHooksBody(strict, r[p].body)
    <3>1. CASE p = m
      BY <1>4, <3>1
    <3>2. CASE p # m
      <4>1. p \in DOMAIN doc /\ p \in Items(doc)
        BY <1>3 DEF Items
      <4>2. QED
        BY <1>1, <1>2, <2>1, <3>2, <4>1
    <3>3. QED
      BY <3>1, <3>2
  <2>2. QED
    BY <1>1, <1>3, <2>1 DEF Sound
<1>6. QED
  BY <1>3, <1>4, <1>5

\* What an uninstall leaves is a file of the same form.
LEMMA SpansKeepSound ==
  ASSUME NEW strict \in BOOLEAN, NEW doc, Sound(strict, doc),
         Member(doc, "hooks") # 0 => doc[Member(doc, "hooks")].kind = "object"
  PROVE  Sound(strict, uninstallSpans(doc))
<1>1. /\ IsTokens(doc) /\ (strict => Alternates(doc))
      /\ \A p \in Items(doc) : IsHooks(doc[p]) => IsHooksBody(strict, doc[p].body)
  BY DEF Sound
<1>2. PICK m : m = Member(doc, "hooks")
  OBVIOUS
<1>3. CASE m = 0 \/ Touched(Hooks(doc)) = {}
  <2>1. uninstallSpans(doc) = doc
    BY <1>2, <1>3 DEF uninstallSpans
  <2>2. QED
    BY <2>1
<1>4. CASE m # 0 /\ Touched(Hooks(doc)) # {}
  <2>1. m \in Items(doc) /\ IsHooks(doc[m])
    BY <1>1, <1>2, <1>4, MemberIsLast DEF IsHooks
  <2>2. PICK h : h = doc[m].body
    OBVIOUS
  <2>3. IsHooksBody(strict, h) /\ h = Hooks(doc)
    BY <1>1, <1>2, <2>1, <2>2 DEF Hooks
  <2>4. CASE Emptied(h) = Items(h)
    <3>1. PICK r, P : r = deleteAll(doc, P) /\ P = {m}
      OBVIOUS
    <3>2. r = uninstallSpans(doc)
      BY <1>2, <1>4, <2>3, <2>4, <3>1 DEF uninstallSpans
    <3>3. P \in SUBSET Items(doc)
      BY <2>1, <3>1
    <3>4. /\ IsTokens(r)
          /\ Alternates(doc) => Alternates(r)
          /\ \A i \in Items(r) : \E p \in Items(doc) \ P : r[i] = doc[p]
      <4>1. IsTokens(doc)
        BY <1>1
      <4>2. /\ IsTokens(deleteAll(doc, P))
            /\ \A i \in Items(deleteAll(doc, P)) : \E p \in Items(doc) \ P : deleteAll(doc, P)[i] = doc[p]
            /\ Alternates(doc) => Alternates(deleteAll(doc, P))
        BY <3>3, <4>1, DeletedTokens
      <4>3. QED
        BY <3>1, <4>2
    <3>5. ASSUME NEW i \in Items(r), IsHooks(r[i]) PROVE IsHooksBody(strict, r[i].body)
      BY <1>1, <3>4, <3>5
    <3>6. QED
      BY <1>1, <3>2, <3>4, <3>5 DEF Sound
  <2>5. CASE Emptied(h) # Items(h)
    <3>1. PICK f, b : f = Pruned(h) /\ b = deleteAll(f, Emptied(h))
      OBVIOUS
    <3>2. IsHooksBody(strict, f) /\ Refilled(f, h) /\ Emptied(h) \subseteq Items(h)
      BY <2>3, <3>1, PrunedEvents
    <3>3. IsTokens(f) /\ (strict => Alternates(f)) /\ Items(f) = Items(h)
      BY <2>3, <3>2, RefilledTokens DEF IsHooksBody
    <3>4. /\ IsTokens(b) /\ (strict => Alternates(b))
          /\ \A i \in Items(b) : \E p \in Items(f) \ Emptied(h) : b[i] = f[p]
          /\ \A p \in Items(f) \ Emptied(h) : \E i \in Items(b) : b[i] = f[p]
      BY <3>1, <3>2, <3>3, DeletedTokens
    <3>5. IsHooksBody(strict, b)
      <4>1. Items(b) # {}
        BY <2>5, <3>2, <3>3, <3>4
      <4>2. ASSUME NEW q \in Items(b) PROVE IsEvent(strict, b[q])
        BY <3>2, <3>4 DEF IsHooksBody
      <4>3. QED
        BY <3>4, <4>1, <4>2 DEF IsHooksBody
    <3>6. PICK r : r = [doc EXCEPT ![m].body = b]
      OBVIOUS
    <3>7. Sound(strict, r)
      <4>1. Replaced(r, doc, m, b)
        BY <3>6 DEF Replaced
      <4>2. QED
        BY <2>1, <3>5, <4>1, OneNewHooks
    <3>8. r = uninstallSpans(doc)
      <4>1. uninstallSpans(doc) = [doc EXCEPT ![m].body = deleteAll(Pruned(@), Emptied(h))]
        BY <1>2, <1>4, <2>3, <2>5 DEF uninstallSpans
      <4>2. m \in DOMAIN doc
        BY <2>1 DEF Items
      <4>3. [doc EXCEPT ![m].body = deleteAll(Pruned(@), Emptied(h))]
              = [doc EXCEPT ![m].body = deleteAll(Pruned(h), Emptied(h))]
        BY <2>2, <4>2
      <4>4. QED
        BY <3>1, <3>6, <4>1, <4>3
    <3>9. QED
      BY <3>7, <3>8
  <2>6. QED
    BY <2>4, <2>5
<1>5. QED
  BY <1>3, <1>4

\* An event of a file gets other entries.
EventReplaced(r, doc, m, p, a) == r = [doc EXCEPT ![m].body[p].body = a]

LEMMA EventEdited ==
  ASSUME NEW strict \in BOOLEAN, NEW doc, Sound(strict, doc), NEW m \in Items(doc), IsHooks(doc[m]),
         NEW p \in Items(doc[m].body), NEW a, IsTokens(a), strict => Alternates(a),
         NEW r, EventReplaced(r, doc, m, p, a)
  PROVE  Sound(strict, r)
<1>1. PICK h : h = doc[m].body
  OBVIOUS
<1>2. IsHooksBody(strict, h) /\ p \in Items(h)
  BY <1>1 DEF Sound
<1>3. /\ IsTokens(h) /\ \A q \in Items(h) : IsEvent(strict, h[q])
      /\ strict => Alternates(h) /\ Items(h) # {}
  BY <1>2 DEF IsHooksBody
<1>4. PICK b : Replaced(b, h, p, a)
  BY DEF Replaced
<1>5. /\ Refilled(b, h) /\ b[p] = Token(h[p].key, h[p].kind, a)
      /\ \A q \in DOMAIN h \ {p} : b[q] = h[q]
  BY <1>2, <1>3, <1>4, OneNewBody
<1>6. /\ IsTokens(b) /\ Items(b) = Items(h)
      /\ Alternates(h) => Alternates(b)
  BY <1>3, <1>5, RefilledTokens
<1>7. ASSUME NEW q \in Items(b) PROVE IsEvent(strict, b[q])
  <2>1. CASE q = p
    <3>1. b[q].body = a
      BY <1>5, <2>1, TokenParts
    <3>2. QED
      BY <3>1 DEF IsEvent
  <2>2. CASE q # p
    <3>1. q \in DOMAIN h /\ q \in Items(h)
      BY <1>6 DEF Items
    <3>2. QED
      BY <1>3, <1>5, <2>2, <3>1
  <2>3. QED
    BY <2>1, <2>2
<1>8. IsHooksBody(strict, b)
  BY <1>3, <1>6, <1>7 DEF IsHooksBody
<1>9. Replaced(r, doc, m, b)
  <2>1. m \in DOMAIN doc
    BY DEF Items
  <2>2. b = [doc[m].body EXCEPT ![p].body = a]
    BY <1>1, <1>4 DEF Replaced
  <2>3. QED
    BY <2>1, <2>2 DEF Replaced, EventReplaced
<1>10. QED
  BY <1>8, <1>9, OneNewHooks

\* What the operator makes of a file is one of the same form.
LEMMA EditsKeepSound ==
  ASSUME NEW strict \in BOOLEAN, NEW doc, doc = Absent \/ doc = Torn \/ Sound(strict, doc),
         NEW r \in Edited(doc)
  PROVE  Sound(strict, r)
<1>1. /\ Sound(strict, doc) /\ Scans(doc) /\ Member(doc, "hooks") # 0
      /\ \/ \E p \in Items(Hooks(doc)) :
              EventReplaced(r, doc, Member(doc, "hooks"), p, insertAll(Hooks(doc)[p].body, <<Entry(<<Theirs>>)>>))
         \/ \E p \in Items(Hooks(doc)) :
              EventReplaced(r, doc, Member(doc, "hooks"), p, <<Entry(<<Theirs, Dira>>)>>)
  <2>1. Edited(doc) # {}
    OBVIOUS
  <2>2. Sound(strict, doc) /\ Scans(doc) /\ Member(doc, "hooks") # 0
    BY <2>1 DEF Edited
  <2>3. QED
    BY <2>2 DEF Edited, EventReplaced
<1>2. PICK m : m = Member(doc, "hooks")
  OBVIOUS
<1>3. /\ IsTokens(doc)
      /\ \A p \in Items(doc) : IsHooks(doc[p]) => IsHooksBody(strict, doc[p].body)
  BY <1>1 DEF Sound
<1>4. m \in Items(doc) /\ IsHooks(doc[m]) /\ Hooks(doc) = doc[m].body
  BY <1>1, <1>2, <1>3, MemberIsLast DEF Scans, IsHooks, Hooks
<1>5. ASSUME NEW p \in Items(doc[m].body) PROVE IsEvent(strict, doc[m].body[p])
  BY <1>3, <1>4 DEF IsHooksBody
<1>6. ASSUME NEW commands
      PROVE  /\ IsTokens(<<Entry(commands)>>) /\ Alternates(<<Entry(commands)>>)
             /\ Len(<<Entry(commands)>>) = 1 /\ \A j \in DOMAIN <<Entry(commands)>> : <<Entry(commands)>>[j].kind # "sep"
  <2>1. PICK t : t = Entry(commands)
    OBVIOUS
  <2>2. IsToken(t) /\ t.kind # "sep"
    BY <2>1, EntriesAreTokens
  <2>3. IsTokens(<<t>>) /\ Alternates(<<t>>) /\ <<t>>[1] = t
    BY <2>2, OneItem
  <2>4. Len(<<t>>) = 1 /\ \A j \in DOMAIN <<t>> : <<t>>[j].kind # "sep"
    BY <2>2
  <2>5. QED
    BY <2>1, <2>3, <2>4
<1>7. CASE \E p \in Items(Hooks(doc)) :
             EventReplaced(r, doc, Member(doc, "hooks"), p, insertAll(Hooks(doc)[p].body, <<Entry(<<Theirs>>)>>))
  <2>1. PICK p \in Items(doc[m].body) :
             EventReplaced(r, doc, m, p, insertAll(doc[m].body[p].body, <<Entry(<<Theirs>>)>>))
    BY <1>2, <1>4, <1>7
  <2>2. PICK b, e, a : b = doc[m].body[p].body /\ e = <<Entry(<<Theirs>>)>> /\ a = insertAll(b, e)
    OBVIOUS
  <2>3. IsTokens(b) /\ (strict => Alternates(b))
    BY <1>5, <2>2 DEF IsEvent
  <2>4. IsTokens(e) /\ Len(e) = 1 /\ \A j \in DOMAIN e : e[j].kind # "sep"
    BY <1>6, <2>2
  <2>5. IsTokens(a) /\ (strict => Alternates(a))
    BY <2>2, <2>3, <2>4, InsertedTokens
  <2>6. EventReplaced(r, doc, m, p, a)
    BY <2>1, <2>2
  <2>7. QED
    BY <1>1, <1>4, <2>5, <2>6, EventEdited
<1>8. CASE \E p \in Items(Hooks(doc)) :
             EventReplaced(r, doc, Member(doc, "hooks"), p, <<Entry(<<Theirs, Dira>>)>>)
  <2>1. PICK p \in Items(doc[m].body) : EventReplaced(r, doc, m, p, <<Entry(<<Theirs, Dira>>)>>)
    BY <1>2, <1>4, <1>8
  <2>2. PICK a : a = <<Entry(<<Theirs, Dira>>)>>
    OBVIOUS
  <2>3. IsTokens(a) /\ Alternates(a)
    BY <1>6, <2>2
  <2>4. EventReplaced(r, doc, m, p, a)
    BY <2>1, <2>2
  <2>5. QED
    BY <1>1, <1>4, <2>3, <2>4, EventEdited
<1>9. QED
  BY <1>1, <1>7, <1>8

\* The positions of a set are counted upwards in one way only.
LEMMA CountedAlike ==
  ASSUME NEW K, \A p \in K : p \in Nat, NEW n \in Nat, NEW h, Ascending(h, n, K), NEW m \in Nat, NEW g, Ascending(g, m, K)
  PROVE  n <= m /\ Alike(h, g, n)
<1> DEFINE S == {i \in 0 .. n : i <= m /\ \A j \in 1 .. i : h[j] = g[j]}
<1>1. 0 \in S
  OBVIOUS
<1>2. ASSUME NEW i \in 1 .. n, i - 1 \in S PROVE i \in S
  <2>1. i - 1 <= m /\ \A j \in 1 .. i - 1 : h[j] = g[j]
    BY <1>2
  <2>2. /\ \A j \in 1 .. n : h[j] \in K /\ h[j] \in Nat
        /\ \A j, k \in 1 .. n : j < k => h[j] < h[k]
        /\ \A p \in K : \E j \in 1 .. n : h[j] = p
    BY DEF Ascending
  <2>3. /\ \A j \in 1 .. m : g[j] \in K /\ g[j] \in Nat
        /\ \A j, k \in 1 .. m : j < k => g[j] < g[k]
        /\ \A p \in K : \E j \in 1 .. m : g[j] = p
    BY DEF Ascending
  <2> HIDE DEF S
  <2>4. PICK a \in 1 .. m : g[a] = h[i]
    BY <2>2, <2>3
  <2>5. a >= i
    <3>1. SUFFICES ASSUME a < i PROVE FALSE
      OBVIOUS
    <3>2. a \in 1 .. i - 1 /\ a \in 1 .. n
      BY <3>1
    <3>3. h[a] = h[i] /\ h[a] < h[i] /\ h[i] \in Nat
      BY <2>1, <2>2, <2>4, <3>1, <3>2
    <3>4. QED
      BY <3>3
  <2>6. i \in 1 .. m
    BY <2>5
  <2>7. PICK b \in 1 .. n : h[b] = g[i]
    BY <2>2, <2>3, <2>6
  <2>8. b >= i
    <3>1. SUFFICES ASSUME b < i PROVE FALSE
      OBVIOUS
    <3>2. b \in 1 .. i - 1 /\ b \in 1 .. m
      BY <2>6, <3>1
    <3>3. g[b] = g[i] /\ g[b] < g[i] /\ g[i] \in Nat
      BY <2>1, <2>3, <2>6, <2>7, <3>1, <3>2
    <3>4. QED
      BY <3>3
  <2>9. g[i] <= h[i] /\ g[i] \in Nat /\ h[i] \in Nat
    <3>1. i = a \/ i < a
      BY <2>5
    <3>2. QED
      BY <2>2, <2>3, <2>4, <2>6, <3>1
  <2>10. h[i] <= g[i]
    <3>1. i = b \/ i < b
      BY <2>8
    <3>2. QED
      BY <2>2, <2>3, <2>6, <2>7, <3>1
  <2>11. \A j \in 1 .. i : h[j] = g[j]
    <3>1. h[i] = g[i]
      BY <2>9, <2>10
    <3>2. \A j \in 1 .. i : j = i \/ j \in 1 .. i - 1
      OBVIOUS
    <3>3. QED
      BY <2>1, <3>1, <3>2
  <2>12. QED
    BY <2>6, <2>11 DEF S
<1> HIDE DEF S
<1>3. \A i \in 0 .. n : i \in S
  BY <1>1, <1>2, CountedUp
<1>4. n \in S
  BY <1>3
<1>5. QED
  BY <1>4 DEF S, Alike

\* What is kept is what any such count comes upon.
LEMMA KeptAsCounted ==
  ASSUME NEW body, IsSeq(body), NEW K \in SUBSET DOMAIN body, NEW n \in Nat, NEW h, Ascending(h, n, K)
  PROVE  Kept(body, K) = [i \in 1 .. n |-> body[h[i]]]
<1>1. PICK m \in Nat : \E g : Ascending(g, m, K) /\ Kept(body, K) = [i \in 1 .. m |-> body[g[i]]]
  BY KeptInOrder
<1>2. PICK g : Ascending(g, m, K) /\ Kept(body, K) = [i \in 1 .. m |-> body[g[i]]]
  BY <1>1
<1>3. \A p \in K : p \in Nat
  BY SeqDomain
<1>4. n <= m /\ Alike(h, g, n)
  BY <1>2, <1>3, CountedAlike
<1>5. m <= n
  BY <1>2, <1>3, CountedAlike
<1>6. n = m
  BY <1>4, <1>5
<1>7. QED
  BY <1>2, <1>4, <1>6 DEF Alike

\* Two lists in which the same is at the positions kept, in one and the same order.
LEMMA KeptAlike ==
  ASSUME NEW a, IsSeq(a), NEW J \in SUBSET DOMAIN a, NEW b, IsSeq(b), NEW K \in SUBSET DOMAIN b,
         NEW g, \A p \in J : g[p] \in K /\ a[p] = b[g[p]],
         \A p, q \in J : p < q => g[p] < g[q],
         \A q \in K : \E p \in J : g[p] = q
  PROVE  Kept(a, J) = Kept(b, K)
<1>1. PICK n \in Nat : \E h : Ascending(h, n, J) /\ Kept(a, J) = [i \in 1 .. n |-> a[h[i]]]
  BY KeptInOrder
<1>2. PICK h : Ascending(h, n, J) /\ Kept(a, J) = [i \in 1 .. n |-> a[h[i]]]
  BY <1>1
<1>3. /\ \A i \in 1 .. n : h[i] \in J
      /\ \A i, j \in 1 .. n : i < j => h[i] < h[j]
      /\ \A p \in J : \E i \in 1 .. n : h[i] = p
  BY <1>2 DEF Ascending
<1> DEFINE k == [i \in 1 .. n |-> g[h[i]]]
<1>4. Ascending(k, n, K)
  <2>1. k \in [1 .. n -> K]
    BY <1>3
  <2>2. \A i, j \in 1 .. n : i < j => k[i] < k[j]
    BY <1>3
  <2>3. \A q \in K : \E i \in 1 .. n : k[i] = q
    BY <1>3
  <2>4. QED
    BY <2>1, <2>2, <2>3 DEF Ascending
<1>5. \A i \in 1 .. n : a[h[i]] = b[k[i]]
  BY <1>3
<1> HIDE DEF k
<1>6. Kept(b, K) = [i \in 1 .. n |-> b[k[i]]]
  BY <1>4, KeptAsCounted
<1>7. QED
  BY <1>2, <1>5, <1>6

LEMMA KeptInPlace ==
  ASSUME NEW a, IsSeq(a), NEW K \in SUBSET DOMAIN a, NEW b, IsSeq(b), K \in SUBSET DOMAIN b,
         \A p \in K : a[p] = b[p]
  PROVE  Kept(a, K) = Kept(b, K)
<1> DEFINE g == [p \in K |-> p]
<1>1. /\ \A p \in K : g[p] \in K /\ a[p] = b[g[p]]
      /\ \A p, q \in K : p < q => g[p] < g[q]
      /\ \A q \in K : \E p \in K : g[p] = q
  OBVIOUS
<1> HIDE DEF g
<1>2. QED
  BY <1>1, KeptAlike

\* Where nothing is kept nothing is left, and only there.
LEMMA NothingKept ==
  ASSUME NEW body, IsSeq(body), NEW K \in SUBSET DOMAIN body
  PROVE  Kept(body, K) = <<>> <=> K = {}
<1>1. PICK n \in Nat : \E h : Ascending(h, n, K) /\ Kept(body, K) = [i \in 1 .. n |-> body[h[i]]]
  BY KeptInOrder
<1>2. PICK h : Ascending(h, n, K) /\ Kept(body, K) = [i \in 1 .. n |-> body[h[i]]]
  BY <1>1
<1>3. CASE n = 0
  <2>1. K = {}
    BY <1>2, <1>3 DEF Ascending
  <2>2. Kept(body, K) = <<>>
    BY <1>2, <1>3
  <2>3. QED
    BY <2>1, <2>2
<1>4. CASE n # 0
  <2>1. h[1] \in K /\ 1 \in 1 .. n
    BY <1>2, <1>4 DEF Ascending
  <2>2. DOMAIN Kept(body, K) = 1 .. n
    BY <1>2
  <2>3. Kept(body, K) # <<>>
    <3>1. DOMAIN <<>> = {}
      OBVIOUS
    <3>2. QED
      BY <2>1, <2>2, <3>1
  <2>4. QED
    BY <2>1, <2>3
<1>5. QED
  BY <1>3, <1>4

LEMMA ListIsSeq ==
  ASSUME NEW n \in Nat, NEW s, s = [p \in 1 .. n |-> s[p]]
  PROVE  IsSeq(s) /\ DOMAIN s = 1 .. n
<1>1. DOMAIN s = 1 .. n
  OBVIOUS
<1>2. \A p \in 1 .. n : s[p] \in Range(s)
  BY <1>1 DEF Range
<1>3. s \in [1 .. n -> Range(s)]
  BY <1>1, <1>2
<1>4. s \in Seq(Range(s))
  BY <1>3
<1>5. QED
  BY <1>1, <1>4 DEF IsSeq


\* A choice by the tokens comes to the same after a deletion as before, where
\* nothing chosen is deleted.
LEMMA ChosenOfDeleted ==
  ASSUME NEW body, IsTokens(body), NEW P \in SUBSET Items(body), NEW r, r = deleteAll(body, P),
         NEW a, IsSeq(a), DOMAIN a = DOMAIN body, NEW b, IsSeq(b), DOMAIN b = DOMAIN r,
         NEW J \in SUBSET (Items(body) \ P), NEW K \in SUBSET DOMAIN r,
         \A i \in DOMAIN r, p \in DOMAIN body \ P : r[i] = body[p] => (i \in K <=> p \in J) /\ b[i] = a[p]
  PROVE  Kept(b, K) = Kept(a, J)
<1>1. PICK D : D = DOMAIN body \ removalSpans(body, P)
  OBVIOUS
<1>2. IsSeq(body) /\ D \in SUBSET DOMAIN body
  BY <1>1 DEF IsTokens
<1>3. PICK n \in Nat : \E h : Ascending(h, n, D) /\ Kept(body, D) = [i \in 1 .. n |-> body[h[i]]]
  BY <1>2, KeptInOrder
<1>4. PICK h : Ascending(h, n, D) /\ Kept(body, D) = [i \in 1 .. n |-> body[h[i]]]
  BY <1>3
<1>5. r = [i \in 1 .. n |-> body[h[i]]]
  BY <1>1, <1>4 DEF deleteAll
<1>6. DOMAIN r = 1 .. n /\ \A i \in 1 .. n : r[i] = body[h[i]]
  BY <1>5
<1>7. Items(body) \cap removalSpans(body, P) = P
  BY <1>2, SpansTakeTheirItems
<1>8. \A p \in D : p \in DOMAIN body \ P
  BY <1>1, <1>7 DEF Items
<1>9. \A p \in J : p \in D
  BY <1>1, <1>7 DEF Items
<1>10. /\ \A i \in 1 .. n : h[i] \in D
       /\ \A i, j \in 1 .. n : i < j => h[i] < h[j]
       /\ \A p \in D : \E i \in 1 .. n : h[i] = p
  BY <1>4 DEF Ascending
<1>11. ASSUME NEW i \in 1 .. n PROVE (i \in K <=> h[i] \in J) /\ b[i] = a[h[i]]
  BY <1>6, <1>8, <1>10
<1>12. \A i \in K : h[i] \in J /\ b[i] = a[h[i]]
  BY <1>6, <1>11
<1>13. \A i, j \in K : i < j => h[i] < h[j]
  BY <1>6, <1>10
<1>14. \A p \in J : \E i \in K : h[i] = p
  BY <1>9, <1>10, <1>11
<1>15. K \in SUBSET DOMAIN b /\ J \in SUBSET DOMAIN a
  BY DEF Items
<1>16. QED
  BY <1>12, <1>13, <1>14, <1>15, KeptAlike

\* Where the items are after an insertion.
LEMMA InsertedPlaces ==
  ASSUME NEW body, IsTokens(body), NEW items, IsTokens(items),
         \A j \in DOMAIN items : items[j].kind # "sep", NEW r, r = insertAll(body, items)
  PROVE  /\ IsTokens(r)
         /\ \A p \in Items(body) : p \in Items(r) /\ r[p] = body[p]
         /\ \A p \in Items(r) : p \notin Items(body) => \E j \in DOMAIN items : r[p] = items[j]
<1>1. CASE Items(body) = {}
  <2>1. /\ IsTokens(r) /\ Items(r) = DOMAIN items
        /\ \A j \in DOMAIN items : r[j] = items[j]
    BY <1>1, InsertedFirst
  <2>2. QED
    BY <1>1, <2>1
<1>2. CASE Items(body) # {}
  <2>0. IsSeq(body) /\ IsSeq(items) /\ DOMAIN items = 1 .. Len(items)
    BY SeqDomain DEF IsTokens
  <2>1. PICK last : Spliced(r, body, items, last)
    BY <1>2, <2>0, InsertionSplices
  <2>2. /\ IsTokens(r)
        /\ Items(r) = Items(body) \cup {last + 3 * j : j \in 1 .. Len(items)}
    BY <2>1, SplicedTokens
  <2>3. ASSUME NEW q \in Items(body) PROVE r[q] = body[q]
    <3>1. Len(body) \in Nat /\ DOMAIN body = 1 .. Len(body)
      BY <2>0, SeqDomain
    <3>2. last \in Items(body) /\ \A p \in Items(body) : p <= last
      BY <2>1 DEF Spliced
    <3>3. q \in 1 .. Len(body)
      BY <3>1 DEF Items
    <3>4. q \in 1 .. last
      BY <3>1, <3>2, <3>3
    <3>5. QED
      BY <2>1, <3>4 DEF Spliced
  <2>4. \A j \in 1 .. Len(items) : r[last + 3 * j] = items[j]
    BY <2>1 DEF Spliced
  <2>5. QED
    BY <2>0, <2>2, <2>3, <2>4
<1>3. QED
  BY <1>1, <1>2

\* The entries that are not wholly dira's, of an event.
LEMMA ForeignOfDeleted ==
  ASSUME NEW array, IsTokens(array)
  PROVE  Foreign(deleteAll(array, OwnedIn(array))) = Foreign(array)
<1>1. PICK P, r : P = OwnedIn(array) /\ r = deleteAll(array, P)
  OBVIOUS
<1>2. P \in SUBSET Items(array)
  BY <1>1 DEF OwnedIn
<1>3. IsTokens(r)
  BY <1>1, <1>2, DeletedTokens
<1>4. PICK J, K : J = Items(array) \ P /\ K = Items(r) \ OwnedIn(r)
  OBVIOUS
<1>5. J \in SUBSET (Items(array) \ P) /\ K \in SUBSET DOMAIN r
  BY <1>4 DEF Items
<1>6. ASSUME NEW i \in DOMAIN r, NEW p \in DOMAIN array \ P, r[i] = array[p]
      PROVE  (i \in K <=> p \in J) /\ r[i] = array[p]
  <2>1. i \in K <=> r[i].kind # "sep" /\ ~WhollyOwned(r[i])
    BY <1>4 DEF Items, OwnedIn
  <2>2. p \in J <=> array[p].kind # "sep" /\ ~WhollyOwned(array[p])
    BY <1>1, <1>4 DEF Items, OwnedIn
  <2>3. QED
    BY <1>6, <2>1, <2>2
<1>7. Kept(r, K) = Kept(array, J)
  BY <1>1, <1>2, <1>3, <1>5, <1>6, ChosenOfDeleted DEF IsTokens
<1>8. QED
  BY <1>1, <1>4, <1>7 DEF Foreign

LEMMA ForeignOfInserted ==
  ASSUME NEW array, IsTokens(array), NEW items, IsTokens(items),
         \A j \in DOMAIN items : items[j].kind # "sep" /\ WhollyOwned(items[j])
  PROVE  Foreign(insertAll(array, items)) = Foreign(array)
<1>1. PICK r : r = insertAll(array, items)
  OBVIOUS
<1>2. /\ IsTokens(r)
      /\ \A p \in Items(array) : p \in Items(r) /\ r[p] = array[p]
      /\ \A p \in Items(r) : p \notin Items(array) => \E j \in DOMAIN items : r[p] = items[j]
  BY <1>1, InsertedPlaces
<1>3. PICK K : K = Items(array) \ OwnedIn(array)
  OBVIOUS
<1>4. Items(r) \ OwnedIn(r) = K
  <2>1. ASSUME NEW p \in K PROVE p \in Items(r) /\ p \notin OwnedIn(r)
    BY <1>2, <1>3 DEF OwnedIn
  <2>2. ASSUME NEW p \in Items(r), p \notin OwnedIn(r) PROVE p \in K
    <3>1. ~WhollyOwned(r[p])
      BY <2>2 DEF OwnedIn
    <3>2. p \in Items(array) /\ r[p] = array[p]
      BY <1>2, <3>1
    <3>3. QED
      BY <1>3, <3>1, <3>2 DEF OwnedIn
  <2>3. QED
    BY <2>1, <2>2
<1>5. K \in SUBSET DOMAIN r /\ K \in SUBSET DOMAIN array /\ \A p \in K : r[p] = array[p]
  BY <1>2, <1>3 DEF Items
<1>6. Kept(r, K) = Kept(array, K)
  BY <1>2, <1>5, KeptInPlace DEF IsTokens
<1>7. QED
  BY <1>1, <1>3, <1>4, <1>6 DEF Foreign

\* The members of "hooks" as far as they are not dira's, and which of them count.
OthersOf(hooks) == [p \in DOMAIN hooks |-> [hooks[p] EXCEPT !.body = Foreign(@)]]
Chosen(hooks) == {p \in Items(hooks) : hooks[p].kind # "array" \/ Foreign(hooks[p].body) # <<>>}

LEMMA ShownEvents ==
  ASSUME NEW hooks, IsTokens(hooks)
  PROVE  /\ ForeignEvents(hooks) = Kept(OthersOf(hooks), Chosen(hooks))
         /\ IsSeq(OthersOf(hooks)) /\ DOMAIN OthersOf(hooks) = DOMAIN hooks
         /\ \A p \in DOMAIN hooks : OthersOf(hooks)[p] = Token(hooks[p].key, hooks[p].kind, Foreign(hooks[p].body))
         /\ Chosen(hooks) \in SUBSET DOMAIN hooks /\ Chosen(hooks) \in SUBSET Items(hooks)
<1>1. PICK s : s = OthersOf(hooks)
  OBVIOUS
<1>2. s = [p \in DOMAIN hooks |-> [hooks[p] EXCEPT !.body = Foreign(@)]]
  BY <1>1 DEF OthersOf
<1>3. DOMAIN s = DOMAIN hooks /\ s = [p \in DOMAIN hooks |-> s[p]]
  BY <1>2
<1>4. Len(hooks) \in Nat /\ DOMAIN hooks = 1 .. Len(hooks)
  BY SeqDomain DEF IsTokens
<1>5. IsSeq(s)
  BY <1>3, <1>4, ListIsSeq
<1>6. ASSUME NEW p \in DOMAIN hooks PROVE s[p] = Token(hooks[p].key, hooks[p].kind, Foreign(hooks[p].body))
  <2>1. PICK t, b : t = hooks[p] /\ b = Foreign(hooks[p].body)
    OBVIOUS
  <2>2. s[p] = [t EXCEPT !.body = b]
    BY <1>2, <2>1
  <2>3. IsToken(t)
    BY <2>1 DEF IsTokens
  <2>4. s[p] = Token(t.key, t.kind, b)
    BY <2>2, <2>3, TokenFields
  <2>5. QED
    BY <2>1, <2>4
<1>7. ForeignEvents(hooks) = Kept(s, Chosen(hooks))
  BY <1>2 DEF ForeignEvents, Chosen
<1>8. Chosen(hooks) \in SUBSET DOMAIN hooks /\ Chosen(hooks) \in SUBSET Items(hooks)
  BY DEF Chosen, Items
<1>9. QED
  BY <1>1, <1>3, <1>5, <1>6, <1>7, <1>8


LEMMA ForeignEventsRefilled ==
  ASSUME NEW hooks, IsTokens(hooks), NEW r, Refilled(r, hooks),
         \A p \in Items(hooks) : Foreign(r[p].body) = Foreign(hooks[p].body)
  PROVE  ForeignEvents(r) = ForeignEvents(hooks)
<1>1. /\ IsTokens(r) /\ DOMAIN r = DOMAIN hooks /\ Items(r) = Items(hooks)
      /\ \A p \in DOMAIN hooks : r[p].key = hooks[p].key /\ r[p].kind = hooks[p].kind
  BY RefilledTokens
<1>2. Chosen(r) = Chosen(hooks)
  <2>1. \A p \in Items(hooks) : p \in DOMAIN hooks
    BY DEF Items
  <2>2. QED
    BY <1>1, <2>1 DEF Chosen
<1>3. PICK K : K = Chosen(hooks)
  OBVIOUS
<1>4. /\ ForeignEvents(hooks) = Kept(OthersOf(hooks), K)
      /\ IsSeq(OthersOf(hooks)) /\ DOMAIN OthersOf(hooks) = DOMAIN hooks
      /\ \A p \in DOMAIN hooks : OthersOf(hooks)[p] = Token(hooks[p].key, hooks[p].kind, Foreign(hooks[p].body))
      /\ K \in SUBSET DOMAIN hooks /\ K \in SUBSET Items(hooks)
  BY <1>3, ShownEvents
<1>5. /\ ForeignEvents(r) = Kept(OthersOf(r), K)
      /\ IsSeq(OthersOf(r)) /\ DOMAIN OthersOf(r) = DOMAIN r
      /\ \A p \in DOMAIN r : OthersOf(r)[p] = Token(r[p].key, r[p].kind, Foreign(r[p].body))
  BY <1>1, <1>2, <1>3, ShownEvents
<1>6. \A p \in K : OthersOf(r)[p] = OthersOf(hooks)[p]
  BY <1>1, <1>4, <1>5
<1>7. PICK a, b : a = OthersOf(r) /\ b = OthersOf(hooks)
  OBVIOUS
<1>8. Kept(a, K) = Kept(b, K)
  BY <1>1, <1>4, <1>5, <1>6, <1>7, KeptInPlace
<1>9. QED
  BY <1>4, <1>5, <1>7, <1>8

LEMMA ForeignEventsInserted ==
  ASSUME NEW hooks, IsTokens(hooks), NEW items, IsTokens(items),
         \A j \in DOMAIN items : items[j].kind = "array" /\ Foreign(items[j].body) = <<>>
  PROVE  ForeignEvents(insertAll(hooks, items)) = ForeignEvents(hooks)
<1>1. PICK r : r = insertAll(hooks, items)
  OBVIOUS
<1>2. /\ IsTokens(r)
      /\ \A p \in Items(hooks) : p \in Items(r) /\ r[p] = hooks[p]
      /\ \A p \in Items(r) : p \notin Items(hooks) => \E j \in DOMAIN items : r[p] = items[j]
  BY <1>1, InsertedPlaces
<1>3. Chosen(r) = Chosen(hooks)
  <2>1. ASSUME NEW p \in Chosen(hooks) PROVE p \in Chosen(r)
    BY <1>2 DEF Chosen
  <2>2. ASSUME NEW p \in Chosen(r) PROVE p \in Chosen(hooks)
    <3>1. p \in Items(r) /\ (r[p].kind # "array" \/ Foreign(r[p].body) # <<>>)
      BY DEF Chosen
    <3>2. p \in Items(hooks) /\ r[p] = hooks[p]
      BY <1>2, <3>1
    <3>3. QED
      BY <3>1, <3>2 DEF Chosen
  <2>3. QED
    BY <2>1, <2>2
<1>4. PICK K : K = Chosen(hooks)
  OBVIOUS
<1>5. /\ ForeignEvents(hooks) = Kept(OthersOf(hooks), K)
      /\ IsSeq(OthersOf(hooks)) /\ DOMAIN OthersOf(hooks) = DOMAIN hooks
      /\ \A p \in DOMAIN hooks : OthersOf(hooks)[p] = Token(hooks[p].key, hooks[p].kind, Foreign(hooks[p].body))
      /\ K \in SUBSET DOMAIN hooks /\ K \in SUBSET Items(hooks)
  BY <1>4, ShownEvents
<1>6. /\ ForeignEvents(r) = Kept(OthersOf(r), K)
      /\ IsSeq(OthersOf(r)) /\ DOMAIN OthersOf(r) = DOMAIN r
      /\ \A p \in DOMAIN r : OthersOf(r)[p] = Token(r[p].key, r[p].kind, Foreign(r[p].body))
      /\ K \in SUBSET DOMAIN r
  BY <1>2, <1>3, <1>4, ShownEvents
<1>7. \A p \in K : OthersOf(r)[p] = OthersOf(hooks)[p]
  BY <1>2, <1>5, <1>6
<1>8. PICK a, b : a = OthersOf(r) /\ b = OthersOf(hooks)
  OBVIOUS
<1>9. Kept(a, K) = Kept(b, K)
  BY <1>5, <1>6, <1>7, <1>8, KeptInPlace
<1>10. QED
  BY <1>1, <1>5, <1>6, <1>8, <1>9

LEMMA ForeignEventsDeleted ==
  ASSUME NEW hooks, IsTokens(hooks), NEW P \in SUBSET Items(hooks),
         \A p \in P : hooks[p].kind = "array" /\ Foreign(hooks[p].body) = <<>>
  PROVE  ForeignEvents(deleteAll(hooks, P)) = ForeignEvents(hooks)
<1>1. PICK r : r = deleteAll(hooks, P)
  OBVIOUS
<1>2. IsTokens(r)
  BY <1>1, DeletedTokens
<1>3. PICK J, K, a, b : J = Chosen(hooks) /\ K = Chosen(r) /\ a = OthersOf(hooks) /\ b = OthersOf(r)
  OBVIOUS
<1>4. /\ ForeignEvents(hooks) = Kept(a, J)
      /\ IsSeq(a) /\ DOMAIN a = DOMAIN hooks
      /\ \A p \in DOMAIN hooks : a[p] = Token(hooks[p].key, hooks[p].kind, Foreign(hooks[p].body))
      /\ J \in SUBSET Items(hooks)
  BY <1>3, ShownEvents
<1>5. /\ ForeignEvents(r) = Kept(b, K)
      /\ IsSeq(b) /\ DOMAIN b = DOMAIN r
      /\ \A p \in DOMAIN r : b[p] = Token(r[p].key, r[p].kind, Foreign(r[p].body))
      /\ K \in SUBSET DOMAIN r
  BY <1>2, <1>3, ShownEvents
<1>6. J \in SUBSET (Items(hooks) \ P)
  BY <1>3, <1>4 DEF Chosen
<1>7. ASSUME NEW i \in DOMAIN r, NEW p \in DOMAIN hooks \ P, r[i] = hooks[p]
      PROVE  (i \in K <=> p \in J) /\ b[i] = a[p]
  <2>1. i \in K <=> r[i].kind # "sep" /\ (r[i].kind # "array" \/ Foreign(r[i].body) # <<>>)
    BY <1>3 DEF Chosen, Items
  <2>2. p \in J <=> hooks[p].kind # "sep" /\ (hooks[p].kind # "array" \/ Foreign(hooks[p].body) # <<>>)
    BY <1>3 DEF Chosen, Items
  <2>3. b[i] = a[p]
    BY <1>4, <1>5, <1>7
  <2>4. QED
    BY <1>7, <2>1, <2>2, <2>3
<1>8. Kept(b, K) = Kept(a, J)
  BY <1>1, <1>4, <1>5, <1>6, <1>7, ChosenOfDeleted
<1>9. QED
  BY <1>1, <1>4, <1>5, <1>8

\* An entry with dira's command alone is wholly dira's.
LEMMA OwnEntryIsOwned ==
  /\ WhollyOwned(Entry(<<Dira>>)) /\ OwnedIn(<<Entry(<<Dira>>)>>) = {1} /\ Items(<<Entry(<<Dira>>)>>) = {1}
  /\ Foreign(<<Entry(<<Dira>>)>>) = <<>>
<1>1. PICK e, s : e = Entry(<<Dira>>) /\ s = <<e>>
  OBVIOUS
<1>2. IsToken(e) /\ e.kind # "sep" /\ e.body = <<Dira>>
  BY <1>1, EntriesAreTokens
<1>3. IsTokens(s) /\ Items(s) = {1} /\ s[1] = e
  BY <1>1, <1>2, OneItem
<1>4. WhollyOwned(e)
  <2>1. ToSet(<<Dira>>) = {Dira} /\ <<Dira>> # <<>>
    BY DEF ToSet
  <2>2. QED
    BY <1>2, <2>1 DEF WhollyOwned
<1>5. OwnedIn(s) = {1}
  BY <1>3, <1>4 DEF OwnedIn
<1>6. PICK K : K = Items(s) \ OwnedIn(s)
  OBVIOUS
<1>7. K = {} /\ IsSeq(s) /\ K \in SUBSET DOMAIN s
  BY <1>3, <1>5, <1>6 DEF IsTokens
<1>8. Kept(s, K) = <<>>
  BY <1>7, NothingKept
<1>9. QED
  BY <1>1, <1>3, <1>4, <1>5, <1>6, <1>8 DEF Foreign

\* The events dira adds.
LEMMA NewEventsListed ==
  ASSUME NEW hooks
  PROVE  /\ IsTokens(NewEvents(hooks))
         /\ \A j \in DOMAIN NewEvents(hooks) :
               \E k \in DOMAIN Events : Member(hooks, Events[k]) = 0 /\ NewEvents(hooks)[j] = AllEvents[k]
         /\ \A j \in DOMAIN NewEvents(hooks) :
               /\ NewEvents(hooks)[j].kind = "array" /\ NewEvents(hooks)[j].kind # "sep"
               /\ NewEvents(hooks)[j].body = <<Entry(<<Dira>>)>>
               /\ Foreign(NewEvents(hooks)[j].body) = <<>>
<1>1. PICK K, all, missing : /\ K = {k \in DOMAIN Events : Member(hooks, Events[k]) = 0}
                             /\ all = AllEvents /\ missing = NewEvents(hooks)
  OBVIOUS
<1>2. missing = Kept(all, K)
  BY <1>1 DEF NewEvents
<1>3. IsTokens(all) /\ K \in SUBSET DOMAIN all
  BY <1>1, EventTokens
<1>4. IsTokens(missing) /\ \A j \in DOMAIN missing : \E k \in K : missing[j] = all[k]
  BY <1>2, <1>3, KeptTokens
<1>5. ASSUME NEW j \in DOMAIN missing
      PROVE  /\ missing[j].kind = "array" /\ missing[j].kind # "sep"
             /\ missing[j].body = <<Entry(<<Dira>>)>> /\ Foreign(missing[j].body) = <<>>
             /\ \E k \in DOMAIN Events : Member(hooks, Events[k]) = 0 /\ missing[j] = AllEvents[k]
  <2>1. PICK k \in K : missing[j] = all[k]
    BY <1>4
  <2>2. k \in DOMAIN AllEvents /\ k \in DOMAIN Events /\ Member(hooks, Events[k]) = 0
    BY <1>1, <1>3, <2>1
  <2>3. PICK e : e = <<Entry(<<Dira>>)>>
    OBVIOUS
  <2>4. all[k].kind = "array" /\ all[k].body = e
    BY <1>1, <2>2, <2>3, EventTokens
  <2>5. Foreign(e) = <<>>
    BY <2>3, OwnEntryIsOwned
  <2>6. QED
    BY <1>1, <2>1, <2>2, <2>3, <2>4, <2>5
<1>6. QED
  BY <1>1, <1>4, <1>5

\* Neither command changes what is not dira's under "hooks".
LEMMA InstallKeepsEvents ==
  ASSUME NEW hooks, IsHooksBody(FALSE, hooks)
  PROVE  ForeignEvents(WithEvents(hooks)) = ForeignEvents(hooks)
<1>1. IsTokens(hooks) /\ \A q \in Items(hooks) : IsTokens(hooks[q].body)
  BY DEF IsHooksBody, IsEvent
<1>2. PICK f, e : f = Filled(hooks) /\ e = <<Entry(<<Dira>>)>>
  OBVIOUS
<1>3. /\ Refilled(f, hooks) /\ Lacking(hooks) \subseteq Items(hooks)
      /\ \A p \in Lacking(hooks) : f[p].body = insertAll(hooks[p].body, e)
      /\ \A p \in DOMAIN hooks \ Lacking(hooks) : f[p] = hooks[p]
  BY <1>1, <1>2, FilledEvents
<1>4. IsTokens(e) /\ \A j \in DOMAIN e : e[j].kind # "sep" /\ WhollyOwned(e[j])
  <2>1. PICK o : o = Entry(<<Dira>>)
    OBVIOUS
  <2>2. WhollyOwned(o) /\ o.kind # "sep" /\ e = <<o>> /\ IsTokens(e)
    BY <1>2, <2>1, OwnEntry, OwnEntryIsOwned
  <2>3. QED
    BY <2>2
<1>5. ASSUME NEW p \in Items(hooks) PROVE Foreign(f[p].body) = Foreign(hooks[p].body)
  <2>1. p \in DOMAIN hooks /\ IsTokens(hooks[p].body)
    BY <1>1 DEF Items
  <2>2. CASE p \in Lacking(hooks)
    <3>1. PICK b : b = hooks[p].body
      OBVIOUS
    <3>2. f[p].body = insertAll(b, e) /\ IsTokens(b)
      BY <1>3, <2>1, <2>2, <3>1
    <3>3. Foreign(insertAll(b, e)) = Foreign(b)
      BY <1>4, <3>2, ForeignOfInserted
    <3>4. QED
      BY <3>1, <3>2, <3>3
  <2>3. CASE p \notin Lacking(hooks)
    BY <1>3, <2>1, <2>3
  <2>4. QED
    BY <2>2, <2>3
<1>6. IsTokens(f) /\ ForeignEvents(f) = ForeignEvents(hooks)
  BY <1>1, <1>3, <1>5, RefilledTokens, ForeignEventsRefilled
<1>7. PICK missing : missing = NewEvents(hooks)
  OBVIOUS
<1>8. CASE missing = <<>>
  BY <1>2, <1>6, <1>7, <1>8 DEF WithEvents
<1>9. CASE missing # <<>>
  <2>1. WithEvents(hooks) = insertAll(f, missing)
    BY <1>2, <1>7, <1>9 DEF WithEvents
  <2>2. IsTokens(missing) /\ \A j \in DOMAIN missing : missing[j].kind = "array" /\ Foreign(missing[j].body) = <<>>
    BY <1>7, NewEventsListed
  <2>3. ForeignEvents(insertAll(f, missing)) = ForeignEvents(f)
    BY <1>6, <2>2, ForeignEventsInserted
  <2>4. QED
    BY <1>6, <2>1, <2>3
<1>10. QED
  BY <1>8, <1>9

LEMMA UninstallKeepsEvents ==
  ASSUME NEW hooks, IsHooksBody(FALSE, hooks)
  PROVE  /\ ForeignEvents(deleteAll(Pruned(hooks), Emptied(hooks))) = ForeignEvents(hooks)
         /\ Emptied(hooks) = Items(hooks) => ForeignEvents(hooks) = <<>>
<1>1. IsTokens(hooks) /\ \A q \in Items(hooks) : IsTokens(hooks[q].body)
  BY DEF IsHooksBody, IsEvent
<1>2. PICK f, T, E : f = Pruned(hooks) /\ T = Touched(hooks) /\ E = Emptied(hooks)
  OBVIOUS
<1>3. /\ Refilled(f, hooks) /\ T \subseteq Items(hooks)
      /\ \A p \in T \ E : f[p].body = deleteAll(hooks[p].body, OwnedIn(hooks[p].body))
      /\ \A p \in DOMAIN hooks \ (T \ E) : f[p] = hooks[p]
  BY <1>1, <1>2, PrunedBodies
<1>4. ASSUME NEW p \in Items(hooks) PROVE Foreign(f[p].body) = Foreign(hooks[p].body)
  <2>1. p \in DOMAIN hooks /\ IsTokens(hooks[p].body)
    BY <1>1 DEF Items
  <2>2. CASE p \in T \ E
    <3>1. PICK b : b = hooks[p].body
      OBVIOUS
    <3>2. f[p].body = deleteAll(b, OwnedIn(b)) /\ IsTokens(b)
      BY <1>3, <2>1, <2>2, <3>1
    <3>3. QED
      BY <3>1, <3>2, ForeignOfDeleted
  <2>3. CASE p \notin T \ E
    BY <1>3, <2>1, <2>3
  <2>4. QED
    BY <2>2, <2>3
<1>5. /\ IsTokens(f) /\ ForeignEvents(f) = ForeignEvents(hooks)
      /\ Items(f) = Items(hooks)
  BY <1>1, <1>3, <1>4, RefilledTokens, ForeignEventsRefilled
<1>6. ASSUME NEW p \in E
      PROVE  /\ p \in Items(hooks) /\ p \in DOMAIN hooks /\ f[p] = hooks[p]
             /\ hooks[p].kind = "array" /\ Foreign(hooks[p].body) = <<>>
  <2>1. /\ p \in Items(hooks) /\ p \in DOMAIN hooks /\ hooks[p].kind = "array"
        /\ OwnedIn(hooks[p].body) = Items(hooks[p].body)
    BY <1>2 DEF Emptied, Touched, Items
  <2>2. f[p] = hooks[p]
    BY <1>3, <2>1
  <2>3. PICK b, K : b = hooks[p].body /\ K = Items(b) \ OwnedIn(b)
    OBVIOUS
  <2>4. K = {} /\ IsSeq(b) /\ K \in SUBSET DOMAIN b
    BY <1>1, <2>1, <2>3 DEF IsTokens
  <2>5. Kept(b, K) = <<>>
    BY <2>4, NothingKept
  <2>6. QED
    BY <2>1, <2>2, <2>3, <2>5 DEF Foreign
<1>7. E \in SUBSET Items(f) /\ \A p \in E : f[p].kind = "array" /\ Foreign(f[p].body) = <<>>
  BY <1>5, <1>6
<1>8. ForeignEvents(deleteAll(f, E)) = ForeignEvents(f)
  BY <1>5, <1>7, ForeignEventsDeleted
<1>9. ASSUME E = Items(hooks) PROVE ForeignEvents(hooks) = <<>>
  <2>1. PICK K, s : K = Chosen(hooks) /\ s = OthersOf(hooks)
    OBVIOUS
  <2>2. /\ ForeignEvents(hooks) = Kept(s, K) /\ IsSeq(s)
        /\ K \in SUBSET DOMAIN s
    BY <1>1, <2>1, ShownEvents
  <2>3. K = {}
    BY <1>6, <1>9, <2>1 DEF Chosen
  <2>4. QED
    BY <2>2, <2>3, NothingKept
<1>10. QED
  BY <1>2, <1>5, <1>8, <1>9

\* The members of a file as far as they are not dira's, and which of them count.
Rest(doc) ==
    [p \in DOMAIN doc |-> IF IsHooks(doc[p]) THEN [doc[p] EXCEPT !.body = ForeignEvents(@)] ELSE doc[p]]
Members(doc) == {p \in Items(doc) : IsHooks(doc[p]) => ForeignEvents(doc[p].body) # <<>>}

\* No file, and a file cut off in the writing, are not files that can be read.
NoDocuments == ~IsTokens(Absent) /\ ~IsTokens(Torn)

LEMMA RestMembers ==
  ASSUME NoDocuments, NEW doc, IsTokens(doc)
  PROVE  /\ NotDiras(doc) = Kept(Rest(doc), Members(doc))
         /\ IsSeq(Rest(doc)) /\ DOMAIN Rest(doc) = DOMAIN doc
         /\ \A p \in DOMAIN doc :
               Rest(doc)[p] = IF IsHooks(doc[p]) THEN Token(doc[p].key, doc[p].kind, ForeignEvents(doc[p].body))
                              ELSE doc[p]
         /\ Members(doc) \in SUBSET DOMAIN doc /\ Members(doc) \in SUBSET Items(doc)
<1>1. PICK s : s = Rest(doc)
  OBVIOUS
<1>2. s = [p \in DOMAIN doc |-> IF IsHooks(doc[p]) THEN [doc[p] EXCEPT !.body = ForeignEvents(@)] ELSE doc[p]]
  BY <1>1 DEF Rest
<1>3. DOMAIN s = DOMAIN doc /\ s = [p \in DOMAIN doc |-> s[p]]
  BY <1>2
<1>4. Len(doc) \in Nat /\ DOMAIN doc = 1 .. Len(doc)
  BY SeqDomain DEF IsTokens
<1>5. IsSeq(s)
  BY <1>3, <1>4, ListIsSeq
<1>6. ASSUME NEW p \in DOMAIN doc
      PROVE  s[p] = IF IsHooks(doc[p]) THEN Token(doc[p].key, doc[p].kind, ForeignEvents(doc[p].body)) ELSE doc[p]
  <2>1. PICK t, b : t = doc[p] /\ b = ForeignEvents(doc[p].body)
    OBVIOUS
  <2>2. s[p] = IF IsHooks(t) THEN [t EXCEPT !.body = b] ELSE t
    BY <1>2, <2>1
  <2>3. IsToken(t)
    BY <2>1 DEF IsTokens
  <2>4. s[p] = IF IsHooks(t) THEN Token(t.key, t.kind, b) ELSE t
    BY <2>2, <2>3, TokenFields
  <2>5. QED
    BY <2>1, <2>4
<1>7. doc \notin {Absent, Torn}
  BY DEF NoDocuments
<1>8. NotDiras(doc) = Kept(s, Members(doc))
  BY <1>2, <1>7 DEF NotDiras, Members
<1>9. Members(doc) \in SUBSET DOMAIN doc /\ Members(doc) \in SUBSET Items(doc)
  BY DEF Members, Items
<1>10. QED
  BY <1>1, <1>3, <1>5, <1>6, <1>8, <1>9

LEMMA OthersReplaced ==
  ASSUME NoDocuments, NEW doc, IsTokens(doc), NEW m \in Items(doc), IsHooks(doc[m]),
         NEW b, NEW r, Replaced(r, doc, m, b), ForeignEvents(b) = ForeignEvents(doc[m].body)
  PROVE  NotDiras(r) = NotDiras(doc)
<1>1. /\ Refilled(r, doc) /\ r[m] = Token(doc[m].key, doc[m].kind, b)
      /\ \A p \in DOMAIN doc \ {m} : r[p] = doc[p]
  BY OneNewBody
<1>2. /\ IsTokens(r) /\ DOMAIN r = DOMAIN doc /\ Items(r) = Items(doc)
  BY <1>1, RefilledTokens
<1>3. r[m].key = doc[m].key /\ r[m].kind = doc[m].kind /\ r[m].body = b /\ m \in DOMAIN doc
  BY <1>1, TokenParts DEF Items
<1>4. IsHooks(r[m]) <=> IsHooks(doc[m])
  BY <1>3 DEF IsHooks
<1>5. PICK K, a, c : K = Members(doc) /\ a = Rest(r) /\ c = Rest(doc)
  OBVIOUS
<1>6. Members(r) = K
  <2>1. \A p \in Items(doc) : p # m => r[p] = doc[p]
    BY <1>1 DEF Items
  <2>2. ForeignEvents(r[m].body) = ForeignEvents(doc[m].body)
    BY <1>3
  <2>3. \A p \in Items(doc) : p \in Members(r) <=> p \in K
    <3>1. ASSUME NEW p \in Items(doc) PROVE p \in Members(r) <=> p \in K
      <4>1. CASE p = m
        BY <1>2, <1>4, <1>5, <2>2, <4>1 DEF Members
      <4>2. CASE p # m
        BY <1>2, <1>5, <2>1, <4>2 DEF Members
      <4>3. QED
        BY <4>1, <4>2
    <3>2. QED
      BY <3>1
  <2>4. \A p \in Members(r) : p \in Items(doc)
    BY <1>2 DEF Members
  <2>5. \A p \in K : p \in Items(doc)
    BY <1>5 DEF Members
  <2>6. QED
    BY <2>3, <2>4, <2>5
<1>7. /\ NotDiras(doc) = Kept(c, K) /\ IsSeq(c) /\ DOMAIN c = DOMAIN doc /\ K \in SUBSET DOMAIN doc
      /\ \A p \in DOMAIN doc :
            c[p] = IF IsHooks(doc[p]) THEN Token(doc[p].key, doc[p].kind, ForeignEvents(doc[p].body)) ELSE doc[p]
  BY <1>5, RestMembers
<1>8. /\ NotDiras(r) = Kept(a, K) /\ IsSeq(a) /\ DOMAIN a = DOMAIN doc
      /\ \A p \in DOMAIN doc :
            a[p] = IF IsHooks(r[p]) THEN Token(r[p].key, r[p].kind, ForeignEvents(r[p].body)) ELSE r[p]
  BY <1>2, <1>5, <1>6, RestMembers
<1>9. ASSUME NEW p \in K PROVE a[p] = c[p]
  <2>1. CASE p = m
    BY <1>3, <1>4, <1>7, <1>8, <2>1
  <2>2. CASE p # m
    BY <1>1, <1>7, <1>8, <2>2
  <2>3. QED
    BY <2>1, <2>2
<1>10. QED
  BY <1>7, <1>8, <1>9, KeptInPlace

LEMMA OthersInserted ==
  ASSUME NoDocuments, NEW doc, IsTokens(doc), NEW items, IsTokens(items),
         \A j \in DOMAIN items : IsHooks(items[j]) /\ ForeignEvents(items[j].body) = <<>>
  PROVE  NotDiras(insertAll(doc, items)) = NotDiras(doc)
<1>1. PICK r : r = insertAll(doc, items)
  OBVIOUS
<1>2. \A j \in DOMAIN items : items[j].kind # "sep"
  BY DEF IsHooks
<1>3. /\ IsTokens(r)
      /\ \A p \in Items(doc) : p \in Items(r) /\ r[p] = doc[p]
      /\ \A p \in Items(r) : p \notin Items(doc) => \E j \in DOMAIN items : r[p] = items[j]
  BY <1>1, <1>2, InsertedPlaces
<1>4. PICK K, a, c : K = Members(doc) /\ a = Rest(r) /\ c = Rest(doc)
  OBVIOUS
<1>5. Members(r) = K
  <2>1. ASSUME NEW p \in K PROVE p \in Members(r)
    BY <1>3, <1>4 DEF Members
  <2>2. ASSUME NEW p \in Members(r) PROVE p \in K
    <3>1. p \in Items(r) /\ (IsHooks(r[p]) => ForeignEvents(r[p].body) # <<>>)
      BY DEF Members
    <3>2. p \in Items(doc) /\ r[p] = doc[p]
      BY <1>3, <3>1
    <3>3. QED
      BY <1>4, <3>1, <3>2 DEF Members
  <2>3. QED
    BY <2>1, <2>2
<1>6. /\ NotDiras(doc) = Kept(c, K) /\ IsSeq(c) /\ DOMAIN c = DOMAIN doc
      /\ K \in SUBSET DOMAIN doc /\ K \in SUBSET Items(doc)
      /\ \A p \in DOMAIN doc :
            c[p] = IF IsHooks(doc[p]) THEN Token(doc[p].key, doc[p].kind, ForeignEvents(doc[p].body)) ELSE doc[p]
  BY <1>4, RestMembers
<1>7. /\ NotDiras(r) = Kept(a, K) /\ IsSeq(a) /\ DOMAIN a = DOMAIN r /\ K \in SUBSET DOMAIN r
      /\ \A p \in DOMAIN r :
            a[p] = IF IsHooks(r[p]) THEN Token(r[p].key, r[p].kind, ForeignEvents(r[p].body)) ELSE r[p]
  BY <1>3, <1>4, <1>5, RestMembers
<1>8. \A p \in K : a[p] = c[p]
  BY <1>3, <1>6, <1>7
<1>9. QED
  BY <1>1, <1>6, <1>7, <1>8, KeptInPlace

LEMMA OthersDeleted ==
  ASSUME NoDocuments, NEW doc, IsTokens(doc), NEW P \in SUBSET Items(doc),
         \A p \in P : IsHooks(doc[p]) /\ ForeignEvents(doc[p].body) = <<>>
  PROVE  NotDiras(deleteAll(doc, P)) = NotDiras(doc)
<1>1. PICK r : r = deleteAll(doc, P)
  OBVIOUS
<1>2. IsTokens(r)
  BY <1>1, DeletedTokens
<1>3. PICK J, K, a, b : J = Members(doc) /\ K = Members(r) /\ a = Rest(doc) /\ b = Rest(r)
  OBVIOUS
<1>4. /\ NotDiras(doc) = Kept(a, J) /\ IsSeq(a) /\ DOMAIN a = DOMAIN doc /\ J \in SUBSET Items(doc)
      /\ \A p \in DOMAIN doc :
            a[p] = IF IsHooks(doc[p]) THEN Token(doc[p].key, doc[p].kind, ForeignEvents(doc[p].body)) ELSE doc[p]
  BY <1>3, RestMembers
<1>5. /\ NotDiras(r) = Kept(b, K) /\ IsSeq(b) /\ DOMAIN b = DOMAIN r /\ K \in SUBSET DOMAIN r
      /\ \A p \in DOMAIN r :
            b[p] = IF IsHooks(r[p]) THEN Token(r[p].key, r[p].kind, ForeignEvents(r[p].body)) ELSE r[p]
  BY <1>2, <1>3, RestMembers
<1>6. J \in SUBSET (Items(doc) \ P)
  BY <1>3, <1>4 DEF Members
<1>7. ASSUME NEW i \in DOMAIN r, NEW p \in DOMAIN doc \ P, r[i] = doc[p]
      PROVE  (i \in K <=> p \in J) /\ b[i] = a[p]
  <2>1. i \in K <=> r[i].kind # "sep" /\ (IsHooks(r[i]) => ForeignEvents(r[i].body) # <<>>)
    BY <1>3 DEF Members, Items
  <2>2. p \in J <=> doc[p].kind # "sep" /\ (IsHooks(doc[p]) => ForeignEvents(doc[p].body) # <<>>)
    BY <1>3 DEF Members, Items
  <2>3. b[i] = a[p]
    BY <1>4, <1>5, <1>7
  <2>4. QED
    BY <1>7, <2>1, <2>2, <2>3
<1>8. Kept(b, K) = Kept(a, J)
  BY <1>1, <1>4, <1>5, <1>6, <1>7, ChosenOfDeleted
<1>9. QED
  BY <1>1, <1>4, <1>5, <1>8

\* The file dira writes where there was none is all dira's.
LEMMA FreshIsDiras ==
  ASSUME NoDocuments
  PROVE  ForeignEvents(hooksMember.body) = <<>> /\ IsHooks(hooksMember) /\ NotDiras(freshSettings) = <<>>
<1>1. PICK t : t = hooksMember
  OBVIOUS
<1>2. PICK body : body = t.body
  OBVIOUS
<1>3. /\ IsHooks(t) /\ IsTokens(body)
      /\ \A p \in Items(body) : \E k \in DOMAIN Events : body[p] = AllEvents[k]
  BY <1>1, <1>2, FreshHooks DEF IsHooks, IsHooksBody
<1>4. ForeignEvents(body) = <<>>
  <2>1. PICK K, s : K = Chosen(body) /\ s = OthersOf(body)
    OBVIOUS
  <2>2. ForeignEvents(body) = Kept(s, K) /\ IsSeq(s) /\ K \in SUBSET DOMAIN s /\ K \in SUBSET Items(body)
    BY <1>3, <2>1, ShownEvents
  <2>3. ASSUME NEW p \in K PROVE FALSE
    <3>1. PICK k \in DOMAIN Events : body[p] = AllEvents[k]
      BY <1>3, <2>2
    <3>2. PICK e : e = <<Entry(<<Dira>>)>>
      OBVIOUS
    <3>3. k \in DOMAIN AllEvents
      BY EventTokens
    <3>4. body[p].kind = "array" /\ body[p].body = e
      BY <3>1, <3>2, <3>3, EventTokens
    <3>5. Foreign(e) = <<>>
      BY <3>2, OwnEntryIsOwned
    <3>6. QED
      BY <2>1, <3>4, <3>5 DEF Chosen
  <2>4. QED
    BY <2>2, <2>3, NothingKept
<1>5. NotDiras(freshSettings) = <<>>
  <2>1. PICK doc, K, s : doc = freshSettings /\ K = Members(doc) /\ s = Rest(doc)
    OBVIOUS
  <2>2. IsTokens(doc) /\ Items(doc) = {2} /\ doc[2] = t
    BY <1>1, <2>1, FreshSettings DEF Sound
  <2>3. NotDiras(doc) = Kept(s, K) /\ IsSeq(s) /\ K \in SUBSET DOMAIN s /\ K \in SUBSET Items(doc)
    BY <2>1, <2>2, RestMembers
  <2>4. K = {}
    BY <1>2, <1>3, <1>4, <2>1, <2>2, <2>3 DEF Members
  <2>5. QED
    BY <2>1, <2>3, <2>4, NothingKept
<1>6. QED
  BY <1>1, <1>2, <1>3, <1>4, <1>5

\* Whichever of the two commands: what is not dira's is as it was.
LEMMA InstallKeepsOthers ==
  ASSUME NoDocuments, NEW doc, doc = Absent \/ doc = Torn \/ Sound(FALSE, doc),
         Install(doc).outcome # "refused"
  PROVE  NotDiras(Install(doc).data) = NotDiras(doc)
<1>1. CASE doc = Absent
  <2>1. Install(doc).data = freshSettings
    BY <1>1 DEF Install
  <2>2. NotDiras(doc) = <<>>
    BY <1>1 DEF NotDiras
  <2>3. QED
    BY <2>1, <2>2, FreshIsDiras
<1>2. CASE doc # Absent
  <2>1. Scans(doc) /\ Install(doc).data = installEdits(doc)
    BY <1>2 DEF Install
  <2>2. Sound(FALSE, doc) /\ IsTokens(doc)
    BY <1>2, <2>1 DEF Scans, Sound
  <2>3. CASE Member(doc, "hooks") = 0
    <3>1. PICK t, one : t = hooksMember /\ one = <<t>>
      OBVIOUS
    <3>2. installEdits(doc) = insertAll(doc, one)
      BY <2>3, <3>1 DEF installEdits
    <3>3. IsHooks(t) /\ ForeignEvents(t.body) = <<>> /\ IsToken(t)
      BY <3>1, FreshIsDiras, FreshHooks
    <3>4. t.kind # "sep"
      BY <3>3 DEF IsHooks
    <3>5. IsTokens(one) /\ DOMAIN one = {1} /\ one[1] = t
      BY <3>1, <3>3, <3>4, OneItem
    <3>6. NotDiras(insertAll(doc, one)) = NotDiras(doc)
      BY <2>2, <3>3, <3>5, OthersInserted
    <3>7. QED
      BY <2>1, <3>2, <3>6
  <2>4. CASE Member(doc, "hooks") # 0
    <3>1. PICK m, h : m = Member(doc, "hooks") /\ h = doc[m].body
      OBVIOUS
    <3>2. m \in Items(doc) /\ IsHooks(doc[m]) /\ m \in DOMAIN doc
      BY <2>1, <2>2, <2>4, <3>1, MemberIsLast DEF Scans, IsHooks, Items
    <3>3. IsHooksBody(FALSE, h)
      BY <2>2, <3>1, <3>2 DEF Sound
    <3>4. PICK b, r : b = WithEvents(h) /\ r = [doc EXCEPT ![m].body = b]
      OBVIOUS
    <3>5. ForeignEvents(b) = ForeignEvents(doc[m].body)
      BY <3>1, <3>3, <3>4, InstallKeepsEvents
    <3>6. Replaced(r, doc, m, b)
      BY <3>4 DEF Replaced
    <3>7. NotDiras(r) = NotDiras(doc)
      BY <2>2, <3>2, <3>5, <3>6, OthersReplaced
    <3>8. r = installEdits(doc)
      <4>1. installEdits(doc) = [doc EXCEPT ![m].body = WithEvents(@)]
        BY <2>4, <3>1 DEF installEdits
      <4>2. [doc EXCEPT ![m].body = WithEvents(@)] = [doc EXCEPT ![m].body = WithEvents(h)]
        BY <3>1, <3>2
      <4>3. QED
        BY <3>4, <4>1, <4>2
    <3>9. QED
      BY <2>1, <3>7, <3>8
  <2>5. QED
    BY <2>3, <2>4
<1>3. QED
  BY <1>1, <1>2

LEMMA UninstallKeepsOthers ==
  ASSUME NoDocuments, NEW doc, doc = Absent \/ doc = Torn \/ Sound(FALSE, doc),
         Uninstall(doc).outcome # "refused"
  PROVE  NotDiras(Uninstall(doc).data) = NotDiras(doc)
<1>1. CASE doc = Absent
  BY <1>1 DEF Uninstall
<1>2. CASE doc # Absent /\ doc = freshSettings
  <2>1. Uninstall(doc).data = Absent
    BY <1>2 DEF Uninstall
  <2>2. NotDiras(Absent) = <<>>
    BY DEF NotDiras
  <2>3. QED
    BY <1>2, <2>1, <2>2, FreshIsDiras
<1>3. CASE doc # Absent /\ doc # freshSettings
  <2>1. Scans(doc) /\ Uninstall(doc).data = uninstallSpans(doc)
    BY <1>3 DEF Uninstall
  <2>2. Sound(FALSE, doc) /\ IsTokens(doc)
    BY <1>3, <2>1 DEF Scans, Sound
  <2>3. PICK m, h : m = Member(doc, "hooks") /\ h = doc[m].body
    OBVIOUS
  <2>4. h = Hooks(doc)
    BY <2>3 DEF Hooks
  <2>5. CASE m = 0 \/ Touched(h) = {}
    BY <2>1, <2>3, <2>4, <2>5 DEF uninstallSpans
  <2>6. CASE m # 0 /\ Touched(h) # {}
    <3>1. m \in Items(doc) /\ IsHooks(doc[m]) /\ m \in DOMAIN doc
      BY <2>1, <2>2, <2>3, <2>6, MemberIsLast DEF Scans, IsHooks, Items
    <3>2. IsHooksBody(FALSE, h)
      BY <2>2, <2>3, <3>1 DEF Sound
    <3>3. PICK f, E : f = Pruned(h) /\ E = Emptied(h)
      OBVIOUS
    <3>4. /\ ForeignEvents(deleteAll(f, E)) = ForeignEvents(h)
          /\ E = Items(h) => ForeignEvents(h) = <<>>
      BY <3>2, <3>3, UninstallKeepsEvents
    <3>5. CASE E = Items(h)
      <4>1. PICK P : P = {m}
        OBVIOUS
      <4>2. uninstallSpans(doc) = deleteAll(doc, P)
        BY <2>3, <2>4, <2>6, <3>3, <3>5, <4>1 DEF uninstallSpans
      <4>3. P \in SUBSET Items(doc) /\ \A p \in P : IsHooks(doc[p]) /\ ForeignEvents(doc[p].body) = <<>>
        BY <2>3, <3>1, <3>4, <3>5, <4>1
      <4>4. NotDiras(deleteAll(doc, P)) = NotDiras(doc)
        BY <2>2, <4>3, OthersDeleted
      <4>5. QED
        BY <2>1, <4>2, <4>4
    <3>6. CASE E # Items(h)
      <4>1. PICK b, r : b = deleteAll(f, E) /\ r = [doc EXCEPT ![m].body = b]
        OBVIOUS
      <4>2. Replaced(r, doc, m, b) /\ ForeignEvents(b) = ForeignEvents(doc[m].body)
        BY <2>3, <3>4, <4>1 DEF Replaced
      <4>3. NotDiras(r) = NotDiras(doc)
        BY <2>2, <3>1, <4>2, OthersReplaced
      <4>4. r = uninstallSpans(doc)
        <5>1. uninstallSpans(doc) = [doc EXCEPT ![m].body = deleteAll(Pruned(@), E)]
          BY <2>3, <2>4, <2>6, <3>3, <3>6 DEF uninstallSpans
        <5>2. [doc EXCEPT ![m].body = deleteAll(Pruned(@), E)] = [doc EXCEPT ![m].body = deleteAll(Pruned(h), E)]
          BY <2>3, <3>1
        <5>3. QED
          BY <3>3, <4>1, <5>1, <5>2
      <4>5. QED
        BY <2>1, <4>3, <4>4
    <3>7. QED
      BY <3>5, <3>6
  <2>7. QED
    BY <2>5, <2>6
<1>4. QED
  BY <1>1, <1>2, <1>3

\* What is left once a piece of r is cut out.
Widened(r, body, last, N) ==
    /\ IsSeq(r) /\ N \in Nat /\ last \in 0 .. Len(body) /\ Len(r) = Len(body) + N
    /\ \A p \in 1 .. last : r[p] = body[p]
    /\ \A p \in last + 1 .. Len(body) : r[p + N] = body[p]
CutOut(D, r, last, N) == D = {p \in DOMAIN r : p \notin last + 1 .. last + N}

LEMMA PieceCut ==
  ASSUME NEW body, IsSeq(body), NEW r, NEW last, NEW N, Widened(r, body, last, N),
         NEW D, CutOut(D, r, last, N)
  PROVE  Kept(r, D) = body
<1>0. /\ IsSeq(r) /\ N \in Nat /\ last \in 0 .. Len(body) /\ Len(r) = Len(body) + N
      /\ \A p \in 1 .. last : r[p] = body[p]
      /\ \A p \in last + 1 .. Len(body) : r[p + N] = body[p]
  BY DEF Widened
<1>1. PICK n : n = Len(body)
  OBVIOUS
<1>2. n \in Nat /\ DOMAIN body = 1 .. n /\ DOMAIN r = 1 .. n + N /\ body = [p \in 1 .. n |-> body[p]] /\ last \in 0 .. n
  BY <1>0, <1>1, SeqDomain
<1>3. \A p : p \in D <=> p \in 1 .. n + N /\ p \notin last + 1 .. last + N
  BY <1>0, <1>2 DEF CutOut
<1> DEFINE h == [i \in 1 .. n |-> IF i <= last THEN i ELSE i + N]
<1>4. Ascending(h, n, D)
  <2>1. h \in [1 .. n -> D]
    <3>1. ASSUME NEW i \in 1 .. n PROVE h[i] \in D
      <4>1. CASE i <= last
        <5>1. h[i] = i /\ i \in 1 .. n + N /\ i \notin last + 1 .. last + N
          BY <1>0, <1>2, <4>1
        <5>2. QED
          BY <1>3, <5>1
      <4>2. CASE i > last
        <5>1. h[i] = i + N /\ i + N \in 1 .. n + N /\ i + N \notin last + 1 .. last + N
          BY <1>0, <1>2, <4>2
        <5>2. QED
          BY <1>3, <5>1
      <4>3. QED
        BY <1>0, <1>2, <4>1, <4>2
    <3>2. QED
      BY <3>1
  <2>2. \A i, j \in 1 .. n : i < j => h[i] < h[j]
    BY <1>0, <1>1, <1>2
  <2>3. ASSUME NEW p \in D PROVE \E i \in 1 .. n : h[i] = p
    <3>1. p \in 1 .. n + N /\ (p <= last \/ p > last + N)
      BY <1>0, <1>2, <1>3
    <3>2. CASE p <= last
      <4>1. p \in 1 .. n /\ h[p] = p
        BY <1>0, <1>1, <1>2, <3>1, <3>2
      <4>2. QED
        BY <4>1
    <3>3. CASE p > last + N
      <4>1. p - N \in 1 .. n /\ h[p - N] = p
        BY <1>0, <1>1, <1>2, <3>1, <3>3
      <4>2. QED
        BY <4>1
    <3>4. QED
      BY <3>1, <3>2, <3>3
  <2>4. QED
    BY <2>1, <2>2, <2>3 DEF Ascending
<1>5. ASSUME NEW i \in 1 .. n PROVE r[h[i]] = body[i]
  <2>1. CASE i <= last
    <3>1. i \in 1 .. last /\ h[i] = i
      BY <1>0, <1>1, <1>2, <2>1
    <3>2. QED
      BY <1>0, <3>1
  <2>2. CASE i > last
    <3>1. i \in last + 1 .. Len(body) /\ h[i] = i + N
      BY <1>0, <1>1, <1>2, <2>2
    <3>2. QED
      BY <1>0, <3>1
  <2>3. QED
    BY <1>0, <1>1, <1>2, <2>1, <2>2
<1> HIDE DEF h
<1>6. D \in SUBSET DOMAIN r
  BY <1>2, <1>3
<1>7. Kept(r, D) = [i \in 1 .. n |-> r[h[i]]]
  BY <1>0, <1>2, <1>4, <1>6, KeptAsCounted
<1>8. QED
  BY <1>2, <1>5, <1>7

\* The items that were inserted, deleted again.
NewItems(P, r, body) == P = {p \in Items(r) : p \notin Items(body)}

LEMMA InsertionUndone ==
  ASSUME NEW body, IsTokens(body), NEW items, IsTokens(items), items # <<>>,
         \A j \in DOMAIN items : items[j].kind # "sep", NEW r, r = insertAll(body, items),
         NEW P, NewItems(P, r, body)
  PROVE  deleteAll(r, P) = body
<1>1. PICK n, N : n = Len(body) /\ N = Len(items)
  OBVIOUS
<1>2. /\ IsSeq(body) /\ IsSeq(items) /\ n \in Nat /\ N \in Nat
      /\ DOMAIN body = 1 .. n /\ DOMAIN items = 1 .. N
  BY <1>1, SeqDomain DEF IsTokens
<1>3. N > 0
  <2>1. items = [p \in 1 .. N |-> items[p]]
    BY <1>2, SeqDomain
  <2>2. N # 0
    <3>1. SUFFICES ASSUME N = 0 PROVE FALSE
      OBVIOUS
    <3>2. items \in Seq(Range(items)) /\ Len(items) = 0
      BY <1>1, <1>2, <3>1 DEF IsSeq
    <3>3. QED
      BY <3>2
  <2>3. QED
    BY <1>2, <2>2
<1>30. \A p : p \in P <=> p \in Items(r) /\ p \notin Items(body)
  BY DEF NewItems
<1>4. PICK D : D = DOMAIN r \ removalSpans(r, P)
  OBVIOUS
<1>5. deleteAll(r, P) = Kept(r, D)
  BY <1>4 DEF deleteAll
<1>6. CASE Items(body) = {}
  <2>1. /\ IsTokens(r) /\ Items(r) = 1 .. N
        /\ Len(r) = N + n
        /\ \A p \in DOMAIN body : r[N + p] = body[p]
    BY <1>1, <1>2, <1>6, InsertedFirst
  <2>2. IsSeq(r) /\ P = 1 .. N /\ P # {}
    <3>1. P = 1 .. N
      BY <1>6, <1>30, <2>1
    <3>2. 1 \in 1 .. N
      BY <1>2, <1>3
    <3>3. QED
      BY <2>1, <3>1, <3>2 DEF IsTokens
  <2>3. Items(r) \ P = {}
    BY <2>1, <2>2
  <2>4. removalSpans(r, P) = 1 .. Max(P)
    BY <2>2, <2>3 DEF removalSpans
  <2>5. Max(P) = N
    <3>1. P \in SUBSET (0 .. N)
      BY <1>2, <2>2
    <3>2. Max(P) \in P /\ \A y \in P : Max(P) >= y
      BY <1>2, <2>2, <3>1, MaxIsIn
    <3>3. QED
      BY <1>2, <1>3, <2>2, <3>2
  <2>6. CutOut(D, r, 0, N)
    BY <1>2, <1>4, <2>4, <2>5 DEF CutOut
  <2>7. \A p \in 0 + 1 .. n : r[p + N] = body[p]
    <3>1. ASSUME NEW p \in 0 + 1 .. n PROVE r[p + N] = body[p]
      <4>1. p \in DOMAIN body /\ p + N = N + p
        BY <1>2
      <4>2. QED
        BY <2>1, <4>1
    <3>2. QED
      BY <3>1
  <2>8. Len(r) = n + N /\ 0 \in 0 .. n /\ \A p \in 1 .. 0 : r[p] = body[p]
    BY <1>2, <2>1
  <2>9. Widened(r, body, 0, N)
    BY <1>1, <1>2, <2>2, <2>7, <2>8 DEF Widened
  <2>10. QED
    BY <1>2, <1>5, <2>6, <2>9, PieceCut
<1>7. CASE Items(body) # {}
  <2>1. PICK last : Spliced(r, body, items, last)
    BY <1>2, <1>7, InsertionSplices
  <2>2. /\ last \in Items(body) /\ \A p \in Items(body) : p <= last
        /\ IsSeq(r) /\ Len(r) = n + 3 * N
        /\ \A p \in 1 .. last : r[p] = body[p]
        /\ \A p \in last + 1 .. n : r[p + 3 * N] = body[p]
    BY <1>1, <2>1 DEF Spliced
  <2>3. Items(r) = Items(body) \cup {last + 3 * j : j \in 1 .. N}
    BY <1>1, <2>1, SplicedTokens
  <2>4. last \in 1 .. n /\ \A p \in Items(body) : p \in 1 .. last
    <3>1. \A p \in Items(body) : p \in 1 .. n
      BY <1>2 DEF Items
    <3>2. QED
      BY <1>2, <2>2, <3>1
  <2>5. P = {last + 3 * j : j \in 1 .. N}
    <3>1. ASSUME NEW p \in P PROVE p \in {last + 3 * j : j \in 1 .. N}
      BY <1>30, <2>3
    <3>2. ASSUME NEW j \in 1 .. N PROVE last + 3 * j \in P
      <4>1. last + 3 * j > last
        BY <1>2, <2>4
      <4>2. last + 3 * j \notin Items(body)
        BY <1>2, <2>2, <2>4, <4>1
      <4>3. QED
        BY <1>30, <2>3, <4>2
    <3>3. QED
      BY <3>1, <3>2
  <2>6. Items(r) \ P = Items(body)
    BY <1>30, <2>3
  <2>7. ASSUME NEW p \in P
        PROVE  /\ p \in last + 1 .. last + 3 * N
               /\ {q \in Items(body) : q < p} = Items(body)
    <3>1. PICK j \in 1 .. N : p = last + 3 * j
      BY <2>5
    <3>2. p \in last + 1 .. last + 3 * N
      BY <1>2, <2>4, <3>1
    <3>3. ASSUME NEW q \in Items(body) PROVE q < p
      <4>1. q \in 1 .. last
        BY <2>4
      <4>2. QED
        BY <1>2, <2>4, <3>2, <4>1
    <3>4. QED
      BY <3>2, <3>3
  <2>8. Max(Items(body)) = last
    <3>1. PICK I, x : I = Items(body) /\ x = Max(I)
      OBVIOUS
    <3>2. I \in SUBSET (0 .. n) /\ I # {}
      BY <1>2, <1>7, <3>1 DEF Items
    <3>3. x \in I /\ \A y \in I : x >= y
      BY <1>2, <3>1, <3>2, MaxIsIn
    <3>4. x <= last /\ x >= last /\ x \in 0 .. n
      BY <2>2, <3>1, <3>2, <3>3
    <3>5. QED
      BY <1>2, <2>4, <3>1, <3>4
  <2>9. last + 3 * N \in P
    BY <1>2, <1>3, <2>5
  <2>10. removalSpans(r, P) = UNION {last + 1 .. p : p \in P}
    <3>1. PICK kept : kept = Items(r) \ P
      OBVIOUS
    <3>2. removalSpans(r, P) =
            UNION {IF {q \in kept : q < p} = {} THEN p .. Min(kept) - 1
                   ELSE Max({q \in kept : q < p}) + 1 .. p : p \in P}
      BY <1>7, <2>6, <2>9, <3>1 DEF removalSpans
    <3>3. ASSUME NEW p \in P
          PROVE  (IF {q \in kept : q < p} = {} THEN p .. Min(kept) - 1
                  ELSE Max({q \in kept : q < p}) + 1 .. p) = last + 1 .. p
      <4>1. {q \in kept : q < p} = kept /\ kept = Items(body)
        BY <2>6, <2>7, <3>1
      <4>2. QED
        BY <1>7, <2>8, <4>1
    <3>4. QED
      BY <3>2, <3>3
  <2>11. removalSpans(r, P) = last + 1 .. last + 3 * N
    <3>1. ASSUME NEW x \in removalSpans(r, P) PROVE x \in last + 1 .. last + 3 * N
      <4>1. PICK p \in P : x \in last + 1 .. p
        BY <2>10
      <4>2. p \in last + 1 .. last + 3 * N
        BY <2>7
      <4>3. QED
        BY <1>2, <2>4, <4>1, <4>2
    <3>2. ASSUME NEW x \in last + 1 .. last + 3 * N PROVE x \in removalSpans(r, P)
      BY <2>9, <2>10
    <3>3. QED
      BY <3>1, <3>2
  <2>12. CutOut(D, r, last, 3 * N)
    BY <1>4, <2>11 DEF CutOut
  <2>13. 3 * N \in Nat /\ last \in 0 .. n
    BY <1>2, <2>4
  <2>14. PICK M : M = 3 * N
    OBVIOUS
  <2>15. /\ M \in Nat /\ Len(r) = n + M /\ CutOut(D, r, last, M)
         /\ \A p \in last + 1 .. n : r[p + M] = body[p]
    BY <2>2, <2>12, <2>13, <2>14
  <2>16. Widened(r, body, last, M)
    BY <1>1, <1>2, <2>2, <2>13, <2>15 DEF Widened
  <2>17. QED
    BY <1>2, <1>5, <2>15, <2>16, PieceCut
<1>8. QED
  BY <1>6, <1>7

\* No event is missing twice.
LEMMA NewEventsOnce ==
  ASSUME NEW hooks, NEW i \in DOMAIN NewEvents(hooks), NEW j \in DOMAIN NewEvents(hooks),
         NewEvents(hooks)[i].key = NewEvents(hooks)[j].key
  PROVE  i = j
<1>1. PICK K, all, missing : /\ K = {k \in DOMAIN Events : Member(hooks, Events[k]) = 0}
                             /\ all = AllEvents /\ missing = NewEvents(hooks)
  OBVIOUS
<1>2. missing = Kept(all, K)
  BY <1>1 DEF NewEvents
<1>3. IsSeq(all) /\ K \in SUBSET DOMAIN all
  BY <1>1, EventTokens DEF IsTokens
<1>4. PICK n \in Nat : \E g : Ascending(g, n, K) /\ Kept(all, K) = [x \in 1 .. n |-> all[g[x]]]
  BY <1>3, KeptInOrder
<1>5. PICK g : Ascending(g, n, K) /\ Kept(all, K) = [x \in 1 .. n |-> all[g[x]]]
  BY <1>4
<1>6. /\ \A x \in 1 .. n : g[x] \in K
      /\ \A x, y \in 1 .. n : x < y => g[x] < g[y]
  BY <1>5 DEF Ascending
<1>7. DOMAIN missing = 1 .. n /\ \A x \in 1 .. n : missing[x] = all[g[x]]
  BY <1>2, <1>5
<1>8. \A k \in K : k \in Nat /\ k \in DOMAIN Events /\ k \in DOMAIN AllEvents
  BY <1>1, EventTokens
<1>9. i \in 1 .. n /\ j \in 1 .. n /\ all[g[i]].key = all[g[j]].key
  BY <1>1, <1>7
<1>10. all[g[i]].key = Events[g[i]] /\ all[g[j]].key = Events[g[j]]
  BY <1>1, <1>6, <1>8, <1>9, EventTokens
<1>11. g[i] = g[j]
  BY <1>6, <1>8, <1>9, <1>10, EventsAssumption DEF IsInjective
<1>12. ~(i < j) /\ ~(j < i)
  BY <1>6, <1>8, <1>9, <1>11
<1>13. QED
  BY <1>9, <1>12

\* Dira's entry into an event of others, and out again.
LEMMA EntryUndone ==
  ASSUME NEW b, IsTokens(b), OwnedIn(b) = {}, Items(b) # {}, NEW e, e = <<Entry(<<Dira>>)>>
  PROVE  LET a == insertAll(b, e)
         IN  OwnedIn(a) # {} /\ OwnedIn(a) # Items(a) /\ deleteAll(a, OwnedIn(a)) = b
<1>0. PICK a, P : a = insertAll(b, e) /\ P = OwnedIn(a)
  OBVIOUS
<1>1. PICK o : o = Entry(<<Dira>>)
  OBVIOUS
<1>2. WhollyOwned(o) /\ o.kind # "sep" /\ IsTokens(e) /\ e # <<>> /\ DOMAIN e = {1} /\ e[1] = o
  BY <1>1, OwnEntry, OwnEntryIsOwned
<1>3. \A j \in DOMAIN e : e[j].kind # "sep"
  BY <1>2
<1>4. a = insertAll(b, e)
  BY <1>0
<1>5. /\ IsTokens(a)
      /\ \A p \in Items(b) : p \in Items(a) /\ a[p] = b[p]
      /\ \A p \in Items(a) : p \notin Items(b) => \E j \in DOMAIN e : a[p] = e[j]
  BY <1>2, <1>3, <1>4, InsertedPlaces
<1>6. \A p \in Items(b) : ~WhollyOwned(b[p])
  BY DEF OwnedIn
<1>7. ASSUME NEW p PROVE p \in P <=> p \in Items(a) /\ p \notin Items(b)
  <2>1. p \in P <=> p \in Items(a) /\ WhollyOwned(a[p])
    BY <1>0 DEF OwnedIn
  <2>2. QED
    BY <1>2, <1>5, <1>6, <2>1
<1>8. NewItems(P, a, b)
  <2>1. \A p \in {p \in Items(a) : p \notin Items(b)} : p \in P
    BY <1>7
  <2>2. \A p \in P : p \in {q \in Items(a) : q \notin Items(b)}
    BY <1>7
  <2>3. QED
    BY <2>1, <2>2 DEF NewItems
<1>9. P # {}
  <2>1. \A j \in DOMAIN e : \E p \in Items(a) : a[p] = e[j]
    BY <1>2, <1>3, <1>4, InsertedTokens
  <2>2. PICK p \in Items(a) : a[p] = o
    BY <1>2, <2>1
  <2>3. QED
    BY <1>0, <1>2, <2>2 DEF OwnedIn
<1>10. P # Items(a)
  BY <1>5, <1>7
<1>11. deleteAll(a, P) = b
  BY <1>2, <1>3, <1>4, <1>8, InsertionUndone
<1>12. QED
  BY <1>0, <1>9, <1>10, <1>11

\* Nothing deleted.
LEMMA NothingDeleted ==
  ASSUME NEW body, IsTokens(body)
  PROVE  deleteAll(body, {}) = body
<1>1. PICK D : D = DOMAIN body \ removalSpans(body, {})
  OBVIOUS
<1>2. removalSpans(body, {}) = {}
  BY DEF removalSpans
<1>3. IsSeq(body) /\ Len(body) \in Nat
  BY SeqDomain DEF IsTokens
<1>4. CutOut(D, body, 0, 0)
  BY <1>1, <1>2 DEF CutOut
<1>5. Widened(body, body, 0, 0)
  <2>1. \A p \in 0 + 1 .. Len(body) : body[p + 0] = body[p]
    BY <1>3
  <2>2. QED
    BY <1>3, <2>1 DEF Widened
<1>6. Kept(body, D) = body
  BY <1>3, <1>4, <1>5, PieceCut
<1>7. QED
  BY <1>1, <1>6 DEF deleteAll

\* There is one way to splice.
LEMMA SplicedOnce ==
  ASSUME NEW body, IsSeq(body), NEW items, IsSeq(items), NEW last,
         NEW r, Spliced(r, body, items, last), NEW s, Spliced(s, body, items, last)
  PROVE  r = s
<1>1. PICK n, N, M : n = Len(body) /\ N = Len(items) /\ M = 3 * N
  OBVIOUS
<1>2. n \in Nat /\ N \in Nat /\ M \in Nat /\ DOMAIN body = 1 .. n
  BY <1>1, SeqDomain
<1>3. /\ IsSeq(r) /\ Len(r) = n + M /\ IsSeq(s) /\ Len(s) = n + M
  BY <1>1 DEF Spliced
<1>4. DOMAIN r = 1 .. n + M /\ DOMAIN s = 1 .. n + M
      /\ r = [p \in DOMAIN r |-> r[p]] /\ s = [p \in DOMAIN s |-> s[p]]
  BY <1>3, SeqDomain
<1>5. ASSUME NEW p \in DOMAIN r PROVE r[p] = s[p]
  <2>1. \/ p \in 1 .. last
        \/ \E j \in 1 .. N : p \in {last + 3 * j - 2, last + 3 * j - 1, last + 3 * j}
        \/ p - M \in last + 1 .. n
    BY <1>1, SplicedPositions
  <2>2. CASE p \in 1 .. last
    BY <2>2 DEF Spliced
  <2>3. CASE \E j \in 1 .. N : p \in {last + 3 * j - 2, last + 3 * j - 1, last + 3 * j}
    BY <1>1, <2>3 DEF Spliced
  <2>4. CASE p - M \in last + 1 .. n
    <3>1. PICK q : q = p - M
      OBVIOUS
    <3>2. q \in last + 1 .. n /\ p = q + M
      BY <1>2, <1>4, <2>4, <3>1
    <3>3. r[q + M] = body[q] /\ s[q + M] = body[q]
      BY <1>1, <3>2 DEF Spliced
    <3>4. QED
      BY <3>2, <3>3
  <2>5. QED
    BY <2>1, <2>2, <2>3, <2>4
<1>6. QED
  BY <1>4, <1>5

\* An install adds to "hooks" behind what is there, each event once.
Added(r, hooks) ==
    /\ \A p \in Items(r) : p \notin Items(hooks) =>
          \E k \in DOMAIN Events : Member(hooks, Events[k]) = 0 /\ r[p] = AllEvents[k]
    /\ \A p, q \in Items(r) : p \notin Items(hooks) /\ q \notin Items(hooks) /\ r[p].key = r[q].key => p = q

LEMMA WithEventsPlaces ==
  ASSUME NEW hooks, IsHooksBody(FALSE, hooks), Items(hooks) # {}
  PROVE  /\ IsTokens(WithEvents(hooks)) /\ Added(WithEvents(hooks), hooks)
         /\ \A p \in Items(hooks) : p \in Items(WithEvents(hooks)) /\ WithEvents(hooks)[p] = Filled(hooks)[p]
<1>1. PICK r, f, missing : r = WithEvents(hooks) /\ f = Filled(hooks) /\ missing = NewEvents(hooks)
  OBVIOUS
<1>2. IsTokens(hooks) /\ Refilled(f, hooks)
  BY <1>1, FilledEvents DEF IsHooksBody
<1>3. IsTokens(f) /\ Items(f) = Items(hooks)
  BY <1>2, RefilledTokens
<1>4. CASE missing = <<>>
  <2>1. r = f
    BY <1>1, <1>4 DEF WithEvents
  <2>2. QED
    BY <1>1, <1>3, <2>1 DEF Added
<1>5. CASE missing # <<>>
  <2>1. r = insertAll(f, missing)
    BY <1>1, <1>5 DEF WithEvents
  <2>2. /\ IsTokens(missing)
        /\ \A j \in DOMAIN missing : missing[j].kind # "sep"
        /\ \A j \in DOMAIN missing : \E k \in DOMAIN Events : Member(hooks, Events[k]) = 0 /\ missing[j] = AllEvents[k]
    BY <1>1, NewEventsListed
  <2>3. /\ IsTokens(r)
        /\ \A p \in Items(f) : p \in Items(r) /\ r[p] = f[p]
        /\ \A p \in Items(r) : p \notin Items(f) => \E j \in DOMAIN missing : r[p] = missing[j]
    BY <1>3, <2>1, <2>2, InsertedPlaces
  <2>4. IsSeq(f) /\ IsSeq(missing)
    BY <1>3, <2>2 DEF IsTokens
  <2>5. PICK last : Spliced(r, f, missing, last)
    BY <1>3, <2>1, <2>4, InsertionSplices
  <2>6. Items(r) = Items(f) \cup {last + 3 * j : j \in 1 .. Len(missing)} /\ DOMAIN missing = 1 .. Len(missing)
    BY <1>3, <2>2, <2>4, <2>5, SplicedTokens, SeqDomain
  <2>7. \A j \in 1 .. Len(missing) : r[last + 3 * j] = missing[j]
    BY <2>5 DEF Spliced
  <2>8. ASSUME NEW p \in Items(r), NEW q \in Items(r), p \notin Items(hooks), q \notin Items(hooks),
               r[p].key = r[q].key
        PROVE  p = q
    <3>1. PICK i \in DOMAIN missing : p = last + 3 * i
      BY <1>3, <2>6, <2>8
    <3>2. PICK j \in DOMAIN missing : q = last + 3 * j
      BY <1>3, <2>6, <2>8
    <3>3. missing[i].key = missing[j].key
      BY <2>6, <2>7, <2>8, <3>1, <3>2
    <3>4. i = j
      BY <1>1, <3>3, NewEventsOnce
    <3>5. QED
      BY <3>1, <3>2, <3>4
  <2>9. ASSUME NEW p \in Items(r), p \notin Items(hooks)
        PROVE  \E k \in DOMAIN Events : Member(hooks, Events[k]) = 0 /\ r[p] = AllEvents[k]
    <3>1. PICK j \in DOMAIN missing : r[p] = missing[j]
      BY <1>3, <2>3, <2>9
    <3>2. QED
      BY <2>2, <3>1
  <2>10. Added(r, hooks)
    BY <2>8, <2>9 DEF Added
  <2>11. QED
    BY <1>1, <1>3, <2>3, <2>10
<1>6. QED
  BY <1>4, <1>5

\* "hooks" as an install finds it that an uninstall undoes.
UntouchedHooks(hooks) ==
    /\ IsHooksBody(FALSE, hooks) /\ Shaped(hooks) /\ Items(hooks) # {}
    /\ \A p \in Items(hooks) :
          hooks[p].kind = "array" => Items(hooks[p].body) # {} /\ OwnedIn(hooks[p].body) = {}

\* What an install fills is an array of others' entries.
LEMMA LackingEvents ==
  ASSUME NEW hooks, UntouchedHooks(hooks), NEW p \in Lacking(hooks)
  PROVE  /\ p \in Items(hooks) /\ p \in DOMAIN hooks /\ hooks[p].kind = "array" /\ IsTokens(hooks[p].body)
         /\ Items(hooks[p].body) # {} /\ OwnedIn(hooks[p].body) = {}
         /\ \E k \in DOMAIN Events : Member(hooks, Events[k]) = p
<1>1. IsTokens(hooks) /\ \A q \in Items(hooks) : IsTokens(hooks[q].body)
  BY DEF UntouchedHooks, IsHooksBody, IsEvent
<1>2. p \in Items(hooks)
  BY <1>1, FilledEvents
<1>3. p \in DOMAIN hooks
  BY <1>2 DEF Items
<1>4. PICK k \in DOMAIN Events : Member(hooks, Events[k]) = p
  BY DEF Lacking, IsEventsMember
<1>5. p # 0
  <2>1. p \in 1 .. Len(hooks)
    BY <1>1, <1>3, SeqDomain DEF IsTokens
  <2>2. Len(hooks) \in Nat
    BY <1>1, SeqDomain DEF IsTokens
  <2>3. QED
    BY <2>1, <2>2
<1>6. hooks[p].kind = "array"
  BY <1>4, <1>5 DEF UntouchedHooks, Shaped
<1>7. QED
  BY <1>1, <1>2, <1>3, <1>4, <1>6 DEF UntouchedHooks

\* Of what an install has written an uninstall takes exactly that away.
LEMMA InstalledTouched ==
  ASSUME NEW hooks, UntouchedHooks(hooks), NEW r, r = WithEvents(hooks)
  PROVE  /\ Emptied(r) = {p \in Items(r) : p \notin Items(hooks)}
         /\ Touched(r) = Lacking(hooks) \cup Emptied(r)
         /\ \A p \in Lacking(hooks) : deleteAll(r[p].body, OwnedIn(r[p].body)) = hooks[p].body
         /\ \A p \in Items(hooks) :
               r[p].kind = "array" => OwnedIn(r[p].body) # Items(r[p].body)
<1>0. PICK f, e : f = Filled(hooks) /\ e = <<Entry(<<Dira>>)>>
  OBVIOUS
<1>1. IsHooksBody(FALSE, hooks) /\ IsTokens(hooks) /\ Items(hooks) # {}
  BY DEF UntouchedHooks, IsHooksBody
<1>2. /\ Refilled(f, hooks) /\ Lacking(hooks) \subseteq Items(hooks)
      /\ \A p \in Lacking(hooks) : f[p].body = insertAll(hooks[p].body, e)
      /\ \A p \in DOMAIN hooks \ Lacking(hooks) : f[p] = hooks[p]
  BY <1>0, <1>1, FilledEvents
<1>3. \A p \in DOMAIN hooks : f[p].key = hooks[p].key /\ f[p].kind = hooks[p].kind
  BY <1>1, <1>2, RefilledTokens
<1>4. IsTokens(r) /\ Added(r, hooks) /\ \A p \in Items(hooks) : p \in Items(r) /\ r[p] = f[p]
  BY <1>0, <1>1, WithEventsPlaces
<1>5. /\ \A p \in Items(r) : p \notin Items(hooks) =>
            \E k \in DOMAIN Events : Member(hooks, Events[k]) = 0 /\ r[p] = AllEvents[k]
      /\ \A p, q \in Items(r) : p \notin Items(hooks) /\ q \notin Items(hooks) /\ r[p].key = r[q].key => p = q
  BY <1>4 DEF Added
\* Nothing that is new stands for an event that was there, and the reverse.
<1>6. ASSUME NEW k \in DOMAIN Events, NEW p \in Items(r), r[p].key = Events[k], p \notin Items(hooks)
      PROVE  Member(hooks, Events[k]) = 0 /\ \A q \in Items(hooks) : r[q].key # Events[k]
  <2>1. PICK l \in DOMAIN Events : Member(hooks, Events[l]) = 0 /\ r[p] = AllEvents[l]
    BY <1>5, <1>6
  <2>2. l \in DOMAIN AllEvents /\ AllEvents[l].key = Events[l]
    BY EventTokens
  <2>3. Events[k] = Events[l] /\ Member(hooks, Events[k]) = 0
    BY <1>6, <2>1, <2>2
  <2>4. \A q \in Items(hooks) : hooks[q].key # Events[k]
    BY <1>1, <2>3, MemberIsLast
  <2>5. \A q \in Items(hooks) : r[q].key = hooks[q].key
    BY <1>3, <1>4 DEF Items
  <2>6. QED
    BY <2>3, <2>4, <2>5
<1>7. ASSUME NEW p \in Lacking(hooks)
      PROVE  /\ p \in Items(r) /\ IsEventsMember(r, p) /\ r[p].kind = "array"
             /\ OwnedIn(r[p].body) # {} /\ OwnedIn(r[p].body) # Items(r[p].body)
             /\ deleteAll(r[p].body, OwnedIn(r[p].body)) = hooks[p].body
  <2>1. /\ p \in Items(hooks) /\ p \in DOMAIN hooks /\ hooks[p].kind = "array" /\ IsTokens(hooks[p].body)
        /\ Items(hooks[p].body) # {} /\ OwnedIn(hooks[p].body) = {}
    BY LackingEvents
  <2>2. PICK k \in DOMAIN Events : Member(hooks, Events[k]) = p
    BY LackingEvents
  <2>3. p \in Items(r) /\ r[p] = f[p] /\ r[p].kind = "array"
    BY <1>3, <1>4, <2>1
  <2>4. p # 0
    <3>1. p \in 1 .. Len(hooks) /\ Len(hooks) \in Nat
      BY <1>1, <2>1, SeqDomain DEF IsTokens
    <3>2. QED
      BY <3>1
  <2>5. hooks[p].key = Events[k] /\ \A q \in Items(hooks) : hooks[q].key = Events[k] => q <= p
    BY <1>1, <2>2, <2>4, MemberIsLast
  <2>6. r[p].key = Events[k]
    BY <1>3, <2>1, <2>3, <2>5
  <2>7. PICK q : q = Member(r, Events[k])
    OBVIOUS
  <2>8. q # 0
    BY <1>4, <2>3, <2>6, <2>7, MemberIsLast
  <2>9. q \in Items(r) /\ r[q].key = Events[k] /\ p <= q
    BY <1>4, <2>3, <2>6, <2>7, <2>8, MemberIsLast
  <2>10. q \in Items(hooks)
    BY <1>6, <2>2, <2>4, <2>9
  <2>11. hooks[q].key = Events[k]
    BY <1>3, <1>4, <2>9, <2>10 DEF Items
  <2>12. q = p
    <3>1. q <= p
      BY <2>5, <2>10, <2>11
    <3>2. q \in 1 .. Len(hooks) /\ p \in 1 .. Len(hooks) /\ Len(hooks) \in Nat
      BY <1>1, <2>1, <2>10, SeqDomain DEF IsTokens, Items
    <3>3. QED
      BY <2>9, <3>1, <3>2
  <2>13. IsEventsMember(r, p)
    BY <2>7, <2>12 DEF IsEventsMember
  <2>14. PICK b, a : b = hooks[p].body /\ a = insertAll(b, e)
    OBVIOUS
  <2>15. r[p].body = a
    BY <1>2, <2>3, <2>14
  <2>16. OwnedIn(a) # {} /\ OwnedIn(a) # Items(a) /\ deleteAll(a, OwnedIn(a)) = b
    BY <1>0, <2>1, <2>14, EntryUndone
  <2>17. QED
    BY <2>3, <2>13, <2>14, <2>15, <2>16
<1>8. ASSUME NEW p \in Items(r), p \notin Items(hooks)
      PROVE  /\ IsEventsMember(r, p) /\ r[p].kind = "array"
             /\ OwnedIn(r[p].body) # {} /\ OwnedIn(r[p].body) = Items(r[p].body)
  <2>1. PICK k \in DOMAIN Events : Member(hooks, Events[k]) = 0 /\ r[p] = AllEvents[k]
    BY <1>5, <1>8
  <2>2. k \in DOMAIN AllEvents
    BY EventTokens
  <2>3. r[p].key = Events[k] /\ r[p].kind = "array" /\ r[p].body = e
    BY <1>0, <2>1, <2>2, EventTokens
  <2>4. OwnedIn(e) # {} /\ OwnedIn(e) = Items(e)
    BY <1>0, OwnEntryIsOwned
  <2>5. PICK q : q = Member(r, Events[k])
    OBVIOUS
  <2>6. q # 0
    BY <1>4, <2>3, <2>5, MemberIsLast
  <2>7. q \in Items(r) /\ r[q].key = Events[k]
    BY <1>4, <2>5, <2>6, MemberIsLast
  <2>8. q \notin Items(hooks)
    BY <1>6, <1>8, <2>3, <2>7
  <2>9. q = p
    BY <1>5, <1>8, <2>3, <2>7, <2>8
  <2>10. QED
    BY <2>3, <2>4, <2>5, <2>9 DEF IsEventsMember
<1>9. ASSUME NEW p \in Items(hooks), p \notin Lacking(hooks), r[p].kind = "array"
      PROVE  OwnedIn(r[p].body) = {} /\ Items(r[p].body) # {}
  <2>1. p \in DOMAIN hooks /\ r[p] = f[p]
    BY <1>4 DEF Items
  <2>2. r[p] = hooks[p]
    BY <1>2, <1>9, <2>1
  <2>3. QED
    BY <1>9, <2>2 DEF UntouchedHooks
<1>10. \A p : p \in Touched(r) <=> p \in Lacking(hooks) \/ (p \in Items(r) /\ p \notin Items(hooks))
  <2>1. ASSUME NEW p, p \in Lacking(hooks) PROVE p \in Touched(r)
    BY <1>7, <2>1 DEF Touched
  <2>2. ASSUME NEW p, p \in Items(r), p \notin Items(hooks) PROVE p \in Touched(r)
    BY <1>8, <2>2 DEF Touched
  <2>3. ASSUME NEW p \in Touched(r), p \in Items(hooks), p \notin Lacking(hooks) PROVE FALSE
    BY <1>9, <2>3 DEF Touched
  <2>4. ASSUME NEW p \in Touched(r) PROVE p \in Items(r)
    BY DEF Touched
  <2>5. QED
    BY <2>1, <2>2, <2>3, <2>4
<1>11. \A p : p \in Emptied(r) <=> p \in Items(r) /\ p \notin Items(hooks)
  <2>1. ASSUME NEW p \in Emptied(r) PROVE p \in Items(r) /\ p \notin Items(hooks)
    <3>1. p \in Touched(r) /\ OwnedIn(r[p].body) = Items(r[p].body)
      BY DEF Emptied
    <3>2. QED
      BY <1>7, <1>10, <3>1
  <2>2. ASSUME NEW p \in Items(r), p \notin Items(hooks) PROVE p \in Emptied(r)
    BY <1>8, <1>10, <2>2 DEF Emptied
  <2>3. QED
    BY <2>1, <2>2
<1>12. Emptied(r) = {p \in Items(r) : p \notin Items(hooks)}
  BY <1>11
<1>13. Touched(r) = Lacking(hooks) \cup Emptied(r)
  BY <1>10, <1>11
<1>14. QED
  BY <1>7, <1>9, <1>12, <1>13

\* The members of "hooks" are, after an install that changes them and an
\* uninstall, as they were.
LEMMA EventsUndone ==
  ASSUME NEW hooks, UntouchedHooks(hooks), NEW r, r = WithEvents(hooks), r # hooks
  PROVE  /\ Touched(r) # {} /\ Emptied(r) # Items(r)
         /\ deleteAll(Pruned(r), Emptied(r)) = hooks
<1>0. PICK f, missing : f = Filled(hooks) /\ missing = NewEvents(hooks)
  OBVIOUS
<1>1. IsHooksBody(FALSE, hooks) /\ IsTokens(hooks) /\ Items(hooks) # {}
  BY DEF UntouchedHooks, IsHooksBody
<1>2. /\ Refilled(f, hooks) /\ Lacking(hooks) \subseteq Items(hooks)
      /\ \A p \in DOMAIN hooks \ Lacking(hooks) : f[p] = hooks[p]
  BY <1>0, <1>1, FilledEvents
<1>3. /\ IsTokens(f) /\ DOMAIN f = DOMAIN hooks /\ Items(f) = Items(hooks)
      /\ \A p \in DOMAIN hooks : f[p].key = hooks[p].key /\ f[p].kind = hooks[p].kind
  BY <1>1, <1>2, RefilledTokens
<1>4. IsTokens(r) /\ Added(r, hooks) /\ \A p \in Items(hooks) : p \in Items(r) /\ r[p] = f[p]
  BY <1>0, <1>1, WithEventsPlaces
<1>5. /\ Emptied(r) = {p \in Items(r) : p \notin Items(hooks)}
      /\ Touched(r) = Lacking(hooks) \cup Emptied(r)
      /\ \A p \in Lacking(hooks) : deleteAll(r[p].body, OwnedIn(r[p].body)) = hooks[p].body
  BY InstalledTouched
<1>6. PICK x, E : x = Pruned(r) /\ E = Emptied(r)
  OBVIOUS
<1>7. /\ Refilled(x, r)
      /\ \A p \in Touched(r) \ E : x[p].body = deleteAll(r[p].body, OwnedIn(r[p].body))
      /\ \A p \in DOMAIN r \ (Touched(r) \ E) : x[p] = r[p]
  BY <1>4, <1>6, PrunedBodies
<1>8. /\ IsTokens(x) /\ DOMAIN x = DOMAIN r /\ Items(x) = Items(r)
      /\ \A p \in DOMAIN r : x[p].key = r[p].key /\ x[p].kind = r[p].kind
  BY <1>4, <1>7, RefilledTokens
<1>9. E # Items(r)
  BY <1>1, <1>4, <1>5, <1>6
<1>10. \A p : p \in Touched(r) \ E <=> p \in Lacking(hooks)
  BY <1>2, <1>5, <1>6
\* What was filled is as before; what was not stays.
<1>11. ASSUME NEW p \in Lacking(hooks) PROVE p \in DOMAIN hooks /\ x[p] = hooks[p]
  <2>1. p \in Items(hooks) /\ p \in DOMAIN hooks /\ p \in Items(r) /\ p \in DOMAIN r /\ r[p] = f[p]
    BY <1>2, <1>4 DEF Items
  <2>2. x[p].body = hooks[p].body
    BY <1>5, <1>7, <1>10
  <2>3. x[p].key = hooks[p].key /\ x[p].kind = hooks[p].kind
    BY <1>3, <1>8, <2>1
  <2>4. x[p] = Token(x[p].key, x[p].kind, x[p].body)
    BY <1>8, <2>1 DEF IsTokens, IsToken
  <2>5. hooks[p] = Token(hooks[p].key, hooks[p].kind, hooks[p].body)
    BY <1>1, <2>1 DEF IsTokens, IsToken
  <2>6. QED
    BY <2>1, <2>2, <2>3, <2>4, <2>5
<1>12. ASSUME NEW p \in DOMAIN r, p \notin Lacking(hooks) PROVE x[p] = r[p]
  BY <1>7, <1>10, <1>12
<1>13. ASSUME NEW p \in DOMAIN hooks, p \in DOMAIN r, r[p] = f[p] PROVE x[p] = hooks[p]
  <2>1. CASE p \in Lacking(hooks)
    BY <1>11, <2>1
  <2>2. CASE p \notin Lacking(hooks)
    BY <1>2, <1>12, <1>13, <2>2
  <2>3. QED
    BY <2>1, <2>2
<1>14. CASE missing = <<>>
  <2>1. r = f
    BY <1>0, <1>14 DEF WithEvents
  <2>2. E = {}
    BY <1>3, <1>5, <1>6, <2>1
  <2>3. x = hooks
    <3>1. x = [p \in DOMAIN hooks |-> x[p]]
      BY <1>3, <1>7, <2>1 DEF Refilled
    <3>2. hooks = [p \in DOMAIN hooks |-> hooks[p]]
      BY <1>1, SeqDomain DEF IsTokens
    <3>3. \A p \in DOMAIN hooks : x[p] = hooks[p]
      BY <1>3, <1>13, <2>1
    <3>4. QED
      BY <3>1, <3>2, <3>3
  <2>4. deleteAll(x, E) = hooks
    BY <1>1, <2>2, <2>3, NothingDeleted
  <2>5. Touched(r) # {}
    <3>1. SUFFICES ASSUME Touched(r) = {} PROVE FALSE
      OBVIOUS
    <3>2. f = [p \in DOMAIN hooks |-> f[p]] /\ hooks = [p \in DOMAIN hooks |-> hooks[p]]
      BY <1>1, <1>2, SeqDomain DEF Refilled, IsTokens
    <3>3. \A p \in DOMAIN hooks : f[p] = hooks[p]
      BY <1>2, <1>5, <3>1
    <3>4. f = hooks
      BY <3>2, <3>3
    <3>5. QED
      BY <2>1, <3>4
  <2>6. QED
    BY <1>6, <1>9, <2>4, <2>5
<1>15. CASE missing # <<>>
  <2>1. r = insertAll(f, missing)
    BY <1>0, <1>15 DEF WithEvents
  <2>2. IsTokens(missing) /\ \A j \in DOMAIN missing : missing[j].kind # "sep"
    BY <1>0, NewEventsListed
  <2>3. IsSeq(f) /\ IsSeq(hooks) /\ IsSeq(missing)
    BY <1>1, <1>3, <2>2 DEF IsTokens
  <2>4. PICK last, n, N : last = Max(Items(hooks)) /\ n = Len(hooks) /\ N = Len(missing)
    OBVIOUS
  <2>5. Spliced(r, f, missing, last)
    BY <1>1, <1>3, <2>1, <2>3, <2>4, InsertionSplices
  <2>6. /\ n \in Nat /\ N \in Nat /\ Len(f) = n /\ DOMAIN hooks = 1 .. n /\ DOMAIN r = 1 .. Len(r)
        /\ Len(r) = n + 3 * N
    <3>1. n \in Nat /\ N \in Nat /\ DOMAIN hooks = 1 .. n /\ DOMAIN f = 1 .. Len(f) /\ Len(f) \in Nat
      BY <2>3, <2>4, SeqDomain
    <3>2. Len(f) = n
      BY <1>3, <3>1
    <3>3. Len(r) = n + 3 * N /\ DOMAIN r = 1 .. Len(r)
      BY <2>4, <2>5, <3>2, SeqDomain DEF Spliced
    <3>4. QED
      BY <3>1, <3>2, <3>3
  <2>7. last \in Items(hooks) /\ last \in 1 .. n /\ \A p \in Items(hooks) : p <= last
    BY <1>3, <2>5, <2>6 DEF Spliced, Items
  <2>8. \A p \in Lacking(hooks) : p \in 1 .. last
    BY <1>2, <2>6, <2>7 DEF Items
  <2>9. ASSUME NEW p \in 1 .. last PROVE x[p] = hooks[p]
    <3>1. p \in DOMAIN hooks /\ p \in DOMAIN r
      BY <2>6, <2>7
    <3>2. r[p] = f[p]
      BY <2>5 DEF Spliced
    <3>3. QED
      BY <1>13, <3>1, <3>2
  <2>10. ASSUME NEW p \in last + 1 .. n + 3 * N PROVE x[p] = r[p]
    <3>1. p \in DOMAIN r /\ p \notin 1 .. last
      BY <2>6, <2>7
    <3>2. QED
      BY <1>12, <2>8, <3>1
  <2>11. ASSUME NEW j \in 1 .. N
         PROVE  /\ x[last + 3 * j - 2] = Comma /\ x[last + 3 * j - 1] = Blank
                /\ x[last + 3 * j] = missing[j]
    <3>1. /\ last + 3 * j - 2 \in last + 1 .. n + 3 * N /\ last + 3 * j - 1 \in last + 1 .. n + 3 * N
          /\ last + 3 * j \in last + 1 .. n + 3 * N
      BY <2>6, <2>7
    <3>2. /\ r[last + 3 * j - 2] = Comma /\ r[last + 3 * j - 1] = Blank
          /\ r[last + 3 * j] = missing[j]
      BY <2>4, <2>5 DEF Spliced
    <3>3. QED
      BY <2>10, <3>1, <3>2
  <2>12. ASSUME NEW p \in last + 1 .. n PROVE x[p + 3 * N] = hooks[p]
    <3>1. p + 3 * N \in last + 1 .. n + 3 * N /\ p \in DOMAIN hooks /\ p \notin 1 .. last
      BY <2>6, <2>7
    <3>2. r[p + 3 * N] = f[p]
      BY <2>4, <2>5, <2>6 DEF Spliced
    <3>3. f[p] = hooks[p]
      BY <1>2, <2>8, <3>1
    <3>4. QED
      BY <2>10, <3>1, <3>2, <3>3
  <2>13. IsSeq(x) /\ Len(x) = n + 3 * N
    <3>1. IsSeq(x) /\ DOMAIN x = 1 .. Len(x) /\ Len(x) \in Nat
      BY <1>8, SeqDomain DEF IsTokens
    <3>2. QED
      BY <1>8, <2>6, <3>1
  <2>14. Spliced(x, hooks, missing, last)
    BY <2>4, <2>7, <2>9, <2>11, <2>12, <2>13 DEF Spliced
  <2>15. PICK i : i = insertAll(hooks, missing)
    OBVIOUS
  <2>16. Spliced(i, hooks, missing, last)
    BY <1>1, <2>3, <2>4, <2>15, InsertionSplices
  <2>17. x = i
    BY <2>3, <2>14, <2>16, SplicedOnce
  <2>18. NewItems(E, i, hooks)
    BY <1>5, <1>6, <1>8, <2>17 DEF NewItems
  <2>19. deleteAll(i, E) = hooks
    BY <1>1, <1>15, <2>2, <2>15, <2>18, InsertionUndone
  <2>20. Touched(r) # {}
    <3>1. PICK j \in 1 .. N : TRUE
      <4>1. N # 0
        <5>1. SUFFICES ASSUME N = 0 PROVE FALSE
          OBVIOUS
        <5>2. missing \in Seq(Range(missing)) /\ Len(missing) = 0
          BY <2>3, <2>4, <5>1 DEF IsSeq
        <5>3. QED
          BY <1>15, <5>2
      <4>2. 1 \in 1 .. N
        BY <2>6, <4>1
      <4>3. QED
        BY <4>2
    <3>2. last + 3 * j > last /\ last + 3 * j \notin Items(hooks)
      BY <2>6, <2>7
    <3>3. Items(r) = Items(f) \cup {last + 3 * k : k \in 1 .. Len(missing)}
      BY <1>3, <2>2, <2>5, SplicedTokens
    <3>4. last + 3 * j \in Items(r)
      BY <2>4, <3>3
    <3>5. QED
      BY <1>5, <3>2, <3>4
  <2>21. QED
    BY <1>6, <1>9, <2>17, <2>19, <2>20
<1>16. QED
  BY <1>14, <1>15

\* All that is under "hooks" of dira's own goes with an uninstall.
LEMMA OwnHooksEmptied ==
  LET hooks == hooksMember.body
  IN  Touched(hooks) # {} /\ Emptied(hooks) = Items(hooks)
<1>1. PICK h, e : h = hooksMember.body /\ e = <<Entry(<<Dira>>)>>
  OBVIOUS
<1>2. /\ IsTokens(h) /\ Items(h) # {}
      /\ \A p \in Items(h) : \E k \in DOMAIN Events : h[p] = AllEvents[k]
      /\ \A p, q \in Items(h) : h[p].key = h[q].key => p = q
  <2>1. IsHooksBody(TRUE, h)
    BY <1>1, FreshHooks
  <2>2. QED
    BY <1>1, <2>1, FreshHooks DEF IsHooksBody
<1>3. OwnedIn(e) # {} /\ OwnedIn(e) = Items(e)
  BY <1>1, OwnEntryIsOwned
<1>4. ASSUME NEW p \in Items(h)
      PROVE  /\ IsEventsMember(h, p) /\ h[p].kind = "array"
             /\ OwnedIn(h[p].body) # {} /\ OwnedIn(h[p].body) = Items(h[p].body)
  <2>1. PICK k \in DOMAIN Events : h[p] = AllEvents[k]
    BY <1>2
  <2>2. k \in DOMAIN AllEvents
    BY EventTokens
  <2>3. h[p].key = Events[k] /\ h[p].kind = "array" /\ h[p].body = e
    BY <1>1, <2>1, <2>2, EventTokens
  <2>4. PICK q : q = Member(h, Events[k])
    OBVIOUS
  <2>5. q # 0
    BY <1>2, <2>3, <2>4, MemberIsLast
  <2>6. q \in Items(h) /\ h[q].key = Events[k]
    BY <1>2, <2>4, <2>5, MemberIsLast
  <2>7. q = p
    BY <1>2, <2>3, <2>6
  <2>8. QED
    BY <1>3, <2>3, <2>4, <2>7 DEF IsEventsMember
<1>5. \A p \in Items(h) : p \in Touched(h)
  BY <1>4 DEF Touched
<1>6. \A p \in Items(h) : p \in Emptied(h)
  BY <1>4, <1>5 DEF Emptied
<1>7. \A p \in Emptied(h) : p \in Items(h)
  BY DEF Emptied, Touched
<1>8. QED
  BY <1>1, <1>2, <1>5, <1>6, <1>7

\* Where one item is new.
LEMMA OneInserted ==
  ASSUME NEW body, IsTokens(body), NEW one, IsTokens(one), Len(one) = 1, one[1].kind # "sep",
         NEW r, r = insertAll(body, one)
  PROVE  \E pos : /\ \A p : p \in Items(r) /\ p \notin Items(body) <=> p = pos
                  /\ r[pos] = one[1] /\ (Items(body) = {} => pos = 1)
<1>1. IsSeq(body) /\ IsSeq(one) /\ DOMAIN one = {1} /\ one # <<>> /\ \A j \in DOMAIN one : one[j].kind # "sep"
  <2>1. IsSeq(body) /\ IsSeq(one) /\ DOMAIN one = 1 .. 1
    BY SeqDomain DEF IsTokens
  <2>2. one # <<>>
    BY <2>1
  <2>3. QED
    BY <2>1, <2>2
<1>2. CASE Items(body) = {}
  <2>1. Items(r) = {1} /\ r[1] = one[1]
    BY <1>1, <1>2, InsertedFirst
  <2>2. QED
    BY <1>2, <2>1
<1>3. CASE Items(body) # {}
  <2>1. PICK last : Spliced(r, body, one, last)
    BY <1>1, <1>3, InsertionSplices
  <2>2. Items(r) = Items(body) \cup {last + 3 * j : j \in 1 .. 1}
    BY <1>1, <2>1, SplicedTokens
  <2>3. {last + 3 * j : j \in 1 .. 1} = {last + 3 * 1}
    OBVIOUS
  <2>4. r[last + 3 * 1] = one[1]
    <3>1. 1 \in 1 .. Len(one)
      OBVIOUS
    <3>2. QED
      BY <2>1, <3>1 DEF Spliced
  <2>5. last + 3 * 1 \notin Items(body)
    <3>1. last \in Items(body) /\ \A p \in Items(body) : p <= last
      BY <2>1 DEF Spliced
    <3>2. last \in 1 .. Len(body) /\ Len(body) \in Nat
      BY <1>1, <3>1, SeqDomain DEF Items
    <3>3. ~(last + 3 * 1 <= last)
      BY <3>2
    <3>4. QED
      BY <3>1, <3>3
  <2>6. QED
    BY <1>3, <2>2, <2>3, <2>4, <2>5
<1>4. QED
  BY <1>2, <1>3

\* An install into a file without "hooks", undone.
LEMMA MemberUndone ==
  ASSUME NoDocuments, NEW doc, IsTokens(doc), Member(doc, "hooks") = 0,
         NEW one, one = <<hooksMember>>, NEW r, r = insertAll(doc, one)
  PROVE  Uninstall(r).data = doc
<1>1. PICK t : t = hooksMember
  OBVIOUS
<1>2. IsToken(t) /\ t.key = "hooks" /\ t.kind = "object"
  BY <1>1, FreshHooks
<1>3. IsTokens(one) /\ Len(one) = 1 /\ one[1] = t /\ one # <<>> /\ DOMAIN one = {1}
  <2>1. one = <<t>>
    BY <1>1
  <2>2. IsTokens(one)
    BY <1>2, <2>1, OneItem
  <2>3. Len(one) = 1 /\ one[1] = t /\ DOMAIN one = {1}
    BY <2>1
  <2>4. QED
    BY <2>2, <2>3
<1>4. PICK pos : /\ \A p : p \in Items(r) /\ p \notin Items(doc) <=> p = pos
                 /\ r[pos] = t /\ (Items(doc) = {} => pos = 1)
  <2>1. one[1].kind # "sep"
    BY <1>2, <1>3
  <2>2. QED
    BY <1>3, <2>1, OneInserted
<1>5. /\ IsTokens(r) /\ \A p \in Items(doc) : p \in Items(r) /\ r[p] = doc[p]
  <2>1. \A j \in DOMAIN one : one[j].kind # "sep"
    BY <1>2, <1>3
  <2>2. QED
    BY <1>3, <2>1, InsertedPlaces
<1>6. Member(r, "hooks") = pos /\ pos # 0
  <2>1. \A p \in Items(doc) : doc[p].key # "hooks"
    BY MemberIsLast
  <2>2. pos \in Items(r) /\ r[pos].key = "hooks"
    BY <1>2, <1>4
  <2>3. Member(r, "hooks") # 0
    BY <1>5, <2>2, MemberIsLast
  <2>4. Member(r, "hooks") \in Items(r) /\ r[Member(r, "hooks")].key = "hooks"
    BY <1>5, <2>3, MemberIsLast
  <2>5. Member(r, "hooks") \notin Items(doc)
    BY <1>5, <2>1, <2>4
  <2>6. QED
    BY <1>4, <2>3, <2>4, <2>5
<1>7. r # freshSettings
  <2>1. SUFFICES ASSUME r = freshSettings PROVE FALSE
    OBVIOUS
  <2>2. Items(r) = {2}
    BY <2>1, FreshSettings
  <2>3. pos = 2
    BY <1>4, <2>2
  <2>4. Items(doc) = {}
    BY <1>4, <1>5, <2>2, <2>3
  <2>5. QED
    BY <1>4, <2>3, <2>4
<1>8. r # Absent /\ r # Torn
  BY <1>5 DEF NoDocuments
<1>9. Scans(r) /\ Hooks(r) = hooksMember.body
  BY <1>1, <1>2, <1>4, <1>6, <1>8 DEF Scans, Hooks
<1>10. PICK P : P = {pos}
  OBVIOUS
<1>11. uninstallSpans(r) = deleteAll(r, P)
  <2>1. PICK h : h = hooksMember.body
    OBVIOUS
  <2>2. Touched(h) # {} /\ Emptied(h) = Items(h)
    BY <2>1, OwnHooksEmptied
  <2>3. Hooks(r) = h
    BY <1>9, <2>1
  <2>4. QED
    BY <1>6, <1>10, <2>2, <2>3 DEF uninstallSpans
<1>12. NewItems(P, r, doc)
  <2>1. \A p : p \in P <=> p \in {q \in Items(r) : q \notin Items(doc)}
    BY <1>4, <1>10
  <2>2. QED
    BY <2>1 DEF NewItems
<1>13. deleteAll(r, P) = doc
  <2>1. \A j \in DOMAIN one : one[j].kind # "sep"
    BY <1>2, <1>3
  <2>2. QED
    BY <1>3, <1>12, <2>1, InsertionUndone
<1>14. Uninstall(r).data = uninstallSpans(r)
  BY <1>7, <1>8, <1>9 DEF Uninstall
<1>15. QED
  BY <1>11, <1>13, <1>14

\* What is left of others is not taken for a file that is all dira's.
LEMMA InstalledIsNotFresh ==
  ASSUME NEW hooks, UntouchedHooks(hooks), NEW r, r = WithEvents(hooks)
  PROVE  r # hooksMember.body
<1>1. SUFFICES ASSUME r = hooksMember.body PROVE FALSE
  OBVIOUS
<1>2. IsHooksBody(FALSE, hooks) /\ Items(hooks) # {}
  BY DEF UntouchedHooks
<1>3. PICK p \in Items(hooks) : TRUE
  BY <1>2
<1>4. p \in Items(r)
  BY <1>2, WithEventsPlaces
<1>5. PICK k \in DOMAIN Events : r[p] = AllEvents[k]
  BY <1>1, <1>4, FreshHooks
<1>6. PICK e : e = <<Entry(<<Dira>>)>>
  OBVIOUS
<1>7. k \in DOMAIN AllEvents
  BY EventTokens
<1>8. r[p].kind = "array" /\ r[p].body = e
  BY <1>5, <1>6, <1>7, EventTokens
<1>9. OwnedIn(e) = Items(e)
  BY <1>6, OwnEntryIsOwned
<1>10. QED
  BY <1>3, <1>8, <1>9, InstalledTouched

\* An install into a file with "hooks", undone.
LEMMA EditsUndone ==
  ASSUME NoDocuments, NEW doc, Sound(FALSE, doc), NEW m \in Items(doc), m = Member(doc, "hooks"),
         m # 0, IsHooks(doc[m]), UntouchedHooks(doc[m].body),
         NEW r, Replaced(r, doc, m, WithEvents(doc[m].body)), r # doc
  PROVE  Uninstall(r).data = doc
<1>1. PICK h, b : h = doc[m].body /\ b = WithEvents(h)
  OBVIOUS
<1>2. UntouchedHooks(h) /\ Replaced(r, doc, m, b)
  BY <1>1
<1>3. IsTokens(doc) /\ m \in DOMAIN doc /\ IsToken(doc[m]) /\ IsSeq(doc)
  BY DEF Sound, Items, IsTokens
<1>4. /\ Refilled(r, doc) /\ r[m] = Token(doc[m].key, doc[m].kind, b)
      /\ \A p \in DOMAIN doc \ {m} : r[p] = doc[p]
  BY <1>2, <1>3, OneNewBody
<1>5. /\ IsTokens(r) /\ DOMAIN r = DOMAIN doc /\ Items(r) = Items(doc)
      /\ Member(r, "hooks") = m /\ r = [p \in DOMAIN doc |-> r[p]]
  BY <1>3, <1>4, RefilledTokens DEF Refilled
<1>6. r[m].key = doc[m].key /\ r[m].kind = "object" /\ r[m].body = b
  BY <1>4, TokenParts DEF IsHooks
<1>7. doc = [p \in DOMAIN doc |-> doc[p]]
  BY <1>3, SeqDomain
<1>8. b # h
  <2>1. SUFFICES ASSUME b = h PROVE FALSE
    OBVIOUS
  <2>2. r[m] = doc[m]
    BY <1>1, <1>3, <1>4, <2>1 DEF IsToken
  <2>3. \A p \in DOMAIN doc : r[p] = doc[p]
    BY <1>4, <2>2
  <2>4. r = doc
    BY <1>5, <1>7, <2>3
  <2>5. QED
    BY <2>4
<1>9. r # freshSettings
  <2>1. SUFFICES ASSUME r = freshSettings PROVE FALSE
    OBVIOUS
  <2>2. m = 2 /\ r[2] = hooksMember
    BY <1>5, <2>1, FreshSettings
  <2>3. b = hooksMember.body
    BY <1>6, <2>2
  <2>4. QED
    BY <1>1, <1>2, <2>3, InstalledIsNotFresh
<1>10. r # Absent /\ r # Torn
  BY <1>5 DEF NoDocuments
<1>11. Scans(r) /\ Hooks(r) = b
  BY <1>5, <1>6, <1>10 DEF Scans, Hooks
<1>12. Touched(b) # {} /\ Emptied(b) # Items(b) /\ deleteAll(Pruned(b), Emptied(b)) = h
  BY <1>1, <1>2, <1>8, EventsUndone
<1>13. PICK s : s = [r EXCEPT ![m].body = h]
  OBVIOUS
<1>14. uninstallSpans(r) = s
  <2>1. PICK E : E = Emptied(b)
    OBVIOUS
  <2>2. uninstallSpans(r) = [r EXCEPT ![m].body = deleteAll(Pruned(@), E)]
    BY <1>5, <1>11, <1>12, <2>1 DEF uninstallSpans
  <2>3. [r EXCEPT ![m].body = deleteAll(Pruned(@), E)] = [r EXCEPT ![m].body = deleteAll(Pruned(b), E)]
    BY <1>3, <1>5, <1>6
  <2>4. [r EXCEPT ![m].body = deleteAll(Pruned(b), E)] = [r EXCEPT ![m].body = h]
    BY <1>12, <2>1
  <2>5. QED
    BY <1>13, <2>2, <2>3, <2>4
<1>15. s = doc
  <2>1. Replaced(s, r, m, h)
    BY <1>13 DEF Replaced
  <2>2. /\ s = [p \in DOMAIN doc |-> s[p]] /\ s[m] = Token(r[m].key, r[m].kind, h)
        /\ \A p \in DOMAIN doc \ {m} : s[p] = r[p]
    BY <1>5, <2>1, OneNewBody DEF Refilled
  <2>3. s[m] = doc[m]
    BY <1>1, <1>3, <1>6, <2>2 DEF IsToken, IsHooks
  <2>4. \A p \in DOMAIN doc : s[p] = doc[p]
    BY <1>4, <2>2, <2>3
  <2>5. QED
    BY <1>7, <2>2, <2>4
<1>16. Uninstall(r).data = uninstallSpans(r)
  BY <1>9, <1>10, <1>11 DEF Uninstall
<1>17. QED
  BY <1>14, <1>15, <1>16

\* Uninstall is the inverse of an install that wrote.
LEMMA InstallUndone ==
  ASSUME NoDocuments, NEW doc, doc = Absent \/ Sound(FALSE, doc), doc # Torn,
         Install(doc).outcome = "INSTALLED", doc # Absent => Untouched(doc)
  PROVE  Uninstall(Install(doc).data).data = doc
<1>1. CASE doc = Absent
  <2>1. PICK f : f = freshSettings
    OBVIOUS
  <2>2. Install(doc).data = f
    BY <1>1, <2>1 DEF Install
  <2>3. IsTokens(f)
    BY <2>1, FreshSettings DEF Sound
  <2>4. f # Absent
    BY <2>3 DEF NoDocuments
  <2>5. Uninstall(f).data = Absent
    BY <2>1, <2>4 DEF Uninstall
  <2>6. QED
    BY <1>1, <2>2, <2>5
<1>2. CASE doc # Absent
  <2>1. PICK r : r = installEdits(doc)
    OBVIOUS
  <2>2. /\ Scans(doc) /\ Install(doc).data = r /\ r # doc
        /\ Member(doc, "hooks") # 0 => Shaped(Hooks(doc))
    BY <1>2, <2>1 DEF Install
  <2>3. Sound(FALSE, doc) /\ IsTokens(doc) /\ Untouched(doc)
    BY <1>2 DEF Sound
  <2>4. CASE Member(doc, "hooks") = 0
    <3>1. PICK one : one = <<hooksMember>>
      OBVIOUS
    <3>2. r = insertAll(doc, one)
      BY <2>1, <2>4, <3>1 DEF installEdits
    <3>3. QED
      BY <2>2, <2>3, <2>4, <3>1, <3>2, MemberUndone
  <2>5. CASE Member(doc, "hooks") # 0
    <3>1. PICK m, h : m = Member(doc, "hooks") /\ h = doc[m].body
      OBVIOUS
    <3>2. m \in Items(doc) /\ IsHooks(doc[m]) /\ m \in DOMAIN doc
      BY <2>2, <2>3, <2>5, <3>1, MemberIsLast DEF Scans, IsHooks, Items
    <3>3. IsHooksBody(FALSE, h)
      BY <2>3, <3>1, <3>2 DEF Sound
    <3>4. Hooks(doc) = h
      BY <3>1 DEF Hooks
    <3>5. UntouchedHooks(h)
      BY <2>2, <2>3, <2>5, <3>3, <3>4 DEF UntouchedHooks, Untouched
    <3>6. r = [doc EXCEPT ![m].body = WithEvents(h)]
      <4>1. installEdits(doc) = [doc EXCEPT ![m].body = WithEvents(@)]
        BY <2>5, <3>1 DEF installEdits
      <4>2. [doc EXCEPT ![m].body = WithEvents(@)] = [doc EXCEPT ![m].body = WithEvents(h)]
        BY <3>1, <3>2
      <4>3. QED
        BY <2>1, <4>1, <4>2
    <3>7. Replaced(r, doc, m, WithEvents(doc[m].body))
      BY <3>1, <3>6 DEF Replaced
    <3>8. QED
      BY <2>2, <2>3, <2>5, <3>1, <3>2, <3>5, <3>7, EditsUndone
  <2>6. QED
    BY <2>4, <2>5
<1>3. QED
  BY <1>1, <1>2

\* What dira finds, where it can read it, is a sequence of tokens, and strictly
\* speaking one that parses and has no empty "hooks".
FilesSound(strict) == \A doc \in Settings : doc = Absent \/ doc = Torn \/ Sound(strict, doc)

\* What a process holds, between its reading and its writing too: the file it
\* is to write has the form of those it reads, and one it is to install has
\* dira's commands in force.
RunHolds(strict, q) ==
    /\ q = [at |-> q.at, undo |-> q.undo, outcome |-> q.outcome, data |-> q.data, saw |-> q.saw]
    /\ q.at \in {"decided", "cut", "done"} /\ q.undo \in BOOLEAN
    /\ q.at # "done" => q.outcome # "refused"
    /\ q.outcome # "refused" => (q.undo /\ q.data = Absent) \/ Sound(strict, q.data)
    /\ q.at = "cut" => q.data # Absent
    /\ q.outcome # "refused" /\ ~q.undo => Registered(q.data) /\ (strict => WellFormed(q.data))

\* The inductive invariant: every file on disk that can be read, and every one
\* about to be written, has that form.
HooksInv(strict) ==
    /\ settings = Absent \/ settings = Torn \/ Sound(strict, settings)
    /\ DOMAIN proc = Runs /\ \A p \in Runs : proc[p] = Idle \/ RunHolds(strict, proc[p])

LEMMA InstallHolds ==
  ASSUME NEW strict \in BOOLEAN, NEW doc, doc = Absent \/ doc = Torn \/ Sound(strict, doc),
         Install(doc).outcome # "refused"
  PROVE  /\ Sound(strict, Install(doc).data)
         /\ Registered(Install(doc).data) /\ (strict => WellFormed(Install(doc).data))
  BY InstallIsInForce

LEMMA UninstallHolds ==
  ASSUME NEW strict \in BOOLEAN, NEW doc, doc = Absent \/ doc = Torn \/ Sound(strict, doc),
         Uninstall(doc).outcome # "refused"
  PROVE  Uninstall(doc).data = Absent \/ Sound(strict, Uninstall(doc).data)
<1>1. CASE doc = Absent \/ doc = freshSettings
  BY <1>1 DEF Uninstall
<1>2. CASE doc # Absent /\ doc # freshSettings
  <2>1. Scans(doc)
    BY <1>2 DEF Uninstall
  <2>2. Sound(strict, doc) /\ (Member(doc, "hooks") # 0 => doc[Member(doc, "hooks")].kind = "object")
    BY <1>2, <2>1 DEF Scans
  <2>3. Sound(strict, uninstallSpans(doc))
    BY <2>2, SpansKeepSound
  <2>4. Uninstall(doc).data = doc \/ Uninstall(doc).data = uninstallSpans(doc)
    BY <1>2, <2>1 DEF Uninstall
  <2>5. QED
    BY <2>2, <2>3, <2>4
<1>3. QED
  BY <1>1, <1>2

\* A process that has read the file holds what its command made of it.
LEMMA DecisionHolds ==
  ASSUME NEW strict \in BOOLEAN, HooksInv(strict), NEW p \in Runs, runInstallHooks(p)
  PROVE  HooksInv(strict)'
<1>1. PICK undo \in BOOLEAN : \E r :
          /\ r = IF undo THEN Uninstall(settings) ELSE Install(settings)
          /\ proc' = [proc EXCEPT ![p] =
                        [at |-> IF r.outcome \in {"INSTALLED", "REMOVED"} THEN "decided" ELSE "done",
                         undo |-> undo, outcome |-> r.outcome, data |-> r.data, saw |-> settings]]
          /\ settings' = settings
  BY DEF runInstallHooks
<1>2. PICK r, q :
          /\ r = IF undo THEN Uninstall(settings) ELSE Install(settings)
          /\ q = [at |-> IF r.outcome \in {"INSTALLED", "REMOVED"} THEN "decided" ELSE "done",
                  undo |-> undo, outcome |-> r.outcome, data |-> r.data, saw |-> settings]
          /\ proc' = [proc EXCEPT ![p] = q]
  BY <1>1
<1>3. q.at \in {"decided", "done"} /\ q.undo = undo /\ q.outcome = r.outcome /\ q.data = r.data
  BY <1>2
<1>4. q = [at |-> q.at, undo |-> q.undo, outcome |-> q.outcome, data |-> q.data, saw |-> q.saw]
  BY <1>2
<1>5. q.at # "done" => q.outcome # "refused"
  BY <1>2
<1>6. CASE undo
  <2>1. r = Uninstall(settings)
    BY <1>2, <1>6
  <2>2. r.outcome # "refused" => r.data = Absent \/ Sound(strict, r.data)
    BY <2>1, UninstallHolds DEF HooksInv
  <2>3. RunHolds(strict, q)
    BY <1>3, <1>4, <1>5, <1>6, <2>2 DEF RunHolds
  <2>4. QED
    BY <1>1, <1>2, <2>3 DEF HooksInv
<1>7. CASE ~undo
  <2>1. r = Install(settings)
    BY <1>2, <1>7
  <2>2. r.outcome # "refused" =>
           Sound(strict, r.data) /\ Registered(r.data) /\ (strict => WellFormed(r.data))
    BY <2>1, InstallHolds DEF HooksInv
  <2>3. RunHolds(strict, q)
    BY <1>3, <1>4, <1>5, <1>7, <2>2 DEF RunHolds
  <2>4. QED
    BY <1>1, <1>2, <2>3 DEF HooksInv
<1>8. QED
  BY <1>6, <1>7

LEMMA HooksStep ==
  ASSUME NEW strict \in BOOLEAN, FilesSound(strict), HooksInv(strict), [HooksNext]_hookVars
  PROVE  HooksInv(strict)'
<1>1. ASSUME NEW p \in Runs, runInstallHooks(p) PROVE HooksInv(strict)'
  BY <1>1, DecisionHolds
<1>2. ASSUME NEW p \in Runs, Truncate(p) PROVE HooksInv(strict)'
  <2>1. /\ proc[p].at = "decided" /\ proc[p].data # Absent /\ settings' = Torn
        /\ proc' = [proc EXCEPT ![p].at = "cut"]
    BY <1>2 DEF Truncate
  <2>2. RunHolds(strict, proc[p])
    BY <2>1 DEF HooksInv, Idle
  <2>3. PICK q : q = [proc[p] EXCEPT !.at = "cut"]
    OBVIOUS
  <2>4. q = [at |-> "cut", undo |-> proc[p].undo, outcome |-> proc[p].outcome, data |-> proc[p].data, saw |-> proc[p].saw]
    BY <2>2, <2>3 DEF RunHolds
  <2>5. RunHolds(strict, q)
    BY <2>1, <2>2, <2>4 DEF RunHolds
  <2>6. proc' = [proc EXCEPT ![p] = q]
    BY <2>1, <2>3
  <2>7. QED
    BY <2>1, <2>5, <2>6 DEF HooksInv
<1>3. ASSUME NEW p \in Runs, WriteFile(p) PROVE HooksInv(strict)'
  <2>1. proc[p].at = "cut" /\ settings' = proc[p].data /\ proc' = [proc EXCEPT ![p].at = "done"]
    BY <1>3 DEF WriteFile
  <2>2. RunHolds(strict, proc[p])
    BY <2>1 DEF HooksInv, Idle
  <2>3. PICK q : q = [proc[p] EXCEPT !.at = "done"]
    OBVIOUS
  <2>4. q = [at |-> "done", undo |-> proc[p].undo, outcome |-> proc[p].outcome, data |-> proc[p].data, saw |-> proc[p].saw]
    BY <2>2, <2>3 DEF RunHolds
  <2>5. RunHolds(strict, q)
    BY <2>1, <2>2, <2>4 DEF RunHolds
  <2>6. proc' = [proc EXCEPT ![p] = q]
    BY <2>1, <2>3
  <2>7. Sound(strict, proc[p].data)
    BY <2>1, <2>2 DEF RunHolds
  <2>8. QED
    BY <2>1, <2>5, <2>6, <2>7 DEF HooksInv
<1>4. ASSUME NEW p \in Runs, Delete(p) PROVE HooksInv(strict)'
  <2>1. proc[p].at = "decided" /\ settings' = Absent /\ proc' = [proc EXCEPT ![p].at = "done"]
    BY <1>4 DEF Delete
  <2>2. RunHolds(strict, proc[p])
    BY <2>1 DEF HooksInv, Idle
  <2>3. PICK q : q = [proc[p] EXCEPT !.at = "done"]
    OBVIOUS
  <2>4. q = [at |-> "done", undo |-> proc[p].undo, outcome |-> proc[p].outcome, data |-> proc[p].data, saw |-> proc[p].saw]
    BY <2>2, <2>3 DEF RunHolds
  <2>5. RunHolds(strict, q)
    BY <2>1, <2>2, <2>4 DEF RunHolds
  <2>6. proc' = [proc EXCEPT ![p] = q]
    BY <2>1, <2>3
  <2>7. QED
    BY <2>1, <2>5, <2>6 DEF HooksInv
<1>5. ASSUME NEW p \in Runs, Exit(p) PROVE HooksInv(strict)'
  BY <1>5 DEF Exit, HooksInv
<1>6. CASE OperatorEdits
  <2>1. settings' \in Edited(settings) \cup Settings /\ proc' = proc
    BY <1>6 DEF OperatorEdits
  <2>2. settings' \in Edited(settings) => Sound(strict, settings')
    BY EditsKeepSound DEF HooksInv
  <2>3. settings' = Absent \/ settings' = Torn \/ Sound(strict, settings')
    BY <2>1, <2>2 DEF FilesSound
  <2>4. QED
    BY <2>1, <2>3 DEF HooksInv
<1>7. CASE UNCHANGED hookVars
  BY <1>7 DEF HooksInv, hookVars
<1>8. QED
  BY <1>1, <1>2, <1>3, <1>4, <1>5, <1>6, <1>7 DEF HooksNext

\* What neither command changes of others' is known from the reading on.
LEMMA OthersStep ==
  ASSUME NoDocuments, HooksInv(FALSE), OthersSurvive, [HooksNext]_hookVars
  PROVE  OthersSurvive'
<1>1. DOMAIN proc = Runs
  BY DEF HooksInv
<1>2. ASSUME NEW p \in Runs, runInstallHooks(p) PROVE OthersSurvive'
  <2>1. PICK undo \in BOOLEAN : \E r :
          /\ r = IF undo THEN Uninstall(settings) ELSE Install(settings)
          /\ proc' = [proc EXCEPT ![p] =
                        [at |-> IF r.outcome \in {"INSTALLED", "REMOVED"} THEN "decided" ELSE "done",
                         undo |-> undo, outcome |-> r.outcome, data |-> r.data, saw |-> settings]]
    BY <1>2 DEF runInstallHooks
  <2>2. PICK r, q :
          /\ r = IF undo THEN Uninstall(settings) ELSE Install(settings)
          /\ q = [at |-> IF r.outcome \in {"INSTALLED", "REMOVED"} THEN "decided" ELSE "done",
                  undo |-> undo, outcome |-> r.outcome, data |-> r.data, saw |-> settings]
          /\ proc' = [proc EXCEPT ![p] = q]
    BY <2>1
  <2>3. q.outcome = r.outcome /\ q.data = r.data /\ q.saw = settings
    BY <2>2
  <2>4. r.outcome # "refused" => NotDiras(r.data) = NotDiras(settings)
    BY <2>2, InstallKeepsOthers, UninstallKeepsOthers DEF HooksInv
  <2>5. q.outcome # "refused" => NotDiras(q.data) = NotDiras(q.saw)
    BY <2>3, <2>4
  <2>6. proc'[p] = q /\ \A i \in Runs \ {p} : proc'[i] = proc[i]
    BY <1>1, <2>2
  <2>7. QED
    BY <2>5, <2>6 DEF OthersSurvive
<1>3. ASSUME NEW p \in Runs, NEW at, proc[p].at # "idle", proc' = [proc EXCEPT ![p].at = at]
      PROVE  OthersSurvive'
  <2>1. proc[p] # Idle /\ RunHolds(FALSE, proc[p])
    <3>1. proc[p] # Idle
      BY <1>3 DEF Idle
    <3>2. QED
      BY <3>1 DEF HooksInv
  <2>2. proc[p] = [at |-> proc[p].at, undo |-> proc[p].undo, outcome |-> proc[p].outcome,
                   data |-> proc[p].data, saw |-> proc[p].saw]
    BY <2>1 DEF RunHolds
  <2>3. PICK q : q = [proc[p] EXCEPT !.at = at]
    OBVIOUS
  <2>4. q.outcome = proc[p].outcome /\ q.data = proc[p].data /\ q.saw = proc[p].saw
    BY <2>2, <2>3
  <2>5. proc'[p] = q /\ \A i \in Runs \ {p} : proc'[i] = proc[i]
    BY <1>1, <1>3, <2>3
  <2>6. QED
    BY <2>1, <2>4, <2>5 DEF OthersSurvive
<1>4. ASSUME NEW p \in Runs, Truncate(p) \/ WriteFile(p) \/ Delete(p) PROVE OthersSurvive'
  <2>1. proc[p].at # "idle" /\ \E at : proc' = [proc EXCEPT ![p].at = at]
    BY <1>4 DEF Truncate, WriteFile, Delete
  <2>2. QED
    BY <1>3, <2>1
<1>5. ASSUME NEW p \in Runs, Exit(p) PROVE OthersSurvive'
  BY <1>1, <1>5 DEF Exit, OthersSurvive
<1>6. CASE OperatorEdits \/ UNCHANGED hookVars
  <2>1. proc' = proc
    BY <1>6 DEF OperatorEdits, hookVars
  <2>2. QED
    BY <2>1 DEF OthersSurvive
<1>7. QED
  BY <1>2, <1>4, <1>5, <1>6 DEF HooksNext

\* THE THEOREM: what an install reports as done, or as there already, parses
\* and has dira's command under every event, whatever others do to the file.
THEOREM InstalledIsInForce ==
  ASSUME FilesSound(TRUE)
  PROVE  HooksInit /\ [][HooksNext]_hookVars => []InstalledMeansInForce
<1>1. HooksInit => HooksInv(TRUE)
  BY DEF HooksInit, HooksInv, FilesSound
<1>2. HooksInv(TRUE) /\ [HooksNext]_hookVars => HooksInv(TRUE)'
  BY HooksStep
<1>3. HooksInv(TRUE) => InstalledMeansInForce
  BY DEF HooksInv, RunHolds, InstalledMeansInForce
<1>4. QED
  BY <1>1, <1>2, <1>3, PTL

\* THE THEOREM: whatever is in the file and whoever writes it between, what
\* either command is about to write holds what is not dira's of what the command
\* read, in its order; and an uninstall gives a file nobody had dira's entries
\* in back to the last blank.
THEOREM UninstallIsInverse ==
  ASSUME NoDocuments, FilesSound(FALSE)
  PROVE  HooksInit /\ [][HooksNext]_hookVars => []UninstallUndoes
<1> DEFINE Inv == HooksInv(FALSE) /\ OthersSurvive
<1>1. HooksInit => Inv
  BY DEF HooksInit, HooksInv, FilesSound, OthersSurvive
<1>2. Inv /\ [HooksNext]_hookVars => Inv'
  BY HooksStep, OthersStep
<1>3. Inv => UninstallUndoes
  BY InstallUndone DEF HooksInv, UninstallUndoes
<1>4. QED
  BY <1>1, <1>2, <1>3, PTL
=============================================================================
