------------------------------ MODULE NatFacts -------------------------------
(***************************************************************************)
(* Facts about natural numbers that the other proofs cite.                 *)
(***************************************************************************)
EXTENDS Integers, Sequences, TLAPS

-----------------------------------------------------------------------------
(* Remainders: what the provers know is only that n % d is below d. *)

LEMMA ModRange ==
  ASSUME NEW n \in Int, NEW d \in Nat \ {0}
  PROVE  n % d \in 0 .. d - 1
<1>. QED
  OBVIOUS

\* The remainder is the only number below d that differs from n by a multiple of d.
LEMMA ModUnique ==
  ASSUME NEW n \in Int, NEW d \in Nat \ {0}, NEW q \in Int, NEW x \in 0 .. d - 1, n = d * q + x
  PROVE  n % d = x
<1>. QED
  OBVIOUS

LEMMA Distributes ==
  ASSUME NEW d \in Int, NEW q \in Int, NEW k \in Int
  PROVE  d * q \in Int /\ d * (q + k) = d * q + d * k
<1>. QED
  OBVIOUS

LEMMA Quotient ==
  ASSUME NEW n \in Int, NEW d \in Nat \ {0}
  PROVE  \E q \in Int : n = d * q + (n % d)
<1>1. (n \div d) \in Int
  OBVIOUS
<1>2. n = d * (n \div d) + (n % d)
  OBVIOUS
<1>. QED
  BY <1>1, <1>2, Zenon

\* Numbers that differ by a multiple of d have the same remainder.
LEMMA ModSame ==
  ASSUME NEW d \in Nat \ {0}, NEW n \in Int, NEW m \in Int, NEW q \in Int, n = m + d * q
  PROVE  n % d = m % d
<1>1. PICK k \in Int : m = d * k + (m % d)
  BY Quotient
<1>2. PICK x \in 0 .. d - 1 : x = m % d
  BY ModRange
<1>3. m = d * k + x
  BY <1>1, <1>2, Zenon
<1>4. n = d * (k + q) + x /\ k + q \in Int
  BY <1>3, Distributes
<1>5. n % d = x
  <2>. DEFINE g == k + q
  <2>. HIDE DEF g
  <2>1. n = d * g + x /\ g \in Int
    BY <1>4, Zenon DEF g
  <2>. QED
    BY <2>1, ModUnique, Zenon
<1>. QED
  BY <1>2, <1>5, Zenon

\* The remainder of a sum or difference, of numbers or of their remainders.
LEMMA ModPlus ==
  ASSUME NEW d \in Nat \ {0}, NEW n \in Int, NEW k \in Int
  PROVE  ((n % d) + k) % d = (n + k) % d
<1>1. PICK q \in Int : n = d * q + (n % d)
  BY Quotient
<1>2. PICK x \in 0 .. d - 1 : x = n % d
  BY ModRange
<1>3. n = d * q + x
  BY <1>1, <1>2, Zenon
<1>4. n + k = (x + k) + d * q /\ x + k \in Int /\ n + k \in Int
  BY <1>3
<1>5. (n + k) % d = (x + k) % d
  <2>. DEFINE a == n + k
              b == x + k
  <2>. HIDE DEF a, b
  <2>1. a = b + d * q /\ a \in Int /\ b \in Int
    BY <1>4, Zenon DEF a, b
  <2>2. a % d = b % d
    BY <2>1, ModSame, Zenon
  <2>. QED
    BY <2>2, Zenon DEF a, b
<1>. QED
  BY <1>2, <1>5, Zenon

\* A counter that wraps at a multiple of the size d of a ring finds the same cell.
LEMMA ModWrap ==
  ASSUME NEW d \in Nat \ {0}, NEW u \in Nat \ {0}, NEW f \in Int, u = d * f,
         NEW n \in Int, NEW k \in Int
  PROVE  ((n % u) + k) % d = (n + k) % d
<1>1. PICK q \in Int : n = u * q + (n % u)
  BY Quotient
<1>2. PICK x \in 0 .. u - 1 : x = n % u
  BY ModRange
<1>3. n = u * q + x
  BY <1>1, <1>2, Zenon
<1>4. u * q = d * (f * q) /\ f * q \in Int
  OBVIOUS
<1>5. n + k = (x + k) + d * (f * q) /\ x + k \in Int /\ n + k \in Int
  BY <1>3, <1>4
<1>6. (n + k) % d = (x + k) % d
  <2>. DEFINE g == f * q
              a == n + k
              b == x + k
  <2>. HIDE DEF g, a, b
  <2>1. a = b + d * g /\ a \in Int /\ b \in Int /\ g \in Int
    BY <1>4, <1>5, Zenon DEF g, a, b
  <2>2. a % d = b % d
    BY <2>1, ModSame, Zenon
  <2>. QED
    BY <2>2, Zenon DEF a, b
<1>. QED
  BY <1>2, <1>6, Zenon

LEMMA ModTwice ==
  ASSUME NEW d \in Nat \ {0}, NEW u \in Nat \ {0}, NEW f \in Int, u = d * f, NEW n \in Int
  PROVE  (n % u) % d = n % d
<1>1. PICK q \in Int : n = u * q + (n % u)
  BY Quotient
<1>2. PICK x \in 0 .. u - 1 : x = n % u
  BY ModRange
<1>3. n = u * q + x
  BY <1>1, <1>2, Zenon
<1>4. u * q = d * (f * q) /\ f * q \in Int
  OBVIOUS
<1>5. n = x + d * (f * q) /\ x \in Int
  BY <1>3, <1>4
<1>6. n % d = x % d
  <2>. DEFINE g == f * q
  <2>. HIDE DEF g
  <2>1. n = x + d * g /\ x \in Int /\ g \in Int
    BY <1>4, <1>5, Zenon DEF g
  <2>. QED
    BY <2>1, ModSame, Zenon
<1>. QED
  BY <1>2, <1>6, Zenon

\* How far a counter m that wraps is behind another one n.
LEMMA ModMinus ==
  ASSUME NEW d \in Nat \ {0}, NEW u \in Nat \ {0}, NEW f \in Int, u = d * f,
         NEW n \in Int, NEW m \in Int
  PROVE  (n - (m % u)) % d = (n - m) % d
<1>1. PICK q \in Int : m = u * q + (m % u)
  BY Quotient
<1>2. PICK x \in 0 .. u - 1 : x = m % u
  BY ModRange
<1>3. m = u * q + x
  BY <1>1, <1>2, Zenon
<1>4. u * q = d * (f * q) /\ f * q \in Int
  OBVIOUS
<1>5. n - x = (n - m) + d * (f * q) /\ n - x \in Int /\ n - m \in Int
  BY <1>3, <1>4
<1>6. (n - x) % d = (n - m) % d
  <2>. DEFINE g == f * q
              a == n - x
              b == n - m
  <2>. HIDE DEF g, a, b
  <2>1. a = b + d * g /\ a \in Int /\ b \in Int /\ g \in Int
    BY <1>4, <1>5, Zenon DEF g, a, b
  <2>2. a % d = b % d
    BY <2>1, ModSame, Zenon
  <2>. QED
    BY <2>2, Zenon DEF a, b
<1>. QED
  BY <1>2, <1>6, Zenon

\* Numbers that are less than d apart have different remainders.
LEMMA ModApart ==
  ASSUME NEW d \in Nat \ {0}, NEW f \in Int, NEW j \in 0 .. d - 1, NEW k \in 0 .. d - 1, (f + j) % d = (f + k) % d
  PROVE  j = k
<1>1. ((f + j) - (f + k)) % d = 0
  <2>. DEFINE x == f + j
              y == f + k
  <2>1. x \in Int /\ y \in Int
    OBVIOUS
  <2>. HIDE DEF x, y
  <2>2. PICK q \in Int : x = d * q + (x % d)
    BY <2>1, Quotient
  <2>3. PICK h \in Int : y = d * h + (y % d)
    BY <2>1, Quotient
  <2>4. PICK z \in 0 .. d - 1 : z = x % d
    BY <2>1, ModRange
  <2>5. x % d = y % d
    BY Zenon DEF x, y
  <2>6. x = d * q + z /\ y = d * h + z
    BY <2>2, <2>3, <2>4, <2>5, Zenon
  <2>7. x - y = d * (q - h) + 0 /\ x - y \in Int /\ q - h \in Int /\ 0 \in 0 .. d - 1
    BY <2>1, <2>6, Distributes
  <2>8. (x - y) % d = 0
    BY <2>7, ModUnique, Zenon
  <2>. QED
    BY <2>8, Zenon DEF x, y
<1>2. (f + j) - (f + k) = j - k
  OBVIOUS
<1>3. (j - k) % d = 0
  BY <1>1, <1>2, Zenon
<1>4. CASE j >= k
  <2>1. j - k \in 0 .. d - 1 /\ j - k \in Int /\ j - k = d * 0 + (j - k) /\ 0 \in Int
    BY <1>4
  <2>2. (j - k) % d = j - k
    <3>. DEFINE a == j - k
    <3>. HIDE DEF a
    <3>1. a \in 0 .. d - 1 /\ a \in Int /\ a = d * 0 + a /\ 0 \in Int
      BY <2>1, Zenon DEF a
    <3>2. a % d = a
      BY <3>1, ModUnique, Zenon
    <3>. QED
      BY <3>2, Zenon DEF a
  <2>. QED
    BY <1>3, <2>1, <2>2
<1>5. CASE j < k
  <2>1. /\ (j - k) + d \in 0 .. d - 1 /\ (j - k) + d \in 1 .. d - 1
        /\ j - k \in Int /\ j - k = d * (-1) + ((j - k) + d) /\ -1 \in Int
    BY <1>5
  <2>2. (j - k) % d = (j - k) + d
    <3>. DEFINE a == j - k
                b == (j - k) + d
                h == -1
    <3>. HIDE DEF a, b, h
    <3>1. b \in 0 .. d - 1 /\ a \in Int /\ a = d * h + b /\ h \in Int
      BY <2>1, Zenon DEF a, b, h
    <3>2. a % d = b
      BY <3>1, ModUnique, Zenon
    <3>. QED
      BY <3>2, Zenon DEF a, b
  <2>. QED
    BY <1>3, <2>1, <2>2
<1>. QED
  BY <1>4, <1>5
LEMMA DivFacts ==
  ASSUME NEW n \in Nat, NEW d \in Nat \ {0}
  PROVE  (n \div d) \in Nat /\ (n \div d) * d <= n /\ n < (n \div d) * d + d
<1>1. (n \div d) \in Int
  OBVIOUS
<1>2. n = d * (n \div d) + (n % d)
  OBVIOUS
<1>. QED
  BY <1>1, <1>2

-----------------------------------------------------------------------------
(* Lists. *)

LEMMA Joined ==
  ASSUME NEW S, NEW a \in Seq(S), NEW b \in Seq(S)
  PROVE  /\ a \o b \in Seq(S) /\ Len(a \o b) = Len(a) + Len(b)
         /\ \A i \in 1 .. Len(a) : (a \o b)[i] = a[i]
         /\ \A i \in 1 .. Len(b) : (a \o b)[Len(a) + i] = b[i]
<1>. QED
  OBVIOUS

LEMMA Listed ==
  ASSUME NEW S, NEW n \in Nat, NEW f, f = [i \in 1 .. n |-> f[i]], \A i \in 1 .. n : f[i] \in S
  PROVE  f \in Seq(S) /\ Len(f) = n
<1>1. f \in [1 .. n -> S]
  BY Zenon
<1>. QED
  BY <1>1

LEMMA SameLists ==
  ASSUME NEW S, NEW s \in Seq(S), NEW t \in Seq(S), Len(s) = Len(t),
         \A i \in 1 .. Len(s) : s[i] = t[i]
  PROVE  s = t
<1>. QED
  OBVIOUS

LEMMA TailOfOne ==
  ASSUME NEW S, NEW s \in Seq(S), Len(s) = 1
  PROVE  Tail(s) = <<>>
<1>1. s # <<>>
  OBVIOUS
<1>2. Tail(s) \in Seq(S) /\ Len(Tail(s)) = 0
  BY <1>1
<1>. DEFINE t == Tail(s)
<1>. HIDE DEF t
<1>3. t \in Seq(S) /\ Len(t) = 0
  BY <1>2, Zenon DEF t
<1>4. t = <<>>
  BY <1>3
<1>. QED
  BY <1>4, Zenon DEF t

\* What is left of a list behind its first m entries, and these entries.
LEMMA Parts ==
  ASSUME NEW S, NEW s \in Seq(S), NEW m \in 0 .. Len(s)
  PROVE  /\ SubSeq(s, m + 1, Len(s)) \in Seq(S) /\ Len(SubSeq(s, m + 1, Len(s))) = Len(s) - m
         /\ \A i \in 1 .. Len(s) - m : SubSeq(s, m + 1, Len(s))[i] = s[m + i]
         /\ SubSeq(s, 1, m) \in Seq(S) /\ Len(SubSeq(s, 1, m)) = m
         /\ \A i \in 1 .. m : SubSeq(s, 1, m)[i] = s[i]
<1>1. /\ SubSeq(s, m + 1, Len(s)) \in Seq(S) /\ Len(SubSeq(s, m + 1, Len(s))) = Len(s) - m
  OBVIOUS
<1>2. \A i \in 1 .. Len(s) - m : SubSeq(s, m + 1, Len(s))[i] = s[m + i]
  OBVIOUS
<1>3. SubSeq(s, 1, m) \in Seq(S) /\ Len(SubSeq(s, 1, m)) = m /\ \A i \in 1 .. m : SubSeq(s, 1, m)[i] = s[i]
  OBVIOUS
<1>. QED
  BY <1>1, <1>2, <1>3, Zenon

\* A part of a list.
LEMMA Slice ==
  ASSUME NEW S, NEW s \in Seq(S), NEW a \in Nat, NEW n \in Nat, a + n <= Len(s)
  PROVE  /\ SubSeq(s, a + 1, a + n) \in Seq(S) /\ Len(SubSeq(s, a + 1, a + n)) = n
         /\ \A i \in 1 .. n : SubSeq(s, a + 1, a + n)[i] = s[a + i]
<1>1. /\ SubSeq(s, a + 1, a + n) \in Seq(S) /\ Len(SubSeq(s, a + 1, a + n)) = n
  OBVIOUS
<1>2. \A i \in 1 .. n : SubSeq(s, a + 1, a + n)[i] = s[a + i]
  OBVIOUS
<1>. QED
  BY <1>1, <1>2
=============================================================================
