---------------------------- MODULE RoutePlanProofs ----------------------------
(***************************************************************************)
(* The routes of a generation are what the lists say, for every width of   *)
(* an address and every sequence of edits: the prefix arithmetic first,    *)
(* then what Normalize and SubtractAll return, then the table.             *)
(***************************************************************************)
EXTENDS RoutePlan, FiniteSetTheorems, WellFoundedInduction, TLAPS

-----------------------------------------------------------------------------
(* Induction and recursion.  The library states them for operators; here    *)
(* they are stated for sets and functions.                                  *)

LEMMA Induction ==
    ASSUME NEW S, 0 \in S, \A n \in Nat : n \in S => n + 1 \in S
    PROVE  Nat \subseteq S
<1> DEFINE T == Nat \ S
<1>1. SUFFICES ASSUME T # {} PROVE FALSE
  OBVIOUS
<1>2. PICK x \in T : \A y \in T : ~(<<y, x>> \in OpToRel(<, Nat))
  BY <1>1, NatLessThanWellFounded, WFMin
<1>3. x # 0 /\ x - 1 \in Nat /\ x - 1 < x
  OBVIOUS
<1>4. x - 1 \in T
  BY <1>3
<1>5. <<x - 1, x>> \in OpToRel(<, Nat)
  BY <1>3 DEF OpToRel
<1> QED
  BY <1>2, <1>4, <1>5

\* Each value of a function is determined by the values of lower rank.
Determined(D, V, rank, N, G) ==
    /\ V # {}
    /\ N \in Nat
    /\ rank \in [D -> Nat]
    /\ \A d \in D : rank[d] < N
    /\ G \in [D \X [D -> V] -> V]
    /\ \A d \in D, f \in [D -> V], g \in [D -> V] :
           (\A e \in D : rank[e] < rank[d] => f[e] = g[e])
               => G[<<d, f>>] = G[<<d, g>>]

LEMMA Recursion ==
    ASSUME NEW D, NEW V, NEW rank, NEW N, NEW G, Determined(D, V, rank, N, G)
    PROVE  \E f \in [D -> V] : \A d \in D : f[d] = G[<<d, f>>]
<1> USE DEF Determined
<1> DEFINE Upto(n, f) == \A d \in D : rank[d] < n => f[d] = G[<<d, f>>]
           S == {n \in Nat : \E f \in [D -> V] : Upto(n, f)}
<1>1. 0 \in S
  <2>1. PICK v \in V : TRUE
    OBVIOUS
  <2>2. [d \in D |-> v] \in [D -> V] /\ Upto(0, [d \in D |-> v])
    OBVIOUS
  <2> QED
    BY <2>2
<1>2. ASSUME NEW n \in Nat, n \in S PROVE n + 1 \in S
  <2>1. PICK f \in [D -> V] : Upto(n, f)
    BY <1>2
  <2> DEFINE g == [d \in D |-> IF rank[d] < n THEN f[d] ELSE G[<<d, f>>]]
  <2>2. g \in [D -> V]
    OBVIOUS
  <2>3. ASSUME NEW d \in D, rank[d] < n + 1 PROVE g[d] = G[<<d, g>>]
    <3>1. \A e \in D : rank[e] < rank[d] => f[e] = g[e]
      BY <2>3
    <3>2. G[<<d, f>>] = G[<<d, g>>]
      BY <2>2, <3>1
    <3>3. g[d] = G[<<d, f>>]
      BY <2>1
    <3> QED
      BY <3>2, <3>3
  <2>4. Upto(n + 1, g)
    BY <2>3
  <2> HIDE DEF g, Upto
  <2> QED
    BY <2>2, <2>4
<1>3. N \in S
  <2> HIDE DEF S
  <2>1. \A n \in Nat : n \in S => n + 1 \in S
    BY <1>2
  <2>2. Nat \subseteq S
    BY <1>1, <2>1, Induction
  <2> QED
    BY <2>2
<1>4. PICK f \in [D -> V] : Upto(N, f)
  BY <1>3
<1>5. \A d \in D : f[d] = G[<<d, f>>]
  BY <1>4
<1> QED
  BY <1>5

-----------------------------------------------------------------------------
(* Spans and prefixes *)

LEMMA SpanDefined ==
    Span = [bits \in 0..Bits |-> IF bits = Bits THEN 1 ELSE 2 * Span[bits + 1]]
<1> DEFINE D == 0..Bits
           N == Bits + 1
           rank == [d \in D |-> Bits - d]
           G == [x \in D \X [D -> Nat] |->
                    IF x[1] = Bits THEN 1 ELSE 2 * x[2][x[1] + 1]]
           Is(f) == f = [bits \in 0..Bits |-> IF bits = Bits THEN 1 ELSE 2 * f[bits + 1]]
<1>1. rank \in [D -> Nat] /\ N \in Nat /\ \A d \in D : rank[d] < N
  BY LinksAssumption
<1>2. \A d \in D, f \in [D -> Nat] :
          G[<<d, f>>] = IF d = Bits THEN 1 ELSE 2 * f[d + 1]
  OBVIOUS
<1>3. G \in [D \X [D -> Nat] -> Nat]
  BY LinksAssumption
<1>4. ASSUME NEW d \in D, NEW f \in [D -> Nat], NEW g \in [D -> Nat],
             \A e \in D : rank[e] < rank[d] => f[e] = g[e]
      PROVE  G[<<d, f>>] = G[<<d, g>>]
  <2>1. CASE d = Bits
    BY <1>2, <2>1
  <2>2. CASE d # Bits
    <3>1. d + 1 \in D /\ rank[d + 1] < rank[d]
      BY <2>2, LinksAssumption
    <3> QED
      BY <1>2, <1>4, <3>1
  <2> QED
    BY <2>1, <2>2
<1>5. Determined(D, Nat, rank, N, G)
  <2> HIDE DEF G, rank, D, N
  <2> QED
    BY <1>1, <1>3, <1>4 DEF Determined
<1>6. PICK f \in [D -> Nat] : \A d \in D : f[d] = G[<<d, f>>]
  <2> HIDE DEF G, rank, D, N
  <2> QED
    BY <1>5, Recursion
<1>7. Is(f)
  <2> HIDE DEF G
  <2> QED
    BY <1>2, <1>6
<1> QED
  BY <1>7 DEF Span

LEMMA SpanStep ==
    /\ Span[Bits] = 1
    /\ \A bits \in 0..Bits : bits # Bits => Span[bits] = 2 * Span[bits + 1]
<1> DEFINE Value(bits) == IF bits = Bits THEN 1 ELSE 2 * Span[bits + 1]
<1>1. \A bits \in 0..Bits : Span[bits] = Value(bits)
  <2> DEFINE f == [bits \in 0..Bits |-> Value(bits)]
  <2>1. \A bits \in 0..Bits : f[bits] = Value(bits)
    OBVIOUS
  <2>2. Span = f
    BY SpanDefined
  <2> HIDE DEF f, Value
  <2> QED
    BY <2>1, <2>2
<1> QED
  BY <1>1, LinksAssumption

LEMMA SpanType == \A bits \in 0..Bits : Span[bits] \in Nat \ {0}
<1> DEFINE S == {n \in Nat : n <= Bits => Span[Bits - n] \in Nat \ {0}}
<1> USE LinksAssumption
<1>1. 0 \in S
  BY SpanStep
<1>2. ASSUME NEW n \in Nat, n \in S PROVE n + 1 \in S
  <2>1. SUFFICES ASSUME n + 1 <= Bits PROVE Span[Bits - (n + 1)] \in Nat \ {0}
    OBVIOUS
  <2> DEFINE b == Bits - (n + 1)
  <2>2. b \in 0..Bits /\ b # Bits /\ b + 1 = Bits - n
    BY <2>1
  <2>3. Span[b] = 2 * Span[b + 1]
    BY <2>2, SpanStep
  <2>4. Span[b + 1] \in Nat \ {0}
    BY <1>2, <2>1, <2>2
  <2> QED
    BY <2>3, <2>4
<1>3. Nat \subseteq S
  <2> HIDE DEF S
  <2> QED
    BY <1>1, <1>2, Induction
<1>4. ASSUME NEW bits \in 0..Bits PROVE Span[bits] \in Nat \ {0}
  <2>1. Bits - bits \in S /\ Bits - bits <= Bits /\ Bits - (Bits - bits) = bits
    BY <1>3
  <2> QED
    BY <2>1
<1> QED
  BY <1>4

\* Every prefix length divides the addresses evenly.
LEMMA SpanDivides == \A bits \in 0..Bits : \E n \in Nat : Span[0] = n * Span[bits]
<1> DEFINE S == {b \in Nat : b <= Bits => \E n \in Nat : Span[0] = n * Span[b]}
<1> USE LinksAssumption
<1>1. 0 \in S
  <2>1. Span[0] \in Nat /\ Span[0] = 1 * Span[0]
    BY SpanType
  <2> QED
    BY <2>1
<1>2. ASSUME NEW b \in Nat, b \in S PROVE b + 1 \in S
  <2>1. SUFFICES ASSUME b + 1 <= Bits
                 PROVE  \E n \in Nat : Span[0] = n * Span[b + 1]
    OBVIOUS
  <2>2. b \in 0..Bits /\ b # Bits /\ b + 1 \in 0..Bits
    BY <2>1
  <2>3. PICK n \in Nat : Span[0] = n * Span[b]
    BY <1>2, <2>2
  <2>4. Span[b] = 2 * Span[b + 1] /\ Span[b + 1] \in Nat
    BY <2>2, SpanStep, SpanType
  <2>5. Span[0] = (2 * n) * Span[b + 1]
    BY <2>3, <2>4
  <2> QED
    BY <2>5
<1>3. Nat \subseteq S
  <2> HIDE DEF S
  <2> QED
    BY <1>1, <1>2, Induction
<1> QED
  BY <1>3

LEMMA Division ==
    ASSUME NEW k \in Nat \ {0}, NEW a \in Nat
    PROVE  /\ a \div k \in Nat
           /\ (a \div k) * k <= a
           /\ a < (a \div k) * k + k
           /\ a \div (2 * k) = (a \div k) \div 2
<1>1. a \div k \in Nat
  OBVIOUS
<1>2. (a \div k) * k <= a /\ a < (a \div k) * k + k
  OBVIOUS
<1>3. a \div (2 * k) = (a \div k) \div 2
  OBVIOUS
<1> QED
  BY <1>1, <1>2, <1>3

LEMMA DivisionOf ==
    ASSUME NEW k \in Nat \ {0}, NEW m \in Nat, NEW r \in Nat, r < k
    PROVE  (m * k + r) \div k = m
  OBVIOUS

LEMMA Multiple ==
    ASSUME NEW k \in Nat \ {0}, NEW m \in Nat, NEW n \in Nat, m * k < n * k
    PROVE  m * k + k <= n * k
<1>1. m < n
  <2>1. SUFFICES ASSUME n <= m PROVE n * k <= m * k
    OBVIOUS
  <2> QED
    BY <2>1
<1>2. m + 1 <= n
  BY <1>1
<1>3. (m + 1) * k <= n * k
  BY <1>2
<1>4. (m + 1) * k = m * k + k
  OBVIOUS
<1> QED
  BY <1>3, <1>4

LEMMA AddressType == Address \subseteq Nat /\ 0 \in Address
<1>1. Span[0] \in Nat \ {0}
  BY SpanType, LinksAssumption
<1> QED
  BY <1>1 DEF Address

LEMMA EntryType ==
    ASSUME NEW p \in Entry
    PROVE  /\ p.addr \in Address /\ p.addr \in Nat
           /\ p.bits \in 0..Bits
           /\ Span[p.bits] \in Nat \ {0}
<1>1. p.addr \in Address /\ p.bits \in 0..Bits
  BY DEF Entry
<1> QED
  BY <1>1, AddressType, SpanType

\* Masking keeps the addresses a prefix covers.
LEMMA MaskedEntry ==
    ASSUME NEW e \in Entry
    PROVE  /\ Masked(e) \in Entry
           /\ Masked(e).bits = e.bits
           /\ Masked(e).addr = (e.addr \div Span[e.bits]) * Span[e.bits]
           /\ Masked(e).addr \div Span[e.bits] = e.addr \div Span[e.bits]
<1> DEFINE k == Span[e.bits]
           m == e.addr \div k
<1>1. k \in Nat \ {0} /\ e.addr \in Nat /\ e.addr \in Address
  BY EntryType
<1>2. m \in Nat /\ m * k <= e.addr
  BY <1>1, Division
<1>3. m * k \in Address
  <2>1. m * k \in Nat
    BY <1>1, <1>2
  <2>2. Span[0] \in Nat
    BY SpanType, LinksAssumption
  <2> HIDE DEF m, k
  <2> QED
    BY <1>1, <1>2, <2>1, <2>2 DEF Address
<1>4. Masked(e).bits = e.bits /\ Masked(e).addr = m * k
  BY DEF Masked, Entry
<1>5. Masked(e) \in Entry
  <2> HIDE DEF m, k
  <2>1. Masked(e) = [e EXCEPT !.addr = m * k]
    BY DEF Masked, m, k
  <2> QED
    BY <1>3, <2>1 DEF Entry
<1>6. (m * k) \div k = m
  <2> HIDE DEF m, k
  <2>1. m * k + 0 = m * k
    BY <1>1, <1>2
  <2> QED
    BY <1>1, <1>2, <2>1, DivisionOf
<1> QED
  BY <1>4, <1>5, <1>6

LEMMA PrefixType ==
    ASSUME NEW p \in Prefix
    PROVE  /\ p \in Entry
           /\ p.addr = (p.addr \div Span[p.bits]) * Span[p.bits]
<1>1. PICK e \in Entry : p = Masked(e)
  BY DEF Prefix
<1> QED
  BY <1>1, MaskedEntry

\* A prefix is determined by its length and any address it covers.
LEMMA PrefixOf ==
    ASSUME NEW p \in Entry, p.addr = (p.addr \div Span[p.bits]) * Span[p.bits]
    PROVE  p \in Prefix
<1>1. Masked(p) = p
  BY DEF Masked, Entry
<1> QED
  BY <1>1 DEF Prefix

LEMMA PrefixEqual ==
    ASSUME NEW p \in Prefix, NEW q \in Prefix, p.bits = q.bits, Covers(p, q.addr)
    PROVE  p = q
<1>1. p.addr = q.addr
  BY PrefixType DEF Covers
<1> QED
  BY <1>1, PrefixType DEF Entry

LEMMA CoversSelf == \A p : Covers(p, p.addr)
  BY DEF Covers

LEMMA EverythingCovers ==
    /\ Everything \in Prefix
    /\ \A a \in Address : Covers(Everything, a)
    /\ \A p \in Prefix : p.bits = 0 => p = Everything
<1>1. Everything \in Entry
  BY AddressType, LinksAssumption DEF Everything, Entry
<1>2. Everything.bits = 0 /\ Everything.addr = 0
  BY DEF Everything
<1>3. Span[0] \in Nat \ {0}
  BY SpanType, LinksAssumption
<1>4. ASSUME NEW a \in Address PROVE a \div Span[0] = 0
  <2>1. a \in Nat /\ a < Span[0]
    BY <1>3 DEF Address
  <2>2. 0 * Span[0] + a = a
    BY <1>3, <2>1
  <2> QED
    BY <1>3, <2>1, <2>2, DivisionOf
<1>5. Everything \in Prefix
  <2>1. 0 = (0 \div Span[0]) * Span[0]
    BY <1>3, <1>4, AddressType
  <2> QED
    BY <1>1, <1>2, <2>1, PrefixOf
<1>6. ASSUME NEW a \in Address PROVE Covers(Everything, a)
  BY <1>2, <1>4, AddressType DEF Covers
<1>7. ASSUME NEW p \in Prefix, p.bits = 0 PROVE p = Everything
  BY <1>2, <1>5, <1>6, <1>7, PrefixType, EntryType, PrefixEqual
<1> QED
  BY <1>5, <1>6, <1>7

\* Addresses that a long prefix does not tell apart, no shorter one does.
LEMMA Nested ==
    ASSUME NEW b \in 0..Bits, NEW c \in 0..Bits, b <= c, NEW x \in Nat, NEW y \in Nat,
           x \div Span[c] = y \div Span[c]
    PROVE  x \div Span[b] = y \div Span[b]
<1> DEFINE S == {n \in Nat : n <= c => x \div Span[c - n] = y \div Span[c - n]}
<1> USE LinksAssumption
<1>1. 0 \in S
  OBVIOUS
<1>2. ASSUME NEW n \in Nat, n \in S PROVE n + 1 \in S
  <2> DEFINE d == c - (n + 1)
  <2>1. SUFFICES ASSUME n + 1 <= c PROVE x \div Span[d] = y \div Span[d]
    OBVIOUS
  <2>2. d \in 0..Bits /\ d # Bits /\ d + 1 = c - n /\ d + 1 \in 0..Bits
    BY <2>1
  <2>3. x \div Span[d + 1] = y \div Span[d + 1]
    BY <1>2, <2>1, <2>2
  <2>4. Span[d] = 2 * Span[d + 1] /\ Span[d + 1] \in Nat \ {0}
    BY <2>2, SpanStep, SpanType
  <2> HIDE DEF d
  <2> DEFINE k == Span[d + 1]
  <2>5. x \div (2 * k) = (x \div k) \div 2 /\ y \div (2 * k) = (y \div k) \div 2
    <3> HIDE DEF k
    <3>1. k \in Nat \ {0}
      BY <2>4 DEF k
    <3> QED
      BY <3>1, Division
  <2> QED
    BY <2>3, <2>4, <2>5
<1>3. Nat \subseteq S
  <2> HIDE DEF S
  <2> QED
    BY <1>1, <1>2, Induction
<1>4. c - b \in S /\ c - b <= c /\ c - (c - b) = b
  BY <1>3
<1> QED
  BY <1>4

LEMMA NestedCovers ==
    ASSUME NEW p \in Prefix, NEW q \in Prefix, p.bits <= q.bits,
           NEW a \in Address, NEW b \in Address, Covers(q, a), Covers(q, b)
    PROVE  Covers(p, a) <=> Covers(p, b)
<1>1. a \in Nat /\ b \in Nat /\ p.bits \in 0..Bits /\ q.bits \in 0..Bits
  BY AddressType, PrefixType, EntryType
<1>2. a \div Span[q.bits] = b \div Span[q.bits]
  BY DEF Covers
<1>3. a \div Span[p.bits] = b \div Span[p.bits]
  BY <1>1, <1>2, Nested
<1> QED
  BY <1>3 DEF Covers

\* Of two prefixes with an address in common the shorter covers the longer.
LEMMA Shared ==
    ASSUME NEW p \in Prefix, NEW q \in Prefix, p.bits <= q.bits,
           NEW a \in Address, Covers(p, a), Covers(q, a)
    PROVE  /\ Covers(p, q.addr)
           /\ \A b \in Address : Covers(q, b) => Covers(p, b)
<1>1. q.addr \in Address /\ Covers(q, q.addr)
  BY PrefixType, EntryType, CoversSelf
<1> QED
  BY <1>1, NestedCovers

\* To overlap is to have an address in common.
LEMMA OverlapShared ==
    ASSUME NEW p \in Prefix, NEW q \in Prefix
    PROVE  Overlaps(p, q) <=> \E a \in Address : Covers(p, a) /\ Covers(q, a)
<1>1. /\ p.addr \in Address /\ q.addr \in Address
      /\ p.bits \in Nat /\ q.bits \in Nat
  BY PrefixType, EntryType, LinksAssumption
<1>2. ASSUME Overlaps(p, q) PROVE \E a \in Address : Covers(p, a) /\ Covers(q, a)
  BY <1>1, <1>2, CoversSelf DEF Overlaps
<1>3. ASSUME NEW a \in Address, Covers(p, a), Covers(q, a) PROVE Overlaps(p, q)
  <2>1. p.bits <= q.bits \/ q.bits <= p.bits
    BY <1>1
  <2> QED
    BY <1>3, <2>1, Shared DEF Overlaps
<1> QED
  BY <1>2, <1>3

\* The halves of a prefix share its addresses between them.
LEMMA Halves ==
    ASSUME NEW p \in Prefix, p.bits # Bits
    PROVE  /\ Left(p) \in Prefix /\ Left(p).bits = p.bits + 1
           /\ Right(p) \in Prefix /\ Right(p).bits = p.bits + 1
           /\ \A a \in Address :
                  Covers(p, a) <=> Covers(Left(p), a) \/ Covers(Right(p), a)
<1> DEFINE b == p.bits
           k == Span[b + 1]
           m == p.addr \div (2 * k)
<1>1. /\ b \in 0..Bits /\ b + 1 \in 0..Bits /\ Span[b] = 2 * k
      /\ k \in Nat \ {0} /\ 2 * k \in Nat \ {0}
  BY PrefixType, EntryType, SpanStep, SpanType, LinksAssumption
<1>2. p.addr \in Nat /\ p.addr \in Address
  BY PrefixType, EntryType
<1>3. m \in Nat /\ p.addr = m * (2 * k)
  BY <1>1, <1>2, Division, PrefixType
<1>4. Left(p).addr = p.addr /\ Left(p).bits = b + 1
  BY PrefixType DEF Left, Entry
<1>5. Right(p).addr = p.addr + k /\ Right(p).bits = b + 1
  BY DEF Right
<1>6. Left(p) \in Entry
  <2>1. Left(p) = [p EXCEPT !.bits = b + 1]
    BY PrefixType DEF Left, Entry
  <2> QED
    BY <1>1, <2>1, PrefixType DEF Entry
<1>7. p.addr + k \in Address
  <2>1. PICK n \in Nat : Span[0] = n * (2 * k)
    BY <1>1, SpanDivides
  <2>2. p.addr < Span[0] /\ Span[0] \in Nat
    BY <1>2, SpanType, LinksAssumption DEF Address
  <2>3. m * (2 * k) < n * (2 * k)
    BY <1>3, <2>1, <2>2
  <2>4. m * (2 * k) + 2 * k <= n * (2 * k)
    <3> HIDE DEF m, k
    <3> QED
      BY <1>1, <1>3, <2>3, Multiple
  <2>5. p.addr + 2 * k <= Span[0]
    BY <1>3, <2>1, <2>4
  <2> HIDE DEF m, k
  <2> QED
    BY <1>1, <1>2, <2>2, <2>5 DEF Address
<1>8. Right(p) \in Entry
  BY <1>1, <1>7 DEF Right, Entry
<1>9. p.addr \div k = 2 * m /\ (p.addr + k) \div k = 2 * m + 1
  <2> HIDE DEF m, k, b
  <2>1. p.addr = (2 * m) * k + 0 /\ p.addr + k = (2 * m + 1) * k + 0
    BY <1>1, <1>3
  <2> QED
    BY <1>1, <1>3, <2>1, DivisionOf
<1>10. Left(p) \in Prefix
  <2>1. p.addr = (2 * m) * k
    BY <1>1, <1>3
  <2> QED
    BY <1>4, <1>6, <1>9, <2>1, PrefixOf
<1>11. Right(p) \in Prefix
  <2>1. p.addr + k = (2 * m + 1) * k
    BY <1>1, <1>3
  <2> QED
    BY <1>5, <1>8, <1>9, <2>1, PrefixOf
<1>12. ASSUME NEW a \in Address
       PROVE  Covers(p, a) <=> Covers(Left(p), a) \/ Covers(Right(p), a)
  <2> DEFINE x == a \div k
  <2>1. a \in Nat /\ x \in Nat /\ a \div (2 * k) = x \div 2
    BY <1>1, AddressType, Division
  <2>2. Covers(p, a) <=> x \div 2 = m
    BY <1>1, <2>1 DEF Covers
  <2>3. Covers(Left(p), a) <=> x = 2 * m
    BY <1>4, <1>9 DEF Covers
  <2>4. Covers(Right(p), a) <=> x = 2 * m + 1
    BY <1>5, <1>9 DEF Covers
  <2> HIDE DEF x, m
  <2>5. x \div 2 = m <=> x = 2 * m \/ x = 2 * m + 1
    BY <1>3, <2>1
  <2> QED
    BY <2>2, <2>3, <2>4, <2>5
<1> QED
  BY <1>4, <1>5, <1>10, <1>11, <1>12

-----------------------------------------------------------------------------
(* Normalize *)

\* The prefixes of one length that the wider ones do not cover.
Uncovered(prefixes, n, wider) ==
    {p \in prefixes : p.bits = n /\ \A q \in wider : ~Covers(q, p.addr)}

LEMMA NormalizeKept ==
    ASSUME NEW prefixes
    PROVE  \E kept : /\ Normalize(prefixes) = kept[Bits]
                     /\ kept[-1] = {}
                     /\ \A n \in 0..Bits :
                            kept[n] = kept[n - 1] \cup Uncovered(prefixes, n, kept[n - 1])
<1> DEFINE D == -1..Bits
           V == SUBSET prefixes
           N == Bits + 2
           rank == [d \in D |-> d + 1]
           G == [x \in D \X [D -> V] |->
                    IF x[1] = -1 THEN {}
                    ELSE x[2][x[1] - 1] \cup Uncovered(prefixes, x[1], x[2][x[1] - 1])]
           Is(f) == f = [n \in -1..Bits |->
                            IF n = -1 THEN {}
                            ELSE f[n - 1] \cup
                                 {p \in prefixes : /\ p.bits = n
                                                   /\ \A q \in f[n - 1] : ~Covers(q, p.addr)}]
<1>1. rank \in [D -> Nat] /\ N \in Nat /\ V # {} /\ \A d \in D : rank[d] < N
  BY LinksAssumption
<1>2. \A d \in D, f \in [D -> V] :
          G[<<d, f>>] = IF d = -1 THEN {}
                        ELSE f[d - 1] \cup Uncovered(prefixes, d, f[d - 1])
  OBVIOUS
<1>3. ASSUME NEW d \in D, d # -1
      PROVE  d - 1 \in D /\ rank[d - 1] < rank[d]
  BY <1>3, LinksAssumption
<1>4. G \in [D \X [D -> V] -> V]
  <2>1. ASSUME NEW d \in D, NEW f \in [D -> V] PROVE G[<<d, f>>] \in V
    <3>1. CASE d = -1
      BY <1>2, <3>1
    <3>2. CASE d # -1
      <4>1. f[d - 1] \in V
        BY <1>3, <3>2
      <4>2. Uncovered(prefixes, d, f[d - 1]) \in V
        BY DEF Uncovered
      <4> HIDE DEF G, D
      <4> QED
        BY <1>2, <3>2, <4>1, <4>2
    <3> QED
      BY <3>1, <3>2
  <2>2. \A x \in D \X [D -> V] : G[x] \in V
    <3> HIDE DEF D, G, V
    <3> QED
      BY <2>1
  <2> QED
    BY <2>2
<1>5. ASSUME NEW d \in D, NEW f \in [D -> V], NEW g \in [D -> V],
             \A e \in D : rank[e] < rank[d] => f[e] = g[e]
      PROVE  G[<<d, f>>] = G[<<d, g>>]
  <2>1. d # -1 => f[d - 1] = g[d - 1]
    BY <1>3, <1>5
  <2> HIDE DEF D, V, G
  <2> QED
    BY <1>2, <2>1
<1>6. Determined(D, V, rank, N, G)
  <2> HIDE DEF G, rank, D, N, V
  <2> QED
    BY <1>1, <1>4, <1>5 DEF Determined
<1>7. PICK f \in [D -> V] : \A d \in D : f[d] = G[<<d, f>>]
  <2> HIDE DEF G, rank, D, N, V
  <2> QED
    BY <1>6, Recursion
<1>8. Is(f)
  <2> HIDE DEF G
  <2> QED
    BY <1>2, <1>7 DEF Uncovered
<1> DEFINE kept == CHOOSE g : Is(g)
<1>9. Is(kept)
  <2> HIDE DEF Is
  <2> QED
    BY <1>8, Zenon
<1>10. Normalize(prefixes) = kept[Bits]
  BY DEF Normalize
<1> HIDE DEF kept
<1>11. kept[-1] = {}
  BY <1>9, LinksAssumption
<1>12. ASSUME NEW n \in 0..Bits
       PROVE  kept[n] = kept[n - 1] \cup Uncovered(prefixes, n, kept[n - 1])
  <2>1. n \in -1..Bits /\ n # -1
    OBVIOUS
  <2> QED
    BY <1>9, <2>1 DEF Uncovered
<1> QED
  BY <1>10, <1>11, <1>12

\* Normalize (prefixes.go) returns prefixes of its argument that do not overlap
\* and cover the same addresses; the widest of all is one of them.
THEOREM NormalizeCorrect ==
    ASSUME NEW prefixes, prefixes \subseteq Prefix
    PROVE  /\ Normalize(prefixes) \subseteq prefixes
           /\ \A p, q \in Normalize(prefixes) : Overlaps(p, q) => p = q
           /\ \A a \in Address : Listed(Normalize(prefixes), a) <=> Listed(prefixes, a)
           /\ Everything \in prefixes => Everything \in Normalize(prefixes)
<1>1. PICK kept : /\ Normalize(prefixes) = kept[Bits]
                  /\ kept[-1] = {}
                  /\ \A n \in 0..Bits :
                         kept[n] = kept[n - 1] \cup Uncovered(prefixes, n, kept[n - 1])
  BY NormalizeKept
<1> DEFINE Upto(n) ==
               /\ \A p \in kept[n] : p \in prefixes /\ p.bits <= n
               /\ \A p, q \in kept[n] : Overlaps(p, q) => p = q
               /\ \A p \in prefixes :
                      p.bits <= n => \E q \in kept[n] : q.bits <= p.bits /\ Covers(q, p.addr)
           S == {n \in Nat : n <= Bits + 1 => Upto(n - 1)}
<1> USE LinksAssumption
<1>2. \A p \in prefixes : p \in Prefix /\ p.bits \in 0..Bits /\ p.addr \in Address
  BY PrefixType, EntryType
<1>3. 0 \in S
  <2>1. Upto(-1)
    BY <1>1, <1>2
  <2> QED
    BY <2>1
<1>4. ASSUME NEW n \in Nat, n <= Bits, Upto(n - 1) PROVE Upto(n)
  <2> DEFINE wider == kept[n - 1]
             fresh == Uncovered(prefixes, n, wider)
  <2>1. kept[n] = wider \cup fresh
    BY <1>1, <1>4
  <2>2. \A p \in wider : p \in prefixes /\ p.bits < n
    BY <1>2, <1>4
  <2>3. \A p \in fresh : p \in prefixes /\ p.bits = n
    BY DEF Uncovered
  <2>4. \A p \in kept[n] : p \in prefixes /\ p.bits <= n
    <3> HIDE DEF fresh, wider
    <3> QED
      BY <1>2, <2>1, <2>2, <2>3
  <2>5. ASSUME NEW p \in kept[n], NEW q \in kept[n], Overlaps(p, q)
        PROVE  p = q
    <3>1. p \in Prefix /\ q \in Prefix
      BY <1>2, <2>4
    <3>2. PICK a \in Address : Covers(p, a) /\ Covers(q, a)
      BY <2>5, <3>1, OverlapShared
    <3>3. CASE p \in wider /\ q \in wider
      BY <1>4, <2>5, <3>3
    <3>4. CASE p \in wider /\ q \in fresh
      <4>1. p.bits <= q.bits
        BY <1>2, <2>2, <2>3, <3>4
      <4>2. Covers(p, q.addr)
        BY <3>1, <3>2, <4>1, Shared
      <4> QED
        BY <3>4, <4>2 DEF Uncovered
    <3>5. CASE p \in fresh /\ q \in wider
      <4>1. q.bits <= p.bits
        BY <1>2, <2>2, <2>3, <3>5
      <4>2. Covers(q, p.addr)
        BY <3>1, <3>2, <4>1, Shared
      <4> QED
        BY <3>5, <4>2 DEF Uncovered
    <3>6. CASE p \in fresh /\ q \in fresh
      <4>1. p.bits = q.bits /\ p.bits <= q.bits
        BY <1>2, <2>3, <3>6
      <4>2. Covers(p, q.addr)
        BY <3>1, <3>2, <4>1, Shared
      <4> QED
        BY <3>1, <4>1, <4>2, PrefixEqual
    <3> QED
      BY <2>1, <3>3, <3>4, <3>5, <3>6
  <2>6. ASSUME NEW p \in prefixes, p.bits <= n
        PROVE  \E q \in kept[n] : q.bits <= p.bits /\ Covers(q, p.addr)
    <3>1. CASE p.bits <= n - 1
      BY <1>4, <2>1, <3>1
    <3>2. CASE p.bits = n /\ \E q \in wider : Covers(q, p.addr)
      BY <1>2, <2>1, <2>2, <3>2
    <3>3. CASE p.bits = n /\ \A q \in wider : ~Covers(q, p.addr)
      <4>1. p \in kept[n]
        BY <2>1, <3>3 DEF Uncovered
      <4> QED
        BY <1>2, <4>1, CoversSelf
    <3> QED
      BY <1>2, <2>6, <3>1, <3>2, <3>3
  <2> QED
    BY <2>4, <2>5, <2>6
<1>5. ASSUME NEW n \in Nat, n \in S PROVE n + 1 \in S
  <2> HIDE DEF Upto
  <2>1. ASSUME n + 1 <= Bits + 1 PROVE Upto(n)
    BY <1>4, <1>5, <2>1
  <2> QED
    BY <2>1
<1>6. Upto(Bits)
  <2>1. Nat \subseteq S
    <3> HIDE DEF S
    <3> QED
      BY <1>3, <1>5, Induction
  <2>2. Bits + 1 \in S
    BY <2>1
  <2> HIDE DEF Upto
  <2> QED
    BY <2>2
<1>7. ASSUME NEW a \in Address
      PROVE  Listed(Normalize(prefixes), a) <=> Listed(prefixes, a)
  <2>1. ASSUME Listed(Normalize(prefixes), a) PROVE Listed(prefixes, a)
    BY <1>1, <1>6, <2>1 DEF Listed
  <2>2. ASSUME NEW p \in prefixes, Covers(p, a) PROVE Listed(Normalize(prefixes), a)
    <3>1. PICK q \in kept[Bits] : q.bits <= p.bits /\ Covers(q, p.addr)
      BY <1>2, <1>6
    <3>2. p \in Prefix /\ q \in Prefix
      BY <1>2, <1>6
    <3>3. Covers(q, a)
      BY <1>2, <2>2, <3>1, <3>2, CoversSelf, Shared
    <3> QED
      BY <1>1, <3>3 DEF Listed
  <2> QED
    BY <2>1, <2>2 DEF Listed
<1>8. ASSUME Everything \in prefixes PROVE Everything \in Normalize(prefixes)
  <2>0. ASSUME NEW p \in prefixes PROVE \E q \in kept[Bits] : q.bits <= p.bits
    BY <1>2, <1>6
  <2>1. PICK q \in kept[Bits] : q.bits <= Everything.bits
    BY <1>8, <2>0
  <2>2. q \in Prefix /\ q.bits \in 0..Bits /\ Everything.bits = 0
    BY <1>2, <1>6 DEF Everything
  <2>3. q = Everything
    BY <2>1, <2>2, EverythingCovers
  <2> QED
    BY <1>1, <2>1, <2>3
<1> QED
  BY <1>1, <1>6, <1>7, <1>8

-----------------------------------------------------------------------------
(* SubtractAll *)

LEMMA SubtractRest ==
    ASSUME NEW exclusion \in Prefix
    PROVE  \E rest : /\ \A base : Subtract(base, exclusion) = rest[base]
                     /\ \A p \in Prefix :
                            rest[p] = IF ~Overlaps(p, exclusion) THEN {p}
                                      ELSE IF exclusion.bits <= p.bits THEN {}
                                      ELSE rest[Left(p)] \cup rest[Right(p)]
<1> DEFINE D == Prefix
           V == SUBSET Prefix
           N == Bits + 1
           rank == [p \in D |-> Bits - p.bits]
           Value(p, f) == IF ~Overlaps(p, exclusion) THEN {p}
                          ELSE IF exclusion.bits <= p.bits THEN {}
                          ELSE f[Left(p)] \cup f[Right(p)]
           G == [x \in D \X [D -> V] |-> Value(x[1], x[2])]
           Is(f) == f = [p \in Prefix |->
                            IF ~Overlaps(p, exclusion) THEN {p}
                            ELSE IF exclusion.bits <= p.bits THEN {}
                            ELSE f[Left(p)] \cup f[Right(p)]]
<1>1. \A p \in D : p.bits \in 0..Bits
  BY PrefixType, EntryType
<1>2. rank \in [D -> Nat] /\ N \in Nat /\ V # {} /\ \A d \in D : rank[d] < N
  <2>1. \A d \in D : rank[d] \in Nat /\ rank[d] < N
    <3> HIDE DEF D
    <3> QED
      BY <1>1, LinksAssumption
  <2>2. rank \in [D -> Nat]
    <3> HIDE DEF D
    <3> QED
      BY <2>1
  <2>3. N \in Nat /\ V # {}
    BY LinksAssumption
  <2> HIDE DEF V, N, D, rank
  <2> QED
    BY <2>1, <2>2, <2>3
<1>3. ASSUME NEW p \in D, ~(exclusion.bits <= p.bits)
      PROVE  /\ Left(p) \in D /\ rank[Left(p)] < rank[p]
             /\ Right(p) \in D /\ rank[Right(p)] < rank[p]
  <2>1. exclusion.bits \in 0..Bits /\ p.bits \in 0..Bits
    BY <1>1
  <2>2. p.bits # Bits
    BY <1>3, <2>1, LinksAssumption
  <2>3. /\ Left(p) \in D /\ Left(p).bits = p.bits + 1
        /\ Right(p) \in D /\ Right(p).bits = p.bits + 1
    BY <2>2, Halves
  <2> HIDE DEF D
  <2> QED
    BY <2>1, <2>3, LinksAssumption
<1>4. \A p \in D, f \in [D -> V] : G[<<p, f>>] = Value(p, f)
  <2> HIDE DEF D, V, Value
  <2> QED
    OBVIOUS
<1>5. ASSUME NEW p \in D, NEW f \in [D -> V] PROVE Value(p, f) \in V
  <2>1. CASE ~(exclusion.bits <= p.bits)
    <3>1. f[Left(p)] \in V /\ f[Right(p)] \in V
      BY <1>3, <2>1
    <3> QED
      BY <3>1
  <2>2. CASE exclusion.bits <= p.bits
    BY <2>2
  <2> QED
    BY <2>1, <2>2
<1>6. G \in [D \X [D -> V] -> V]
  <2> HIDE DEF D, V, Value
  <2>1. \A x \in D \X [D -> V] : G[x] \in V
    BY <1>5
  <2> QED
    BY <2>1
<1>7. ASSUME NEW p \in D, NEW f \in [D -> V], NEW g \in [D -> V],
             \A e \in D : rank[e] < rank[p] => f[e] = g[e]
      PROVE  G[<<p, f>>] = G[<<p, g>>]
  <2>1. ~(exclusion.bits <= p.bits) => f[Left(p)] = g[Left(p)] /\ f[Right(p)] = g[Right(p)]
    BY <1>3, <1>7
  <2>2. Value(p, f) = Value(p, g)
    BY <2>1
  <2> HIDE DEF D, V, G, Value
  <2> QED
    BY <1>4, <2>2
<1>8. Determined(D, V, rank, N, G)
  <2> HIDE DEF G, rank, D, N, V
  <2> QED
    BY <1>2, <1>6, <1>7 DEF Determined
<1>9. PICK f \in [D -> V] : \A p \in D : f[p] = G[<<p, f>>]
  <2> HIDE DEF G, rank, D, N, V
  <2> QED
    BY <1>8, Recursion
<1>10. Is(f)
  <2>1. \A p \in D : f[p] = Value(p, f)
    <3> HIDE DEF D, V, G, Value
    <3> QED
      BY <1>4, <1>9
  <2>2. f = [p \in D |-> Value(p, f)]
    <3> HIDE DEF D, V, Value
    <3> QED
      BY <2>1
  <2> QED
    BY <2>2
<1> DEFINE rest == CHOOSE g : Is(g)
<1>11. Is(rest)
  <2> HIDE DEF Is
  <2> QED
    BY <1>10, Zenon
<1>12. \A base : Subtract(base, exclusion) = rest[base]
  BY DEF Subtract
<1> HIDE DEF rest
<1>13. \A p \in Prefix : rest[p] = Value(p, rest)
  <2> DEFINE g == [p \in Prefix |-> Value(p, rest)]
  <2>1. rest = g
    BY <1>11
  <2>2. \A p \in Prefix : g[p] = Value(p, rest)
    <3> HIDE DEF Value
    <3> QED
      OBVIOUS
  <2> HIDE DEF g, Value
  <2> QED
    BY <2>1, <2>2
<1> QED
  BY <1>12, <1>13

\* What is left of a prefix: the addresses that the exclusion does not cover.
LEMMA SubtractOf ==
    ASSUME NEW base \in Prefix, NEW exclusion \in Prefix
    PROVE  /\ Subtract(base, exclusion) \subseteq Prefix
           /\ \A q \in Subtract(base, exclusion) : base.bits <= q.bits
           /\ \A a \in Address : Listed(Subtract(base, exclusion), a)
                                     <=> Covers(base, a) /\ ~Covers(exclusion, a)
<1>1. PICK rest : /\ \A p : Subtract(p, exclusion) = rest[p]
                  /\ \A p \in Prefix :
                         rest[p] = IF ~Overlaps(p, exclusion) THEN {p}
                                   ELSE IF exclusion.bits <= p.bits THEN {}
                                   ELSE rest[Left(p)] \cup rest[Right(p)]
  BY SubtractRest
<1> DEFINE Cut(p) ==
               /\ rest[p] \subseteq Prefix
               /\ \A q \in rest[p] : p.bits <= q.bits
               /\ \A a \in Address :
                      Listed(rest[p], a) <=> Covers(p, a) /\ ~Covers(exclusion, a)
           S == {n \in Nat : \A p \in Prefix : Bits - p.bits <= n => Cut(p)}
<1>2. \A p \in Prefix : p.bits \in 0..Bits
  BY PrefixType, EntryType
<1>3. ASSUME NEW p \in Prefix, exclusion.bits <= p.bits PROVE Cut(p)
  <2>1. CASE ~Overlaps(p, exclusion)
    <3>1. rest[p] = {p}
      BY <1>1, <2>1
    <3> QED
      BY <1>2, <2>1, <3>1, OverlapShared DEF Listed
  <2>2. CASE Overlaps(p, exclusion)
    <3>1. rest[p] = {}
      BY <1>1, <1>3, <2>2
    <3>2. \A a \in Address : Covers(p, a) => Covers(exclusion, a)
      BY <1>3, <2>2, OverlapShared, Shared
    <3> QED
      BY <3>1, <3>2 DEF Listed
  <2> QED
    BY <2>1, <2>2
<1>4. 0 \in S
  <2>1. ASSUME NEW p \in Prefix, Bits - p.bits <= 0 PROVE exclusion.bits <= p.bits
    BY <1>2, <2>1, LinksAssumption
  <2> HIDE DEF Cut
  <2> QED
    BY <1>3, <2>1
<1>5. ASSUME NEW n \in Nat, n \in S, NEW p \in Prefix, Bits - p.bits <= n + 1
      PROVE  Cut(p)
  <2>1. CASE exclusion.bits <= p.bits
    BY <1>3, <2>1
  <2>2. CASE ~Overlaps(p, exclusion)
    <3>1. rest[p] = {p}
      BY <1>1, <2>2
    <3> QED
      BY <1>2, <2>2, <3>1, OverlapShared DEF Listed
  <2>3. CASE Overlaps(p, exclusion) /\ ~(exclusion.bits <= p.bits)
    <3>1. rest[p] = rest[Left(p)] \cup rest[Right(p)]
      BY <1>1, <2>3
    <3>2. p.bits # Bits
      BY <1>2, <2>3, LinksAssumption
    <3>3. /\ Left(p) \in Prefix /\ Left(p).bits = p.bits + 1
          /\ Right(p) \in Prefix /\ Right(p).bits = p.bits + 1
          /\ \A a \in Address :
                 Covers(p, a) <=> Covers(Left(p), a) \/ Covers(Right(p), a)
      BY <3>2, Halves
    <3>4. Bits - Left(p).bits <= n /\ Bits - Right(p).bits <= n
      BY <1>2, <1>5, <3>3, LinksAssumption
    <3>5. Cut(Left(p)) /\ Cut(Right(p))
      <4> HIDE DEF Cut
      <4> QED
        BY <1>5, <3>3, <3>4
    <3>6. \A q \in rest[p] : q \in Prefix /\ p.bits <= q.bits
      BY <1>2, <3>1, <3>3, <3>5
    <3>7. \A a \in Address :
              Listed(rest[p], a) <=> Listed(rest[Left(p)], a) \/ Listed(rest[Right(p)], a)
      BY <3>1 DEF Listed
    <3> QED
      BY <3>3, <3>5, <3>6, <3>7
  <2> QED
    BY <2>1, <2>2, <2>3
<1>6. Cut(base)
  <2> HIDE DEF Cut
  <2>1. \A n \in Nat : n \in S => n + 1 \in S
    BY <1>5
  <2>2. Nat \subseteq S
    <3> HIDE DEF S
    <3> QED
      BY <1>4, <2>1, Induction
  <2>3. Bits \in S /\ Bits - base.bits <= Bits
    BY <1>2, <2>2, LinksAssumption
  <2> QED
    BY <2>3
<1> QED
  BY <1>1, <1>6

LEMMA EntriesFinite == IsFiniteSet(Entry)
<1> DEFINE T == Address \X (0..Bits)
           f == [p \in Entry |-> <<p.addr, p.bits>>]
<1>1. IsFiniteSet(Address) /\ IsFiniteSet(0..Bits)
  <2>1. Span[0] \in Nat
    BY SpanType, LinksAssumption
  <2> QED
    BY <2>1, FS_Interval, LinksAssumption DEF Address
<1>2. IsFiniteSet(T)
  BY <1>1, FS_Product
<1>3. f \in [Entry -> T]
  BY DEF Entry
<1>4. ASSUME NEW p \in Entry, NEW q \in Entry, f[p] = f[q] PROVE p = q
  <2>1. p.addr = q.addr /\ p.bits = q.bits
    BY <1>4
  <2> QED
    BY <2>1 DEF Entry
<1>5. f \in Injection(Entry, T)
  <2> HIDE DEF f, T
  <2> QED
    BY <1>3, <1>4 DEF Injection, IsInjective
<1> QED
  <2> HIDE DEF f, T
  <2> QED
    BY <1>2, <1>5, FS_Injection

LEMMA PrefixesFinite ==
    ASSUME NEW prefixes, prefixes \subseteq Prefix
    PROVE  IsFiniteSet(prefixes)
<1>1. prefixes \in SUBSET Entry
  BY PrefixType
<1> QED
  BY <1>1, EntriesFinite, FS_Subset

\* The exclusions are taken in some order.
First(s) == CHOOSE x \in s : TRUE
Cutting(exclusion, left) == UNION {Subtract(base, exclusion) : base \in left}

LEMMA CuttingOf ==
    ASSUME NEW exclusion \in Prefix, NEW left \in SUBSET Prefix
    PROVE  /\ Cutting(exclusion, left) \in SUBSET Prefix
           /\ \A q \in Cutting(exclusion, left) : \E p \in left : p.bits <= q.bits
           /\ \A a \in Address : Listed(Cutting(exclusion, left), a)
                                     <=> Listed(left, a) /\ ~Covers(exclusion, a)
<1>1. \A q \in Cutting(exclusion, left) :
          q \in Prefix /\ \E p \in left : p.bits <= q.bits
  BY SubtractOf DEF Cutting
<1>2. ASSUME NEW a \in Address
      PROVE  Listed(Cutting(exclusion, left), a)
                 <=> \E p \in left : Listed(Subtract(p, exclusion), a)
  BY DEF Cutting, Listed
<1>3. ASSUME NEW a \in Address
      PROVE  Listed(Cutting(exclusion, left), a)
                 <=> Listed(left, a) /\ ~Covers(exclusion, a)
  <2>1. \A p \in left : Listed(Subtract(p, exclusion), a)
                            <=> Covers(p, a) /\ ~Covers(exclusion, a)
    BY SubtractOf
  <2> QED
    BY <1>2, <2>1 DEF Listed
<1> QED
  BY <1>1, <1>3

Iterates(iter, bases, exclusions) ==
    /\ SubtractAll(bases, exclusions) = Normalize(iter[Normalize(exclusions)])
    /\ \A s \in SUBSET Normalize(exclusions) :
           iter[s] = IF s = {} THEN Normalize(bases)
                     ELSE Cutting(First(s), iter[s \ {First(s)}])

LEMMA SubtractAllIter ==
    ASSUME NEW bases, bases \subseteq Prefix, NEW exclusions, exclusions \subseteq Prefix
    PROVE  \E iter : Iterates(iter, bases, exclusions)
<1> DEFINE X == Normalize(exclusions)
           start == Normalize(bases)
           D == SUBSET X
           V == SUBSET Prefix
           N == Cardinality(X) + 1
           rank == [s \in D |-> Cardinality(s)]
           Value(s, f) == IF s = {} THEN start
                          ELSE Cutting(First(s), f[s \ {First(s)}])
           G == [x \in D \X [D -> V] |-> Value(x[1], x[2])]
           Is(f) == f = [s \in SUBSET X |->
                            IF s = {} THEN start
                            ELSE UNION {Subtract(base, CHOOSE x \in s : TRUE) :
                                            base \in f[s \ {CHOOSE x \in s : TRUE}]}]
<1>1. X \subseteq Prefix /\ start \in SUBSET Prefix
  BY NormalizeCorrect
<1>2. IsFiniteSet(X)
  BY <1>1, PrefixesFinite
<1>3. \A s \in D : IsFiniteSet(s) /\ Cardinality(s) \in Nat /\ Cardinality(s) <= Cardinality(X)
  BY <1>2, FS_Subset, FS_CardinalityType
<1>4. rank \in [D -> Nat] /\ N \in Nat /\ V # {} /\ \A s \in D : rank[s] < N
  <2>1. Cardinality(X) \in Nat
    BY <1>2, FS_CardinalityType
  <2>2. \A s \in D : rank[s] \in Nat /\ rank[s] < N
    <3> HIDE DEF D, X
    <3> QED
      BY <1>3, <2>1
  <2>3. rank \in [D -> Nat]
    <3> HIDE DEF D
    <3> QED
      BY <2>2
  <2>4. N \in Nat
    <3> HIDE DEF X
    <3> QED
      BY <2>1
  <2>5. V # {}
    <3>1. {} \in V
      OBVIOUS
    <3> HIDE DEF V
    <3> QED
      BY <3>1
  <2> HIDE DEF V, N, D, rank
  <2> QED
    BY <2>2, <2>3, <2>4, <2>5
<1>5. ASSUME NEW s \in D, s # {}
      PROVE  /\ First(s) \in s /\ First(s) \in Prefix
             /\ s \ {First(s)} \in D /\ rank[s \ {First(s)}] < rank[s]
  <2>1. First(s) \in s
    BY <1>5 DEF First
  <2>2. s \ {First(s)} \in D /\ First(s) \in Prefix
    BY <1>1, <2>1
  <2>3. Cardinality(s \ {First(s)}) = Cardinality(s) - 1
    BY <1>3, <2>1, FS_RemoveElement
  <2>4. rank[s \ {First(s)}] = Cardinality(s) - 1 /\ rank[s] = Cardinality(s)
    <3> HIDE DEF D
    <3> QED
      BY <2>2, <2>3
  <2>5. Cardinality(s) \in Nat
    BY <1>3
  <2> QED
    BY <2>1, <2>2, <2>4, <2>5
<1>6. \A s \in D, f \in [D -> V] : G[<<s, f>>] = Value(s, f)
  <2> HIDE DEF D, V, Value
  <2> QED
    OBVIOUS
<1>7. ASSUME NEW s \in D, NEW f \in [D -> V] PROVE Value(s, f) \in V
  <2>1. CASE s = {}
    BY <1>1, <2>1
  <2>2. CASE s # {}
    <3>1. f[s \ {First(s)}] \in V
      BY <1>5, <2>2
    <3>2. Cutting(First(s), f[s \ {First(s)}]) \in V
      BY <1>5, <2>2, <3>1, CuttingOf
    <3> QED
      BY <2>2, <3>2
  <2> QED
    BY <2>1, <2>2
<1>8. G \in [D \X [D -> V] -> V]
  <2> HIDE DEF D, V, Value
  <2>1. \A x \in D \X [D -> V] : G[x] \in V
    BY <1>7
  <2> QED
    BY <2>1
<1>9. ASSUME NEW s \in D, NEW f \in [D -> V], NEW g \in [D -> V],
             \A e \in D : rank[e] < rank[s] => f[e] = g[e]
      PROVE  G[<<s, f>>] = G[<<s, g>>]
  <2>1. s # {} => f[s \ {First(s)}] = g[s \ {First(s)}]
    BY <1>5, <1>9
  <2>2. Value(s, f) = Value(s, g)
    BY <2>1
  <2> HIDE DEF D, V, G, Value
  <2> QED
    BY <1>6, <2>2
<1>10. Determined(D, V, rank, N, G)
  <2> HIDE DEF G, rank, D, N, V
  <2> QED
    BY <1>4, <1>8, <1>9 DEF Determined
<1>11. PICK f \in [D -> V] : \A s \in D : f[s] = G[<<s, f>>]
  <2> HIDE DEF G, rank, D, N, V
  <2> QED
    BY <1>10, Recursion
<1>12. Is(f)
  <2>1. \A s \in D : f[s] = Value(s, f)
    <3> HIDE DEF D, V, G, Value
    <3> QED
      BY <1>6, <1>11
  <2>2. f = [s \in D |-> Value(s, f)]
    <3> HIDE DEF D, V, Value
    <3> QED
      BY <2>1
  <2> HIDE DEF X, start
  <2> QED
    BY <2>2, Zenon DEF Cutting, First
<1> DEFINE iter == CHOOSE g : Is(g)
<1>13. Is(iter)
  <2> HIDE DEF Is
  <2> QED
    BY <1>12, Zenon
<1>14. SubtractAll(bases, exclusions) = Normalize(iter[X])
  BY Zenon DEF SubtractAll, FoldSet, MapThenFoldSet
<1> HIDE DEF iter
<1>15. \A s \in D : iter[s] = Value(s, iter)
  <2> DEFINE g == [s \in D |-> Value(s, iter)]
  <2>1. iter = g
    <3> HIDE DEF X, start
    <3> QED
      BY <1>13, Zenon DEF Cutting, First
  <2>2. \A s \in D : g[s] = Value(s, iter)
    <3> HIDE DEF Value, D
    <3> QED
      OBVIOUS
  <2> HIDE DEF g, Value, D
  <2> QED
    BY <2>1, <2>2
<1> QED
  <2> HIDE DEF X, start
  <2>1. \A s \in SUBSET X : iter[s] = IF s = {} THEN start
                                      ELSE Cutting(First(s), iter[s \ {First(s)}])
    BY <1>15
  <2>2. Iterates(iter, bases, exclusions)
    BY <1>14, <2>1 DEF X, start, Iterates
  <2> QED
    BY <2>2

\* SubtractAll (prefixes.go) returns prefixes that do not overlap and cover what
\* the bases cover and no exclusion does; none is shorter than every base.
THEOREM SubtractAllCorrect ==
    ASSUME NEW bases, bases \subseteq Prefix, NEW exclusions, exclusions \subseteq Prefix
    PROVE  /\ SubtractAll(bases, exclusions) \subseteq Prefix
           /\ \A q \in SubtractAll(bases, exclusions) : \E p \in bases : p.bits <= q.bits
           /\ \A p, q \in SubtractAll(bases, exclusions) : Overlaps(p, q) => p = q
           /\ \A a \in Address : Listed(SubtractAll(bases, exclusions), a)
                                     <=> Listed(bases, a) /\ ~Listed(exclusions, a)
           /\ Everything \in bases /\ exclusions = {}
                  => Everything \in SubtractAll(bases, exclusions)
<1>0. PICK iter : Iterates(iter, bases, exclusions)
  BY SubtractAllIter
<1> DEFINE X == Normalize(exclusions)
<1>1. /\ SubtractAll(bases, exclusions) = Normalize(iter[X])
      /\ \A s \in SUBSET X :
             iter[s] = IF s = {} THEN Normalize(bases)
                       ELSE Cutting(First(s), iter[s \ {First(s)}])
  BY <1>0 DEF Iterates
<1> DEFINE Done(s) ==
               /\ iter[s] \in SUBSET Prefix
               /\ \A q \in iter[s] : \E p \in bases : p.bits <= q.bits
               /\ \A a \in Address : Listed(iter[s], a) <=> Listed(bases, a) /\ ~Listed(s, a)
           S == {n \in Nat : \A s \in SUBSET X : Cardinality(s) <= n => Done(s)}
<1>2. \A p \in Prefix : p.bits \in Nat
  BY PrefixType, EntryType
<1>3. X \subseteq Prefix /\ IsFiniteSet(X)
  BY NormalizeCorrect, PrefixesFinite
<1>4. \A s \in SUBSET X : IsFiniteSet(s) /\ Cardinality(s) \in Nat
  BY <1>3, FS_Subset, FS_CardinalityType
<1>5. Done({})
  <2>1. iter[{}] = Normalize(bases)
    BY <1>1
  <2> QED
    BY <1>2, <2>1, NormalizeCorrect DEF Listed
<1>6. 0 \in S
  <2>1. ASSUME NEW s \in SUBSET X, Cardinality(s) <= 0 PROVE s = {}
    BY <1>4, <2>1, FS_EmptySet
  <2> HIDE DEF Done
  <2> QED
    BY <1>5, <2>1
<1>7. ASSUME NEW n \in Nat, n \in S, NEW s \in SUBSET X, Cardinality(s) <= n + 1
      PROVE  Done(s)
  <2>1. CASE s = {}
    BY <1>5, <2>1
  <2>2. CASE s # {}
    <3> DEFINE x == First(s)
               t == s \ {x}
    <3>1. x \in s
      BY <2>2 DEF First
    <3>2. x \in Prefix /\ t \in SUBSET X
      BY <1>3, <3>1
    <3>3. iter[s] = Cutting(x, iter[t])
      BY <1>1, <2>2
    <3> HIDE DEF x
    <3>4. Cardinality(t) <= n
      BY <1>4, <1>7, <3>1, FS_RemoveElement
    <3>5. Done(t)
      <4> HIDE DEF Done, t
      <4> QED
        BY <1>7, <3>2, <3>4
    <3> DEFINE left == iter[t]
    <3>10. left \in SUBSET Prefix /\ iter[s] = Cutting(x, left)
      BY <3>3, <3>5
    <3> HIDE DEF left
    <3>6. iter[s] \in SUBSET Prefix
      BY <3>2, <3>10, CuttingOf
    <3>7. \A q \in iter[s] : \E p \in bases : p.bits <= q.bits
      <4> TAKE q \in iter[s]
      <4>1. q \in Prefix
        BY <3>6
      <4>2. PICK r \in left : r.bits <= q.bits
        BY <3>2, <3>10, CuttingOf
      <4>3. r \in Prefix
        BY <3>10
      <4>4. PICK p \in bases : p.bits <= r.bits
        BY <3>5 DEF left
      <4>5. p \in Prefix
        OBVIOUS
      <4> QED
        BY <1>2, <4>1, <4>2, <4>3, <4>4, <4>5
    <3>8. \A a \in Address : Listed(s, a) <=> Listed(t, a) \/ Covers(x, a)
      BY <3>1 DEF Listed
    <3>9. \A a \in Address : Listed(iter[s], a) <=> Listed(left, a) /\ ~Covers(x, a)
      BY <3>2, <3>10, CuttingOf
    <3>11. \A a \in Address : Listed(left, a) <=> Listed(bases, a) /\ ~Listed(t, a)
      BY <3>5 DEF left
    <3> HIDE DEF t
    <3> QED
      BY <3>6, <3>7, <3>8, <3>9, <3>11
  <2> QED
    BY <2>1, <2>2
<1>8. Done(X)
  <2> HIDE DEF Done, X
  <2>1. \A n \in Nat : n \in S => n + 1 \in S
    BY <1>7
  <2>2. Nat \subseteq S
    <3> HIDE DEF S
    <3> QED
      BY <1>6, <2>1, Induction
  <2>3. Cardinality(X) \in Nat /\ Cardinality(X) \in S /\ X \in SUBSET X
    BY <1>4, <2>2
  <2> QED
    BY <2>3
<1>9. \A a \in Address : Listed(X, a) <=> Listed(exclusions, a)
  BY NormalizeCorrect
<1> DEFINE left == iter[X]
<1>10. /\ Normalize(left) \subseteq left
       /\ \A p, q \in Normalize(left) : Overlaps(p, q) => p = q
       /\ \A a \in Address : Listed(Normalize(left), a) <=> Listed(left, a)
  BY <1>8, NormalizeCorrect
<1>11. SubtractAll(bases, exclusions) = Normalize(left)
  BY <1>1
<1>12. /\ left \subseteq Prefix
       /\ \A q \in left : \E p \in bases : p.bits <= q.bits
       /\ \A a \in Address : Listed(left, a) <=> Listed(bases, a) /\ ~Listed(X, a)
  BY <1>8
<1>13. ASSUME Everything \in bases, exclusions = {}
       PROVE  Everything \in SubtractAll(bases, exclusions)
  <2>1. X = {}
    BY <1>13, NormalizeCorrect
  <2>2. left = Normalize(bases)
    BY <1>1, <2>1
  <2>3. Everything \in left
    BY <1>13, <2>2, NormalizeCorrect
  <2>4. left \subseteq Prefix
    BY <1>12
  <2> HIDE DEF left
  <2> QED
    BY <1>11, <2>3, <2>4, NormalizeCorrect
<1> HIDE DEF X, left
<1> QED
  BY <1>9, <1>10, <1>11, <1>12, <1>13

-----------------------------------------------------------------------------
(* The table *)

LEMMA EffectiveLocalOf ==
    ASSUME NEW list, list \subseteq Prefix, NEW local, local \subseteq Prefix,
           NEW international, international \subseteq Prefix
    PROVE  /\ EffectiveLocal(list, local, international) \subseteq Prefix
           /\ \A q \in EffectiveLocal(list, local, international) :
                  \E p \in list \cup local : p.bits <= q.bits
           /\ \A p, q \in EffectiveLocal(list, local, international) :
                  Overlaps(p, q) => p = q
           /\ Everything \in local \/ (Everything \in list /\ international = {})
                  => Everything \in EffectiveLocal(list, local, international)
           /\ \A a \in Address :
                  Listed(EffectiveLocal(list, local, international), a)
                      <=> \/ Listed(local, a)
                          \/ Listed(list, a) /\ ~Listed(international, a)
<1> DEFINE rest == SubtractAll(list, international)
<1>1. /\ rest \subseteq Prefix
      /\ \A q \in rest : \E p \in list : p.bits <= q.bits
      /\ \A a \in Address : Listed(rest, a) <=> Listed(list, a) /\ ~Listed(international, a)
      /\ Everything \in list /\ international = {} => Everything \in rest
  BY SubtractAllCorrect
<1> HIDE DEF rest
<1>2. rest \cup local \subseteq Prefix
  BY <1>1
<1>3. EffectiveLocal(list, local, international) = Normalize(rest \cup local)
  BY DEF EffectiveLocal, rest
<1>4. \A a \in Address : Listed(rest \cup local, a) <=> Listed(rest, a) \/ Listed(local, a)
  BY DEF Listed
<1>5. \A p \in Prefix : p.bits <= p.bits
  BY PrefixType, EntryType
<1>6. \A q \in rest \cup local : \E p \in list \cup local : p.bits <= q.bits
  BY <1>1, <1>5
<1> DEFINE all == rest \cup local
<1>7. /\ Normalize(all) \subseteq all
      /\ \A p, q \in Normalize(all) : Overlaps(p, q) => p = q
      /\ \A a \in Address : Listed(Normalize(all), a) <=> Listed(all, a)
      /\ Everything \in all => Everything \in Normalize(all)
  BY <1>2, NormalizeCorrect
<1>8. Normalize(all) \subseteq Prefix
  BY <1>2, <1>7
<1>9. \A q \in Normalize(all) : \E p \in list \cup local : p.bits <= q.bits
  BY <1>6, <1>7
<1>10. \A a \in Address : Listed(Normalize(all), a)
                <=> Listed(local, a) \/ (Listed(list, a) /\ ~Listed(international, a))
  BY <1>1, <1>4, <1>7
<1>11. Everything \in local \/ (Everything \in list /\ international = {})
          => Everything \in Normalize(all)
  BY <1>1, <1>7
<1> HIDE DEF all
<1> QED
  BY <1>3, <1>7, <1>8, <1>9, <1>10, <1>11 DEF all

\* The destinations of the two computed kinds.
LocalOf == EffectiveLocal(Normalize(iran), Normalize(forceLocal),
                          Normalize(forceInternational))
ForcedOf == Normalize(Normalize(forceInternational))

LEMMA TableIs ==
    Table = ConnectedRoutes
                \cup Route("local", "local", LocalOf \ Connected)
                \cup Route("force-international", "international", ForcedOf \ Connected)
                \cup Route("international-default", "international", {Everything})
  BY DEF Table, TargetRoutes, LocalOf, ForcedOf

\* What the lists hold, whatever edits made them.
Lists == TypeOK /\ NoConflict(forceLocal, forceInternational)

LEMMA LocalDestinations ==
    ASSUME Lists
    PROVE  /\ LocalOf \subseteq Prefix
           /\ \A p, q \in LocalOf : Overlaps(p, q) => p = q
           /\ \A a \in Address :
                  Listed(LocalOf, a) <=> \/ Listed(forceLocal, a)
                                         \/ /\ Listed(iran, a)
                                            /\ ~Listed(forceInternational, a)
           /\ Everything \in LocalOf <=> \/ Everything \in forceLocal
                                         \/ /\ Everything \in iran
                                            /\ forceInternational = {}
<1> DEFINE list == Normalize(iran)
           local == Normalize(forceLocal)
           international == Normalize(forceInternational)
<1>1. iran \subseteq Prefix /\ forceLocal \subseteq Prefix /\ forceInternational \subseteq Prefix
  BY DEF Lists, TypeOK
<1>2. /\ list \subseteq iran
      /\ \A a \in Address : Listed(list, a) <=> Listed(iran, a)
      /\ Everything \in iran => Everything \in list
  BY <1>1, NormalizeCorrect
<1>3. /\ local \subseteq forceLocal
      /\ \A a \in Address : Listed(local, a) <=> Listed(forceLocal, a)
      /\ Everything \in forceLocal => Everything \in local
  BY <1>1, NormalizeCorrect
<1>4. /\ international \subseteq forceInternational
      /\ \A a \in Address : Listed(international, a) <=> Listed(forceInternational, a)
      /\ Everything \in forceInternational => Everything \in international
  BY <1>1, NormalizeCorrect
<1> HIDE DEF list, local, international
<1>5. LocalOf = EffectiveLocal(list, local, international)
  BY DEF LocalOf, list, local, international
<1>6. list \subseteq Prefix /\ local \subseteq Prefix /\ international \subseteq Prefix
  BY <1>1, <1>2, <1>3, <1>4
<1>7. /\ LocalOf \subseteq Prefix
      /\ \A q \in LocalOf : \E p \in list \cup local : p.bits <= q.bits
      /\ \A p, q \in LocalOf : Overlaps(p, q) => p = q
      /\ Everything \in local \/ (Everything \in list /\ international = {})
             => Everything \in LocalOf
      /\ \A a \in Address : Listed(LocalOf, a)
              <=> \/ Listed(local, a)
                  \/ Listed(list, a) /\ ~Listed(international, a)
  BY <1>5, <1>6, EffectiveLocalOf
<1>8. ASSUME Everything \in LocalOf PROVE Everything \in iran \cup forceLocal
  <2>1. PICK p \in list \cup local : p.bits <= Everything.bits
    BY <1>7, <1>8
  <2>2. p \in Prefix /\ p.bits \in 0..Bits /\ Everything.bits = 0
    BY <1>6, PrefixType, EntryType DEF Everything
  <2>3. p.bits = 0
    BY <2>1, <2>2, LinksAssumption
  <2>4. p = Everything
    BY <2>2, <2>3, EverythingCovers
  <2> QED
    BY <1>2, <1>3, <2>1, <2>4
<1>9. \A a \in Address :
          Listed(LocalOf, a) <=> \/ Listed(forceLocal, a)
                                 \/ Listed(iran, a) /\ ~Listed(forceInternational, a)
  BY <1>2, <1>3, <1>4, <1>7
\* A force-international entry is cut out of whatever covers it.
<1>10. ASSUME Everything \in LocalOf, NEW q \in forceInternational PROVE FALSE
  <2>1. q \in Prefix /\ q.addr \in Address /\ Covers(q, q.addr)
    BY <1>1, PrefixType, EntryType, CoversSelf
  <2>2. Listed(LocalOf, q.addr) /\ Listed(forceInternational, q.addr)
    BY <1>10, <2>1, EverythingCovers DEF Listed
  <2>3. PICK p \in forceLocal : Covers(p, q.addr)
    BY <1>9, <2>1, <2>2 DEF Listed
  <2> QED
    BY <2>3 DEF Lists, NoConflict, Overlaps
<1>11. Everything \in LocalOf <=> \/ Everything \in forceLocal
                                  \/ (Everything \in iran /\ forceInternational = {})
  <2>1. forceInternational = {} => international = {}
    BY <1>4
  <2>2. ASSUME Everything \in LocalOf
        PROVE  Everything \in forceLocal \/ (Everything \in iran /\ forceInternational = {})
    BY <1>8, <1>10, <2>2
  <2>3. ASSUME Everything \in forceLocal PROVE Everything \in LocalOf
    BY <1>3, <1>7, <2>3
  <2>4. ASSUME Everything \in iran, forceInternational = {} PROVE Everything \in LocalOf
    BY <1>2, <1>7, <2>1, <2>4
  <2> QED
    BY <2>2, <2>3, <2>4
<1> QED
  BY <1>7, <1>9, <1>11

LEMMA ForcedDestinations ==
    ASSUME Lists
    PROVE  /\ ForcedOf \subseteq forceInternational
           /\ ForcedOf \subseteq Prefix
           /\ \A p, q \in ForcedOf : Overlaps(p, q) => p = q
           /\ \A a \in Address : Listed(ForcedOf, a) <=> Listed(forceInternational, a)
           /\ Everything \in forceInternational => Everything \in ForcedOf
<1> DEFINE international == Normalize(forceInternational)
<1>1. forceInternational \subseteq Prefix
  BY DEF Lists, TypeOK
<1>2. /\ international \subseteq forceInternational
      /\ \A a \in Address : Listed(international, a) <=> Listed(forceInternational, a)
      /\ Everything \in forceInternational => Everything \in international
  BY <1>1, NormalizeCorrect
<1> HIDE DEF international
<1>3. international \subseteq Prefix /\ ForcedOf = Normalize(international)
  BY <1>1, <1>2 DEF ForcedOf, international
<1>4. /\ ForcedOf \subseteq international
      /\ \A p, q \in ForcedOf : Overlaps(p, q) => p = q
      /\ \A a \in Address : Listed(ForcedOf, a) <=> Listed(international, a)
      /\ Everything \in international => Everything \in ForcedOf
  BY <1>3, NormalizeCorrect
<1> QED
  BY <1>1, <1>2, <1>4

\* No address is sent both ways.
LEMMA KindsApart ==
    ASSUME Lists, NEW p \in LocalOf, NEW q \in ForcedOf
    PROVE  ~Overlaps(p, q)
<1>1. p \in Prefix /\ q \in Prefix
  BY LocalDestinations, ForcedDestinations
<1>2. SUFFICES ASSUME NEW a \in Address, Covers(p, a), Covers(q, a) PROVE FALSE
  BY <1>1, OverlapShared
<1>3. Listed(LocalOf, a) /\ Listed(ForcedOf, a)
  BY <1>2 DEF Listed
<1>4. Listed(forceLocal, a) /\ Listed(forceInternational, a)
  BY <1>3, LocalDestinations, ForcedDestinations
<1>5. PICK l \in forceLocal, i \in forceInternational : Covers(l, a) /\ Covers(i, a)
  BY <1>4 DEF Listed
<1>6. l \in Prefix /\ i \in Prefix
  BY DEF Lists, TypeOK
<1>7. Overlaps(l, i)
  BY <1>5, <1>6, OverlapShared
<1> QED
  BY <1>7 DEF Lists, NoConflict

\* The record of a route, and the kinds with their links.
RouteOf(kind, link, p) == [kind |-> kind, link |-> link, dst |-> p]

LEMMA RoutesOf ==
    ASSUME NEW r \in Table
    PROVE  \/ /\ r = RouteOf("connected", "local", r.dst) /\ r.dst = localNet
              /\ r.kind = "connected"
           \/ /\ r = RouteOf("connected", "international", r.dst)
              /\ r.dst = internationalNet /\ r.kind = "connected"
           \/ /\ r = RouteOf("local", "local", r.dst) /\ r.dst \in LocalOf \ Connected
              /\ r.kind = "local"
           \/ /\ r = RouteOf("force-international", "international", r.dst)
              /\ r.dst \in ForcedOf \ Connected /\ r.kind = "force-international"
           \/ /\ r = RouteOf("international-default", "international", r.dst)
              /\ r.dst = Everything /\ r.kind = "international-default"
  BY TableIs DEF Route, ConnectedRoutes, RouteOf

LEMMA RouteIn ==
    /\ RouteOf("connected", "local", localNet) \in Table
    /\ RouteOf("connected", "international", internationalNet) \in Table
    /\ \A p \in LocalOf \ Connected : RouteOf("local", "local", p) \in Table
    /\ \A p \in ForcedOf \ Connected :
           RouteOf("force-international", "international", p) \in Table
    /\ RouteOf("international-default", "international", Everything) \in Table
  BY TableIs DEF Route, ConnectedRoutes, RouteOf

LEMMA ConnectedType ==
    ASSUME Lists
    PROVE  /\ Connected \subseteq Prefix
           /\ localNet \in Connected
           /\ internationalNet \in Connected
  BY DEF Lists, TypeOK, Connected

LEMMA TableBits ==
    ASSUME Lists, NEW r \in Table
    PROVE  r.dst \in Prefix /\ r.dst.bits \in 0..Bits
<1>1. r.dst \in Prefix
  BY RoutesOf, ConnectedType, LocalDestinations, ForcedDestinations, EverythingCovers
<1> QED
  BY <1>1, PrefixType, EntryType

LEMMA Longest ==
    ASSUME Lists, NEW T, T \subseteq Table, T # {}
    PROVE  \E r \in T : \A s \in T : s.dst.bits <= r.dst.bits
<1> DEFINE IsLongest(r) == \A s \in T : s.dst.bits <= r.dst.bits
           S == {n \in Nat : (\E r \in T : Bits - r.dst.bits <= n) => \E r \in T : IsLongest(r)}
<1>1. \A r \in T : r.dst.bits \in 0..Bits /\ Bits - r.dst.bits \in Nat
  BY TableBits, LinksAssumption
<1>2. 0 \in S
  <2>1. ASSUME NEW r \in T, Bits - r.dst.bits <= 0 PROVE IsLongest(r)
    BY <1>1, <2>1, LinksAssumption
  <2> HIDE DEF IsLongest
  <2> QED
    BY <2>1
<1>3. ASSUME NEW n \in Nat, n \in S PROVE n + 1 \in S
  <2>1. ASSUME NEW r \in T, Bits - r.dst.bits <= n + 1 PROVE \E q \in T : IsLongest(q)
    <3>1. CASE IsLongest(r)
      BY <3>1
    <3>2. CASE ~IsLongest(r)
      <4>1. PICK s \in T : ~(s.dst.bits <= r.dst.bits)
        BY <3>2
      <4>2. Bits - s.dst.bits <= n
        BY <1>1, <2>1, <4>1, LinksAssumption
      <4> HIDE DEF IsLongest
      <4> QED
        BY <1>3, <4>2
    <3> QED
      BY <3>1, <3>2
  <2> HIDE DEF IsLongest
  <2> QED
    BY <2>1
<1>4. Nat \subseteq S
  <2> HIDE DEF S
  <2> QED
    BY <1>2, <1>3, Induction
<1>5. PICK r \in T : TRUE
  OBVIOUS
<1>6. Bits - r.dst.bits \in S /\ Bits - r.dst.bits <= Bits - r.dst.bits
  BY <1>1, <1>4
<1> QED
  BY <1>6

\* The kernel's choice is a longest match.
LEMMA BestOf ==
    ASSUME Lists, NEW a \in Address
    PROVE  /\ Best(a) \in Table
           /\ Covers(Best(a).dst, a)
           /\ \A s \in Table : Covers(s.dst, a) => s.dst.bits <= Best(a).dst.bits
<1> DEFINE IsLongest(r) == \A s \in Matching(a) : s.dst.bits <= r.dst.bits
<1>1. RouteOf("international-default", "international", Everything) \in Matching(a)
  BY RouteIn, EverythingCovers DEF Matching, RouteOf
<1>2. Matching(a) \subseteq Table
  BY DEF Matching
<1>3. \E r \in Matching(a) : IsLongest(r)
  BY <1>1, <1>2, Longest
<1>4. Best(a) \in Matching(a) /\ IsLongest(Best(a))
  BY <1>3 DEF Best
<1> QED
  BY <1>4 DEF Matching

-----------------------------------------------------------------------------
(* The theorems *)

LEMMA ListsInit == Init => Lists
<1> SUFFICES ASSUME Init PROVE Lists
  OBVIOUS
<1>1. PICK list \in Imports : iran = {Masked(e) : e \in list}
  BY DEF Init
<1>2. list # {} /\ list \subseteq Entry
  BY InputAssumption
<1>3. iran # {} /\ iran \subseteq Prefix
  BY <1>1, <1>2 DEF Prefix
<1> QED
  BY <1>3, LinksAssumption DEF Init, Lists, TypeOK, NoConflict, Connected

LEMMA ListsNext == Lists /\ [Next]_vars => Lists'
<1> SUFFICES ASSUME Lists, [Next]_vars PROVE Lists'
  OBVIOUS
<1> USE DEF Lists, TypeOK, NoConflict, Connected, links
<1>1. ASSUME NEW e \in Entry PROVE Masked(e) \in Prefix
  BY DEF Prefix
<1>2. ASSUME NEW e \in Entry, AddLocal(e) PROVE Lists'
  BY <1>1, <1>2 DEF AddLocal
<1>3. ASSUME NEW e \in Entry, AddInternational(e) PROVE Lists'
  BY <1>1, <1>3 DEF AddInternational
<1>4. ASSUME NEW e \in Entry, RemoveLocal(e) PROVE Lists'
  BY <1>4 DEF RemoveLocal
<1>5. ASSUME NEW e \in Entry, RemoveInternational(e) PROVE Lists'
  BY <1>5 DEF RemoveInternational
<1>6. ASSUME NEW list \in Imports, Import(list) PROVE Lists'
  <2>1. list # {} /\ list \subseteq Entry
    BY InputAssumption
  <2>2. iran' # {} /\ iran' \subseteq Prefix
    BY <1>6, <2>1 DEF Import, Prefix
  <2> QED
    BY <1>6, <2>2 DEF Import
<1>7. ASSUME NEW local \in Networks, NEW international \in Networks,
             SetLinks(local, international)
      PROVE  Lists'
  BY <1>7, LinksAssumption DEF SetLinks
<1>8. CASE UNCHANGED vars
  BY <1>8 DEF vars
<1> QED
  BY <1>2, <1>3, <1>4, <1>5, <1>6, <1>7, <1>8 DEF Next

LEMMA ListsAlways == Spec => []Lists
  BY ListsInit, ListsNext, PTL DEF Spec

\* The lists hold masked prefixes and the CIDR list is never empty, whatever is
\* imported, forced and removed (normalizeCIDRData, App.force).
THEOREM RoutesTypeCorrect == Spec => []TypeOK
<1>1. Lists => TypeOK
  BY DEF Lists
<1> QED
  BY <1>1, ListsAlways, PTL

\* Apart from the connected and the default routes no two routes of a generation
\* overlap, for any width of an address and any lists (Build, Normalize).
THEOREM NoOverlapCorrect == Spec => []NoOverlap
<1>1. ASSUME Lists PROVE NoOverlap
  <2> DEFINE listed == {r \in Table : r.kind \in {"local", "force-international"}}
  <2>1. SUFFICES ASSUME NEW r \in listed, NEW s \in listed, Overlaps(r.dst, s.dst)
                 PROVE  r = s
    BY DEF NoOverlap
  <2>2. ASSUME NEW t \in listed
        PROVE  \/ t = RouteOf("local", "local", t.dst) /\ t.dst \in LocalOf
               \/ t = RouteOf("force-international", "international", t.dst) /\ t.dst \in ForcedOf
    <3>1. t \in Table /\ t.kind \in {"local", "force-international"}
      OBVIOUS
    <3>2. t.kind # "connected" /\ t.kind # "international-default"
      BY <3>1
    <3> QED
      BY <3>1, <3>2, RoutesOf
  <2>3. Overlaps(s.dst, r.dst)
    BY <2>1 DEF Overlaps
  <2> HIDE DEF listed
  <2>4. CASE r.dst \in LocalOf /\ s.dst \in LocalOf
    <3>1. r.dst = s.dst
      BY <1>1, <2>1, <2>4, LocalDestinations
    <3>2. r = RouteOf("local", "local", r.dst)
      BY <1>1, <2>2, <2>4, <3>1, KindsApart DEF Overlaps, Covers
    <3>3. s = RouteOf("local", "local", s.dst)
      BY <1>1, <2>2, <2>4, <3>1, KindsApart DEF Overlaps, Covers
    <3> QED
      BY <3>1, <3>2, <3>3
  <2>5. CASE r.dst \in ForcedOf /\ s.dst \in ForcedOf
    <3>1. r.dst = s.dst
      BY <1>1, <2>1, <2>5, ForcedDestinations
    <3>2. r = RouteOf("force-international", "international", r.dst)
      BY <1>1, <2>2, <2>5, <3>1, KindsApart DEF Overlaps, Covers
    <3>3. s = RouteOf("force-international", "international", s.dst)
      BY <1>1, <2>2, <2>5, <3>1, KindsApart DEF Overlaps, Covers
    <3> QED
      BY <3>1, <3>2, <3>3
  <2>6. CASE r.dst \in LocalOf /\ s.dst \in ForcedOf
    BY <1>1, <2>1, <2>6, KindsApart
  <2>7. CASE r.dst \in ForcedOf /\ s.dst \in LocalOf
    BY <1>1, <2>3, <2>7, KindsApart
  <2> QED
    BY <2>2, <2>4, <2>5, <2>6, <2>7
<1> QED
  BY <1>1, ListsAlways, PTL

\* The batch that fills a table goes through exactly when the links are in two
\* networks and no network or list puts a second route beside the default one
\* (Build; Validate refuses neither case).
THEOREM BatchLoadsCorrect == Spec => []BatchLoads
<1> DEFINE default == RouteOf("international-default", "international", Everything)
<1>1. ASSUME Lists PROVE BatchLoads
  <2>1. /\ localNet \in Connected /\ internationalNet \in Connected
        /\ Connected = {localNet, internationalNet}
    BY <1>1, ConnectedType DEF Connected
  <2>2. Everything \in LocalOf <=> \/ Everything \in forceLocal
                                  \/ (Everything \in iran /\ forceInternational = {})
    BY <1>1, LocalDestinations
  <2>3. Everything \in ForcedOf <=> Everything \in forceInternational
    BY <1>1, ForcedDestinations
  \* What the right side rules out, no two routes share.
  <2>4. ASSUME localNet # internationalNet,
               Everything \notin Connected \cup LocalOf \cup ForcedOf,
               NEW r \in Table, NEW s \in Table, r.dst = s.dst
        PROVE  r = s
    <3>1. \A p \in LocalOf : p \notin ForcedOf
      BY <1>1, KindsApart DEF Overlaps, Covers
    <3> QED
      BY <2>1, <2>4, <3>1, RoutesOf
  \* Whatever it rules out puts two routes on one destination.
  <2>5. ASSUME Loads PROVE localNet # internationalNet
    <3>1. SUFFICES ASSUME localNet = internationalNet PROVE FALSE
      OBVIOUS
    <3> DEFINE r == RouteOf("connected", "local", localNet)
               s == RouteOf("connected", "international", internationalNet)
    <3>2. r \in Table /\ s \in Table
      BY RouteIn
    <3>3. r.dst = s.dst /\ r.link # s.link
      BY <3>1 DEF RouteOf
    <3> QED
      BY <2>5, <3>2, <3>3 DEF Loads
  <2>6. ASSUME Loads, NEW r \in Table, r.dst = Everything PROVE r.kind = "international-default"
    <3>1. default \in Table
      BY RouteIn
    <3>2. default.dst = Everything /\ default.kind = "international-default"
      BY DEF RouteOf
    <3> HIDE DEF default
    <3> QED
      BY <2>6, <3>1, <3>2 DEF Loads
  <2>7. ASSUME Loads PROVE Everything \notin Connected
    <3>1. ASSUME Everything = localNet PROVE FALSE
      BY <2>6, <2>7, <3>1, RouteIn DEF RouteOf
    <3>2. ASSUME Everything = internationalNet PROVE FALSE
      BY <2>6, <2>7, <3>2, RouteIn DEF RouteOf
    <3> QED
      BY <2>1, <3>1, <3>2
  <2>8. ASSUME Loads PROVE Everything \notin LocalOf /\ Everything \notin ForcedOf
    <3>1. ASSUME Everything \in LocalOf PROVE FALSE
      <4>1. RouteOf("local", "local", Everything) \in Table
        BY <2>7, <2>8, <3>1, RouteIn
      <4> QED
        BY <2>6, <2>8, <4>1 DEF RouteOf
    <3>2. ASSUME Everything \in ForcedOf PROVE FALSE
      <4>1. RouteOf("force-international", "international", Everything) \in Table
        BY <2>7, <2>8, <3>2, RouteIn
      <4> QED
        BY <2>6, <2>8, <4>1 DEF RouteOf
    <3> QED
      BY <3>1, <3>2
  <2>9. Loads <=> /\ localNet # internationalNet
                  /\ Everything \notin Connected \cup LocalOf \cup ForcedOf
    BY <2>4, <2>5, <2>7, <2>8 DEF Loads
  <2> QED
    BY <2>2, <2>3, <2>9 DEF BatchLoads
<1> QED
  BY <1>1, ListsAlways, PTL

\* Every address outside the connected networks leaves where the lists say,
\* whenever the table can be loaded (Build, and the kernel's longest match).
THEOREM EgressCorrect == Spec => []EgressAsIntended
<1>1. ASSUME Lists PROVE EgressAsIntended
  <2>1. SUFFICES
          ASSUME Loads, NEW a \in Address, ~Listed(Connected, a)
          PROVE  Best(a).kind =
                     CASE Listed(forceInternational, a) -> "force-international"
                       [] Listed(forceLocal, a) -> "local"
                       [] OTHER -> IF Listed(iran, a) THEN "local"
                                   ELSE "international-default"
    BY DEF EgressAsIntended
  <2> DEFINE r == Best(a)
  <2>2. /\ r \in Table
        /\ Covers(r.dst, a)
        /\ \A s \in Table : Covers(s.dst, a) => s.dst.bits <= r.dst.bits
    BY <1>1, BestOf
  <2> HIDE DEF r
  <2>3. r.dst \notin Connected /\ localNet \in Connected /\ internationalNet \in Connected
    BY <1>1, <2>1, <2>2, ConnectedType DEF Listed
  <2>4. r.dst \in Prefix /\ r.dst.bits \in 0..Bits
    BY <1>1, <2>2, TableBits
  \* The default route is the last resort.
  <2>5. ASSUME r.dst = Everything, NEW s \in Table, Covers(s.dst, a) PROVE r = s
    <3>1. s.dst \in Prefix /\ s.dst.bits \in 0..Bits /\ s.dst.bits <= r.dst.bits
      BY <1>1, <2>2, <2>5, TableBits
    <3>2. s.dst.bits = 0
      BY <2>5, <3>1, LinksAssumption DEF Everything
    <3>3. s.dst = r.dst
      BY <2>5, <3>1, <3>2, EverythingCovers
    <3> QED
      BY <2>1, <2>2, <3>3 DEF Loads
  <2>6. \/ r.kind = "local" /\ r.dst \in LocalOf
        \/ r.kind = "force-international" /\ r.dst \in ForcedOf
        \/ r.kind = "international-default" /\ r.dst = Everything
    BY <2>2, <2>3, RoutesOf
  <2>7. ~(Listed(LocalOf, a) /\ Listed(ForcedOf, a))
    <3>1. SUFFICES ASSUME NEW p \in LocalOf, NEW q \in ForcedOf, Covers(p, a), Covers(q, a)
                   PROVE  FALSE
      BY DEF Listed
    <3>2. p \in Prefix /\ q \in Prefix
      BY <1>1, LocalDestinations, ForcedDestinations
    <3> QED
      BY <1>1, <3>1, <3>2, OverlapShared, KindsApart
  <2>8. ASSUME Listed(LocalOf, a) PROVE r.kind = "local"
    <3>1. PICK p \in LocalOf : Covers(p, a)
      BY <2>8 DEF Listed
    <3>2. p \notin Connected
      BY <2>1, <3>1 DEF Listed
    <3>3. RouteOf("local", "local", p) \in Table
      BY <3>2, RouteIn
    <3>4. CASE r.kind = "force-international" /\ r.dst \in ForcedOf
      BY <2>2, <2>7, <2>8, <3>4 DEF Listed
    <3>5. CASE r.kind = "international-default" /\ r.dst = Everything
      <4>1. RouteOf("local", "local", p).dst = p
        BY DEF RouteOf
      <4>2. r = RouteOf("local", "local", p)
        BY <2>5, <3>1, <3>3, <3>5, <4>1
      <4> QED
        BY <4>2 DEF RouteOf
    <3> QED
      BY <2>6, <3>4, <3>5
  <2>9. ASSUME Listed(ForcedOf, a) PROVE r.kind = "force-international"
    <3>1. PICK p \in ForcedOf : Covers(p, a)
      BY <2>9 DEF Listed
    <3>2. p \notin Connected
      BY <2>1, <3>1 DEF Listed
    <3>3. RouteOf("force-international", "international", p) \in Table
      BY <3>2, RouteIn
    <3>4. CASE r.kind = "local" /\ r.dst \in LocalOf
      BY <2>2, <2>7, <2>9, <3>4 DEF Listed
    <3>5. CASE r.kind = "international-default" /\ r.dst = Everything
      <4>1. RouteOf("force-international", "international", p).dst = p
        BY DEF RouteOf
      <4>2. r = RouteOf("force-international", "international", p)
        BY <2>5, <3>1, <3>3, <3>5, <4>1
      <4> QED
        BY <4>2 DEF RouteOf
    <3> QED
      BY <2>6, <3>4, <3>5
  <2>10. ASSUME ~Listed(LocalOf, a), ~Listed(ForcedOf, a)
         PROVE  r.kind = "international-default"
    BY <2>2, <2>6, <2>10 DEF Listed
  <2>11. /\ Listed(LocalOf, a) <=> \/ Listed(forceLocal, a)
                                   \/ /\ Listed(iran, a)
                                      /\ ~Listed(forceInternational, a)
         /\ Listed(ForcedOf, a) <=> Listed(forceInternational, a)
    BY <1>1, LocalDestinations, ForcedDestinations
  <2>12. CASE Listed(forceInternational, a)
    BY <2>7, <2>9, <2>11, <2>12 DEF r
  <2>13. CASE ~Listed(forceInternational, a) /\ Listed(forceLocal, a)
    BY <2>8, <2>11, <2>13 DEF r
  <2>14. CASE ~Listed(forceInternational, a) /\ ~Listed(forceLocal, a)
    BY <2>8, <2>10, <2>11, <2>14 DEF r
  <2> QED
    BY <2>12, <2>13, <2>14
<1> QED
  BY <1>1, ListsAlways, PTL

=============================================================================
