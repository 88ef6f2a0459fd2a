----------------------------- MODULE SlotsProof -----------------------------
(***************************************************************************)
(* Proofs about Slots: that tables answer what was put into them, however  *)
(* they are searched and wherever they have grown; that an instruction     *)
(* never trusts a number that means something else by now; and that all of *)
(* it is SlotModel, where objects are functions.                           *)
(***************************************************************************)
EXTENDS Slots, FiniteSetTheorems, SequenceTheorems, WellFoundedInduction, TLAPS

(***************************************************************************)
(* Numbers.                                                                *)
(***************************************************************************)

(* A set of natural numbers has a least member.                            *)
LEMMA LeastOf ==
  ASSUME NEW L, L \subseteq Nat, L # {}
  PROVE  \E x \in L : \A y \in L : x <= y
<1> DEFINE R == OpToRel(<, Nat)
<1>1. IsWellFoundedOn(R, Nat)
  BY NatLessThanWellFounded, Zenon
<1>2. \A x, y \in Nat : x < y => <<x, y>> \in R
  BY SMT DEF OpToRel
<1> HIDE DEF R
<1>3. PICK x \in L : \A y \in L : ~ (<<y, x>> \in R)
  BY <1>1, WFMin
<1>4. ASSUME NEW y \in L
      PROVE  x <= y
  <2>1. x \in Nat /\ y \in Nat /\ ~ (y < x)
    BY <1>2, <1>3
  <2> QED BY <2>1
<1> QED BY <1>4

(* The least, as Min chooses it.                                           *)
LEMMA MinIs ==
  ASSUME NEW L, L \subseteq Nat, L # {}
  PROVE  Min(L) \in L /\ \A y \in L : Min(L) <= y
<1>1. PICK x \in L : \A y \in L : x <= y
  BY LeastOf
<1> QED BY <1>1, Zenon DEF Min

(* A bounded set of them has a greatest.                                   *)
LEMMA MaxIs ==
  ASSUME NEW n \in Nat, NEW L, L \subseteq 0..n, L # {}
  PROVE  Max(L) \in L /\ \A y \in L : y <= Max(L)
<1> DEFINE M == {n - y : y \in L}
<1>1. M \subseteq Nat /\ M # {}
  <2>1. PICK y : y \in L
    OBVIOUS
  <2>2. n - y \in M
    BY <2>1
  <2> QED BY <2>2
<1>2. PICK m \in M : \A y \in M : m <= y
  BY <1>1, LeastOf
<1>3. PICK x \in L : m = n - x
  OBVIOUS
<1>4. \A y \in L : n - y \in M
  OBVIOUS
<1> HIDE DEF M
<1>5. \A y \in L : n - x <= n - y
  BY <1>2, <1>3, <1>4
<1>6. \A y \in L : x >= y
  BY <1>5
<1>7. Max(L) \in L /\ \A y \in L : Max(L) >= y
  BY <1>6, Zenon DEF Max
<1>8. \A a, b \in 0..n : a >= b => b <= a
  OBVIOUS
<1> QED BY <1>7, <1>8

(* The larger of two numbers.                                              *)
LEMMA MaxOfTwo ==
  ASSUME NEW a \in Nat, NEW b \in Nat
  PROVE  Max({a, b}) = IF a >= b THEN a ELSE b
<1>1. \E x \in {a, b} : \A y \in {a, b} : x >= y
  OBVIOUS
<1>2. Max({a, b}) \in {a, b} /\ \A y \in {a, b} : Max({a, b}) >= y
  BY <1>1, Zenon DEF Max
<1> QED BY <1>2

(* A value that is changed step by step: the values in between exist.      *)
Closed(S, G)   == \A x \in S, n \in Nat : G[<<x, n>>] \in S
Steps(f, b, G) == f[0] = b /\ \A n \in Nat : f[n + 1] = G[<<f[n], n + 1>>]
LEMMA Iterates ==
  ASSUME NEW S, NEW b \in S, NEW G, Closed(S, G)
  PROVE  \E f \in [Nat -> S] : Steps(f, b, G)
<1> DEFINE Upto(m, f) == f[0] = b /\ \A n \in 0..m - 1 : f[n + 1] = G[<<f[n], n + 1>>]
           Bad == {m \in Nat : ~ \E f \in [0..m -> S] : Upto(m, f)}
<1>1. \A m \in Nat : \E f \in [0..m -> S] : Upto(m, f)
  <2> SUFFICES Bad = {}
    OBVIOUS
  <2> SUFFICES ASSUME Bad # {}
               PROVE  FALSE
    OBVIOUS
  <2>1. PICK m \in Bad : \A y \in Bad : m <= y
    BY LeastOf
  <2>2. CASE m = 0
    <3> DEFINE f == [n \in 0..0 |-> b]
    <3>1. f \in [0..m -> S] /\ Upto(m, f)
      BY <2>2
    <3> QED BY <3>1, <2>1
  <2>3. CASE m # 0
    <3>1. m - 1 \in Nat /\ m - 1 \notin Bad
      <4>1. m \in Nat
        OBVIOUS
      <4>2. m - 1 \in Nat /\ ~ (m <= m - 1)
        BY <4>1, <2>3
      <4> HIDE DEF Bad
      <4> QED BY <4>2, <2>1
    <3>2. PICK f \in [0..m - 1 -> S] : Upto(m - 1, f)
      BY <3>1
    <3> DEFINE g == [n \in 0..m |-> IF n = m THEN G[<<f[m - 1], m>>] ELSE f[n]]
    <3>3. G[<<f[m - 1], m>>] \in S
      BY <3>1 DEF Closed
    <3>4. g \in [0..m -> S]
      <4>1. ASSUME NEW n \in 0..m
            PROVE  (IF n = m THEN G[<<f[m - 1], m>>] ELSE f[n]) \in S
        <5>1. CASE n = m
          BY <5>1, <3>3
        <5>2. CASE n # m
          <6>1. n \in 0..m - 1
            BY <5>2, <3>1
          <6> QED BY <6>1, <5>2
        <5> QED BY <5>1, <5>2
      <4> QED BY <4>1
    <3>5. Upto(m, g)
      <4>1. g[0] = b
        BY <3>2, <2>3, <3>1
      <4>2. ASSUME NEW n \in 0..m - 1
            PROVE  g[n + 1] = G[<<g[n], n + 1>>]
        <5>1. CASE n = m - 1
          <6>1. g[n + 1] = G[<<f[m - 1], m>>] /\ g[n] = f[n] /\ n + 1 = m
            BY <5>1, <3>1
          <6> QED BY <6>1, <5>1
        <5>2. CASE n # m - 1
          <6>1. n \in 0..(m - 1) - 1 /\ n + 1 \in 0..m /\ n + 1 # m /\ n # m
            BY <5>2, <3>1
          <6>2. f[n + 1] = G[<<f[n], n + 1>>]
            BY <6>1, <3>2
          <6>3. g[n + 1] = f[n + 1] /\ g[n] = f[n]
            BY <6>1
          <6> QED BY <6>3, <6>2
        <5> QED BY <5>1, <5>2
      <4> QED BY <4>1, <4>2
    <3> QED BY <3>4, <3>5, <2>1
  <2> QED BY <2>2, <2>3
<1>2. ASSUME NEW m \in Nat, NEW f, NEW g, Upto(m, f), Upto(m, g)
      PROVE  f[m] = g[m]
  <2> DEFINE Off == {n \in 0..m : f[n] # g[n]}
  <2> SUFFICES ASSUME Off # {}
               PROVE  FALSE
    OBVIOUS
  <2>1. PICK n \in Off : \A y \in Off : n <= y
    <3>1. Off \subseteq Nat
      OBVIOUS
    <3> HIDE DEF Off
    <3> QED BY <3>1, LeastOf
  <2>2. n # 0
    BY <1>2, <2>1
  <2>3. n - 1 \in 0..m - 1 /\ n - 1 \notin Off
    BY <2>1, <2>2
  <2>4. f[n - 1] = g[n - 1]
    BY <2>3
  <2>5. f[n] = G[<<f[n - 1], n>>] /\ g[n] = G[<<g[n - 1], n>>]
    <3>1. (n - 1) + 1 = n
      OBVIOUS
    <3> QED BY <3>1, <2>3, <1>2
  <2> QED BY <2>1, <2>4, <2>5
<1> DEFINE F(m) == CHOOSE f \in [0..m -> S] : Upto(m, f)
           e == [m \in Nat |-> F(m)[m]]
<1>3. \A m \in Nat : F(m) \in [0..m -> S] /\ Upto(m, F(m))
  BY <1>1
<1> HIDE DEF F
<1>4. e \in [Nat -> S]
  BY <1>3
<1>5. e[0] = b
  BY <1>3
<1>6. ASSUME NEW n \in Nat
      PROVE  e[n + 1] = G[<<e[n], n + 1>>]
  <2>1. Upto(n, F(n + 1))
    BY <1>3
  <2>2. F(n + 1)[n] = F(n)[n]
    BY <2>1, <1>2, <1>3
  <2>3. F(n + 1)[n + 1] = G[<<F(n + 1)[n], n + 1>>]
    BY <1>3
  <2> QED BY <2>2, <2>3
<1> QED BY <1>4, <1>5, <1>6 DEF Steps

(***************************************************************************)
(* Searching one table.                                                    *)
(***************************************************************************)

(* A table that can be searched, and one where the search for a key that   *)
(* is there ends at it.                                                    *)
Fits(t)   == t \in Table /\ Size(t) \in 1 .. MaxSize
Finds(t)  == \A i \in 1 .. Size(t) : t.cells[i].k # Nil => At(t, t.cells[i].k) = i
Stops(t, k, n)  == t.cells[Probe(t, k, n)].k \in {Nil, k}
StopsAt(t, k, n) == Stops(t, k, n) /\ \A m \in 1 .. n - 1 : ~ Stops(t, k, m)

(* The place where a search begins is in the array.                        *)
LEMMA HomeIs ==
  ASSUME NEW k \in Key, NEW size \in 1..MaxSize
  PROVE  Home[k][size] \in 1..size
<1> DEFINE both == {c \in 0..size - 1 : Bits(c) \subseteq Bits(Hash[k]) \cap Bits(size - 1)}
           L == {0} \cup both
<1>1. size - 1 \in Nat
  BY SlotAssumption
<1>2. L \subseteq 0..size - 1 /\ L # {}
  BY <1>1
<1>3. BitAnd(Hash[k], size - 1) = Max(L)
  BY DEF BitAnd
<1> HIDE DEF L
<1>4. Max(L) \in 0..size - 1
  BY <1>1, <1>2, MaxIs
<1>5. Home[k][size] = 1 + BitAnd(Hash[k], size - 1)
  BY DEF Home
<1> HIDE DEF both
<1>6. size \in Nat
  BY SlotAssumption
<1> QED BY <1>1, <1>3, <1>4, <1>5, <1>6

(* The parts of a table.                                                   *)
LEMMA FitsParts ==
  ASSUME NEW t, Fits(t)
  PROVE  /\ t.cells \in Seq(Entry) /\ Size(t) = Len(t.cells) /\ Size(t) \in 1..MaxSize /\ Size(t) \in Nat
         /\ \A i \in 1..Size(t) : t.cells[i] \in Entry
         /\ t.hash \in BOOLEAN /\ t.shared \in BOOLEAN /\ t.uid \in Nat /\ t.array \in Nat
BY SlotAssumption DEF Fits, Table, Size

(* A search looks at cells of the array, and at all of them.               *)
LEMMA ProbeIs ==
  ASSUME NEW t, Fits(t), NEW k \in Key
  PROVE  /\ \A n \in 1..Size(t) : Probe(t, k, n) \in 1..Size(t)
         /\ \A i \in 1..Size(t) : \E n \in 1..Size(t) : Probe(t, k, n) = i
<1> DEFINE h == Home[k][Size(t)]
           s == Size(t)
<1>1. s \in Nat /\ s \in 1..MaxSize /\ t.hash \in BOOLEAN
  BY FitsParts
<1>2. h \in 1..s
  BY <1>1, HomeIs
<1>3. ASSUME NEW n \in Nat
      PROVE  Probe(t, k, n) = IF ~t.hash THEN n ELSE IF h + n - 1 <= s THEN h + n - 1 ELSE h + n - 1 - s
  BY <1>1, <1>2 DEF Probe
<1> HIDE DEF h, s
<1>4. \A n \in 1..s : Probe(t, k, n) \in 1..s
  BY <1>1, <1>2, <1>3
<1>5. ASSUME NEW i \in 1..s
      PROVE  \E n \in 1..s : Probe(t, k, n) = i
  <2>1. CASE ~ t.hash
    BY <1>3, <2>1
  <2>2. CASE t.hash /\ i >= h
    <3>1. i - h + 1 \in 1..s /\ i - h + 1 \in Nat /\ h + (i - h + 1) - 1 = i /\ i <= s
      BY <1>1, <1>2, <2>2
    <3>2. Probe(t, k, i - h + 1) = i
      BY <3>1, <2>2, <1>3
    <3> QED BY <3>1, <3>2
  <2>3. CASE t.hash /\ ~ (i >= h)
    <3> DEFINE n == i - h + 1 + s
    <3>1. n \in 1..s /\ n \in Nat /\ h + n - 1 - s = i /\ ~ (h + n - 1 <= s)
      BY <1>1, <1>2, <2>3
    <3> HIDE DEF n
    <3>2. Probe(t, k, n) = i
      BY <3>1, <2>3, <1>3
    <3> QED BY <3>1, <3>2
  <2> QED BY <2>1, <2>2, <2>3
<1> QED BY <1>4, <1>5 DEF s

(* Where the search for k ends.                                            *)
LEMMA AtIs ==
  ASSUME NEW t, Fits(t), NEW k \in Key
  PROVE  /\ At(t, k) \in 0..Size(t)
         /\ At(t, k) # 0 => /\ t.cells[At(t, k)].k \in {Nil, k}
                            /\ \E n \in 1..Size(t) : Probe(t, k, n) = At(t, k) /\ StopsAt(t, k, n)
         /\ At(t, k) = 0 => \A i \in 1..Size(t) : t.cells[i].k \notin {Nil, k}
         /\ \A n \in 1..Size(t) : StopsAt(t, k, n) => At(t, k) = Probe(t, k, n)
<1> DEFINE L == {n \in 1..Size(t) : t.cells[Probe(t, k, n)].k \in {Nil, k}}
<1>1. At(t, k) = IF L = {} THEN 0 ELSE Probe(t, k, Min(L))
  BY DEF At
<1>2. Size(t) \in Nat
  BY FitsParts
<1>3. L \subseteq Nat /\ L \subseteq 1..Size(t) /\ \A n \in 1..Size(t) : n \in L <=> Stops(t, k, n)
  BY <1>2 DEF Stops
<1> HIDE DEF L
<1>4. L # {} => Min(L) \in L /\ \A y \in L : Min(L) <= y
  BY <1>3, MinIs
<1>5. \A n \in 1..Size(t) : Probe(t, k, n) \in 1..Size(t)
  BY ProbeIs
<1>6. ASSUME L # {}
      PROVE  StopsAt(t, k, Min(L))
  <2>1. ASSUME NEW m \in 1..Min(L) - 1
        PROVE  ~ Stops(t, k, m)
    <3>0. Min(L) \in 1..Size(t) /\ Min(L) \in Nat
      BY <1>3, <1>4, <1>6
    <3>1. m \in 1..Size(t) /\ ~ (Min(L) <= m)
      BY <1>2, <3>0
    <3> QED BY <3>1, <1>3, <1>4, <1>6
  <2> QED BY <2>1, <1>3, <1>4, <1>6 DEF StopsAt
<1>7. At(t, k) \in 0..Size(t)
  <2>1. CASE L = {}
    BY <2>1, <1>1, <1>2
  <2>2. CASE L # {}
    <3>1. At(t, k) \in 1..Size(t)
      BY <2>2, <1>1, <1>3, <1>4, <1>5
    <3> QED BY <3>1, <1>2
  <2> QED BY <2>1, <2>2
<1>8. ASSUME At(t, k) # 0
      PROVE  /\ t.cells[At(t, k)].k \in {Nil, k}
             /\ \E n \in 1..Size(t) : Probe(t, k, n) = At(t, k) /\ StopsAt(t, k, n)
  <2>1. L # {} /\ At(t, k) = Probe(t, k, Min(L)) /\ Min(L) \in 1..Size(t)
    BY <1>1, <1>3, <1>4, <1>8
  <2>2. StopsAt(t, k, Min(L))
    BY <2>1, <1>6
  <2>3. t.cells[At(t, k)].k \in {Nil, k}
    BY <2>1, <2>2 DEF StopsAt, Stops
  <2> QED BY <2>1, <2>2, <2>3
<1>9. ASSUME At(t, k) = 0, NEW i \in 1..Size(t)
      PROVE  t.cells[i].k \notin {Nil, k}
  <2>1. L = {}
    <3> SUFFICES ASSUME L # {}
                 PROVE  FALSE
      OBVIOUS
    <3>1. Probe(t, k, Min(L)) \in 1..Size(t) /\ Probe(t, k, Min(L)) = 0
      BY <1>1, <1>3, <1>4, <1>5, <1>9
    <3> QED BY <3>1, <1>2
  <2>2. PICK n \in 1..Size(t) : Probe(t, k, n) = i
    BY ProbeIs
  <2> QED BY <2>1, <2>2, <1>3 DEF Stops
<1>10. ASSUME NEW n \in 1..Size(t), StopsAt(t, k, n)
       PROVE  At(t, k) = Probe(t, k, n)
  <2>1. n \in L
    BY <1>3, <1>10 DEF StopsAt
  <2>2. Min(L) \in 1..Size(t) /\ Min(L) <= n /\ Stops(t, k, Min(L))
    BY <2>1, <1>3, <1>4
  <2>3. ~ (Min(L) \in 1..n - 1)
    BY <2>2, <1>10 DEF StopsAt
  <2>4. Min(L) = n
    BY <2>2, <2>3
  <2> QED BY <2>1, <2>4, <1>1
<1> QED BY <1>7, <1>8, <1>9, <1>10

(* What is written into a cell.                                            *)
LEMMA PutIs ==
  ASSUME NEW t \in Table, NEW i, NEW k \in Key \cup {Nil}, NEW v \in Val \cup {Nil}
  PROVE  LET u == Put(t, i, k, v) IN
         /\ u \in Table /\ Size(u) = Size(t) /\ Len(u.cells) = Len(t.cells)
         /\ u.hash = t.hash /\ u.shared = t.shared /\ u.uid = t.uid /\ u.array = t.array
         /\ \A j \in 1..Size(t) : u.cells[j] = IF j = i THEN [k |-> k, v |-> v] ELSE t.cells[j]
<1> DEFINE c == [k |-> k, v |-> v]
           cells == [t.cells EXCEPT ![i] = c]
<1>1. c \in Entry
  BY DEF Entry
<1>2. Put(t, i, k, v) = [t EXCEPT !.cells = cells]
  BY DEF Put
<1>3. t.cells \in Seq(Entry) /\ t.hash \in BOOLEAN /\ t.shared \in BOOLEAN /\ t.uid \in Nat /\ t.array \in Nat
  BY DEF Table
<1> HIDE DEF c
<1>4. cells \in Seq(Entry) /\ Len(cells) = Len(t.cells)
      /\ \A j \in 1..Len(t.cells) : cells[j] = IF j = i THEN c ELSE t.cells[j]
  <2> DEFINE l == t.cells
  <2>1. l \in Seq(Entry)
    BY <1>3
  <2> HIDE DEF l
  <2>2. /\ [l EXCEPT ![i] = c] \in Seq(Entry) /\ Len([l EXCEPT ![i] = c]) = Len(l)
        /\ \A j \in 1..Len(l) : [l EXCEPT ![i] = c][j] = IF j = i THEN c ELSE l[j]
    <3>1. l \in [1..Len(l) -> Entry] /\ Len(l) \in Nat
      BY <2>1
    <3>2. [l EXCEPT ![i] = c] \in [1..Len(l) -> Entry]
      BY <3>1, <1>1
    <3>3. [l EXCEPT ![i] = c] \in Seq(Entry) /\ Len([l EXCEPT ![i] = c]) = Len(l)
      BY <3>1, <3>2
    <3> QED BY <3>1, <3>3
  <2> QED BY <2>2 DEF l
<1> HIDE DEF cells
<1> DEFINE u == [t EXCEPT !.cells = cells]
<1>5. u.cells = cells /\ u.hash = t.hash /\ u.shared = t.shared /\ u.uid = t.uid /\ u.array = t.array
  BY DEF Table
<1>6. u \in Table
  BY <1>3, <1>4 DEF Table
<1> HIDE DEF u
<1> QED BY <1>2, <1>4, <1>5, <1>6 DEF Size, u, c

(***************************************************************************)
(* What a table says of a key.                                             *)
(***************************************************************************)
Held(v)    == IF v = Nil THEN Gone ELSE v
Says(t, k) == Content(ToSet(t.cells), k)
HasKey(t, k) == \E j \in 1..Size(t) : t.cells[j].k = k

(* It is in the cell with that key.                                        *)
LEMMA SaysIs ==
  ASSUME NEW t, Fits(t), Finds(t), NEW k \in Key
  PROVE  /\ \A j \in 1..Size(t) : t.cells[j].k = k => Says(t, k) = Held(t.cells[j].v)
         /\ ~ HasKey(t, k) => Says(t, k) = Absent
<1> DEFINE found == {c \in ToSet(t.cells) : c.k = k}
<1>1. /\ t.cells \in Seq(Entry) /\ Size(t) = Len(t.cells) /\ Size(t) \in Nat /\ DOMAIN t.cells = 1..Size(t)
  BY FitsParts
<1>2. k # Nil
  BY SlotAssumption
<1>3. \A c : c \in found <=> \E j \in 1..Size(t) : c = t.cells[j] /\ c.k = k
  BY <1>1 DEF ToSet
<1>4. Says(t, k) = IF found = {} THEN Absent
                   ELSE IF (CHOOSE d \in found : TRUE).v = Nil THEN Gone ELSE (CHOOSE d \in found : TRUE).v
  BY DEF Says, Content
<1> HIDE DEF found
<1>5. ASSUME NEW j \in 1..Size(t), t.cells[j].k = k
      PROVE  Says(t, k) = Held(t.cells[j].v)
  <2>1. \A i \in 1..Size(t) : t.cells[i].k = k => i = At(t, k)
    BY <1>2 DEF Finds
  <2>2. \A c \in found : c = t.cells[j]
    BY <2>1, <1>3, <1>5
  <2>3. t.cells[j] \in found
    BY <1>3, <1>5
  <2>4. (CHOOSE d \in found : TRUE) = t.cells[j]
    BY <2>2, <2>3
  <2> QED BY <2>3, <2>4, <1>4 DEF Held
<1>6. ASSUME ~ HasKey(t, k)
      PROVE  Says(t, k) = Absent
  <2>1. found = {}
    BY <1>3, <1>6 DEF HasKey
  <2> QED BY <2>1, <1>4
<1> QED BY <1>5, <1>6

(* What it can say.                                                        *)
LEMMA SaysType ==
  ASSUME NEW t, Fits(t), Finds(t), NEW k \in Key
  PROVE  Says(t, k) \in Val \cup {Absent, Gone}
<1>1. CASE HasKey(t, k)
  <2>1. PICK j \in 1..Size(t) : t.cells[j].k = k
    BY <1>1 DEF HasKey
  <2>2. t.cells[j].v \in Val \cup {Nil}
    BY FitsParts DEF Entry
  <2> QED BY <2>1, <2>2, SaysIs DEF Held
<1>2. CASE ~ HasKey(t, k)
  BY <1>2, SaysIs
<1> QED BY <1>1, <1>2

(* A key is written where the search for it ends: every search still ends  *)
(* where it did, and only what is said of this key changes.                *)
LEMMA PutFinds ==
  ASSUME NEW t, Fits(t), Finds(t), NEW k \in Key, At(t, k) # 0, NEW v \in Val \cup {Nil}
  PROVE  LET u == Put(t, At(t, k), k, v) IN
         /\ Fits(u) /\ Finds(u) /\ At(u, k) = At(t, k) /\ At(t, k) \in 1..Size(t)
         /\ \A l \in Key : Says(u, l) = IF l = k THEN Held(v) ELSE Says(t, l)
         /\ \A l \in Key : HasKey(u, l) <=> l = k \/ HasKey(t, l)
<1> DEFINE i == At(t, k)
           u == Put(t, i, k, v)
<1>1. i \in 1..Size(t) /\ t.cells[i].k \in {Nil, k} /\ Size(t) \in Nat
  <2>1. i \in 0..Size(t) /\ i # 0 /\ Size(t) \in Nat
    BY AtIs, FitsParts
  <2> QED BY <2>1, AtIs
<1>2. PICK n \in 1..Size(t) : Probe(t, k, n) = i /\ StopsAt(t, k, n)
  BY AtIs
<1>3. k # Nil
  BY SlotAssumption
<1>4. /\ u \in Table /\ Size(u) = Size(t) /\ u.hash = t.hash
      /\ \A j \in 1..Size(t) : u.cells[j] = IF j = i THEN [k |-> k, v |-> v] ELSE t.cells[j]
  <2>1. t \in Table /\ k \in Key \cup {Nil}
    BY DEF Fits
  <2> HIDE DEF i, u
  <2>2. LET w == Put(t, i, k, v) IN
        /\ w \in Table /\ Size(w) = Size(t) /\ w.hash = t.hash
        /\ \A j \in 1..Size(t) : w.cells[j] = IF j = i THEN [k |-> k, v |-> v] ELSE t.cells[j]
    BY <2>1, PutIs
  <2>3. u = Put(t, i, k, v)
    BY DEF u
  <2> QED BY <2>2, <2>3
<1> HIDE DEF i, u
<1>5. Fits(u)
  BY <1>4 DEF Fits
<1>6. \A l, m : Probe(u, l, m) = Probe(t, l, m)
  BY <1>4, Zenon DEF Probe
<1>7. \A l \in Key, m \in 1..Size(t) : Probe(t, l, m) \in 1..Size(t)
  BY ProbeIs
<1>8. \A j \in 1..Size(t) : u.cells[j].k = IF j = i THEN k ELSE t.cells[j].k
  BY <1>4
<1>9. At(u, k) = i
  <2>1. Stops(u, k, n)
    BY <1>1, <1>2, <1>6, <1>8 DEF Stops
  <2>2. ASSUME NEW m \in 1..n - 1
        PROVE  ~ Stops(u, k, m)
    <3>1. ~ Stops(t, k, m) /\ m \in 1..Size(t)
      BY <1>2, <1>1 DEF StopsAt
    <3>2. Probe(t, k, m) # i /\ Probe(t, k, m) \in 1..Size(t)
      BY <3>1, <1>1, <1>7 DEF Stops
    <3> QED BY <3>1, <3>2, <1>6, <1>8 DEF Stops
  <2>3. StopsAt(u, k, n)
    BY <2>1, <2>2 DEF StopsAt
  <2>4. n \in 1..Size(u)
    BY <1>4
  <2> QED BY <2>3, <2>4, <1>2, <1>5, <1>6, AtIs
<1>10. ASSUME NEW j \in 1..Size(u), u.cells[j].k # Nil
       PROVE  At(u, u.cells[j].k) = j
  <2>1. CASE j = i
    BY <2>1, <1>9, <1>8, <1>1
  <2>2. CASE j # i
    <3> DEFINE l == t.cells[j].k
    <3>1. j \in 1..Size(t) /\ u.cells[j].k = l /\ l # Nil
      BY <2>2, <1>4, <1>8, <1>10
    <3>2. l \in Key
      <4>1. t.cells[j] \in Entry
        BY <3>1, FitsParts
      <4> QED BY <4>1, <3>1 DEF Entry
    <3>3. At(t, l) = j
      BY <3>1 DEF Finds
    <3> HIDE DEF l
    <3>4. j # 0
      BY <3>1, <1>1
    <3>5. PICK p \in 1..Size(t) : Probe(t, l, p) = j /\ StopsAt(t, l, p)
      BY <3>2, <3>3, <3>4, AtIs
    <3>6. l # k
      <4>1. l = k => j = i
        BY <3>3 DEF i
      <4> QED BY <4>1, <2>2
    <3>7. Stops(u, l, p)
      BY <3>5, <3>1, <1>6, <1>8, <2>2 DEF Stops
    <3>8. ASSUME NEW m \in 1..p - 1
          PROVE  ~ Stops(u, l, m)
      <4>1. ~ Stops(t, l, m) /\ m \in 1..Size(t)
        BY <3>5, <1>1 DEF StopsAt
      <4>2. Probe(t, l, m) \in 1..Size(t)
        BY <4>1, <3>2, <1>7
      <4> QED BY <4>1, <4>2, <3>6, <1>3, <1>6, <1>8 DEF Stops
    <3>9. StopsAt(u, l, p) /\ p \in 1..Size(u)
      BY <3>7, <3>8, <1>4 DEF StopsAt
    <3> QED BY <3>9, <3>5, <3>1, <3>2, <1>5, <1>6, AtIs
  <2> QED BY <2>1, <2>2
<1>11. Finds(u)
  BY <1>10 DEF Finds
<1>12. ASSUME NEW l \in Key
       PROVE  HasKey(u, l) <=> l = k \/ HasKey(t, l)
  <2>1. ASSUME l = k
        PROVE  HasKey(u, l)
    BY <2>1, <1>1, <1>4, <1>8 DEF HasKey
  <2>2. ASSUME l # k, NEW j \in 1..Size(t)
        PROVE  u.cells[j].k = l <=> t.cells[j].k = l
    <3>1. l # Nil
      BY SlotAssumption
    <3> QED BY <3>1, <2>2, <1>8, <1>1
  <2> QED BY <2>1, <2>2, <1>4 DEF HasKey
<1>13. ASSUME NEW l \in Key
       PROVE  Says(u, l) = IF l = k THEN Held(v) ELSE Says(t, l)
  <2>1. CASE l = k
    <3>1. u.cells[i].k = l /\ u.cells[i].v = v /\ i \in 1..Size(u)
      BY <2>1, <1>1, <1>4
    <3> QED BY <3>1, <2>1, <1>5, <1>11, SaysIs
  <2>2. CASE l # k /\ HasKey(t, l)
    <3>1. PICK j \in 1..Size(t) : t.cells[j].k = l
      BY <2>2 DEF HasKey
    <3>2. j # i /\ l # Nil
      BY <3>1, <2>2, <1>1, SlotAssumption
    <3>3. u.cells[j] = t.cells[j] /\ j \in 1..Size(u)
      BY <3>2, <1>4
    <3>4. Says(u, l) = Held(t.cells[j].v)
      BY <3>1, <3>3, <1>5, <1>11, SaysIs
    <3>5. Says(t, l) = Held(t.cells[j].v)
      BY <3>1, SaysIs
    <3> QED BY <3>4, <3>5, <2>2
  <2>3. CASE l # k /\ ~ HasKey(t, l)
    <3>1. ~ HasKey(u, l)
      BY <2>3, <1>12
    <3>2. Says(u, l) = Absent
      BY <3>1, <1>5, <1>11, SaysIs
    <3>3. Says(t, l) = Absent
      BY <2>3, SaysIs
    <3> QED BY <3>2, <3>3, <2>3
  <2> QED BY <2>1, <2>2, <2>3
<1> QED BY <1>1, <1>5, <1>9, <1>11, <1>12, <1>13 DEF u, i

(***************************************************************************)
(* Growing.                                                                *)
(***************************************************************************)

(* A cell that goes to a larger array.                                     *)
LEMMA RehashIs ==
  ASSUME NEW t, Fits(t), NEW c \in Entry, c.k \in Key, ~ HasKey(t, c.k), HasKey(t, Nil)
  PROVE  Rehash(t, c) = Put(t, At(t, c.k), c.k, c.v) /\ At(t, c.k) # 0
<1> DEFINE k == c.k
           free == {n \in 1..Size(t) : t.cells[Probe(t, k, n)].k = Nil}
           L == {n \in 1..Size(t) : t.cells[Probe(t, k, n)].k \in {Nil, k}}
<1>1. \A n \in 1..Size(t) : Probe(t, k, n) \in 1..Size(t)
  BY ProbeIs
<1>2. free = L
  BY <1>1 DEF HasKey
<1>3. PICK j \in 1..Size(t) : t.cells[j].k = Nil
  BY DEF HasKey
<1>4. At(t, k) # 0
  BY <1>3, AtIs
<1>5. Rehash(t, c) = Put(t, Probe(t, k, Min(free)), k, c.v)
  BY DEF Rehash
<1>6. At(t, k) = IF L = {} THEN 0 ELSE Probe(t, k, Min(L))
  BY DEF At
<1> HIDE DEF free, L, k
<1>7. At(t, k) = Probe(t, k, Min(free))
  BY <1>2, <1>4, <1>6
<1> QED BY <1>4, <1>5, <1>7 DEF k

(* Step by step.                                                           *)
LEMMA RehashedIs ==
  ASSUME NEW cells \in Seq(Entry), NEW new \in Table
  PROVE  LET upto == Rehashed(cells, new) IN
         /\ upto[0] = new
         /\ \A n \in 1..Len(cells) : upto[n] = IF cells[n].k = Nil THEN upto[n - 1] ELSE Rehash(upto[n - 1], cells[n])
         /\ \A n \in 0..Len(cells) : upto[n] \in Table /\ Size(upto[n]) = Size(new)
<1> DEFINE N == Len(cells)
           T == {t \in Table : Size(t) = Size(new)}
           Next1(t, n) == IF n \in 1..N THEN IF cells[n].k = Nil THEN t ELSE Rehash(t, cells[n]) ELSE t
           G == [p \in T \X Nat |-> Next1(p[1], p[2])]
           F(g) == [n \in 0..N |-> IF n = 0 THEN new ELSE IF cells[n].k = Nil THEN g[n - 1] ELSE Rehash(g[n - 1], cells[n])]
<1>1. N \in Nat /\ \A n \in 1..N : cells[n] \in Entry
  OBVIOUS
<1>2. ASSUME NEW t \in T, NEW n \in Nat
      PROVE  G[<<t, n>>] = Next1(t, n) /\ Next1(t, n) \in T
  <2>1. G[<<t, n>>] = Next1(t, n)
    BY DEF G
  <2>2. ASSUME n \in 1..N
        PROVE  Rehash(t, cells[n]) \in T
    <3>1. cells[n].k \in Key \cup {Nil} /\ cells[n].v \in Val \cup {Nil}
      BY <2>2, <1>1 DEF Entry
    <3>2. PICK i : Rehash(t, cells[n]) = Put(t, i, cells[n].k, cells[n].v)
      BY DEF Rehash
    <3> DEFINE k == cells[n].k
               v == cells[n].v
               u == Put(t, i, k, v)
    <3>3. t \in Table /\ Size(t) = Size(new) /\ k \in Key \cup {Nil} /\ v \in Val \cup {Nil}
      BY <3>1
    <3> HIDE DEF k, v
    <3>4. u \in Table /\ Size(u) = Size(t)
      BY <3>3, PutIs
    <3> HIDE DEF u
    <3>5. u \in T
      BY <3>3, <3>4
    <3> QED BY <3>2, <3>5 DEF u, k, v
  <2>3. Next1(t, n) \in T
    BY <2>2
  <2> QED BY <2>1, <2>3
<1> HIDE DEF G, Next1
<1>3. PICK f \in [Nat -> T] : f[0] = new /\ \A n \in Nat : f[n + 1] = G[<<f[n], n + 1>>]
  <2>1. Closed(T, G)
    BY <1>2 DEF Closed
  <2>2. new \in T
    OBVIOUS
  <2> HIDE DEF T
  <2>3. \E f \in [Nat -> T] : Steps(f, new, G)
    BY <2>1, <2>2, Iterates
  <2> QED BY <2>3 DEF Steps
<1> DEFINE e == [n \in 0..N |-> f[n]]
<1>4. ASSUME NEW n \in 1..N
      PROVE  e[n] = IF cells[n].k = Nil THEN e[n - 1] ELSE Rehash(e[n - 1], cells[n])
  <2>1. n - 1 \in Nat /\ n - 1 \in 0..N /\ n \in 0..N /\ n \in Nat /\ (n - 1) + 1 = n
    BY <1>1
  <2>2. f[n] = G[<<f[n - 1], n>>]
    BY <2>1, <1>3
  <2>3. f[n] = Next1(f[n - 1], n)
    BY <2>1, <2>2, <1>2
  <2> QED BY <2>1, <2>3 DEF Next1
<1>5. e = F(e)
  <2>1. e[0] = new
    BY <1>1, <1>3
  <2> HIDE DEF e
  <2>2. ASSUME NEW n \in 0..N
        PROVE  e[n] = IF n = 0 THEN new ELSE IF cells[n].k = Nil THEN e[n - 1] ELSE Rehash(e[n - 1], cells[n])
    <3>1. CASE n = 0
      BY <3>1, <2>1
    <3>2. CASE n # 0
      <4>1. n \in 1..N
        BY <3>2, <1>1
      <4> QED BY <4>1, <3>2, <1>4
    <3> QED BY <3>1, <3>2
  <2> QED BY <2>2 DEF e
<1>6. Rehashed(cells, new) = CHOOSE g : g = F(g)
  BY DEF Rehashed
<1> DEFINE upto == Rehashed(cells, new)
<1>7. upto = F(upto)
  BY <1>5, <1>6
<1> HIDE DEF upto
<1>8. upto[0] = new
  BY <1>1, <1>7
<1>9. ASSUME NEW n \in 1..N
      PROVE  upto[n] = IF cells[n].k = Nil THEN upto[n - 1] ELSE Rehash(upto[n - 1], cells[n])
  <2>1. n \in 0..N /\ n # 0
    BY <1>1
  <2>2. upto[n] = F(upto)[n]
    BY <1>7
  <2> QED BY <2>1, <2>2
<1> DEFINE Bad == {n \in 0..N : upto[n] \notin T}
<1>10. Bad = {}
  <2> SUFFICES ASSUME Bad # {}
               PROVE  FALSE
    OBVIOUS
  <2>1. Bad \subseteq Nat
    OBVIOUS
  <2>2. PICK n \in Bad : \A y \in Bad : n <= y
    BY <2>1, LeastOf
  <2>3. n \in 0..N /\ n # 0
    BY <1>8
  <2>4. n \in 1..N /\ n - 1 \in 0..N /\ n - 1 \in Nat /\ ~ (n <= n - 1) /\ n \in Nat
    BY <2>3, <1>1
  <2>5. upto[n - 1] \in T
    BY <2>2, <2>4
  <2>6. upto[n] = Next1(upto[n - 1], n)
    BY <2>4, <1>9 DEF Next1
  <2>7. upto[n] \in T
    BY <2>4, <2>5, <2>6, <1>2
  <2> QED BY <2>7
<1> QED BY <1>8, <1>9, <1>10 DEF upto

(* What of a table is not in its cells.                                    *)
Mark(t) == <<t.hash, t.shared, t.uid, t.array>>

(* What fills a larger, empty, hashed array with the cells of t.           *)
Spread(t, u, n) ==
  /\ Fits(u) /\ Finds(u)
  /\ \A k \in Key : HasKey(u, k) <=> \E j \in 1..n : t.cells[j].k = k
  /\ \A k \in Key : Says(u, k) = IF \E j \in 1..n : t.cells[j].k = k THEN Says(t, k) ELSE Absent
  /\ Cardinality({j \in 1..Size(u) : u.cells[j].k # Nil}) <= n

LEMMA SpreadStep ==
  ASSUME NEW t, Fits(t), Finds(t), NEW n \in 1..Size(t), NEW u, Spread(t, u, n - 1), Size(t) < Size(u)
  PROVE  LET w == IF t.cells[n].k = Nil THEN u ELSE Rehash(u, t.cells[n]) IN
         Spread(t, w, n) /\ Size(w) = Size(u) /\ Mark(w) = Mark(u)
<1> DEFINE c == t.cells[n]
           used(x) == {j \in 1..Size(x) : x.cells[j].k # Nil}
           Before(k, m) == \E j \in 1..m : t.cells[j].k = k
<1>1. Size(t) \in Nat /\ Size(u) \in Nat /\ n \in Nat /\ c \in Entry /\ Fits(u) /\ Finds(u)
  BY FitsParts DEF Spread
<1>2. ASSUME NEW k
      PROVE  Before(k, n) <=> c.k = k \/ Before(k, n - 1)
  <2>1. \A j \in 1..n : j = n \/ j \in 1..n - 1
    BY <1>1
  <2>2. \A j \in 1..n - 1 : j \in 1..n
    BY <1>1
  <2>3. n \in 1..n
    BY <1>1
  <2> QED BY <2>1, <2>2, <2>3
<1>3. IsFiniteSet(used(u)) /\ Cardinality(used(u)) \in Nat /\ Cardinality(used(u)) <= n - 1
  <2>1. IsFiniteSet(1..Size(u)) /\ used(u) \in SUBSET (1..Size(u))
    BY <1>1, FS_Interval
  <2>2. IsFiniteSet(used(u))
    BY <2>1, FS_Subset
  <2> HIDE DEF used
  <2>3. Cardinality(used(u)) \in Nat
    BY <2>2, FS_CardinalityType
  <2> QED BY <2>2, <2>3 DEF Spread, used
<1>4. CASE c.k = Nil
  <2>1. \A k \in Key : Before(k, n) <=> Before(k, n - 1)
    BY <1>2, <1>4, SlotAssumption
  <2>2. Cardinality(used(u)) <= n
    BY <1>1, <1>3
  <2>3. Spread(t, u, n)
    BY <2>1, <2>2, <1>1 DEF Spread
  <2> QED BY <2>3, <1>4
<1>5. CASE c.k # Nil
  <2> DEFINE k == c.k
             w == Rehash(u, c)
  <2>1. k \in Key /\ c.v \in Val \cup {Nil}
    BY <1>1, <1>5 DEF Entry
  <2>2. ~ HasKey(u, k)
    <3>1. ASSUME NEW j \in 1..n - 1, t.cells[j].k = k
          PROVE  FALSE
      <4>1. j \in 1..Size(t) /\ j # n
        BY <1>1
      <4>2. At(t, k) = j /\ At(t, k) = n
        BY <4>1, <3>1, <1>5 DEF Finds
      <4> QED BY <4>1, <4>2
    <3> QED BY <3>1, <2>1 DEF Spread
  <2>3. HasKey(u, Nil)
    <3> SUFFICES ASSUME ~ HasKey(u, Nil)
                 PROVE  FALSE
      OBVIOUS
    <3>1. used(u) = 1..Size(u)
      BY DEF HasKey
    <3>2. Cardinality(1..Size(u)) = Size(u)
      BY <1>1, FS_Interval
    <3> HIDE DEF used
    <3> QED BY <3>1, <3>2, <1>1, <1>3
  <2>4. w = Put(u, At(u, k), k, c.v) /\ At(u, k) # 0
    BY <1>1, <2>1, <2>2, <2>3, RehashIs
  <2> DEFINE i == At(u, k)
  <2>5. /\ Fits(w) /\ Finds(w) /\ i \in 1..Size(u)
        /\ \A l \in Key : Says(w, l) = IF l = k THEN Held(c.v) ELSE Says(u, l)
        /\ \A l \in Key : HasKey(w, l) <=> l = k \/ HasKey(u, l)
    BY <1>1, <2>1, <2>4, PutFinds
  <2>6. /\ Size(w) = Size(u)
        /\ w.hash = u.hash /\ w.shared = u.shared /\ w.uid = u.uid /\ w.array = u.array
        /\ \A j \in 1..Size(u) : w.cells[j] = IF j = i THEN [k |-> k, v |-> c.v] ELSE u.cells[j]
    <3>1. u \in Table /\ k \in Key \cup {Nil}
      BY <1>1, <2>1 DEF Fits
    <3> HIDE DEF w, i, k
    <3> QED BY <3>1, <2>1, <2>4, PutIs DEF i
  <2>7. Says(t, k) = Held(c.v)
    BY <1>1, <2>1, SaysIs
  <2> HIDE DEF w, i
  <2>8. ASSUME NEW l \in Key
        PROVE  /\ HasKey(w, l) <=> Before(l, n)
               /\ Says(w, l) = IF Before(l, n) THEN Says(t, l) ELSE Absent
    <3>1. HasKey(u, l) <=> Before(l, n - 1)
      BY DEF Spread
    <3>2. Says(u, l) = IF Before(l, n - 1) THEN Says(t, l) ELSE Absent
      BY DEF Spread
    <3>3. Before(l, n) <=> l = k \/ Before(l, n - 1)
      BY <1>2
    <3> HIDE DEF Before, k
    <3>4. CASE l = k
      BY <3>3, <3>4, <2>5, <2>7
    <3>5. CASE l # k
      BY <3>1, <3>2, <3>3, <3>5, <2>5
    <3> QED BY <3>4, <3>5
  <2>9. Cardinality(used(w)) <= n
    <3>1. used(w) \subseteq used(u) \cup {i}
      BY <2>6
    <3> HIDE DEF used
    <3>2. IsFiniteSet(used(u) \cup {i}) /\ Cardinality(used(u) \cup {i}) <= Cardinality(used(u)) + 1
      BY <1>3, FS_AddElement
    <3>3. Cardinality(used(u) \cup {i}) \in Nat
      BY <3>2, FS_CardinalityType
    <3>4. IsFiniteSet(used(w)) /\ Cardinality(used(w)) <= Cardinality(used(u) \cup {i})
      BY <3>1, <3>2, FS_Subset
    <3>5. Cardinality(used(w)) \in Nat
      BY <3>4, FS_CardinalityType
    <3> QED BY <3>2, <3>3, <3>4, <3>5, <1>1, <1>3
  <2>10. Spread(t, w, n)
    BY <2>5, <2>8, <2>9 DEF Spread
  <2>11. Mark(w) = Mark(u)
    BY <2>6 DEF Mark
  <2> QED BY <2>10, <2>11, <2>6, <1>5 DEF w
<1> QED BY <1>4, <1>5

(* An array without any cell in use.                                       *)
Blank(t) == \A i \in 1..Size(t) : t.cells[i].k = Nil

LEMMA CellsAre ==
  ASSUME NEW n \in Nat
  PROVE  /\ Cells(n) \in Seq(Entry) /\ Len(Cells(n)) = n
         /\ \A i \in 1..n : Cells(n)[i] = Empty
<1>1. Empty \in Entry
  BY DEF Empty, Entry
<1>2. Cells(n) = [i \in 1..n |-> Empty]
  BY DEF Cells
<1> QED BY <1>1, <1>2

LEMMA BlankFinds ==
  ASSUME NEW t, Fits(t), Blank(t)
  PROVE  /\ Finds(t)
         /\ \A k \in Key : Says(t, k) = Absent /\ ~ HasKey(t, k)
         /\ {j \in 1..Size(t) : t.cells[j].k # Nil} = {}
<1>1. Finds(t)
  BY DEF Finds, Blank
<1>2. ASSUME NEW k \in Key
      PROVE  ~ HasKey(t, k)
  BY SlotAssumption DEF HasKey, Blank
<1>3. {j \in 1..Size(t) : t.cells[j].k # Nil} = {}
  BY DEF Blank
<1> QED BY <1>1, <1>2, <1>3, SaysIs

LEMMA RehashedFinds ==
  ASSUME NEW t, Fits(t), Finds(t), NEW new, Fits(new), Blank(new), Size(t) < Size(new)
  PROVE  LET w == Rehashed(t.cells, new)[Size(t)] IN
         Spread(t, w, Size(t)) /\ Size(w) = Size(new) /\ Mark(w) = Mark(new)
<1> DEFINE upto == Rehashed(t.cells, new)
           Good(n) == Spread(t, upto[n], n) /\ Size(upto[n]) = Size(new) /\ Mark(upto[n]) = Mark(new)
           Bad == {n \in 0..Size(t) : ~ Good(n)}
<1>1. Size(t) \in Nat /\ t.cells \in Seq(Entry) /\ Size(t) = Len(t.cells) /\ new \in Table
  BY FitsParts DEF Fits
<1>2. /\ upto[0] = new
      /\ \A n \in 1..Size(t) : upto[n] = IF t.cells[n].k = Nil THEN upto[n - 1] ELSE Rehash(upto[n - 1], t.cells[n])
  BY <1>1, RehashedIs
<1> HIDE DEF upto
<1>3. Good(0)
  <2>1. /\ Finds(new) /\ \A k \in Key : Says(new, k) = Absent /\ ~ HasKey(new, k)
        /\ {j \in 1..Size(new) : new.cells[j].k # Nil} = {}
    BY BlankFinds
  <2>2. Cardinality({j \in 1..Size(new) : new.cells[j].k # Nil}) <= 0
    BY <2>1, FS_EmptySet
  <2>3. \A k : ~ \E j \in 1..0 : t.cells[j].k = k
    OBVIOUS
  <2>4. Spread(t, new, 0)
    BY <2>1, <2>2, <2>3 DEF Spread
  <2> QED BY <2>4, <1>2
<1>4. ASSUME NEW n \in 1..Size(t), Good(n - 1)
      PROVE  Good(n)
  <2> DEFINE u == upto[n - 1]
  <2>1. Spread(t, u, n - 1) /\ Size(t) < Size(u)
    BY <1>4
  <2>2. upto[n] = IF t.cells[n].k = Nil THEN u ELSE Rehash(u, t.cells[n])
    BY <1>2
  <2> HIDE DEF u
  <2>3. Spread(t, upto[n], n) /\ Size(upto[n]) = Size(u) /\ Mark(upto[n]) = Mark(u)
    BY <2>1, <2>2, SpreadStep
  <2> QED BY <2>3, <1>4 DEF u
<1>5. Bad = {}
  <2> SUFFICES ASSUME Bad # {}
               PROVE  FALSE
    OBVIOUS
  <2>1. Bad \subseteq Nat
    OBVIOUS
  <2>2. PICK n \in Bad : \A y \in Bad : n <= y
    BY <2>1, LeastOf
  <2>3. n \in 0..Size(t) /\ ~ Good(n)
    OBVIOUS
  <2> HIDE DEF Good
  <2>4. n # 0
    BY <1>3, <2>3
  <2>5. n \in 1..Size(t) /\ n - 1 \in 0..Size(t) /\ ~ (n <= n - 1)
    BY <2>3, <2>4, <1>1
  <2>6. Good(n - 1)
    BY <2>2, <2>5
  <2> QED BY <2>3, <2>5, <2>6, <1>4
<1>6. Good(Size(t))
  <2>1. Size(t) \in 0..Size(t)
    BY <1>1
  <2> HIDE DEF Good
  <2> QED BY <2>1, <1>5
<1> QED BY <1>6 DEF upto

(* A table that grows says what it said, has a number of its own, and has  *)
(* room.                                                                   *)
Grown(t, u, size, n) ==
  /\ Fits(u) /\ Finds(u) /\ Size(u) = size
  /\ u.uid = n + 1 /\ u.array = n + 1 /\ u.shared = t.shared /\ u.hash = (t.hash \/ size >= ToHash)
  /\ \A k \in Key : Says(u, k) = Says(t, k)
  /\ \A k \in Key : HasKey(u, k) <=> HasKey(t, k)
  /\ HasKey(u, Nil)

LEMMA ExpandedFinds ==
  ASSUME NEW t, Fits(t), Finds(t), NEW size \in 1..MaxSize, Size(t) < size, NEW n \in Nat
  PROVE  LET u == Expanded(t, size, n) IN
         /\ Grown(t, u, size, n)
         /\ ~ u.hash => \A k \in Key : At(t, k) = 0 => At(u, k) = Size(t) + 1
<1> DEFINE hash == t.hash \/ size >= ToHash
           new == [[t EXCEPT !.uid = n + 1, !.array = n + 1] EXCEPT !.cells = Cells(size), !.hash = @ \/ size >= ToHash]
           u == Expanded(t, size, n)
<1>1. /\ t \in Table /\ t.cells \in Seq(Entry) /\ Size(t) = Len(t.cells) /\ Size(t) \in Nat /\ size \in Nat
      /\ t.hash \in BOOLEAN /\ t.shared \in BOOLEAN /\ n + 1 \in Nat /\ Size(t) \in 1..MaxSize
  BY FitsParts, SlotAssumption DEF Fits
<1>2. /\ Cells(size) \in Seq(Entry) /\ Len(Cells(size)) = size
      /\ \A i \in 1..size : Cells(size)[i] = Empty
  BY <1>1, CellsAre
<1>3. u = IF new.hash THEN Rehashed(t.cells, new)[Size(t)] ELSE [new EXCEPT !.cells = t.cells \o Cells(size - Size(t))]
  BY DEF Expanded, Moved
<1>4. hash \in BOOLEAN
  OBVIOUS
<1>5. /\ new \in Table /\ new.cells = Cells(size) /\ new.hash = hash /\ new.shared = t.shared
      /\ new.uid = n + 1 /\ new.array = n + 1
  <2> DEFINE m == [t EXCEPT !.uid = n + 1, !.array = n + 1]
  <2>1. /\ m \in Table /\ m.cells = t.cells /\ m.hash = t.hash /\ m.shared = t.shared
        /\ m.uid = n + 1 /\ m.array = n + 1
    BY <1>1 DEF Table
  <2>2. new = [m EXCEPT !.cells = Cells(size), !.hash = @ \/ size >= ToHash]
    BY DEF new
  <2> HIDE DEF m
  <2>3. new = [m EXCEPT !.cells = Cells(size), !.hash = hash]
    BY <2>1, <2>2
  <2> HIDE DEF hash
  <2> QED BY <2>1, <2>3, <1>2, <1>4 DEF Table
<1>6. /\ new \in Table /\ new.cells = Cells(size) /\ new.hash = hash /\ new.shared = t.shared
      /\ new.uid = n + 1 /\ new.array = n + 1
  BY <1>5
<1> HIDE DEF hash
<1>7. CASE hash
  <2>1. Fits(new) /\ Size(new) = size
    BY <1>2, <1>6 DEF Fits, Size
  <2>2. Blank(new)
    BY <1>2, <1>6, <2>1 DEF Blank, Empty
  <2>3. Spread(t, u, Size(t)) /\ Size(u) = size /\ Mark(u) = Mark(new)
    <3>1. u = Rehashed(t.cells, new)[Size(t)]
      BY <1>3, <1>6, <1>7
    <3>2. Size(t) < Size(new)
      BY <2>1
    <3> QED BY <2>1, <2>2, <3>1, <3>2, RehashedFinds
  <2>4. u.hash = hash /\ u.shared = t.shared /\ u.uid = n + 1 /\ u.array = n + 1
    BY <2>3, <1>6 DEF Mark
  <2>5. /\ Fits(u) /\ Finds(u)
        /\ \A k \in Key : HasKey(u, k) <=> HasKey(t, k)
    BY <2>3 DEF Spread, HasKey
  <2>6. ASSUME NEW k \in Key
        PROVE  Says(u, k) = Says(t, k)
    <3>1. Says(u, k) = IF HasKey(t, k) THEN Says(t, k) ELSE Absent
      BY <2>3 DEF Spread, HasKey
    <3> QED BY <3>1, SaysIs
  <2>7. HasKey(u, Nil)
    <3> DEFINE used == {j \in 1..Size(u) : u.cells[j].k # Nil}
    <3>1. Cardinality(used) <= Size(t)
      BY <2>3 DEF Spread
    <3>2. Cardinality(1..size) = size
      BY <1>1, FS_Interval
    <3>3. used # 1..size
      <4> HIDE DEF used
      <4>1. ~ (size <= Size(t))
        BY <1>1
      <4> QED BY <3>1, <3>2, <4>1
    <3> QED BY <3>3, <2>3 DEF HasKey
  <2> QED BY <2>3, <2>4, <2>5, <2>6, <2>7, <1>7 DEF Grown, hash, u
<1>8. CASE ~ hash
  <2> DEFINE more == Cells(size - Size(t))
             cells == t.cells \o more
  <2>1. size - Size(t) \in Nat /\ size - Size(t) # 0
    BY <1>1
  <2>2. more \in Seq(Entry) /\ Len(more) = size - Size(t) /\ \A i \in 1..size - Size(t) : more[i] = Empty
    BY <2>1, CellsAre
  <2> HIDE DEF more
  <2>3. /\ cells \in Seq(Entry) /\ Len(cells) = size
        /\ \A i \in 1..Size(t) : cells[i] = t.cells[i]
        /\ \A i \in Size(t) + 1..size : cells[i] = Empty
    <3>1. cells \in Seq(Entry) /\ Len(cells) = size
      BY <2>1, <2>2, <1>1
    <3>2. \A i \in 1..Size(t) : cells[i] = t.cells[i]
      BY <2>1, <2>2, <1>1
    <3>3. ASSUME NEW i \in Size(t) + 1..size
          PROVE  cells[i] = Empty
      <4>1. i - Size(t) \in 1..size - Size(t) /\ i \in 1..size /\ ~ (i <= Len(t.cells))
        BY <1>1
      <4>2. cells[i] = more[i - Size(t)]
        BY <4>1, <2>1, <2>2, <1>1
      <4> QED BY <4>1, <4>2, <2>2
    <3> QED BY <3>1, <3>2, <3>3
  <2> HIDE DEF cells
  <2>4. u = [new EXCEPT !.cells = cells]
    BY <1>3, <1>6, <1>8 DEF cells, more
  <2>5. /\ u \in Table /\ u.cells = cells /\ u.hash = FALSE /\ u.shared = t.shared /\ u.uid = n + 1 /\ u.array = n + 1
    BY <2>3, <2>4, <1>4, <1>6, <1>8, <1>1 DEF Table
  <2>6. Size(u) = size /\ Fits(u)
    BY <2>3, <2>5 DEF Size, Fits
  <2>7. \A k, m : Probe(u, k, m) = m /\ Probe(t, k, m) = m
    BY <1>8, <2>5 DEF Probe, hash
  <2>8. ASSUME NEW k \in Key, NEW m \in 1..Size(t), StopsAt(t, k, m)
        PROVE  At(u, k) = m
    <3>1. StopsAt(u, k, m)
      <4>1. \A j \in 1..m : j \in 1..Size(t)
        BY <1>1
      <4>2. \A j \in 1..m : Stops(u, k, j) <=> Stops(t, k, j)
        BY <4>1, <2>3, <2>5, <2>7 DEF Stops
      <4>3. m \in 1..m /\ \A j \in 1..m - 1 : j \in 1..m
        BY <1>1
      <4> QED BY <4>2, <4>3, <2>8 DEF StopsAt
    <3>2. m \in 1..Size(u)
      BY <1>1, <2>6
    <3> QED BY <3>1, <3>2, <2>6, <2>7, AtIs
  <2>9. ASSUME NEW k \in Key
        PROVE  HasKey(u, k) <=> HasKey(t, k)
    <3>1. Nil # k
      BY SlotAssumption
    <3>2. \A j \in 1..size : j \in 1..Size(t) \/ j \in Size(t) + 1..size
      BY <1>1
    <3>3. \A j \in 1..Size(t) : j \in 1..size
      BY <1>1
    <3> QED BY <3>1, <3>2, <3>3, <2>3, <2>5, <2>6 DEF HasKey, Empty
  <2>10. Finds(u)
    <3>1. ASSUME NEW j \in 1..Size(u), u.cells[j].k # Nil
          PROVE  At(u, u.cells[j].k) = j
      <4> DEFINE k == u.cells[j].k
      <4>1. j \in 1..Size(t)
        <5>1. j \in 1..Size(t) \/ j \in Size(t) + 1..size
          BY <2>6, <1>1
        <5> QED BY <5>1, <3>1, <2>3, <2>5 DEF Empty
      <4>2. k = t.cells[j].k /\ t.cells[j] \in Entry
        BY <4>1, <2>3, <2>5, FitsParts
      <4>3. k \in Key
        BY <4>2, <3>1 DEF Entry
      <4>4. At(t, k) = j
        BY <4>1, <4>2, <3>1 DEF Finds
      <4>5. j # 0
        BY <4>1
      <4> HIDE DEF k
      <4>6. PICK m \in 1..Size(t) : Probe(t, k, m) = j /\ StopsAt(t, k, m)
        BY <4>3, <4>4, <4>5, AtIs
      <4> QED BY <4>3, <4>6, <2>7, <2>8 DEF k
    <3> QED BY <3>1 DEF Finds
  <2>11. ASSUME NEW k \in Key
         PROVE  Says(u, k) = Says(t, k)
    <3>1. CASE HasKey(t, k)
      <4>1. PICK j \in 1..Size(t) : t.cells[j].k = k
        BY <3>1 DEF HasKey
      <4>2. u.cells[j] = t.cells[j] /\ j \in 1..Size(u)
        BY <2>3, <2>5, <2>6, <1>1
      <4>3. Says(u, k) = Held(t.cells[j].v)
        BY <4>1, <4>2, <2>6, <2>10, SaysIs
      <4> QED BY <4>1, <4>3, SaysIs
    <3>2. CASE ~ HasKey(t, k)
      BY <3>2, <2>6, <2>9, <2>10, SaysIs
    <3> QED BY <3>1, <3>2
  <2>12. Size(t) + 1 \in 1..size /\ u.cells[Size(t) + 1].k = Nil
    BY <1>1, <2>3, <2>5 DEF Empty
  <2>13. HasKey(u, Nil)
    BY <2>12, <2>6 DEF HasKey
  <2>14. ASSUME NEW k \in Key, At(t, k) = 0
         PROVE  At(u, k) = Size(t) + 1
    <3>1. \A i \in 1..Size(t) : t.cells[i].k \notin {Nil, k}
      BY <2>14, AtIs
    <3>2. \A m \in 1..Size(t) + 1 - 1 : m \in 1..Size(t)
      BY <1>1
    <3>3. Stops(u, k, Size(t) + 1)
      BY <2>7, <2>12 DEF Stops
    <3>4. \A m \in 1..Size(t) : ~ Stops(u, k, m)
      BY <3>1, <2>3, <2>5, <2>7 DEF Stops
    <3>0. (Size(t) + 1) - 1 = Size(t)
      BY <1>1
    <3>5. StopsAt(u, k, Size(t) + 1)
      BY <3>0, <3>2, <3>3, <3>4 DEF StopsAt
    <3> QED BY <3>5, <2>6, <2>7, <2>12, AtIs
  <2>15. Grown(t, u, size, n)
    BY <2>5, <2>6, <2>9, <2>10, <2>11, <2>13, <1>8 DEF Grown, hash
  <2> QED BY <2>14, <2>15 DEF u
<1> QED BY <1>7, <1>8

(***************************************************************************)
(* Writing.                                                                *)
(***************************************************************************)

(* The shape of what grows and of what is written, for any table.          *)
LEMMA ExpandedType ==
  ASSUME NEW t \in Table, NEW size \in Nat, Size(t) <= size, NEW n \in Nat
  PROVE  Expanded(t, size, n) \in Table /\ Size(Expanded(t, size, n)) = size
<1> DEFINE hash == t.hash \/ size >= ToHash
           new == [[t EXCEPT !.uid = n + 1, !.array = n + 1] EXCEPT !.cells = Cells(size), !.hash = @ \/ size >= ToHash]
           u == Expanded(t, size, n)
<1>1. /\ t.cells \in Seq(Entry) /\ Size(t) = Len(t.cells) /\ Size(t) \in Nat /\ size - Size(t) \in Nat
      /\ t.hash \in BOOLEAN /\ t.shared \in BOOLEAN /\ n + 1 \in Nat
  <2>1. t.cells \in Seq(Entry) /\ t.hash \in BOOLEAN /\ t.shared \in BOOLEAN /\ n + 1 \in Nat
    BY DEF Table
  <2>2. Len(t.cells) \in Nat
    BY <2>1
  <2> QED BY <2>1, <2>2 DEF Size
<1>2. Cells(size) \in Seq(Entry) /\ Len(Cells(size)) = size
  BY CellsAre
<1>3. u = IF new.hash THEN Rehashed(t.cells, new)[Size(t)] ELSE [new EXCEPT !.cells = t.cells \o Cells(size - Size(t))]
  BY DEF Expanded, Moved
<1> HIDE DEF new, u
<1>4. hash \in BOOLEAN
  OBVIOUS
<1>5. new \in Table /\ new.cells = Cells(size) /\ new.hash = hash
  <2> DEFINE m == [t EXCEPT !.uid = n + 1, !.array = n + 1]
  <2>1. m \in Table /\ m.hash = t.hash
    BY <1>1 DEF Table
  <2>2. new = [m EXCEPT !.cells = Cells(size), !.hash = @ \/ size >= ToHash]
    BY DEF new
  <2> HIDE DEF m
  <2>3. new = [m EXCEPT !.cells = Cells(size), !.hash = hash]
    BY <2>1, <2>2
  <2> HIDE DEF hash
  <2> QED BY <2>1, <2>3, <1>2, <1>4 DEF Table
<1> HIDE DEF hash
<1>6. CASE hash
  <2>1. Size(t) \in 0..Len(t.cells)
    BY <1>1
  <2>2. Rehashed(t.cells, new)[Size(t)] \in Table /\ Size(Rehashed(t.cells, new)[Size(t)]) = Size(new)
    BY <2>1, <1>1, <1>5, RehashedIs
  <2>3. Size(new) = size
    BY <1>2, <1>5 DEF Size
  <2> QED BY <2>2, <2>3, <1>3, <1>5, <1>6 DEF u
<1>7. CASE ~ hash
  <2> DEFINE more == Cells(size - Size(t))
             cells == t.cells \o more
  <2>1. more \in Seq(Entry) /\ Len(more) = size - Size(t)
    BY <1>1, CellsAre
  <2> HIDE DEF more
  <2>2. cells \in Seq(Entry) /\ Len(cells) = size
    BY <2>1, <1>1
  <2> HIDE DEF cells
  <2>3. u = [new EXCEPT !.cells = cells]
    BY <1>3, <1>5, <1>7 DEF cells, more
  <2>4. u \in Table /\ u.cells = cells
    BY <2>2, <2>3, <1>5 DEF Table
  <2> QED BY <2>2, <2>4 DEF Size, u
<1> QED BY <1>6, <1>7

LEMMA WrittenType ==
  ASSUME NEW t \in Table, NEW k \in Key, NEW v \in Val \cup {Nil}, NEW n \in Nat
  PROVE  /\ Assigned(t, k, v, n) \in Table /\ Size(t) <= Size(Assigned(t, k, v, n))
         /\ Filled(t, k, v, n) \in Table /\ Size(t) <= Size(Filled(t, k, v, n))
         /\ Size(t) \in Nat /\ Size(Assigned(t, k, v, n)) \in Nat /\ Size(Filled(t, k, v, n)) \in Nat
<1> DEFINE big == Expanded(t, 2 * Size(t), n)
<1>1. \A u \in Table : Size(u) \in Nat
  <2>1. ASSUME NEW u \in Table
        PROVE  Size(u) \in Nat
    <3>1. u.cells \in Seq(Entry)
      BY DEF Table
    <3> QED BY <3>1 DEF Size
  <2> QED BY <2>1
<1>2. Size(t) \in Nat /\ 2 * Size(t) \in Nat /\ Size(t) <= 2 * Size(t) /\ Size(t) <= Size(t)
  BY <1>1
<1>3. big \in Table /\ Size(t) <= Size(big)
  BY <1>2, ExpandedType
<1>4. \A i : /\ Put(t, i, k, v) \in Table /\ Size(Put(t, i, k, v)) = Size(t)
             /\ Put(big, i, k, v) \in Table /\ Size(Put(big, i, k, v)) = Size(big)
  BY <1>3, PutIs
<1>5. \/ Assigned(t, k, v, n) = t
      \/ Assigned(t, k, v, n) = big
      \/ \E i : Assigned(t, k, v, n) = Put(t, i, k, v)
      \/ \E i : Assigned(t, k, v, n) = Put(big, i, k, v)
  BY Zenon DEF Assigned
<1>6. \/ Filled(t, k, v, n) = t
      \/ \E i : Filled(t, k, v, n) = Put(t, i, k, v)
      \/ \E i : Filled(t, k, v, n) = Put(big, i, k, v)
  BY Zenon DEF Filled
<1> HIDE DEF big
<1>7. Assigned(t, k, v, n) \in Table /\ Size(t) <= Size(Assigned(t, k, v, n))
  BY <1>2, <1>3, <1>4, <1>5
<1>8. Filled(t, k, v, n) \in Table /\ Size(t) <= Size(Filled(t, k, v, n))
  BY <1>2, <1>3, <1>4, <1>6
<1> QED BY <1>1, <1>7, <1>8

(* A slot that never was is not one that was deleted.                      *)
LEMMA AbsentGone == Absent # Gone
<1> SUFFICES ASSUME Absent = Gone
             PROVE  FALSE
  OBVIOUS
<1>1. Cardinality({Gone, Nil}) = 3
  BY SlotAssumption
<1>2. IsFiniteSet({Gone}) /\ Cardinality({Gone}) = 1
  BY FS_Singleton
<1>3. {Gone} \cup {Nil} = {Gone, Nil}
  OBVIOUS
<1>4. Cardinality({Gone} \cup {Nil}) \in {1, 2}
  BY <1>2, FS_AddElement
<1> QED BY <1>1, <1>3, <1>4

(* No key is there that a search does not find.                            *)
LEMMA AbsentIs ==
  ASSUME NEW t, Fits(t), Finds(t), NEW k \in Key
  PROVE  /\ Says(t, k) = Absent <=> ~ HasKey(t, k)
         /\ At(t, k) = 0 => ~ HasKey(t, k)
         /\ At(t, k) # 0 => (HasKey(t, k) <=> t.cells[At(t, k)].k = k)
         /\ HasKey(t, Nil) => At(t, k) # 0
<1>1. Size(t) \in Nat /\ At(t, k) \in 0..Size(t) /\ k # Nil
  BY AtIs, FitsParts, SlotAssumption
<1>2. ASSUME HasKey(t, k)
      PROVE  Says(t, k) # Absent /\ t.cells[At(t, k)].k = k
  <2>1. PICK j \in 1..Size(t) : t.cells[j].k = k
    BY <1>2 DEF HasKey
  <2>2. t.cells[j].v \in Val \cup {Nil}
    BY FitsParts DEF Entry
  <2>3. Absent # Gone
    BY AbsentGone
  <2>4. Says(t, k) # Absent
    BY <2>1, <2>2, <2>3, SaysIs, SlotAssumption DEF Held
  <2>5. At(t, k) = j
    BY <2>1, <1>1 DEF Finds
  <2> QED BY <2>1, <2>4, <2>5
<1>3. ~ HasKey(t, k) => Says(t, k) = Absent
  BY SaysIs
<1>4. At(t, k) = 0 => ~ HasKey(t, k) /\ ~ HasKey(t, Nil)
  BY AtIs DEF HasKey
<1>5. At(t, k) # 0 => (t.cells[At(t, k)].k = k => HasKey(t, k))
  BY <1>1 DEF HasKey
<1> QED BY <1>2, <1>3, <1>4, <1>5

(* What a write leaves of the array: it, with the keys where they were, or *)
(* one with a number of its own.                                           *)
Keeps(t, u, n) ==
  /\ Fits(u) /\ Finds(u) /\ u.shared = t.shared
  /\ \/ /\ u.uid = t.uid /\ u.array = t.array /\ Size(u) = Size(t)
        /\ \A j \in 1..Size(t) : t.cells[j].k # Nil => u.cells[j].k = t.cells[j].k
     \/ u.uid = n + 1 /\ u.array = n + 1

(* A full table grows, and the key goes where the search ends then.        *)
LEMMA GrowAndPut ==
  ASSUME NEW t, Fits(t), Finds(t), NEW k \in Key, NEW v \in Val \cup {Nil}, NEW n \in Nat,
         At(t, k) = 0, 2 * Size(t) <= MaxSize
  PROVE  LET big == Expanded(t, 2 * Size(t), n)
             i   == IF big.hash THEN At(big, k) ELSE Size(t) + 1
             u   == Put(big, i, k, v)
         IN /\ Keeps(t, u, n) /\ Keeps(t, big, n)
            /\ \A l \in Key : Says(big, l) = Says(t, l)
            /\ \A l \in Key : Says(u, l) = IF l = k THEN Held(v) ELSE Says(t, l)
            /\ At(u, k) \in 1..Size(u) /\ u.cells[At(u, k)].k = k
<1> DEFINE size == 2 * Size(t)
           big == Expanded(t, size, n)
           i   == IF big.hash THEN At(big, k) ELSE Size(t) + 1
           u   == Put(big, i, k, v)
<1>1. Size(t) \in Nat /\ size \in 1..MaxSize /\ Size(t) < size
  BY FitsParts, SlotAssumption
<1> HIDE DEF size
<1>2. Grown(t, big, size, n) /\ (~ big.hash => At(big, k) = Size(t) + 1)
  BY <1>1, ExpandedFinds
<1> HIDE DEF big
<1>3. i = At(big, k)
  BY <1>2
<1>4. Fits(big) /\ Finds(big) /\ At(big, k) # 0
  BY <1>2, AbsentIs DEF Grown
<1> HIDE DEF i
<1>5. /\ Fits(u) /\ Finds(u) /\ At(u, k) = i /\ i \in 1..Size(big)
      /\ \A l \in Key : Says(u, l) = IF l = k THEN Held(v) ELSE Says(big, l)
  BY <1>3, <1>4, PutFinds
<1>6. /\ u.shared = big.shared /\ u.uid = big.uid /\ u.array = big.array /\ Size(u) = Size(big)
      /\ \A j \in 1..Size(big) : u.cells[j] = IF j = i THEN [k |-> k, v |-> v] ELSE big.cells[j]
  <2>1. big \in Table /\ k \in Key \cup {Nil}
    BY <1>4 DEF Fits
  <2> QED BY <2>1, PutIs
<1> HIDE DEF u
<1>7. Keeps(t, u, n) /\ Keeps(t, big, n)
  BY <1>2, <1>5, <1>6 DEF Keeps, Grown
<1>8. \A l \in Key : Says(big, l) = Says(t, l)
  BY <1>2 DEF Grown
<1>9. u.cells[i].k = k
  BY <1>5, <1>6
<1> QED BY <1>5, <1>6, <1>7, <1>8, <1>9 DEF u, i, big, size

(* What is written into the array as it is.                                *)
LEMMA PutKeeps ==
  ASSUME NEW t, Fits(t), Finds(t), NEW k \in Key, At(t, k) # 0, NEW v \in Val \cup {Nil}, NEW n
  PROVE  LET u == Put(t, At(t, k), k, v) IN
         /\ Keeps(t, u, n)
         /\ At(u, k) \in 1..Size(u) /\ u.cells[At(u, k)].k = k
<1> DEFINE i == At(t, k)
           u == Put(t, i, k, v)
<1>1. Fits(u) /\ Finds(u) /\ At(u, k) = i /\ i \in 1..Size(t)
  BY PutFinds
<1>2. t.cells[i].k \in {Nil, k}
  BY AtIs
<1>3. /\ u.shared = t.shared /\ u.uid = t.uid /\ u.array = t.array /\ Size(u) = Size(t)
      /\ \A j \in 1..Size(t) : u.cells[j] = IF j = i THEN [k |-> k, v |-> v] ELSE t.cells[j]
  <2>1. t \in Table /\ k \in Key \cup {Nil}
    BY DEF Fits
  <2> HIDE DEF i
  <2> QED BY <2>1, PutIs
<1> HIDE DEF u, i
<1>4. Keeps(t, u, n)
  BY <1>1, <1>2, <1>3 DEF Keeps
<1> QED BY <1>1, <1>3, <1>4 DEF u, i

(* ivm_slot_table_setSlot: afterwards the table says v of the key, or that *)
(* it was deleted, or still nothing; of others what it said.               *)
LEMMA AssignedIs ==
  ASSUME NEW t, Fits(t), Finds(t), NEW k \in Key, NEW v \in Val \cup {Nil}, NEW n \in Nat,
         Size(Assigned(t, k, v, n)) <= MaxSize
  PROVE  LET u == Assigned(t, k, v, n) IN
         /\ Keeps(t, u, n)
         /\ \A l \in Key \ {k} : Says(u, l) = Says(t, l)
         /\ v # Nil => Says(u, k) = v /\ At(u, k) \in 1..Size(u) /\ u.cells[At(u, k)].k = k
         /\ v = Nil => Says(u, k) = Gone \/ (Says(u, k) = Absent /\ Says(t, k) = Absent)
<1> DEFINE u == Assigned(t, k, v, n)
           big == Expanded(t, 2 * Size(t), n)
           i == At(t, k)
           j == IF big.hash THEN At(big, k) ELSE Size(t) + 1
<1>1. u = IF i # 0 THEN IF t.cells[i].k = k \/ v # Nil THEN Put(t, i, k, v) ELSE t
          ELSE IF t.hash /\ v = Nil THEN t
          ELSE IF big.hash /\ v = Nil THEN big ELSE Put(big, j, k, v)
  BY Zenon DEF Assigned
<1>2. Keeps(t, t, n)
  BY DEF Keeps
<1>3. v # Nil => Held(v) = v
  BY DEF Held
<1>4. v = Nil => Held(v) = Gone
  BY DEF Held
<1>5. Size(t) \in Nat /\ 2 * Size(t) \in Nat /\ Size(t) <= 2 * Size(t) /\ t \in Table /\ k \in Key \cup {Nil}
  BY FitsParts DEF Fits
<1>6. big \in Table /\ Size(big) = 2 * Size(t)
  BY <1>5, ExpandedType
<1> HIDE DEF u, big, i, j
<1>7. Size(Put(big, j, k, v)) = Size(big)
  BY <1>5, <1>6, PutIs
<1>8. Size(u) <= MaxSize
  BY DEF u
<1>9. CASE i # 0 /\ (t.cells[i].k = k \/ v # Nil)
  <2>1. u = Put(t, i, k, v)
    BY <1>1, <1>9
  <2>2. /\ Keeps(t, u, n) /\ At(u, k) \in 1..Size(u) /\ u.cells[At(u, k)].k = k
        /\ \A l \in Key : Says(u, l) = IF l = k THEN Held(v) ELSE Says(t, l)
    BY <2>1, <1>9, PutKeeps, PutFinds DEF i
  <2> QED BY <2>2, <1>3, <1>4 DEF u
<1>10. CASE i # 0 /\ t.cells[i].k # k /\ v = Nil
  <2>1. u = t
    BY <1>1, <1>10
  <2>2. Says(t, k) = Absent
    BY <1>10, AbsentIs DEF i
  <2> QED BY <2>1, <2>2, <1>2, <1>10 DEF u
<1>11. CASE i = 0 /\ t.hash /\ v = Nil
  <2>1. u = t
    BY <1>1, <1>11
  <2>2. Says(t, k) = Absent
    BY <1>11, AbsentIs DEF i
  <2> QED BY <2>1, <2>2, <1>2, <1>11 DEF u
<1>12. CASE i = 0 /\ ~ (t.hash /\ v = Nil)
  <2>1. u = IF big.hash /\ v = Nil THEN big ELSE Put(big, j, k, v)
    BY <1>1, <1>12
  <2>2. 2 * Size(t) <= MaxSize
    BY <2>1, <1>6, <1>7, <1>8
  <2>3. LET w == Put(big, j, k, v) IN
        /\ Keeps(t, w, n) /\ Keeps(t, big, n)
        /\ \A l \in Key : Says(big, l) = Says(t, l)
        /\ \A l \in Key : Says(w, l) = IF l = k THEN Held(v) ELSE Says(t, l)
        /\ At(w, k) \in 1..Size(w) /\ w.cells[At(w, k)].k = k
    BY <2>2, <1>12, GrowAndPut DEF i, j, big
  <2>4. Says(t, k) = Absent
    BY <1>12, AbsentIs DEF i
  <2>5. CASE big.hash /\ v = Nil
    BY <2>1, <2>3, <2>4, <2>5 DEF u
  <2>6. CASE ~ (big.hash /\ v = Nil)
    <3>1. u = Put(big, j, k, v)
      BY <2>1, <2>6
    <3> QED BY <3>1, <2>3, <1>3, <1>4 DEF u
  <2> QED BY <2>5, <2>6
<1> QED BY <1>9, <1>10, <1>11, <1>12

(* ivm_slot_table_setEmptySlot: what was there stays.                      *)
LEMMA FilledIs ==
  ASSUME NEW t, Fits(t), Finds(t), NEW k \in Key, NEW v \in Val \cup {Nil}, NEW n \in Nat,
         Size(Filled(t, k, v, n)) <= MaxSize
  PROVE  LET u == Filled(t, k, v, n) IN
         /\ Keeps(t, u, n)
         /\ \A l \in Key : Says(u, l) = IF l = k /\ Says(t, k) = Absent THEN Held(v) ELSE Says(t, l)
<1> DEFINE u == Filled(t, k, v, n)
           big == Expanded(t, 2 * Size(t), n)
           i == At(t, k)
           j == IF big.hash THEN At(big, k) ELSE Size(t) + 1
<1>1. u = IF i # 0 THEN IF t.cells[i].k = k THEN t ELSE Put(t, i, k, v) ELSE Put(big, j, k, v)
  BY Zenon DEF Filled
<1>2. Keeps(t, t, n)
  BY DEF Keeps
<1>3. Size(t) \in Nat /\ 2 * Size(t) \in Nat /\ Size(t) <= 2 * Size(t) /\ t \in Table /\ k \in Key \cup {Nil}
  BY FitsParts DEF Fits
<1>4. big \in Table /\ Size(big) = 2 * Size(t)
  BY <1>3, ExpandedType
<1> HIDE DEF u, big, i, j
<1>5. Size(Put(big, j, k, v)) = Size(big)
  BY <1>3, <1>4, PutIs
<1>6. Size(u) <= MaxSize
  BY DEF u
<1>7. CASE i # 0 /\ t.cells[i].k = k
  <2>1. u = t
    BY <1>1, <1>7
  <2>2. Says(t, k) # Absent
    BY <1>7, AbsentIs DEF i
  <2> QED BY <2>1, <2>2, <1>2 DEF u
<1>8. CASE i # 0 /\ t.cells[i].k # k
  <2>1. u = Put(t, i, k, v)
    BY <1>1, <1>8
  <2>2. Says(t, k) = Absent
    BY <1>8, AbsentIs DEF i
  <2>3. /\ Keeps(t, u, n)
        /\ \A l \in Key : Says(u, l) = IF l = k THEN Held(v) ELSE Says(t, l)
    BY <2>1, <1>8, PutKeeps, PutFinds DEF i
  <2> QED BY <2>2, <2>3 DEF u
<1>9. CASE i = 0
  <2>1. u = Put(big, j, k, v)
    BY <1>1, <1>9
  <2>2. 2 * Size(t) <= MaxSize
    BY <2>1, <1>4, <1>5, <1>6
  <2>3. LET w == Put(big, j, k, v) IN
        /\ Keeps(t, w, n)
        /\ \A l \in Key : Says(w, l) = IF l = k THEN Held(v) ELSE Says(t, l)
    BY <2>2, <1>9, GrowAndPut DEF i, j, big
  <2>4. Says(t, k) = Absent
    BY <1>9, AbsentIs DEF i
  <2> QED BY <2>1, <2>3, <2>4 DEF u
<1> QED BY <1>7, <1>8, <1>9

(***************************************************************************)
(* Merging.                                                                *)
(***************************************************************************)
Taken(u, c, overwrite) == IF overwrite THEN Assigned(u, c.k, c.v, u.uid) ELSE Filled(u, c.k, c.v, u.uid)

(* Cell by cell; a table never shrinks.                                    *)
LEMMA TakenType ==
  ASSUME NEW u \in Table, NEW c \in Entry, c.k # Nil, NEW overwrite
  PROVE  /\ Taken(u, c, overwrite) \in Table /\ Size(u) <= Size(Taken(u, c, overwrite))
         /\ Size(u) \in Nat /\ Size(Taken(u, c, overwrite)) \in Nat
<1> DEFINE k == c.k
           v == c.v
           n == u.uid
<1>1. k \in Key /\ v \in Val \cup {Nil} /\ n \in Nat
  BY DEF Entry, Table
<1>2. Taken(u, c, overwrite) = IF overwrite THEN Assigned(u, k, v, n) ELSE Filled(u, k, v, n)
  BY Zenon DEF Taken
<1> HIDE DEF k, v, n
<1>3. /\ Assigned(u, k, v, n) \in Table /\ Size(u) <= Size(Assigned(u, k, v, n))
      /\ Filled(u, k, v, n) \in Table /\ Size(u) <= Size(Filled(u, k, v, n))
      /\ Size(u) \in Nat /\ Size(Assigned(u, k, v, n)) \in Nat /\ Size(Filled(u, k, v, n)) \in Nat
  BY <1>1, WrittenType
<1>4. CASE overwrite
  BY <1>2, <1>3, <1>4
<1>5. CASE ~ overwrite
  BY <1>2, <1>3, <1>5
<1> QED BY <1>4, <1>5

LEMMA MergingIs ==
  ASSUME NEW t, NEW other \in Table, NEW overwrite, NEW first \in Table,
         first = ExpandedTo(t, Size(t) + Size(other), Given(t))
  PROVE  LET upto == Merging(t, other, overwrite) IN
         /\ upto[0] = first
         /\ \A n \in 1..Size(other) :
              upto[n] = IF other.cells[n].k = Nil THEN upto[n - 1] ELSE Taken(upto[n - 1], other.cells[n], overwrite)
<1> DEFINE N == Size(other)
           cells == other.cells
           Next1(u, n) == IF n \in 1..N THEN IF cells[n].k = Nil THEN u ELSE Taken(u, cells[n], overwrite) ELSE u
           G == [p \in Table \X Nat |-> Next1(p[1], p[2])]
           F(g) == [n \in 0..N |-> IF n = 0 THEN first ELSE IF cells[n].k = Nil THEN g[n - 1] ELSE Taken(g[n - 1], cells[n], overwrite)]
<1>1. N \in Nat /\ \A n \in 1..N : cells[n] \in Entry
  BY DEF Table, Size
<1>2. ASSUME NEW u \in Table, NEW n \in Nat
      PROVE  G[<<u, n>>] = Next1(u, n) /\ Next1(u, n) \in Table
  <2>1. G[<<u, n>>] = Next1(u, n)
    BY DEF G
  <2>2. ASSUME n \in 1..N, cells[n].k # Nil
        PROVE  Taken(u, cells[n], overwrite) \in Table
    <3> DEFINE c == cells[n]
    <3>1. c \in Entry /\ c.k # Nil
      BY <2>2, <1>1
    <3> HIDE DEF c
    <3>2. Taken(u, c, overwrite) \in Table
      BY <3>1, TakenType
    <3> QED BY <3>2 DEF c
  <2>3. Next1(u, n) \in Table
    BY <2>2
  <2> QED BY <2>1, <2>3
<1>11. Merging(t, other, overwrite) = CHOOSE g : g = F(g)
  BY DEF Merging, Taken
<1> HIDE DEF G, Next1, N, cells
<1>3. PICK f \in [Nat -> Table] : f[0] = first /\ \A n \in Nat : f[n + 1] = G[<<f[n], n + 1>>]
  <2>1. Closed(Table, G)
    BY <1>2 DEF Closed
  <2>3. \E f \in [Nat -> Table] : Steps(f, first, G)
    BY <2>1, Iterates
  <2> QED BY <2>3 DEF Steps
<1> DEFINE e == [n \in 0..N |-> f[n]]
<1>4. ASSUME NEW n \in 1..N
      PROVE  e[n] = IF cells[n].k = Nil THEN e[n - 1] ELSE Taken(e[n - 1], cells[n], overwrite)
  <2>1. n - 1 \in Nat /\ n - 1 \in 0..N /\ n \in 0..N /\ n \in Nat /\ (n - 1) + 1 = n
    BY <1>1
  <2>2. f[n] = G[<<f[n - 1], n>>]
    BY <2>1, <1>3
  <2>3. f[n] = Next1(f[n - 1], n)
    BY <2>1, <2>2, <1>2
  <2> QED BY <2>1, <2>3 DEF Next1
<1>5. e = F(e)
  <2>1. e[0] = first
    BY <1>1, <1>3
  <2> HIDE DEF e
  <2>2. ASSUME NEW n \in 0..N
        PROVE  e[n] = IF n = 0 THEN first ELSE IF cells[n].k = Nil THEN e[n - 1] ELSE Taken(e[n - 1], cells[n], overwrite)
    <3>1. CASE n = 0
      BY <3>1, <2>1
    <3>2. CASE n # 0
      <4>1. n \in 1..N
        BY <3>2, <1>1
      <4> QED BY <4>1, <3>2, <1>4
    <3> QED BY <3>1, <3>2
  <2> QED BY <2>2 DEF e
<1> DEFINE upto == Merging(t, other, overwrite)
<1>7. upto = F(upto)
  BY <1>5, <1>11
<1> HIDE DEF upto
<1>8. upto[0] = first
  BY <1>1, <1>7
<1>9. ASSUME NEW n \in 1..N
      PROVE  upto[n] = IF cells[n].k = Nil THEN upto[n - 1] ELSE Taken(upto[n - 1], cells[n], overwrite)
  <2>1. n \in 0..N /\ n # 0
    BY <1>1
  <2>2. upto[n] = F(upto)[n]
    BY <1>7
  <2> QED BY <2>1, <2>2
<1> QED BY <1>8, <1>9 DEF upto, N, cells

(* What the table says of a key when the cells up to n have been taken;    *)
(* what is deleted may be so or never have been where nothing was.         *)
Mixed(t, other, overwrite, n, k, said) ==
  IF ~ \E j \in 1..n : other.cells[j].k = k THEN said = Says(t, k)
  ELSE IF overwrite THEN \/ said = Says(other, k)
                         \/ said = Absent /\ Says(other, k) = Gone /\ Says(t, k) = Absent
  ELSE said = IF Says(t, k) = Absent THEN Says(other, k) ELSE Says(t, k)
Took(t, other, overwrite, n, u, base) ==
  /\ Fits(u) /\ Finds(u) /\ u.shared = t.shared /\ u.uid = u.array /\ base < u.uid
  /\ \A k \in Key : Mixed(t, other, overwrite, n, k, Says(u, k))

LEMMA TakenIs ==
  ASSUME NEW t, NEW other, Fits(other), Finds(other), NEW overwrite \in BOOLEAN, NEW base \in Nat,
         NEW n \in 1..Size(other), NEW u, Took(t, other, overwrite, n - 1, u, base),
         NEW w, w = IF other.cells[n].k = Nil THEN u ELSE Taken(u, other.cells[n], overwrite),
         Size(w) <= MaxSize
  PROVE  Took(t, other, overwrite, n, w, base)
<1> DEFINE c == other.cells[n]
           Until(k, m) == \E j \in 1..m : other.cells[j].k = k
<1>1. Size(other) \in Nat /\ n \in Nat /\ c \in Entry /\ Fits(u) /\ Finds(u) /\ u.uid \in Nat
  BY FitsParts DEF Took
<1>2. ASSUME NEW k
      PROVE  Until(k, n) <=> c.k = k \/ Until(k, n - 1)
  <2>1. \A j \in 1..n : j = n \/ j \in 1..n - 1
    BY <1>1
  <2>2. \A j \in 1..n - 1 : j \in 1..n
    BY <1>1
  <2>3. n \in 1..n
    BY <1>1
  <2> QED BY <2>1, <2>2, <2>3
<1>3. ASSUME NEW k \in Key, k # c.k
      PROVE  Mixed(t, other, overwrite, n, k, Says(u, k))
  <2>1. Mixed(t, other, overwrite, n - 1, k, Says(u, k))
    BY DEF Took
  <2>2. Until(k, n) <=> Until(k, n - 1)
    BY <1>2, <1>3
  <2> QED BY <2>1, <2>2 DEF Mixed
<1>4. CASE c.k = Nil
  <2>1. w = u /\ Nil \notin Key
    BY <1>4, SlotAssumption
  <2> QED BY <2>1, <1>3, <1>4 DEF Took
<1>5. CASE c.k # Nil
  <2> DEFINE k == c.k
             v == c.v
             m == u.uid
  <2>1. k \in Key /\ v \in Val \cup {Nil} /\ m \in Nat
    BY <1>1, <1>5 DEF Entry
  <2>2. Says(u, k) = Says(t, k)
    <3>1. ~ Until(k, n - 1)
      <4>1. ASSUME NEW j \in 1..n - 1, other.cells[j].k = k
            PROVE  FALSE
        <5>1. j \in 1..Size(other) /\ j # n
          BY <1>1
        <5>2. At(other, k) = j /\ At(other, k) = n
          BY <5>1, <4>1, <1>5 DEF Finds
        <5> QED BY <5>1, <5>2
      <4> QED BY <4>1
    <3>2. Mixed(t, other, overwrite, n - 1, k, Says(u, k))
      BY <2>1 DEF Took
    <3> QED BY <3>1, <3>2 DEF Mixed
  <2>3. Says(other, k) = Held(v)
    BY <2>1, SaysIs
  <2>4. Until(k, n)
    BY <1>2
  <2>5. w = IF overwrite THEN Assigned(u, k, v, m) ELSE Filled(u, k, v, m)
    BY <1>5 DEF Taken
  <2>6. \A l \in Key : l # k => Mixed(t, other, overwrite, n, l, Says(u, l))
    BY <1>3
  <2>7. \A said : (\/ /\ overwrite
                      /\ said = Held(v) \/ (said = Absent /\ Held(v) = Gone /\ Says(u, k) = Absent)
                   \/ /\ ~ overwrite
                      /\ said = IF Says(u, k) = Absent THEN Held(v) ELSE Says(u, k))
                  => Mixed(t, other, overwrite, n, k, said)
    BY <2>2, <2>3, <2>4 DEF Mixed
  <2> HIDE DEF k, v, m
  <2>8. CASE overwrite
    <3>1. w = Assigned(u, k, v, m)
      BY <2>5, <2>8
    <3>2. /\ Keeps(u, w, m)
          /\ \A l \in Key \ {k} : Says(w, l) = Says(u, l)
          /\ v # Nil => Says(w, k) = v
          /\ v = Nil => Says(w, k) = Gone \/ (Says(w, k) = Absent /\ Says(u, k) = Absent)
      BY <3>1, <2>1, <1>1, AssignedIs
    <3>3. Mixed(t, other, overwrite, n, k, Says(w, k))
      <4>1. \/ Says(w, k) = Held(v)
            \/ Says(w, k) = Absent /\ Held(v) = Gone /\ Says(u, k) = Absent
        BY <3>2 DEF Held
      <4> HIDE DEF Mixed
      <4> DEFINE said == Says(w, k)
      <4>2. said = Held(v) \/ (said = Absent /\ Held(v) = Gone /\ Says(u, k) = Absent)
        BY <4>1
      <4> HIDE DEF said
      <4>3. Mixed(t, other, overwrite, n, k, said)
        BY <4>2, <2>7, <2>8
      <4> QED BY <4>3 DEF said
    <3>4. \A l \in Key : Mixed(t, other, overwrite, n, l, Says(w, l))
      BY <3>2, <3>3, <2>6
    <3>5. Fits(w) /\ Finds(w) /\ w.shared = t.shared /\ w.uid = w.array /\ base < w.uid
      BY <3>2, <1>1 DEF Keeps, Took, m
    <3> QED BY <3>4, <3>5 DEF Took
  <2>9. CASE ~ overwrite
    <3>1. w = Filled(u, k, v, m)
      BY <2>5, <2>9
    <3>2. /\ Keeps(u, w, m)
          /\ \A l \in Key : Says(w, l) = IF l = k /\ Says(u, k) = Absent THEN Held(v) ELSE Says(u, l)
      BY <3>1, <2>1, <1>1, FilledIs
    <3>3. Mixed(t, other, overwrite, n, k, Says(w, k))
      BY <3>2, <2>1, <2>7, <2>9
    <3>4. \A l \in Key : Mixed(t, other, overwrite, n, l, Says(w, l))
      BY <3>2, <3>3, <2>6
    <3>5. Fits(w) /\ Finds(w) /\ w.shared = t.shared /\ w.uid = w.array /\ base < w.uid
      BY <3>2, <1>1 DEF Keeps, Took, m
    <3> QED BY <3>4, <3>5 DEF Took
  <2> QED BY <2>8, <2>9
<1> QED BY <1>4, <1>5

(* ivm_object_merge, for two tables.                                       *)
LEMMA MergedIs ==
  ASSUME NEW t, Fits(t), Finds(t), NEW other, Fits(other), Finds(other), NEW overwrite \in BOOLEAN,
         NEW base \in Nat, base = Given(t),
         2 * (Size(t) + Size(other)) <= MaxSize, Size(MergedTable(t, other, overwrite)) <= MaxSize
  PROVE  Took(t, other, overwrite, Size(other), MergedTable(t, other, overwrite), base)
<1> DEFINE upto == Merging(t, other, overwrite)
           N == Size(other)
           to == Size(t) + N
           first == ExpandedTo(t, to, Given(t))
<1>1. /\ Size(t) \in 1..MaxSize /\ Size(t) \in Nat /\ N \in 1..MaxSize /\ N \in Nat /\ MaxSize \in Nat
      /\ other \in Table /\ \A n \in 1..N : other.cells[n] \in Entry
  BY FitsParts, SlotAssumption DEF Fits
<1>2. 2 * to \in 1..MaxSize /\ ~ (to <= Size(t)) /\ Size(t) < 2 * to /\ 2 * to \in Nat
  BY <1>1
<1>3. first = Expanded(t, 2 * to, base)
  BY <1>2 DEF ExpandedTo
<1> HIDE DEF to, N
<1>4. Grown(t, first, 2 * to, base)
  BY <1>2, <1>3, ExpandedFinds
<1>5. first \in Table
  BY <1>4 DEF Grown, Fits
<1>6. /\ upto[0] = first
      /\ \A n \in 1..N : upto[n] = IF other.cells[n].k = Nil THEN upto[n - 1] ELSE Taken(upto[n - 1], other.cells[n], overwrite)
  BY <1>1, <1>5, MergingIs DEF N, to
<1>7. MergedTable(t, other, overwrite) = upto[N]
  BY DEF MergedTable, N
<1> HIDE DEF upto, first
<1> DEFINE Typed(n) == /\ upto[n] \in Table /\ Size(upto[n]) \in Nat
                       /\ \A m \in 0..n : Size(upto[m]) \in Nat /\ Size(upto[m]) <= Size(upto[n])
           BadType == {n \in 0..N : ~ Typed(n)}
<1>8. Typed(0)
  <2>1. Size(first) \in Nat
    BY <1>2, <1>4 DEF Grown
  <2> QED BY <2>1, <1>5, <1>6
<1>9. ASSUME NEW n \in 1..N, Typed(n - 1)
      PROVE  Typed(n)
  <2>1. upto[n] \in Table /\ Size(upto[n]) \in Nat /\ Size(upto[n - 1]) <= Size(upto[n])
    <3>1. CASE other.cells[n].k = Nil
      BY <3>1, <1>6, <1>9
    <3>2. CASE other.cells[n].k # Nil
      <4> DEFINE c == other.cells[n]
                 u == upto[n - 1]
      <4>1. upto[n] = Taken(u, c, overwrite) /\ c \in Entry /\ c.k # Nil /\ u \in Table
        BY <3>2, <1>1, <1>6, <1>9
      <4> HIDE DEF c, u
      <4>2. upto[n] \in Table /\ Size(upto[n]) \in Nat /\ Size(u) <= Size(upto[n])
        BY <4>1, TakenType
      <4> QED BY <4>2 DEF u
    <3> QED BY <3>1, <3>2
  <2>2. ASSUME NEW m \in 0..n
        PROVE  Size(upto[m]) \in Nat /\ Size(upto[m]) <= Size(upto[n])
    <3>1. CASE m = n
      BY <3>1, <2>1
    <3>2. CASE m # n
      <4>1. m \in 0..n - 1 /\ n - 1 \in 0..n - 1
        BY <3>2, <1>1
      <4>2. Size(upto[m]) \in Nat /\ Size(upto[m]) <= Size(upto[n - 1]) /\ Size(upto[n - 1]) \in Nat
        BY <4>1, <1>9
      <4> QED BY <4>2, <2>1
    <3> QED BY <3>1, <3>2
  <2> QED BY <2>1, <2>2
<1>10. \A n \in 0..N : Typed(n)
  <2> SUFFICES ASSUME BadType # {}
               PROVE  FALSE
    OBVIOUS
  <2>1. BadType \subseteq Nat
    OBVIOUS
  <2>2. PICK n \in BadType : \A y \in BadType : n <= y
    BY <2>1, LeastOf
  <2>3. n \in 0..N /\ ~ Typed(n)
    OBVIOUS
  <2> HIDE DEF Typed
  <2>4. n # 0
    BY <1>8, <2>3
  <2>5. n \in 1..N /\ n - 1 \in 0..N /\ ~ (n <= n - 1)
    BY <2>3, <2>4, <1>1
  <2>6. Typed(n - 1)
    BY <2>2, <2>5
  <2> QED BY <2>3, <2>5, <2>6, <1>9
<1>11. \A n \in 0..N : Size(upto[n]) <= MaxSize
  <2>1. N \in 0..N /\ Size(upto[N]) <= MaxSize
    BY <1>1, <1>7
  <2>2. \A n \in 0..N : Size(upto[n]) <= Size(upto[N]) /\ Size(upto[n]) \in Nat /\ Size(upto[N]) \in Nat
    BY <2>1, <1>10
  <2> QED BY <2>1, <2>2, <1>1
<1> HIDE DEF Typed
<1> DEFINE Good(n) == Took(t, other, overwrite, n, upto[n], base)
           Bad == {n \in 0..N : ~ Good(n)}
<1>12. Good(0)
  <2>1. \A k : ~ \E j \in 1..0 : other.cells[j].k = k
    OBVIOUS
  <2>2. \A k \in Key : Mixed(t, other, overwrite, 0, k, Says(first, k))
    BY <2>1, <1>4 DEF Mixed, Grown
  <2>3. Fits(first) /\ Finds(first) /\ first.shared = t.shared /\ first.uid = first.array /\ base < first.uid
    BY <1>4 DEF Grown
  <2> QED BY <2>2, <2>3, <1>6 DEF Took
<1>13. ASSUME NEW n \in 1..N, Good(n - 1)
       PROVE  Good(n)
  <2>1. n \in 1..Size(other) /\ Size(upto[n]) <= MaxSize
    BY <1>1, <1>11 DEF N
  <2>2. upto[n] = IF other.cells[n].k = Nil THEN upto[n - 1] ELSE Taken(upto[n - 1], other.cells[n], overwrite)
    BY <1>6
  <2> QED BY <2>1, <2>2, <1>13, TakenIs
<1>14. \A n \in 0..N : Good(n)
  <2> SUFFICES ASSUME Bad # {}
               PROVE  FALSE
    OBVIOUS
  <2>1. Bad \subseteq Nat
    OBVIOUS
  <2>2. PICK n \in Bad : \A y \in Bad : n <= y
    BY <2>1, LeastOf
  <2>3. n \in 0..N /\ ~ Good(n)
    OBVIOUS
  <2> HIDE DEF Good
  <2>4. n # 0
    BY <1>12, <2>3
  <2>5. n \in 1..N /\ n - 1 \in 0..N /\ ~ (n <= n - 1)
    BY <2>3, <2>4, <1>1
  <2>6. Good(n - 1)
    BY <2>2, <2>5
  <2> QED BY <2>3, <2>5, <2>6, <1>13
<1>15. N \in 0..N
  BY <1>1
<1> QED BY <1>7, <1>14, <1>15 DEF N

(***************************************************************************)
(* The invariant.  Objects have tables that are there; tables can be       *)
(* searched, and have numbers of their own, that were given out; two       *)
(* objects with a table know that they share it; and an instruction        *)
(* remembers a number that was given out, of an array where its key is.    *)
(***************************************************************************)
Sound(t) == Fits(t) /\ Finds(t) /\ t.uid = t.array
ObjectsWell ==
  /\ obj \in [Obj -> Object \cup {Nil}]
  /\ \A o \in Obj : HasTable(o) => obj[o].slots \in Tab /\ tab[obj[o].slots] # Nil
TablesWell ==
  /\ tab \in [Tab -> Table \cup {Nil}] /\ uids \in Nat
  /\ \A x \in Tab : tab[x] # Nil => Sound(tab[x]) /\ tab[x].uid \in 1..uids
Numbered == \A x, y \in Tab : tab[x] # Nil /\ tab[y] # Nil /\ x # y => tab[x].uid # tab[y].uid
SharedWell ==
  \A o, p \in Obj : HasTable(o) /\ HasTable(p) /\ o # p /\ obj[o].slots = obj[p].slots => tab[obj[o].slots].shared
CachesWell ==
  /\ cache \in [Instr -> [uid : Nat, array : Nat, at : Nat]]
  /\ \A i \in Instr : cache[i].uid = cache[i].array /\ cache[i].uid <= uids
SlotInv == ObjectsWell /\ TablesWell /\ Numbered /\ SharedWell /\ CachesWell /\ CacheExact

(* The table of an object.                                                 *)
LEMMA TableIs ==
  ASSUME SlotInv, NEW o \in Obj, HasTable(o)
  PROVE  LET t == TableOf(o) IN
         /\ obj[o] \in Object /\ obj[o].slots \in Tab /\ t = tab[obj[o].slots] /\ t # Nil
         /\ Sound(t) /\ Fits(t) /\ Finds(t) /\ t.uid = t.array /\ t.uid \in 1..uids /\ t.uid \in Nat
<1>1. obj[o].slots \in Tab /\ tab[obj[o].slots] # Nil /\ obj[o] \in Object
  BY DEF SlotInv, ObjectsWell, HasTable
<1>2. Sound(TableOf(o)) /\ TableOf(o).uid \in 1..uids
  BY <1>1 DEF SlotInv, TablesWell, TableOf
<1>3. TableOf(o).uid \in Nat
  BY <1>2, FitsParts DEF Sound
<1> QED BY <1>1, <1>2, <1>3 DEF TableOf, Sound

(* A table with the same cells answers the same.                           *)
LEMMA Alike ==
  ASSUME NEW t, Fits(t), Finds(t), NEW u \in Table, u.cells = t.cells, u.hash = t.hash
  PROVE  /\ Fits(u) /\ Finds(u) /\ Size(u) = Size(t)
         /\ \A k \in Key : Says(u, k) = Says(t, k) /\ At(u, k) = At(t, k) /\ Found(u, k) = Found(t, k)
<1>1. Size(u) = Size(t)
  BY DEF Size
<1>2. \A k, n : Probe(u, k, n) = Probe(t, k, n)
  BY <1>1, Zenon DEF Probe
<1>3. ASSUME NEW k
      PROVE  At(u, k) = At(t, k)
  BY <1>1, <1>2 DEF At
<1>4. ASSUME NEW k
      PROVE  Found(u, k) = Found(t, k)
  BY <1>3 DEF Found
<1>5. Fits(u)
  BY <1>1 DEF Fits
<1>6. Finds(u)
  BY <1>1, <1>3 DEF Finds
<1> QED BY <1>1, <1>3, <1>4, <1>5, <1>6 DEF Says

(* A new table: nothing is in it.                                          *)
LEMMA NewTableIs ==
  ASSUME NEW init \in Nat, NEW n \in Nat
  PROVE  LET t == NewTable(init, n) IN
         /\ t \in Table /\ t.uid = n + 1 /\ t.array = n + 1 /\ t.shared = FALSE
         /\ Size(t) <= MaxSize => Sound(t) /\ \A k \in Key : Says(t, k) = Absent
<1> DEFINE size == IF init < DefaultSize THEN DefaultSize ELSE init
           hash == size >= ToHash
           len  == IF hash THEN 2 * size ELSE size
           t    == NewTable(init, n)
<1>1. size \in Nat /\ size # 0 /\ len \in Nat /\ len # 0 /\ hash \in BOOLEAN
  BY SlotAssumption
<1>2. t = [cells |-> Cells(len), hash |-> hash, shared |-> FALSE, uid |-> n + 1, array |-> n + 1]
  BY DEF NewTable
<1> HIDE DEF size, hash, len
<1>3. Cells(len) \in Seq(Entry) /\ Len(Cells(len)) = len /\ \A i \in 1..len : Cells(len)[i] = Empty
  BY <1>1, CellsAre
<1>4. t \in Table /\ t.cells = Cells(len) /\ t.uid = n + 1 /\ t.array = n + 1 /\ t.shared = FALSE
  BY <1>1, <1>2, <1>3 DEF Table
<1> HIDE DEF t
<1>5. Size(t) = len
  BY <1>3, <1>4 DEF Size
<1>6. ASSUME Size(t) <= MaxSize
      PROVE  Sound(t) /\ \A k \in Key : Says(t, k) = Absent
  <2>1. Fits(t)
    BY <1>1, <1>4, <1>5, <1>6, SlotAssumption DEF Fits
  <2>2. Blank(t)
    BY <1>3, <1>4, <1>5 DEF Blank, Empty
  <2> QED BY <2>1, <2>2, <1>4, BlankFinds DEF Sound
<1> QED BY <1>4, <1>6 DEF t

LEMMA FirstTable ==
  ASSUME NEW n \in Nat
  PROVE  LET t == NewTable(0, n) IN
         t \in Table /\ t.uid = n + 1 /\ t.array = n + 1 /\ t.shared = FALSE /\ Sound(t) /\ \A k \in Key : Says(t, k) = Absent
<1> DEFINE size == DefaultSize
           len  == IF size >= ToHash THEN 2 * size ELSE size
           t    == NewTable(0, n)
<1>1. size \in Nat /\ size > 0 /\ len \in Nat /\ len <= MaxSize
  BY SlotAssumption
<1>2. t.cells = Cells(len)
  BY <1>1 DEF NewTable
<1> HIDE DEF len, t
<1>3. Size(t) = len
  BY <1>1, <1>2, CellsAre DEF Size
<1> QED BY <1>1, <1>3, NewTableIs DEF t

(* A copy.                                                                 *)
LEMMA CopyIs ==
  ASSUME NEW t, Fits(t), Finds(t), uids \in Nat
  PROVE  LET u == CopyState(t) IN
         /\ Sound(u) /\ Size(u) = Size(t) /\ u.uid = uids + 1 /\ u.array = uids + 1 /\ u.shared = FALSE
         /\ \A k \in Key : Says(u, k) = Says(t, k)
<1> DEFINE m == [t EXCEPT !.uid = uids + 1, !.array = uids + 1]
           u == [m EXCEPT !.shared = FALSE]
<1>0. t \in Table /\ uids + 1 \in Nat
  BY DEF Fits
<1>1. m \in Table /\ m.cells = t.cells /\ m.hash = t.hash /\ m.uid = uids + 1 /\ m.array = uids + 1
  BY <1>0 DEF Table
<1>2. CopyState(t) = u
  BY DEF CopyState, Moved
<1> HIDE DEF m
<1>3. /\ u \in Table /\ u.cells = m.cells /\ u.hash = m.hash /\ u.uid = m.uid /\ u.array = m.array
      /\ u.shared = FALSE
  BY <1>1 DEF Table
<1> HIDE DEF u
<1>4. Fits(u) /\ Finds(u) /\ Size(u) = Size(t) /\ \A k \in Key : Says(u, k) = Says(t, k)
  BY <1>1, <1>3, Alike
<1> QED BY <1>1, <1>2, <1>3, <1>4 DEF Sound

(* The larger of the numbers.                                              *)
LEMMA GivenIs ==
  ASSUME uids \in Nat, NEW t, t.uid \in Nat
  PROVE  Given(t) \in Nat /\ uids <= Given(t) /\ t.uid <= Given(t)
<1>1. Given(t) = IF uids >= t.uid THEN uids ELSE t.uid
  BY MaxOfTwo DEF Given
<1> QED BY <1>1

(* There is a place for the table of o: an object more than tables used.   *)
LEMMA PlaceIs ==
  ASSUME SlotInv, NEW o \in Obj
  PROVE  /\ Place(o) \in Tab /\ Place(o) \notin Users(o)
         /\ HasTable(o) /\ obj[o].slots \notin Users(o) => Place(o) = obj[o].slots
<1> DEFINE free == Tab \ Users(o)
           rest == Obj \ {o}
           f == [x \in Tab |-> CHOOSE p \in rest : p \in Made /\ obj[p].slots = x]
<1>1. /\ IsFiniteSet(Obj) /\ Cardinality(Obj) \in Nat /\ IsFiniteSet(rest)
      /\ Cardinality(rest) = Cardinality(Obj) - 1 /\ Cardinality(rest) \in Nat
  <2>1. IsFiniteSet(Obj)
    BY SlotAssumption
  <2>2. Cardinality(Obj) \in Nat
    BY <2>1, FS_CardinalityType
  <2>3. IsFiniteSet(rest) /\ Cardinality(rest) = Cardinality(Obj) - 1
    BY <2>1, FS_RemoveElement
  <2>4. Cardinality(rest) \in Nat
    BY <2>3, FS_CardinalityType
  <2> QED BY <2>1, <2>2, <2>3, <2>4
<1>2. free # {}
  <2> SUFFICES ASSUME free = {}
               PROVE  FALSE
    OBVIOUS
  <2>1. ASSUME NEW x \in Tab
        PROVE  \E p \in rest : p \in Made /\ obj[p].slots = x
    <3>1. x \in Users(o)
      OBVIOUS
    <3> QED BY <3>1 DEF Users, Made
  <2>2. \A x \in Tab : f[x] \in rest /\ obj[f[x]].slots = x
    BY <2>1
  <2> HIDE DEF f
  <2>3. IsFiniteSet(Tab) /\ Cardinality(Tab) = Cardinality(Obj)
    <3>1. IsFiniteSet(1..Cardinality(Obj)) /\ Cardinality(1..Cardinality(Obj)) = Cardinality(Obj)
      BY <1>1, FS_Interval
    <3> QED BY <3>1 DEF Tab
  <2> DEFINE g == [x \in Tab |-> f[x]]
  <2>4. g \in [Tab -> rest]
    BY <2>2
  <2>5. Cardinality(rest) < Cardinality(Tab)
    BY <1>1, <2>3
  <2> HIDE DEF g, rest
  <2>6. PICK x, y \in Tab : x # y /\ g[x] = g[y]
    BY <2>3, <2>4, <2>5, <1>1, FS_PigeonHole
  <2> QED BY <2>2, <2>6 DEF g
<1>3. free \subseteq Nat
  BY DEF Tab
<1>4. Place(o) = IF HasTable(o) /\ obj[o].slots \notin Users(o) THEN obj[o].slots ELSE Min(free)
  BY DEF Place
<1> HIDE DEF free
<1>5. Min(free) \in free
  BY <1>2, <1>3, MinIs
<1>6. HasTable(o) => obj[o].slots \in Tab
  BY TableIs
<1> QED BY <1>4, <1>5, <1>6 DEF free

(* An object whose table is not shared is the only one with it.            *)
LEMMA AloneIs ==
  ASSUME SlotInv, NEW o \in Obj, HasTable(o), ~ TableOf(o).shared
  PROVE  obj[o].slots \notin Users(o)
<1> SUFFICES ASSUME obj[o].slots \in Users(o)
             PROVE  FALSE
  OBVIOUS
<1>1. PICK p \in Made \ {o} : obj[p].slots = obj[o].slots
  BY DEF Users
<1>2. p \in Obj /\ HasTable(p) /\ o # p
  BY <1>1 DEF Made, HasTable
<1> QED BY <1>1, <1>2 DEF SlotInv, SharedWell, TableOf

(* What may be stored as the table of o: it has a number that nobody has,  *)
(* or it is the one o has alone, with the keys where they were.            *)
Writable(o, t) ==
  /\ Sound(t) /\ t.uid \in Nat
  /\ \/ uids < t.uid
     \/ /\ HasTable(o) /\ obj[o].slots \notin Users(o)
        /\ t.uid = TableOf(o).uid /\ Size(t) = Size(TableOf(o))
        /\ \A j \in 1..Size(t) : TableOf(o).cells[j].k # Nil => t.cells[j].k = TableOf(o).cells[j].k

(* ivm_object_copyOnWrite.                                                 *)
LEMMA OwnIs ==
  ASSUME SlotInv, NEW o \in Obj
  PROVE  LET t == OwnTable(o) IN
         /\ Sound(t) /\ Writable(o, t)
         /\ \A k \in Key : Says(t, k) = IF HasTable(o) THEN Says(TableOf(o), k) ELSE Absent
         /\ t.uid <= uids => HasTable(o) /\ t = TableOf(o)
         /\ HasTable(o) => Size(t) = Size(TableOf(o))
<1> DEFINE t == OwnTable(o)
<1>1. uids \in Nat
  BY DEF SlotInv, TablesWell
<1>2. CASE ~ HasTable(o)
  <2>1. t = NewTable(0, uids)
    BY <1>2, Zenon DEF OwnTable
  <2>2. Sound(t) /\ t.uid = uids + 1 /\ \A k \in Key : Says(t, k) = Absent
    BY <2>1, <1>1, FirstTable
  <2> HIDE DEF t
  <2>3. uids < t.uid /\ ~ (t.uid <= uids) /\ t.uid \in Nat
    BY <2>2, <1>1
  <2> QED BY <2>2, <2>3, <1>2 DEF Writable, t
<1>3. CASE HasTable(o) /\ TableOf(o).shared
  <2>1. t = CopyState(TableOf(o))
    BY <1>3, Zenon DEF OwnTable
  <2>2. /\ Sound(t) /\ t.uid = uids + 1 /\ Size(t) = Size(TableOf(o))
        /\ \A k \in Key : Says(t, k) = Says(TableOf(o), k)
    BY <2>1, <1>1, <1>3, TableIs, CopyIs
  <2> HIDE DEF t
  <2>3. uids < t.uid /\ ~ (t.uid <= uids) /\ t.uid \in Nat
    BY <2>2, <1>1
  <2> QED BY <2>2, <2>3, <1>3 DEF Writable, t
<1>4. CASE HasTable(o) /\ ~ TableOf(o).shared
  <2>1. t = TableOf(o)
    BY <1>4, Zenon DEF OwnTable
  <2>2. obj[o].slots \notin Users(o)
    BY <1>4, AloneIs
  <2>3. Sound(t) /\ t.uid \in Nat
    BY <2>1, <1>4, TableIs
  <2> HIDE DEF t
  <2> QED BY <2>1, <2>2, <2>3, <1>4 DEF Writable, t
<1> QED BY <1>2, <1>3, <1>4

(* What is written into it may be stored.                                  *)
LEMMA WrittenIs ==
  ASSUME SlotInv, NEW o \in Obj, NEW t, Writable(o, t), NEW n \in Nat, uids <= n, NEW u, Keeps(t, u, n)
  PROVE  Writable(o, u)
<1>1. /\ Sound(u) /\ u.uid \in Nat /\ uids \in Nat
  <2>1. u.uid \in Nat /\ uids \in Nat
    BY FitsParts DEF Keeps, SlotInv, TablesWell
  <2>2. u.uid = u.array
    BY DEF Keeps, Writable, Sound
  <2> QED BY <2>1, <2>2 DEF Keeps, Sound
<1>2. CASE u.uid = n + 1 /\ u.array = n + 1
  BY <1>1, <1>2 DEF Writable
<1>3. CASE /\ u.uid = t.uid /\ u.array = t.array /\ Size(u) = Size(t)
           /\ \A j \in 1..Size(t) : t.cells[j].k # Nil => u.cells[j].k = t.cells[j].k
  <2>1. CASE uids < t.uid
    BY <1>1, <1>3, <2>1 DEF Writable
  <2>2. CASE ~ (uids < t.uid)
    <3>1. \A j \in 1..Size(u) : TableOf(o).cells[j].k # Nil => u.cells[j].k = TableOf(o).cells[j].k
      BY <1>3, <2>2 DEF Writable
    <3>2. /\ HasTable(o) /\ obj[o].slots \notin Users(o)
          /\ u.uid = TableOf(o).uid /\ Size(u) = Size(TableOf(o))
      BY <1>3, <2>2 DEF Writable
    <3> QED BY <3>1, <3>2, <1>1 DEF Writable
  <2> QED BY <2>1, <2>2
<1> QED BY <1>2, <1>3 DEF Keeps

(***************************************************************************)
(* The steps.                                                              *)
(***************************************************************************)

(* An object gets a table, and an instruction may remember it.             *)
LEMMA StoreIs ==
  ASSUME SlotInv, NEW o \in Obj, NEW r \in Object, NEW t, Writable(o, t), Store(o, r, t)
  PROVE  \E id \in Tab, q \in Object :
           /\ id = Place(o) /\ id \notin Users(o) /\ (HasTable(o) /\ obj[o].slots \notin Users(o) => id = obj[o].slots)
           /\ q.slots = id /\ q.proto = r.proto /\ q # Nil /\ t \in Table /\ t # Nil
           /\ obj' = [obj EXCEPT ![o] = q] /\ tab' = [tab EXCEPT ![id] = t]
           /\ uids' \in Nat /\ uids <= uids' /\ t.uid \in 1..uids' /\ uids \in Nat
<1> DEFINE id == Place(o)
           q  == [r EXCEPT !.slots = id]
<1>1. id \in Tab /\ id \notin Users(o) /\ (HasTable(o) /\ obj[o].slots \notin Users(o) => id = obj[o].slots)
  BY PlaceIs
<1>2. obj' = [obj EXCEPT ![o] = q] /\ tab' = [tab EXCEPT ![id] = t] /\ uids' = Given(t)
  BY DEF Store
<1>3. uids \in Nat /\ t.uid \in Nat /\ t \in Table
  BY DEF SlotInv, TablesWell, Writable, Sound, Fits
<1>4. Given(t) \in Nat /\ uids <= Given(t) /\ t.uid <= Given(t)
  BY <1>3, GivenIs
<1>5. t.uid # 0
  <2>1. CASE uids < t.uid
    BY <2>1, <1>3
  <2>2. CASE ~ (uids < t.uid)
    <3>1. HasTable(o) /\ t.uid = TableOf(o).uid
      BY <2>2 DEF Writable
    <3>2. TableOf(o).uid \in 1..uids
      BY <3>1, TableIs
    <3> QED BY <3>1, <3>2, <1>3
  <2> QED BY <2>1, <2>2
<1>6. id \in Nat
  BY <1>1 DEF Tab
<1> HIDE DEF id
<1>7. q \in Object /\ q.slots = id /\ q.proto = r.proto
  BY <1>6 DEF Object
<1>8. q # Nil /\ t # Nil
  BY <1>3, <1>7, SlotAssumption
<1> HIDE DEF q
<1>9. t.uid \in 1..uids'
  BY <1>2, <1>3, <1>4, <1>5
<1> QED BY <1>1, <1>2, <1>3, <1>4, <1>7, <1>8, <1>9 DEF id

(* What an instruction may remember of a table.                            *)
Remembers(c, t, k) ==
  c.uid = t.uid /\ c.array = t.array /\ c.at \in 1..Size(t) /\ t.cells[c.at].k = k

LEMMA StoreKeeps ==
  ASSUME SlotInv, NEW o \in Obj, NEW r \in Object, NEW t, Writable(o, t), Store(o, r, t),
         cache' \in [Instr -> [uid : Nat, array : Nat, at : Nat]],
         \A i \in Instr : cache'[i] = cache[i] \/ Remembers(cache'[i], t, KeyOf[i])
  PROVE  SlotInv'
<1>1. PICK id \in Tab, q \in Object :
           /\ id = Place(o) /\ id \notin Users(o) /\ (HasTable(o) /\ obj[o].slots \notin Users(o) => id = obj[o].slots)
           /\ q.slots = id /\ q.proto = r.proto /\ q # Nil /\ t \in Table /\ t # Nil
           /\ obj' = [obj EXCEPT ![o] = q] /\ tab' = [tab EXCEPT ![id] = t]
           /\ uids' \in Nat /\ uids <= uids' /\ t.uid \in 1..uids' /\ uids \in Nat
  BY StoreIs
<1>2. /\ obj \in [Obj -> Object \cup {Nil}] /\ tab \in [Tab -> Table \cup {Nil}]
      /\ \A p \in Obj : HasTable(p) => obj[p].slots \in Tab /\ tab[obj[p].slots] # Nil
      /\ \A x \in Tab : tab[x] # Nil => Sound(tab[x]) /\ tab[x].uid \in 1..uids
  BY DEF SlotInv, ObjectsWell, TablesWell
<1>3. /\ obj' \in [Obj -> Object \cup {Nil}] /\ tab' \in [Tab -> Table \cup {Nil}]
      /\ obj'[o] = q /\ tab'[id] = t
      /\ \A p \in Obj \ {o} : obj'[p] = obj[p]
      /\ \A x \in Tab \ {id} : tab'[x] = tab[x]
  BY <1>1, <1>2
<1>4. ASSUME NEW p \in Obj \ {o}, HasTable(p)
      PROVE  obj[p].slots # id
  <2>1. p \in Made \ {o}
    BY <1>4 DEF Made, HasTable
  <2> QED BY <2>1, <1>1 DEF Users
<1>5. \A p \in Obj \ {o} : HasTable(p)' <=> HasTable(p)
  BY <1>3 DEF HasTable
<1>6. HasTable(o)' /\ obj'[o].slots = id
  BY <1>1, <1>3, SlotAssumption DEF HasTable, Tab
<1>7. ASSUME NEW x \in Tab, x # id, tab[x] # Nil
      PROVE  t.uid # tab[x].uid
  <2>1. tab[x].uid \in 1..uids
    BY <1>2, <1>7
  <2>2. CASE uids < t.uid
    BY <2>1, <2>2, <1>1
  <2>3. CASE ~ (uids < t.uid)
    <3>1. HasTable(o) /\ t.uid = TableOf(o).uid /\ id = obj[o].slots
      BY <2>3, <1>1 DEF Writable
    <3>2. tab[id] # Nil /\ TableOf(o) = tab[id]
      BY <3>1, <1>2 DEF TableOf
    <3> QED BY <3>1, <3>2, <1>7 DEF SlotInv, Numbered
  <2> QED BY <2>2, <2>3
<1>8. ObjectsWell'
  <2>1. ASSUME NEW p \in Obj, HasTable(p)'
        PROVE  obj'[p].slots \in Tab /\ tab'[obj'[p].slots] # Nil
    <3>1. CASE p = o
      BY <3>1, <1>1, <1>3
    <3>2. CASE p # o
      <4>1. HasTable(p) /\ obj'[p] = obj[p]
        BY <2>1, <3>2, <1>3, <1>5
      <4>2. obj[p].slots \in Tab \ {id} /\ tab[obj[p].slots] # Nil
        BY <4>1, <3>2, <1>2, <1>4
      <4> QED BY <4>1, <4>2, <1>3
    <3> QED BY <3>1, <3>2
  <2> QED BY <2>1, <1>3 DEF ObjectsWell, Tab
<1>9. TablesWell'
  <2>1. ASSUME NEW x \in Tab, tab'[x] # Nil
        PROVE  Sound(tab'[x]) /\ tab'[x].uid \in 1..uids'
    <3>1. CASE x = id
      BY <3>1, <1>1, <1>3 DEF Writable
    <3>2. CASE x # id
      <4>1. tab'[x] = tab[x]
        BY <3>2, <1>3
      <4>2. Sound(tab[x]) /\ tab[x].uid \in 1..uids
        BY <4>1, <2>1, <1>2
      <4> QED BY <4>1, <4>2, <1>1
    <3> QED BY <3>1, <3>2
  <2> QED BY <2>1, <1>1, <1>3 DEF TablesWell, Tab
<1>10. Numbered'
  <2>1. ASSUME NEW x \in Tab, NEW y \in Tab, tab'[x] # Nil, tab'[y] # Nil, x # y
        PROVE  tab'[x].uid # tab'[y].uid
    <3>1. CASE x = id
      BY <3>1, <2>1, <1>3, <1>7
    <3>2. CASE y = id
      BY <3>2, <2>1, <1>3, <1>7
    <3>3. CASE x # id /\ y # id
      BY <3>3, <2>1, <1>3 DEF SlotInv, Numbered
    <3> QED BY <3>1, <3>2, <3>3
  <2> QED BY <2>1 DEF Numbered, Tab
<1>11. SharedWell'
  <2>1. ASSUME NEW p \in Obj, NEW s \in Obj, HasTable(p)', HasTable(s)', p # s, obj'[p].slots = obj'[s].slots
        PROVE  tab'[obj'[p].slots].shared
    <3>1. p # o
      <4> SUFFICES ASSUME p = o
                   PROVE  FALSE
        OBVIOUS
      <4>1. s \in Obj \ {o} /\ HasTable(s) /\ obj'[s] = obj[s]
        BY <2>1, <1>3, <1>5
      <4> QED BY <4>1, <2>1, <1>4, <1>6
    <3>2. s # o
      <4> SUFFICES ASSUME s = o
                   PROVE  FALSE
        OBVIOUS
      <4>1. p \in Obj \ {o} /\ HasTable(p) /\ obj'[p] = obj[p]
        BY <2>1, <1>3, <1>5
      <4> QED BY <4>1, <2>1, <1>4, <1>6
    <3>3. /\ HasTable(p) /\ HasTable(s) /\ obj'[p] = obj[p] /\ obj'[s] = obj[s]
          /\ obj[p].slots \in Tab \ {id}
      BY <3>1, <3>2, <2>1, <1>2, <1>3, <1>4, <1>5
    <3>4. tab[obj[p].slots].shared
      BY <3>3, <2>1 DEF SlotInv, SharedWell
    <3> QED BY <3>3, <3>4, <1>3
  <2> QED BY <2>1 DEF SharedWell
<1>12. CachesWell'
  <2>1. ASSUME NEW i \in Instr
        PROVE  cache'[i].uid = cache'[i].array /\ cache'[i].uid <= uids'
    <3>1. CASE cache'[i] = cache[i]
      <4>1. cache[i].uid = cache[i].array /\ cache[i].uid <= uids /\ cache[i].uid \in Nat
        BY DEF SlotInv, CachesWell
      <4> QED BY <3>1, <4>1, <1>1
    <3>2. CASE Remembers(cache'[i], t, KeyOf[i])
      BY <3>2, <1>1 DEF Remembers, Writable, Sound
    <3> QED BY <3>1, <3>2
  <2> QED BY <2>1 DEF CachesWell
<1>13. CacheExact'
  <2>1. ASSUME NEW i \in Instr, NEW x \in Tab, tab'[x] # Nil, cache'[i].uid = tab'[x].uid
        PROVE  /\ cache'[i].array = tab'[x].array
               /\ cache'[i].at \in 1..Size(tab'[x]) /\ tab'[x].cells[cache'[i].at].k = KeyOf[i]
    <3>0. /\ cache[i].uid = cache[i].array /\ cache[i].uid <= uids /\ cache[i].uid \in Nat
          /\ KeyOf[i] # Nil
      BY SlotAssumption DEF SlotInv, CachesWell
    <3>1. CASE x = id
      <4>1. tab'[x] = t
        BY <3>1, <1>3
      <4>2. CASE Remembers(cache'[i], t, KeyOf[i])
        BY <4>1, <4>2 DEF Remembers
      <4>3. CASE cache'[i] = cache[i]
        <5>1. ~ (uids < t.uid)
          BY <4>1, <4>3, <3>0, <2>1, <1>1
        <5>2. /\ HasTable(o) /\ obj[o].slots \notin Users(o)
              /\ t.uid = TableOf(o).uid /\ Size(t) = Size(TableOf(o))
          BY <5>1 DEF Writable
        <5>3. \A j \in 1..Size(t) : TableOf(o).cells[j].k # Nil => t.cells[j].k = TableOf(o).cells[j].k
          BY <5>1 DEF Writable
        <5>4. id = obj[o].slots /\ TableOf(o) = tab[id] /\ tab[id] # Nil
          BY <5>2, <1>1, <1>2 DEF TableOf
        <5>5. /\ cache[i].at \in 1..Size(tab[id]) /\ tab[id].cells[cache[i].at].k = KeyOf[i]
          BY <5>2, <5>4, <4>1, <4>3, <2>1 DEF SlotInv, CacheExact, Knows
        <5>6. cache[i].array = t.array
          BY <4>1, <4>3, <2>1, <3>0 DEF Writable, Sound
        <5> QED BY <5>2, <5>3, <5>4, <5>5, <5>6, <4>1, <4>3, <3>0
      <4> QED BY <4>2, <4>3
    <3>2. CASE x # id
      <4>1. tab'[x] = tab[x]
        BY <3>2, <1>3
      <4>2. cache'[i] = cache[i]
        BY <4>1, <3>2, <2>1, <1>7 DEF Remembers
      <4> QED BY <4>1, <4>2, <2>1 DEF SlotInv, CacheExact, Knows
    <3> QED BY <3>1, <3>2
  <2> QED BY <2>1 DEF CacheExact, Knows, Tab
<1> QED BY <1>8, <1>9, <1>10, <1>11, <1>12, <1>13 DEF SlotInv

LEMMA InitKeeps == Init => SlotInv
<1> SUFFICES ASSUME Init
             PROVE  SlotInv
  OBVIOUS
<1> DEFINE first == NewTable(0, 0)
           robj == [NewObj EXCEPT !.slots = 1, !.proto = Nil]
<1>1. first \in Table /\ first.uid = 1 /\ Sound(first)
  <2>1. \A n \in Nat : NewTable(0, n) \in Table /\ NewTable(0, n).uid = n + 1 /\ Sound(NewTable(0, n))
    BY FirstTable
  <2>2. first \in Table /\ first.uid = 0 + 1 /\ Sound(first)
    BY <2>1
  <2> QED BY <2>2
<1>2. 1 \in Tab /\ Tab \subseteq Nat
  <2>1. IsFiniteSet(Obj) /\ Obj # {}
    BY SlotAssumption
  <2>2. Cardinality(Obj) \in Nat /\ Cardinality(Obj) # 0
    BY <2>1, FS_CardinalityType, FS_EmptySet
  <2> QED BY <2>2 DEF Tab
<1>3. robj \in Object /\ robj.slots = 1
  BY SlotAssumption DEF NewObj, Object
<1>4. obj = [o \in Obj |-> IF o = Root THEN robj ELSE Nil] /\ tab = [x \in Tab |-> IF x = 1 THEN first ELSE Nil] /\ uids = 1
  BY DEF Init
<1>5. cache = [i \in Instr |-> [uid |-> 0, array |-> 0, at |-> 0]]
  BY DEF Init
<1> HIDE DEF first, robj
<1>6. first # Nil /\ robj # Nil
  BY <1>1, <1>3, SlotAssumption
<1>7. ObjectsWell
  BY <1>2, <1>3, <1>4, <1>6 DEF ObjectsWell, HasTable
<1>8. TablesWell
  BY <1>1, <1>4 DEF TablesWell
<1>9. Numbered /\ SharedWell
  BY <1>4 DEF Numbered, SharedWell, HasTable
<1>10. CachesWell
  BY <1>4, <1>5 DEF CachesWell
<1>11. CacheExact
  BY <1>1, <1>4, <1>5 DEF CacheExact, Knows
<1> QED BY <1>7, <1>8, <1>9, <1>10, <1>11 DEF SlotInv

LEMMA NewKeeps ==
  ASSUME SlotInv, NEW o \in Obj, NEW init \in Prealloc \cup {0}, New(o, init)
  PROVE  SlotInv'
<1>1. init \in Nat /\ NewObj \in Object /\ uids \in Nat
  BY SlotAssumption DEF NewObj, Object, SlotInv, TablesWell
<1>2. CASE init = 0
  <2>1. obj' = [obj EXCEPT ![o] = NewObj] /\ tab' = tab /\ uids' = uids /\ cache' = cache /\ obj[o] = Nil
    BY <1>2 DEF New
  <2>2. NewObj.slots = Nil
    BY DEF NewObj
  <2>3. obj \in [Obj -> Object \cup {Nil}]
    BY DEF SlotInv, ObjectsWell
  <2>4. obj' \in [Obj -> Object \cup {Nil}] /\ obj'[o] = NewObj /\ \A p \in Obj \ {o} : obj'[p] = obj[p]
    BY <2>1, <2>3, <1>1
  <2>5. \A p \in Obj : HasTable(p)' => HasTable(p) /\ p # o /\ obj'[p] = obj[p]
    BY <2>2, <2>4 DEF HasTable
  <2>6. ObjectsWell'
    BY <2>1, <2>4, <2>5 DEF SlotInv, ObjectsWell, Tab
  <2>7. SharedWell'
    BY <2>1, <2>5 DEF SlotInv, SharedWell
  <2>8. TablesWell' /\ Numbered' /\ CachesWell' /\ CacheExact'
    BY <2>1 DEF SlotInv, TablesWell, Numbered, CachesWell, CacheExact, Knows, Tab
  <2> QED BY <2>6, <2>7, <2>8 DEF SlotInv
<1>3. CASE init # 0
  <2> DEFINE t == NewTable(init, uids)
  <2>1. Store(o, NewObj, t) /\ cache' = cache
    BY <1>3 DEF New
  <2>2. Size(t) <= MaxSize
    BY <2>1 DEF Store
  <2>3. Sound(t) /\ t.uid = uids + 1
    BY <2>2, <1>1, NewTableIs
  <2> HIDE DEF t
  <2>4. Writable(o, t)
    BY <2>3, <1>1 DEF Writable
  <2>5. cache' \in [Instr -> [uid : Nat, array : Nat, at : Nat]] /\ \A i \in Instr : cache'[i] = cache[i]
    BY <2>1 DEF SlotInv, CachesWell
  <2> QED BY <2>1, <2>4, <2>5, <1>1, StoreKeeps
<1> QED BY <1>2, <1>3

LEMMA CloneKeeps ==
  ASSUME SlotInv, NEW a \in Made, NEW o \in Obj, Clone(a, o)
  PROVE  SlotInv'
<1>1. /\ obj[o] = Nil /\ obj' = [obj EXCEPT ![o] = obj[a]] /\ uids' = uids /\ cache' = cache
      /\ tab' = IF HasTable(a) THEN [tab EXCEPT ![obj[a].slots].shared = TRUE] ELSE tab
  BY DEF Clone
<1>2. a \in Obj /\ obj[a] # Nil /\ a # o /\ obj[a] \in Object
  BY <1>1 DEF Made, SlotInv, ObjectsWell
<1>3. /\ obj \in [Obj -> Object \cup {Nil}] /\ tab \in [Tab -> Table \cup {Nil}] /\ uids \in Nat
      /\ \A p \in Obj : HasTable(p) => obj[p].slots \in Tab /\ tab[obj[p].slots] # Nil
      /\ \A x \in Tab : tab[x] # Nil => Sound(tab[x]) /\ tab[x].uid \in 1..uids
  BY DEF SlotInv, ObjectsWell, TablesWell
<1>4. /\ obj' \in [Obj -> Object \cup {Nil}] /\ obj'[o] = obj[a] /\ \A p \in Obj \ {o} : obj'[p] = obj[p]
  BY <1>1, <1>2, <1>3
<1>5. ASSUME NEW x \in Tab
      PROVE  /\ tab'[x] \in Table \cup {Nil}
             /\ tab'[x] = Nil <=> tab[x] = Nil
             /\ tab[x] # Nil => /\ tab'[x].cells = tab[x].cells /\ tab'[x].hash = tab[x].hash
                                /\ tab'[x].uid = tab[x].uid /\ tab'[x].array = tab[x].array
                                /\ tab[x].shared \/ (HasTable(a) /\ x = obj[a].slots) => tab'[x].shared
  <2>1. CASE HasTable(a) /\ x = obj[a].slots
    <3> DEFINE t == tab[x]
               u == [t EXCEPT !.shared = TRUE]
    <3>1. t \in Table /\ tab[x] # Nil
      BY <2>1, <1>2, <1>3
    <3>2. tab'[x] = u
      BY <2>1, <1>1, <1>3
    <3> HIDE DEF t
    <3>3. /\ u \in Table /\ u.cells = t.cells /\ u.hash = t.hash /\ u.uid = t.uid /\ u.array = t.array
          /\ u.shared = TRUE
      BY <3>1 DEF Table
    <3> HIDE DEF u
    <3>4. u # Nil
      BY <3>3, SlotAssumption
    <3> QED BY <3>1, <3>2, <3>3, <3>4 DEF t
  <2>2. CASE ~ (HasTable(a) /\ x = obj[a].slots)
    <3>1. tab'[x] = tab[x]
      BY <2>2, <1>1, <1>3
    <3> QED BY <3>1, <2>2, <1>3
  <2> QED BY <2>1, <2>2
<1>6. tab' \in [Tab -> Table \cup {Nil}]
  <2>1. tab' = [x \in Tab |-> tab'[x]]
    BY <1>1, <1>3
  <2> QED BY <2>1, <1>5
<1>7. \A p \in Obj \ {o} : HasTable(p)' <=> HasTable(p)
  BY <1>4 DEF HasTable
<1>8. HasTable(o)' <=> HasTable(a)
  BY <1>4 DEF HasTable
<1>9. ObjectsWell'
  <2>1. ASSUME NEW p \in Obj, HasTable(p)'
        PROVE  obj'[p].slots \in Tab /\ tab'[obj'[p].slots] # Nil
    <3>1. CASE p = o
      <4>1. obj[a].slots \in Tab /\ tab[obj[a].slots] # Nil
        BY <3>1, <2>1, <1>2, <1>3, <1>8
      <4> QED BY <4>1, <3>1, <1>4, <1>5
    <3>2. CASE p # o
      <4>1. obj[p].slots \in Tab /\ tab[obj[p].slots] # Nil
        BY <3>2, <2>1, <1>3, <1>7
      <4> QED BY <4>1, <3>2, <1>4, <1>5
    <3> QED BY <3>1, <3>2
  <2> QED BY <2>1, <1>4 DEF ObjectsWell, Tab
<1>10. TablesWell'
  <2>1. ASSUME NEW x \in Tab, tab'[x] # Nil
        PROVE  Sound(tab'[x]) /\ tab'[x].uid \in 1..uids'
    <3> DEFINE t == tab[x]
               u == tab'[x]
    <3>1. /\ u \in Table /\ u.cells = t.cells /\ u.hash = t.hash /\ u.uid = t.uid /\ u.array = t.array
          /\ Sound(t) /\ t.uid \in 1..uids
      BY <2>1, <1>3, <1>5
    <3> HIDE DEF t, u
    <3>2. Sound(u)
      BY <3>1, Alike DEF Sound
    <3> QED BY <3>1, <3>2, <1>1 DEF u
  <2> QED BY <2>1, <1>1, <1>3, <1>6 DEF TablesWell, Tab
<1>11. Numbered'
  BY <1>5 DEF SlotInv, Numbered, Tab
<1>12. SharedWell'
  <2>1. ASSUME NEW p \in Obj, NEW s \in Obj, HasTable(p)', HasTable(s)', p # s, obj'[p].slots = obj'[s].slots
        PROVE  tab'[obj'[p].slots].shared
    <3> DEFINE x == obj'[p].slots
    <3>1. CASE p = o \/ s = o
      <4>1. HasTable(a) /\ x = obj[a].slots
        BY <3>1, <2>1, <1>4, <1>8
      <4>2. x \in Tab /\ tab[x] # Nil
        BY <4>1, <1>2, <1>3
      <4> QED BY <4>1, <4>2, <1>5
    <3>2. CASE p # o /\ s # o
      <4>1. HasTable(p) /\ HasTable(s) /\ obj'[p] = obj[p] /\ obj'[s] = obj[s]
        BY <3>2, <2>1, <1>4, <1>7
      <4>2. tab[obj[p].slots].shared /\ obj[p].slots \in Tab /\ tab[obj[p].slots] # Nil
        BY <4>1, <2>1, <1>3 DEF SlotInv, SharedWell
      <4> QED BY <4>1, <4>2, <1>5
    <3> QED BY <3>1, <3>2
  <2> QED BY <2>1 DEF SharedWell
<1>13. CachesWell'
  BY <1>1 DEF SlotInv, CachesWell
<1>14. CacheExact'
  <2>1. ASSUME NEW i \in Instr, NEW x \in Tab, tab'[x] # Nil, cache'[i].uid = tab'[x].uid
        PROVE  /\ cache'[i].array = tab'[x].array
               /\ cache'[i].at \in 1..Size(tab'[x]) /\ tab'[x].cells[cache'[i].at].k = KeyOf[i]
    <3>1. /\ tab[x] # Nil /\ cache[i].uid = tab[x].uid /\ cache' = cache
          /\ tab'[x].cells = tab[x].cells /\ tab'[x].array = tab[x].array
      BY <2>1, <1>1, <1>5
    <3>2. Size(tab'[x]) = Size(tab[x])
      BY <3>1 DEF Size
    <3> QED BY <3>1, <3>2 DEF SlotInv, CacheExact, Knows
  <2> QED BY <2>1 DEF CacheExact, Knows, Tab
<1> QED BY <1>9, <1>10, <1>11, <1>12, <1>13, <1>14 DEF SlotInv

(* Setting a prototype.                                                    *)
LEMMA PutProtoKeeps ==
  ASSUME SlotInv, NEW o \in Made, NEW p \in Obj \cup {Nil}, PutProto(o, p)
  PROVE  SlotInv'
<1>1. obj' = [obj EXCEPT ![o].proto = p] /\ tab' = tab /\ uids' = uids /\ cache' = cache
  BY DEF PutProto
<1>2. o \in Obj /\ obj[o] # Nil /\ obj \in [Obj -> Object \cup {Nil}] /\ obj[o] \in Object
  BY DEF Made, SlotInv, ObjectsWell
<1> DEFINE r == obj[o]
           q == [r EXCEPT !.proto = p]
<1>3. q \in Object /\ q.slots = obj[o].slots
  BY <1>2 DEF Object
<1>4. obj' = [obj EXCEPT ![o] = q]
  BY <1>1, <1>2
<1> HIDE DEF q
<1>5. q # Nil
  BY <1>3, SlotAssumption
<1>6. obj' \in [Obj -> Object \cup {Nil}] /\ \A s \in Obj : obj'[s] # Nil <=> obj[s] # Nil
  BY <1>2, <1>3, <1>4, <1>5
<1>7. \A s \in Obj : obj[s] # Nil => obj'[s].slots = obj[s].slots
  BY <1>2, <1>3, <1>4
<1>8. \A s \in Obj : HasTable(s)' <=> HasTable(s)
  BY <1>6, <1>7 DEF HasTable
<1>9. \A s \in Obj : HasTable(s) => obj'[s].slots = obj[s].slots
  BY <1>7 DEF HasTable
<1>10. ObjectsWell'
  BY <1>1, <1>6, <1>8, <1>9 DEF SlotInv, ObjectsWell, Tab
<1>11. SharedWell'
  BY <1>1, <1>8, <1>9 DEF SlotInv, SharedWell
<1>12. TablesWell' /\ Numbered' /\ CachesWell' /\ CacheExact'
  BY <1>1 DEF SlotInv, TablesWell, Numbered, CachesWell, CacheExact, Knows, Tab
<1> QED BY <1>10, <1>11, <1>12 DEF SlotInv

(* SET_SLOT, with what the instruction remembers and without.              *)
SetTo(i, o, v) ==
  LET t == OwnTable(o) IN
  IF Knows(i, t) THEN IF cache[i].array = t.array THEN [t EXCEPT !.cells[cache[i].at].v = v] ELSE t
  ELSE Assigned(t, KeyOf[i], v, Given(t))

LEMMA SetSlotIs ==
  ASSUME SlotInv, NEW i \in Instr, NEW o \in Made, NEW v \in Val, SetSlot(i, o, v)
  PROVE  LET t == OwnTable(o)  u == SetTo(i, o, v)  k == KeyOf[i] IN
         /\ Store(o, obj[o], u) /\ Writable(o, u)
         /\ Says(u, k) = v /\ \A l \in Key \ {k} : Says(u, l) = Says(t, l)
         /\ cache' \in [Instr -> [uid : Nat, array : Nat, at : Nat]]
         /\ \A j \in Instr : cache'[j] = cache[j] \/ Remembers(cache'[j], u, KeyOf[j])
<1> DEFINE t == OwnTable(o)
           u == SetTo(i, o, v)
           k == KeyOf[i]
<1>1. Store(o, obj[o], u)
  BY Zenon DEF SetSlot, SetTo
<1>2. cache' = IF Knows(i, t) THEN cache ELSE [cache EXCEPT ![i] = [uid |-> u.uid, array |-> u.array, at |-> At(u, k)]]
  BY Zenon DEF SetSlot, SetTo
<1>3. Size(u) <= MaxSize
  BY <1>1 DEF Store
<1>4. o \in Obj /\ k \in Key /\ v \in Val \cup {Nil} /\ v # Nil /\ Held(v) = v /\ uids \in Nat
  BY SlotAssumption DEF Made, Held, SlotInv, TablesWell
<1>5. /\ Sound(t) /\ Writable(o, t) /\ t.uid \in Nat /\ Fits(t) /\ Finds(t)
      /\ t.uid <= uids => HasTable(o) /\ t = TableOf(o)
  BY <1>4, OwnIs DEF Writable, Sound
<1>6. Given(t) \in Nat /\ uids <= Given(t)
  BY <1>4, <1>5, GivenIs
<1>7. u = IF Knows(i, t) THEN IF cache[i].array = t.array THEN [t EXCEPT !.cells[cache[i].at].v = v] ELSE t
          ELSE Assigned(t, k, v, Given(t))
  BY Zenon DEF SetTo
<1>8. cache \in [Instr -> [uid : Nat, array : Nat, at : Nat]] /\ cache[i].uid <= uids
  BY DEF SlotInv, CachesWell
<1> HIDE DEF t, u, k
<1>9. CASE Knows(i, t)
  <2> DEFINE n == cache[i].at
  <2>1. HasTable(o) /\ t = TableOf(o)
    BY <1>5, <1>8, <1>9 DEF Knows
  <2>2. obj[o].slots \in Tab /\ t = tab[obj[o].slots] /\ t # Nil
    BY <2>1, <1>4, TableIs
  <2>3. /\ cache[i].array = t.array /\ n \in 1..Size(t) /\ t.cells[n].k = k
    BY <2>2, <1>9 DEF SlotInv, CacheExact, k
  <2>4. k # Nil
    BY <1>4, SlotAssumption
  <2>5. At(t, k) = n /\ n # 0
    <3>1. At(t, k) = n
      BY <2>3, <2>4, <1>5 DEF Finds
    <3>2. Size(t) \in Nat
      BY <1>5, FitsParts
    <3> QED BY <3>1, <3>2, <2>3
  <2> HIDE DEF n
  <2>6. u = Put(t, n, k, v)
    <3>1. u = [t EXCEPT !.cells[n].v = v]
      BY <1>7, <1>9, <2>3 DEF n
    <3> DEFINE l == t.cells
               c == l[n]
    <3>2. l \in Seq(Entry) /\ Size(t) = Len(l)
      BY <1>5, FitsParts
    <3>3. c \in Entry /\ c.k = k /\ n \in DOMAIN l
      BY <3>2, <2>3
    <3>4. [c EXCEPT !.v = v] = [k |-> k, v |-> v]
      <4> HIDE DEF c
      <4> QED BY <3>3 DEF Entry
    <3>5. u = [t EXCEPT !.cells = [l EXCEPT ![n] = [l[n] EXCEPT !.v = v]]]
      BY <3>1, Zenon
    <3> QED BY <3>4, <3>5, Zenon DEF Put
  <2>7. Keeps(t, u, Given(t)) /\ \A l \in Key : Says(u, l) = IF l = k THEN Held(v) ELSE Says(t, l)
    BY <2>5, <2>6, <1>4, <1>5, PutKeeps, PutFinds
  <2>8. Writable(o, u)
    BY <2>7, <1>4, <1>5, <1>6, WrittenIs
  <2>9. cache' = cache
    BY <1>2, <1>9
  <2> QED BY <2>7, <2>8, <2>9, <1>1, <1>4, <1>8 DEF t, u, k
<1>10. CASE ~ Knows(i, t)
  <2>1. u = Assigned(t, k, v, Given(t))
    BY <1>7, <1>10
  <2>2. /\ Keeps(t, u, Given(t))
        /\ \A l \in Key \ {k} : Says(u, l) = Says(t, l)
        /\ Says(u, k) = v /\ At(u, k) \in 1..Size(u) /\ u.cells[At(u, k)].k = k
    BY <2>1, <1>3, <1>4, <1>5, <1>6, AssignedIs
  <2>3. Writable(o, u)
    BY <2>2, <1>4, <1>5, <1>6, WrittenIs
  <2> DEFINE c == [uid |-> u.uid, array |-> u.array, at |-> At(u, k)]
  <2>4. u.uid \in Nat /\ u.array \in Nat /\ At(u, k) \in Nat
    BY <2>2, FitsParts DEF Keeps
  <2>5. c \in [uid : Nat, array : Nat, at : Nat] /\ Remembers(c, u, k)
    BY <2>2, <2>4 DEF Remembers
  <2>6. cache' = [cache EXCEPT ![i] = c]
    BY <1>2, <1>10
  <2> HIDE DEF c
  <2>7. cache' \in [Instr -> [uid : Nat, array : Nat, at : Nat]]
    BY <2>5, <2>6, <1>8
  <2>8. \A j \in Instr : cache'[j] = cache[j] \/ Remembers(cache'[j], u, KeyOf[j])
    BY <2>5, <2>6, <1>8 DEF k
  <2> QED BY <2>2, <2>3, <2>7, <2>8, <1>1 DEF t, u, k
<1> QED BY <1>9, <1>10

LEMMA SetSlotKeeps ==
  ASSUME SlotInv, NEW i \in Instr, NEW o \in Made, NEW v \in Val, SetSlot(i, o, v)
  PROVE  SlotInv'
<1> DEFINE u == SetTo(i, o, v)
<1>1. /\ Store(o, obj[o], u) /\ Writable(o, u)
      /\ cache' \in [Instr -> [uid : Nat, array : Nat, at : Nat]]
      /\ \A j \in Instr : cache'[j] = cache[j] \/ Remembers(cache'[j], u, KeyOf[j])
  BY SetSlotIs
<1>2. o \in Obj /\ obj[o] \in Object
  BY DEF Made, SlotInv, ObjectsWell
<1> HIDE DEF u
<1> QED BY <1>1, <1>2, StoreKeeps

(* obj[k] = v, del obj[k].                                                 *)
LEMMA SetIndexIs ==
  ASSUME SlotInv, NEW o \in Made, NEW k \in Key, NEW v \in Val \cup {Nil}, SetIndex(o, k, v)
  PROVE  LET t == OwnTable(o)  u == Assigned(t, k, v, Given(t)) IN
         /\ Store(o, obj[o], u) /\ Writable(o, u) /\ cache' = cache
         /\ \A l \in Key \ {k} : Says(u, l) = Says(t, l)
         /\ v # Nil => Says(u, k) = v
         /\ v = Nil => Says(u, k) = Gone \/ (Says(u, k) = Absent /\ Says(t, k) = Absent)
<1> DEFINE t == OwnTable(o)
           u == Assigned(t, k, v, Given(t))
<1>1. Store(o, obj[o], u) /\ cache' = cache
  BY Zenon DEF SetIndex
<1>2. Size(u) <= MaxSize
  BY <1>1 DEF Store
<1>3. o \in Obj /\ uids \in Nat
  BY DEF Made, SlotInv, TablesWell
<1>4. Sound(t) /\ Writable(o, t) /\ t.uid \in Nat /\ Fits(t) /\ Finds(t)
  BY <1>3, OwnIs DEF Writable, Sound
<1>5. Given(t) \in Nat /\ uids <= Given(t)
  BY <1>3, <1>4, GivenIs
<1> DEFINE n == Given(t)
<1> HIDE DEF t, n
<1>6. /\ Keeps(t, u, n)
      /\ \A l \in Key \ {k} : Says(u, l) = Says(t, l)
      /\ v # Nil => Says(u, k) = v
      /\ v = Nil => Says(u, k) = Gone \/ (Says(u, k) = Absent /\ Says(t, k) = Absent)
  <2>1. u = Assigned(t, k, v, n)
    BY DEF n
  <2> HIDE DEF u
  <2> QED BY <2>1, <1>2, <1>4, <1>5, AssignedIs DEF n
<1> HIDE DEF u
<1>7. Writable(o, u)
  BY <1>3, <1>4, <1>5, <1>6, WrittenIs DEF n
<1> QED BY <1>1, <1>6, <1>7 DEF u, t, n

LEMMA SetIndexKeeps ==
  ASSUME SlotInv, NEW o \in Made, NEW k \in Key, NEW v \in Val \cup {Nil}, SetIndex(o, k, v)
  PROVE  SlotInv'
<1> DEFINE u == Assigned(OwnTable(o), k, v, Given(OwnTable(o)))
<1>1. Store(o, obj[o], u) /\ Writable(o, u) /\ cache' = cache
  BY SetIndexIs
<1>2. o \in Obj /\ obj[o] \in Object /\ cache \in [Instr -> [uid : Nat, array : Nat, at : Nat]]
  BY DEF Made, SlotInv, ObjectsWell, CachesWell
<1> HIDE DEF u
<1>3. cache' \in [Instr -> [uid : Nat, array : Nat, at : Nat]] /\ \A i \in Instr : cache'[i] = cache[i]
  BY <1>1, <1>2
<1> QED BY <1>1, <1>2, <1>3, StoreKeeps

(* ivm_object_merge.                                                       *)
MergeTo(a, b, overwrite) ==
  LET t == OwnTable(a) IN
  IF HasTable(a) THEN MergedTable(t, IF a = b THEN t ELSE TableOf(b), overwrite) ELSE CopyState(TableOf(b))

(* What is said of a key then, from what the two said.                     *)
Blend(a, b, overwrite, said) ==
  IF b = Absent THEN said = a
  ELSE IF overwrite THEN said = b \/ (said = Absent /\ b = Gone /\ a = Absent)
  ELSE said = IF a = Absent THEN b ELSE a
SaysOf(o, k) == IF HasTable(o) THEN Says(TableOf(o), k) ELSE Absent

LEMMA MergeIs ==
  ASSUME SlotInv, NEW a \in Made, NEW b \in Made, NEW overwrite \in BOOLEAN, Merge(a, b, overwrite)
  PROVE  LET u == MergeTo(a, b, overwrite) IN
         /\ Store(a, obj[a], u) /\ Writable(a, u) /\ cache' = cache
         /\ \A k \in Key : Blend(SaysOf(a, k), SaysOf(b, k), overwrite, Says(u, k))
<1> DEFINE u == MergeTo(a, b, overwrite)
<1>1. HasTable(b) /\ cache' = cache /\ a \in Obj /\ b \in Obj /\ uids \in Nat
  BY DEF Merge, Made, SlotInv, TablesWell
<1> DEFINE tb == TableOf(b)
<1>2. Fits(tb) /\ Finds(tb)
  BY <1>1, TableIs
<1>3. CASE ~ HasTable(a)
  <2>1. u = CopyState(tb)
    BY <1>3, Zenon DEF MergeTo
  <2>2. Store(a, obj[a], u)
    BY <2>1, <1>3 DEF Merge
  <2> HIDE DEF u
  <2>3. Sound(u) /\ u.uid = uids + 1 /\ \A k \in Key : Says(u, k) = Says(tb, k)
    BY <2>1, <1>1, <1>2, CopyIs
  <2>4. Writable(a, u)
    BY <2>3, <1>1 DEF Writable
  <2>5. \A k \in Key : Blend(SaysOf(a, k), SaysOf(b, k), overwrite, Says(u, k))
    BY <2>3, <1>1, <1>3 DEF Blend, SaysOf
  <2> QED BY <2>2, <2>4, <2>5, <1>1 DEF u
<1>4. CASE HasTable(a)
  <2> DEFINE t == OwnTable(a)
             other == IF a = b THEN t ELSE tb
             base == Given(t)
  <2>1. u = MergedTable(t, other, overwrite)
    BY <1>4, Zenon DEF MergeTo
  <2>2. Store(a, obj[a], MergedTable(t, other, overwrite)) /\ 2 * (Size(t) + Size(tb)) <= MaxSize
    BY <1>4, Zenon DEF Merge
  <2>3. /\ Sound(t) /\ Writable(a, t) /\ t.uid \in Nat /\ Fits(t) /\ Finds(t) /\ Size(t) = Size(TableOf(a))
        /\ \A k \in Key : Says(t, k) = Says(TableOf(a), k)
    BY <1>1, <1>4, OwnIs DEF Writable, Sound
  <2>4. base \in Nat /\ uids <= base
    BY <1>1, <2>3, GivenIs
  <2> HIDE DEF t
  <2>5. Fits(other) /\ Finds(other) /\ Size(other) = Size(tb) /\ \A k \in Key : Says(other, k) = Says(tb, k)
    <3>1. CASE a = b
      BY <3>1, <2>3
    <3>2. CASE a # b
      BY <3>2, <1>2
    <3> QED BY <3>1, <3>2
  <2> HIDE DEF other, u, base
  <2>6. Store(a, obj[a], u) /\ Size(u) <= MaxSize
    BY <2>1, <2>2 DEF Store
  <2>7. 2 * (Size(t) + Size(other)) <= MaxSize /\ Size(MergedTable(t, other, overwrite)) <= MaxSize
    BY <2>1, <2>2, <2>5, <2>6
  <2>8. base = Given(t)
    BY DEF base
  <2>9. Took(t, other, overwrite, Size(other), u, base)
    BY <2>1, <2>3, <2>4, <2>5, <2>7, <2>8, MergedIs
  <2>10. Sound(u) /\ uids < u.uid /\ u.uid \in Nat
    <3>1. Sound(u) /\ base < u.uid
      BY <2>9 DEF Took, Sound
    <3>2. u.uid \in Nat
      BY <3>1, FitsParts DEF Sound
    <3> QED BY <3>1, <3>2, <2>4, <1>1
  <2>11. Writable(a, u)
    BY <2>10 DEF Writable
  <2>12. ASSUME NEW k \in Key
         PROVE  Blend(SaysOf(a, k), SaysOf(b, k), overwrite, Says(u, k))
    <3>1. Mixed(t, other, overwrite, Size(other), k, Says(u, k))
      BY <2>9 DEF Took
    <3>2. SaysOf(a, k) = Says(t, k) /\ SaysOf(b, k) = Says(other, k)
      BY <2>3, <2>5, <1>1, <1>4 DEF SaysOf
    <3>3. HasKey(other, k) <=> Says(other, k) # Absent
      BY <2>5, AbsentIs
    <3> QED BY <3>1, <3>2, <3>3 DEF Mixed, Blend, HasKey
  <2> QED BY <2>6, <2>11, <2>12, <1>1 DEF u
<1> QED BY <1>3, <1>4

LEMMA MergeKeeps ==
  ASSUME SlotInv, NEW a \in Made, NEW b \in Made, NEW overwrite \in BOOLEAN, Merge(a, b, overwrite)
  PROVE  SlotInv'
<1> DEFINE u == MergeTo(a, b, overwrite)
<1>1. Store(a, obj[a], u) /\ Writable(a, u) /\ cache' = cache
  BY MergeIs
<1>2. a \in Obj /\ obj[a] \in Object /\ cache \in [Instr -> [uid : Nat, array : Nat, at : Nat]]
  BY DEF Made, SlotInv, ObjectsWell, CachesWell
<1> HIDE DEF u
<1>3. cache' \in [Instr -> [uid : Nat, array : Nat, at : Nat]] /\ \A i \in Instr : cache'[i] = cache[i]
  BY <1>1, <1>2
<1> QED BY <1>1, <1>2, <1>3, StoreKeeps

(***************************************************************************)
(* Prototypes: the objects from o on, one by one.                          *)
(***************************************************************************)
Up(f, o)   == f \in [Nat -> Obj \cup {Nil}] /\ f[0] = o /\ \A n \in Nat : f[n + 1] = Above[f[n]]
Within(f)  == {m \in 0 .. Cardinality(Obj) - 1 : f[m] # Nil}

LEMMA AboveIs ==
  ASSUME ObjectsWell
  PROVE  /\ \A o \in Obj \cup {Nil} : Above[o] \in Obj \cup {Nil}
         /\ Above[Nil] = Nil
         /\ \A o \in Obj : Above[o] = IF obj[o] = Nil THEN Nil ELSE obj[o].proto
<1>1. Above[Nil] = Nil
  BY DEF Above
<1>2. \A o \in Obj : Above[o] = IF obj[o] = Nil THEN Nil ELSE obj[o].proto
  BY SlotAssumption DEF Above
<1>3. ASSUME NEW o \in Obj
      PROVE  Above[o] \in Obj \cup {Nil}
  <2>1. obj[o] # Nil => obj[o] \in Object
    BY DEF ObjectsWell
  <2>2. obj[o] # Nil => obj[o].proto \in Obj \cup {Nil}
    BY <2>1 DEF Object
  <2> QED BY <2>2, <1>2
<1> QED BY <1>1, <1>2, <1>3

(* They are what Chain goes through.                                       *)
LEMMA ChainIs ==
  ASSUME ObjectsWell, NEW o \in Obj \cup {Nil}
  PROVE  \E f : Up(f, o) /\ Chain(o) = [n \in Within(f) |-> f[n]]
<1> DEFINE S == Obj \cup {Nil}
           G == [p \in S \X Nat |-> Above[p[1]]]
           F(g) == [n \in Nat |-> IF n = 0 THEN o ELSE Above[g[n - 1]]]
           next == CHOOSE g : g = F(g)
<1>1. ASSUME NEW x \in S, NEW n \in Nat
      PROVE  G[<<x, n>>] = Above[x] /\ Above[x] \in S
  BY AboveIs
<1>2. PICK f \in [Nat -> S] : f[0] = o /\ \A n \in Nat : f[n + 1] = Above[f[n]]
  <2>1. Closed(S, G)
    BY <1>1 DEF Closed
  <2>2. o \in S
    OBVIOUS
  <2>3. \A n \in Nat : n + 1 \in Nat
    OBVIOUS
  <2> HIDE DEF S, G
  <2>4. PICK f \in [Nat -> S] : Steps(f, o, G)
    BY <2>1, <2>2, Iterates
  <2>5. ASSUME NEW n \in Nat
        PROVE  f[n + 1] = Above[f[n]]
    BY <2>3, <2>4, <1>1 DEF Steps
  <2> QED BY <2>4, <2>5 DEF Steps
<1>3. f = F(f)
  <2>1. ASSUME NEW n \in Nat
        PROVE  f[n] = IF n = 0 THEN o ELSE Above[f[n - 1]]
    <3>1. CASE n = 0
      BY <3>1, <1>2
    <3>2. CASE n # 0
      <4>1. n - 1 \in Nat /\ (n - 1) + 1 = n
        BY <3>2
      <4>2. f[(n - 1) + 1] = Above[f[n - 1]]
        BY <4>1, <1>2
      <4> QED BY <4>1, <4>2, <3>2
    <3> QED BY <3>1, <3>2
  <2> QED BY <2>1, <1>2
<1>4. next = F(next)
  BY <1>3
<1>5. Chain(o) = [n \in {m \in 0 .. Cardinality(Obj) - 1 : next[m] # Nil} |-> next[n]]
  BY DEF Chain
<1> HIDE DEF next
<1>6. next[0] = o
  BY <1>4
<1>7. ASSUME NEW n \in Nat
      PROVE  next[n + 1] = Above[next[n]]
  <2>1. n + 1 \in Nat /\ n + 1 # 0 /\ (n + 1) - 1 = n
    OBVIOUS
  <2>2. next[n + 1] = F(next)[n + 1]
    BY <1>4
  <2> QED BY <2>1, <2>2
<1> DEFINE Bad == {n \in Nat : next[n] \notin S}
<1>8. Bad = {}
  <2> SUFFICES ASSUME Bad # {}
               PROVE  FALSE
    OBVIOUS
  <2>1. Bad \subseteq Nat
    OBVIOUS
  <2>2. PICK n \in Bad : \A y \in Bad : n <= y
    BY <2>1, LeastOf
  <2>3. n \in Nat /\ n # 0 /\ next[n] \notin S
    BY <1>6
  <2>4. n - 1 \in Nat /\ ~ (n <= n - 1) /\ (n - 1) + 1 = n
    BY <2>3
  <2>5. next[n - 1] \in S
    BY <2>2, <2>4
  <2>6. next[n] = Above[next[n - 1]]
    BY <2>4, <1>7
  <2> QED BY <2>3, <2>5, <2>6, <1>1
<1>9. next \in [Nat -> S]
  <2>1. next = [n \in Nat |-> next[n]]
    BY <1>4
  <2> QED BY <2>1, <1>8
<1>10. Up(next, o)
  BY <1>6, <1>7, <1>9 DEF Up
<1> QED BY <1>5, <1>10 DEF Within

(* The first of them in a set.                                             *)
First(o, S) ==
  LET hits == {n \in DOMAIN Chain(o) : Chain(o)[n] \in S} IN IF hits = {} THEN Nil ELSE Chain(o)[Min(hits)]

LEMMA FirstIs ==
  ASSUME ObjectsWell, NEW o \in Obj \cup {Nil}, NEW S, First(o, S) # Nil
  PROVE  First(o, S) \in S
<1>1. PICK f : Up(f, o) /\ Chain(o) = [n \in Within(f) |-> f[n]]
  BY ChainIs
<1> DEFINE hits == {n \in DOMAIN Chain(o) : Chain(o)[n] \in S}
<1>2. hits \subseteq Nat
  BY <1>1 DEF Within
<1>3. \A n \in hits : Chain(o)[n] \in S
  OBVIOUS
<1>4. First(o, S) = IF hits = {} THEN Nil ELSE Chain(o)[Min(hits)]
  BY DEF First
<1> HIDE DEF hits
<1>5. hits # {}
  BY <1>4
<1>6. Min(hits) \in hits
  BY <1>2, <1>5, MinIs
<1> QED BY <1>3, <1>4, <1>5, <1>6

(* What an instruction finds in one table: a cell with its key.            *)
HasFor(i) == {p \in Obj : CellFor(i, p) # 0}
HasOf(k)  == {p \in Obj : CellOf(p, k) # 0}

LEMMA FoundIs ==
  ASSUME NEW t, Fits(t), Finds(t), NEW k \in Key
  PROVE  /\ Found(t, k) # 0 => Found(t, k) \in 1..Size(t) /\ t.cells[Found(t, k)].k = k /\ t.cells[Found(t, k)].v \in Val
         /\ \A j \in 1..Size(t) : t.cells[j].k = k => Found(t, k) = IF t.cells[j].v = Nil THEN 0 ELSE j
         /\ Found(t, k) # 0 <=> Says(t, k) \in Val
         /\ Found(t, k) # 0 => Says(t, k) = t.cells[Found(t, k)].v
<1> DEFINE i == At(t, k)
<1>1. i \in 0..Size(t) /\ Size(t) \in Nat /\ k # Nil
  BY AtIs, FitsParts, SlotAssumption
<1>2. Found(t, k) = IF i # 0 /\ t.cells[i].k = k /\ t.cells[i].v # Nil THEN i ELSE 0
  BY DEF Found
<1>3. ASSUME NEW j \in 1..Size(t), t.cells[j].k = k
      PROVE  i = j
  BY <1>3, <1>1 DEF Finds
<1> HIDE DEF i
<1>4. i # 0 => i \in 1..Size(t)
  BY <1>1
<1>5. \A j \in 1..Size(t) : j # 0 /\ t.cells[j].v \in Val \cup {Nil}
  BY <1>1, FitsParts DEF Entry
<1>6. ASSUME Found(t, k) # 0
      PROVE  /\ Found(t, k) \in 1..Size(t) /\ t.cells[Found(t, k)].k = k /\ t.cells[Found(t, k)].v \in Val
             /\ Says(t, k) = t.cells[Found(t, k)].v
  <2>1. Found(t, k) \in 1..Size(t) /\ t.cells[Found(t, k)].k = k /\ t.cells[Found(t, k)].v # Nil
    BY <1>2, <1>4, <1>6
  <2>2. Says(t, k) = Held(t.cells[Found(t, k)].v)
    BY <2>1, SaysIs
  <2> QED BY <2>1, <2>2, <1>5 DEF Held
<1>7. ASSUME NEW j \in 1..Size(t), t.cells[j].k = k
      PROVE  Found(t, k) = IF t.cells[j].v = Nil THEN 0 ELSE j
  BY <1>2, <1>3, <1>5, <1>7
<1>8. ASSUME Found(t, k) = 0
      PROVE  Says(t, k) \notin Val
  <2>1. CASE HasKey(t, k)
    <3>1. PICK j \in 1..Size(t) : t.cells[j].k = k
      BY <2>1 DEF HasKey
    <3>2. t.cells[j].v = Nil
      BY <3>1, <1>5, <1>7, <1>8
    <3>3. Says(t, k) = Gone
      BY <3>1, <3>2, SaysIs DEF Held
    <3> QED BY <3>3, SlotAssumption
  <2>2. CASE ~ HasKey(t, k)
    BY <2>2, SaysIs, SlotAssumption
  <2> QED BY <2>1, <2>2
<1> QED BY <1>6, <1>7, <1>8

LEMMA CellForIs ==
  ASSUME SlotInv, NEW i \in Instr, NEW p \in Obj
  PROVE  /\ CellFor(i, p) = CellOf(p, KeyOf[i])
         /\ CellFor(i, p) # 0 => HasTable(p) /\ CellFor(i, p) \in 1..Size(TableOf(p))
                                 /\ TableOf(p).cells[CellFor(i, p)].k = KeyOf[i]
<1> DEFINE t == TableOf(p)
           k == KeyOf[i]
           n == cache[i].at
<1>1. k \in Key
  BY SlotAssumption
<1>2. CASE ~ HasTable(p)
  <2>1. CellFor(i, p) = 0 /\ CellOf(p, k) = 0
    BY <1>2, Zenon DEF CellFor, CellOf
  <2> QED BY <2>1
<1>3. CASE HasTable(p)
  <2>1. Fits(t) /\ Finds(t) /\ obj[p].slots \in Tab /\ t = tab[obj[p].slots] /\ t # Nil
    BY <1>3, TableIs
  <2>2. CellOf(p, k) = Found(t, k)
    BY <1>3 DEF CellOf
  <2>3. Found(t, k) # 0 => Found(t, k) \in 1..Size(t) /\ t.cells[Found(t, k)].k = k
    BY <2>1, <1>1, FoundIs
  <2>4. CASE Knows(i, t)
    <3>1. cache[i].array = t.array /\ n \in 1..Size(t) /\ t.cells[n].k = k
      BY <2>1, <2>4 DEF SlotInv, CacheExact
    <3>2. CellFor(i, p) = IF cache[i].array = t.array /\ t.cells[n].v # Nil THEN n ELSE 0
      BY <1>3, <2>4, Zenon DEF CellFor
    <3>3. Found(t, k) = IF t.cells[n].v = Nil THEN 0 ELSE n
      BY <2>1, <3>1, <1>1, FoundIs
    <3>4. CellFor(i, p) = Found(t, k)
      BY <3>1, <3>2, <3>3
    <3> QED BY <3>4, <2>2, <2>3, <1>3
  <2>5. CASE ~ Knows(i, t)
    <3>1. CellFor(i, p) = Found(t, k)
      BY <1>3, <2>5, Zenon DEF CellFor
    <3> QED BY <3>1, <2>2, <2>3, <1>3
  <2> QED BY <2>4, <2>5
<1> QED BY <1>2, <1>3

(* What is searched along the prototypes, as a set.                        *)
LEMMA HolderIs ==
  ASSUME ObjectsWell, NEW o \in Obj
  PROVE  /\ \A i \in Instr : Holder(o, LAMBDA q : CellFor(i, q)) = First(o, HasFor(i))
         /\ \A k \in Key : Holder(o, LAMBDA q : CellOf(q, k)) = First(o, HasOf(k))
<1>1. PICK f : Up(f, o) /\ Chain(o) = [n \in Within(f) |-> f[n]]
  BY ChainIs
<1>2. ASSUME NEW n \in DOMAIN Chain(o)
      PROVE  Chain(o)[n] \in Obj
  <2>1. n \in Nat /\ f[n] # Nil /\ Chain(o)[n] = f[n]
    BY <1>1 DEF Within
  <2> QED BY <2>1, <1>1 DEF Up
<1>3. ASSUME NEW i \in Instr
      PROVE  Holder(o, LAMBDA q : CellFor(i, q)) = First(o, HasFor(i))
  <2> DEFINE hits1 == {n \in DOMAIN Chain(o) : CellFor(i, Chain(o)[n]) # 0}
             hits2 == {n \in DOMAIN Chain(o) : Chain(o)[n] \in HasFor(i)}
  <2>1. hits1 = hits2
    BY <1>2 DEF HasFor
  <2>2. Holder(o, LAMBDA q : CellFor(i, q)) = IF hits1 = {} THEN Nil ELSE Chain(o)[Min(hits1)]
    BY Zenon DEF Holder
  <2>3. First(o, HasFor(i)) = IF hits2 = {} THEN Nil ELSE Chain(o)[Min(hits2)]
    BY Zenon DEF First
  <2> QED BY <2>1, <2>2, <2>3
<1>4. ASSUME NEW k \in Key
      PROVE  Holder(o, LAMBDA q : CellOf(q, k)) = First(o, HasOf(k))
  <2> DEFINE hits1 == {n \in DOMAIN Chain(o) : CellOf(Chain(o)[n], k) # 0}
             hits2 == {n \in DOMAIN Chain(o) : Chain(o)[n] \in HasOf(k)}
  <2>1. hits1 = hits2
    BY <1>2 DEF HasOf
  <2>2. Holder(o, LAMBDA q : CellOf(q, k)) = IF hits1 = {} THEN Nil ELSE Chain(o)[Min(hits1)]
    BY Zenon DEF Holder
  <2>3. First(o, HasOf(k)) = IF hits2 = {} THEN Nil ELSE Chain(o)[Min(hits2)]
    BY Zenon DEF First
  <2> QED BY <2>1, <2>2, <2>3
<1> QED BY <1>3, <1>4

LEMMA GetSlotKeeps ==
  ASSUME SlotInv, NEW i \in Instr, NEW o \in Made, GetSlot(i, o)
  PROVE  SlotInv'
<1> DEFINE p == First(o, HasFor(i))
           c == [uid |-> TableOf(p).uid, array |-> TableOf(p).array, at |-> CellFor(i, p)]
<1>1. o \in Obj /\ ObjectsWell
  BY DEF Made, SlotInv
<1>2. Holder(o, LAMBDA q : CellFor(i, q)) = p
  BY <1>1, HolderIs
<1>3. p # Nil /\ cache' = [cache EXCEPT ![i] = c] /\ obj' = obj /\ tab' = tab /\ uids' = uids
  BY <1>2 DEF GetSlot
<1>4. p \in HasFor(i)
  BY <1>1, <1>3, FirstIs
<1> HIDE DEF p
<1>5. p \in Obj /\ CellFor(i, p) # 0
  BY <1>4 DEF HasFor
<1> DEFINE t == TableOf(p)
<1>6. HasTable(p) /\ CellFor(i, p) \in 1..Size(t) /\ t.cells[CellFor(i, p)].k = KeyOf[i]
  BY <1>5, CellForIs
<1>7. t = tab[obj[p].slots] /\ t # Nil /\ Sound(t) /\ t.uid = t.array /\ t.uid \in 1..uids /\ t.uid \in Nat /\ obj[p].slots \in Tab
  BY <1>5, <1>6, TableIs
<1>8. c.uid = t.uid /\ c.array = t.array /\ c.at \in 1..Size(t) /\ t.cells[c.at].k = KeyOf[i]
      /\ c \in [uid : Nat, array : Nat, at : Nat]
  <2>1. Size(t) \in Nat
    BY <1>7, FitsParts DEF Sound
  <2>2. CellFor(i, p) \in Nat
    BY <2>1, <1>6
  <2> QED BY <2>2, <1>6, <1>7
<1> HIDE DEF c
<1>9. cache \in [Instr -> [uid : Nat, array : Nat, at : Nat]] /\ uids \in Nat
  BY DEF SlotInv, CachesWell, TablesWell
<1>10. cache' \in [Instr -> [uid : Nat, array : Nat, at : Nat]] /\ cache'[i] = c
       /\ \A j \in Instr \ {i} : cache'[j] = cache[j]
  BY <1>3, <1>8, <1>9
<1>11. CachesWell'
  <2>1. ASSUME NEW j \in Instr
        PROVE  cache'[j].uid = cache'[j].array /\ cache'[j].uid <= uids
    <3>1. CASE j = i
      BY <3>1, <1>7, <1>8, <1>9, <1>10
    <3>2. CASE j # i
      BY <3>2, <1>10 DEF SlotInv, CachesWell
    <3> QED BY <3>1, <3>2
  <2> QED BY <2>1, <1>3, <1>10 DEF CachesWell
<1>12. CacheExact'
  <2>1. ASSUME NEW j \in Instr, NEW x \in Tab, tab[x] # Nil, cache'[j].uid = tab[x].uid
        PROVE  /\ cache'[j].array = tab[x].array
               /\ cache'[j].at \in 1..Size(tab[x]) /\ tab[x].cells[cache'[j].at].k = KeyOf[j]
    <3>1. CASE j = i
      <4>1. tab[x] = t
        BY <3>1, <2>1, <1>7, <1>8, <1>10 DEF SlotInv, Numbered
      <4> QED BY <3>1, <4>1, <1>8, <1>10
    <3>2. CASE j # i
      BY <3>2, <2>1, <1>10 DEF SlotInv, CacheExact, Knows
    <3> QED BY <3>1, <3>2
  <2> QED BY <2>1, <1>3 DEF CacheExact, Knows, Tab
<1>13. ObjectsWell' /\ TablesWell' /\ Numbered' /\ SharedWell'
  BY <1>3 DEF SlotInv, ObjectsWell, TablesWell, Numbered, SharedWell, HasTable, Tab
<1> QED BY <1>11, <1>12, <1>13 DEF SlotInv

(* The order of the tables that move.                                      *)
LEMMA RankIs ==
  ASSUME NEW S, IsFiniteSet(S), S \subseteq Nat, NEW x \in S
  PROVE  LET rank(y) == Cardinality({z \in S : z < y}) IN
         /\ rank(x) \in Nat /\ Cardinality(S) \in Nat /\ rank(x) + 1 <= Cardinality(S)
         /\ \A y \in S : x < y => rank(x) + 1 <= rank(y) /\ rank(y) \in Nat
<1> DEFINE low(y) == {z \in S : z < y}
<1>1. ASSUME NEW T \in SUBSET S, x \in T, low(x) \subseteq T
      PROVE  /\ Cardinality(low(x)) \in Nat /\ Cardinality(T) \in Nat
             /\ Cardinality(low(x)) + 1 <= Cardinality(T)
  <2>1. IsFiniteSet(T) /\ Cardinality(T) \in Nat
    BY FS_Subset, FS_CardinalityType
  <2>2. IsFiniteSet(T \ {x}) /\ Cardinality(T \ {x}) = Cardinality(T) - 1
    BY <2>1, <1>1, FS_RemoveElement
  <2>3. low(x) \in SUBSET (T \ {x})
    BY <1>1
  <2> HIDE DEF low
  <2>4. IsFiniteSet(low(x)) /\ Cardinality(low(x)) <= Cardinality(T \ {x})
    BY <2>2, <2>3, FS_Subset
  <2>5. Cardinality(low(x)) \in Nat
    BY <2>4, FS_CardinalityType
  <2> QED BY <2>1, <2>2, <2>4, <2>5
<1>2. /\ Cardinality(low(x)) \in Nat /\ Cardinality(S) \in Nat /\ Cardinality(low(x)) + 1 <= Cardinality(S)
  BY <1>1
<1>3. ASSUME NEW y \in S, x < y
      PROVE  Cardinality(low(x)) + 1 <= Cardinality(low(y)) /\ Cardinality(low(y)) \in Nat
  <2>1. low(y) \in SUBSET S /\ x \in low(y) /\ low(x) \subseteq low(y)
    <3>1. x \in Nat /\ y \in Nat
      OBVIOUS
    <3>2. \A z \in S : z < x => z < y
      BY <3>1, <1>3
    <3> QED BY <3>2, <1>3
  <2> HIDE DEF low
  <2> QED BY <2>1, <1>1
<1> QED BY <1>2, <1>3

LEMMA MovedIs ==
  ASSUME NEW t, Fits(t), Finds(t), NEW n \in Nat
  PROVE  LET u == Moved(t, n) IN
         /\ u \in Table /\ Sound(u) /\ Size(u) = Size(t) /\ u.cells = t.cells /\ u.hash = t.hash /\ u.shared = t.shared
         /\ u.uid = n + 1 /\ u.array = n + 1
<1> DEFINE u == Moved(t, n)
<1>0. t \in Table /\ n + 1 \in Nat
  BY DEF Fits
<1>1. /\ u \in Table /\ u.cells = t.cells /\ u.hash = t.hash /\ u.shared = t.shared
      /\ u.uid = n + 1 /\ u.array = n + 1
  BY <1>0 DEF Table, Moved
<1> HIDE DEF u
<1>2. Fits(u) /\ Finds(u) /\ Size(u) = Size(t)
  BY <1>1, Alike
<1> QED BY <1>1, <1>2 DEF Sound, u

LEMMA CollectIs ==
  ASSUME "restart" \notin Quirks,
         SlotInv, NEW moves \in SUBSET {x \in Tab : tab[x] # Nil}, Collect(moves)
  PROVE  /\ obj' = obj /\ tab' \in [Tab -> Table \cup {Nil}] /\ uids' \in Nat
         /\ \A x \in Tab : /\ tab'[x] = Nil <=> tab[x] = Nil
                           /\ tab[x] # Nil =>
                                /\ Sound(tab'[x]) /\ tab'[x].uid \in 1..uids'
                                /\ Size(tab'[x]) = Size(tab[x]) /\ tab'[x].cells = tab[x].cells
                                /\ tab'[x].hash = tab[x].hash /\ tab'[x].shared = tab[x].shared
         /\ Numbered'
         /\ \/ cache' = cache /\ uids <= uids' /\ \A x \in Tab : tab'[x] = tab[x] \/ uids < tab'[x].uid
            \/ cache' = Forgotten
<1> DEFINE again == uids >= UidLimit
           base  == IF again THEN 0 ELSE uids
           rank(x) == Cardinality({y \in moves : y < x})
           size == Cardinality(moves)
<1>1. /\ obj' = obj /\ uids' = base + size
      /\ tab' = [x \in Tab |-> IF x \in moves THEN Moved(tab[x], base + rank(x)) ELSE tab[x]]
      /\ cache' = IF again THEN Forgotten ELSE cache
      /\ again => moves = {x \in Tab : tab[x] # Nil}
  BY DEF Collect
<1>2. /\ tab \in [Tab -> Table \cup {Nil}] /\ uids \in Nat
      /\ \A x \in Tab : tab[x] # Nil => Sound(tab[x]) /\ tab[x].uid \in 1..uids
  BY DEF SlotInv, TablesWell
<1>3. IsFiniteSet(moves) /\ moves \subseteq Nat /\ size \in Nat /\ moves \subseteq Tab
  <2>1. IsFiniteSet(Obj)
    BY SlotAssumption
  <2>2. Cardinality(Obj) \in Nat
    BY <2>1, FS_CardinalityType
  <2>3. IsFiniteSet(1..Cardinality(Obj)) /\ moves \in SUBSET (1..Cardinality(Obj))
    BY <2>2, FS_Interval DEF Tab
  <2>4. IsFiniteSet(moves)
    BY <2>3, FS_Subset
  <2>5. size \in Nat
    BY <2>4, FS_CardinalityType
  <2> QED BY <2>3, <2>4, <2>5
<1>4. \A x \in moves : /\ rank(x) \in Nat /\ rank(x) + 1 <= size
                       /\ \A y \in moves : x < y => rank(x) + 1 <= rank(y)
  BY <1>3, RankIs
<1>5. base \in Nat
  BY <1>2
<1>6. \A x \in moves : x \in Tab /\ tab[x] # Nil
  OBVIOUS
<1> HIDE DEF rank, size
<1>7. ASSUME NEW x \in moves
      PROVE  /\ tab'[x] = Moved(tab[x], base + rank(x)) /\ tab'[x] \in Table /\ Sound(tab'[x])
             /\ tab'[x].uid = base + rank(x) + 1 /\ tab'[x].uid \in 1..uids'
             /\ Size(tab'[x]) = Size(tab[x]) /\ tab'[x].cells = tab[x].cells
             /\ tab'[x].hash = tab[x].hash /\ tab'[x].shared = tab[x].shared
  <2> DEFINE t == tab[x]
             n == base + rank(x)
  <2>1. tab'[x] = Moved(t, n) /\ n \in Nat /\ Fits(t) /\ Finds(t)
    BY <1>1, <1>2, <1>4, <1>5, <1>6 DEF Sound
  <2>2. n + 1 \in 1..uids'
    BY <1>1, <1>3, <1>4, <1>5
  <2> HIDE DEF n, t
  <2>3. /\ tab'[x] \in Table /\ Sound(tab'[x]) /\ Size(tab'[x]) = Size(t) /\ tab'[x].cells = t.cells
        /\ tab'[x].hash = t.hash /\ tab'[x].shared = t.shared /\ tab'[x].uid = n + 1
    BY <2>1, MovedIs
  <2> QED BY <2>1, <2>2, <2>3 DEF n, t
<1>8. \A x \in Tab \ moves : tab'[x] = tab[x]
  BY <1>1, <1>2
<1> HIDE DEF base, again
<1>9. ASSUME NEW x \in Tab \ moves, tab[x] # Nil
      PROVE  base = uids /\ uids <= uids' /\ ~ again
  <2>1. ~ again
    BY <1>1, <1>9
  <2>2. base = uids
    BY <2>1 DEF base
  <2> QED BY <2>1, <2>2, <1>1, <1>2, <1>3
<1>10. tab' \in [Tab -> Table \cup {Nil}]
  <2>1. \A x \in Tab : tab'[x] \in Table \cup {Nil}
    BY <1>2, <1>7, <1>8
  <2>2. tab' = [x \in Tab |-> tab'[x]]
    BY <1>1
  <2> QED BY <2>1, <2>2
<1>11. uids' \in Nat
  BY <1>1, <1>3, <1>5
<1>12. ASSUME NEW x \in Tab
       PROVE  tab'[x] = Nil <=> tab[x] = Nil
  <2>1. CASE x \in moves
    BY <2>1, <1>6, <1>7, SlotAssumption
  <2>2. CASE x \notin moves
    BY <2>2, <1>8
  <2> QED BY <2>1, <2>2
<1>13. ASSUME NEW x \in Tab, tab[x] # Nil
       PROVE  /\ Sound(tab'[x]) /\ tab'[x].uid \in 1..uids'
              /\ Size(tab'[x]) = Size(tab[x]) /\ tab'[x].cells = tab[x].cells
              /\ tab'[x].hash = tab[x].hash /\ tab'[x].shared = tab[x].shared
  <2>1. CASE x \in moves
    BY <2>1, <1>7
  <2>2. CASE x \notin moves
    <3>1. tab'[x] = tab[x] /\ uids <= uids' /\ Sound(tab[x]) /\ tab[x].uid \in 1..uids
      BY <2>2, <1>2, <1>8, <1>9, <1>13
    <3> QED BY <3>1, <1>2, <1>11
  <2> QED BY <2>1, <2>2
<1>14. ASSUME NEW x \in Tab, NEW y \in Tab, tab'[x] # Nil, tab'[y] # Nil, x # y
       PROVE  tab'[x].uid # tab'[y].uid
  <2>1. CASE x \in moves /\ y \in moves
    <3>1. x \in Nat /\ y \in Nat
      BY <2>1, <1>3
    <3>2. x < y \/ y < x
      BY <3>1, <1>14
    <3>3. rank(x) # rank(y) /\ rank(x) \in Nat /\ rank(y) \in Nat
      BY <3>2, <2>1, <1>4
    <3> QED BY <3>3, <2>1, <1>5, <1>7
  <2>2. CASE x \in moves /\ y \notin moves
    <3>1. tab'[y] = tab[y] /\ tab[y].uid \in 1..uids /\ base = uids
      BY <2>2, <1>2, <1>8, <1>9, <1>14
    <3> QED BY <3>1, <2>2, <1>2, <1>4, <1>7
  <2>3. CASE x \notin moves /\ y \in moves
    <3>1. tab'[x] = tab[x] /\ tab[x].uid \in 1..uids /\ base = uids
      BY <2>3, <1>2, <1>8, <1>9, <1>14
    <3> QED BY <3>1, <2>3, <1>2, <1>4, <1>7
  <2>4. CASE x \notin moves /\ y \notin moves
    BY <2>4, <1>8, <1>14 DEF SlotInv, Numbered
  <2> QED BY <2>1, <2>2, <2>3, <2>4
<1>15. Numbered'
  BY <1>14 DEF Numbered, Tab
<1>16. \/ cache' = cache /\ uids <= uids' /\ \A x \in Tab : tab'[x] = tab[x] \/ uids < tab'[x].uid
       \/ cache' = Forgotten
  <2>1. CASE again
    BY <2>1, <1>1
  <2>2. CASE ~ again
    <3>1. base = uids
      BY <2>2 DEF base
    <3>2. uids <= uids'
      BY <3>1, <1>1, <1>2, <1>3
    <3>3. ASSUME NEW x \in moves
          PROVE  uids < tab'[x].uid
      BY <3>1, <1>2, <1>4, <1>7
    <3> QED BY <3>2, <3>3, <1>1, <1>8, <2>2
  <2> QED BY <2>1, <2>2
<1> QED BY <1>1, <1>10, <1>11, <1>12, <1>13, <1>15, <1>16

LEMMA CollectKeeps ==
  ASSUME "restart" \notin Quirks,
         SlotInv, NEW moves \in SUBSET {x \in Tab : tab[x] # Nil}, Collect(moves)
  PROVE  SlotInv'
<1>1. /\ obj' = obj /\ tab' \in [Tab -> Table \cup {Nil}] /\ uids' \in Nat
      /\ \A x \in Tab : /\ tab'[x] = Nil <=> tab[x] = Nil
                        /\ tab[x] # Nil =>
                             /\ Sound(tab'[x]) /\ tab'[x].uid \in 1..uids'
                             /\ Size(tab'[x]) = Size(tab[x]) /\ tab'[x].cells = tab[x].cells
                             /\ tab'[x].hash = tab[x].hash /\ tab'[x].shared = tab[x].shared
      /\ Numbered'
      /\ \/ cache' = cache /\ uids <= uids' /\ \A x \in Tab : tab'[x] = tab[x] \/ uids < tab'[x].uid
         \/ cache' = Forgotten
  BY CollectIs
<1>2. ObjectsWell'
  BY <1>1 DEF SlotInv, ObjectsWell, HasTable, Tab
<1>3. TablesWell'
  BY <1>1 DEF TablesWell, Tab
<1>4. SharedWell'
  BY <1>1 DEF SlotInv, SharedWell, HasTable, ObjectsWell
<1>5. CASE cache' = Forgotten
  <2>1. CachesWell'
    BY <1>1, <1>5 DEF CachesWell, Forgotten
  <2>2. \A x \in Tab : tab'[x] # Nil => tab'[x].uid # 0
    BY <1>1
  <2>3. \A i \in Instr : cache'[i].uid = 0
    BY <1>5 DEF Forgotten
  <2>4. CacheExact'
    BY <2>2, <2>3 DEF CacheExact, Knows, Tab
  <2> QED BY <2>1, <2>4, <1>1, <1>2, <1>3, <1>4 DEF SlotInv
<1>6. CASE cache' = cache /\ uids <= uids' /\ \A x \in Tab : tab'[x] = tab[x] \/ uids < tab'[x].uid
  <2>1. /\ cache \in [Instr -> [uid : Nat, array : Nat, at : Nat]] /\ uids \in Nat
        /\ \A i \in Instr : cache[i].uid = cache[i].array /\ cache[i].uid <= uids /\ cache[i].uid \in Nat
    BY DEF SlotInv, CachesWell, TablesWell
  <2>2. CachesWell'
    BY <2>1, <1>1, <1>6 DEF CachesWell
  <2>3. ASSUME NEW i \in Instr, NEW x \in Tab, tab'[x] # Nil, cache'[i].uid = tab'[x].uid
        PROVE  /\ cache'[i].array = tab'[x].array
               /\ cache'[i].at \in 1..Size(tab'[x]) /\ tab'[x].cells[cache'[i].at].k = KeyOf[i]
    <3>1. tab'[x] = tab[x]
      <4>1. tab'[x].uid \in Nat
        BY <1>1, <2>3
      <4> QED BY <4>1, <2>1, <2>3, <1>6
    <3> QED BY <3>1, <2>3, <1>6 DEF SlotInv, CacheExact, Knows
  <2>4. CacheExact'
    BY <2>3 DEF CacheExact, Knows, Tab
  <2> QED BY <2>2, <2>4, <1>1, <1>2, <1>3, <1>4 DEF SlotInv
<1> QED BY <1>1, <1>5, <1>6

(* Every step keeps it.                                                    *)
LEMMA NextKeeps ==
  ASSUME "restart" \notin Quirks, SlotInv, [Next]_vars
  PROVE  SlotInv'
<1>1. ASSUME NEW o \in Obj, NEW init \in Prealloc \cup {0}, New(o, init)
      PROVE  SlotInv'
  BY <1>1, NewKeeps
<1>2. ASSUME NEW a \in Made, NEW o \in Obj, Clone(a, o)
      PROVE  SlotInv'
  BY <1>2, CloneKeeps
<1>3. ASSUME NEW i \in Instr, NEW o \in Made, NEW v \in Val, SetSlot(i, o, v)
      PROVE  SlotInv'
  BY <1>3, SetSlotKeeps
<1>4. ASSUME NEW o \in Made, NEW k \in Key, NEW v \in Val \cup {Nil}, SetIndex(o, k, v)
      PROVE  SlotInv'
  BY <1>4, SetIndexKeeps
<1>5. ASSUME NEW o \in Made, NEW p \in Made, SetProto(o, p)
      PROVE  SlotInv'
  <2>1. p \in Obj \cup {Nil} /\ PutProto(o, p)
    BY <1>5 DEF SetProto, Made
  <2> QED BY <2>1, PutProtoKeeps
<1>6. ASSUME NEW o \in Made, NEW p \in Made \cup {Nil}, SetProtoSlot(o, p)
      PROVE  SlotInv'
  <2>1. p \in Obj \cup {Nil} /\ PutProto(o, p)
    BY <1>6 DEF SetProtoSlot, Made
  <2> QED BY <2>1, PutProtoKeeps
<1>7. ASSUME NEW a \in Made, NEW b \in Made, NEW overwrite \in BOOLEAN, Merge(a, b, overwrite)
      PROVE  SlotInv'
  BY <1>7, MergeKeeps
<1>8. ASSUME NEW i \in Instr, NEW o \in Made, GetSlot(i, o)
      PROVE  SlotInv'
  BY <1>8, GetSlotKeeps
<1>9. ASSUME NEW moves \in SUBSET {x \in Tab : tab[x] # Nil}, Collect(moves)
      PROVE  SlotInv'
  BY <1>9, CollectKeeps
<1>10. CASE UNCHANGED vars
  BY <1>10 DEF vars, SlotInv, ObjectsWell, TablesWell, Numbered, SharedWell, CachesWell, CacheExact, Knows,
               HasTable, Tab
<1> QED BY <1>1, <1>2, <1>3, <1>4, <1>5, <1>6, <1>7, <1>8, <1>9, <1>10 DEF Next

(* The invariant, from which CacheExact follows.  It needs that numbers    *)
(* start again in full collections only, which the code does not ensure    *)
(* (gc.c, ivm_collector_collect): in a partial one an old table keeps a    *)
(* number that is given out once more.                                     *)
THEOREM SlotInvariant ==
  ASSUME "restart" \notin Quirks
  PROVE  Spec => []SlotInv
<1>1. Init => SlotInv
  BY InitKeeps
<1>2. SlotInv /\ [Next]_vars => SlotInv'
  BY NextKeeps
<1> QED BY <1>1, <1>2, PTL DEF Spec

(* An instruction that meets the number it remembers finds its own key     *)
(* there (vm/slot.c, ivm_slot_table_getSlot_cc), as long as no partial     *)
(* collection starts the numbers again.                                    *)
THEOREM CachesAreExact ==
  ASSUME "restart" \notin Quirks
  PROVE  Spec => []CacheExact
<1>1. SlotInv => CacheExact
  BY DEF SlotInv
<1> QED BY <1>1, SlotInvariant, PTL

(***************************************************************************)
(* Prototypes never make a circle, unless a program may make one through   *)
(* the slot named proto.                                                   *)
(***************************************************************************)
Grounded == \A S \in SUBSET Obj : S # {} => \E x \in S : Above[x] \notin S
ProtoInv ==
  /\ obj[Root] # Nil
  /\ \A o \in Obj : obj[o] # Nil => obj[o].proto = Nil \/ (obj[o].proto \in Obj /\ obj[obj[o].proto] # Nil)
  /\ Grounded

(* The way up ends at the last prototype, and is not taken twice.          *)
LEMMA UpIs ==
  ASSUME ObjectsWell, NEW o \in Obj \cup {Nil}, NEW f, Up(f, o)
  PROVE  /\ \A m, n \in Nat : m <= n /\ f[n] # Nil => f[m] # Nil
         /\ \A n \in Nat : f[n] \in Obj \cup {Nil}
<1>1. \A n \in Nat : f[n] \in Obj \cup {Nil} /\ (f[n] = Nil => f[n + 1] = Nil)
  BY AboveIs DEF Up
<1>2. ASSUME NEW m \in Nat, f[m] = Nil
      PROVE  \A n \in Nat : m <= n => f[n] = Nil
  <2> DEFINE Bad == {n \in Nat : m <= n /\ f[n] # Nil}
  <2> SUFFICES ASSUME Bad # {}
               PROVE  FALSE
    OBVIOUS
  <2>1. Bad \subseteq Nat
    OBVIOUS
  <2>2. PICK n \in Bad : \A y \in Bad : n <= y
    BY <2>1, LeastOf
  <2>3. n \in Nat /\ m <= n /\ f[n] # Nil /\ n # m
    BY <1>2
  <2>4. n - 1 \in Nat /\ m <= n - 1 /\ ~ (n <= n - 1) /\ (n - 1) + 1 = n
    BY <2>3
  <2>5. f[n - 1] = Nil
    BY <2>2, <2>4
  <2>6. f[(n - 1) + 1] = Nil
    BY <2>4, <2>5, <1>1
  <2> QED BY <2>3, <2>4, <2>6
<1> QED BY <1>1, <1>2

LEMMA OnceIs ==
  ASSUME ObjectsWell, Grounded, NEW o \in Obj \cup {Nil}, NEW f, Up(f, o)
  PROVE  /\ \A m, n \in Nat : f[m] = f[n] /\ f[n] # Nil => m = n
         /\ \A n \in Nat : f[n] # Nil => n \in Within(f)
<1>1. ASSUME NEW m \in Nat, NEW n \in Nat, m < n, f[m] = f[n], f[n] # Nil
      PROVE  FALSE
  <2> DEFINE S == {f[j] : j \in m..n - 1}
  <2>1. \A j \in m..n - 1 : j \in Nat /\ j <= n /\ j + 1 \in m..n
    BY <1>1
  <2>2. \A j \in m..n - 1 : f[j] \in Obj /\ Above[f[j]] = f[j + 1]
    BY <2>1, <1>1, UpIs DEF Up
  <2>3. f[m] \in S
    BY <1>1
  <2>4. \A j \in m..n : f[j] \in S
    <3>1. ASSUME NEW j \in m..n
          PROVE  f[j] \in S
      <4>1. CASE j = n
        BY <4>1, <2>3, <1>1
      <4>2. CASE j # n
        <5>1. j \in m..n - 1
          BY <4>2
        <5> QED BY <5>1
      <4> QED BY <4>1, <4>2
    <3> QED BY <3>1
  <2>5. \A x \in S : x \in Obj /\ Above[x] \in S
    <3>1. ASSUME NEW j \in m..n - 1
          PROVE  f[j] \in Obj /\ Above[f[j]] \in S
      <4>1. f[j + 1] \in S
        BY <2>1, <2>4
      <4> QED BY <4>1, <2>2
    <3> QED BY <3>1
  <2> HIDE DEF S
  <2> QED BY <2>3, <2>5 DEF Grounded
<1>2. ASSUME NEW m \in Nat, NEW n \in Nat, f[m] = f[n], f[n] # Nil
      PROVE  m = n
  <2>1. ~ (m < n) /\ ~ (n < m)
    BY <1>1, <1>2
  <2> QED BY <2>1
<1>3. ASSUME NEW n \in Nat, f[n] # Nil
      PROVE  n \in Within(f)
  <2>1. IsFiniteSet(Obj) /\ Cardinality(Obj) \in Nat
    BY SlotAssumption, FS_CardinalityType
  <2>2. n <= Cardinality(Obj) - 1
    <3> SUFFICES ASSUME Cardinality(Obj) <= n
                 PROVE  FALSE
      BY <2>1
    <3> DEFINE g == [j \in 0..n |-> f[j]]
    <3>1. IsFiniteSet(0..n) /\ Cardinality(0..n) = n + 1
      BY FS_Interval
    <3>2. g \in [0..n -> Obj]
      <4>1. \A j \in 0..n : j \in Nat /\ j <= n
        OBVIOUS
      <4>2. \A j \in 0..n : f[j] \in Obj
        BY <4>1, <1>3, UpIs
      <4> QED BY <4>2
    <3>3. \A j \in 0..n : g[j] = f[j] /\ j \in Nat /\ g[j] \in Obj
      BY <3>2
    <3> HIDE DEF g
    <3>4. Cardinality(Obj) < Cardinality(0..n)
      BY <3>1, <2>1
    <3>5. PICK x, y \in 0..n : x # y /\ g[x] = g[y]
      BY <3>1, <3>2, <3>4, <2>1, FS_PigeonHole
    <3>6. g[y] # Nil
      BY <3>3, SlotAssumption
    <3> QED BY <3>3, <3>5, <3>6, <1>2
  <2> QED BY <2>1, <2>2, <1>3 DEF Within
<1> QED BY <1>2, <1>3

(* What HasProto asks.                                                     *)
LEMMA HasProtoIs ==
  ASSUME ObjectsWell, Grounded, NEW o \in Obj \cup {Nil}, NEW p \in Obj, NEW f, Up(f, o),
         Chain(o) = [n \in Within(f) |-> f[n]]
  PROVE  HasProto(o, p) <=> \E n \in Nat : f[n] = p
<1>1. HasProto(o, p) <=> \E n \in Within(f) : f[n] = p
  BY DEF HasProto
<1>2. Within(f) \subseteq Nat
  <2>1. Cardinality(Obj) \in Nat
    BY SlotAssumption, FS_CardinalityType
  <2> QED BY <2>1 DEF Within
<1>3. p # Nil
  BY SlotAssumption
<1> QED BY <1>1, <1>2, <1>3, OnceIs

(* An object gets a prototype that is not below it.                        *)
LEMMA PutProtoGrounded ==
  ASSUME SlotInv, ProtoInv, NEW o \in Made, NEW p \in Made \cup {Nil}, PutProto(o, p), p = Nil \/ ~ HasProto(p, o)
  PROVE  ProtoInv'
<1>1. /\ ObjectsWell /\ Grounded /\ o \in Obj /\ obj[o] # Nil /\ p \in Obj \cup {Nil} /\ SlotInv'
      /\ obj \in [Obj -> Object \cup {Nil}] /\ obj[o] \in Object
  BY PutProtoKeeps DEF SlotInv, ProtoInv, Made, ObjectsWell
<1>2. ObjectsWell'
  BY <1>1 DEF SlotInv
<1> DEFINE r == obj[o]
           q == [r EXCEPT !.proto = p]
<1>3. obj' = [obj EXCEPT ![o] = q]
  BY <1>1 DEF PutProto
<1>4. q \in Object /\ q.proto = p
  BY <1>1 DEF Object
<1> HIDE DEF q
<1>5. q # Nil
  BY <1>4, SlotAssumption
<1>6. obj'[o] = q /\ \A x \in Obj \ {o} : obj'[x] = obj[x]
  BY <1>1, <1>3
<1>7. /\ \A x \in Obj : Above'[x] = IF obj'[x] = Nil THEN Nil ELSE obj'[x].proto
      /\ \A x \in Obj : Above[x] = IF obj[x] = Nil THEN Nil ELSE obj[x].proto
  BY SlotAssumption DEF Above
<1>8. Above'[o] = p /\ \A x \in Obj \ {o} : Above'[x] = Above[x]
  BY <1>4, <1>5, <1>6, <1>7, <1>1
<1>9. Grounded'
  <2>1. ASSUME NEW S \in SUBSET Obj, S # {}, \A x \in S : Above'[x] \in S
        PROVE  FALSE
    <3>1. o \in S
      <4> SUFFICES ASSUME o \notin S
                   PROVE  FALSE
        OBVIOUS
      <4>1. \A x \in S : Above[x] \in S
        BY <2>1, <1>8
      <4> QED BY <4>1, <2>1, <1>1 DEF Grounded
    <3>2. p \in S /\ p \in Obj /\ p # Nil
      BY <3>1, <2>1, <1>8, SlotAssumption
    <3>3. PICK f : Up(f, p) /\ Chain(p) = [n \in Within(f) |-> f[n]]
      BY <1>1, ChainIs
    <3>4. \A n \in Nat : f[n] # o
      BY <3>2, <3>3, <1>1, HasProtoIs
    <3> DEFINE Bad == {n \in Nat : f[n] \notin S}
    <3>5. Bad = {}
      <4> SUFFICES ASSUME Bad # {}
                   PROVE  FALSE
        OBVIOUS
      <4>1. Bad \subseteq Nat
        OBVIOUS
      <4>2. PICK n \in Bad : \A y \in Bad : n <= y
        BY <4>1, LeastOf
      <4>3. n \in Nat /\ f[n] \notin S /\ n # 0
        BY <3>2, <3>3 DEF Up
      <4>4. n - 1 \in Nat /\ ~ (n <= n - 1) /\ (n - 1) + 1 = n
        BY <4>3
      <4>5. f[n - 1] \in S /\ f[n - 1] # o /\ f[n - 1] \in Obj
        BY <4>2, <4>4, <3>4
      <4>6. f[(n - 1) + 1] = Above[f[n - 1]]
        BY <3>3, <4>4 DEF Up
      <4>7. Above[f[n - 1]] \in S
        BY <4>5, <2>1, <1>8
      <4> QED BY <4>3, <4>4, <4>6, <4>7
    <3>6. Cardinality(Obj) \in Nat
      BY SlotAssumption, FS_CardinalityType
    <3>7. f[Cardinality(Obj)] # Nil
      BY <3>5, <3>6, SlotAssumption
    <3>8. Cardinality(Obj) \in Within(f)
      BY <3>3, <3>6, <3>7, <1>1, OnceIs
    <3> QED BY <3>6, <3>8 DEF Within
  <2> QED BY <2>1 DEF Grounded
<1>10. obj'[Root] # Nil
  BY <1>5, <1>6, SlotAssumption DEF ProtoInv
<1>11. \A x \in Obj : obj'[x] # Nil <=> obj[x] # Nil
  BY <1>1, <1>5, <1>6
<1>12. ASSUME NEW x \in Obj, obj'[x] # Nil
       PROVE  obj'[x].proto = Nil \/ (obj'[x].proto \in Obj /\ obj'[obj'[x].proto] # Nil)
  <2>1. CASE x = o
    BY <2>1, <1>4, <1>6, <1>11 DEF Made
  <2>2. CASE x # o
    BY <2>2, <1>6, <1>11, <1>12 DEF ProtoInv
  <2> QED BY <2>1, <2>2
<1> QED BY <1>9, <1>10, <1>12 DEF ProtoInv

(* An object is made; its prototype was there before.                      *)
LEMMA MakeGrounded ==
  ASSUME SlotInv, ProtoInv, NEW o \in Obj, obj[o] = Nil, NEW q \in Object, obj' = [obj EXCEPT ![o] = q],
         q.proto \in Made \cup {Nil}
  PROVE  ProtoInv'
<1>1. ObjectsWell /\ Grounded /\ obj \in [Obj -> Object \cup {Nil}]
  BY DEF SlotInv, ProtoInv, ObjectsWell
<1>2. obj'[o] = q /\ q # Nil /\ \A x \in Obj \ {o} : obj'[x] = obj[x]
  BY <1>1, SlotAssumption
<1>3. /\ \A x \in Obj : Above'[x] = IF obj'[x] = Nil THEN Nil ELSE obj'[x].proto
      /\ \A x \in Obj : Above[x] = IF obj[x] = Nil THEN Nil ELSE obj[x].proto
  BY SlotAssumption DEF Above
<1>4. Above'[o] = q.proto /\ \A x \in Obj \ {o} : Above'[x] = Above[x]
  BY <1>2, <1>3
<1>5. Root # o /\ q.proto # o
  BY SlotAssumption DEF ProtoInv, Made
<1>6. \A x \in Obj : Above[x] # o
  BY <1>3, SlotAssumption DEF ProtoInv
<1>7. Grounded'
  <2>1. ASSUME NEW S \in SUBSET Obj, S # {}, \A x \in S : Above'[x] \in S
        PROVE  FALSE
    <3> DEFINE T == S \ {o}
    <3>1. T # {}
      BY <2>1, <1>4, <1>5
    <3>2. \A x \in T : Above[x] \in T
      BY <2>1, <1>4, <1>6
    <3>3. T \in SUBSET Obj
      OBVIOUS
    <3> HIDE DEF T
    <3> QED BY <3>1, <3>2, <3>3, <1>1 DEF Grounded
  <2> QED BY <2>1 DEF Grounded
<1>8. obj'[Root] # Nil
  BY <1>2, <1>5, SlotAssumption DEF ProtoInv
<1>9. \A x \in Obj : obj[x] # Nil => obj'[x] # Nil
  BY <1>2
<1>10. ASSUME NEW x \in Obj, obj'[x] # Nil
       PROVE  obj'[x].proto = Nil \/ (obj'[x].proto \in Obj /\ obj'[obj'[x].proto] # Nil)
  <2>1. CASE x = o
    BY <2>1, <1>2, <1>9 DEF Made
  <2>2. CASE x # o
    BY <2>2, <1>2, <1>9, <1>10 DEF ProtoInv
  <2> QED BY <2>1, <2>2
<1> QED BY <1>7, <1>8, <1>10 DEF ProtoInv

(* The prototypes are left alone.                                          *)
LEMMA SameGrounded ==
  ASSUME SlotInv, ProtoInv, obj' \in [Obj -> Object \cup {Nil}],
         \A x \in Obj : (obj'[x] = Nil <=> obj[x] = Nil) /\ (obj[x] # Nil => obj'[x].proto = obj[x].proto)
  PROVE  ProtoInv'
<1>1. /\ \A x \in Obj : Above'[x] = IF obj'[x] = Nil THEN Nil ELSE obj'[x].proto
      /\ \A x \in Obj : Above[x] = IF obj[x] = Nil THEN Nil ELSE obj[x].proto
  BY SlotAssumption DEF Above
<1>2. \A x \in Obj : Above'[x] = Above[x]
  BY <1>1
<1>3. Grounded'
  BY <1>2 DEF ProtoInv, Grounded
<1>4. obj'[Root] # Nil
  BY SlotAssumption DEF ProtoInv
<1>5. \A x \in Obj : obj'[x] # Nil =>
        obj'[x].proto = Nil \/ (obj'[x].proto \in Obj /\ obj'[obj'[x].proto] # Nil)
  BY DEF ProtoInv
<1> QED BY <1>3, <1>4, <1>5 DEF ProtoInv

LEMMA StoreGrounded ==
  ASSUME SlotInv, ProtoInv, NEW o \in Made, NEW t, Writable(o, t), Store(o, obj[o], t)
  PROVE  ProtoInv'
<1>1. o \in Obj /\ obj[o] \in Object /\ obj[o] # Nil /\ obj \in [Obj -> Object \cup {Nil}]
  BY DEF Made, SlotInv, ObjectsWell
<1> DEFINE r == obj[o]
<1>2. PICK id \in Tab, q \in Object :
           /\ q.slots = id /\ q.proto = r.proto /\ q # Nil
           /\ obj' = [obj EXCEPT ![o] = q] /\ tab' = [tab EXCEPT ![id] = t]
  BY <1>1, StoreIs
<1>3. /\ obj' \in [Obj -> Object \cup {Nil}]
      /\ \A x \in Obj : (obj'[x] = Nil <=> obj[x] = Nil) /\ (obj[x] # Nil => obj'[x].proto = obj[x].proto)
  BY <1>1, <1>2
<1> QED BY <1>3, SameGrounded

LEMMA ProtoInit == Init => ProtoInv
<1> SUFFICES ASSUME Init
             PROVE  ProtoInv
  OBVIOUS
<1> DEFINE robj == [NewObj EXCEPT !.slots = 1, !.proto = Nil]
<1>1. robj \in Object /\ robj.proto = Nil
  BY SlotAssumption DEF NewObj, Object
<1>2. obj = [o \in Obj |-> IF o = Root THEN robj ELSE Nil]
  BY DEF Init
<1> HIDE DEF robj
<1>3. robj # Nil
  BY <1>1, SlotAssumption
<1>4. obj[Root] # Nil /\ \A o \in Obj : obj[o] # Nil => obj[o].proto = Nil
  BY <1>1, <1>2, <1>3, SlotAssumption
<1>5. \A x \in Obj : Above[x] = Nil
  BY <1>4, SlotAssumption DEF Above
<1>6. Grounded
  BY <1>5, SlotAssumption DEF Grounded
<1> QED BY <1>4, <1>6 DEF ProtoInv

LEMMA ProtoKeeps ==
  ASSUME "proto" \notin Quirks, SlotInv, ProtoInv, [Next]_vars
  PROVE  ProtoInv'
<1>0. obj \in [Obj -> Object \cup {Nil}]
  BY DEF SlotInv, ObjectsWell
<1>1. ASSUME NEW o \in Obj, NEW init \in Prealloc \cup {0}, New(o, init)
      PROVE  ProtoInv'
  <2>1. NewObj \in Object /\ NewObj.proto = Root /\ Root \in Made /\ obj[o] = Nil
    BY <1>1, SlotAssumption DEF New, NewObj, Object, ProtoInv, Made
  <2>2. CASE init = 0
    <3>1. obj' = [obj EXCEPT ![o] = NewObj]
      BY <1>1, <2>2 DEF New
    <3> QED BY <2>1, <3>1, MakeGrounded
  <2>3. CASE init # 0
    <3> DEFINE id == Place(o)
               q  == [NewObj EXCEPT !.slots = id]
    <3>1. obj' = [obj EXCEPT ![o] = q]
      BY <1>1, <2>3 DEF New, Store
    <3>2. id \in Nat
      BY PlaceIs DEF Tab
    <3> HIDE DEF id
    <3>3. q \in Object /\ q.proto = Root
      BY <2>1, <3>2 DEF Object
    <3> HIDE DEF q
    <3> QED BY <2>1, <3>1, <3>3, MakeGrounded
  <2> QED BY <2>2, <2>3
<1>2. ASSUME NEW a \in Made, NEW o \in Obj, Clone(a, o)
      PROVE  ProtoInv'
  <2> DEFINE q == obj[a]
  <2>1. obj[o] = Nil /\ obj' = [obj EXCEPT ![o] = q] /\ q \in Object
    BY <1>2, <1>0 DEF Clone, Made
  <2>2. q.proto \in Made \cup {Nil}
    BY DEF ProtoInv, Made
  <2> HIDE DEF q
  <2> QED BY <2>1, <2>2, MakeGrounded
<1>3. ASSUME NEW i \in Instr, NEW o \in Made, NEW v \in Val, SetSlot(i, o, v)
      PROVE  ProtoInv'
  <2> DEFINE u == SetTo(i, o, v)
  <2>1. Store(o, obj[o], u) /\ Writable(o, u)
    BY <1>3, SetSlotIs
  <2> HIDE DEF u
  <2> QED BY <2>1, StoreGrounded
<1>4. ASSUME NEW o \in Made, NEW k \in Key, NEW v \in Val \cup {Nil}, SetIndex(o, k, v)
      PROVE  ProtoInv'
  <2> DEFINE u == Assigned(OwnTable(o), k, v, Given(OwnTable(o)))
  <2>1. Store(o, obj[o], u) /\ Writable(o, u)
    BY <1>4, SetIndexIs
  <2> HIDE DEF u
  <2> QED BY <2>1, StoreGrounded
<1>5. ASSUME NEW o \in Made, NEW p \in Made, SetProto(o, p)
      PROVE  ProtoInv'
  BY <1>5, PutProtoGrounded DEF SetProto
<1>6. ASSUME NEW o \in Made, NEW p \in Made \cup {Nil}, SetProtoSlot(o, p)
      PROVE  ProtoInv'
  BY <1>6, PutProtoGrounded DEF SetProtoSlot
<1>7. ASSUME NEW a \in Made, NEW b \in Made, NEW overwrite \in BOOLEAN, Merge(a, b, overwrite)
      PROVE  ProtoInv'
  <2> DEFINE u == MergeTo(a, b, overwrite)
  <2>1. Store(a, obj[a], u) /\ Writable(a, u)
    BY <1>7, MergeIs
  <2> HIDE DEF u
  <2> QED BY <2>1, StoreGrounded
<1>8. ASSUME NEW i \in Instr, NEW o \in Made, GetSlot(i, o)
      PROVE  ProtoInv'
  <2>1. obj' = obj
    BY <1>8 DEF GetSlot
  <2> QED BY <2>1, <1>0, SameGrounded
<1>9. ASSUME NEW moves \in SUBSET {x \in Tab : tab[x] # Nil}, Collect(moves)
      PROVE  ProtoInv'
  <2>1. obj' = obj
    BY <1>9 DEF Collect
  <2> QED BY <2>1, <1>0, SameGrounded
<1>10. CASE UNCHANGED vars
  <2>1. obj' = obj
    BY <1>10 DEF vars
  <2> QED BY <2>1, <1>0, SameGrounded
<1> QED BY <1>1, <1>2, <1>3, <1>4, <1>5, <1>6, <1>7, <1>8, <1>9, <1>10 DEF Next

(* No object is its own prototype, directly or not, when the slot proto is *)
(* not used to make a circle.                                              *)
THEOREM ProtosEnd ==
  ASSUME "proto" \notin Quirks, "restart" \notin Quirks
  PROVE  Spec => [](SlotInv /\ ProtoInv)
<1>1. Init => SlotInv /\ ProtoInv
  BY InitKeeps, ProtoInit
<1>2. SlotInv /\ ProtoInv /\ [Next]_vars => (SlotInv /\ ProtoInv)'
  BY NextKeeps, ProtoKeeps
<1> QED BY <1>1, <1>2, PTL DEF Spec

(***************************************************************************)
(* What is found.                                                          *)
(***************************************************************************)

(* An object as SlotModel has it.                                          *)
LEMMA PlainIs ==
  ASSUME SlotInv, NEW o \in Obj
  PROVE  /\ Plain(o) = Nil <=> obj[o] = Nil
         /\ \A k \in Key : SaysOf(o, k) \in Val \cup {Absent, Gone}
         /\ obj[o] # Nil => /\ Plain(o) = [slots |-> [k \in Key |-> SaysOf(o, k)], proto |-> obj[o].proto]
                            /\ Plain(o).proto = obj[o].proto /\ \A k \in Key : Plain(o).slots[k] = SaysOf(o, k)
<1> DEFINE cells == IF HasTable(o) THEN ToSet(TableOf(o).cells) ELSE {}
           r == [slots |-> [k \in Key |-> Content(cells, k)], proto |-> obj[o].proto]
           f == [k \in Key |-> SaysOf(o, k)]
<1>1. Plain(o) = IF obj[o] = Nil THEN Nil ELSE r
  BY Zenon DEF Plain
<1>2. ASSUME NEW k \in Key
      PROVE  Content(cells, k) = SaysOf(o, k)
  <2>1. CASE HasTable(o)
    BY <2>1 DEF SaysOf, Says
  <2>2. CASE ~ HasTable(o)
    <3>1. Content({}, k) = Absent
      BY DEF Content
    <3> QED BY <2>2, <3>1 DEF SaysOf
  <2> QED BY <2>1, <2>2
<1> HIDE DEF cells
<1>3. [k \in Key |-> Content(cells, k)] = f
  BY <1>2
<1>4. ASSUME NEW k \in Key
      PROVE  SaysOf(o, k) \in Val \cup {Absent, Gone}
  <2>1. CASE HasTable(o)
    <3>1. Fits(TableOf(o)) /\ Finds(TableOf(o))
      BY <2>1, TableIs
    <3>2. Says(TableOf(o), k) \in Val \cup {Absent, Gone}
      BY <3>1, SaysType
    <3> QED BY <3>2, <2>1 DEF SaysOf
  <2>2. CASE ~ HasTable(o)
    BY <2>2 DEF SaysOf
  <2> QED BY <2>1, <2>2
<1>5. obj[o] # Nil => Plain(o) = [slots |-> f, proto |-> obj[o].proto]
  BY <1>1, <1>3
<1>6. f \in [Key -> Val \cup {Absent, Gone}] /\ \A k \in Key : f[k] = SaysOf(o, k)
  BY <1>4
<1>7. obj[o] # Nil => obj[o].proto \in Obj \cup {Nil}
  BY DEF SlotInv, ObjectsWell, Object
<1> HIDE DEF f, r
<1>8. obj[o] # Nil => Plain(o) \in [slots : [Key -> Val \cup {Absent, Gone}], proto : Obj \cup {Nil}]
  BY <1>5, <1>6, <1>7
<1>9. obj[o] # Nil => Plain(o) # Nil
  BY <1>8, SlotAssumption
<1>10. obj[o] = Nil => Plain(o) = Nil
  BY <1>1
<1>11. obj[o] # Nil => Plain(o).proto = obj[o].proto /\ Plain(o).slots = f
  BY <1>5
<1> QED BY <1>4, <1>5, <1>6, <1>9, <1>10, <1>11 DEF f

(* SlotModel counts as Slots does.                                         *)
LEMMA SameCardinality ==
  ASSUME NEW S
  PROVE  Model!Cardinality(S) = Cardinality(S)
BY DEF Model!Cardinality, Cardinality

(* The chains of the two are the same.                                     *)
LEMMA ModelChain ==
  ASSUME SlotInv, NEW o \in Obj \cup {Nil}, NEW f, Up(f, o), Chain(o) = [n \in Within(f) |-> f[n]]
  PROVE  Model!Chain(o) = {f[n] : n \in Within(f)}
<1> DEFINE object == [x \in Obj |-> Plain(x)]
           above == [x \in Obj \cup {Nil} |-> IF x = Nil THEN Nil ELSE IF object[x] = Nil THEN Nil ELSE object[x].proto]
           F(g) == [n \in Nat |-> IF n = 0 THEN o ELSE Above[g[n - 1]]]
           next == CHOOSE g : g = F(g)
<1>1. above = Above
  <2>1. ASSUME NEW x \in Obj
        PROVE  above[x] = Above[x]
    <3>1. object[x] = Plain(x) /\ x # Nil
      BY SlotAssumption
    <3>2. above[x] = IF Plain(x) = Nil THEN Nil ELSE Plain(x).proto
      BY <3>1
    <3>3. Above[x] = IF obj[x] = Nil THEN Nil ELSE obj[x].proto
      BY <3>1 DEF Above
    <3>4. (Plain(x) = Nil <=> obj[x] = Nil) /\ (obj[x] # Nil => Plain(x).proto = obj[x].proto)
      BY PlainIs
    <3> QED BY <3>2, <3>3, <3>4
  <2>2. above[Nil] = Nil /\ Above[Nil] = Nil
    BY DEF Above
  <2> QED BY <2>1, <2>2 DEF Above
<1>2. Model!Above = above
  BY Zenon DEF Model!Above
<1> HIDE DEF above
<1>3. Model!Chain(o) = {next[n] : n \in 0 .. Cardinality(Obj) - 1} \ {Nil}
  <2> DEFINE E(g) == [n \in Nat |-> IF n = 0 THEN o ELSE Model!Above[g[n - 1]]]
  <2>1. Model!Chain(o) = {(CHOOSE g : g = E(g))[n] : n \in 0 .. Cardinality(Obj) - 1} \ {Nil}
    BY SameCardinality, Zenon DEF Model!Chain
  <2>2. Model!Above = Above
    BY <1>1, <1>2
  <2> QED BY <2>1, <2>2
<1>4. Chain(o) = [n \in {m \in 0 .. Cardinality(Obj) - 1 : next[m] # Nil} |-> next[n]]
  BY DEF Chain
<1> HIDE DEF next
<1>5. \A n \in 0 .. Cardinality(Obj) - 1 : (next[n] # Nil <=> f[n] # Nil) /\ (f[n] # Nil => next[n] = f[n])
  <2>1. {m \in 0 .. Cardinality(Obj) - 1 : next[m] # Nil} = Within(f)
    BY <1>4
  <2>2. \A n \in Within(f) : next[n] = f[n]
    BY <2>1, <1>4
  <2> QED BY <2>1, <2>2 DEF Within
<1> QED BY <1>3, <1>5 DEF Within

(* A way up from the middle of another is the rest of it.                  *)
LEMMA RestIs ==
  ASSUME NEW o \in Obj \cup {Nil}, NEW f, Up(f, o), NEW m \in Nat, NEW g, Up(g, f[m])
  PROVE  \A j \in Nat : g[j] = f[m + j]
<1> DEFINE Bad == {j \in Nat : g[j] # f[m + j]}
<1> SUFFICES ASSUME Bad # {}
             PROVE  FALSE
  OBVIOUS
<1>1. Bad \subseteq Nat
  OBVIOUS
<1>2. PICK j \in Bad : \A y \in Bad : j <= y
  BY <1>1, LeastOf
<1>3. j \in Nat /\ g[j] # f[m + j]
  OBVIOUS
<1>4. j # 0
  <2>1. g[0] = f[m] /\ m + 0 = m
    BY DEF Up
  <2> QED BY <2>1, <1>3
<1>5. j - 1 \in Nat /\ ~ (j <= j - 1) /\ (j - 1) + 1 = j /\ m + (j - 1) \in Nat /\ (m + (j - 1)) + 1 = m + j
  BY <1>3, <1>4
<1>6. g[j - 1] = f[m + (j - 1)]
  BY <1>2, <1>5
<1>7. g[(j - 1) + 1] = Above[g[j - 1]] /\ f[(m + (j - 1)) + 1] = Above[f[m + (j - 1)]]
  BY <1>5 DEF Up
<1> QED BY <1>3, <1>5, <1>6, <1>7

(* What SlotModel finds is what the search along the chain finds.          *)
LEMMA LookupIs ==
  ASSUME SlotInv, ProtoInv, NEW o \in Made, NEW k \in Key
  PROVE  LET p == First(o, HasOf(k)) IN
         Model!Lookup(o, k) = IF p = Nil THEN Nil ELSE SaysOf(p, k)
<1>1. ObjectsWell /\ Grounded /\ o \in Obj \cup {Nil} /\ o \in Obj /\ obj[o] # Nil
  BY DEF SlotInv, ProtoInv, Made
<1>2. PICK f : Up(f, o) /\ Chain(o) = [n \in Within(f) |-> f[n]]
  BY <1>1, ChainIs
<1>3. Cardinality(Obj) \in Nat
  BY SlotAssumption, FS_CardinalityType
<1>4. /\ Within(f) \subseteq Nat /\ \A n \in Within(f) : f[n] # Nil /\ f[n] \in Obj
      /\ \A n \in Nat : f[n] # Nil => n \in Within(f)
  BY <1>1, <1>2, <1>3, UpIs, OnceIs DEF Within
<1>5. \A n \in Within(f) : obj[f[n]] # Nil
  <2> DEFINE Bad == {n \in Within(f) : obj[f[n]] = Nil}
  <2> SUFFICES ASSUME Bad # {}
               PROVE  FALSE
    OBVIOUS
  <2>1. Bad \subseteq Nat
    BY <1>4
  <2>2. PICK n \in Bad : \A y \in Bad : n <= y
    BY <2>1, LeastOf
  <2>3. n \in Nat /\ n \in Within(f) /\ obj[f[n]] = Nil /\ n # 0
    BY <1>1, <1>2, <1>4 DEF Up
  <2>4. n - 1 \in Nat /\ n - 1 <= n /\ ~ (n <= n - 1) /\ (n - 1) + 1 = n
    BY <2>3
  <2>5. f[n - 1] # Nil
    BY <2>3, <2>4, <1>1, <1>2, <1>4, UpIs
  <2>6. n - 1 \in Within(f)
    BY <2>4, <2>5, <1>4
  <2>7. obj[f[n - 1]] # Nil /\ f[n - 1] \in Obj
    BY <2>2, <2>4, <2>6, <1>4
  <2>8. f[(n - 1) + 1] = Above[f[n - 1]]
    BY <2>4, <1>2 DEF Up
  <2>9. Above[f[n - 1]] = obj[f[n - 1]].proto
    BY <2>7, <1>1, AboveIs
  <2>10. f[n] = obj[f[n - 1]].proto /\ f[n] # Nil
    BY <2>3, <2>4, <2>8, <2>9, <1>4
  <2> QED BY <2>3, <2>7, <2>10 DEF ProtoInv
<1>6. ASSUME NEW q \in Obj, obj[q] # Nil
      PROVE  /\ Model!Slot(q, k) = SaysOf(q, k)
             /\ SaysOf(q, k) \in Val <=> q \in HasOf(k)
  <2>1. Model!Slot(q, k) = SaysOf(q, k)
    BY <1>6, PlainIs DEF Model!Slot
  <2>2. CASE HasTable(q)
    <3>1. Fits(TableOf(q)) /\ Finds(TableOf(q))
      BY <2>2, TableIs
    <3>2. Found(TableOf(q), k) # 0 <=> Says(TableOf(q), k) \in Val
      BY <3>1, FoundIs
    <3> QED BY <2>1, <2>2, <3>2 DEF SaysOf, HasOf, CellOf
  <2>3. CASE ~ HasTable(q)
    <3>1. Absent \notin Val
      BY SlotAssumption
    <3> QED BY <2>1, <2>3, <3>1 DEF SaysOf, HasOf, CellOf
  <2> QED BY <2>2, <2>3
<1> DEFINE idx  == {n \in DOMAIN Chain(o) : Chain(o)[n] \in HasOf(k)}
           hits == {q \in Model!Chain(o) : Model!Slot(q, k) \in Val}
           Best(p) == \A q \in hits : p = q \/ Model!Before(p, q)
<1>7. Model!Chain(o) = {f[n] : n \in Within(f)}
  BY <1>1, <1>2, ModelChain
<1>8. idx = {n \in Within(f) : f[n] \in HasOf(k)}
  BY <1>2
<1>9. hits = {f[n] : n \in idx}
  <2>1. ASSUME NEW n \in Within(f)
        PROVE  Model!Slot(f[n], k) \in Val <=> f[n] \in HasOf(k)
    BY <1>4, <1>5, <1>6
  <2> HIDE DEF idx
  <2> QED BY <2>1, <1>7, <1>8
<1>10. Model!Lookup(o, k) = LET p == IF hits = {} THEN Nil ELSE CHOOSE q \in hits : Best(q) IN
                            IF p = Nil THEN Nil ELSE Model!Slot(p, k)
  BY Zenon DEF Model!Lookup, Model!Nearest
<1>11. First(o, HasOf(k)) = IF idx = {} THEN Nil ELSE Chain(o)[Min(idx)]
  BY Zenon DEF First
<1>12. idx \subseteq Nat /\ idx \subseteq Within(f)
  BY <1>4, <1>8
<1> HIDE DEF idx
<1>13. CASE idx = {}
  <2>1. hits = {}
    BY <1>9, <1>13
  <2> QED BY <2>1, <1>10, <1>11, <1>13
<1>14. CASE idx # {}
  <2> DEFINE m == Min(idx)
             P == f[m]
  <2>1. m \in idx /\ \A n \in idx : m <= n
    BY <1>12, <1>14, MinIs
  <2> HIDE DEF m
  <2>2. m \in Nat /\ m \in Within(f) /\ P \in Obj /\ P # Nil /\ obj[P] # Nil /\ P \in hits
    BY <2>1, <1>4, <1>5, <1>9, <1>12
  <2>3. First(o, HasOf(k)) = P
    BY <2>1, <2>2, <1>2, <1>11, <1>14 DEF m
  <2>4. ASSUME NEW a \in Nat, f[a] # Nil, NEW b \in Nat, f[b] # Nil
        PROVE  f[b] \in Model!Chain(f[a]) <=> a <= b
    <3>1. f[a] \in Obj \cup {Nil}
      BY <2>4, <1>1, <1>2, UpIs
    <3>2. PICK g : Up(g, f[a]) /\ Chain(f[a]) = [n \in Within(g) |-> g[n]]
      BY <3>1, <1>1, ChainIs
    <3>3. Model!Chain(f[a]) = {g[n] : n \in Within(g)}
      BY <3>1, <3>2, ModelChain
    <3>4. \A j \in Nat : g[j] = f[a + j]
      BY <3>2, <1>1, <1>2, RestIs
    <3>5. Within(g) \subseteq Nat /\ \A n \in Nat : g[n] # Nil => n \in Within(g)
      BY <3>1, <3>2, <1>1, <1>3, OnceIs DEF Within
    <3>6. ASSUME a <= b
          PROVE  f[b] \in Model!Chain(f[a])
      <4>1. b - a \in Nat /\ a + (b - a) = b
        BY <3>6
      <4>2. g[b - a] = f[b]
        BY <4>1, <3>4
      <4>3. b - a \in Within(g)
        BY <4>1, <4>2, <3>5, <2>4
      <4> QED BY <4>2, <4>3, <3>3
    <3>7. ASSUME f[b] \in Model!Chain(f[a])
          PROVE  a <= b
      <4>1. PICK n \in Within(g) : f[b] = g[n]
        BY <3>3, <3>7
      <4>2. n \in Nat /\ a + n \in Nat /\ f[b] = f[a + n]
        BY <4>1, <3>4, <3>5
      <4>3. b = a + n
        BY <4>2, <2>4, <1>1, <1>2, OnceIs
      <4> QED BY <4>2, <4>3
    <3> QED BY <3>6, <3>7
  <2> HIDE DEF hits
  <2>5. Best(P)
    <3>1. ASSUME NEW n \in idx
          PROVE  P = f[n] \/ Model!Before(P, f[n])
      <4>1. n \in Nat /\ f[n] # Nil /\ m <= n
        BY <2>1, <1>4, <1>12
      <4>2. f[n] \in Model!Chain(P)
        BY <4>1, <2>2, <2>4
      <4> QED BY <4>2 DEF Model!Before
    <3> QED BY <3>1, <1>9
  <2>6. ASSUME NEW q \in hits, Best(q)
        PROVE  q = P
    <3>1. PICK n \in idx : q = f[n]
      BY <1>9
    <3>2. n \in Nat /\ f[n] # Nil /\ m <= n
      BY <3>1, <2>1, <1>4, <1>12
    <3>3. q = P \/ Model!Before(q, P)
      BY <2>2, <2>6
    <3>4. CASE Model!Before(q, P)
      <4>1. P \in Model!Chain(f[n])
        BY <3>1, <3>4 DEF Model!Before
      <4>2. n <= m
        BY <4>1, <3>2, <2>2, <2>4
      <4>3. n = m
        BY <4>2, <3>2, <2>2
      <4> QED BY <4>3, <3>1
    <3> QED BY <3>3, <3>4
  <2>7. (CHOOSE q \in hits : Best(q)) = P
    <3> HIDE DEF Best, P
    <3> QED BY <2>2, <2>5, <2>6
  <2>8. Model!Lookup(o, k) = Model!Slot(P, k)
    <3>1. hits # {}
      BY <2>2
    <3> HIDE DEF Best
    <3> QED BY <3>1, <2>2, <2>7, <1>10
  <2> QED BY <2>2, <2>3, <2>8, <1>6
<1> QED BY <1>13, <1>14

(* The search finds that, and so does every instruction.                   *)
LEMMA LookupsHold ==
  ASSUME SlotInv, ProtoInv
  PROVE  Lookups
<1>1. ASSUME NEW o \in Made, NEW k \in Key
      PROVE  getSlot(o, k) = Model!Lookup(o, k)
  <2> DEFINE p == First(o, HasOf(k))
  <2>1. ObjectsWell /\ o \in Obj
    BY DEF SlotInv, Made
  <2>2. Holder(o, LAMBDA q : CellOf(q, k)) = p
    BY <2>1, HolderIs
  <2>3. getSlot(o, k) = IF p = Nil THEN Nil ELSE TableOf(p).cells[CellOf(p, k)].v
    BY <2>2, Zenon DEF getSlot, Value
  <2>4. Model!Lookup(o, k) = IF p = Nil THEN Nil ELSE SaysOf(p, k)
    BY LookupIs
  <2>5. p # Nil => p \in HasOf(k)
    BY <2>1, FirstIs
  <2> HIDE DEF p
  <2>6. ASSUME p # Nil
        PROVE  TableOf(p).cells[CellOf(p, k)].v = SaysOf(p, k)
    <3>1. p \in Obj /\ CellOf(p, k) # 0
      BY <2>5, <2>6 DEF HasOf
    <3>2. HasTable(p) /\ CellOf(p, k) = Found(TableOf(p), k)
      BY <3>1 DEF CellOf
    <3>3. Fits(TableOf(p)) /\ Finds(TableOf(p))
      BY <3>1, <3>2, TableIs
    <3>4. Says(TableOf(p), k) = TableOf(p).cells[Found(TableOf(p), k)].v
      BY <3>1, <3>2, <3>3, FoundIs
    <3> QED BY <3>2, <3>4 DEF SaysOf
  <2> QED BY <2>3, <2>4, <2>6
<1>2. ASSUME NEW o \in Made, NEW i \in Instr
      PROVE  getSlot_cc(i, o) = getSlot(o, KeyOf[i])
  <2> DEFINE k == KeyOf[i]
             p == First(o, HasOf(k))
  <2>1. ObjectsWell /\ o \in Obj /\ k \in Key
    BY SlotAssumption DEF SlotInv, Made
  <2>2. HasFor(i) = HasOf(k)
    BY CellForIs DEF HasFor, HasOf
  <2>3. Holder(o, LAMBDA q : CellOf(q, k)) = p /\ Holder(o, LAMBDA q : CellFor(i, q)) = p
    BY <2>1, <2>2, HolderIs
  <2>4. getSlot(o, k) = IF p = Nil THEN Nil ELSE TableOf(p).cells[CellOf(p, k)].v
    BY <2>3, Zenon DEF getSlot, Value
  <2>5. getSlot_cc(i, o) = IF p = Nil THEN Nil ELSE TableOf(p).cells[CellFor(i, p)].v
    BY <2>3, Zenon DEF getSlot_cc, Value
  <2>6. p # Nil => p \in HasOf(k)
    BY <2>1, FirstIs
  <2> HIDE DEF p
  <2>7. p # Nil => CellFor(i, p) = CellOf(p, k)
    BY <2>6, CellForIs DEF HasOf
  <2> QED BY <2>4, <2>5, <2>7
<1>3. \A i \in Instr : KeyOf[i] \in Key
  BY SlotAssumption
<1> QED BY <1>1, <1>2, <1>3 DEF Lookups

(* What is found in objects is what SlotModel says, by the search and from *)
(* what instructions remember (ivm_object_getSlot, ivm_object_getSlot_cc). *)
THEOREM LookupsAreRight ==
  ASSUME "proto" \notin Quirks, "restart" \notin Quirks
  PROVE  Spec => []Lookups
<1>1. SlotInv /\ ProtoInv => Lookups
  BY LookupsHold
<1>2. Spec => [](SlotInv /\ ProtoInv)
  BY ProtosEnd
<1> QED BY <1>1, <1>2, PTL

(***************************************************************************)
(* Slots implements SlotModel.                                             *)
(***************************************************************************)

(* What is known of a state, in the form that also speaks of the next.     *)
Shows ==
  \A o \in Obj :
    /\ Plain(o) = Nil <=> obj[o] = Nil
    /\ \A k \in Key : SaysOf(o, k) \in Val \cup {Absent, Gone}
    /\ obj[o] # Nil => Plain(o) = [slots |-> [k \in Key |-> SaysOf(o, k)], proto |-> obj[o].proto]
LEMMA AllShown == (SlotInv => Shows) /\ (SlotInv => Shows)'
<1>1. SlotInv => Shows
  BY PlainIs DEF Shows
<1> QED BY <1>1, PTL

(* What a step leaves alone is shown as before.                            *)
LEMMA SameShown ==
  ASSUME SlotInv, SlotInv', NEW p \in Obj, obj'[p] = Nil <=> obj[p] = Nil,
         obj[p] # Nil => obj'[p].proto = obj[p].proto, \A k \in Key : SaysOf(p, k)' = SaysOf(p, k)
  PROVE  Plain(p)' = Plain(p)
<1> DEFINE f == [k \in Key |-> SaysOf(p, k)]
           g == [k \in Key |-> SaysOf(p, k)']
<1>1. f = g
  OBVIOUS
<1>2. /\ obj[p] # Nil => Plain(p) = [slots |-> f, proto |-> obj[p].proto]
      /\ obj[p] = Nil => Plain(p) = Nil
  BY AllShown DEF Shows
<1>3. Shows'
  BY AllShown
<1>4. /\ obj'[p] # Nil => Plain(p)' = [slots |-> g, proto |-> obj'[p].proto]
      /\ obj'[p] = Nil => Plain(p)' = Nil
  BY <1>3 DEF Shows
<1> HIDE DEF f, g
<1> QED BY <1>1, <1>2, <1>4

(* What is stored is shown in the object, and nowhere else.                *)
LEMMA StoreShows ==
  ASSUME SlotInv, SlotInv', NEW o \in Obj, NEW r \in Object, NEW t, Writable(o, t), Store(o, r, t)
  PROVE  /\ \A p \in Obj \ {o} : Plain(p)' = Plain(p)
         /\ Plain(o)' = [slots |-> [k \in Key |-> Says(t, k)], proto |-> r.proto]
<1>1. PICK id \in Tab, q \in Object :
           /\ id \notin Users(o)
           /\ q.slots = id /\ q.proto = r.proto /\ q # Nil /\ t \in Table /\ t # Nil
           /\ obj' = [obj EXCEPT ![o] = q] /\ tab' = [tab EXCEPT ![id] = t]
  BY StoreIs
<1>2. /\ obj \in [Obj -> Object \cup {Nil}] /\ tab \in [Tab -> Table \cup {Nil}]
      /\ \A p \in Obj : HasTable(p) => obj[p].slots \in Tab
  BY DEF SlotInv, ObjectsWell, TablesWell
<1>3. obj'[o] = q /\ tab'[id] = t /\ \A p \in Obj \ {o} : obj'[p] = obj[p]
  BY <1>1, <1>2
<1>4. ASSUME NEW p \in Obj \ {o}
      PROVE  Plain(p)' = Plain(p)
  <2>1. HasTable(p)' <=> HasTable(p)
    BY <1>3 DEF HasTable
  <2>2. ASSUME HasTable(p)
        PROVE  tab'[obj'[p].slots] = tab[obj[p].slots]
    <3>1. p \in Made \ {o}
      BY <2>2 DEF HasTable, Made
    <3>2. obj[p].slots # id
      BY <3>1, <1>1 DEF Users
    <3> QED BY <3>2, <2>2, <1>1, <1>2, <1>3
  <2>3. \A k \in Key : SaysOf(p, k)' = SaysOf(p, k)
    BY <2>1, <2>2 DEF SaysOf, TableOf
  <2>4. obj'[p] = obj[p]
    BY <1>3
  <2> QED BY <2>3, <2>4, SameShown
<1>5. HasTable(o)'
  BY <1>1, <1>3, SlotAssumption DEF HasTable, Tab
<1>6. \A k \in Key : SaysOf(o, k)' = Says(t, k)
  BY <1>1, <1>3, <1>5 DEF SaysOf, TableOf
<1>7. Plain(o)' = [slots |-> [k \in Key |-> SaysOf(o, k)'], proto |-> obj'[o].proto]
  BY <1>1, <1>3, AllShown DEF Shows
<1>8. [k \in Key |-> SaysOf(o, k)'] = [k \in Key |-> Says(t, k)]
  BY <1>6
<1>9. obj'[o].proto = r.proto
  BY <1>1, <1>3
<1> QED BY <1>4, <1>7, <1>8, <1>9

(* The change of one object, as SlotModel sees it.                         *)
LEMMA BecomeIs ==
  ASSUME NEW o \in Obj, \A p \in Obj \ {o} : Plain(p)' = Plain(p)
  PROVE  Model!Become(o, Plain(o)')
<1> DEFINE object == [x \in Obj |-> Plain(x)]
           after  == [x \in Obj |-> Plain(x)']
<1>1. after = [object EXCEPT ![o] = Plain(o)']
  OBVIOUS
<1> QED BY <1>1 DEF Model!Become

LEMMA NothingIs ==
  ASSUME \A p \in Obj : Plain(p)' = Plain(p)
  PROVE  Model!Get
<1>1. [x \in Obj |-> Plain(x)'] = [x \in Obj |-> Plain(x)]
  OBVIOUS
<1> QED BY <1>1 DEF Model!Get

(* Objects that are made, and their slots.                                 *)
LEMMA ModelMade ==
  ASSUME SlotInv
  PROVE  /\ Model!Made = Made
         /\ \A o \in Made : /\ o \in Obj /\ Plain(o) = [slots |-> [k \in Key |-> SaysOf(o, k)], proto |-> obj[o].proto]
                            /\ \A k \in Key : Model!Slot(o, k) = SaysOf(o, k)
<1>1. Model!Made = Made
  <2>1. \A o \in Obj : [x \in Obj |-> Plain(x)][o] = Nil <=> obj[o] = Nil
    BY PlainIs
  <2> QED BY <2>1 DEF Model!Made, Made
<1>2. ASSUME NEW o \in Made
      PROVE  /\ o \in Obj /\ Plain(o) = [slots |-> [k \in Key |-> SaysOf(o, k)], proto |-> obj[o].proto]
             /\ \A k \in Key : Model!Slot(o, k) = SaysOf(o, k)
  <2>1. o \in Obj /\ obj[o] # Nil
    BY DEF Made
  <2>2. \A k \in Key : Plain(o).slots[k] = SaysOf(o, k)
    BY <2>1, PlainIs
  <2> QED BY <2>1, <2>2, PlainIs DEF Model!Slot
<1> QED BY <1>1, <1>2

(* What one object becomes is what SlotModel has it become.                *)
LEMMA SetShows ==
  ASSUME SlotInv, SlotInv', NEW o \in Made, NEW k \in Key, NEW d, NEW u, Writable(o, u), Store(o, obj[o], u),
         Says(u, k) = d, \A l \in Key \ {k} : Says(u, l) = Says(OwnTable(o), l)
  PROVE  /\ Model!Become(o, [[x \in Obj |-> Plain(x)][o] EXCEPT !.slots[k] = d])
         /\ Model!Slot(o, k) = Says(OwnTable(o), k)
<1> DEFINE r == obj[o]
           f == [l \in Key |-> SaysOf(o, l)]
           g == [l \in Key |-> Says(u, l)]
<1>1. o \in Obj /\ r \in Object /\ r # Nil
  BY DEF Made, SlotInv, ObjectsWell
<1>2. Plain(o) = [slots |-> f, proto |-> r.proto] /\ Model!Slot(o, k) = SaysOf(o, k)
  BY ModelMade
<1>3. \A l \in Key : SaysOf(o, l) = Says(OwnTable(o), l)
  BY <1>1, OwnIs DEF SaysOf
<1>4. g = [f EXCEPT ![k] = d]
  BY <1>3
<1> HIDE DEF r
<1>5. /\ \A p \in Obj \ {o} : Plain(p)' = Plain(p)
      /\ Plain(o)' = [slots |-> g, proto |-> r.proto]
  BY <1>1, StoreShows DEF r
<1> HIDE DEF f, g
<1>6. [Plain(o) EXCEPT !.slots = [f EXCEPT ![k] = d]] = [slots |-> g, proto |-> r.proto]
  BY <1>2, <1>4
<1>7. [Plain(o) EXCEPT !.slots[k] = d] = Plain(o)'
  BY <1>2, <1>5, <1>6
<1>8. [x \in Obj |-> Plain(x)][o] = Plain(o)
  BY <1>1
<1>9. Model!Become(o, Plain(o)')
  BY <1>1, <1>5, BecomeIs
<1>10. Model!Slot(o, k) = Says(OwnTable(o), k)
  BY <1>2, <1>3
<1> HIDE DEF r
<1>11. [[x \in Obj |-> Plain(x)][o] EXCEPT !.slots[k] = d] = Plain(o)'
  BY <1>7, <1>8
<1> QED BY <1>9, <1>10, <1>11

LEMMA SetSlotModel ==
  ASSUME SlotInv, SlotInv', NEW i \in Instr, NEW o \in Made, NEW v \in Val, SetSlot(i, o, v)
  PROVE  Model!Next
<1> DEFINE u == SetTo(i, o, v)
           k == KeyOf[i]
<1>1. k \in Key /\ Model!Made = Made
  BY SlotAssumption, ModelMade
<1>2. /\ Store(o, obj[o], u) /\ Writable(o, u)
      /\ Says(u, k) = v /\ \A l \in Key \ {k} : Says(u, l) = Says(OwnTable(o), l)
  BY SetSlotIs
<1> HIDE DEF u, k
<1>3. Model!Set(o, k, v)
  BY <1>1, <1>2, SetShows DEF Model!Set
<1> QED BY <1>1, <1>3 DEF Model!Next

LEMMA SetIndexModel ==
  ASSUME SlotInv, SlotInv', NEW o \in Made, NEW k \in Key, NEW v \in Val \cup {Nil}, SetIndex(o, k, v)
  PROVE  Model!Next
<1> DEFINE t == OwnTable(o)
           u == Assigned(t, k, v, Given(t))
<1>1. /\ Store(o, obj[o], u) /\ Writable(o, u)
      /\ \A l \in Key \ {k} : Says(u, l) = Says(t, l)
      /\ v # Nil => Says(u, k) = v
      /\ v = Nil => Says(u, k) = Gone \/ (Says(u, k) = Absent /\ Says(t, k) = Absent)
  BY SetIndexIs
<1>2. Model!Made = Made
  BY ModelMade
<1> DEFINE d == Says(u, k)
<1> HIDE DEF u
<1>3. /\ Model!Become(o, [[x \in Obj |-> Plain(x)][o] EXCEPT !.slots[k] = d])
      /\ Model!Slot(o, k) = Says(t, k)
  BY <1>1, SetShows
<1> HIDE DEF d, t
<1>4. CASE v # Nil
  <2>1. v \in Val /\ d = v
    BY <1>1, <1>4 DEF d
  <2>2. Model!Set(o, k, v)
    BY <2>1, <1>3 DEF Model!Set
  <2> QED BY <1>2, <2>1, <2>2 DEF Model!Next
<1>5. CASE v = Nil
  <2>1. d \in Model!Deleted(Model!Slot(o, k))
    BY <1>1, <1>3, <1>5 DEF Model!Deleted, d
  <2>2. Model!Delete(o, k)
    BY <2>1, <1>3 DEF Model!Delete
  <2> QED BY <1>2, <2>2 DEF Model!Next
<1> QED BY <1>4, <1>5

LEMMA NewModel ==
  ASSUME SlotInv, SlotInv', NEW o \in Obj, NEW init \in Prealloc \cup {0}, New(o, init)
  PROVE  Model!Next
<1>1. /\ init \in Nat /\ NewObj \in Object /\ uids \in Nat /\ obj[o] = Nil
      /\ NewObj.slots = Nil /\ NewObj.proto = Root /\ NewObj # Nil
      /\ obj \in [Obj -> Object \cup {Nil}]
  <2>1. NewObj \in Object
    BY SlotAssumption DEF NewObj, Object
  <2> QED BY <2>1, SlotAssumption DEF NewObj, SlotInv, TablesWell, ObjectsWell, New
<1>2. (\A p \in Obj \ {o} : Plain(p)' = Plain(p)) /\ Plain(o)' = Model!NewObject
  <2>1. CASE init = 0
    <3>1. obj' = [obj EXCEPT ![o] = NewObj] /\ tab' = tab
      BY <2>1 DEF New
    <3>2. obj'[o] = NewObj /\ \A p \in Obj \ {o} : obj'[p] = obj[p]
      BY <1>1, <3>1
    <3>3. ASSUME NEW p \in Obj \ {o}
          PROVE  Plain(p)' = Plain(p)
      <4>1. HasTable(p)' <=> HasTable(p)
        BY <3>2 DEF HasTable
      <4>2. \A k \in Key : SaysOf(p, k)' = SaysOf(p, k)
        BY <4>1, <3>1, <3>2 DEF SaysOf, TableOf
      <4>3. obj'[p] = obj[p]
        BY <3>2
      <4> QED BY <4>2, <4>3, SameShown
    <3>4. ~ HasTable(o)'
      BY <1>1, <3>2 DEF HasTable
    <3>5. \A k \in Key : SaysOf(o, k)' = Absent
      BY <3>4 DEF SaysOf
    <3>6. Shows'
      BY AllShown
    <3>7. Plain(o)' = [slots |-> [k \in Key |-> SaysOf(o, k)'], proto |-> obj'[o].proto]
      BY <3>6, <3>2, <1>1 DEF Shows
    <3>8. [k \in Key |-> SaysOf(o, k)'] = [k \in Key |-> Absent]
      BY <3>5
    <3>9. obj'[o].proto = Root
      BY <3>2, <1>1
    <3> QED BY <3>3, <3>7, <3>8, <3>9 DEF Model!NewObject
  <2>2. CASE init # 0
    <3> DEFINE t == NewTable(init, uids)
    <3>1. Store(o, NewObj, t)
      BY <2>2 DEF New
    <3>2. Size(t) <= MaxSize
      BY <3>1 DEF Store
    <3>3. Sound(t) /\ t.uid = uids + 1 /\ \A k \in Key : Says(t, k) = Absent
      BY <3>2, <1>1, NewTableIs
    <3> HIDE DEF t
    <3>4. Writable(o, t)
      BY <3>3, <1>1 DEF Writable
    <3>5. /\ \A p \in Obj \ {o} : Plain(p)' = Plain(p)
          /\ Plain(o)' = [slots |-> [k \in Key |-> Says(t, k)], proto |-> NewObj.proto]
      BY <3>1, <3>4, <1>1, StoreShows
    <3>6. [k \in Key |-> Says(t, k)] = [k \in Key |-> Absent]
      BY <3>3
    <3> QED BY <3>5, <3>6, <1>1 DEF Model!NewObject
  <2> QED BY <2>1, <2>2
<1>3. Model!Become(o, Model!NewObject)
  <2>1. Model!Become(o, Plain(o)')
    BY <1>2, BecomeIs
  <2> QED BY <2>1, <1>2
<1>4. [x \in Obj |-> Plain(x)][o] = Nil
  BY <1>1, PlainIs
<1>5. Model!New(o)
  BY <1>3, <1>4 DEF Model!New
<1> QED BY <1>5 DEF Model!Next

LEMMA CloneModel ==
  ASSUME SlotInv, SlotInv', NEW a \in Made, NEW o \in Obj, Clone(a, o)
  PROVE  Model!Next
<1>1. /\ obj[o] = Nil /\ obj' = [obj EXCEPT ![o] = obj[a]]
      /\ tab' = IF HasTable(a) THEN [tab EXCEPT ![obj[a].slots].shared = TRUE] ELSE tab
  BY DEF Clone
<1>2. a \in Obj /\ obj[a] # Nil /\ a # o /\ obj[a] \in Object
  BY <1>1 DEF Made, SlotInv, ObjectsWell
<1>3. /\ obj \in [Obj -> Object \cup {Nil}] /\ tab \in [Tab -> Table \cup {Nil}]
      /\ \A p \in Obj : HasTable(p) => obj[p].slots \in Tab /\ tab[obj[p].slots] # Nil
  BY DEF SlotInv, ObjectsWell, TablesWell
<1>4. obj'[o] = obj[a] /\ \A p \in Obj \ {o} : obj'[p] = obj[p]
  BY <1>1, <1>2, <1>3
<1>5. ASSUME NEW x \in Tab, tab[x] # Nil
      PROVE  tab'[x].cells = tab[x].cells
  <2>1. CASE HasTable(a) /\ x = obj[a].slots
    <3> DEFINE t == tab[x]
               u == [t EXCEPT !.shared = TRUE]
    <3>1. t \in Table
      BY <1>3, <1>5
    <3>2. tab'[x] = u
      BY <2>1, <1>1, <1>3
    <3> HIDE DEF t
    <3>3. u.cells = t.cells
      BY <3>1 DEF Table
    <3> QED BY <3>2, <3>3 DEF t
  <2>2. CASE ~ (HasTable(a) /\ x = obj[a].slots)
    BY <2>2, <1>1, <1>3
  <2> QED BY <2>1, <2>2
<1>6. ASSUME NEW p \in Obj, NEW q \in Obj, obj'[p] = obj[q], NEW k \in Key
      PROVE  SaysOf(p, k)' = SaysOf(q, k)
  <2>1. HasTable(p)' <=> HasTable(q)
    BY <1>6 DEF HasTable
  <2>2. HasTable(q) => tab'[obj'[p].slots].cells = tab[obj[q].slots].cells
    BY <1>3, <1>5, <1>6
  <2> QED BY <2>1, <2>2 DEF SaysOf, TableOf, Says
<1>7. ASSUME NEW p \in Obj \ {o}
      PROVE  Plain(p)' = Plain(p)
  <2>1. obj'[p] = obj[p] /\ \A k \in Key : SaysOf(p, k)' = SaysOf(p, k)
    BY <1>4, <1>6
  <2> QED BY <2>1, SameShown
<1>8. Plain(o)' = Plain(a)
  <2> DEFINE f == [k \in Key |-> SaysOf(a, k)]
             g == [k \in Key |-> SaysOf(o, k)']
  <2>1. f = g
    BY <1>2, <1>4, <1>6
  <2>2. Plain(a) = [slots |-> f, proto |-> obj[a].proto]
    BY ModelMade
  <2>3. Shows'
    BY AllShown
  <2>4. Plain(o)' = [slots |-> g, proto |-> obj'[o].proto]
    BY <2>3, <1>2, <1>4 DEF Shows
  <2> HIDE DEF f, g
  <2> QED BY <2>1, <2>2, <2>4, <1>4
<1>9. Model!Become(o, Plain(o)')
  BY <1>7, BecomeIs
<1>10. [x \in Obj |-> Plain(x)][a] = Plain(o)' /\ [x \in Obj |-> Plain(x)][o] = Nil
  BY <1>1, <1>2, <1>8, PlainIs
<1>11. Model!Clone(a, o)
  BY <1>9, <1>10 DEF Model!Clone
<1>12. Model!Made = Made
  BY ModelMade
<1> QED BY <1>11, <1>12 DEF Model!Next

(* A prototype that is not below the object is not above it in SlotModel.  *)
LEMMA PutProtoModel ==
  ASSUME SlotInv, ProtoInv, SlotInv', NEW o \in Made, NEW p \in Made \cup {Nil}, PutProto(o, p),
         p = Nil \/ ~ HasProto(p, o)
  PROVE  Model!Next
<1>1. /\ ObjectsWell /\ Grounded /\ o \in Obj /\ obj[o] # Nil /\ p \in Obj \cup {Nil}
      /\ obj \in [Obj -> Object \cup {Nil}] /\ obj[o] \in Object
  BY DEF SlotInv, ProtoInv, Made, ObjectsWell
<1> DEFINE r == obj[o]
           q == [r EXCEPT !.proto = p]
<1>2. obj' = [obj EXCEPT ![o] = q] /\ tab' = tab
  BY <1>1 DEF PutProto
<1> HIDE DEF r
<1>3. q.slots = r.slots /\ q.proto = p /\ q \in Object
  BY <1>1 DEF Object, r
<1> HIDE DEF q
<1>4. obj'[o] = q /\ obj'[o] # Nil /\ \A x \in Obj \ {o} : obj'[x] = obj[x]
  BY <1>1, <1>2, <1>3, SlotAssumption
<1>5. ASSUME NEW x \in Obj
      PROVE  \A k \in Key : SaysOf(x, k)' = SaysOf(x, k)
  <2>1. CASE x = o
    <3>1. (HasTable(x)' <=> HasTable(x)) /\ obj'[x].slots = obj[x].slots
      BY <2>1, <1>1, <1>3, <1>4 DEF HasTable, r
    <3> QED BY <3>1, <1>2 DEF SaysOf, TableOf
  <2>2. CASE x # o
    <3>1. (HasTable(x)' <=> HasTable(x)) /\ obj'[x] = obj[x]
      BY <2>2, <1>4 DEF HasTable
    <3> QED BY <3>1, <1>2 DEF SaysOf, TableOf
  <2> QED BY <2>1, <2>2
<1>6. ASSUME NEW x \in Obj \ {o}
      PROVE  Plain(x)' = Plain(x)
  <2>1. obj'[x] = obj[x]
    BY <1>4
  <2> QED BY <2>1, <1>5, SameShown
<1> DEFINE f == [k \in Key |-> SaysOf(o, k)]
           g == [k \in Key |-> SaysOf(o, k)']
<1>7. f = g
  BY <1>1, <1>5
<1>8. Plain(o) = [slots |-> f, proto |-> obj[o].proto] /\ Model!Made = Made
  BY ModelMade
<1>9. Shows'
  BY AllShown
<1>10. Plain(o)' = [slots |-> g, proto |-> obj'[o].proto]
  BY <1>9, <1>1, <1>4 DEF Shows
<1> HIDE DEF f, g
<1>11. [Plain(o) EXCEPT !.proto = p] = Plain(o)'
  BY <1>3, <1>4, <1>7, <1>8, <1>10
<1>12. [x \in Obj |-> Plain(x)][o] = Plain(o)
  BY <1>1
<1>13. Model!Become(o, Plain(o)')
  BY <1>1, <1>6, BecomeIs
<1>14. Model!Become(o, [[x \in Obj |-> Plain(x)][o] EXCEPT !.proto = p])
  BY <1>11, <1>12, <1>13
<1>15. p = Nil \/ o \notin Model!Chain(p)
  <2> SUFFICES ASSUME ~ HasProto(p, o)
               PROVE  o \notin Model!Chain(p)
    OBVIOUS
  <2>1. PICK h : Up(h, p) /\ Chain(p) = [n \in Within(h) |-> h[n]]
    BY <1>1, ChainIs
  <2>2. Model!Chain(p) = {h[n] : n \in Within(h)}
    BY <1>1, <2>1, ModelChain
  <2>3. HasProto(p, o) <=> \E n \in Within(h) : h[n] = o
    BY <2>1 DEF HasProto
  <2> QED BY <2>2, <2>3
<1>16. Model!SetProto(o, p)
  BY <1>14, <1>15 DEF Model!SetProto
<1> QED BY <1>8, <1>16 DEF Model!Next

(* Of a merge that overwrites, SlotModel leaves open which of the deleted  *)
(* slots that were not there become deleted ones here.                     *)
LEMMA MergeModel ==
  ASSUME SlotInv, SlotInv', NEW a \in Made, NEW b \in Made, NEW overwrite \in BOOLEAN, Merge(a, b, overwrite)
  PROVE  Model!Next
<1> DEFINE u == MergeTo(a, b, overwrite)
           r == obj[a]
<1>1. /\ Store(a, r, u) /\ Writable(a, u)
      /\ \A k \in Key : Blend(SaysOf(a, k), SaysOf(b, k), overwrite, Says(u, k))
  BY MergeIs
<1>2. a \in Obj /\ r \in Object /\ r # Nil
  BY DEF Made, SlotInv, ObjectsWell
<1>3. /\ Model!Made = Made /\ Plain(a) = [slots |-> [k \in Key |-> SaysOf(a, k)], proto |-> r.proto]
      /\ \A k \in Key : Model!Slot(a, k) = SaysOf(a, k) /\ Model!Slot(b, k) = SaysOf(b, k)
  BY ModelMade
<1> HIDE DEF u, r
<1>4. /\ \A p \in Obj \ {a} : Plain(p)' = Plain(p)
      /\ Plain(a)' = [slots |-> [k \in Key |-> Says(u, k)], proto |-> r.proto]
  BY <1>1, <1>2, StoreShows DEF r
<1>5. Model!Become(a, Plain(a)')
  BY <1>2, <1>4, BecomeIs
<1> DEFINE deletes == {k \in Key : Model!Slot(b, k) = Gone /\ Model!Slot(a, k) = Absent}
           left == IF overwrite THEN {k \in deletes : Says(u, k) = Gone} ELSE deletes
           Takes(k) == /\ Model!Slot(b, k) # Absent
                       /\ overwrite \/ Model!Slot(a, k) = Absent
                       /\ k \in deletes => k \in left
           after == [k \in Key |-> IF Takes(k) THEN Model!Slot(b, k) ELSE Model!Slot(a, k)]
           says  == [k \in Key |-> Says(u, k)]
<1>6. left \in IF overwrite THEN SUBSET deletes ELSE {deletes}
  OBVIOUS
<1>7. Absent # Gone
  BY AbsentGone
<1>8. after = says
  <2>1. ASSUME NEW k \in Key
        PROVE  (IF Takes(k) THEN Model!Slot(b, k) ELSE Model!Slot(a, k)) = Says(u, k)
    <3>1. Blend(SaysOf(a, k), SaysOf(b, k), overwrite, Says(u, k))
      BY <1>1
    <3>2. Model!Slot(a, k) = SaysOf(a, k) /\ Model!Slot(b, k) = SaysOf(b, k)
      BY <1>3
    <3> QED BY <3>1, <3>2, <1>7 DEF Blend
  <2> QED BY <2>1
<1>9. [x \in Obj |-> Plain(x)][a] = Plain(a)
  BY <1>2
<1> DEFINE before == [k \in Key |-> SaysOf(a, k)]
<1> HIDE DEF after, says, before
<1>10. [Plain(a) EXCEPT !.slots = after] = Plain(a)'
  BY <1>3, <1>4, <1>8 DEF says, before
<1>11. Model!Become(a, [[x \in Obj |-> Plain(x)][a] EXCEPT !.slots = after])
  BY <1>5, <1>9, <1>10
<1>12. Model!Merge(a, b, overwrite)
  BY <1>6, <1>11, Zenon DEF Model!Merge, after
<1> QED BY <1>3, <1>12 DEF Model!Next

(* Reading a slot, and a collection, change nothing that SlotModel sees.   *)
LEMMA StillModel ==
  ASSUME SlotInv, SlotInv', obj' = obj,
         \A x \in Tab : tab[x] # Nil => tab'[x].cells = tab[x].cells
  PROVE  Model!Get
<1>1. \A p \in Obj : HasTable(p) => obj[p].slots \in Tab /\ tab[obj[p].slots] # Nil
  BY DEF SlotInv, ObjectsWell
<1>2. ASSUME NEW p \in Obj
      PROVE  Plain(p)' = Plain(p)
  <2>1. HasTable(p)' <=> HasTable(p)
    BY DEF HasTable
  <2>2. HasTable(p) => tab'[obj'[p].slots].cells = tab[obj[p].slots].cells
    BY <1>1
  <2>3. \A k \in Key : SaysOf(p, k)' = SaysOf(p, k)
    BY <2>1, <2>2 DEF SaysOf, TableOf, Says
  <2> QED BY <2>3, SameShown
<1> QED BY <1>2, NothingIs

LEMMA StepModel ==
  ASSUME "proto" \notin Quirks, "restart" \notin Quirks, SlotInv, ProtoInv, [Next]_vars
  PROVE  [Model!Next]_([o \in Obj |-> Plain(o)])
<1>0. SlotInv' /\ (Model!Get => Model!Next)
  BY NextKeeps DEF Model!Next
<1>1. ASSUME NEW o \in Obj, NEW init \in Prealloc \cup {0}, New(o, init)
      PROVE  Model!Next
  BY <1>0, <1>1, NewModel
<1>2. ASSUME NEW a \in Made, NEW o \in Obj, Clone(a, o)
      PROVE  Model!Next
  BY <1>0, <1>2, CloneModel
<1>3. ASSUME NEW i \in Instr, NEW o \in Made, NEW v \in Val, SetSlot(i, o, v)
      PROVE  Model!Next
  BY <1>0, <1>3, SetSlotModel
<1>4. ASSUME NEW o \in Made, NEW k \in Key, NEW v \in Val \cup {Nil}, SetIndex(o, k, v)
      PROVE  Model!Next
  BY <1>0, <1>4, SetIndexModel
<1>5. ASSUME NEW o \in Made, NEW p \in Made, SetProto(o, p)
      PROVE  Model!Next
  BY <1>0, <1>5, PutProtoModel DEF SetProto
<1>6. ASSUME NEW o \in Made, NEW p \in Made \cup {Nil}, SetProtoSlot(o, p)
      PROVE  Model!Next
  BY <1>0, <1>6, PutProtoModel DEF SetProtoSlot
<1>7. ASSUME NEW a \in Made, NEW b \in Made, NEW overwrite \in BOOLEAN, Merge(a, b, overwrite)
      PROVE  Model!Next
  BY <1>0, <1>7, MergeModel
<1>8. ASSUME NEW i \in Instr, NEW o \in Made, GetSlot(i, o)
      PROVE  Model!Next
  <2>1. obj' = obj /\ tab' = tab
    BY <1>8 DEF GetSlot
  <2>2. Model!Get
    BY <1>0, <2>1, StillModel
  <2> QED BY <1>0, <2>2
<1>9. ASSUME NEW moves \in SUBSET {x \in Tab : tab[x] # Nil}, Collect(moves)
      PROVE  Model!Next
  <2>1. obj' = obj /\ \A x \in Tab : tab[x] # Nil => tab'[x].cells = tab[x].cells
    BY <1>9, CollectIs
  <2>2. Model!Get
    BY <1>0, <2>1, StillModel
  <2> QED BY <1>0, <2>2
<1>10. CASE UNCHANGED vars
  <2>1. obj' = obj /\ tab' = tab
    BY <1>10 DEF vars
  <2>2. Model!Get
    BY <1>0, <2>1, StillModel
  <2> QED BY <1>0, <2>2
<1> QED BY <1>1, <1>2, <1>3, <1>4, <1>5, <1>6, <1>7, <1>8, <1>9, <1>10 DEF Next

LEMMA InitModel == Init => Model!Init
<1> SUFFICES ASSUME Init
             PROVE  Model!Init
  OBVIOUS
<1>1. SlotInv
  BY InitKeeps
<1> DEFINE robj == [NewObj EXCEPT !.slots = 1, !.proto = Nil]
           first == NewTable(0, 0)
           made == [Model!NewObject EXCEPT !.proto = Nil]
<1>2. robj.slots = 1 /\ robj.proto = Nil /\ robj \in Object
  BY SlotAssumption DEF NewObj, Object
<1>3. obj = [o \in Obj |-> IF o = Root THEN robj ELSE Nil] /\ tab = [x \in Tab |-> IF x = 1 THEN first ELSE Nil]
  BY DEF Init
<1>4. \A k \in Key : Says(first, k) = Absent
  <2>1. \A n \in Nat : \A k \in Key : Says(NewTable(0, n), k) = Absent
    BY FirstTable
  <2> QED BY <2>1
<1> HIDE DEF robj, first
<1>5. Root \in Obj /\ obj[Root] = robj /\ robj # Nil
  BY <1>2, <1>3, SlotAssumption
<1>6. HasTable(Root) /\ TableOf(Root) = first
  <2>1. HasTable(Root)
    BY <1>2, <1>5, SlotAssumption DEF HasTable
  <2>2. obj[Root].slots \in Tab
    BY <1>1, <1>5, <2>1 DEF SlotInv, ObjectsWell
  <2>3. tab[1] = first
    BY <1>2, <1>3, <1>5, <2>2
  <2> QED BY <2>1, <2>3, <1>2, <1>5 DEF TableOf
<1>7. Plain(Root) = [slots |-> [k \in Key |-> SaysOf(Root, k)], proto |-> Nil]
  BY <1>1, <1>2, <1>5, PlainIs
<1>8. [k \in Key |-> SaysOf(Root, k)] = [k \in Key |-> Absent]
  BY <1>4, <1>6 DEF SaysOf
<1>9. Plain(Root) = made
  BY <1>7, <1>8 DEF Model!NewObject
<1> HIDE DEF made
<1>10. \A o \in Obj : Plain(o) = IF o = Root THEN made ELSE Nil
  BY <1>1, <1>3, <1>9, PlainIs
<1>11. [o \in Obj |-> Plain(o)] = [o \in Obj |-> IF o = Root THEN made ELSE Nil]
  BY <1>10
<1> QED BY <1>11 DEF Model!Init, made

(* Slots implements SlotModel: whatever tables are shared, grown, copied,  *)
(* moved and numbered again, a program sees objects that are functions.    *)
THEOREM SlotsImplement ==
  ASSUME "proto" \notin Quirks, "restart" \notin Quirks
  PROVE  Spec => Implements
<1>1. Init => Model!Init
  BY InitModel
<1>2. SlotInv /\ ProtoInv /\ [Next]_vars => [Model!Next]_([o \in Obj |-> Plain(o)])
  BY StepModel
<1>3. Spec => [](SlotInv /\ ProtoInv)
  BY ProtosEnd
<1> QED BY <1>1, <1>2, <1>3, PTL DEF Spec, Implements, Model!Spec
=============================================================================
