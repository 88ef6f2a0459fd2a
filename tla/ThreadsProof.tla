---------------------------- MODULE ThreadsProof ----------------------------
(***************************************************************************)
(* Safety of the threads of a VM state, for every number of threads and    *)
(* every size of the interrupt buffer: what a push and a pop do to the     *)
(* buffer; the types and the exclusive global lock; the agreement of       *)
(* has_int with the buffer and the assumption of popInt, when the clock    *)
(* thread starts after thread_enabled is set; that the buffer is a bounded *)
(* stack and no interrupt is lost; and that the joiner is alone when it    *)
(* frees the state.                                                        *)
(***************************************************************************)
EXTENDS Threads, FiniteSetTheorems, SequenceTheorems, TLAPS

(***************************************************************************)
(* Positions.                                                              *)
(***************************************************************************)

(* _INC_ROUND and _DEC_ROUND stay inside the buffer and step by one.       *)
LEMMA IncDec ==
  ASSUME NEW i \in Index
  PROVE  /\ Inc(i) \in Index
         /\ Inc(i) # i
         /\ Dec(i) \in Index
         /\ Inc(i) = IF i = RingSize - 1 THEN 0 ELSE i + 1
         /\ Dec(i) = IF i = 0 THEN RingSize - 1 ELSE i - 1
<1>1. CASE i = RingSize - 1
  BY <1>1, RingSizeAssumption DEF Index, Inc, Dec
<1>2. CASE i # RingSize - 1
  BY <1>2, RingSizeAssumption DEF Index, Inc, Dec
<1> QED BY <1>1, <1>2

(* A push leaves a ring with a flag in it, a pop and a reset leave a ring, *)
(* whatever the ring was.                                                  *)
LEMMA RingSteps ==
  ASSUME NEW r \in Ring, NEW flag \in Flag
  PROVE  /\ Push(r, flag) \in Ring
         /\ ~ IsEmpty(Push(r, flag))
         /\ Drop(r) \in Ring
         /\ Top(r) \in Flag \cup {NoInt}
         /\ Reset(r) \in Ring
         /\ IsEmpty(Reset(r))
<1>1. r.next \in Index /\ r.head \in Index
  BY DEF Ring
<1>2. /\ Inc(r.next) \in Index /\ Inc(r.head) \in Index /\ Dec(r.next) \in Index
      /\ Inc(r.head) # r.head
  BY <1>1, IncDec
<1>3. 0 \in Index
  BY RingSizeAssumption DEF Index
<1>4. Push(r, flag) \in Ring
  BY <1>1, <1>2 DEF Push, Ring
<1>5. ~ IsEmpty(Push(r, flag))
  BY <1>1, <1>2 DEF Push, IsEmpty
<1>6. Drop(r) \in Ring /\ Top(r) \in Flag \cup {NoInt}
  BY <1>1, <1>2 DEF Drop, Top, Ring
<1>7. Reset(r) \in Ring /\ IsEmpty(Reset(r))
  BY <1>1, <1>3 DEF Reset, Ring, IsEmpty
<1> QED BY <1>4, <1>5, <1>6, <1>7

(* The remainder of a number below twice the size.                         *)
LEMMA WrapAround ==
  ASSUME NEW a \in Nat, a < 2 * RingSize
  PROVE  a % RingSize = IF a < RingSize THEN a ELSE a - RingSize
<1>1. CASE a < RingSize
  BY <1>1, RingSizeAssumption
<1>2. CASE a >= RingSize
  BY <1>2, RingSizeAssumption
<1> QED BY <1>1, <1>2, RingSizeAssumption

(* The cells in use run from int_head up to int_next, round the end.       *)
LEMMA HeldCells ==
  ASSUME NEW r \in Ring
  PROVE  /\ Size(r) = IF r.head <= r.next THEN r.next - r.head
                                          ELSE r.next - r.head + RingSize
         /\ Size(r) \in Index
         /\ Held(r) \subseteq Index
         /\ \A i \in Index :
              i \in Held(r) <=> IF r.head <= r.next
                                  THEN r.head <= i /\ i < r.next
                                  ELSE r.head <= i \/ i < r.next
<1>1. r.next \in 0 .. RingSize - 1 /\ r.head \in 0 .. RingSize - 1
  BY DEF Ring, Index
<1>2. ASSUME NEW i \in 0 .. RingSize - 1
      PROVE  (i - r.head + RingSize) % RingSize
               = IF r.head <= i THEN i - r.head ELSE i - r.head + RingSize
  <2>1. i - r.head + RingSize \in Nat /\ i - r.head + RingSize < 2 * RingSize
    BY <1>1, RingSizeAssumption
  <2>2. i - r.head + RingSize < RingSize <=> ~ (r.head <= i)
    BY <1>1, RingSizeAssumption
  <2> QED BY <1>1, <2>1, <2>2, WrapAround, RingSizeAssumption
<1>3. Size(r) = IF r.head <= r.next THEN r.next - r.head
                                    ELSE r.next - r.head + RingSize
  BY <1>1, <1>2 DEF Size
<1>4. Size(r) \in Index
  BY <1>1, <1>3, RingSizeAssumption DEF Index
<1>5. ASSUME NEW i \in Index
      PROVE  i \in Held(r) <=> IF r.head <= r.next
                                 THEN r.head <= i /\ i < r.next
                                 ELSE r.head <= i \/ i < r.next
  <2>1. i \in 0 .. RingSize - 1
    BY DEF Index
  <2>2. i \in Held(r) <=> (i - r.head + RingSize) % RingSize < Size(r)
    BY DEF Held
  <2> QED BY <2>1, <2>2, <1>1, <1>2, <1>3, RingSizeAssumption
<1> QED BY <1>3, <1>4, <1>5 DEF Held

(***************************************************************************)
(* Well-formed rings.                                                      *)
(***************************************************************************)
IsFull(r) == Inc(r.next) = r.head

(* Every cell in use holds a flag.                                         *)
RingInv(r) == r \in Ring /\ \A i \in Held(r) : r.buf[i] \in Flag

CellsWith(r, flag) == {i \in Held(r) : r.buf[i] = flag}

(* What a push does to the cells.                                          *)
LEMMA PushCells ==
  ASSUME NEW r \in Ring, NEW flag \in Flag
  PROVE  /\ Push(r, flag) \in Ring
         /\ ~ IsEmpty(Push(r, flag))
         /\ r.next \in Index
         /\ r.next \notin Held(r)
         /\ Push(r, flag).buf[r.next] = flag
         /\ \A i \in Held(r) : i # r.head => Push(r, flag).buf[i] = r.buf[i]
         /\ ~ IsFull(r) => /\ Held(Push(r, flag)) = Held(r) \cup {r.next}
                           /\ \A i \in Held(r) : Push(r, flag).buf[i] = r.buf[i]
         /\ IsFull(r) => /\ r.head \in Held(r)
                         /\ Held(r) = Index \ {r.next}
                         /\ Held(Push(r, flag)) = Index \ {r.head}
<1> DEFINE q == Push(r, flag)
<1>1. /\ r.next \in 0 .. RingSize - 1 /\ r.head \in 0 .. RingSize - 1
      /\ r.buf \in [Index -> Flag \cup {NoInt}]
      /\ r.next \in Index /\ r.head \in Index
  BY DEF Ring, Index
<1>2. /\ Inc(r.next) \in Index /\ Inc(r.next) # r.next
      /\ Inc(r.next) = IF r.next = RingSize - 1 THEN 0 ELSE r.next + 1
      /\ Inc(r.head) \in Index /\ Inc(r.head) # r.head
      /\ Inc(r.head) = IF r.head = RingSize - 1 THEN 0 ELSE r.head + 1
  BY <1>1, IncDec
<1>3. q \in Ring
  BY <1>1, <1>2 DEF Push, Ring
<1>4. /\ q.next = Inc(r.next)
      /\ q.head = IF IsFull(r) THEN Inc(r.head) ELSE r.head
      /\ q.buf = IF IsFull(r) THEN [r.buf EXCEPT ![r.next] = flag, ![r.head] = NoInt]
                              ELSE [r.buf EXCEPT ![r.next] = flag]
  BY DEF Push, IsFull
<1>5. ~ IsEmpty(q)
  BY <1>2, <1>4 DEF IsEmpty, IsFull
<1>6. r.next \notin Held(r)
  BY <1>1, HeldCells
<1>7. q.buf[r.next] = flag
  BY <1>1, <1>2, <1>4 DEF IsFull
<1>8. Held(r) \subseteq Index /\ Held(q) \subseteq Index
  BY <1>3, HeldCells
<1>9. \A i \in Held(r) : i # r.head => q.buf[i] = r.buf[i]
  BY <1>1, <1>4, <1>6, <1>8
<1>10. ASSUME ~ IsFull(r)
       PROVE  /\ Held(q) = Held(r) \cup {r.next}
              /\ \A i \in Held(r) : q.buf[i] = r.buf[i]
  <2>1. q.next = Inc(r.next) /\ q.head = r.head /\ q.head # q.next
    BY <1>4, <1>10 DEF IsFull
  <2>2. ASSUME NEW i \in Index
        PROVE  i \in Held(q) <=> i \in Held(r) \/ i = r.next
    <3>1. i \in 0 .. RingSize - 1
      BY DEF Index
    <3>2. i \in Held(r) <=> IF r.head <= r.next THEN r.head <= i /\ i < r.next
                                                ELSE r.head <= i \/ i < r.next
      BY HeldCells
    <3>3. i \in Held(q) <=> IF q.head <= q.next THEN q.head <= i /\ i < q.next
                                                ELSE q.head <= i \/ i < q.next
      BY <1>3, HeldCells
    <3> HIDE DEF q
    <3> QED BY <1>1, <1>2, <2>1, <3>1, <3>2, <3>3, RingSizeAssumption
  <2>3. Held(q) = Held(r) \cup {r.next}
    BY <2>2, <1>1, <1>8
  <2>4. \A i \in Held(r) : q.buf[i] = r.buf[i]
    BY <1>1, <1>4, <1>6, <1>8, <1>10
  <2> QED BY <2>3, <2>4
<1>11. ASSUME IsFull(r)
       PROVE  /\ r.head \in Held(r)
              /\ Held(r) = Index \ {r.next}
              /\ Held(q) = Index \ {r.head}
  <2>1. q.next = r.head /\ q.head = Inc(r.head) /\ r.head = Inc(r.next)
    BY <1>4, <1>11 DEF IsFull
  <2>2. ASSUME NEW i \in Index
        PROVE  /\ i \in Held(r) <=> i # r.next
               /\ i \in Held(q) <=> i # r.head
    <3>1. i \in 0 .. RingSize - 1
      BY DEF Index
    <3>2. i \in Held(r) <=> IF r.head <= r.next THEN r.head <= i /\ i < r.next
                                                ELSE r.head <= i \/ i < r.next
      BY HeldCells
    <3>3. i \in Held(q) <=> IF q.head <= q.next THEN q.head <= i /\ i < q.next
                                                ELSE q.head <= i \/ i < q.next
      BY <1>3, HeldCells
    <3> HIDE DEF q
    <3> QED BY <1>1, <1>2, <2>1, <3>1, <3>2, <3>3, RingSizeAssumption
  <2> QED BY <2>1, <2>2, <1>1, <1>2, <1>8
<1> QED BY <1>1, <1>3, <1>5, <1>6, <1>7, <1>9, <1>10, <1>11

(* What a pop does to the cells.                                           *)
LEMMA DropCells ==
  ASSUME NEW r \in Ring, ~ IsEmpty(r)
  PROVE  /\ Drop(r) \in Ring
         /\ Dec(r.next) \in Held(r)
         /\ Top(r) = r.buf[Dec(r.next)]
         /\ Held(Drop(r)) = Held(r) \ {Dec(r.next)}
         /\ \A i \in Held(Drop(r)) : Drop(r).buf[i] = r.buf[i]
<1> DEFINE q == Drop(r)
<1>1. /\ r.next \in 0 .. RingSize - 1 /\ r.head \in 0 .. RingSize - 1
      /\ r.buf \in [Index -> Flag \cup {NoInt}]
      /\ r.next \in Index /\ r.head \in Index /\ r.next # r.head
  BY DEF Ring, Index, IsEmpty
<1>2. /\ Dec(r.next) \in Index
      /\ Dec(r.next) = IF r.next = 0 THEN RingSize - 1 ELSE r.next - 1
  BY <1>1, IncDec
<1>3. /\ q.next = Dec(r.next) /\ q.head = r.head
      /\ q.buf = [r.buf EXCEPT ![Dec(r.next)] = NoInt]
  BY <1>1 DEF Drop, Ring
<1>4. q \in Ring
  BY <1>1, <1>2 DEF Drop, Ring
<1>5. ASSUME NEW i \in Index
      PROVE  /\ i = Dec(r.next) => i \in Held(r)
             /\ i \in Held(q) <=> i \in Held(r) /\ i # Dec(r.next)
  <2>1. i \in 0 .. RingSize - 1
    BY DEF Index
  <2>2. i \in Held(r) <=> IF r.head <= r.next THEN r.head <= i /\ i < r.next
                                              ELSE r.head <= i \/ i < r.next
    BY HeldCells
  <2>3. i \in Held(q) <=> IF q.head <= q.next THEN q.head <= i /\ i < q.next
                                              ELSE q.head <= i \/ i < q.next
    BY <1>4, HeldCells
  <2> HIDE DEF q
  <2> QED BY <1>1, <1>2, <1>3, <2>1, <2>2, <2>3, RingSizeAssumption
<1>6. Held(r) \subseteq Index /\ Held(q) \subseteq Index
  BY <1>4, HeldCells
<1>7. Held(q) = Held(r) \ {Dec(r.next)}
  BY <1>5, <1>6
<1>8. \A i \in Held(q) : q.buf[i] = r.buf[i]
  BY <1>1, <1>3, <1>6, <1>7
<1> QED BY <1>2, <1>4, <1>5, <1>7, <1>8 DEF Top

(* A ring without flags, and the ring that popInt resets.                  *)
LEMMA EmptyCells ==
  ASSUME NEW r \in Ring, IsEmpty(r)
  PROVE  /\ Held(r) = {}
         /\ Reset(r) \in Ring
         /\ IsEmpty(Reset(r))
         /\ Held(Reset(r)) = {}
<1>1. \A q \in Ring : IsEmpty(q) => Held(q) = {}
  <2> SUFFICES ASSUME NEW q \in Ring, IsEmpty(q), NEW i \in Held(q)
               PROVE  FALSE
    OBVIOUS
  <2>1. i \in 0 .. RingSize - 1 /\ q.next \in 0 .. RingSize - 1 /\ q.head = q.next
    BY HeldCells DEF Index, Ring, IsEmpty
  <2> QED BY <2>1, HeldCells DEF Index
<1>2. 0 \in Index
  BY RingSizeAssumption DEF Index
<1>3. Reset(r) \in Ring /\ IsEmpty(Reset(r))
  BY <1>2 DEF Reset, Ring, IsEmpty
<1> QED BY <1>1, <1>3

(***************************************************************************)
(* How many flags of a kind are pending.                                   *)
(***************************************************************************)
LEMMA CountFacts ==
  ASSUME NEW r \in Ring, NEW flag
  PROVE  /\ IsFiniteSet(CellsWith(r, flag))
         /\ Count(r, flag) = Cardinality(CellsWith(r, flag))
         /\ Count(r, flag) \in Nat
         /\ Count(r, flag) > 0 <=> \E i \in Held(r) : r.buf[i] = flag
<1>1. IsFiniteSet(Index)
  BY FS_Interval, RingSizeAssumption DEF Index
<1>2. CellsWith(r, flag) \in SUBSET Index
  BY HeldCells DEF CellsWith
<1>3. IsFiniteSet(CellsWith(r, flag))
  BY <1>1, <1>2, FS_Subset
<1>4. Cardinality(CellsWith(r, flag)) \in Nat
  BY <1>3, FS_CardinalityType
<1>5. Cardinality(CellsWith(r, flag)) = 0 <=> CellsWith(r, flag) = {}
  BY <1>3, FS_EmptySet
<1>6. Count(r, flag) = Cardinality(CellsWith(r, flag))
  BY DEF Count, CellsWith
<1> QED BY <1>3, <1>4, <1>5, <1>6 DEF CellsWith

(* A full ring holds RingSize - 1 flags.                                   *)
LEMMA FullCount ==
  ASSUME NEW r, RingInv(r), IsFull(r)
  PROVE  Count(r, GC) + Count(r, Yield) = RingSize - 1
<1>1. r \in Ring /\ GC \in Flag /\ r.next \in Index
  BY DEF RingInv, Flag, Ring
<1>2. Held(r) = Index \ {r.next}
  BY <1>1, PushCells
<1>3. IsFiniteSet(Index) /\ Cardinality(Index) = RingSize
  BY FS_Interval, RingSizeAssumption DEF Index
<1>4. Cardinality(Held(r)) = RingSize - 1
  BY <1>1, <1>2, <1>3, FS_RemoveElement
<1>5. Held(r) = CellsWith(r, GC) \cup CellsWith(r, Yield)
  BY DEF RingInv, CellsWith, Flag
<1>6. CellsWith(r, GC) \cap CellsWith(r, Yield) = {}
  BY DEF CellsWith, GC, Yield
<1>7. IsFiniteSet(CellsWith(r, GC)) /\ IsFiniteSet(CellsWith(r, Yield))
  BY <1>1, CountFacts
<1>8. Cardinality(Held(r))
        = Cardinality(CellsWith(r, GC)) + Cardinality(CellsWith(r, Yield)) - Cardinality({})
  BY <1>5, <1>6, <1>7, FS_Union
<1> QED BY <1>1, <1>4, <1>8, CountFacts, FS_EmptySet

(* A push adds one flag and gives up at most one.                          *)
LEMMA PushCount ==
  ASSUME NEW r, RingInv(r), NEW flag \in Flag
  PROVE  /\ RingInv(Push(r, flag))
         /\ Count(Push(r, flag), flag) > 0
         /\ Count(Push(r, flag), flag) <= Count(r, flag) + 1
         /\ \A other \in Flag \ {flag} :
              /\ Count(Push(r, flag), other) <= Count(r, other)
              /\ Count(Push(r, flag), other) >= Count(r, other) - 1
              /\ ~ IsFull(r) => Count(Push(r, flag), other) = Count(r, other)
<1> DEFINE q == Push(r, flag)
<1>1. r \in Ring /\ q \in Ring /\ \A i \in Held(r) : r.buf[i] \in Flag
  BY PushCells DEF RingInv
<1>2. /\ r.next \in Index /\ r.next \notin Held(r) /\ q.buf[r.next] = flag
      /\ \A i \in Held(r) : i # r.head => q.buf[i] = r.buf[i]
      /\ ~ IsFull(r) => /\ Held(q) = Held(r) \cup {r.next}
                        /\ \A i \in Held(r) : q.buf[i] = r.buf[i]
      /\ IsFull(r) => /\ r.head \in Held(r)
                      /\ Held(r) = Index \ {r.next}
                      /\ Held(q) = Index \ {r.head}
  BY <1>1, PushCells
<1>3. /\ Held(q) \subseteq Held(r) \cup {r.next}
      /\ Held(r) \ {r.head} \subseteq Held(q)
      /\ r.next \in Held(q)
      /\ \A i \in Held(q) : i # r.next => q.buf[i] = r.buf[i]
  <2> HIDE DEF q
  <2>1. CASE IsFull(r)
    BY <1>2, <2>1
  <2>2. CASE ~ IsFull(r)
    BY <1>2, <2>2
  <2> QED BY <2>1, <2>2
<1> HIDE DEF q
<1>4. RingInv(q)
  BY <1>1, <1>2, <1>3 DEF RingInv
<1>5. Count(q, flag) > 0
  BY <1>1, <1>2, <1>3, CountFacts
<1>6. Count(q, flag) <= Count(r, flag) + 1
  <2>1. CellsWith(q, flag) \in SUBSET (CellsWith(r, flag) \cup {r.next})
    BY <1>3 DEF CellsWith
  <2>2. IsFiniteSet(CellsWith(r, flag))
    BY <1>1, CountFacts
  <2>3. r.next \notin CellsWith(r, flag)
    BY <1>2 DEF CellsWith
  <2>4. /\ IsFiniteSet(CellsWith(r, flag) \cup {r.next})
        /\ Cardinality(CellsWith(r, flag) \cup {r.next}) = Cardinality(CellsWith(r, flag)) + 1
    BY <2>2, <2>3, FS_AddElement
  <2> QED BY <1>1, <2>1, <2>4, FS_Subset, CountFacts
<1>7. ASSUME NEW other \in Flag \ {flag}
      PROVE  /\ Count(q, other) <= Count(r, other)
             /\ Count(q, other) >= Count(r, other) - 1
             /\ ~ IsFull(r) => Count(q, other) = Count(r, other)
  <2>1. /\ CellsWith(q, other) \in SUBSET CellsWith(r, other)
        /\ CellsWith(r, other) \ {r.head} \in SUBSET CellsWith(q, other)
    BY <1>2, <1>3 DEF CellsWith
  <2>2. /\ IsFiniteSet(CellsWith(r, other)) /\ IsFiniteSet(CellsWith(q, other))
        /\ Count(r, other) = Cardinality(CellsWith(r, other)) /\ Count(r, other) \in Nat
        /\ Count(q, other) = Cardinality(CellsWith(q, other)) /\ Count(q, other) \in Nat
    BY <1>1, CountFacts
  <2>3. Count(q, other) <= Count(r, other)
    BY <2>1, <2>2, FS_Subset
  <2>4. Cardinality(CellsWith(r, other) \ {r.head}) \in {Count(r, other), Count(r, other) - 1}
    BY <2>2, FS_RemoveElement
  <2>5. Cardinality(CellsWith(r, other) \ {r.head}) <= Count(q, other)
    BY <2>1, <2>2, FS_Subset
  <2>6. ASSUME ~ IsFull(r)
        PROVE  CellsWith(q, other) = CellsWith(r, other)
    BY <1>2, <2>6 DEF CellsWith
  <2> QED BY <2>2, <2>3, <2>4, <2>5, <2>6
<1> QED BY <1>4, <1>5, <1>6, <1>7 DEF q

(* A pop takes one flag.                                                   *)
LEMMA DropCount ==
  ASSUME NEW r, RingInv(r), ~ IsEmpty(r)
  PROVE  /\ RingInv(Drop(r))
         /\ Top(r) \in Flag
         /\ Count(Drop(r), Top(r)) = Count(r, Top(r)) - 1
         /\ \A other \in Flag \ {Top(r)} : Count(Drop(r), other) = Count(r, other)
<1> DEFINE q == Drop(r)
           top == Dec(r.next)
<1>1. /\ r \in Ring /\ q \in Ring /\ \A i \in Held(r) : r.buf[i] \in Flag
      /\ top \in Held(r) /\ Top(r) = r.buf[top]
      /\ Held(q) = Held(r) \ {top}
      /\ \A i \in Held(q) : q.buf[i] = r.buf[i]
  BY DropCells DEF RingInv
<1> HIDE DEF q, top
<1>2. RingInv(q) /\ Top(r) \in Flag
  BY <1>1 DEF RingInv
<1>3. CellsWith(q, Top(r)) = CellsWith(r, Top(r)) \ {top} /\ top \in CellsWith(r, Top(r))
  BY <1>1 DEF CellsWith
<1>4. Count(q, Top(r)) = Count(r, Top(r)) - 1
  BY <1>1, <1>3, CountFacts, FS_RemoveElement
<1>5. ASSUME NEW other \in Flag \ {Top(r)}
      PROVE  Count(q, other) = Count(r, other)
  <2>1. CellsWith(q, other) = CellsWith(r, other)
    BY <1>1 DEF CellsWith
  <2> QED BY <1>1, <2>1, CountFacts
<1> QED BY <1>2, <1>4, <1>5 DEF q

(* An empty ring holds no flag, before and after it is reset.              *)
LEMMA EmptyCount ==
  ASSUME NEW r \in Ring, IsEmpty(r)
  PROVE  /\ RingInv(Reset(r))
         /\ \A flag \in Flag : Count(r, flag) = 0 /\ Count(Reset(r), flag) = 0
<1>1. /\ Held(r) = {} /\ Reset(r) \in Ring /\ Held(Reset(r)) = {}
  BY EmptyCells
<1>2. ASSUME NEW flag \in Flag
      PROVE  Count(r, flag) = 0 /\ Count(Reset(r), flag) = 0
  BY <1>1, CountFacts
<1> QED BY <1>1, <1>2 DEF RingInv

(* The ring of a new VM state.                                             *)
LEMMA EmptyRingFacts ==
  /\ EmptyRing \in Ring
  /\ IsEmpty(EmptyRing)
  /\ RingInv(EmptyRing)
  /\ \A flag \in Flag : Count(EmptyRing, flag) = 0
<1>1. EmptyRing \in Ring /\ IsEmpty(EmptyRing)
  BY RingSizeAssumption DEF EmptyRing, Ring, Index, IsEmpty
<1> QED BY <1>1, EmptyCells, EmptyCount DEF RingInv

(***************************************************************************)
(* The ring as the sequence of its pending flags.                          *)
(***************************************************************************)

(* The cell of the k-th oldest flag.                                       *)
Cell(r, k) == (r.head + k - 1) % RingSize

LEMMA CellFacts ==
  ASSUME NEW r \in Ring, NEW k \in 1 .. RingSize
  PROVE  /\ Cell(r, k) = IF r.head + k - 1 < RingSize THEN r.head + k - 1
                                                      ELSE r.head + k - 1 - RingSize
         /\ Cell(r, k) \in Index
         /\ k <= Size(r) => Cell(r, k) \in Held(r)
         /\ k = Size(r) + 1 => Cell(r, k) = r.next
         /\ Cell(r, k) = r.head <=> k = 1
<1>1. r.next \in 0 .. RingSize - 1 /\ r.head \in 0 .. RingSize - 1
  BY DEF Ring, Index
<1>2. r.head + k - 1 \in Nat /\ r.head + k - 1 < 2 * RingSize
  BY <1>1, RingSizeAssumption
<1>3. Cell(r, k) = IF r.head + k - 1 < RingSize THEN r.head + k - 1
                                                ELSE r.head + k - 1 - RingSize
  <2> DEFINE a == r.head + k - 1
  <2>1. a \in Nat /\ a < 2 * RingSize
    BY <1>2
  <2> HIDE DEF a
  <2>2. a % RingSize = IF a < RingSize THEN a ELSE a - RingSize
    BY <2>1, WrapAround
  <2>3. Cell(r, k) = a % RingSize
    BY DEF Cell, a
  <2> QED BY <1>1, <2>2, <2>3, RingSizeAssumption DEF a
<1>4. Cell(r, k) \in 0 .. RingSize - 1
  BY <1>1, <1>3, RingSizeAssumption
<1>5. Cell(r, k) \in Index
  BY <1>4 DEF Index
<1>6. /\ Size(r) = IF r.head <= r.next THEN r.next - r.head
                                       ELSE r.next - r.head + RingSize
      /\ Cell(r, k) \in Held(r) <=> IF r.head <= r.next
                                      THEN r.head <= Cell(r, k) /\ Cell(r, k) < r.next
                                      ELSE r.head <= Cell(r, k) \/ Cell(r, k) < r.next
  BY <1>5, HeldCells
<1> HIDE DEF Cell
<1>7. k <= Size(r) => Cell(r, k) \in Held(r)
  BY <1>1, <1>3, <1>6, RingSizeAssumption
<1>8. /\ k = Size(r) + 1 => Cell(r, k) = r.next
      /\ Cell(r, k) = r.head <=> k = 1
  BY <1>1, <1>3, <1>6, RingSizeAssumption
<1> QED BY <1>3, <1>5, <1>7, <1>8

LEMMA ContentsFacts ==
  ASSUME NEW r, RingInv(r)
  PROVE  /\ Contents(r) \in Seq(Flag)
         /\ Len(Contents(r)) = Size(r)
         /\ Size(r) \in 0 .. RingSize - 1
         /\ \A k \in 1 .. Size(r) : Contents(r)[k] = r.buf[Cell(r, k)]
<1>1. r \in Ring /\ Size(r) \in Nat /\ Size(r) \in 0 .. RingSize - 1
  BY HeldCells, RingSizeAssumption DEF RingInv, Index
<1>2. \A k \in 1 .. Size(r) : r.buf[Cell(r, k)] \in Flag
  BY <1>1, CellFacts, RingSizeAssumption DEF RingInv
<1>3. Contents(r) = [k \in 1 .. Size(r) |-> r.buf[Cell(r, k)]]
  BY DEF Contents, Cell
<1>4. Contents(r) \in [1 .. Size(r) -> Flag]
  BY <1>2, <1>3
<1>5. Contents(r) \in Seq(Flag)
  BY <1>1, <1>4, SeqDef
<1>6. Len(Contents(r)) = Size(r)
  BY <1>1, <1>4, <1>5, LenProperties
<1> QED BY <1>1, <1>3, <1>5, <1>6

(* A push appends, and on a full ring forgets the oldest flag first.       *)
LEMMA PushContents ==
  ASSUME NEW r, RingInv(r), NEW flag \in Flag
  PROVE  \/ /\ Len(Contents(r)) < RingSize - 1
            /\ Contents(Push(r, flag)) = Append(Contents(r), flag)
         \/ /\ Len(Contents(r)) = RingSize - 1
            /\ Contents(Push(r, flag)) = Append(Tail(Contents(r)), flag)
<1> DEFINE q == Push(r, flag)
<1>1. r \in Ring /\ q \in Ring /\ RingInv(q)
  BY PushCount DEF RingInv
<1>2. /\ Contents(r) \in Seq(Flag) /\ Len(Contents(r)) = Size(r)
      /\ Size(r) \in 0 .. RingSize - 1
      /\ \A k \in 1 .. Size(r) : Contents(r)[k] = r.buf[Cell(r, k)]
      /\ Contents(q) \in Seq(Flag) /\ Len(Contents(q)) = Size(q)
      /\ Size(q) \in 0 .. RingSize - 1
      /\ \A k \in 1 .. Size(q) : Contents(q)[k] = q.buf[Cell(q, k)]
  BY <1>1, ContentsFacts
<1>3. /\ r.next \notin Held(r) /\ q.buf[r.next] = flag
      /\ \A i \in Held(r) : i # r.head => q.buf[i] = r.buf[i]
      /\ ~ IsFull(r) => \A i \in Held(r) : q.buf[i] = r.buf[i]
  BY <1>1, PushCells
<1>4. /\ r.next \in 0 .. RingSize - 1 /\ r.head \in 0 .. RingSize - 1
      /\ Inc(r.next) = IF r.next = RingSize - 1 THEN 0 ELSE r.next + 1
      /\ Inc(r.head) = IF r.head = RingSize - 1 THEN 0 ELSE r.head + 1
      /\ Inc(r.next) \in 0 .. RingSize - 1 /\ Inc(r.head) \in 0 .. RingSize - 1
  BY IncDec DEF RingInv, Ring, Index
<1>5. /\ q.next = Inc(r.next)
      /\ q.head = IF IsFull(r) THEN Inc(r.head) ELSE r.head
  BY DEF Push, IsFull
<1>6. /\ Size(r) = IF r.head <= r.next THEN r.next - r.head
                                       ELSE r.next - r.head + RingSize
      /\ Size(q) = IF q.head <= q.next THEN q.next - q.head
                                       ELSE q.next - q.head + RingSize
  BY <1>1, HeldCells
<1> HIDE DEF q
<1>7. \A k \in 1 .. Size(r) : Cell(r, k) \in Held(r) /\ (Cell(r, k) = r.head <=> k = 1)
  BY <1>1, <1>2, CellFacts, RingSizeAssumption
<1>8. Cell(r, Size(r) + 1) = r.next
  BY <1>1, <1>2, CellFacts, RingSizeAssumption
<1>9. CASE ~ IsFull(r)
  <2>1. Size(q) = Size(r) + 1 /\ Size(r) < RingSize - 1 /\ q.head = r.head
    <3>1. q.next = Inc(r.next) /\ q.head = r.head /\ q.next # q.head
      BY <1>5, <1>9 DEF IsFull
    <3> QED BY <1>4, <1>6, <3>1, RingSizeAssumption
  <2>2. \A k \in 1 .. Size(q) : Cell(q, k) = Cell(r, k)
    BY <2>1 DEF Cell
  <2> DEFINE s == Append(Contents(r), flag)
  <2>3. /\ s \in Seq(Flag) /\ Len(s) = Size(r) + 1
        /\ \A k \in 1 .. Size(r) : s[k] = Contents(r)[k]
        /\ s[Size(r) + 1] = flag
    BY <1>2, AppendProperties
  <2> HIDE DEF s
  <2>4. ASSUME NEW k \in 1 .. Size(q)
        PROVE  Contents(q)[k] = s[k]
    <3>1. CASE k = Size(r) + 1
      BY <1>2, <1>3, <1>8, <2>1, <2>2, <2>3, <3>1
    <3>2. CASE k \in 1 .. Size(r)
      BY <1>2, <1>3, <1>7, <1>9, <2>2, <2>3, <3>2
    <3> QED BY <1>2, <2>1, <3>1, <3>2
  <2>5. Contents(q) = s
    BY <1>2, <2>1, <2>3, <2>4, SeqEqual
  <2> QED BY <1>2, <2>1, <2>5 DEF s, q
<1>10. CASE IsFull(r)
  <2>1. Size(q) = Size(r) /\ Size(r) = RingSize - 1 /\ q.head = Inc(r.head)
    <3>1. q.next = r.head /\ q.head = Inc(r.head) /\ r.head = Inc(r.next)
      BY <1>5, <1>10 DEF IsFull
    <3> QED BY <1>4, <1>6, <3>1, RingSizeAssumption
  <2>2. ASSUME NEW k \in 1 .. Size(q)
        PROVE  Cell(q, k) = Cell(r, k + 1)
    <3>1. k \in 1 .. RingSize /\ k + 1 \in 1 .. RingSize
      BY <1>2, <2>1, RingSizeAssumption
    <3>2. /\ Cell(q, k) = IF q.head + k - 1 < RingSize THEN q.head + k - 1
                                                      ELSE q.head + k - 1 - RingSize
          /\ Cell(r, k + 1) = IF r.head + (k + 1) - 1 < RingSize
                                THEN r.head + (k + 1) - 1
                                ELSE r.head + (k + 1) - 1 - RingSize
      BY <1>1, <3>1, CellFacts
    <3> HIDE DEF Cell
    <3> QED BY <1>4, <2>1, <3>1, <3>2, RingSizeAssumption
  <2> DEFINE t == Tail(Contents(r))
             s == Append(t, flag)
  <2>3. Contents(r) # <<>>
    BY <1>2, <2>1, RingSizeAssumption
  <2>4. /\ t \in Seq(Flag) /\ Len(t) = Size(r) - 1
        /\ \A k \in 1 .. Size(r) - 1 : t[k] = Contents(r)[k + 1]
    BY <1>2, <2>3, HeadTailProperties
  <2> HIDE DEF t
  <2>5. /\ s \in Seq(Flag) /\ Len(s) = Size(r)
        /\ \A k \in 1 .. Size(r) - 1 : s[k] = t[k]
        /\ s[Size(r)] = flag
    BY <1>2, <2>4, AppendProperties
  <2> HIDE DEF s
  <2>6. ASSUME NEW k \in 1 .. Size(q)
        PROVE  Contents(q)[k] = s[k]
    <3>1. CASE k = Size(r)
      BY <1>2, <1>3, <1>8, <2>1, <2>2, <2>5, <3>1
    <3>2. CASE k \in 1 .. Size(r) - 1
      <4>1. k + 1 \in 1 .. Size(r) /\ k + 1 # 1
        BY <1>2, <3>2
      <4>2. Cell(r, k + 1) \in Held(r) /\ Cell(r, k + 1) # r.head
        BY <1>7, <4>1
      <4>3. q.buf[Cell(r, k + 1)] = r.buf[Cell(r, k + 1)]
        BY <1>3, <4>2
      <4> QED BY <1>2, <2>2, <2>4, <2>5, <3>2, <4>1, <4>3
    <3> QED BY <1>2, <2>1, <3>1, <3>2
  <2>7. Contents(q) = s
    BY <1>2, <2>1, <2>5, <2>6, SeqEqual
  <2> QED BY <1>2, <2>1, <2>7 DEF s, t, q
<1> QED BY <1>9, <1>10

(* A pop takes the youngest flag.                                          *)
LEMMA DropContents ==
  ASSUME NEW r, RingInv(r), ~ IsEmpty(r)
  PROVE  /\ Contents(r) # <<>>
         /\ Contents(Drop(r)) = SubSeq(Contents(r), 1, Len(Contents(r)) - 1)
<1> DEFINE q == Drop(r)
<1>1. r \in Ring /\ q \in Ring /\ RingInv(q)
  BY DropCount DEF RingInv
<1>2. /\ Contents(r) \in Seq(Flag) /\ Len(Contents(r)) = Size(r)
      /\ Size(r) \in 0 .. RingSize - 1
      /\ \A k \in 1 .. Size(r) : Contents(r)[k] = r.buf[Cell(r, k)]
      /\ Contents(q) \in Seq(Flag) /\ Len(Contents(q)) = Size(q)
      /\ Size(q) \in 0 .. RingSize - 1
      /\ \A k \in 1 .. Size(q) : Contents(q)[k] = q.buf[Cell(q, k)]
  BY <1>1, ContentsFacts
<1>3. \A i \in Held(q) : q.buf[i] = r.buf[i]
  BY <1>1, DropCells
<1>4. /\ r.next \in 0 .. RingSize - 1 /\ r.head \in 0 .. RingSize - 1
      /\ r.next # r.head
      /\ Dec(r.next) = IF r.next = 0 THEN RingSize - 1 ELSE r.next - 1
  BY IncDec DEF RingInv, Ring, Index, IsEmpty
<1>5. q.next = Dec(r.next) /\ q.head = r.head
  BY DEF Drop, RingInv, Ring
<1>6. /\ Size(r) = IF r.head <= r.next THEN r.next - r.head
                                       ELSE r.next - r.head + RingSize
      /\ Size(q) = IF q.head <= q.next THEN q.next - q.head
                                       ELSE q.next - q.head + RingSize
  BY <1>1, HeldCells
<1> HIDE DEF q
<1>7. Size(q) = Size(r) - 1 /\ Size(r) > 0
  BY <1>4, <1>5, <1>6, RingSizeAssumption
<1>8. \A k \in 1 .. Size(q) : Cell(q, k) = Cell(r, k) /\ Cell(q, k) \in Held(q)
  <2>1. \A k \in 1 .. Size(q) : Cell(q, k) \in Held(q)
    BY <1>1, <1>2, CellFacts, RingSizeAssumption
  <2> QED BY <1>5, <2>1 DEF Cell
<1> DEFINE s == SubSeq(Contents(r), 1, Size(r) - 1)
<1>9. \A k \in 1 .. Size(r) - 1 : Contents(r)[k] \in Flag
  BY <1>2, <1>7, ElementOfSeq
<1>10. s \in Seq(Flag) /\ Len(s) = (IF 1 <= Size(r) - 1 THEN Size(r) - 1 - 1 + 1 ELSE 0)
       /\ \A k \in 1 .. Size(r) - 1 - 1 + 1 : s[k] = Contents(r)[1 + k - 1]
  BY <1>2, <1>9, SubSeqProperties
<1> HIDE DEF s
<1>11. s \in Seq(Flag) /\ Len(s) = Size(r) - 1
       /\ \A k \in 1 .. Size(r) - 1 : s[k] = Contents(r)[k]
  BY <1>2, <1>7, <1>10
<1>12. \A k \in 1 .. Size(q) : Contents(q)[k] = s[k]
  BY <1>2, <1>3, <1>7, <1>8, <1>11
<1>13. Contents(q) = s
  BY <1>2, <1>7, <1>11, <1>12, SeqEqual
<1>14. Contents(r) # <<>>
  BY <1>2, <1>7, EmptySeq
<1> QED BY <1>2, <1>13, <1>14 DEF s, q

(* An empty ring is the empty sequence, before and after it is reset.      *)
LEMMA EmptyContents ==
  ASSUME NEW r \in Ring, IsEmpty(r)
  PROVE  Contents(r) = <<>> /\ Contents(Reset(r)) = <<>>
<1>1. \A q \in Ring : IsEmpty(q) => Contents(q) = <<>>
  <2> SUFFICES ASSUME NEW q \in Ring, IsEmpty(q)
               PROVE  Contents(q) = <<>>
    OBVIOUS
  <2>1. Size(q) = 0
    BY HeldCells DEF Ring, Index, IsEmpty
  <2>2. RingInv(q)
    BY EmptyCells DEF RingInv
  <2> QED BY <2>1, <2>2, ContentsFacts, EmptySeq
<1> QED BY <1>1, EmptyCells

(***************************************************************************)
(* Type correctness.                                                       *)
(***************************************************************************)

(* The state of a VM's threads stays well formed: in particular int_next   *)
(* and int_head stay inside int_buf and only flags are stored.             *)
THEOREM TypeCorrect == Spec => []TypeOK
<1> USE DEF PC
<1>1. Init => TypeOK
  BY EmptyRingFacts, ThreadAssumption DEF Init, TypeOK, Thread
<1>2. TypeOK /\ [Next]_vars => TypeOK'
  <2> SUFFICES ASSUME TypeOK, [Next]_vars
               PROVE  TypeOK'
    OBVIOUS
  <2>0. GC \in Flag /\ Yield \in Flag /\ Main \in Thread /\ Worker \subseteq Thread
    BY DEF Flag, Thread
  <2> USE <2>0 DEF TypeOK, intVars, joinVars, vars
  <2>1. ASSUME NEW t \in Thread, ThreadNext(t)
        PROVE  TypeOK'
    <3>1. CASE OpenGC(t)
      <4>1. Push(ring, GC) \in Ring
        BY RingSteps
      <4> QED BY <3>1, <4>1 DEF OpenGC, StoreInt, IntLockBy, Goto
    <3>2. CASE NextInstr(t)
      BY <3>2 DEF NextInstr, Goto
    <3>3. CASE OpenGCFlag(t)
      BY <3>3 DEF OpenGCFlag, RaiseHasInt, IntUnlock, Goto
    <3>4. CASE PopNothing(t)
      BY <3>4 DEF PopNothing, IntLockBy, Goto
    <3>5. CASE PopInt(t)
      <4>1. Top(ring) \in Flag \cup {NoInt} /\ Drop(ring) \in Ring
        BY RingSteps
      <4> QED BY <3>5, <4>1 DEF PopInt, IntLockBy, Goto
    <3>6. CASE PopReset(t)
      <4>1. Reset(ring) \in Ring
        BY RingSteps
      <4> QED BY <3>6, <4>1 DEF PopReset, Goto
    <3>7. CASE PopKeep(t)
      BY <3>7 DEF PopKeep, IntUnlock, Goto
    <3>8. CASE PopClear(t)
      BY <3>8 DEF PopClear, IntUnlock, Goto
    <3>9. CASE DoGC(t)
      <4>1. pc' = [pc EXCEPT ![t] = "exec"] /\ reg' = [reg EXCEPT ![t] = NoInt]
        BY <3>9 DEF DoGC, Goto
      <4>2. pc' \in [Thread -> PC] /\ reg' \in [Thread -> Flag \cup {NoInt}]
        BY <4>1
      <4> QED BY <3>9, <4>2 DEF DoGC
    <3>10. CASE IgnoreInt(t)
      BY <3>10 DEF IgnoreInt, Goto
    <3>11. CASE YieldGIL(t)
      BY <3>11 DEF YieldGIL, Goto
    <3>12. CASE SetCSL(t)
      BY <3>12 DEF SetCSL, Goto
    <3>13. CASE AioYield(t)
      BY <3>13 DEF AioYield, Goto
    <3>14. CASE Wake(t)
      BY <3>14 DEF Wake, LockGIL, Goto
    <3>15. CASE Join(t)
      BY <3>15 DEF Join, Goto
    <3>16. CASE PollDone(t)
      BY <3>16 DEF PollDone, Goto
    <3>17. CASE JoinReturn(t)
      BY <3>17 DEF JoinReturn, LockGIL, Goto
    <3>18. ASSUME NEW w \in Worker, Spawn(t, w)
           PROVE  TypeOK'
      BY <3>18 DEF Spawn
    <3> HIDE DEF TypeOK
    <3> QED BY <2>1, <3>1, <3>2, <3>3, <3>4, <3>5, <3>6, <3>7, <3>8, <3>9, <3>10,
               <3>11, <3>12, <3>13, <3>14, <3>15, <3>16, <3>17, <3>18
            DEF ThreadNext, Interrupt
  <2>2. ASSUME NEW w \in Worker, WorkerNext(w)
        PROVE  TypeOK'
    <3>1. CASE Start(w)
      BY <3>1 DEF Start, LockGIL, Goto
    <3>2. CASE Leave(w)
      BY <3>2 DEF Leave, Goto
    <3>3. CASE Exit(w)
      BY <3>3 DEF Exit, Goto
    <3> QED BY <2>2, <3>1, <3>2, <3>3 DEF WorkerNext
  <2>3. CASE MainNext
    <3>1. CASE CreateClock
      BY <3>1 DEF CreateClock, Goto
    <3>2. CASE Enable
      BY <3>2 DEF Enable, Goto
    <3>3. CASE FinalJoin
      BY <3>3 DEF FinalJoin, Goto
    <3>4. CASE NoFinalJoin
      BY <3>4 DEF NoFinalJoin, Goto
    <3>5. CASE CancelClock
      BY <3>5 DEF CancelClock, LockGIL, Goto
    <3>6. CASE ClockJoined
      BY <3>6 DEF ClockJoined, Goto
    <3> QED BY <2>3, <3>1, <3>2, <3>3, <3>4, <3>5, <3>6 DEF MainNext
  <2>4. CASE ClockNext
    <3>1. CASE ClockTick
      <4>1. Push(ring, Yield) \in Ring
        BY RingSteps
      <4> QED BY <3>1, <4>1 DEF ClockTick, StoreInt, IntLockBy
    <3>2. CASE ClockFlag
      BY <3>2 DEF ClockFlag, RaiseHasInt, IntUnlock
    <3>3. CASE ClockSeesCSL \/ ClockUnsetCSL \/ ClockCancelled
      BY <3>3 DEF ClockSeesCSL, ClockUnsetCSL, ClockCancelled
    <3> QED BY <2>4, <3>1, <3>2, <3>3 DEF ClockNext
  <2>5. CASE Quiet \/ UNCHANGED vars
    BY <2>5 DEF Quiet
  <2> QED BY <2>1, <2>2, <2>3, <2>4, <2>5 DEF Next
<1> QED BY <1>1, <1>2, PTL DEF Spec

(***************************************************************************)
(* The global lock.                                                        *)
(***************************************************************************)

(* GILExclusive is inductive together with the fact that no coroutine has  *)
(* been spawned before threads are enabled: until then the main thread     *)
(* runs without the lock.                                                  *)
NoWorkerYet == ~ enabled => \A w \in Worker : pc[w] \in {"idle", "dead"}

GILInv == TypeOK /\ GILExclusive /\ NoWorkerYet

LEMMA GILStep == GILInv /\ TypeOK' /\ [Next]_vars => GILInv'
<1> SUFFICES ASSUME GILInv, TypeOK', [Next]_vars
             PROVE  GILExclusive' /\ NoWorkerYet'
  BY DEF GILInv
<1>0. /\ Main \in Thread /\ Worker \subseteq Thread /\ Main \notin Worker
      /\ NoOne \notin Thread
      /\ \A t \in Thread : t # Main => t \in Worker
  BY ThreadAssumption DEF Thread
<1> USE DEF GILInv, GILExclusive, NoWorkerYet, Running, TypeOK, Goto, LockGIL,
            intVars, joinVars, vars
<1>1. ASSUME NEW t \in Thread, ThreadNext(t)
      PROVE  GILExclusive' /\ NoWorkerYet'
  <2>1. CASE OpenGC(t) \/ NextInstr(t) \/ OpenGCFlag(t)
    BY <2>1, <1>0 DEF OpenGC, NextInstr, OpenGCFlag
  <2>2. CASE PopNothing(t) \/ PopInt(t)
    BY <2>2, <1>0 DEF PopNothing, PopInt
  <2>3. CASE PopReset(t) \/ PopKeep(t) \/ PopClear(t)
    BY <2>3, <1>0 DEF PopReset, PopKeep, PopClear
  <2>4. CASE DoGC(t) \/ IgnoreInt(t)
    BY <2>4, <1>0 DEF DoGC, IgnoreInt
  <2>5. CASE YieldGIL(t)
    BY <2>5, <1>0 DEF YieldGIL
  <2>6. CASE AioYield(t)
    BY <2>6, <1>0 DEF AioYield
  <2>7. CASE SetCSL(t)
    BY <2>7, <1>0 DEF SetCSL
  <2>8. CASE Wake(t)
    BY <2>8, <1>0 DEF Wake
  <2>9. CASE Join(t)
    BY <2>9, <1>0 DEF Join
  <2>10. CASE PollDone(t)
    BY <2>10, <1>0 DEF PollDone
  <2>11. CASE JoinReturn(t)
    BY <2>11, <1>0 DEF JoinReturn
  <2>12. ASSUME NEW w \in Worker, Spawn(t, w)
         PROVE  GILExclusive' /\ NoWorkerYet'
    BY <2>12, <1>0 DEF Spawn
  <2> QED BY <1>1, <2>1, <2>2, <2>3, <2>4, <2>5, <2>6, <2>7, <2>8, <2>9,
             <2>10, <2>11, <2>12 DEF ThreadNext, Interrupt
<1>2. ASSUME NEW w \in Worker, WorkerNext(w)
      PROVE  GILExclusive' /\ NoWorkerYet'
  <2>1. CASE Start(w)
    BY <2>1, <1>0 DEF Start
  <2>2. CASE Leave(w)
    BY <2>2, <1>0 DEF Leave
  <2>3. CASE Exit(w)
    BY <2>3, <1>0 DEF Exit
  <2> QED BY <1>2, <2>1, <2>2, <2>3 DEF WorkerNext
<1>3. CASE MainNext
  <2>1. CASE CreateClock
    BY <2>1, <1>0 DEF CreateClock
  <2>2. CASE Enable
    BY <2>2, <1>0 DEF Enable
  <2>3. CASE FinalJoin
    BY <2>3, <1>0 DEF FinalJoin
  <2>4. CASE NoFinalJoin
    BY <2>4, <1>0 DEF NoFinalJoin
  <2>5. CASE CancelClock
    BY <2>5, <1>0 DEF CancelClock
  <2>6. CASE ClockJoined
    BY <2>6, <1>0 DEF ClockJoined
  <2> QED BY <1>3, <2>1, <2>2, <2>3, <2>4, <2>5, <2>6 DEF MainNext
<1>4. CASE ClockNext
  BY <1>4 DEF ClockNext, ClockTick, ClockFlag, ClockSeesCSL, ClockUnsetCSL,
              ClockCancelled
<1>5. CASE Quiet \/ UNCHANGED vars
  BY <1>5 DEF Quiet
<1> QED BY <1>1, <1>2, <1>3, <1>4, <1>5 DEF Next

LEMMA GILInvariant == Spec => []GILInv
<1>1. Init => GILExclusive /\ NoWorkerYet
  BY ThreadAssumption DEF Init, GILExclusive, NoWorkerYet, Thread
<1>2. Spec => []TypeOK
  BY TypeCorrect
<1> QED BY <1>1, <1>2, GILStep, PTL DEF Spec, GILInv

(* No two threads of a VM state ever run bytecode, native functions or the *)
(* collector at the same time, however many there are and in whatever      *)
(* order they yield, join, spawn and end; the race in enableThread does    *)
(* not matter here, so EarlyClock is arbitrary.                            *)
THEOREM GILMutualExclusion == Spec => []GILExclusive
BY GILInvariant, PTL DEF GILInv

(***************************************************************************)
(* The interrupt buffer and has_int.                                       *)
(***************************************************************************)
RingCode == {"pushed", "popped", "clear"}

(* Whoever is inside setInt or popInt holds int_lock, once there is a      *)
(* clock thread that runs: two are never inside at once.                   *)
LockHeld ==
  /\ clock = "pushed" => enabled /\ intLock = Clock
  /\ enabled => \A t \in Thread : pc[t] \in RingCode => intLock = t

(* What has been established at each point inside.                         *)
HalfDone ==
  /\ clock = "pushed" => ~ IsEmpty(ring)
  /\ \A t \in Thread :
       /\ pc[t] = "pushed" => ~ IsEmpty(ring)
       /\ pc[t] \in {"intr", "popped"} => hasInt
       /\ pc[t] = "clear" => IsEmpty(ring)

IntInv == LockHeld /\ HalfDone /\ HasIntExact

(* Two actors are never inside the ring code together.                     *)
LEMMA RingCodeExclusive ==
  ASSUME GILInv, LockHeld
  PROVE  /\ \A t \in Thread : pc[t] \in RingCode => clock # "pushed"
         /\ \A t, u \in Thread :
              pc[t] \in RingCode \cup {"intr"} /\ pc[u] \in RingCode \cup {"intr"} => t = u
<1>0. /\ \A t \in Thread : t # Main => t \in Worker
      /\ Clock \notin Thread
  BY ThreadAssumption DEF Thread
<1>1. CASE enabled
  BY <1>0, <1>1 DEF GILInv, GILExclusive, Running, LockHeld, RingCode
<1>2. CASE ~ enabled
  <2>1. \A t \in Thread : pc[t] \in RingCode \cup {"intr"} => t = Main
    BY <1>0, <1>2 DEF GILInv, NoWorkerYet, RingCode
  <2>2. clock # "pushed"
    BY <1>2 DEF LockHeld
  <2> QED BY <2>1, <2>2
<1> QED BY <1>1, <1>2 DEF GILInv, TypeOK

LEMMA IntStep ==
  ASSUME EarlyClock = FALSE
  PROVE  GILInv /\ GILInv' /\ IntInv /\ [Next]_vars => IntInv'
<1> SUFFICES ASSUME GILInv, GILInv', IntInv, [Next]_vars
             PROVE  IntInv'
  OBVIOUS
<1>0. /\ Main \in Thread /\ Worker \subseteq Thread
      /\ \A t \in Thread : t # Main => t \in Worker
      /\ NoOne \notin Thread /\ Clock \notin Thread /\ NoOne # Clock
      /\ GC \in Flag /\ Yield \in Flag
  BY ThreadAssumption DEF Thread, Flag, NoOne, Clock
<1>1. TypeOK /\ TypeOK' /\ ring \in Ring /\ NoWorkerYet
  BY DEF GILInv, TypeOK
<1>2. /\ \A t \in Thread : pc[t] \in RingCode => clock # "pushed"
      /\ \A t, u \in Thread :
           pc[t] \in RingCode \cup {"intr"} /\ pc[u] \in RingCode \cup {"intr"} => t = u
  BY RingCodeExclusive DEF IntInv
<1> USE DEF IntInv, LockHeld, HalfDone, HasIntExact, InRingCode, RingCode, Goto,
            intVars, joinVars, vars
<1>3. ASSUME NEW t \in Thread, ThreadNext(t)
      PROVE  IntInv'
  <2>1. CASE OpenGC(t)
    <3>1. ~ IsEmpty(ring')
      BY <2>1, <1>0, <1>1, RingSteps DEF OpenGC, StoreInt
    <3>2. /\ pc[t] = "exec" /\ pc' = [pc EXCEPT ![t] = "pushed"]
          /\ UNCHANGED <<hasInt, enabled, clock>>
          /\ IF enabled THEN intLock = NoOne /\ intLock' = t ELSE intLock' = intLock
      BY <2>1 DEF OpenGC, StoreInt, IntLockBy
    <3>3. pc'[t] = "pushed" /\ \A u \in Thread \ {t} : pc'[u] = pc[u]
      BY <3>2, <1>1 DEF TypeOK
    <3>4. \A u \in Thread \ {t} : pc[u] \notin RingCode
      <4>1. CASE enabled
        BY <4>1, <3>2, <1>0
      <4>2. CASE ~ enabled
        BY <4>2, <3>2, <1>0, <1>1 DEF NoWorkerYet
      <4> QED BY <4>1, <4>2
    <3>5. clock # "pushed"
      BY <3>2, <1>0
    <3> QED BY <3>1, <3>2, <3>3, <3>4, <3>5
  <2>2. CASE OpenGCFlag(t)
    BY <2>2, <1>0, <1>1, <1>2 DEF OpenGCFlag, RaiseHasInt, IntUnlock, TypeOK
  <2>3. CASE NextInstr(t)
    BY <2>3, <1>0, <1>1, <1>2 DEF NextInstr, TypeOK
  <2>4. CASE PopNothing(t)
    BY <2>4, <1>0, <1>1, <1>2 DEF PopNothing, IntLockBy, TypeOK
  <2>5. CASE PopInt(t)
    BY <2>5, <1>0, <1>1, <1>2 DEF PopInt, IntLockBy, TypeOK
  <2>6. CASE PopReset(t)
    <3>1. IsEmpty(ring')
      BY <2>6, <1>0, <1>1, RingSteps DEF PopReset
    <3> QED BY <2>6, <3>1, <1>0, <1>1, <1>2 DEF PopReset, TypeOK
  <2>7. CASE PopKeep(t)
    BY <2>7, <1>0, <1>1, <1>2 DEF PopKeep, IntUnlock, TypeOK
  <2>8. CASE PopClear(t)
    BY <2>8, <1>0, <1>1, <1>2 DEF PopClear, IntUnlock, TypeOK
  <2>9. CASE DoGC(t) \/ IgnoreInt(t)
    BY <2>9, <1>0, <1>1, <1>2 DEF DoGC, IgnoreInt, TypeOK
  <2>10. CASE YieldGIL(t) \/ AioYield(t)
    BY <2>10, <1>0, <1>1, <1>2 DEF YieldGIL, AioYield, TypeOK
  <2>11. CASE SetCSL(t) \/ Wake(t)
    BY <2>11, <1>0, <1>1, <1>2 DEF SetCSL, Wake, LockGIL, TypeOK
  <2>12. CASE Join(t) \/ PollDone(t) \/ JoinReturn(t)
    BY <2>12, <1>0, <1>1, <1>2 DEF Join, PollDone, JoinReturn, LockGIL, TypeOK
  <2>13. ASSUME NEW w \in Worker, Spawn(t, w)
         PROVE  IntInv'
    BY <2>13, <1>0, <1>1, <1>2 DEF Spawn, TypeOK
  <2> QED BY <1>3, <2>1, <2>2, <2>3, <2>4, <2>5, <2>6, <2>7, <2>8, <2>9,
             <2>10, <2>11, <2>12, <2>13 DEF ThreadNext, Interrupt
<1>4. ASSUME NEW w \in Worker, WorkerNext(w)
      PROVE  IntInv'
  BY <1>4, <1>0, <1>1, <1>2 DEF WorkerNext, Start, Leave, Exit, LockGIL, TypeOK
<1>5. CASE MainNext
  <2>1. CASE CreateClock
    BY <2>1, <1>0, <1>1, <1>2 DEF CreateClock, TypeOK
  <2>2. CASE Enable
    BY <2>2, <1>0, <1>1, <1>2 DEF Enable, NoWorkerYet, TypeOK
  <2>3. CASE FinalJoin \/ NoFinalJoin
    BY <2>3, <1>0, <1>1, <1>2 DEF FinalJoin, NoFinalJoin, TypeOK
  <2>4. CASE CancelClock \/ ClockJoined
    BY <2>4, <1>0, <1>1, <1>2 DEF CancelClock, ClockJoined, LockGIL, TypeOK
  <2> QED BY <1>5, <2>1, <2>2, <2>3, <2>4 DEF MainNext
<1>6. CASE ClockNext
  <2>1. CASE ClockTick
    <3>1. ~ IsEmpty(ring')
      BY <2>1, <1>0, <1>1, RingSteps DEF ClockTick, StoreInt
    <3> QED BY <2>1, <3>1, <1>0, <1>1, <1>2 DEF ClockTick, StoreInt, IntLockBy, TypeOK
  <2>2. CASE ClockFlag
    BY <2>2, <1>0, <1>1, <1>2 DEF ClockFlag, RaiseHasInt, IntUnlock, TypeOK
  <2>3. CASE ClockSeesCSL \/ ClockUnsetCSL \/ ClockCancelled
    BY <2>3, <1>0, <1>1, <1>2 DEF ClockSeesCSL, ClockUnsetCSL, ClockCancelled, TypeOK
  <2> QED BY <1>6, <2>1, <2>2, <2>3 DEF ClockNext
<1>7. CASE Quiet \/ UNCHANGED vars
  BY <1>7 DEF Quiet, IsEmpty
<1> QED BY <1>3, <1>4, <1>5, <1>6, <1>7 DEF Next

LEMMA IntInvariant ==
  ASSUME EarlyClock = FALSE
  PROVE  Spec => [](GILInv /\ IntInv)
<1>1. Init => IntInv
  BY EmptyRingFacts, ThreadAssumption
     DEF Init, IntInv, LockHeld, HalfDone, HasIntExact, InRingCode, RingCode, Thread
<1>2. Spec => []GILInv
  BY GILInvariant
<1>3. GILInv /\ GILInv' /\ IntInv /\ [Next]_vars => IntInv'
  BY IntStep
<1> QED BY <1>1, <1>2, <1>3, PTL DEF Spec

(* When the clock thread cannot be inside setInt before thread_enabled is  *)
(* set, has_int agrees with the interrupt buffer whenever nobody is        *)
(* changing them, although the interpreter reads it without a lock.        *)
THEOREM HasIntAgrees ==
  ASSUME EarlyClock = FALSE
  PROVE  Spec => []HasIntExact
BY IntInvariant, PTL DEF IntInv

(* Under the same assumption popInt never meets an empty buffer, so it     *)
(* never returns with int_lock locked.                                     *)
THEOREM PopIntAssumption ==
  ASSUME EarlyClock = FALSE
  PROVE  Spec => []PopFindsFlag
<1>1. GILInv /\ IntInv => PopFindsFlag
  <2> SUFFICES ASSUME GILInv, IntInv,
                      NEW t \in Thread, pc[t] = "intr", intLock = NoOne
               PROVE  ~ IsEmpty(ring)
    BY DEF PopFindsFlag
  <2>1. NoOne \notin Thread /\ NoOne # Clock
    BY ThreadAssumption DEF NoOne, Clock
  <2>2. \A u \in Thread : pc[u] \notin RingCode
    BY <2>1, RingCodeExclusive DEF IntInv, LockHeld, GILInv, TypeOK, RingCode
  <2>3. clock # "pushed"
    BY <2>1 DEF IntInv, LockHeld
  <2> QED BY <2>2, <2>3 DEF IntInv, HalfDone, HasIntExact, InRingCode, RingCode
<1> QED BY <1>1, IntInvariant, PTL

(***************************************************************************)
(* The buffer as a stack.                                                  *)
(***************************************************************************)

(* Every step leaves the buffer alone, or is one setInt, one popInt or the *)
(* reset of an empty buffer.                                               *)
LEMMA RingChanges ==
  ASSUME [Next]_vars
  PROVE  \/ UNCHANGED ring
         \/ \E flag \in Flag : ring' = Push(ring, flag)
         \/ ~ IsEmpty(ring) /\ ring' = Drop(ring)
         \/ IsEmpty(ring) /\ ring' = Reset(ring)
<1> USE DEF intVars, vars
<1>0. GC \in Flag /\ Yield \in Flag
  BY DEF Flag
<1>1. CASE \E t \in Thread : ThreadNext(t)
  BY <1>0, <1>1 DEF ThreadNext, Interrupt, OpenGC, StoreInt, NextInstr, OpenGCFlag,
        PopNothing, PopInt, PopReset, PopKeep, PopClear, DoGC, IgnoreInt, YieldGIL,
        SetCSL, AioYield, Wake, Join, PollDone, JoinReturn, Spawn
<1>2. CASE \E w \in Worker : WorkerNext(w)
  BY <1>2 DEF WorkerNext, Start, Leave, Exit
<1>3. CASE MainNext
  BY <1>3 DEF MainNext, CreateClock, Enable, FinalJoin, NoFinalJoin, CancelClock,
              ClockJoined
<1>4. CASE ClockNext
  BY <1>0, <1>4 DEF ClockNext, ClockTick, StoreInt, ClockFlag, ClockSeesCSL,
                    ClockUnsetCSL, ClockCancelled
<1>5. CASE Quiet \/ UNCHANGED vars
  BY <1>5 DEF Quiet
<1> QED BY <1>1, <1>2, <1>3, <1>4, <1>5 DEF Next

LEMMA RingInvariant == Spec => []RingInv(ring)
<1>1. Init => RingInv(ring)
  BY EmptyRingFacts DEF Init
<1>2. RingInv(ring) /\ [Next]_vars => RingInv(ring)'
  <2> SUFFICES ASSUME RingInv(ring), [Next]_vars
               PROVE  RingInv(ring')
    BY DEF RingInv, Held, Size
  <2>1. ring \in Ring
    BY DEF RingInv
  <2>2. CASE UNCHANGED ring
    BY <2>2
  <2>3. ASSUME NEW flag \in Flag, ring' = Push(ring, flag)
        PROVE  RingInv(ring')
    BY <2>3, PushCount
  <2>4. CASE ~ IsEmpty(ring) /\ ring' = Drop(ring)
    BY <2>4, DropCount
  <2>5. CASE IsEmpty(ring) /\ ring' = Reset(ring)
    BY <2>1, <2>5, EmptyCount
  <2> QED BY <2>2, <2>3, <2>4, <2>5, RingChanges
<1> QED BY <1>1, <1>2, PTL DEF Spec

(* The interrupt buffer, filled by every thread and the clock and emptied  *)
(* by whoever runs, behaves as the stack of IntStack: youngest flag first, *)
(* the oldest forgotten when full, whatever the size of the buffer.        *)
THEOREM BufferImplementsStack == Spec => RingIsStack
<1> USE DEF Stack!Init, Stack!Next, Stack!Push, Stack!Pop
<1>1. Init => Stack!Init
  BY EmptyRingFacts, EmptyContents DEF Init
<1>2. RingInv(ring) /\ [Next]_vars => [Stack!Next]_(Contents(ring))
  <2> SUFFICES ASSUME RingInv(ring), [Next]_vars
               PROVE  Stack!Next \/ Contents(ring') = Contents(ring)
    BY DEF Contents, Size
  <2>1. ring \in Ring
    BY DEF RingInv
  <2>2. CASE UNCHANGED ring
    BY <2>2
  <2>3. ASSUME NEW flag \in Flag, ring' = Push(ring, flag)
        PROVE  Stack!Next
    BY <2>3, PushContents
  <2>4. CASE ~ IsEmpty(ring) /\ ring' = Drop(ring)
    BY <2>4, DropContents
  <2>5. CASE IsEmpty(ring) /\ ring' = Reset(ring)
    BY <2>1, <2>5, EmptyContents
  <2> QED BY <2>2, <2>3, <2>4, <2>5, RingChanges
<1> QED BY <1>1, <1>2, RingInvariant, PTL DEF Spec, RingIsStack, Stack!Spec

(***************************************************************************)
(* The clock is released.                                                  *)
(***************************************************************************)
Pops == {"popped", "clear", "handle", "csl"}

(* How the flags in the hands of the threads change with one thread.       *)
LEMMA FlightOfOthers ==
  ASSUME TypeOK, TypeOK', NEW t \in Thread, NEW flag,
         \A u \in Thread \ {t} : pc'[u] = pc[u] /\ reg'[u] = reg[u],
         pc[t] \in Pops /\ reg[t] = flag => pc'[t] \in Pops /\ reg'[t] = flag
  PROVE  InFlight(flag) => InFlight(flag)'
BY DEF InFlight, Pops

(* No step but an openGCFlag loses the THREAD_YIELD the clock waits for,   *)
(* and that one only from a full buffer whose only THREAD_YIELD it is.     *)
LEMMA ClockReleasedStep ==
  ASSUME TypeOK, TypeOK', RingInv(ring), ~ ClockStuck, [Next]_vars, ClockStuck'
  PROVE  (\E t \in Thread : OpenGC(t)) /\ Count(ring, GC) = RingSize - 2
<1> DEFINE Lost == (\E t \in Thread : OpenGC(t)) /\ Count(ring, GC) = RingSize - 2
<1>a. /\ clock' \in {"pushed", "spin"} /\ ~ csl'
      /\ clock \in {"pushed", "spin"} /\ ~ csl
           => Count(ring, Yield) > 0 \/ InFlight(Yield)
  BY DEF ClockStuck, YieldComes
<1>b. ~ (Count(ring', Yield) > 0 \/ InFlight(Yield)')
  BY DEF ClockStuck, YieldComes, Count, Held, Size
<1> SUFFICES Count(ring', Yield) > 0 \/ InFlight(Yield)' \/ Lost
  BY <1>b
<1> HIDE DEF Lost
<1>0. /\ GC \in Flag \ {Yield} /\ Yield \in Flag \ {GC} /\ NoInt # Yield /\ GC # Yield
      /\ Main \in Thread /\ Worker \subseteq Thread
      /\ pc \in [Thread -> PC] /\ reg \in [Thread -> Flag \cup {NoInt}]
      /\ ring \in Ring /\ RingSize \in Nat
  BY ThreadAssumption, RingSizeAssumption DEF Flag, GC, Yield, NoInt, Thread, TypeOK
<1>1. Count(ring, Yield) \in Nat /\ Count(ring, GC) \in Nat
  BY <1>0, CountFacts
<1> USE <1>a DEF Goto, intVars, joinVars, vars
<1>2. ASSUME NEW t \in Thread, ThreadNext(t)
      PROVE  Count(ring', Yield) > 0 \/ InFlight(Yield)' \/ Lost
  <2>1. CASE OpenGC(t)
    <3>1. /\ ring' = Push(ring, GC)
          /\ UNCHANGED <<clock, csl, reg>> /\ pc[t] = "exec"
          /\ pc' = [pc EXCEPT ![t] = "pushed"]
      BY <2>1 DEF OpenGC, StoreInt
    <3>2. CASE Count(ring, Yield) > 0
      <4>1. CASE IsFull(ring)
        <5>1. Count(ring, GC) + Count(ring, Yield) = RingSize - 1
          BY <4>1, FullCount
        <5>2. Count(ring', Yield) \in Nat /\ Count(ring', Yield) >= Count(ring, Yield) - 1
          BY <1>0, <3>1, PushCount, CountFacts DEF RingInv
        <5>3. CASE Count(ring', Yield) > 0
          BY <5>3
        <5>4. CASE Count(ring', Yield) = 0
          <6>1. Count(ring, Yield) = 1
            BY <1>1, <3>2, <5>2, <5>4
          <6>2. Count(ring, GC) = RingSize - 2
            BY <1>0, <1>1, <5>1, <6>1
          <6> QED BY <2>1, <6>2 DEF Lost
        <5> QED BY <5>2, <5>3, <5>4
      <4>2. CASE ~ IsFull(ring)
        BY <1>0, <3>1, <3>2, <4>2, PushCount
      <4> QED BY <4>1, <4>2
    <3>3. CASE InFlight(Yield)
      BY <1>0, <3>1, <3>3, FlightOfOthers DEF Pops
    <3> QED BY <3>1, <3>2, <3>3
  <2>2. CASE PopInt(t)
    <3>1. /\ ring' = Drop(ring) /\ ~ IsEmpty(ring) /\ pc[t] = "intr"
          /\ pc' = [pc EXCEPT ![t] = "popped"] /\ reg' = [reg EXCEPT ![t] = Top(ring)]
          /\ UNCHANGED <<clock, csl>>
      BY <2>2 DEF PopInt
    <3>2. CASE Top(ring) = Yield
      BY <1>0, <3>1, <3>2 DEF InFlight
    <3>3. CASE Top(ring) # Yield
      <4>1. Count(ring', Yield) = Count(ring, Yield)
        BY <1>0, <3>1, <3>3, DropCount
      <4>2. InFlight(Yield) => InFlight(Yield)'
        BY <1>0, <3>1, FlightOfOthers DEF Pops
      <4> QED BY <3>1, <4>1, <4>2
    <3> QED BY <3>2, <3>3
  <2>3. CASE PopReset(t)
    <3>1. /\ IsEmpty(ring) /\ pc[t] = "popped" /\ pc' = [pc EXCEPT ![t] = "clear"]
          /\ UNCHANGED <<clock, csl, reg>>
      BY <2>3 DEF PopReset
    <3>2. Count(ring, Yield) = 0
      BY <1>0, <3>1, EmptyCount
    <3>3. InFlight(Yield) => InFlight(Yield)'
      BY <1>0, <3>1, FlightOfOthers DEF Pops
    <3> QED BY <3>1, <3>2, <3>3
  <2>4. CASE NextInstr(t) \/ OpenGCFlag(t) \/ PopNothing(t) \/ PopKeep(t) \/ PopClear(t)
    <3>1. UNCHANGED <<ring, clock, csl>>
      BY <2>4 DEF NextInstr, OpenGCFlag, PopNothing, PopKeep, PopClear
    <3>2. InFlight(Yield) => InFlight(Yield)'
      BY <1>0, <2>4, FlightOfOthers
         DEF NextInstr, OpenGCFlag, PopNothing, PopKeep, PopClear, Pops
    <3> QED BY <3>1, <3>2
  <2>5. CASE DoGC(t) \/ IgnoreInt(t) \/ YieldGIL(t) \/ AioYield(t)
    <3>1. UNCHANGED <<ring, clock, csl>>
      BY <2>5 DEF DoGC, IgnoreInt, YieldGIL, AioYield
    <3>2. InFlight(Yield) => InFlight(Yield)'
      BY <1>0, <2>5, FlightOfOthers DEF DoGC, IgnoreInt, YieldGIL, AioYield, Pops
    <3> QED BY <3>1, <3>2
  <2>6. CASE SetCSL(t)
    BY <2>6 DEF SetCSL
  <2>7. CASE Wake(t) \/ Join(t) \/ PollDone(t) \/ JoinReturn(t)
    <3>1. UNCHANGED <<ring, clock, csl>>
      BY <2>7 DEF Wake, Join, PollDone, JoinReturn
    <3>2. InFlight(Yield) => InFlight(Yield)'
      BY <1>0, <2>7, FlightOfOthers DEF Wake, LockGIL, Join, PollDone, JoinReturn, Pops
    <3> QED BY <3>1, <3>2
  <2>8. ASSUME NEW w \in Worker, Spawn(t, w)
        PROVE  Count(ring', Yield) > 0 \/ InFlight(Yield)'
    <3>1. UNCHANGED <<ring, clock, csl>>
      BY <2>8 DEF Spawn
    <3>2. InFlight(Yield) => InFlight(Yield)'
      BY <1>0, <2>8, FlightOfOthers DEF Spawn, Pops
    <3> QED BY <3>1, <3>2
  <2> QED BY <1>2, <2>1, <2>2, <2>3, <2>4, <2>5, <2>6, <2>7, <2>8
          DEF ThreadNext, Interrupt
<1>3. ASSUME NEW w \in Worker, WorkerNext(w)
      PROVE  Count(ring', Yield) > 0 \/ InFlight(Yield)'
  <2>1. UNCHANGED <<ring, clock, csl>>
    BY <1>3 DEF WorkerNext, Start, Leave, Exit
  <2>2. \E to \in PC : pc' = [pc EXCEPT ![w] = to] /\ UNCHANGED reg
    BY <1>3 DEF WorkerNext, Start, LockGIL, Leave, Exit, PC
  <2>3. pc[w] \notin Pops
    BY <1>3 DEF WorkerNext, Start, LockGIL, Leave, Exit, Pops
  <2>4. InFlight(Yield) => InFlight(Yield)'
    BY <1>0, <2>2, <2>3, FlightOfOthers
  <2> QED BY <2>1, <2>4
<1>4. CASE MainNext
  <2>1. CASE CreateClock
    BY <2>1 DEF CreateClock
  <2>2. CASE Enable \/ FinalJoin \/ NoFinalJoin \/ CancelClock \/ ClockJoined
    <3>1. UNCHANGED <<ring, clock, csl>>
      BY <2>2 DEF Enable, FinalJoin, NoFinalJoin, CancelClock, ClockJoined
    <3>2. InFlight(Yield) => InFlight(Yield)'
      BY <1>0, <2>2, FlightOfOthers
         DEF Enable, FinalJoin, NoFinalJoin, CancelClock, LockGIL, ClockJoined, Pops
    <3> QED BY <3>1, <3>2
  <2> QED BY <1>4, <2>1, <2>2 DEF MainNext
<1>5. CASE ClockNext
  <2>1. CASE ClockTick
    BY <1>0, <2>1, PushCount DEF ClockTick, StoreInt
  <2>2. CASE ClockFlag
    BY <2>2 DEF ClockFlag, InFlight
  <2>3. CASE ClockSeesCSL \/ ClockUnsetCSL \/ ClockCancelled
    BY <2>3 DEF ClockSeesCSL, ClockUnsetCSL, ClockCancelled
  <2> QED BY <1>5, <2>1, <2>2, <2>3 DEF ClockNext
<1>6. CASE Quiet \/ UNCHANGED vars
  BY <1>6 DEF Quiet, InFlight
<1> QED BY <1>2, <1>3, <1>4, <1>5, <1>6 DEF Next

(* The clock thread never spins for an interrupt that is gone, unless an   *)
(* openGCFlag has dropped it from a buffer full of GC interrupts: not when *)
(* aio.read makes the clock fill the buffer, not when it starts before     *)
(* thread_enabled is stored, for any number of threads and any size of the *)
(* buffer.                                                                 *)
THEOREM ClockIsReleased == Spec => ClockReleased
<1>1. TypeOK /\ TypeOK' /\ RingInv(ring) /\ [Next]_vars
        => [~ ClockStuck /\ ClockStuck' =>
              /\ \E t \in Thread : OpenGC(t)
              /\ Count(ring, GC) = RingSize - 2]_vars
  BY ClockReleasedStep
<1> QED BY <1>1, TypeCorrect, RingInvariant, PTL DEF Spec, ClockReleased

(***************************************************************************)
(* The handshake over thread_csl.                                          *)
(***************************************************************************)
Holds(t, flag) == pc[t] \in Pops /\ reg[t] = flag

NoYield == Count(ring, Yield) = 0 /\ \A t \in Thread : ~ Holds(t, Yield)

(* OneYield is not inductive: that the clock pushes only when no interrupt *)
(* of its own is left follows from what thread_csl and its program counter *)
(* say about the interrupt.                                                *)
YieldInv ==
  /\ Count(ring, Yield) <= 1
  /\ Count(ring, Yield) > 0 => \A t \in Thread : ~ Holds(t, Yield)
  /\ \A t, u \in Thread : Holds(t, Yield) /\ Holds(u, Yield) => t = u
  /\ csl => NoYield
  /\ clock \in {"off", "sleep", "unset"} => NoYield
  /\ clock = "sleep" => ~ csl
  /\ \A t \in Thread : pc[t] = "csl" => reg[t] = Yield

(* A step of one thread that neither takes nor releases a THREAD_YIELD.    *)
LEMMA YieldUntouched ==
  ASSUME TypeOK, TypeOK', YieldInv, NEW t \in Thread,
         \A u \in Thread \ {t} : pc'[u] = pc[u] /\ reg'[u] = reg[u],
         (pc'[t] \in Pops /\ reg'[t] = Yield) => Holds(t, Yield),
         pc'[t] = "csl" => reg'[t] = Yield,
         UNCHANGED <<csl, clock>>,
         Count(ring', Yield) \in Nat, Count(ring', Yield) <= Count(ring, Yield)
  PROVE  YieldInv'
<1>1. \A u \in Thread : Holds(u, Yield)' => Holds(u, Yield)
  BY DEF Holds
<1>2. Count(ring, Yield) \in Nat
  BY CountFacts DEF TypeOK
<1>3. Count(ring, Yield)' = Count(ring', Yield)
  BY DEF Count, Held, Size
<1>4. NoYield => NoYield'
  BY <1>1, <1>2, <1>3 DEF NoYield
<1>5. /\ Count(ring, Yield)' <= 1
      /\ Count(ring, Yield)' > 0 => \A u \in Thread : ~ Holds(u, Yield)'
  BY <1>1, <1>2, <1>3 DEF YieldInv
<1>6. \A u, v \in Thread : Holds(u, Yield)' /\ Holds(v, Yield)' => u = v
  BY <1>1 DEF YieldInv
<1>7. \A u \in Thread : pc'[u] = "csl" => reg'[u] = Yield
  BY DEF YieldInv
<1> QED BY <1>4, <1>5, <1>6, <1>7 DEF YieldInv

LEMMA YieldStep ==
  ASSUME AioUser = {}
  PROVE  TypeOK /\ TypeOK' /\ RingInv(ring) /\ YieldInv /\ [Next]_vars => YieldInv'
<1> SUFFICES ASSUME TypeOK, TypeOK', RingInv(ring), YieldInv, [Next]_vars
             PROVE  YieldInv'
  OBVIOUS
<1>0. /\ GC \in Flag \ {Yield} /\ Yield \in Flag \ {GC} /\ NoInt # Yield /\ GC # Yield
      /\ Main \in Thread /\ Worker \subseteq Thread
      /\ pc \in [Thread -> PC] /\ reg \in [Thread -> Flag \cup {NoInt}]
      /\ ring \in Ring /\ ring' \in Ring
  BY ThreadAssumption DEF Flag, GC, Yield, NoInt, Thread, TypeOK
<1>1. /\ Count(ring, Yield) \in Nat /\ Count(ring', Yield) \in Nat
      /\ Count(ring, Yield)' = Count(ring', Yield)
  BY <1>0, CountFacts DEF Count, Held, Size
<1>2. UNCHANGED ring => Count(ring', Yield) <= Count(ring, Yield)
  BY <1>1
<1> USE DEF Goto, intVars, joinVars, vars
<1>3. ASSUME NEW t \in Thread, ThreadNext(t)
      PROVE  YieldInv'
  <2>1. CASE OpenGC(t)
    <3>1. /\ ring' = Push(ring, GC) /\ pc' = [pc EXCEPT ![t] = "pushed"]
          /\ UNCHANGED <<reg, csl, clock>>
      BY <2>1 DEF OpenGC, StoreInt
    <3>2. Count(ring', Yield) <= Count(ring, Yield)
      BY <1>0, <3>1, PushCount
    <3> QED BY <1>0, <1>1, <3>1, <3>2, YieldUntouched DEF Pops
  <2>2. CASE PopInt(t)
    <3>1. /\ ring' = Drop(ring) /\ ~ IsEmpty(ring) /\ pc[t] = "intr"
          /\ pc' = [pc EXCEPT ![t] = "popped"] /\ reg' = [reg EXCEPT ![t] = Top(ring)]
          /\ UNCHANGED <<csl, clock>>
      BY <2>2 DEF PopInt
    <3>2. CASE Top(ring) = Yield
      <4>1. Count(ring', Yield) = Count(ring, Yield) - 1
        BY <3>1, <3>2, DropCount
      <4>2. Count(ring, Yield) = 1 /\ Count(ring', Yield) = 0
        BY <1>1, <4>1 DEF YieldInv
      <4>3. /\ \A u \in Thread : ~ Holds(u, Yield)
            /\ ~ csl /\ clock \notin {"off", "sleep", "unset"}
        BY <4>2 DEF YieldInv, NoYield
      <4>4. \A u \in Thread : Holds(u, Yield)' => u = t
        BY <1>0, <3>1, <4>3 DEF Holds
      <4>5. \A u \in Thread : pc'[u] = "csl" => reg'[u] = Yield
        BY <1>0, <3>1 DEF YieldInv
      <4> QED BY <1>1, <3>1, <4>2, <4>3, <4>4, <4>5 DEF YieldInv
    <3>3. CASE Top(ring) # Yield
      <4>1. Count(ring', Yield) = Count(ring, Yield)
        BY <1>0, <3>1, <3>3, DropCount
      <4> QED BY <1>0, <1>1, <3>1, <3>3, <4>1, YieldUntouched DEF Pops
    <3> QED BY <3>2, <3>3
  <2>3. CASE PopReset(t)
    <3>1. /\ IsEmpty(ring) /\ ring' = Reset(ring) /\ pc[t] = "popped"
          /\ pc' = [pc EXCEPT ![t] = "clear"] /\ UNCHANGED <<reg, csl, clock>>
      BY <2>3 DEF PopReset
    <3>2. Count(ring', Yield) <= Count(ring, Yield)
      BY <1>0, <3>1, EmptyCount
    <3>3. (pc'[t] \in Pops /\ reg'[t] = Yield) => Holds(t, Yield)
      BY <3>1 DEF Holds, Pops
    <3> QED BY <1>0, <1>1, <3>1, <3>2, <3>3, YieldUntouched
  <2>4. CASE SetCSL(t)
    <3>1. /\ pc[t] = "csl" /\ pc' = [pc EXCEPT ![t] = "asleep"]
          /\ reg' = [reg EXCEPT ![t] = NoInt]
          /\ csl' = TRUE /\ UNCHANGED <<ring, clock>>
      BY <2>4 DEF SetCSL
    <3>2. Holds(t, Yield)
      BY <3>1 DEF YieldInv, Holds, Pops
    <3>3. /\ Count(ring, Yield) = 0 /\ \A u \in Thread : Holds(u, Yield) => u = t
          /\ clock \notin {"off", "sleep", "unset"}
      BY <1>1, <3>2 DEF YieldInv, NoYield
    <3>4. \A u \in Thread : ~ Holds(u, Yield)'
      BY <1>0, <3>1, <3>3 DEF Holds, Pops
    <3>5. \A u \in Thread : pc'[u] = "csl" => reg'[u] = Yield
      BY <1>0, <3>1 DEF YieldInv
    <3>6. Count(ring, Yield)' = 0
      BY <1>1, <3>1, <3>3
    <3> QED BY <3>1, <3>3, <3>4, <3>5, <3>6 DEF YieldInv, NoYield
  <2>5. CASE NextInstr(t) \/ OpenGCFlag(t) \/ PopNothing(t) \/ DoGC(t) \/ IgnoreInt(t)
    BY <1>0, <1>1, <1>2, <2>5, YieldUntouched
       DEF NextInstr, OpenGCFlag, PopNothing, DoGC, IgnoreInt, Pops
  <2>6. CASE PopKeep(t) \/ PopClear(t) \/ YieldGIL(t)
    BY <1>0, <1>1, <1>2, <2>6, YieldUntouched
       DEF PopKeep, PopClear, YieldGIL, Pops, Holds
  <2>7. CASE Wake(t) \/ Join(t) \/ PollDone(t) \/ JoinReturn(t)
    BY <1>0, <1>1, <1>2, <2>7, YieldUntouched
       DEF Wake, LockGIL, Join, PollDone, JoinReturn, Pops
  <2>8. ASSUME NEW w \in Worker, Spawn(t, w)
        PROVE  YieldInv'
    BY <1>0, <1>1, <1>2, <2>8, YieldUntouched DEF Spawn, Pops
  <2>9. ~ AioYield(t)
    BY DEF AioYield
  <2> QED BY <1>3, <2>1, <2>2, <2>3, <2>4, <2>5, <2>6, <2>7, <2>8, <2>9
          DEF ThreadNext, Interrupt
<1>4. ASSUME NEW w \in Worker, WorkerNext(w)
      PROVE  YieldInv'
  BY <1>0, <1>1, <1>2, <1>4, YieldUntouched DEF WorkerNext, Start, LockGIL, Leave, Exit, Pops
<1>5. CASE MainNext
  <2>1. CASE CreateClock
    <3>1. /\ clock = "off" /\ clock' = "sleep" /\ ~ csl'
          /\ pc' = [pc EXCEPT ![Main] = "enable"] /\ UNCHANGED <<ring, reg>>
      BY <2>1 DEF CreateClock
    <3>2. NoYield
      BY <3>1 DEF YieldInv
    <3>3. \A u \in Thread : ~ Holds(u, Yield)'
      BY <1>0, <3>1, <3>2 DEF NoYield, Holds, Pops
    <3>4. Count(ring, Yield)' = 0
      BY <1>1, <3>1, <3>2 DEF NoYield
    <3>5. \A u \in Thread : pc'[u] = "csl" => reg'[u] = Yield
      BY <1>0, <3>1 DEF YieldInv
    <3> QED BY <3>1, <3>3, <3>4, <3>5 DEF YieldInv, NoYield
  <2>2. CASE Enable \/ FinalJoin \/ NoFinalJoin \/ CancelClock \/ ClockJoined
    BY <1>0, <1>1, <1>2, <2>2, YieldUntouched
       DEF Enable, FinalJoin, NoFinalJoin, CancelClock, LockGIL, ClockJoined, Pops
  <2> QED BY <1>5, <2>1, <2>2 DEF MainNext
<1>6. CASE ClockNext
  <2>1. CASE ClockTick
    <3>1. /\ clock = "sleep" /\ clock' = "pushed" /\ ring' = Push(ring, Yield)
          /\ UNCHANGED <<pc, reg, csl>>
      BY <2>1 DEF ClockTick, StoreInt
    <3>2. NoYield /\ ~ csl
      BY <3>1 DEF YieldInv
    <3>3. Count(ring', Yield) <= 1
      BY <1>0, <1>1, <3>1, <3>2, PushCount DEF NoYield
    <3>4. \A u \in Thread : ~ Holds(u, Yield)'
      BY <3>1, <3>2 DEF NoYield, Holds
    <3> QED BY <1>1, <3>1, <3>2, <3>3, <3>4 DEF YieldInv
  <2>2. CASE ClockFlag \/ ClockSeesCSL \/ ClockUnsetCSL \/ ClockCancelled
    <3>1. /\ UNCHANGED <<ring, pc, reg>>
          /\ \/ clock' \notin {"off", "sleep", "unset"} /\ UNCHANGED csl
             \/ clock' = "unset" /\ csl /\ UNCHANGED csl
             \/ clock = "unset" /\ clock' = "sleep" /\ ~ csl'
      BY <2>2 DEF ClockFlag, ClockSeesCSL, ClockUnsetCSL, ClockCancelled
    <3>2. /\ Count(ring, Yield)' = Count(ring, Yield)
          /\ \A u \in Thread : Holds(u, Yield)' <=> Holds(u, Yield)
      BY <1>1, <3>1 DEF Holds
    <3>3. NoYield <=> NoYield'
      BY <3>2 DEF NoYield
    <3> QED BY <3>1, <3>2, <3>3 DEF YieldInv
  <2> QED BY <1>6, <2>1, <2>2 DEF ClockNext
<1>7. CASE Quiet \/ UNCHANGED vars
  <2>1. UNCHANGED vars
    BY <1>7 DEF Quiet
  <2> QED BY <1>0, <1>1, <1>2, <2>1, YieldUntouched DEF YieldInv, Holds
<1> QED BY <1>3, <1>4, <1>5, <1>6, <1>7 DEF Next

LEMMA YieldInvariant ==
  ASSUME AioUser = {}
  PROVE  Spec => []YieldInv
<1>1. Init => YieldInv
  <2> SUFFICES ASSUME Init
               PROVE  YieldInv
    OBVIOUS
  <2>1. Count(ring, Yield) = 0
    BY EmptyRingFacts DEF Init, Flag
  <2>2. \A t \in Thread : ~ Holds(t, Yield) /\ pc[t] # "csl"
    BY DEF Init, Holds, Pops
  <2> QED BY <2>1, <2>2 DEF Init, YieldInv, NoYield
<1>2. TypeOK /\ TypeOK' /\ RingInv(ring) /\ YieldInv /\ [Next]_vars => YieldInv'
  BY YieldStep
<1> QED BY <1>1, <1>2, TypeCorrect, RingInvariant, PTL DEF Spec

(* The clock pushes its next THREAD_YIELD only after the last one has been *)
(* handled, so that without aio.read the buffer never holds two of them,   *)
(* for any number of threads.                                              *)
THEOREM ClockSendsOne ==
  ASSUME AioUser = {}
  PROVE  Spec => []OneYield
<1>1. TypeOK /\ YieldInv => OneYield
  <2> SUFFICES ASSUME TypeOK, YieldInv
               PROVE  OneYield
    OBVIOUS
  <2> DEFINE H == {t \in Thread : Holds(t, Yield)}
  <2>1. OneYield <=> Count(ring, Yield) + Cardinality(H) <= 1
    BY DEF OneYield, Holds, Pops
  <2>2. Count(ring, Yield) \in {0, 1}
    BY CountFacts DEF TypeOK, YieldInv
  <2>3. CASE H = {}
    BY <2>1, <2>2, <2>3, FS_EmptySet
  <2>4. CASE H # {}
    <3>1. PICK t \in H : H = {t}
      BY <2>4 DEF YieldInv
    <3>2. Cardinality(H) = 1
      BY <3>1, FS_Singleton
    <3>3. Count(ring, Yield) = 0
      BY <2>2, <3>1 DEF YieldInv
    <3> QED BY <2>1, <3>2, <3>3
  <2> QED BY <2>3, <2>4
<1> QED BY <1>1, TypeCorrect, YieldInvariant, PTL

(***************************************************************************)
(* No collection is forgotten.                                             *)
(***************************************************************************)
LEMMA GCNotLostStep ==
  ASSUME AioUser = {}, RingSize > 2
  PROVE  TypeOK /\ TypeOK' /\ RingInv(ring) /\ YieldInv /\ GCNotLost /\ [Next]_vars
           => GCNotLost'
<1> SUFFICES ASSUME TypeOK, TypeOK', RingInv(ring), YieldInv, GCNotLost, [Next]_vars,
                    gcFlag'
             PROVE  Count(ring', GC) > 0 \/ InFlight(GC)'
  BY DEF GCNotLost, Count, Held, Size
<1>0. /\ GC \in Flag \ {Yield} /\ Yield \in Flag \ {GC} /\ NoInt # GC /\ GC # Yield
      /\ Main \in Thread /\ Worker \subseteq Thread
      /\ pc \in [Thread -> PC] /\ reg \in [Thread -> Flag \cup {NoInt}]
      /\ ring \in Ring /\ RingSize \in Nat
  BY ThreadAssumption, RingSizeAssumption DEF Flag, GC, Yield, NoInt, Thread, TypeOK
<1>1. Count(ring, Yield) \in Nat /\ Count(ring, GC) \in Nat
  BY <1>0, CountFacts
<1> USE DEF GCNotLost, Goto, intVars, joinVars, vars
<1>2. ASSUME NEW t \in Thread, ThreadNext(t)
      PROVE  Count(ring', GC) > 0 \/ InFlight(GC)'
  <2>1. CASE OpenGC(t)
    BY <1>0, <2>1, PushCount DEF OpenGC, StoreInt
  <2>2. CASE PopInt(t)
    <3>1. /\ ring' = Drop(ring) /\ ~ IsEmpty(ring) /\ pc[t] = "intr"
          /\ pc' = [pc EXCEPT ![t] = "popped"] /\ reg' = [reg EXCEPT ![t] = Top(ring)]
          /\ UNCHANGED gcFlag
      BY <2>2 DEF PopInt
    <3>2. CASE Top(ring) = GC
      BY <1>0, <3>1, <3>2 DEF InFlight
    <3>3. CASE Top(ring) # GC
      <4>1. Count(ring', GC) = Count(ring, GC)
        BY <1>0, <3>1, <3>3, DropCount
      <4>2. InFlight(GC) => InFlight(GC)'
        BY <1>0, <3>1, FlightOfOthers DEF Pops
      <4> QED BY <3>1, <4>1, <4>2
    <3> QED BY <3>2, <3>3
  <2>3. CASE PopReset(t)
    <3>1. /\ IsEmpty(ring) /\ pc[t] = "popped" /\ pc' = [pc EXCEPT ![t] = "clear"]
          /\ UNCHANGED <<gcFlag, reg>>
      BY <2>3 DEF PopReset
    <3>2. Count(ring, GC) = 0
      BY <1>0, <3>1, EmptyCount
    <3>3. InFlight(GC) => InFlight(GC)'
      BY <1>0, <3>1, FlightOfOthers DEF Pops
    <3> QED BY <3>1, <3>2, <3>3
  <2>4. CASE DoGC(t)
    BY <2>4 DEF DoGC
  <2>5. CASE SetCSL(t)
    <3>1. /\ pc[t] = "csl" /\ pc' = [pc EXCEPT ![t] = "asleep"]
          /\ reg' = [reg EXCEPT ![t] = NoInt] /\ UNCHANGED <<ring, gcFlag>>
      BY <2>5 DEF SetCSL
    <3>2. reg[t] # GC
      BY <1>0, <3>1 DEF YieldInv
    <3>3. InFlight(GC) => InFlight(GC)'
      BY <1>0, <3>1, <3>2, FlightOfOthers
    <3> QED BY <3>1, <3>3
  <2>6. CASE NextInstr(t) \/ OpenGCFlag(t) \/ PopNothing(t) \/ PopKeep(t) \/ PopClear(t)
    <3>1. UNCHANGED <<ring, gcFlag>>
      BY <2>6 DEF NextInstr, OpenGCFlag, PopNothing, PopKeep, PopClear
    <3>2. InFlight(GC) => InFlight(GC)'
      BY <1>0, <2>6, FlightOfOthers
         DEF NextInstr, OpenGCFlag, PopNothing, PopKeep, PopClear, Pops
    <3> QED BY <3>1, <3>2
  <2>7. CASE IgnoreInt(t) \/ YieldGIL(t) \/ AioYield(t)
    <3>1. UNCHANGED <<ring, gcFlag>>
      BY <2>7 DEF IgnoreInt, YieldGIL, AioYield
    <3>2. InFlight(GC) => InFlight(GC)'
      BY <1>0, <2>7, FlightOfOthers DEF IgnoreInt, YieldGIL, AioYield, Pops
    <3> QED BY <3>1, <3>2
  <2>8. CASE Wake(t) \/ Join(t) \/ PollDone(t) \/ JoinReturn(t)
    <3>1. UNCHANGED <<ring, gcFlag>>
      BY <2>8 DEF Wake, Join, PollDone, JoinReturn
    <3>2. InFlight(GC) => InFlight(GC)'
      BY <1>0, <2>8, FlightOfOthers DEF Wake, LockGIL, Join, PollDone, JoinReturn, Pops
    <3> QED BY <3>1, <3>2
  <2>9. ASSUME NEW w \in Worker, Spawn(t, w)
        PROVE  Count(ring', GC) > 0 \/ InFlight(GC)'
    <3>1. UNCHANGED <<ring, gcFlag>>
      BY <2>9 DEF Spawn
    <3>2. InFlight(GC) => InFlight(GC)'
      BY <1>0, <2>9, FlightOfOthers DEF Spawn, Pops
    <3> QED BY <3>1, <3>2
  <2> QED BY <1>2, <2>1, <2>2, <2>3, <2>4, <2>5, <2>6, <2>7, <2>8, <2>9
          DEF ThreadNext, Interrupt
<1>3. ASSUME NEW w \in Worker, WorkerNext(w)
      PROVE  Count(ring', GC) > 0 \/ InFlight(GC)'
  <2>1. UNCHANGED <<ring, gcFlag>>
    BY <1>3 DEF WorkerNext, Start, Leave, Exit
  <2>2. \E to \in PC : pc' = [pc EXCEPT ![w] = to] /\ UNCHANGED reg
    BY <1>3 DEF WorkerNext, Start, LockGIL, Leave, Exit, PC
  <2>3. pc[w] \notin Pops
    BY <1>3 DEF WorkerNext, Start, LockGIL, Leave, Exit, Pops
  <2>4. InFlight(GC) => InFlight(GC)'
    BY <1>0, <2>2, <2>3, FlightOfOthers
  <2> QED BY <2>1, <2>4
<1>4. CASE MainNext
  <2>1. UNCHANGED <<ring, gcFlag>>
    BY <1>4 DEF MainNext, CreateClock, Enable, FinalJoin, NoFinalJoin, CancelClock,
                ClockJoined
  <2>2. \E to \in PC : pc' = [pc EXCEPT ![Main] = to] /\ UNCHANGED reg
    BY <1>4 DEF MainNext, CreateClock, Enable, FinalJoin, NoFinalJoin, CancelClock,
                LockGIL, ClockJoined, PC
  <2>3. pc[Main] \notin Pops
    BY <1>4 DEF MainNext, CreateClock, Enable, FinalJoin, NoFinalJoin, CancelClock,
                LockGIL, ClockJoined, Pops
  <2>4. InFlight(GC) => InFlight(GC)'
    BY <1>0, <2>2, <2>3, FlightOfOthers
  <2> QED BY <2>1, <2>4
<1>5. CASE ClockNext
  <2>1. CASE ClockTick
    <3>1. /\ clock = "sleep" /\ ring' = Push(ring, Yield)
          /\ UNCHANGED <<pc, reg, gcFlag>>
      BY <2>1 DEF ClockTick, StoreInt
    <3>2. CASE InFlight(GC)
      BY <3>1, <3>2 DEF InFlight
    <3>3. CASE Count(ring, GC) > 0
      <4>1. CASE IsFull(ring)
        <5>1. Count(ring, GC) = RingSize - 1
          BY <1>1, <3>1, <4>1, FullCount DEF YieldInv, NoYield
        <5>2. Count(ring', GC) \in Nat /\ Count(ring', GC) >= Count(ring, GC) - 1
          BY <1>0, <3>1, PushCount, CountFacts DEF RingInv
        <5> QED BY <1>0, <1>1, <5>1, <5>2
      <4>2. CASE ~ IsFull(ring)
        BY <1>0, <3>1, <3>3, <4>2, PushCount
      <4> QED BY <4>1, <4>2
    <3> QED BY <3>1, <3>2, <3>3
  <2>2. CASE ClockFlag \/ ClockSeesCSL \/ ClockUnsetCSL \/ ClockCancelled
    BY <2>2 DEF ClockFlag, ClockSeesCSL, ClockUnsetCSL, ClockCancelled, InFlight
  <2> QED BY <1>5, <2>1, <2>2 DEF ClockNext
<1>6. CASE Quiet \/ UNCHANGED vars
  BY <1>6 DEF Quiet, InFlight
<1> QED BY <1>2, <1>3, <1>4, <1>5, <1>6 DEF Next

(* Without aio.read a collection asked for is pending or about to run for  *)
(* as long as the GC flag is open, however full the buffer is: the one     *)
(* THREAD_YIELD that may come in costs a full buffer one of its GCs, and   *)
(* more than two cells hold more than one.                                 *)
THEOREM CollectionNotLost ==
  ASSUME AioUser = {}, RingSize > 2
  PROVE  Spec => []GCNotLost
<1>1. Init => GCNotLost
  BY DEF Init, GCNotLost
<1>2. TypeOK /\ TypeOK' /\ RingInv(ring) /\ YieldInv /\ GCNotLost /\ [Next]_vars
        => GCNotLost'
  BY GCNotLostStep
<1> QED BY <1>1, <1>2, TypeCorrect, RingInvariant, YieldInvariant, PTL DEF Spec

(***************************************************************************)
(* thread_set.                                                             *)
(***************************************************************************)
Gone == {"idle", "dead", "ending"}

(* thread_set has a worker from its spawn to its end, so a worker that     *)
(* joins never sees the set empty, and only the main thread gets past the  *)
(* poll; from then on nobody is left who could spawn.                      *)
JoinInv ==
  /\ \A w \in Worker : w \in tset <=> pc[w] \notin Gone
  /\ \A w \in Worker : pc[w] \notin {"relock", "cancel", "free", "enable"}
  /\ pc[Main] \in {"relock", "cancel"} => \A w \in Worker : pc[w] \in Gone

LEMMA JoinStep == TypeOK /\ TypeOK' /\ JoinInv /\ [Next]_vars => JoinInv'
<1> SUFFICES ASSUME TypeOK, TypeOK', JoinInv, [Next]_vars
             PROVE  JoinInv'
  OBVIOUS
<1>0. /\ Main \in Thread /\ Worker \subseteq Thread /\ Main \notin Worker
      /\ \A t \in Thread : t # Main => t \in Worker
      /\ pc \in [Thread -> PC] /\ tset \subseteq Worker
  BY ThreadAssumption DEF Thread, TypeOK
<1> USE DEF JoinInv, Gone, Goto, intVars, joinVars, vars
<1>1. ASSUME NEW t \in Thread, ThreadNext(t)
      PROVE  JoinInv'
  <2>1. CASE OpenGC(t) \/ NextInstr(t) \/ OpenGCFlag(t)
    BY <1>0, <2>1 DEF OpenGC, NextInstr, OpenGCFlag
  <2>2. CASE PopNothing(t) \/ PopInt(t) \/ PopReset(t)
    BY <1>0, <2>2 DEF PopNothing, PopInt, PopReset
  <2>3. CASE PopKeep(t) \/ PopClear(t) \/ DoGC(t) \/ IgnoreInt(t)
    BY <1>0, <2>3 DEF PopKeep, PopClear, DoGC, IgnoreInt
  <2>4. CASE YieldGIL(t) \/ SetCSL(t) \/ AioYield(t) \/ Wake(t)
    BY <1>0, <2>4 DEF YieldGIL, SetCSL, AioYield, Wake, LockGIL
  <2>5. CASE Join(t)
    BY <1>0, <2>5 DEF Join
  <2>6. CASE PollDone(t)
    <3>1. tset = {} /\ pc[t] = "poll" /\ pc' = [pc EXCEPT ![t] = "relock"]
          /\ UNCHANGED tset
      BY <2>6 DEF PollDone
    <3>2. \A w \in Worker : pc[w] \in Gone
      BY <3>1
    <3>3. t = Main
      BY <1>0, <3>1, <3>2
    <3> QED BY <1>0, <3>1, <3>2, <3>3
  <2>7. CASE JoinReturn(t)
    BY <1>0, <2>7 DEF JoinReturn, LockGIL
  <2>8. ASSUME NEW w \in Worker, Spawn(t, w)
        PROVE  JoinInv'
    <3>1. /\ pc[t] = "exec" /\ pc[w] = "idle" /\ tset' = tset \cup {w}
          /\ pc' = [pc EXCEPT ![w] = "start"]
      BY <2>8 DEF Spawn
    <3>2. pc[Main] \notin {"relock", "cancel"}
      BY <1>0, <3>1
    <3> QED BY <1>0, <3>1, <3>2
  <2> QED BY <1>1, <2>1, <2>2, <2>3, <2>4, <2>5, <2>6, <2>7, <2>8
          DEF ThreadNext, Interrupt
<1>2. ASSUME NEW w \in Worker, WorkerNext(w)
      PROVE  JoinInv'
  <2>1. CASE Start(w)
    BY <1>0, <2>1 DEF Start, LockGIL
  <2>2. CASE Leave(w)
    BY <1>0, <2>2 DEF Leave
  <2>3. CASE Exit(w)
    BY <1>0, <2>3 DEF Exit
  <2> QED BY <1>2, <2>1, <2>2, <2>3 DEF WorkerNext
<1>3. CASE MainNext
  <2>1. CASE CreateClock \/ Enable \/ FinalJoin \/ NoFinalJoin
    BY <1>0, <2>1 DEF CreateClock, Enable, FinalJoin, NoFinalJoin
  <2>2. CASE CancelClock \/ ClockJoined
    BY <1>0, <2>2 DEF CancelClock, LockGIL, ClockJoined
  <2> QED BY <1>3, <2>1, <2>2 DEF MainNext
<1>4. CASE ClockNext
  BY <1>4 DEF ClockNext, ClockTick, ClockFlag, ClockSeesCSL, ClockUnsetCSL,
              ClockCancelled
<1>5. CASE Quiet \/ UNCHANGED vars
  BY <1>5 DEF Quiet
<1> QED BY <1>1, <1>2, <1>3, <1>4, <1>5 DEF Next

LEMMA JoinInvariant == Spec => []JoinInv
<1>1. Init => JoinInv
  BY ThreadAssumption DEF Init, JoinInv, Gone, Thread
<1>2. TypeOK /\ TypeOK' /\ JoinInv /\ [Next]_vars => JoinInv'
  BY JoinStep
<1> QED BY <1>1, <1>2, TypeCorrect, PTL DEF Spec

(* A joiner that has seen thread_set empty is the only thread left that    *)
(* uses the VM state, whoever may call join and however many threads are   *)
(* spawned by threads.                                                     *)
THEOREM JoinerIsAlone == Spec => []JoinedAlone
<1>1. JoinInv => JoinedAlone
  BY ThreadAssumption DEF JoinInv, JoinedAlone, Gone, Thread
<1> QED BY <1>1, JoinInvariant, PTL

(***************************************************************************)
(* The VM state freed.                                                     *)
(***************************************************************************)

(* What holds on the way to ivm_vmstate_free when only the main thread     *)
(* joins: without threads there is no clock, a join under way is its own,  *)
(* and once it frees the state the workers are idle and the clock is gone. *)
FreeInv ==
  /\ ~ enabled => clock = "off" \/ pc[Main] = "enable"
  /\ joinStart => pc[Main] \in {"poll", "relock", "cancel"}
  /\ pc[Main] = "free" => /\ \A w \in Worker : pc[w] \in {"idle", "dead"}
                          /\ clock \in {"off", "stopped"}

(* Nothing but stuttering is left when the state is freed.                 *)
LEMMA FreeIsQuiet ==
  ASSUME FreeInv, [Next]_vars, pc[Main] = "free"
  PROVE  UNCHANGED vars
<1>0. /\ \A w \in Worker : pc[w] \in {"idle", "dead"}
      /\ \A t \in Thread : pc[t] \in {"idle", "dead", "free"}
      /\ clock \in {"off", "stopped"}
  BY DEF FreeInv, Thread
<1> USE DEF Goto, LockGIL
<1>1. ASSUME NEW t \in Thread
      PROVE  ~ ThreadNext(t)
  BY <1>0 DEF ThreadNext, Interrupt, OpenGC, NextInstr, OpenGCFlag, PopNothing, PopInt,
        PopReset, PopKeep, PopClear, DoGC, IgnoreInt, YieldGIL, SetCSL, AioYield, Wake,
        Join, PollDone, JoinReturn, Spawn
<1>2. ASSUME NEW w \in Worker
      PROVE  ~ WorkerNext(w)
  BY <1>0 DEF WorkerNext, Start, Leave, Exit
<1>3. ~ MainNext
  BY DEF MainNext, CreateClock, Enable, FinalJoin, NoFinalJoin, CancelClock, ClockJoined
<1>4. ~ ClockNext
  BY <1>0 DEF ClockNext, ClockTick, ClockFlag, ClockSeesCSL, ClockUnsetCSL,
              ClockCancelled
<1> QED BY <1>1, <1>2, <1>3, <1>4 DEF Next, Quiet

LEMMA FreeStep ==
  ASSUME Joiner \subseteq {Main}
  PROVE  GILInv /\ JoinInv /\ FreeInv /\ [Next]_vars => FreeInv'
<1> SUFFICES ASSUME GILInv, JoinInv, FreeInv, [Next]_vars
             PROVE  FreeInv'
  OBVIOUS
<1>0. /\ Main \in Thread /\ Worker \subseteq Thread /\ Main \notin Worker
      /\ \A t \in Thread : t # Main => t \in Worker
      /\ pc \in [Thread -> PC] /\ enabled \in BOOLEAN
  BY ThreadAssumption DEF Thread, GILInv, TypeOK
<1>1. CASE pc[Main] = "free"
  BY <1>1, FreeIsQuiet DEF FreeInv, vars, joinVars, intVars
<1>2. CASE pc[Main] # "free"
  <2> USE <1>2 DEF FreeInv, Goto, intVars, joinVars, vars
  <2>1. ASSUME NEW t \in Thread, ThreadNext(t)
        PROVE  FreeInv'
    <3>1. CASE OpenGC(t) \/ NextInstr(t) \/ OpenGCFlag(t)
      BY <1>0, <3>1 DEF OpenGC, NextInstr, OpenGCFlag
    <3>2. CASE PopNothing(t) \/ PopInt(t) \/ PopReset(t)
      BY <1>0, <3>2 DEF PopNothing, PopInt, PopReset
    <3>3. CASE PopKeep(t) \/ PopClear(t) \/ DoGC(t) \/ IgnoreInt(t)
      BY <1>0, <3>3 DEF PopKeep, PopClear, DoGC, IgnoreInt
    <3>4. CASE YieldGIL(t) \/ SetCSL(t) \/ AioYield(t) \/ Wake(t)
      BY <1>0, <3>4 DEF YieldGIL, SetCSL, AioYield, Wake, LockGIL
    <3>5. CASE Join(t) \/ PollDone(t) \/ JoinReturn(t)
      BY <1>0, <3>5 DEF Join, PollDone, JoinReturn, LockGIL, JoinInv
    <3>6. ASSUME NEW w \in Worker, Spawn(t, w)
          PROVE  FreeInv'
      BY <1>0, <3>6 DEF Spawn
    <3> QED BY <2>1, <3>1, <3>2, <3>3, <3>4, <3>5, <3>6 DEF ThreadNext, Interrupt
  <2>2. ASSUME NEW w \in Worker, WorkerNext(w)
        PROVE  FreeInv'
    BY <1>0, <2>2 DEF WorkerNext, Start, LockGIL, Leave, Exit
  <2>3. CASE CreateClock \/ Enable
    BY <1>0, <2>3 DEF CreateClock, Enable
  <2>4. CASE FinalJoin \/ CancelClock
    BY <1>0, <2>4 DEF FinalJoin, CancelClock, LockGIL
  <2>5. CASE NoFinalJoin
    <3>1. /\ pc[Main] = "exec" /\ pc' = [pc EXCEPT ![Main] = "free"]
          /\ UNCHANGED <<enabled, clock, joinStart>> /\ ~ enabled
      BY <2>5 DEF NoFinalJoin
    <3>2. clock = "off" /\ \A w \in Worker : pc[w] \in {"idle", "dead"}
      BY <3>1 DEF GILInv, NoWorkerYet
    <3> QED BY <1>0, <2>5, <3>1, <3>2 DEF NoFinalJoin
  <2>6. CASE ClockJoined
    <3>1. /\ pc[Main] = "cancel" /\ clock = "stopped"
          /\ pc' = [pc EXCEPT ![Main] = "free"] /\ ~ joinStart' /\ UNCHANGED <<enabled, clock>>
      BY <2>6 DEF ClockJoined
    <3>2. ASSUME NEW w \in Worker
          PROVE  pc[w] \in {"idle", "dead"}
      <4>1. pc[w] \in Gone
        BY <3>1 DEF JoinInv
      <4>2. pc[w] # "ending"
        BY <1>0, <3>1 DEF GILInv, GILExclusive, NoWorkerYet, Running
      <4> QED BY <4>1, <4>2 DEF Gone
    <3> QED BY <1>0, <3>1, <3>2
  <2>7. CASE ClockNext
    BY <2>7 DEF ClockNext, ClockTick, ClockFlag, ClockSeesCSL, ClockUnsetCSL,
                ClockCancelled
  <2>8. CASE Quiet \/ UNCHANGED vars
    BY <2>8 DEF Quiet
  <2> QED BY <2>1, <2>2, <2>3, <2>4, <2>5, <2>6, <2>7, <2>8 DEF Next, MainNext
<1> QED BY <1>1, <1>2

LEMMA FreeInvariant ==
  ASSUME Joiner \subseteq {Main}
  PROVE  Spec => []FreeInv
<1>1. Init => FreeInv
  BY DEF Init, FreeInv, Thread
<1>2. GILInv /\ JoinInv /\ FreeInv /\ [Next]_vars => FreeInv'
  BY FreeStep
<1> QED BY <1>1, <1>2, GILInvariant, JoinInvariant, PTL DEF Spec

(* When only the main thread joins, no thread and no clock takes another   *)
(* step on the VM state once ivm_vmstate_free has begun.                   *)
THEOREM NoUseAfterFree ==
  ASSUME Joiner \subseteq {Main}
  PROVE  Spec => NothingAfterFree
<1>1. FreeInv /\ [Next]_vars => [pc[Main] = "free" => UNCHANGED vars]_vars
  BY FreeIsQuiet
<1> QED BY <1>1, FreeInvariant, PTL DEF Spec, NothingAfterFree
=============================================================================
