--------------------------- MODULE CoroStackProof ---------------------------
(***************************************************************************)
(* The stacks of one coroutine: what pushing, blocks, calls and returns do *)
(* to a record of CoroSet whose saved pointers are right, and that they    *)
(* are right again afterwards, also when the array has moved.  Then the C  *)
(* stack of a thread, which is related to the call stacks of the           *)
(* coroutines on it: activation i began with call h[i] of its coroutine,   *)
(* and the native calls of a coroutine are the native activations there    *)
(* are of it.  Whatever a step does to a C stack and to the coroutine at   *)
(* its top keeps this.  Last the nested calls and blocks that CallModel    *)
(* sees of a coroutine.                                                    *)
(***************************************************************************)
EXTENDS Coro, SequenceTheorems, WellFoundedInduction, TLAPS

(***************************************************************************)
(* Sequences.                                                              *)
(***************************************************************************)

(* The first n elements.                                                   *)
LEMMA FirstOf ==
  ASSUME NEW S, NEW s \in Seq(S), NEW n \in 0..Len(s)
  PROVE  /\ SubSeq(s, 1, n) \in Seq(S) /\ Len(SubSeq(s, 1, n)) = n
         /\ \A i \in 1..n : SubSeq(s, 1, n)[i] = s[i]
OBVIOUS

(* The ends of a sequence that is not empty.                               *)
LEMMA LastFront ==
  ASSUME NEW S, NEW s \in Seq(S), s # <<>>
  PROVE  /\ Len(s) \in Nat \ {0}
         /\ Last(s) = s[Len(s)] /\ Last(s) \in S
         /\ Front(s) \in Seq(S) /\ Len(Front(s)) = Len(s) - 1
         /\ \A i \in 1..Len(s) - 1 : Front(s)[i] = s[i]
<1>1. Len(s) \in Nat \ {0}
  BY EmptySeq
<1>2. \A i \in 1..Len(s) : s[i] \in S
  OBVIOUS
<1>3. Last(s) = s[Len(s)] /\ Last(s) \in S
  BY <1>1, <1>2 DEF Last
<1>4. /\ Front(s) \in Seq(S) /\ Len(Front(s)) = Len(s) - 1
      /\ \A i \in 1..Len(s) - 1 : Front(s)[i] = s[i]
  <2>1. Len(s) - 1 \in 0..Len(s)
    BY <1>1
  <2> QED BY <2>1, FirstOf DEF Front
<1> QED BY <1>1, <1>3, <1>4

(* A sequence with one element more.                                       *)
LEMMA Longer ==
  ASSUME NEW S, NEW s \in Seq(S), NEW x \in S
  PROVE  /\ Append(s, x) \in Seq(S) /\ Len(Append(s, x)) = Len(s) + 1
         /\ Append(s, x)[Len(s) + 1] = x
         /\ \A i \in 1..Len(s) : Append(s, x)[i] = s[i]
OBVIOUS

(* The values that are left below a new sp.                                *)
LEMMA CutBelow ==
  ASSUME NEW S, NEW s \in Seq(S), NEW n \in 0..Len(s)
  PROVE  /\ Cut(s, n) \in Seq(S) /\ Len(Cut(s, n)) = n
         /\ \A i \in 1..n : Cut(s, n)[i] = s[i]
BY DEF Cut

(***************************************************************************)
(* Induction over the natural numbers, for a set.                          *)
(***************************************************************************)
LEMMA SetInduction ==
  ASSUME NEW S, 0 \in S, \A n \in Nat : n \in S => n + 1 \in S
  PROVE  Nat \subseteq S
<1> DEFINE R == OpToRel(<, Nat)
<1>1. IsWellFoundedOn(R, Nat)
  BY NatLessThanWellFounded, Zenon
<1>2. \A x, y \in Nat : x < y => <<x, y>> \in R
  BY SMT DEF OpToRel
<1> HIDE DEF R
<1> SUFFICES ASSUME Nat \ S # {}
             PROVE  FALSE
  OBVIOUS
<1>3. PICK x \in Nat \ S : \A y \in Nat \ S : ~ (<<y, x>> \in R)
  BY <1>1, WFMin
<1>4. x - 1 \in Nat \ S /\ x - 1 < x
  OBVIOUS
<1> QED BY <1>2, <1>3, <1>4

(***************************************************************************)
(* Records.                                                                *)
(***************************************************************************)

(* The fields of a coroutine, of a frame and of a block.                   *)
LEMMA CoroFields ==
  ASSUME NEW r \in CoroSet
  PROVE  /\ r.bottom \in Nat /\ r.size \in Nat
         /\ r.mem \in Seq(Values) /\ Len(r.mem) \in Nat
         /\ r.runtime \in FrameSet
         /\ r.frames \in Seq(FrameSet) /\ Len(r.frames) \in Nat
         /\ r.blocks \in Seq(BlockSet) /\ Len(r.blocks) \in Nat
         /\ r.alive \in BOOLEAN /\ r.active \in BOOLEAN
         /\ r.hasNative \in BOOLEAN /\ r.spawned \in BOOLEAN
         /\ r.param \in {"no", "bind", "drop"}
<1>1. /\ r.mem \in Seq(Values) /\ r.frames \in Seq(FrameSet) /\ r.blocks \in Seq(BlockSet)
  BY DEF CoroSet
<1>2. /\ Len(r.mem) \in Nat /\ Len(r.frames) \in Nat /\ Len(r.blocks) \in Nat
  BY <1>1
<1> QED BY <1>1, <1>2 DEF CoroSet

(* The fields of a frame.                                                   *)
LEMMA FrameFields ==
  ASSUME NEW f \in FrameSet
  PROVE  /\ f.bp \in Nat /\ f.rbp \in Nat /\ f.bcur \in Nat /\ f.dump \in 0..2
         /\ f.native \in BOOLEAN /\ f.param \in BOOLEAN /\ f.args \in Seq(Values)
BY DEF FrameSet

(* Call k of a coroutine, counted from its root.                           *)
CallAt(r, k) == IF k <= Len(r.frames) THEN r.frames[k] ELSE r.runtime
Depth(r)     == Len(r.frames) + 1

(* The calls of native functions.                                          *)
Natives(r) == {k \in 1..Depth(r) : CallAt(r, k).native}

(* All calls are frames.                                                   *)
LEMMA CallTypes ==
  ASSUME NEW r \in CoroSet
  PROVE  /\ Depth(r) \in Nat \ {0}
         /\ CallAt(r, Depth(r)) = r.runtime
         /\ Natives(r) \subseteq 1..Depth(r)
         /\ Depth(r) \in Natives(r) <=> r.runtime.native
         /\ \A k \in 1..Depth(r) : CallAt(r, k) \in FrameSet
         /\ \A k \in 1..Len(r.frames) : CallAt(r, k) = r.frames[k] /\ k + 1 \in 1..Depth(r)
<1>1. r.frames \in Seq(FrameSet) /\ Len(r.frames) \in Nat /\ r.runtime \in FrameSet
  BY CoroFields
<1>2. \A k \in 1..Len(r.frames) : r.frames[k] \in FrameSet
  BY <1>1
<1>3. Depth(r) = Len(r.frames) + 1
  BY DEF Depth
<1>4. CallAt(r, Depth(r)) = r.runtime
  BY <1>1, <1>3 DEF CallAt
<1>5. \A k \in 1..Len(r.frames) : CallAt(r, k) = r.frames[k] /\ k + 1 \in 1..Depth(r)
  BY <1>1, <1>3 DEF CallAt
<1>6. \A k \in 1..Depth(r) : CallAt(r, k) \in FrameSet
  BY <1>1, <1>2, <1>3 DEF CallAt
<1>7. Depth(r) \in 1..Depth(r)
  BY <1>1, <1>3
<1>8. Depth(r) \in Natives(r) <=> r.runtime.native
  BY <1>4, <1>7 DEF Natives
<1> QED BY <1>1, <1>3, <1>4, <1>5, <1>6, <1>8 DEF Natives

(***************************************************************************)
(* Well-formed stacks.                                                     *)
(***************************************************************************)

(* P[k]: how many values the first k blocks have left below them.          *)
IsOffsets(P, blocks) ==
  /\ P \in [0..Len(blocks) -> Nat]
  /\ P[0] = 0
  /\ \A k \in 1..Len(blocks) : P[k] = P[k - 1] + blocks[k].sp
  /\ \A j, k \in 0..Len(blocks) : j <= k => P[j] <= P[k]

(* The call f has the blocks up to `last` and values that end at `end`.    *)
(* Native code opens no blocks.                                            *)
CallFits(f, bottom, last, end, P) ==
  /\ bottom <= f.rbp
  /\ f.bcur <= last
  /\ f.bp = f.rbp + P[last] - P[f.bcur]
  /\ f.bp <= end
  /\ f.native => f.bcur = last

(* What Nested says of a coroutine, with the offsets of the blocks in      *)
(* place of the recursive BlockStart.                                      *)
Ordered(r) == \A i, j \in 1..Depth(r) : i <= j => CallAt(r, i).bcur <= CallAt(r, j).bcur

CallersFit(r, P) ==
  \A i \in 1..Len(r.frames) :
    LET g == CallAt(r, i + 1)
    IN  CallFits(r.frames[i], r.bottom, g.bcur, g.rbp - g.dump, P)

StackFits(r, P) ==
  /\ IsOffsets(P, r.blocks)
  /\ Len(r.mem) < r.size
  /\ CallFits(r.runtime, r.bottom, Len(r.blocks), Sp(r), P)
  /\ Ordered(r)
  /\ CallersFit(r, P)

Good(r) == r \in CoroSet /\ \E P : StackFits(r, P)

(* What no instruction on the stacks changes, and which calls there are.   *)
Alike(q, r)     == q.alive = r.alive /\ q.hasNative = r.hasNative /\ q.spawned = r.spawned
SameCalls(q, r) == Depth(q) = Depth(r) /\ Natives(q) = Natives(r)

(* Facts about a stack that fits: it ends above its pointers.              *)
LEMMA GoodFacts ==
  ASSUME NEW r, Good(r)
  PROVE  /\ r \in CoroSet
         /\ Sp(r) \in Nat /\ Sp(r) = r.bottom + Len(r.mem)
         /\ r.runtime.rbp \in Nat /\ r.bottom <= r.runtime.rbp
         /\ r.runtime.bp \in Nat /\ r.runtime.rbp <= r.runtime.bp /\ r.runtime.bp <= Sp(r)
         /\ r.runtime.bcur \in 0..Len(r.blocks)
         /\ Avail(r) \in 0..Len(r.mem) /\ Avail(r) = Sp(r) - r.runtime.bp
         /\ BlockOpen(r) <=> r.runtime.bcur < Len(r.blocks)
         /\ r.runtime.native => ~ BlockOpen(r)
<1>1. r \in CoroSet
  BY DEF Good
<1>2. PICK P : StackFits(r, P)
  BY DEF Good
<1>3. /\ r.bottom \in Nat /\ Len(r.mem) \in Nat /\ Len(r.blocks) \in Nat
      /\ r.runtime.rbp \in Nat /\ r.runtime.bp \in Nat /\ r.runtime.bcur \in Nat
  BY <1>1, CoroFields, FrameFields
<1>4. CallFits(r.runtime, r.bottom, Len(r.blocks), Sp(r), P) /\ IsOffsets(P, r.blocks)
  BY <1>2 DEF StackFits
<1>5. Sp(r) \in Nat /\ Sp(r) = r.bottom + Len(r.mem)
  BY <1>3 DEF Sp
<1>6. r.runtime.bcur \in 0..Len(r.blocks)
  BY <1>3, <1>4 DEF CallFits
<1>7. P[Len(r.blocks)] \in Nat /\ P[r.runtime.bcur] \in Nat /\ P[r.runtime.bcur] <= P[Len(r.blocks)]
  BY <1>3, <1>4, <1>6 DEF IsOffsets
<1>8. /\ r.bottom <= r.runtime.rbp /\ r.runtime.rbp <= r.runtime.bp /\ r.runtime.bp <= Sp(r)
  BY <1>3, <1>4, <1>5, <1>7 DEF CallFits
<1>9. Avail(r) \in 0..Len(r.mem) /\ Avail(r) = Sp(r) - r.runtime.bp
  BY <1>3, <1>5, <1>8 DEF Avail
<1>10. BlockOpen(r) <=> r.runtime.bcur < Len(r.blocks)
  BY <1>3, <1>6 DEF BlockOpen
<1>11. r.runtime.native => ~ BlockOpen(r)
  BY <1>4 DEF CallFits, BlockOpen
<1> QED BY <1>1, <1>3, <1>5, <1>6, <1>8, <1>9, <1>10, <1>11

(* The blocks of each call are among those there are.                      *)
LEMMA BlockBounds ==
  ASSUME NEW r, Good(r), NEW k \in 1..Depth(r)
  PROVE  CallAt(r, k).bcur \in 0..r.runtime.bcur /\ CallAt(r, k).bcur \in 0..Len(r.blocks)
<1>1. r \in CoroSet /\ r.runtime.bcur \in 0..Len(r.blocks) /\ Ordered(r)
  BY GoodFacts DEF Good, StackFits
<1>2. Depth(r) \in 1..Depth(r) /\ k <= Depth(r) /\ CallAt(r, Depth(r)) = r.runtime
  BY <1>1, CallTypes
<1>3. CallAt(r, k).bcur \in Nat /\ Len(r.blocks) \in Nat
  BY <1>1, CallTypes, FrameFields, CoroFields
<1>4. CallAt(r, k).bcur <= r.runtime.bcur
  BY <1>1, <1>2 DEF Ordered
<1> QED BY <1>1, <1>3, <1>4

(* The order of the calls' blocks is that of their numbers.                *)
LEMMA SameOrder ==
  ASSUME NEW r, NEW q, Ordered(r), Depth(q) = Depth(r),
         \A k \in 1..Depth(r) : CallAt(q, k).bcur = CallAt(r, k).bcur
  PROVE  Ordered(q)
BY DEF Ordered

(* A frame that moves with the array.                                      *)
LEMMA MovedFrame ==
  ASSUME NEW f \in FrameSet, NEW by \in Nat
  PROVE  LET g == MoveFrame(f, by)
         IN  /\ g \in FrameSet /\ g.bp = f.bp + by /\ g.rbp = f.rbp + by
             /\ g.bcur = f.bcur /\ g.dump = f.dump /\ g.native = f.native /\ g.param = f.param
<1>1. f.bp + by \in Nat /\ f.rbp + by \in Nat
  BY FrameFields
<1> QED BY <1>1 DEF MoveFrame, FrameSet

(* The call fits at its new place.                                         *)
LEMMA MovedCall ==
  ASSUME NEW f \in FrameSet, NEW by \in Nat, NEW bottom \in Nat, NEW last, NEW end \in Int, NEW P,
         P[last] \in Nat, P[f.bcur] \in Nat, CallFits(f, bottom, last, end, P)
  PROVE  CallFits(MoveFrame(f, by), bottom + by, last, end + by, P)
<1> DEFINE g == MoveFrame(f, by)
<1>1. /\ g.bp = f.bp + by /\ g.rbp = f.rbp + by /\ g.bcur = f.bcur /\ g.native = f.native
      /\ f.bp \in Nat /\ f.rbp \in Nat
  BY MovedFrame, FrameFields
<1> HIDE DEF g
<1>2. CallFits(g, bottom + by, last, end + by, P)
  BY <1>1 DEF CallFits
<1> QED BY <1>2 DEF g

(* The array moves: every pointer keeps its place in it.                   *)
LEMMA EnlargeMoves ==
  ASSUME NEW r \in CoroSet
  PROVE  LET q == Enlarge(r)  by == r.size + 1
         IN  /\ q \in CoroSet /\ Alike(q, r) /\ SameCalls(q, r)
             /\ q.bottom = r.bottom + by /\ q.size = 2 * r.size /\ by \in Nat
             /\ q.mem = r.mem /\ q.blocks = r.blocks
             /\ q.runtime = MoveFrame(r.runtime, by)
             /\ Len(q.frames) = Len(r.frames)
             /\ \A i \in 1..Len(r.frames) : q.frames[i] = MoveFrame(r.frames[i], by)
<1> DEFINE by == r.size + 1
           fs == [i \in DOMAIN r.frames |-> MoveFrame(r.frames[i], by)]
           q  == Enlarge(r)
<1>0. by \in Nat
  BY CoroFields
<1>1. /\ r.bottom + by \in Nat /\ 2 * r.size \in Nat
      /\ r.runtime \in FrameSet /\ r.frames \in Seq(FrameSet) /\ Len(r.frames) \in Nat
  BY CoroFields
<1>2. MoveFrame(r.runtime, by) \in FrameSet
  BY <1>0, <1>1, MovedFrame
<1>3. DOMAIN r.frames = 1..Len(r.frames) /\ \A i \in 1..Len(r.frames) : r.frames[i] \in FrameSet
  BY <1>1
<1>4. \A i \in 1..Len(r.frames) : MoveFrame(r.frames[i], by) \in FrameSet
  BY <1>0, <1>3, MovedFrame
<1>5. fs \in Seq(FrameSet) /\ Len(fs) = Len(r.frames)
      /\ \A i \in 1..Len(r.frames) : fs[i] = MoveFrame(r.frames[i], by)
  BY <1>1, <1>3, <1>4
<1>6. q = [r EXCEPT !.bottom = r.bottom + by, !.size = 2 * r.size, !.frames = fs,
                    !.runtime = MoveFrame(r.runtime, by)]
  BY DEF Enlarge, CoroSet
<1> HIDE DEF fs, q, by
<1>7. /\ q \in CoroSet /\ Alike(q, r)
      /\ q.bottom = r.bottom + by /\ q.size = 2 * r.size
      /\ q.mem = r.mem /\ q.blocks = r.blocks
      /\ q.runtime = MoveFrame(r.runtime, by) /\ q.frames = fs
  BY <1>1, <1>2, <1>5, <1>6 DEF CoroSet, Alike
<1>8. Depth(q) = Depth(r)
  BY <1>5, <1>7 DEF Depth
<1>9. \A k \in 1..Depth(r) : CallAt(q, k) = MoveFrame(CallAt(r, k), by)
  BY <1>1, <1>5, <1>7 DEF CallAt, Depth
<1>10. ASSUME NEW k \in 1..Depth(r)
       PROVE  CallAt(q, k).native = CallAt(r, k).native
  <2>1. CallAt(r, k) \in FrameSet
    BY CallTypes
  <2> QED BY <1>0, <1>9, <2>1, MovedFrame
<1>11. Natives(q) = Natives(r)
  BY <1>8, <1>10 DEF Natives
<1> QED BY <1>0, <1>5, <1>7, <1>8, <1>11 DEF q, by, SameCalls

(* A value is pushed, and the array moves when it is full.                 *)
LEMMA PushGood ==
  ASSUME NEW r, Good(r), NEW v \in Values
  PROVE  LET q == Push(r, v)
         IN  /\ Good(q) /\ Alike(q, r) /\ SameCalls(q, r)
             /\ Avail(q) = Avail(r) + 1
             /\ Last(q.mem) = v /\ q.blocks = r.blocks
             /\ q.runtime.param = r.runtime.param
<1> DEFINE s == [r EXCEPT !.mem = Append(r.mem, v)]
           q == Push(r, v)
<1>1. r \in CoroSet
  BY DEF Good
<1>2. /\ r.mem \in Seq(Values) /\ Len(r.mem) \in Nat /\ r.bottom \in Nat /\ r.size \in Nat
      /\ r.runtime \in FrameSet /\ r.frames \in Seq(FrameSet) /\ Len(r.frames) \in Nat
      /\ Len(r.blocks) \in Nat
  BY <1>1, CoroFields
<1>3. PICK P : StackFits(r, P)
  BY DEF Good
<1>4. /\ Append(r.mem, v) \in Seq(Values) /\ Len(Append(r.mem, v)) = Len(r.mem) + 1
      /\ Last(Append(r.mem, v)) = v
  BY <1>2 DEF Last
<1>5. /\ s \in CoroSet /\ s.mem = Append(r.mem, v) /\ Alike(s, r)
      /\ s.bottom = r.bottom /\ s.size = r.size /\ s.blocks = r.blocks
      /\ s.runtime = r.runtime /\ s.frames = r.frames
  BY <1>1, <1>4 DEF CoroSet, Alike
<1>6. Len(s.mem) = Len(r.mem) + 1 /\ Sp(s) = Sp(r) + 1 /\ Len(r.mem) < r.size
  BY <1>2, <1>3, <1>4, <1>5 DEF Sp, StackFits
<1>7. SameCalls(s, r)
  BY <1>5 DEF SameCalls, Depth, Natives, CallAt
<1>8. q = IF Len(s.mem) < s.size THEN s ELSE Enlarge(s)
  BY DEF Push
<1>9. Sp(r) \in Nat /\ r.runtime.bp \in Nat /\ r.runtime.rbp \in Nat /\ Avail(r) = Sp(r) - r.runtime.bp
  BY GoodFacts
<1> HIDE DEF s, q
<1>10. \A k : CallAt(s, k) = CallAt(r, k)
  BY <1>5 DEF CallAt
<1>11. /\ IsOffsets(P, s.blocks)
       /\ CallFits(s.runtime, s.bottom, Len(s.blocks), Sp(s), P)
       /\ Ordered(s)
       /\ CallersFit(s, P)
  <2>1. IsOffsets(P, s.blocks)
    BY <1>3, <1>5 DEF StackFits
  <2>2. CallFits(s.runtime, s.bottom, Len(s.blocks), Sp(s), P)
    BY <1>3, <1>5, <1>6, <1>9 DEF StackFits, CallFits
  <2>3. CallersFit(s, P)
    <3>1. CallersFit(r, P) /\ s.frames = r.frames /\ s.bottom = r.bottom
      BY <1>3, <1>5 DEF StackFits
    <3> QED BY <1>10, <3>1 DEF CallersFit
  <2>4. Ordered(s)
    <3>1. Ordered(r)
      BY <1>3 DEF StackFits
    <3> QED BY <1>7, <1>10, <3>1, SameOrder DEF SameCalls
  <2> QED BY <2>1, <2>2, <2>3, <2>4
<1>12. CASE Len(s.mem) < s.size
  <2>1. StackFits(s, P)
    BY <1>11, <1>12 DEF StackFits
  <2>2. Good(s)
    BY <1>5, <2>1 DEF Good
  <2>3. Avail(s) = Avail(r) + 1
    <3>1. Avail(s) = Sp(s) - r.runtime.bp
      BY <1>5 DEF Avail
    <3> QED BY <1>6, <1>9, <3>1
  <2> QED BY <1>4, <1>5, <1>7, <1>8, <1>12, <2>2, <2>3 DEF q
<1>13. CASE ~ (Len(s.mem) < s.size)
  <2> DEFINE by == s.size + 1
  <2>1. q = Enlarge(s)
    BY <1>8, <1>13
  <2>2. /\ q \in CoroSet /\ Alike(q, s) /\ SameCalls(q, s)
        /\ q.mem = s.mem /\ q.blocks = s.blocks
        /\ Len(q.frames) = Len(s.frames)
        /\ \A i \in 1..Len(s.frames) : q.frames[i] = MoveFrame(s.frames[i], by)
    BY <1>5, <2>1, EnlargeMoves
  <2>a. by \in Nat
    BY <1>2, <1>5
  <2>b. q.bottom = s.bottom + by
    BY <1>5, <2>1, EnlargeMoves
  <2>c. q.size = 2 * s.size
    BY <1>5, <2>1, EnlargeMoves
  <2>d. q.runtime = MoveFrame(s.runtime, by)
    BY <1>5, <2>1, EnlargeMoves
  <2>e. s.runtime = r.runtime /\ r.runtime \in FrameSet
    BY <1>2, <1>5
  <2>f. s.bottom = r.bottom /\ r.bottom \in Nat
    BY <1>2, <1>5
  <2>g. q.mem = s.mem /\ Len(s.mem) = Len(r.mem) + 1 /\ Len(r.mem) \in Nat
    BY <1>2, <1>6, <2>2
  <2>h. q.blocks = s.blocks /\ Len(s.blocks) \in Nat
    BY <1>2, <1>5, <2>2
  <2> HIDE DEF by
  <2>3. Sp(q) = Sp(s) + by /\ Sp(s) \in Nat
    BY <2>a, <2>b, <2>f, <2>g DEF Sp
  <2>4. Len(q.mem) < q.size
    BY <1>2, <1>5, <1>6, <1>13, <2>2, <2>c
  <2>5. CallFits(q.runtime, q.bottom, Len(q.blocks), Sp(q), P)
    <3>2. P[Len(s.blocks)] \in Nat /\ P[s.runtime.bcur] \in Nat
      <4>1. s.runtime.bcur \in 0..Len(s.blocks)
        BY <1>5, GoodFacts
      <4> QED BY <1>11, <2>h, <4>1 DEF IsOffsets
    <3>3. CallFits(s.runtime, s.bottom, Len(s.blocks), Sp(s), P)
      BY <1>11
    <3>4. CallFits(MoveFrame(s.runtime, by), s.bottom + by, Len(s.blocks), Sp(s) + by, P)
      BY <2>a, <2>e, <2>f, <2>3, <3>2, <3>3, MovedCall
    <3> QED BY <2>b, <2>d, <2>h, <2>3, <3>4
  <2>6. ASSUME NEW i \in 1..Len(q.frames)
        PROVE  LET g == CallAt(q, i + 1)
               IN  CallFits(q.frames[i], q.bottom, g.bcur, g.rbp - g.dump, P)
    <3> DEFINE f == s.frames[i]  g == CallAt(s, i + 1)
    <3>1. i \in 1..Len(s.frames) /\ i + 1 \in 1..Depth(s) /\ f = CallAt(s, i) /\ i \in 1..Depth(s)
      BY <1>2, <1>5, <2>2 DEF Depth, CallAt
    <3>2. f \in FrameSet /\ g \in FrameSet
      BY <1>5, <3>1, CallTypes
    <3>a. q.frames[i] = MoveFrame(f, by)
      BY <2>2, <3>1
    <3>3. CallAt(q, i + 1) = MoveFrame(g, by)
      BY <2>2, <2>d, <3>1 DEF CallAt, Depth
    <3> HIDE DEF f, g
    <3>4. CallFits(f, s.bottom, g.bcur, g.rbp - g.dump, P)
      BY <1>11, <3>1 DEF f, g, CallersFit
    <3>5. /\ f.bp \in Nat /\ f.rbp \in Nat /\ f.bcur \in Nat
          /\ g.rbp \in Nat /\ g.dump \in 0..2 /\ g.bcur \in Nat
      BY <3>2, FrameFields
    <3>6. P[g.bcur] \in Nat /\ P[f.bcur] \in Nat
      <4>1. g.bcur \in 0..Len(s.blocks) /\ f.bcur \in 0..Len(s.blocks)
        BY <1>5, <1>7, <1>10, <3>1, BlockBounds DEF f, g, SameCalls
      <4> QED BY <1>11, <4>1 DEF IsOffsets
    <3>7. LET h == MoveFrame(g, by)
          IN  h.bcur = g.bcur /\ h.rbp = g.rbp + by /\ h.dump = g.dump
      BY <2>a, <3>2, MovedFrame
    <3>8. CallFits(MoveFrame(f, by), s.bottom + by, g.bcur, (g.rbp - g.dump) + by, P)
      <4>1. g.rbp - g.dump \in Int /\ s.bottom \in Nat
        BY <3>5, <2>f
      <4> QED BY <2>a, <3>2, <3>4, <3>6, <4>1, MovedCall
    <3>9. (g.rbp - g.dump) + by = (g.rbp + by) - g.dump
      BY <2>a, <3>5
    <3> QED BY <2>b, <2>h, <3>a, <3>3, <3>4, <3>7, <3>8, <3>9
  <2>i. Ordered(q)
    <3>1. ASSUME NEW k \in 1..Depth(s)
          PROVE  CallAt(q, k).bcur = CallAt(s, k).bcur
      <4>1. CallAt(q, k) = MoveFrame(CallAt(s, k), by)
        BY <2>2, <2>d DEF CallAt, Depth
      <4>2. CallAt(s, k) \in FrameSet
        BY <1>5, CallTypes
      <4> QED BY <2>a, <4>1, <4>2, MovedFrame
    <3>2. Depth(q) = Depth(s)
      BY <2>2 DEF SameCalls
    <3> QED BY <1>11, <3>1, <3>2, SameOrder
  <2>j. CallersFit(q, P)
    BY <2>6 DEF CallersFit
  <2>7. StackFits(q, P)
    BY <1>11, <2>2, <2>4, <2>5, <2>i, <2>j DEF StackFits
  <2>8. Good(q)
    BY <2>2, <2>7 DEF Good
  <2>9. q.runtime.bp = r.runtime.bp + by
    BY <2>a, <2>d, <2>e, MovedFrame
  <2>10. Avail(q) = Avail(r) + 1
    BY <1>6, <1>9, <2>a, <2>3, <2>9 DEF Avail
  <2>12. q.runtime.param = r.runtime.param
    BY <2>a, <2>d, <2>e, MovedFrame
  <2>11. Alike(q, r) /\ SameCalls(q, r)
    BY <1>5, <1>7, <2>2 DEF Alike, SameCalls
  <2> QED BY <1>4, <1>5, <2>2, <2>8, <2>10, <2>11, <2>12 DEF q
<1> QED BY <1>12, <1>13

(* Another set of values, flags or arguments: only the end of the stack    *)
(* counts, and it may not fall below the bp of the call that runs.         *)
LEMMA SameFrames ==
  ASSUME NEW r, Good(r), NEW q \in CoroSet,
         q.bottom = r.bottom, q.size = r.size, q.frames = r.frames, q.blocks = r.blocks,
         Len(q.mem) < q.size, r.runtime.bp <= r.bottom + Len(q.mem),
         /\ q.runtime.bp = r.runtime.bp /\ q.runtime.rbp = r.runtime.rbp
         /\ q.runtime.bcur = r.runtime.bcur /\ q.runtime.dump = r.runtime.dump
         /\ q.runtime.native = r.runtime.native
  PROVE  Good(q) /\ SameCalls(q, r)
<1>1. r \in CoroSet
  BY DEF Good
<1>2. PICK P : StackFits(r, P)
  BY DEF Good
<1>3. Len(r.frames) \in Nat /\ r.bottom \in Nat /\ Len(q.mem) \in Nat
  BY <1>1, CoroFields
<1>4. CallFits(q.runtime, q.bottom, Len(q.blocks), Sp(q), P)
  <2>1. CallFits(r.runtime, r.bottom, Len(r.blocks), Sp(r), P)
    BY <1>2 DEF StackFits
  <2>2. q.runtime.bp <= Sp(q)
    BY DEF Sp
  <2>3. Len(q.blocks) = Len(r.blocks)
    OBVIOUS
  <2> QED BY <2>1, <2>2, <2>3 DEF CallFits
<1>5. ASSUME NEW i \in 1..Len(q.frames)
      PROVE  LET g == CallAt(q, i + 1)
             IN  CallFits(q.frames[i], q.bottom, g.bcur, g.rbp - g.dump, P)
  <2>1. /\ CallAt(q, i + 1).bcur = CallAt(r, i + 1).bcur
        /\ CallAt(q, i + 1).rbp = CallAt(r, i + 1).rbp
        /\ CallAt(q, i + 1).dump = CallAt(r, i + 1).dump
    BY DEF CallAt
  <2>2. q.frames[i] = r.frames[i] /\ i \in 1..Len(r.frames) /\ q.bottom = r.bottom /\ q.blocks = r.blocks
    OBVIOUS
  <2>3. LET g == CallAt(r, i + 1)
        IN  CallFits(r.frames[i], r.bottom, g.bcur, g.rbp - g.dump, P)
    BY <1>2, <2>2 DEF StackFits, CallersFit
  <2> QED BY <2>1, <2>2, <2>3
<1>6. IsOffsets(P, q.blocks)
  BY <1>2 DEF StackFits
<1>8. \A k : CallAt(q, k).native = CallAt(r, k).native /\ CallAt(q, k).bcur = CallAt(r, k).bcur
  BY DEF CallAt
<1>a. Ordered(q)
  <2>1. Ordered(r) /\ Depth(q) = Depth(r)
    BY <1>2 DEF StackFits, Depth
  <2> QED BY <1>8, <2>1, SameOrder
<1>b. CallersFit(q, P)
  BY <1>5 DEF CallersFit
<1>7. StackFits(q, P)
  BY <1>4, <1>a, <1>b, <1>6 DEF StackFits
<1>9. SameCalls(q, r)
  BY <1>8 DEF SameCalls, Depth, Natives
<1> QED BY <1>7, <1>9 DEF Good

(* n values of the block are dropped.                                      *)
LEMMA DropGood ==
  ASSUME NEW r, Good(r), NEW n \in 0..Avail(r)
  PROVE  LET q == Drop(r, n)
         IN  /\ Good(q) /\ Alike(q, r) /\ SameCalls(q, r)
             /\ Avail(q) = Avail(r) - n
             /\ q.blocks = r.blocks /\ q.runtime = r.runtime
<1> DEFINE m == Cut(r.mem, Len(r.mem) - n)
           q == Drop(r, n)
<1>1. r \in CoroSet
  BY DEF Good
<1>2. Avail(r) \in 0..Len(r.mem) /\ Avail(r) = Sp(r) - r.runtime.bp /\ Sp(r) = r.bottom + Len(r.mem)
  BY GoodFacts
<1>3. Len(r.mem) \in Nat /\ r.mem \in Seq(Values)
  BY <1>1, CoroFields
<1>4. r.bottom \in Nat /\ r.runtime.bp \in Nat
  BY <1>1, CoroFields, GoodFacts
<1>5. Len(r.mem) - n \in 0..Len(r.mem)
  BY <1>2, <1>3
<1>6. m \in Seq(Values) /\ Len(m) = Len(r.mem) - n
  BY <1>3, <1>5, CutBelow
<1>7. q = [r EXCEPT !.mem = m]
  BY DEF Drop
<1> HIDE DEF q, m
<1>8. q \in CoroSet
  BY <1>1, <1>6, <1>7 DEF CoroSet
<1>9. /\ q.mem = m /\ q.bottom = r.bottom /\ q.size = r.size
      /\ q.blocks = r.blocks /\ q.runtime = r.runtime /\ q.frames = r.frames
  BY <1>1, <1>7 DEF CoroSet
<1>10. Alike(q, r)
  BY <1>1, <1>7 DEF CoroSet, Alike
<1>11. Len(q.mem) < q.size
  <2>1. Len(r.mem) < r.size /\ r.size \in Nat
    BY <1>1, CoroFields DEF Good, StackFits
  <2> QED BY <1>3, <1>6, <1>9, <2>1
<1>12. r.runtime.bp <= r.bottom + Len(q.mem)
  BY <1>2, <1>3, <1>4, <1>6, <1>9
<1>13. Good(q) /\ SameCalls(q, r)
  BY <1>8, <1>9, <1>11, <1>12, SameFrames
<1>14. Sp(q) = r.bottom + (Len(r.mem) - n)
  BY <1>6, <1>9 DEF Sp
<1>15. Avail(q) = Avail(r) - n
  <2>1. Avail(q) = Sp(q) - r.runtime.bp
    BY <1>9 DEF Avail
  <2> QED BY <1>2, <1>3, <1>4, <1>14, <2>1
<1> QED BY <1>9, <1>10, <1>13, <1>15 DEF q

(* The value on top is one.                                                *)
LEMMA TopIsValue ==
  ASSUME NEW r, Good(r), Avail(r) >= 1
  PROVE  TopOf(r) \in Values
<1>1. r.mem \in Seq(Values) /\ Len(r.mem) \in Nat /\ Avail(r) \in 0..Len(r.mem)
  BY GoodFacts, CoroFields
<1>2. Len(r.mem) \in 1..Len(r.mem)
  BY <1>1
<1>3. r.mem[Len(r.mem)] \in Values
  BY <1>1, <1>2
<1> QED BY <1>3 DEF TopOf, Last

ArgLists == Seq(Values)

(* So are the n values on top.                                             *)
LEMMA TakenAreValues ==
  ASSUME NEW r, Good(r), NEW n \in 0..Avail(r)
  PROVE  Taken(r, n) \in ArgLists
<1>1. r.mem \in Seq(Values) /\ Len(r.mem) \in Nat /\ Avail(r) \in 0..Len(r.mem)
  BY GoodFacts, CoroFields
<1>2. \A i \in Len(r.mem) - n + 1 .. Len(r.mem) : r.mem[i] \in Values
  BY <1>1
<1>3. Len(r.mem) - n + 1 \in Int /\ Len(r.mem) \in Int
  BY <1>1
<1> QED BY <1>2, <1>3, SubSeqProperties DEF Taken, ArgLists

(***************************************************************************)
(* Blocks.                                                                 *)
(***************************************************************************)

(* Blocks of the call that runs do not concern its callers.                *)
LEMMA SameCallers ==
  ASSUME NEW r, Good(r), NEW P, StackFits(r, P), NEW q, NEW Q,
         q.bottom = r.bottom, q.frames = r.frames,
         /\ q.runtime.rbp = r.runtime.rbp /\ q.runtime.bcur = r.runtime.bcur
         /\ q.runtime.dump = r.runtime.dump /\ q.runtime.native = r.runtime.native,
         \A k \in 0..r.runtime.bcur : Q[k] = P[k]
  PROVE  CallersFit(q, Q) /\ Ordered(q) /\ SameCalls(q, r)
<1>1. /\ CallersFit(r, P) /\ Ordered(r) /\ Depth(q) = Depth(r) /\ Len(r.frames) \in Nat
      /\ r \in CoroSet
  BY CoroFields DEF Good, StackFits, Depth
<1>2. \A k : /\ CallAt(q, k).native = CallAt(r, k).native /\ CallAt(q, k).bcur = CallAt(r, k).bcur
             /\ CallAt(q, k).rbp = CallAt(r, k).rbp /\ CallAt(q, k).dump = CallAt(r, k).dump
  BY DEF CallAt
<1>3. Ordered(q)
  BY <1>1, <1>2, SameOrder
<1>4. SameCalls(q, r)
  BY <1>1, <1>2 DEF SameCalls, Natives
<1>5. ASSUME NEW i \in 1..Len(q.frames)
      PROVE  LET g == CallAt(q, i + 1)
             IN  CallFits(q.frames[i], q.bottom, g.bcur, g.rbp - g.dump, Q)
  <2> DEFINE f == r.frames[i]  g == CallAt(r, i + 1)
  <2>1. f = CallAt(r, i) /\ i \in 1..Depth(r) /\ i + 1 \in 1..Depth(r) /\ i \in 1..Len(r.frames)
    BY <1>1 DEF CallAt, Depth
  <2>2. CallFits(f, r.bottom, g.bcur, g.rbp - g.dump, P)
    BY <1>1, <2>1 DEF CallersFit
  <2>3. f.bcur \in 0..r.runtime.bcur /\ g.bcur \in 0..r.runtime.bcur
    BY <2>1, BlockBounds
  <2>4. Q[f.bcur] = P[f.bcur] /\ Q[g.bcur] = P[g.bcur]
    BY <2>3
  <2>5. CallFits(f, r.bottom, g.bcur, g.rbp - g.dump, Q)
    BY <2>2, <2>4 DEF CallFits
  <2> QED BY <1>2, <2>5
<1>6. CallersFit(q, Q)
  BY <1>5 DEF CallersFit
<1> QED BY <1>3, <1>4, <1>6

(* A block begins below the top k values of the call.                      *)
BeginBlock(r, k) == [r EXCEPT !.blocks = Append(@, [sp |-> k, catch |-> FALSE]), !.runtime.bp = @ + k]

(* The call stack is good as before.                                        *)
LEMMA BeginBlockGood ==
  ASSUME NEW r, Good(r), NEW k \in 0..Avail(r), ~ r.runtime.native
  PROVE  LET q == BeginBlock(r, k)
         IN  Good(q) /\ Alike(q, r) /\ SameCalls(q, r)
<1> DEFINE b  == [sp |-> k, catch |-> FALSE]
           bs == Append(r.blocks, b)
           f  == [r.runtime EXCEPT !.bp = r.runtime.bp + k]
           q  == BeginBlock(r, k)
<1>1. r \in CoroSet
  BY DEF Good
<1>2. PICK P : StackFits(r, P)
  BY DEF Good
<1>3. r.blocks \in Seq(BlockSet) /\ Len(r.blocks) \in Nat /\ r.runtime \in FrameSet
  BY <1>1, CoroFields
<1>4. /\ r.runtime.bp \in Nat /\ r.runtime.bcur \in 0..Len(r.blocks)
      /\ r.runtime.rbp \in Nat /\ r.bottom <= r.runtime.rbp
  BY GoodFacts
<1>5. Sp(r) \in Nat /\ Avail(r) = Sp(r) - r.runtime.bp /\ k \in Nat /\ r.runtime.bp + k <= Sp(r)
  BY <1>4, GoodFacts
<1>6. b \in BlockSet /\ b.sp = k
  BY <1>5 DEF BlockSet
<1>7. /\ bs \in Seq(BlockSet) /\ Len(bs) = Len(r.blocks) + 1 /\ bs[Len(r.blocks) + 1] = b
      /\ \A i \in 1..Len(r.blocks) : bs[i] = r.blocks[i]
  BY <1>3, <1>6
<1>8. /\ f \in FrameSet /\ f.bp = r.runtime.bp + k /\ f.rbp = r.runtime.rbp
      /\ f.bcur = r.runtime.bcur /\ f.dump = r.runtime.dump /\ f.native = r.runtime.native
  <2>1. r.runtime.bp + k \in Nat /\ r.runtime \in FrameSet
    BY <1>3, <1>4, <1>5
  <2> QED BY <2>1 DEF FrameSet
<1>9. q = [r EXCEPT !.blocks = bs, !.runtime = f]
  BY <1>1 DEF BeginBlock, CoroSet
<1> HIDE DEF q, bs, f, b
<1>10. q \in CoroSet /\ Alike(q, r)
  BY <1>1, <1>7, <1>8, <1>9 DEF CoroSet, Alike
<1>11. /\ q.mem = r.mem /\ q.bottom = r.bottom /\ q.size = r.size
       /\ q.blocks = bs /\ q.runtime = f /\ q.frames = r.frames
  BY <1>1, <1>9 DEF CoroSet
<1> DEFINE n == Len(r.blocks)
           Q == [j \in 0..n + 1 |-> IF j <= n THEN P[j] ELSE P[n] + k]
<1>12. IsOffsets(P, r.blocks)
  BY <1>2 DEF StackFits
<1>13. /\ Q \in [0..Len(bs) -> Nat] /\ Q[n + 1] = P[n] + k /\ P[n] \in Nat
       /\ \A j \in 0..n : Q[j] = P[j] /\ P[j] \in Nat /\ P[j] <= P[n]
  <2>1. n \in Nat /\ k \in Nat /\ Len(bs) = n + 1
    BY <1>3, <1>5, <1>7
  <2>2. \A j \in 0..n : P[j] \in Nat /\ P[j] <= P[n]
    <3>1. n \in 0..n /\ \A j \in 0..n : j <= n
      BY <2>1
    <3> QED BY <1>12, <3>1 DEF IsOffsets
  <2>3. P[n] \in Nat /\ P[n] + k \in Nat
    BY <2>1, <2>2
  <2>4. \A j \in 0..n + 1 : (IF j <= n THEN P[j] ELSE P[n] + k) \in Nat
    BY <2>1, <2>2, <2>3
  <2>5. Q \in [0..n + 1 -> Nat]
    BY <2>4
  <2>6. Q[n + 1] = P[n] + k /\ \A j \in 0..n : Q[j] = P[j]
    BY <2>1
  <2> QED BY <2>1, <2>2, <2>3, <2>5, <2>6
<1> HIDE DEF Q
<1>14. IsOffsets(Q, bs)
  <2>1. Q[0] = 0
    BY <1>3, <1>12, <1>13 DEF IsOffsets
  <2>2. \A i \in 1..Len(bs) : Q[i] = Q[i - 1] + bs[i].sp
    <3>1. ASSUME NEW i \in 1..n PROVE Q[i] = Q[i - 1] + bs[i].sp
      <4>1. i \in 0..n /\ i - 1 \in 0..n /\ P[i] = P[i - 1] + r.blocks[i].sp
        BY <1>3, <1>12 DEF IsOffsets
      <4> QED BY <1>7, <1>13, <4>1
    <3>2. Q[n + 1] = Q[(n + 1) - 1] + bs[n + 1].sp
      BY <1>3, <1>6, <1>7, <1>13
    <3> QED BY <1>3, <1>7, <3>1, <3>2
  <2>3. \A i, j \in 0..Len(bs) : i <= j => Q[i] <= Q[j]
    <3> SUFFICES ASSUME NEW i \in 0..n + 1, NEW j \in 0..n + 1, i <= j
                 PROVE  Q[i] <= Q[j]
      BY <1>7
    <3>1. CASE j <= n
      <4>1. i \in 0..n /\ j \in 0..n
        BY <1>3, <3>1
      <4> QED BY <1>12, <1>13, <4>1 DEF IsOffsets
    <3>2. CASE j = n + 1 /\ i = n + 1
      BY <1>3, <1>5, <1>13, <3>2
    <3>3. CASE j = n + 1 /\ i <= n
      <4>1. i \in 0..n
        BY <1>3, <3>3
      <4> QED BY <1>5, <1>13, <3>3, <4>1
    <3> QED BY <1>3, <3>1, <3>2, <3>3
  <2> QED BY <1>13, <2>1, <2>2, <2>3 DEF IsOffsets
<1>15. CallFits(q.runtime, q.bottom, Len(q.blocks), Sp(q), Q)
  <2>1. CallFits(r.runtime, r.bottom, n, Sp(r), P)
    BY <1>2 DEF StackFits
  <2>2. Sp(q) = Sp(r)
    BY <1>11 DEF Sp
  <2>3. P[n] \in Nat /\ P[r.runtime.bcur] \in Nat /\ Q[r.runtime.bcur] = P[r.runtime.bcur]
    BY <1>3, <1>4, <1>13
  <2>4. Q[Len(bs)] = P[n] + k
    BY <1>7, <1>13
  <2>5. CallFits(f, r.bottom, Len(bs), Sp(r), Q)
    <3>1. r.bottom <= f.rbp /\ f.bcur <= Len(bs)
      BY <1>3, <1>4, <1>7, <1>8
    <3>2. r.runtime.bp = r.runtime.rbp + P[n] - P[r.runtime.bcur]
      BY <2>1 DEF CallFits
    <3>3. f.bp = f.rbp + Q[Len(bs)] - Q[f.bcur]
      <4>1. f.bp = (r.runtime.rbp + P[n] - P[r.runtime.bcur]) + k
        BY <1>8, <3>2
      <4>2. Q[Len(bs)] = P[n] + k /\ Q[f.bcur] = P[r.runtime.bcur] /\ f.rbp = r.runtime.rbp
        BY <1>8, <2>3, <2>4
      <4>3. r.runtime.rbp \in Nat /\ P[n] \in Nat /\ P[r.runtime.bcur] \in Nat /\ k \in Nat
        BY <1>4, <1>5, <2>3
      <4> QED BY <4>1, <4>2, <4>3
    <3>4. f.bp <= Sp(r) /\ ~ f.native
      BY <1>5, <1>8
    <3> QED BY <3>1, <3>3, <3>4 DEF CallFits
  <2> QED BY <1>11, <2>2, <2>5
<1>16. CallersFit(q, Q) /\ Ordered(q) /\ SameCalls(q, r)
  <2>1. \A j \in 0..r.runtime.bcur : Q[j] = P[j]
    <3>1. \A j \in 0..r.runtime.bcur : j \in 0..n
      BY <1>3, <1>4
    <3> QED BY <1>13, <3>1
  <2> QED BY <1>2, <1>8, <1>11, <2>1, SameCallers
<1>17. Len(q.mem) < q.size
  BY <1>2, <1>11 DEF StackFits
<1>18. StackFits(q, Q)
  BY <1>11, <1>14, <1>15, <1>16, <1>17 DEF StackFits
<1> QED BY <1>10, <1>16, <1>18 DEF Good, q

(* A block ends and its values go.                                         *)
LEMMA LeaveBlockGood ==
  ASSUME NEW r, Good(r)
  PROVE  LET q == LeaveBlock(r)
         IN  Good(q) /\ Alike(q, r) /\ SameCalls(q, r)
<1>1. CASE ~ BlockOpen(r)
  <2>1. LeaveBlock(r) = r
    BY <1>1 DEF LeaveBlock
  <2> QED BY <2>1 DEF Alike, SameCalls
<1>2. CASE BlockOpen(r)
  <2> DEFINE n  == Len(r.blocks)
             m  == Cut(r.mem, r.runtime.bp - r.bottom)
             f  == [r.runtime EXCEPT !.bp = r.runtime.bp - Last(r.blocks).sp]
             bs == Front(r.blocks)
             q  == LeaveBlock(r)
  <2>1. r \in CoroSet
    BY DEF Good
  <2>2. PICK P : StackFits(r, P)
    BY DEF Good
  <2>3. /\ r.bottom \in Nat /\ r.mem \in Seq(Values) /\ Len(r.mem) \in Nat
        /\ r.runtime \in FrameSet /\ r.blocks \in Seq(BlockSet) /\ n \in Nat
    BY <2>1, CoroFields
  <2>4. /\ r.runtime.bp \in Nat /\ r.runtime.rbp \in Nat /\ r.bottom <= r.runtime.rbp
        /\ r.runtime.rbp <= r.runtime.bp /\ r.runtime.bp <= r.bottom + Len(r.mem)
        /\ ~ r.runtime.native
    BY <1>2, GoodFacts
  <2>5. r.runtime.bcur \in 0..n /\ r.runtime.bcur < n
    BY <1>2, GoodFacts
  <2>6. n \in 1..n /\ n - 1 \in 0..n /\ r.blocks # <<>>
    BY <2>3, <2>5
  <2>7. /\ Last(r.blocks) = r.blocks[n] /\ r.blocks[n] \in BlockSet
        /\ bs \in Seq(BlockSet) /\ Len(bs) = n - 1
        /\ \A i \in 1..n - 1 : bs[i] = r.blocks[i]
    BY <2>3, <2>6, LastFront
  <2>8. IsOffsets(P, r.blocks) /\ CallFits(r.runtime, r.bottom, n, Sp(r), P)
    BY <2>2 DEF StackFits
  <2>9. /\ P[n] = P[n - 1] + Last(r.blocks).sp
        /\ P[n - 1] \in Nat /\ P[r.runtime.bcur] \in Nat /\ Last(r.blocks).sp \in Nat
        /\ P[r.runtime.bcur] <= P[n - 1]
    <3>1. r.runtime.bcur <= n - 1
      BY <2>3, <2>5
    <3>2. P[n - 1] \in Nat /\ P[r.runtime.bcur] \in Nat
      BY <2>5, <2>6, <2>8 DEF IsOffsets
    <3>3. P[r.runtime.bcur] <= P[n - 1]
      BY <2>5, <2>6, <2>8, <3>1 DEF IsOffsets
    <3>4. P[n] = P[n - 1] + r.blocks[n].sp
      BY <2>6, <2>8 DEF IsOffsets
    <3>5. r.blocks[n].sp \in Nat
      BY <2>7 DEF BlockSet
    <3> QED BY <2>7, <3>2, <3>3, <3>4, <3>5
  <2>10. r.runtime.bp = r.runtime.rbp + P[n] - P[r.runtime.bcur]
    BY <2>8 DEF CallFits
  <2>11. /\ r.runtime.bp - Last(r.blocks).sp = r.runtime.rbp + P[n - 1] - P[r.runtime.bcur]
         /\ r.runtime.bp - Last(r.blocks).sp \in Nat
         /\ r.runtime.bp - Last(r.blocks).sp <= r.runtime.bp
    <3>1. r.runtime.rbp \in Nat
      BY <2>4
    <3> DEFINE a == P[n - 1]  c == P[r.runtime.bcur]  d == Last(r.blocks).sp
    <3>2. a \in Nat /\ c \in Nat /\ d \in Nat /\ c <= a /\ P[n] = a + d
      BY <2>9
    <3> HIDE DEF a, c, d
    <3>3. r.runtime.bp = r.runtime.rbp + (a + d) - c
      BY <2>10, <3>2 DEF c
    <3>4. r.runtime.bp - d = r.runtime.rbp + a - c /\ r.runtime.bp - d \in Nat /\ r.runtime.bp - d <= r.runtime.bp
      BY <3>1, <3>2, <3>3
    <3> QED BY <3>4 DEF a, c, d
  <2>12. /\ f \in FrameSet /\ f.bp = r.runtime.bp - Last(r.blocks).sp /\ f.rbp = r.runtime.rbp
         /\ f.bcur = r.runtime.bcur /\ f.dump = r.runtime.dump /\ f.native = r.runtime.native
    BY <2>3, <2>11 DEF FrameSet
  <2>13. m \in Seq(Values) /\ Len(m) = r.runtime.bp - r.bottom
    <3>1. r.runtime.bp - r.bottom \in 0..Len(r.mem)
      BY <2>3, <2>4
    <3> QED BY <2>3, <3>1, CutBelow
  <2>14. q = [r EXCEPT !.mem = m, !.runtime = f, !.blocks = bs]
    BY <1>2, <2>1 DEF LeaveBlock, CoroSet
  <2> HIDE DEF q, m, f, bs
  <2>15. q \in CoroSet /\ Alike(q, r)
    BY <2>1, <2>7, <2>12, <2>13, <2>14 DEF CoroSet, Alike
  <2>16. /\ q.mem = m /\ q.bottom = r.bottom /\ q.size = r.size
         /\ q.blocks = bs /\ q.runtime = f /\ q.frames = r.frames
    BY <2>1, <2>14 DEF CoroSet
  <2> DEFINE Q == [j \in 0..n - 1 |-> P[j]]
  <2>17. /\ Q \in [0..n - 1 -> Nat] /\ \A j \in 0..n - 1 : Q[j] = P[j] /\ j \in 0..n
    <3>1. \A j \in 0..n - 1 : j \in 0..n
      BY <2>3
    <3> QED BY <2>8, <3>1 DEF IsOffsets
  <2> HIDE DEF Q
  <2>18. IsOffsets(Q, bs)
    <3>1. Q[0] = 0
      BY <2>3, <2>6, <2>8, <2>17 DEF IsOffsets
    <3>2. ASSUME NEW i \in 1..n - 1
          PROVE  Q[i] = Q[i - 1] + bs[i].sp
      <4>1. i \in 0..n - 1 /\ i - 1 \in 0..n - 1 /\ i \in 1..n
        BY <2>3
      <4>2. P[i] = P[i - 1] + r.blocks[i].sp
        BY <2>8, <4>1 DEF IsOffsets
      <4> QED BY <2>7, <2>17, <4>1, <4>2
    <3>3. ASSUME NEW i \in 0..n - 1, NEW j \in 0..n - 1, i <= j
          PROVE  Q[i] <= Q[j]
      BY <2>8, <2>17, <3>3 DEF IsOffsets
    <3> QED BY <2>7, <2>17, <3>1, <3>2, <3>3 DEF IsOffsets
  <2>19. Sp(q) = r.runtime.bp
    BY <2>3, <2>4, <2>13, <2>16 DEF Sp
  <2>20. CallFits(f, r.bottom, n - 1, r.runtime.bp, Q)
    <3>1. r.bottom <= f.rbp /\ f.bcur <= n - 1
      BY <2>3, <2>4, <2>5, <2>12
    <3>2. f.bcur \in 0..n - 1 /\ n - 1 \in 0..n - 1
      BY <2>3, <2>5, <2>12
    <3>3. Q[f.bcur] = P[r.runtime.bcur] /\ Q[n - 1] = P[n - 1]
      <4>1. f.bcur = r.runtime.bcur
        BY <2>12
      <4>2. \A j \in 0..n - 1 : Q[j] = P[j]
        BY <2>17
      <4>3. Q[f.bcur] = P[f.bcur] /\ Q[n - 1] = P[n - 1]
        BY <3>2, <4>2
      <4> QED BY <4>1, <4>3
    <3>4. f.bp = f.rbp + Q[n - 1] - Q[f.bcur]
      BY <2>11, <2>12, <3>3
    <3>5. f.bp <= r.runtime.bp /\ ~ f.native
      BY <2>4, <2>11, <2>12
    <3> QED BY <3>1, <3>4, <3>5 DEF CallFits
  <2>21. CallersFit(q, Q) /\ Ordered(q) /\ SameCalls(q, r)
    <3>1. \A j \in 0..r.runtime.bcur : j \in 0..n - 1
      BY <2>3, <2>5
    <3>2. \A j \in 0..r.runtime.bcur : Q[j] = P[j]
      BY <2>17, <3>1
    <3> QED BY <2>2, <2>12, <2>16, <3>2, SameCallers
  <2>22. Len(q.mem) < q.size
    <3>1. Len(r.mem) < r.size /\ r.size \in Nat
      BY <2>1, <2>2, CoroFields DEF StackFits
    <3>2. Len(m) <= Len(r.mem) /\ Len(m) \in Nat /\ Len(r.mem) \in Nat
      BY <2>3, <2>4, <2>13
    <3>3. Len(m) < r.size
      BY <3>1, <3>2
    <3> QED BY <2>16, <3>3
  <2>23. StackFits(q, Q)
    BY <2>7, <2>16, <2>18, <2>19, <2>20, <2>21, <2>22 DEF StackFits
  <2> QED BY <2>15, <2>21, <2>23 DEF Good, q
<1> QED BY <1>1, <1>2

(* The catch of the block that is open is set or removed.                  *)
LEMMA SetCatchGood ==
  ASSUME NEW r, Good(r), BlockOpen(r), NEW on \in BOOLEAN
  PROVE  LET q == SetCatchOf(r, on)
         IN  Good(q) /\ Alike(q, r) /\ SameCalls(q, r) /\ Avail(q) = Avail(r)
<1> DEFINE n  == Len(r.blocks)
           b  == [Last(r.blocks) EXCEPT !.catch = on]
           bs == Append(Front(r.blocks), b)
           q  == SetCatchOf(r, on)
<1>1. r \in CoroSet
  BY DEF Good
<1>2. PICK P : StackFits(r, P)
  BY DEF Good
<1>3. r.blocks \in Seq(BlockSet) /\ n \in Nat /\ r.blocks # <<>>
  BY <1>1, CoroFields, GoodFacts
<1>4. /\ n \in 1..n /\ Last(r.blocks) = r.blocks[n] /\ r.blocks[n] \in BlockSet
      /\ Front(r.blocks) \in Seq(BlockSet) /\ Len(Front(r.blocks)) = n - 1
      /\ \A i \in 1..n - 1 : Front(r.blocks)[i] = r.blocks[i]
  <2>1. n \in Nat \ {0}
    BY <1>3, LastFront
  <2>2. n \in 1..n
    BY <2>1
  <2> QED BY <1>3, <2>2, LastFront
<1>5. b \in BlockSet /\ b.sp = r.blocks[n].sp
  BY <1>4 DEF BlockSet
<1>6. bs \in Seq(BlockSet) /\ Len(bs) = n /\ \A i \in 1..n : bs[i].sp = r.blocks[i].sp
  <2>1. bs \in Seq(BlockSet) /\ Len(bs) = n /\ bs[n] = b /\ \A i \in 1..n - 1 : bs[i] = Front(r.blocks)[i]
    BY <1>3, <1>4, <1>5, Longer
  <2>2. \A i \in 1..n : i = n \/ i \in 1..n - 1
    BY <1>3
  <2> QED BY <1>4, <1>5, <2>1, <2>2
<1>7. q = [r EXCEPT !.blocks = bs]
  BY DEF SetCatchOf
<1> HIDE DEF bs, b, q
<1>8. q \in CoroSet /\ Alike(q, r)
  BY <1>1, <1>6, <1>7 DEF CoroSet, Alike
<1>9. /\ q.mem = r.mem /\ q.bottom = r.bottom /\ q.size = r.size
      /\ q.blocks = bs /\ q.runtime = r.runtime /\ q.frames = r.frames
  BY <1>1, <1>7 DEF CoroSet
<1>10. IsOffsets(P, bs)
  <2>1. IsOffsets(P, r.blocks)
    BY <1>2 DEF StackFits
  <2> QED BY <1>6, <2>1 DEF IsOffsets
<1>11. CallFits(q.runtime, q.bottom, Len(q.blocks), Sp(q), P)
  <2>1. CallFits(r.runtime, r.bottom, n, Sp(r), P) /\ Sp(q) = Sp(r)
    BY <1>2, <1>9 DEF StackFits, Sp
  <2> QED BY <1>6, <1>9, <2>1
<1>12. CallersFit(q, P) /\ Ordered(q) /\ SameCalls(q, r)
  BY <1>2, <1>9, SameCallers
<1>13. Len(q.mem) < q.size
  BY <1>2, <1>9 DEF StackFits
<1>14. StackFits(q, P)
  BY <1>9, <1>10, <1>11, <1>12, <1>13 DEF StackFits
<1>15. Avail(q) = Avail(r)
  BY <1>9 DEF Avail, Sp
<1> QED BY <1>8, <1>12, <1>14, <1>15 DEF Good, q

(***************************************************************************)
(* Calls.                                                                  *)
(***************************************************************************)

(* A function is entered on n values, dump values below them go later.     *)
LEMMA EnterGood ==
  ASSUME NEW r, Good(r), NEW kind \in Kind, NEW n \in Nat, NEW dump \in 0..2,
         n + dump <= Avail(r), NEW args \in ArgLists
  PROVE  LET q == Enter(r, kind, n, dump, args)
         IN  /\ Good(q) /\ Alike(q, r) /\ Avail(q) = n
             /\ Depth(q) = Depth(r) + 1 /\ Len(q.frames) = Len(r.frames) + 1
             /\ Natives(q) = Natives(r) \cup (IF kind = "native" THEN {Depth(r) + 1} ELSE {})
             /\ q.runtime.param = (kind = "ink")
<1> DEFINE f  == [native |-> kind = "native", bp |-> Sp(r) - n, rbp |-> Sp(r) - n, bcur |-> Len(r.blocks),
                  dump |-> dump, param |-> kind = "ink", args |-> args]
           fs == Append(r.frames, r.runtime)
           q  == Enter(r, kind, n, dump, args)
<1>1. r \in CoroSet
  BY DEF Good
<1>2. PICK P : StackFits(r, P)
  BY DEF Good
<1>3. r.frames \in Seq(FrameSet) /\ Len(r.frames) \in Nat /\ r.runtime \in FrameSet
  BY <1>1, CoroFields
<1>4. Len(r.blocks) \in Nat
  BY <1>1, CoroFields
<1>5. /\ Sp(r) \in Nat /\ r.runtime.bp \in Nat /\ r.bottom \in Nat
      /\ Avail(r) = Sp(r) - r.runtime.bp /\ r.bottom <= r.runtime.bp
  <2>1. r.bottom \in Nat /\ r.runtime.rbp \in Nat
    BY <1>1, <1>3, CoroFields, FrameFields
  <2> QED BY <2>1, GoodFacts
<1>6. /\ Sp(r) - n \in Nat /\ r.bottom <= Sp(r) - n /\ Sp(r) - n <= Sp(r)
      /\ r.runtime.bp <= (Sp(r) - n) - dump
  BY <1>5
<1>7. f \in FrameSet
  BY <1>4, <1>6 DEF FrameSet, ArgLists
<1>8. /\ f.bp = Sp(r) - n /\ f.rbp = Sp(r) - n /\ f.bcur = Len(r.blocks) /\ f.dump = dump
      /\ f.native = (kind = "native") /\ f.param = (kind = "ink")
  OBVIOUS
<1>9. /\ fs \in Seq(FrameSet) /\ Len(fs) = Len(r.frames) + 1 /\ fs[Len(r.frames) + 1] = r.runtime
      /\ \A i \in 1..Len(r.frames) : fs[i] = r.frames[i]
  BY <1>3, Longer
<1>10. q = [r EXCEPT !.frames = fs, !.runtime = f]
  <2>1. PushFrame(r).runtime.bcur = Len(r.blocks)
    BY <1>1, <1>3 DEF PushFrame, CoroSet, FrameSet
  <2>2. q = [PushFrame(r) EXCEPT !.runtime = f]
    BY <2>1 DEF Enter
  <2>3. PushFrame(r) = [r EXCEPT !.frames = fs, !.runtime = [r.runtime EXCEPT !.bcur = Len(r.blocks)]]
    BY <1>1 DEF PushFrame, CoroSet
  <2> QED BY <1>1, <2>2, <2>3 DEF CoroSet
<1> HIDE DEF q, f, fs
<1>11. q \in CoroSet /\ Alike(q, r)
  BY <1>1, <1>7, <1>9, <1>10 DEF CoroSet, Alike
<1>12. /\ q.mem = r.mem /\ q.bottom = r.bottom /\ q.size = r.size
       /\ q.blocks = r.blocks /\ q.runtime = f /\ q.frames = fs
  BY <1>1, <1>10 DEF CoroSet
<1>13. Depth(q) = Depth(r) + 1 /\ Depth(r) = Len(r.frames) + 1 /\ Len(q.frames) = Depth(r)
  BY <1>3, <1>9, <1>12 DEF Depth
<1>14. CallAt(q, Depth(r) + 1) = f /\ \A k \in 1..Depth(r) : CallAt(q, k) = CallAt(r, k)
  BY <1>3, <1>9, <1>12, <1>13 DEF CallAt
<1>15. Sp(q) = Sp(r)
  BY <1>12 DEF Sp
<1>16. CallFits(q.runtime, q.bottom, Len(q.blocks), Sp(q), P)
  <2>1. P[Len(r.blocks)] \in Nat
    BY <1>2, <1>4 DEF StackFits, IsOffsets
  <2>2. f.bp = f.rbp + P[Len(r.blocks)] - P[f.bcur]
    BY <1>6, <1>8, <2>1
  <2>3. CallFits(f, r.bottom, Len(r.blocks), Sp(r), P)
    BY <1>4, <1>6, <1>8, <2>2 DEF CallFits
  <2> QED BY <1>12, <1>15, <2>3
<1>17. Ordered(q)
  <2> SUFFICES ASSUME NEW i \in 1..Depth(r) + 1, NEW j \in 1..Depth(r) + 1, i <= j
               PROVE  CallAt(q, i).bcur <= CallAt(q, j).bcur
    BY <1>13 DEF Ordered
  <2>1. CASE j \in 1..Depth(r)
    <3>1. i \in 1..Depth(r)
      BY <1>3, <1>13, <2>1
    <3>2. CallAt(r, i).bcur <= CallAt(r, j).bcur
      BY <1>2, <2>1, <3>1 DEF StackFits, Ordered
    <3> QED BY <1>14, <2>1, <3>1, <3>2
  <2>2. CASE j = Depth(r) + 1 /\ i \in 1..Depth(r)
    <3>1. CallAt(r, i).bcur \in 0..Len(r.blocks)
      BY <2>2, BlockBounds
    <3> QED BY <1>4, <1>8, <1>14, <2>2, <3>1
  <2>3. CASE j = Depth(r) + 1 /\ i = Depth(r) + 1
    BY <1>4, <1>8, <1>14, <2>3
  <2> QED BY <1>3, <1>13, <2>1, <2>2, <2>3
<1>18. CallersFit(q, P)
  <2> SUFFICES ASSUME NEW i \in 1..Depth(r)
               PROVE  LET g == CallAt(q, i + 1)
                      IN  CallFits(q.frames[i], q.bottom, g.bcur, g.rbp - g.dump, P)
    BY <1>13 DEF CallersFit
  <2>1. CASE i \in 1..Len(r.frames)
    <3>1. CallAt(q, i + 1) = CallAt(r, i + 1) /\ q.frames[i] = r.frames[i]
      BY <1>3, <1>9, <1>12, <1>13, <1>14, <2>1
    <3>2. LET g == CallAt(r, i + 1)
          IN  CallFits(r.frames[i], r.bottom, g.bcur, g.rbp - g.dump, P)
      BY <1>2, <2>1 DEF StackFits, CallersFit
    <3> QED BY <1>12, <3>1, <3>2
  <2>2. CASE i = Depth(r)
    <3>1. CallAt(q, i + 1) = f /\ q.frames[i] = r.runtime
      BY <1>9, <1>12, <1>13, <1>14, <2>2
    <3>2. CallFits(r.runtime, r.bottom, Len(r.blocks), Sp(r), P)
      BY <1>2 DEF StackFits
    <3>3. CallFits(r.runtime, r.bottom, f.bcur, f.rbp - f.dump, P)
      BY <1>6, <1>8, <3>2 DEF CallFits
    <3> QED BY <1>12, <3>1, <3>3
  <2> QED BY <1>3, <1>13, <2>1, <2>2
<1>19. StackFits(q, P)
  BY <1>2, <1>12, <1>16, <1>17, <1>18 DEF StackFits
<1>20. Avail(q) = n
  BY <1>5, <1>8, <1>12, <1>15 DEF Avail
<1>21. Natives(q) = Natives(r) \cup (IF kind = "native" THEN {Depth(r) + 1} ELSE {})
  <2>1. \A k : k \in Natives(q) <=> k \in 1..Depth(r) + 1 /\ CallAt(q, k).native
    BY <1>13 DEF Natives
  <2>2. \A k : k \in 1..Depth(r) + 1 <=> k \in 1..Depth(r) \/ k = Depth(r) + 1
    BY <1>3, <1>13
  <2>3. CallAt(q, Depth(r) + 1).native <=> kind = "native"
    BY <1>8, <1>14
  <2>4. \A k \in 1..Depth(r) : CallAt(q, k).native <=> k \in Natives(r)
    BY <1>14 DEF Natives
  <2>5. Natives(r) \subseteq 1..Depth(r)
    BY DEF Natives
  <2> QED BY <2>1, <2>2, <2>3, <2>4, <2>5
<1>22. q.runtime.param = (kind = "ink")
  BY <1>8, <1>12
<1> QED BY <1>9, <1>11, <1>12, <1>13, <1>19, <1>20, <1>21, <1>22 DEF Good, q

(* A call ends: its values and blocks go, and its caller runs on.          *)
LEMMA PopFrameGood ==
  ASSUME NEW r, Good(r), r.frames # <<>>
  PROVE  LET q == PopFrame(r)
         IN  /\ Good(q) /\ Alike(q, r) /\ Depth(q) = Depth(r) - 1
             /\ Natives(q) = Natives(r) \ {Depth(r)}
             /\ Avail(q) >= r.runtime.dump /\ Avail(q) \in Nat
             /\ Depth(r) - 1 \in Natives(r) <=> q.runtime.native
             /\ Len(q.frames) = Len(r.frames) - 1
<1> DEFINE n  == Len(r.frames)
           f  == Last(r.frames)
           fs == Front(r.frames)
           bc == r.runtime.bcur
           bs == SubSeq(r.blocks, 1, bc)
           m  == Cut(r.mem, r.runtime.rbp - r.bottom)
           q  == PopFrame(r)
<1>1. r \in CoroSet
  BY DEF Good
<1>2. PICK P : StackFits(r, P)
  BY DEF Good
<1>3. /\ r.frames \in Seq(FrameSet) /\ r.blocks \in Seq(BlockSet) /\ Len(r.blocks) \in Nat
      /\ r.mem \in Seq(Values) /\ Len(r.mem) \in Nat /\ r.bottom \in Nat
  BY <1>1, CoroFields
<1>4. /\ n \in Nat \ {0} /\ f = r.frames[n] /\ f \in FrameSet
      /\ fs \in Seq(FrameSet) /\ Len(fs) = n - 1
      /\ \A i \in 1..n - 1 : fs[i] = r.frames[i]
  BY <1>3, LastFront
<1>5. /\ r.runtime.rbp \in Nat /\ r.bottom <= r.runtime.rbp /\ r.runtime.rbp <= r.bottom + Len(r.mem)
      /\ bc \in 0..Len(r.blocks)
  BY <1>3, GoodFacts
<1>6. m \in Seq(Values) /\ Len(m) = r.runtime.rbp - r.bottom
  <2>1. r.runtime.rbp - r.bottom \in 0..Len(r.mem)
    BY <1>3, <1>5
  <2> QED BY <1>3, <2>1, CutBelow
<1>7. bs \in Seq(BlockSet) /\ Len(bs) = bc /\ \A i \in 1..bc : bs[i] = r.blocks[i]
  BY <1>3, <1>5, FirstOf
<1>8. q = [r EXCEPT !.blocks = bs, !.mem = m, !.runtime = f, !.frames = fs]
  BY <1>1 DEF PopFrame, CoroSet
<1>9. r.runtime.dump \in 0..2
  BY <1>1, CoroFields, FrameFields
<1> HIDE DEF q, m, bs, fs, f
<1>10. q \in CoroSet /\ Alike(q, r)
  BY <1>1, <1>4, <1>6, <1>7, <1>8 DEF CoroSet, Alike
<1>11. /\ q.mem = m /\ q.bottom = r.bottom /\ q.size = r.size
       /\ q.blocks = bs /\ q.runtime = f /\ q.frames = fs
  BY <1>1, <1>8 DEF CoroSet
<1>12. Depth(q) = n /\ Depth(r) = n + 1
  BY <1>4, <1>11 DEF Depth
<1>13. ASSUME NEW k \in 1..n
       PROVE  CallAt(q, k) = CallAt(r, k) /\ CallAt(r, k) = r.frames[k]
  <2>1. CASE k = n
    BY <1>4, <1>11, <2>1 DEF CallAt
  <2>2. CASE k \in 1..n - 1
    BY <1>4, <1>11, <2>2 DEF CallAt
  <2> QED BY <1>4, <2>1, <2>2
<1>14. CallAt(r, n + 1) = r.runtime
  BY <1>4 DEF CallAt
<1>15. Natives(q) = Natives(r) \ {Depth(r)}
  <2>1. \A k : k \in 1..n <=> k \in 1..n + 1 /\ k # n + 1
    BY <1>4
  <2> QED BY <1>12, <1>13, <2>1 DEF Natives
<1> DEFINE Q == [j \in 0..bc |-> P[j]]
<1>16. IsOffsets(P, r.blocks)
  BY <1>2 DEF StackFits
<1>17. Q \in [0..bc -> Nat] /\ \A j \in 0..bc : Q[j] = P[j] /\ j \in 0..Len(r.blocks)
  <2>1. \A j \in 0..bc : j \in 0..Len(r.blocks)
    BY <1>3, <1>5
  <2> QED BY <1>16, <2>1 DEF IsOffsets
<1> HIDE DEF Q
<1>18. IsOffsets(Q, bs)
  <2>1. Q[0] = 0
    <3>1. 0 \in 0..bc
      BY <1>5
    <3> QED BY <1>16, <1>17, <3>1 DEF IsOffsets
  <2>2. ASSUME NEW i \in 1..bc
        PROVE  Q[i] = Q[i - 1] + bs[i].sp
    <3>1. i \in 0..bc /\ i - 1 \in 0..bc /\ i \in 1..Len(r.blocks)
      BY <1>3, <1>5
    <3>2. P[i] = P[i - 1] + r.blocks[i].sp
      BY <1>16, <3>1 DEF IsOffsets
    <3> QED BY <1>7, <1>17, <3>1, <3>2
  <2>3. ASSUME NEW i \in 0..bc, NEW j \in 0..bc, i <= j
        PROVE  Q[i] <= Q[j]
    BY <1>16, <1>17, <2>3 DEF IsOffsets
  <2> QED BY <1>7, <1>17, <2>1, <2>2, <2>3 DEF IsOffsets
<1>19. Sp(q) = r.runtime.rbp
  BY <1>3, <1>5, <1>6, <1>11 DEF Sp
<1>20. CallersFit(r, P) /\ Ordered(r)
  BY <1>2 DEF StackFits
<1>21. \A k \in 1..n : CallAt(r, k).bcur \in 0..bc
  <2> SUFFICES ASSUME NEW k \in 1..n
               PROVE  CallAt(r, k).bcur \in 0..bc
    OBVIOUS
  <2>1. k \in 1..Depth(r)
    BY <1>4, <1>12
  <2> QED BY <2>1, BlockBounds
<1>22. CallFits(f, r.bottom, bc, r.runtime.rbp - r.runtime.dump, P)
  <2>1. n \in 1..n
    BY <1>4
  <2> QED BY <1>4, <1>14, <1>20, <2>1 DEF CallersFit
<1>23. f.bp \in Nat /\ f.bp <= r.runtime.rbp - r.runtime.dump
  BY <1>4, <1>22, FrameFields DEF CallFits
<1>24. CallFits(q.runtime, q.bottom, Len(q.blocks), Sp(q), Q)
  <2>1. f.bcur \in 0..bc /\ bc \in 0..bc
    <3>1. n \in 1..n /\ CallAt(r, n) = f
      BY <1>4, <1>13
    <3> QED BY <1>5, <1>21, <3>1
  <2>2. Q[f.bcur] = P[f.bcur] /\ Q[bc] = P[bc]
    BY <1>17, <2>1
  <2>3. f.bp <= r.runtime.rbp
    BY <1>5, <1>9, <1>23
  <2>4. CallFits(f, r.bottom, bc, r.runtime.rbp, Q)
    BY <1>22, <2>2, <2>3 DEF CallFits
  <2> QED BY <1>7, <1>11, <1>19, <2>4
<1>25. CallersFit(q, Q)
  <2> SUFFICES ASSUME NEW i \in 1..n - 1
               PROVE  LET g == CallAt(q, i + 1)
                      IN  CallFits(q.frames[i], q.bottom, g.bcur, g.rbp - g.dump, Q)
    BY <1>4, <1>11 DEF CallersFit
  <2>1. i \in 1..n /\ i + 1 \in 1..n
    BY <1>4
  <2>2. q.frames[i] = r.frames[i] /\ CallAt(q, i + 1) = CallAt(r, i + 1) /\ r.frames[i] = CallAt(r, i)
    BY <1>4, <1>11, <1>13, <2>1
  <2> DEFINE g == CallAt(r, i + 1)
  <2>3. CallFits(r.frames[i], r.bottom, g.bcur, g.rbp - g.dump, P)
    BY <1>20, <2>1 DEF CallersFit
  <2>4. r.frames[i].bcur \in 0..bc /\ g.bcur \in 0..bc
    BY <1>21, <2>1, <2>2
  <2>5. Q[r.frames[i].bcur] = P[r.frames[i].bcur] /\ Q[g.bcur] = P[g.bcur]
    BY <1>17, <2>4
  <2>6. CallFits(r.frames[i], r.bottom, g.bcur, g.rbp - g.dump, Q)
    BY <2>3, <2>5 DEF CallFits
  <2> QED BY <1>11, <2>2, <2>6
<1>26. Ordered(q)
  <2> SUFFICES ASSUME NEW i \in 1..n, NEW j \in 1..n, i <= j
               PROVE  CallAt(q, i).bcur <= CallAt(q, j).bcur
    BY <1>12 DEF Ordered
  <2>1. i \in 1..Depth(r) /\ j \in 1..Depth(r)
    BY <1>4, <1>12
  <2>2. CallAt(r, i).bcur <= CallAt(r, j).bcur
    BY <1>20, <2>1 DEF Ordered
  <2> QED BY <1>13, <2>2
<1>27. Len(q.mem) < q.size
  <2>1. Len(r.mem) < r.size /\ r.size \in Nat
    BY <1>1, <1>2, CoroFields DEF StackFits
  <2>2. Len(m) <= Len(r.mem) /\ Len(m) \in Nat
    BY <1>3, <1>5, <1>6
  <2>3. Len(m) < r.size
    BY <1>3, <2>1, <2>2
  <2> QED BY <1>11, <2>3
<1>28. StackFits(q, Q)
  BY <1>11, <1>18, <1>24, <1>25, <1>26, <1>27 DEF StackFits
<1>29. Avail(q) >= r.runtime.dump /\ Avail(q) \in Nat
  <2>1. Avail(q) = r.runtime.rbp - f.bp
    BY <1>11, <1>19 DEF Avail
  <2> QED BY <1>5, <1>9, <1>23, <2>1
<1>30. Depth(r) - 1 \in Natives(r) <=> q.runtime.native
  <2>1. Depth(r) - 1 = n /\ n \in 1..Depth(r) /\ n \in 1..n
    BY <1>4, <1>12
  <2>2. CallAt(r, n) = f
    BY <1>4, <1>13, <2>1
  <2> QED BY <1>11, <2>1, <2>2 DEF Natives
<1>31. Depth(q) = Depth(r) - 1 /\ Len(q.frames) = n - 1
  BY <1>4, <1>11, <1>12
<1> QED BY <1>10, <1>15, <1>28, <1>29, <1>30, <1>31 DEF Good, q

(* The same with the words below the frame that go as well.                *)
LEMMA LeaveFrameGood ==
  ASSUME NEW r, Good(r), r.frames # <<>>
  PROVE  LET q == LeaveFrame(r)
         IN  /\ Good(q) /\ Alike(q, r) /\ Depth(q) = Depth(r) - 1
             /\ Natives(q) = Natives(r) \ {Depth(r)}
             /\ Depth(r) - 1 \in Natives(r) <=> q.runtime.native
             /\ Len(q.frames) = Len(r.frames) - 1
<1> DEFINE s == PopFrame(r)
           q == LeaveFrame(r)
           d == r.runtime.dump
<1>1. /\ Good(s) /\ Alike(s, r) /\ Depth(s) = Depth(r) - 1
      /\ Natives(s) = Natives(r) \ {Depth(r)}
      /\ Avail(s) >= d /\ Avail(s) \in Nat
      /\ Depth(r) - 1 \in Natives(r) <=> s.runtime.native
      /\ Len(s.frames) = Len(r.frames) - 1
  BY PopFrameGood
<1>2. q = Drop(s, d)
  BY DEF LeaveFrame
<1>3. d \in 0..2
  BY CoroFields, FrameFields DEF Good
<1> HIDE DEF s, q, d
<1>4. d \in 0..Avail(s)
  BY <1>1, <1>3
<1>5. Good(q) /\ Alike(q, s) /\ SameCalls(q, s) /\ q.runtime = s.runtime
  BY <1>1, <1>2, <1>4, DropGood
<1>6. Len(q.frames) = Len(s.frames)
  BY <1>2, <1>1, CoroFields DEF Drop, CoroSet, Good
<1> QED BY <1>1, <1>5, <1>6 DEF q, Alike, SameCalls

(* The root call ends, and the coroutine with it.                          *)
LEMMA LeaveRoot ==
  ASSUME NEW r, Good(r), r.frames = <<>>
  PROVE  LET q == [LeaveFrame(r) EXCEPT !.alive = FALSE]
         IN  q \in CoroSet /\ ~ q.alive /\ q.spawned = r.spawned
<1> DEFINE bs == SubSeq(r.blocks, 1, r.runtime.bcur)
<1>1. r \in CoroSet
  BY DEF Good
<1>2. bs \in Seq(BlockSet)
  <2>1. r.runtime.bcur \in 0..Len(r.blocks) /\ r.blocks \in Seq(BlockSet)
    BY <1>1, GoodFacts, CoroFields
  <2> QED BY <2>1, FirstOf
<1>3. LeaveFrame(r) = [r EXCEPT !.blocks = bs]
  BY DEF LeaveFrame, PopFrame
<1> HIDE DEF bs
<1> QED BY <1>1, <1>2, <1>3 DEF CoroSet

(* The flags are no part of the stacks.                                    *)
LEMMA FlagsGood ==
  ASSUME NEW r, Good(r), NEW q \in CoroSet,
         q.bottom = r.bottom, q.size = r.size, q.mem = r.mem,
         q.runtime = r.runtime, q.frames = r.frames, q.blocks = r.blocks
  PROVE  Good(q) /\ SameCalls(q, r) /\ Avail(q) = Avail(r)
<1>1. r.runtime.bp <= r.bottom + Len(r.mem)
  BY GoodFacts
<1>2. Len(r.mem) < r.size
  BY DEF Good, StackFits
<1>3. Good(q) /\ SameCalls(q, r)
  BY <1>1, <1>2, SameFrames
<1>4. Avail(q) = Avail(r)
  BY DEF Avail, Sp
<1> QED BY <1>3, <1>4

(* Setting them.                                                           *)
LEMMA SetActive ==
  ASSUME NEW r, Good(r), NEW b \in BOOLEAN
  PROVE  LET q == [r EXCEPT !.active = b]
         IN  /\ Good(q) /\ Alike(q, r) /\ SameCalls(q, r) /\ Avail(q) = Avail(r)
             /\ q.runtime = r.runtime /\ q.param = r.param
<1> DEFINE q == [r EXCEPT !.active = b]
<1>1. r \in CoroSet
  BY DEF Good
<1>2. /\ q \in CoroSet /\ q.bottom = r.bottom /\ q.size = r.size /\ q.mem = r.mem
      /\ q.runtime = r.runtime /\ q.frames = r.frames /\ q.blocks = r.blocks
      /\ Alike(q, r) /\ q.param = r.param
  BY <1>1 DEF CoroSet, Alike
<1> HIDE DEF q
<1>3. Good(q) /\ SameCalls(q, r) /\ Avail(q) = Avail(r)
  BY <1>2, FlagsGood
<1> QED BY <1>2, <1>3 DEF q

(* The flag of native calls is set.                                         *)
LEMMA SetNative ==
  ASSUME NEW r, Good(r), NEW b \in BOOLEAN
  PROVE  LET q == [r EXCEPT !.hasNative = b]
         IN  /\ Good(q) /\ SameCalls(q, r) /\ Avail(q) = Avail(r) /\ q.runtime = r.runtime
             /\ q.alive = r.alive /\ q.spawned = r.spawned /\ q.hasNative = b
<1> DEFINE q == [r EXCEPT !.hasNative = b]
<1>1. r \in CoroSet
  BY DEF Good
<1>2. /\ q \in CoroSet /\ q.bottom = r.bottom /\ q.size = r.size /\ q.mem = r.mem
      /\ q.runtime = r.runtime /\ q.frames = r.frames /\ q.blocks = r.blocks
      /\ q.alive = r.alive /\ q.spawned = r.spawned /\ q.hasNative = b
  BY <1>1 DEF CoroSet
<1> HIDE DEF q
<1>3. Good(q) /\ SameCalls(q, r) /\ Avail(q) = Avail(r)
  BY <1>2, FlagsGood
<1> QED BY <1>2, <1>3 DEF q

(* The flag of a thread is set.                                             *)
LEMMA SetSpawned ==
  ASSUME NEW r, Good(r), NEW b \in BOOLEAN
  PROVE  LET q == [r EXCEPT !.spawned = b]
         IN  /\ Good(q) /\ SameCalls(q, r) /\ q.alive = r.alive /\ q.hasNative = r.hasNative
             /\ q.spawned = b
<1> DEFINE q == [r EXCEPT !.spawned = b]
<1>1. r \in CoroSet
  BY DEF Good
<1>2. /\ q \in CoroSet /\ q.bottom = r.bottom /\ q.size = r.size /\ q.mem = r.mem
      /\ q.runtime = r.runtime /\ q.frames = r.frames /\ q.blocks = r.blocks
      /\ q.alive = r.alive /\ q.hasNative = r.hasNative /\ q.spawned = b
  BY <1>1 DEF CoroSet
<1> HIDE DEF q
<1>3. Good(q) /\ SameCalls(q, r)
  BY <1>2, FlagsGood
<1> QED BY <1>2, <1>3 DEF q

(* A loop takes its argument.                                              *)
LEMMA ExecuteGood ==
  ASSUME NEW r, Good(r), NEW v \in Values \cup {Nil}
  PROVE  LET q == Execute(r, v)
         IN  /\ Good(q) /\ Alike(q, r) /\ SameCalls(q, r)
             /\ q.runtime.param = r.runtime.param
             /\ v = Nil => Avail(q) = Avail(r)
<1> DEFINE a == [r EXCEPT !.active = TRUE]
           q == Execute(r, v)
<1>1. Good(a) /\ Alike(a, r) /\ SameCalls(a, r) /\ Avail(a) = Avail(r) /\ a.runtime = r.runtime
  BY SetActive
<1>2. q = Deliver(a, v)
  BY DEF Execute
<1>3. a \in CoroSet
  BY <1>1 DEF Good
<1> HIDE DEF a, q
<1>4. CASE v = Nil
  <2>1. q = a
    BY <1>2, <1>4 DEF Deliver
  <2> QED BY <1>1, <2>1 DEF q
<1>5. CASE v # Nil /\ a.param = "no"
  <2>1. q = Push(a, v) /\ v \in Values
    BY <1>2, <1>5 DEF Deliver
  <2>2. Good(q) /\ Alike(q, a) /\ SameCalls(q, a) /\ q.runtime.param = a.runtime.param
    BY <1>1, <2>1, PushGood
  <2> QED BY <1>1, <1>5, <2>2 DEF q, Alike, SameCalls
<1>6. CASE v # Nil /\ a.param # "no"
  <2> DEFINE as == IF a.param = "bind" THEN <<v>> ELSE a.runtime.args
             f  == [a.runtime EXCEPT !.args = as]
  <2>1. a.runtime \in FrameSet
    BY <1>3, CoroFields
  <2>2. as \in Seq(Values)
    BY <1>6, <2>1, FrameFields
  <2>3. f \in FrameSet /\ f.bp = a.runtime.bp /\ f.rbp = a.runtime.rbp /\ f.bcur = a.runtime.bcur
        /\ f.dump = a.runtime.dump /\ f.native = a.runtime.native /\ f.param = a.runtime.param
    BY <2>1, <2>2 DEF FrameSet
  <2>4. q = [a EXCEPT !.param = "no", !.runtime = f]
    BY <1>2, <1>3, <1>6 DEF Deliver, CoroSet
  <2> HIDE DEF as, f
  <2>5. /\ q \in CoroSet /\ Alike(q, a)
        /\ q.bottom = a.bottom /\ q.size = a.size /\ q.mem = a.mem
        /\ q.runtime = f /\ q.frames = a.frames /\ q.blocks = a.blocks
    BY <1>3, <2>3, <2>4 DEF CoroSet, Alike
  <2>6. a.runtime.bp <= a.bottom + Len(a.mem)
    BY <1>1, GoodFacts
  <2>7. Len(a.mem) < a.size
    BY <1>1 DEF Good, StackFits
  <2>8. Good(q) /\ SameCalls(q, a)
    BY <1>1, <2>3, <2>5, <2>6, <2>7, SameFrames
  <2> QED BY <1>1, <1>6, <2>3, <2>5, <2>8 DEF q, Alike, SameCalls
<1> QED BY <1>4, <1>5, <1>6

(* A new coroutine.                                                        *)
LEMMA RootGood ==
  ASSUME NEW param \in {"no", "bind", "drop"}
  PROVE  LET q == Root(param)
         IN  /\ Good(q) /\ Depth(q) = 1 /\ Natives(q) = {}
             /\ q.alive /\ ~ q.hasNative /\ ~ q.spawned
<1> DEFINE f == [native |-> FALSE, bp |-> 0, rbp |-> 0, bcur |-> 0, dump |-> 0,
                 param |-> param = "bind", args |-> <<>>]
           q == Root(param)
           P == [j \in 0..0 |-> 0]
<1>1. f \in FrameSet
  BY DEF FrameSet
<1>2. FirstSize \in Nat \ {0}
  BY CoroAssumption
<1>3. /\ q \in CoroSet /\ q.mem = <<>> /\ q.frames = <<>> /\ q.blocks = <<>> /\ q.runtime = f
      /\ q.bottom = 0 /\ q.size = FirstSize
      /\ q.alive /\ ~ q.hasNative /\ ~ q.spawned
  BY <1>1, <1>2 DEF Root, CoroSet
<1> HIDE DEF q
<1>4. Len(q.mem) = 0 /\ Len(q.frames) = 0 /\ Len(q.blocks) = 0
  BY <1>3
<1>5. IsOffsets(P, q.blocks)
  BY <1>4 DEF IsOffsets
<1>6. Depth(q) = 1 /\ CallAt(q, 1) = f
  BY <1>3, <1>4 DEF Depth, CallAt
<1>7. Ordered(q)
  BY <1>6 DEF Ordered
<1>8. CallersFit(q, P)
  BY <1>4 DEF CallersFit
<1>9. Sp(q) = 0
  BY <1>3, <1>4 DEF Sp
<1>10. CallFits(f, 0, 0, 0, P)
  BY DEF CallFits
<1>11. Natives(q) = {}
  BY <1>6 DEF Natives
<1>12. Len(q.mem) < q.size
  BY <1>2, <1>3, <1>4
<1>13. StackFits(q, P)
  BY <1>3, <1>4, <1>5, <1>7, <1>8, <1>9, <1>10, <1>12 DEF StackFits
<1> QED BY <1>3, <1>6, <1>11, <1>13 DEF Good, q

(* Up to two values are pushed.                                            *)
LEMMA PushAllGood ==
  ASSUME NEW r, Good(r), NEW n \in 0..2, NEW s \in [1..n -> Values]
  PROVE  LET q == PushAll(r, s)
         IN  /\ Good(q) /\ Alike(q, r) /\ SameCalls(q, r)
             /\ q.runtime.param = r.runtime.param
<1> DEFINE q == PushAll(r, s)
<1>1. CASE n = 0
  <2>1. s = <<>>
    BY <1>1
  <2>2. q = r
    BY <2>1 DEF PushAll
  <2> QED BY <2>2 DEF Alike, SameCalls
<1>2. CASE n = 1
  <2>1. s # <<>> /\ Len(s) = 1 /\ s[1] \in Values
    BY <1>2
  <2>2. q = Push(r, s[1])
    BY <2>1 DEF PushAll
  <2> QED BY <2>1, <2>2, PushGood
<1>3. CASE n = 2
  <2>1. s # <<>> /\ Len(s) = 2 /\ s[1] \in Values /\ s[2] \in Values
    BY <1>3
  <2> DEFINE p == Push(r, s[1])
  <2>2. q = Push(p, s[2])
    BY <2>1 DEF PushAll
  <2>3. Good(p) /\ Alike(p, r) /\ SameCalls(p, r) /\ p.runtime.param = r.runtime.param
    BY <2>1, PushGood
  <2> HIDE DEF p, q
  <2>4. Good(q) /\ Alike(q, p) /\ SameCalls(q, p) /\ q.runtime.param = p.runtime.param
    BY <2>1, <2>2, <2>3, PushGood
  <2> QED BY <2>3, <2>4 DEF Alike, SameCalls, q
<1> QED BY <1>1, <1>2, <1>3

(* INVOKE enters a function.                                               *)
LEMMA CalleeGood ==
  ASSUME NEW r, Good(r), NEW kind \in Kind, NEW n \in 0..2, NEW base \in 0..1,
         Avail(r) >= n + base + 1
  PROVE  LET q == Callee(r, kind, n, base)
         IN  /\ Good(q) /\ Alike(q, r)
             /\ Depth(q) = Depth(r) + 1 /\ Len(q.frames) = Len(r.frames) + 1
             /\ Natives(q) = Natives(r) \cup (IF kind = "native" THEN {Depth(r) + 1} ELSE {})
             /\ q.runtime.param = (kind = "ink")
             /\ kind = "ink" => Avail(q) = 0
<1> DEFINE q == Callee(r, kind, n, base)
<1>1. Avail(r) \in Nat
  BY GoodFacts
<1>2. CASE kind = "ink"
  <2> DEFINE s == Drop(r, n + base + 1)
  <2>1. n + base + 1 \in 0..Avail(r) /\ n \in 0..Avail(r)
    BY <1>1
  <2>2. Good(s) /\ Alike(s, r) /\ SameCalls(s, r)
    BY <2>1, DropGood
  <2>3. Avail(s) \in Nat
    BY <2>2, GoodFacts
  <2>4. Taken(r, n) \in ArgLists
    BY <2>1, TakenAreValues
  <2>5. q = Enter(s, kind, 0, 0, Taken(r, n))
    BY <1>2 DEF Callee
  <2>6. Depth(s) = Depth(r) /\ Natives(s) = Natives(r) /\ Len(s.frames) = Len(r.frames)
    BY <2>2 DEF SameCalls, Drop, Good, CoroSet
  <2> HIDE DEF s, q
  <2>7. /\ Good(q) /\ Alike(q, s) /\ Avail(q) = 0
        /\ Depth(q) = Depth(s) + 1 /\ Len(q.frames) = Len(s.frames) + 1
        /\ Natives(q) = Natives(s) \cup (IF kind = "native" THEN {Depth(s) + 1} ELSE {})
        /\ q.runtime.param = (kind = "ink")
    <3>1. 0 \in Nat /\ 0 \in 0..2 /\ 0 + 0 <= Avail(s)
      BY <2>3
    <3> QED BY <2>2, <2>4, <2>5, <3>1, EnterGood
  <2> QED BY <2>2, <2>6, <2>7 DEF Alike, q
<1>3. CASE kind # "ink"
  <2>1. q = Enter(r, kind, n, 1 + base, <<>>)
    BY <1>3 DEF Callee
  <2>2. n \in Nat /\ 1 + base \in 0..2 /\ n + (1 + base) <= Avail(r)
    BY <1>1
  <2>3. <<>> \in ArgLists
    BY DEF ArgLists
  <2> HIDE DEF q
  <2>4. /\ Good(q) /\ Alike(q, r)
        /\ Depth(q) = Depth(r) + 1 /\ Len(q.frames) = Len(r.frames) + 1
        /\ Natives(q) = Natives(r) \cup (IF kind = "native" THEN {Depth(r) + 1} ELSE {})
        /\ q.runtime.param = (kind = "ink")
    BY <2>1, <2>2, <2>3, EnterGood
  <2> QED BY <1>3, <2>4 DEF q
<1> QED BY <1>2, <1>3

(***************************************************************************)
(* Nested.                                                                 *)
(***************************************************************************)

(* The offsets of n blocks after the first b.                              *)
OffsetsAfter(P, b, n, blocks) ==
  /\ \A j \in 0..n : P[b + j] \in Nat /\ P[b] <= P[b + j]
  /\ \A j \in 1..n : /\ P[b + j] = P[b + (j - 1)] + blocks[b + j].sp
                    /\ blocks[b + j].sp \in Nat

(* Block j of a call starts where the offsets of the blocks say.           *)
LEMMA BlockStartIs ==
  ASSUME NEW r, NEW P, NEW i, Calls(r)[i].bcur \in Nat, Calls(r)[i].rbp \in Nat, NBlocks(r, i) \in Nat,
         OffsetsAfter(P, Calls(r)[i].bcur, NBlocks(r, i), r.blocks)
  PROVE  LET b == Calls(r)[i].bcur
             n == NBlocks(r, i)
         IN  \A m \in 0..n : BlockStart(r, i)[m] = Calls(r)[i].rbp + P[b + m] - P[b]
<1> DEFINE f == Calls(r)[i]
           b == f.bcur
           n == NBlocks(r, i)
           at == BlockStart(r, i)
           F(g) == [j \in 0..n |-> IF j = 0 THEN f.rbp ELSE g[j - 1] + r.blocks[b + j].sp]
           e == [j \in 0..n |-> f.rbp + P[b + j] - P[b]]
<1>0. /\ \A j \in 0..n : P[b + j] \in Nat /\ P[b] <= P[b + j]
      /\ \A j \in 1..n : /\ P[b + j] = P[b + (j - 1)] + r.blocks[b + j].sp
                        /\ r.blocks[b + j].sp \in Nat
  BY DEF OffsetsAfter
<1>1. at = CHOOSE g : g = F(g)
  BY DEF BlockStart
<1>a. b \in Nat /\ n \in Nat /\ f.rbp \in Nat
  OBVIOUS
<1> HIDE DEF f, b, n
<1>2. e = F(e)
  <2> USE <1>a
  <2>1. ASSUME NEW j \in 0..n
        PROVE  e[j] = IF j = 0 THEN f.rbp ELSE e[j - 1] + r.blocks[b + j].sp
    <3>1. CASE j = 0
      <4>1. P[b + 0] = P[b] /\ P[b] \in Nat
        <5>1. 0 \in 0..n /\ b + 0 = b
          OBVIOUS
        <5> QED BY <1>0, <5>1
      <4>2. e[0] = f.rbp + P[b + 0] - P[b]
        BY <3>1
      <4> QED BY <3>1, <4>1, <4>2
    <3>2. CASE j # 0
      <4>1. j \in 1..n /\ j - 1 \in 0..n
        BY <3>2
      <4>2. P[b + j] = P[b + (j - 1)] + r.blocks[b + j].sp /\ P[b + j] \in Nat /\ P[b + (j - 1)] \in Nat /\ P[b] \in Nat
        <5>1. 0 \in 0..n /\ b + 0 = b
          OBVIOUS
        <5> QED BY <1>0, <4>1, <5>1
      <4>3. e[j] = f.rbp + P[b + j] - P[b] /\ e[j - 1] = f.rbp + P[b + (j - 1)] - P[b]
        BY <4>1
      <4> DEFINE x == P[b + j]  y == P[b + (j - 1)]  z == P[b]  sp == r.blocks[b + j].sp
      <4>4. x = y + sp
        BY <4>1, <4>2
      <4>5. x \in Nat /\ y \in Nat /\ z \in Nat /\ sp \in Nat
        BY <1>0, <4>1, <4>2
      <4>6. e[j] = f.rbp + x - z /\ e[j - 1] = f.rbp + y - z
        BY <4>3
      <4> HIDE DEF e, x, y, z, sp
      <4>8. e[j] = e[j - 1] + sp
        BY <4>4, <4>5, <4>6
      <4> QED BY <3>2, <4>8 DEF sp
    <3> QED BY <3>1, <3>2
  <2> HIDE DEF e
  <2>2. e = [j \in 0..n |-> e[j]]
    BY DEF e
  <2> QED BY <2>1, <2>2
<1> HIDE DEF at, e
<1>3. at = F(at)
  BY <1>1, <1>2
<1> DEFINE S == {j \in Nat : j \in 0..n => at[j] = e[j]}
<1>4. \A j \in 0..n : at[j] = IF j = 0 THEN f.rbp ELSE at[j - 1] + r.blocks[b + j].sp
  BY <1>3
<1>5. \A j \in 0..n : e[j] = IF j = 0 THEN f.rbp ELSE e[j - 1] + r.blocks[b + j].sp
  BY <1>2
<1>6. 0 \in S
  BY <1>a, <1>4, <1>5
<1>7. ASSUME NEW j \in Nat, j \in S
      PROVE  j + 1 \in S
  <2> USE <1>a
  <2> SUFFICES ASSUME j + 1 \in 0..n
               PROVE  at[j + 1] = e[j + 1]
    OBVIOUS
  <2>1. j \in 0..n /\ j + 1 # 0 /\ (j + 1) - 1 = j
    OBVIOUS
  <2>2. at[j] = e[j]
    BY <1>7, <2>1
  <2>3. at[j + 1] = at[j] + r.blocks[b + (j + 1)].sp
    BY <1>4, <2>1
  <2>4. e[j + 1] = e[j] + r.blocks[b + (j + 1)].sp
    BY <1>5, <2>1
  <2> QED BY <2>2, <2>3, <2>4
<1> HIDE DEF S
<1>8. Nat \subseteq S
  BY <1>6, <1>7, SetInduction
<1>9. \A m \in 0..n : at[m] = e[m]
  BY <1>a, <1>8 DEF S
<1>b. \A m \in 0..n : e[m] = f.rbp + P[b + m] - P[b]
  BY DEF e
<1>c. \A m \in 0..n : at[m] = f.rbp + P[b + m] - P[b]
  BY <1>9, <1>b
<1> QED BY <1>c DEF at, f, b, n

(* Stacks that fit are nested.                                             *)
LEMMA GoodIsNested ==
  ASSUME NEW r, Good(r)
  PROVE  /\ Len(r.mem) < r.size
         /\ \A i \in DOMAIN Calls(r) :
              /\ r.bottom <= Calls(r)[i].rbp /\ NBlocks(r, i) >= 0
              /\ Calls(r)[i].bp = BlockStart(r, i)[NBlocks(r, i)]
              /\ Calls(r)[i].bp <= EndOf(r, i)
<1>1. r \in CoroSet
  BY DEF Good
<1>2. PICK P : StackFits(r, P)
  BY DEF Good
<1>3. /\ r.frames \in Seq(FrameSet) /\ Len(r.frames) \in Nat /\ r.runtime \in FrameSet
      /\ r.blocks \in Seq(BlockSet) /\ Len(r.blocks) \in Nat
  BY <1>1, CoroFields
<1>4. /\ DOMAIN Calls(r) = 1..Depth(r) /\ Len(Calls(r)) = Depth(r) /\ Depth(r) \in Nat
      /\ \A i \in 1..Depth(r) : Calls(r)[i] = CallAt(r, i)
  BY <1>3 DEF Calls, Depth, CallAt
<1>5. ASSUME NEW i \in 1..Depth(r)
      PROVE  /\ CallFits(CallAt(r, i), r.bottom, LastBlock(r, i), EndOf(r, i), P)
             /\ LastBlock(r, i) \in 0..Len(r.blocks)
  <2>1. CASE i = Depth(r)
    <3>1. LastBlock(r, i) = Len(r.blocks) /\ EndOf(r, i) = Sp(r) /\ CallAt(r, i) = r.runtime
      BY <1>1, <1>4, <2>1, CallTypes DEF LastBlock, EndOf
    <3>2. CallFits(r.runtime, r.bottom, Len(r.blocks), Sp(r), P)
      BY <1>2 DEF StackFits
    <3> QED BY <1>3, <3>1, <3>2
  <2>2. CASE i # Depth(r)
    <3>1. i \in 1..Len(r.frames) /\ i + 1 \in 1..Depth(r)
      BY <1>3, <2>2 DEF Depth
    <3> DEFINE g == CallAt(r, i + 1)
    <3>2. LastBlock(r, i) = g.bcur /\ EndOf(r, i) = g.rbp - g.dump
      BY <1>4, <2>2, <3>1 DEF LastBlock, EndOf
    <3>3. CallAt(r, i) = r.frames[i]
      BY <3>1 DEF CallAt
    <3>4. CallFits(r.frames[i], r.bottom, g.bcur, g.rbp - g.dump, P)
      BY <1>2, <3>1 DEF StackFits, CallersFit
    <3>5. g.bcur \in 0..Len(r.blocks)
      BY <3>1, BlockBounds
    <3> QED BY <3>2, <3>3, <3>4, <3>5
  <2> QED BY <2>1, <2>2
<1>6. ASSUME NEW i \in 1..Depth(r)
      PROVE  /\ r.bottom <= CallAt(r, i).rbp /\ NBlocks(r, i) >= 0
             /\ CallAt(r, i).bp = BlockStart(r, i)[NBlocks(r, i)]
             /\ CallAt(r, i).bp <= EndOf(r, i)
  <2> DEFINE f == CallAt(r, i)
             b == f.bcur
             l == LastBlock(r, i)
             n == NBlocks(r, i)
  <2>1. CallFits(f, r.bottom, l, EndOf(r, i), P) /\ l \in 0..Len(r.blocks)
    BY <1>5
  <2>2. f = Calls(r)[i] /\ f.rbp \in Nat /\ b \in Nat
    BY <1>1, <1>4, CallTypes, FrameFields
  <2>3. n = l - b
    BY <1>4 DEF NBlocks
  <2> HIDE DEF f, b, l, n
  <2>4. b <= l
    BY <2>1 DEF CallFits, b
  <2>5. n \in Nat /\ b + n = l /\ l <= Len(r.blocks)
    BY <1>3, <2>1, <2>2, <2>3, <2>4
  <2>6. IsOffsets(P, r.blocks)
    BY <1>2 DEF StackFits
  <2>7. ASSUME NEW j \in 0..n
        PROVE  P[b + j] \in Nat /\ P[b] <= P[b + j]
    <3>1. b \in 0..Len(r.blocks) /\ b + j \in 0..Len(r.blocks) /\ b <= b + j
      BY <1>3, <2>2, <2>5
    <3> QED BY <2>6, <3>1 DEF IsOffsets
  <2>8. ASSUME NEW j \in 1..n
        PROVE  P[b + j] = P[b + (j - 1)] + r.blocks[b + j].sp /\ r.blocks[b + j].sp \in Nat
    <3>1. b + j \in 1..Len(r.blocks) /\ (b + j) - 1 = b + (j - 1)
      BY <1>3, <2>2, <2>5
    <3>2. r.blocks[b + j] \in BlockSet
      BY <1>3, <3>1
    <3>3. P[b + j] = P[(b + j) - 1] + r.blocks[b + j].sp
      BY <2>6, <3>1 DEF IsOffsets
    <3> QED BY <3>1, <3>2, <3>3 DEF BlockSet
  <2>9. BlockStart(r, i)[n] = Calls(r)[i].rbp + P[b + n] - P[b]
    <3>1. Calls(r)[i].bcur = b /\ NBlocks(r, i) = n
      BY <2>2 DEF b, n
    <3>2. OffsetsAfter(P, b, n, r.blocks)
      BY <2>7, <2>8 DEF OffsetsAfter
    <3>3. b \in Nat /\ n \in Nat /\ Calls(r)[i].rbp \in Nat
      BY <2>2, <2>5
    <3>4. /\ Calls(r)[i].bcur \in Nat /\ Calls(r)[i].rbp \in Nat /\ NBlocks(r, i) \in Nat
          /\ OffsetsAfter(P, Calls(r)[i].bcur, NBlocks(r, i), r.blocks)
      BY <3>1, <3>2, <3>3
    <3>5. BlockStart(r, i)[NBlocks(r, i)]
            = Calls(r)[i].rbp + P[Calls(r)[i].bcur + NBlocks(r, i)] - P[Calls(r)[i].bcur]
      <4>1. NBlocks(r, i) \in 0..NBlocks(r, i)
        BY <3>4
      <4>2. \A m \in 0..NBlocks(r, i) :
              BlockStart(r, i)[m] = Calls(r)[i].rbp + P[Calls(r)[i].bcur + m] - P[Calls(r)[i].bcur]
        BY <3>4, BlockStartIs
      <4> QED BY <4>1, <4>2
    <3> QED BY <3>1, <3>5
  <2>10. r.bottom <= f.rbp /\ f.bp = f.rbp + P[l] - P[b] /\ f.bp <= EndOf(r, i)
    BY <2>1 DEF CallFits, b
  <2>11. f.bp = BlockStart(r, i)[n]
    BY <2>2, <2>5, <2>9, <2>10
  <2> QED BY <2>5, <2>10, <2>11 DEF f, n
<1>7. Len(r.mem) < r.size
  BY <1>2 DEF StackFits
<1> QED BY <1>4, <1>6, <1>7

(***************************************************************************)
(* One C stack s, given the coroutines K.                                  *)
(***************************************************************************)

(* Activation i resumes (or starts) its coroutine; the others go on in the *)
(* coroutine of the one below.                                             *)
Begins(s, i) == i = 1 \/ (~ s[i].native /\ ~ s[i - 1].native)

Stacks            == Seq(Activation)
On(s, c)          == \E i \in 1..Len(s) : s[i].co = c
Natively(s, n, c) == \E i \in 1..n : s[i].native /\ s[i].co = c
FailsAt(s)        == s # <<>> /\ Last(s).failing

(* What the activations say of each other.  A coroutine is begun once, by  *)
(* a loop that traps; native code is called by the loop or the native code *)
(* below, and has saved whether there was native code of the coroutine     *)
(* already; only the topmost activation fails.                             *)
ShapeAt(s, i) ==
  /\ s[i].native => i > 1 /\ (s[i].byCall <=> s[i - 1].native)
  /\ Begins(s, i) => s[i].trap /\ \A k \in 1..i - 1, j \in i..Len(s) : s[k].co # s[j].co
  /\ ~ Begins(s, i) => s[i].co = s[i - 1].co
  /\ s[i].native /\ ~ s[i].byCall => (s[i].saved <=> Natively(s, i - 1, s[i].co))
  /\ s[i].failing => i = Len(s)
ShapeOK(s) == \A i \in 1..Len(s) : ShapeAt(s, i)

(* h[i] is the call of its coroutine with which activation i began: the    *)
(* call of the function that native code is, and the one above it for what *)
(* native code has called.                                                 *)
HostAt(s, r, h, i) ==
  /\ h[i] \in 1..Depth(r)
  /\ Begins(s, i) => h[i] = 1
  /\ ~ Begins(s, i) /\ s[i - 1].native => h[i] = h[i - 1] + 1
  /\ s[i].native => h[i] \in Natives(r) /\ (i = Len(s) => h[i] = Depth(r))
  /\ \A k \in 1..i - 1 : s[k].co = s[i].co => h[k] < h[i]

(* Native call k of coroutine c is an activation, or the call of a native  *)
(* function that has failed and that its caller has not left yet.          *)
Covered(s, h, c, depth, k) ==
  \/ \E j \in 1..Len(s) : s[j].co = c /\ s[j].native /\ h[j] = k
  \/ /\ s[Len(s)].co = c /\ ~ s[Len(s)].native /\ s[Len(s)].failing
     /\ k = depth /\ h[Len(s)] < k

(* A loop waits for the coroutine it has resumed with that on its stack.   *)
CoroAt(s, r, h, i) ==
  /\ Good(r) /\ r.alive
  /\ \A k \in Natives(r) : Covered(s, h, s[i].co, Depth(r), k)
  /\ r.hasNative <=> Natively(s, Len(s), s[i].co)
  /\ i < Len(s) /\ Begins(s, i + 1) => Avail(r) >= 1

Hosted(s, K, h) ==
  \A i \in 1..Len(s) : HostAt(s, K[s[i].co], h, i) /\ CoroAt(s, K[s[i].co], h, i)

Chain(s, K) ==
  /\ s \in Stacks /\ ShapeOK(s)
  /\ \E h \in [1..Len(s) -> Nat] : Hosted(s, K, h)

(***************************************************************************)
(* One C stack changes.                                                    *)
(***************************************************************************)

(* Its activations.                                                        *)
LEMMA StackTypes ==
  ASSUME NEW s \in Stacks
  PROVE  /\ Len(s) \in Nat /\ s \in Seq(Activation)
         /\ \A i \in 1..Len(s) :
              /\ s[i] \in Activation /\ s[i].co \in Coro
              /\ s[i].native \in BOOLEAN /\ s[i].saved \in BOOLEAN /\ s[i].byCall \in BOOLEAN
              /\ s[i].trap \in BOOLEAN /\ s[i].failing \in BOOLEAN
<1>1. Len(s) \in Nat /\ s \in Seq(Activation)
  BY DEF Stacks
<1>2. \A i \in 1..Len(s) : s[i] \in Activation
  BY <1>1
<1> QED BY <1>1, <1>2 DEF Activation

(* s2 is s up to activation m, which fails or does not.                    *)
EndsAt(s2, s, m, b) ==
  /\ Len(s2) = m
  /\ \A i \in 1..m : /\ s2[i].co = s[i].co /\ s2[i].native = s[i].native /\ s2[i].saved = s[i].saved
                     /\ s2[i].byCall = s[i].byCall /\ s2[i].trap = s[i].trap
                     /\ s2[i].failing = IF i = m THEN b ELSE s[i].failing

(* What the call stack of the coroutine at the top, now q, must be for it. *)
TopFits(s, h, m, b, c, q) ==
  /\ Good(q) /\ q.alive
  /\ h[m] \in 1..Depth(q)
  /\ s[m].native => h[m] = Depth(q)
  /\ \A j \in 1..m : s[j].native /\ s[j].co = c => h[j] \in Natives(q)
  /\ \A k \in Natives(q) : \/ \E j \in 1..m : s[j].co = c /\ s[j].native /\ h[j] = k
                           \/ ~ s[m].native /\ b /\ k = Depth(q) /\ h[m] < k
  /\ q.hasNative <=> Natively(s, m, c)

(* The activations above the m-th, of coroutine c, end; it goes on with
   other call stacks, K2 for K.                                            *)
Kept(s, K, h, m, b, c, s2, K2) ==
  /\ s \in Stacks /\ h \in [1..Len(s) -> Nat] /\ ShapeOK(s) /\ Hosted(s, K, h)
  /\ m \in 1..Len(s) /\ b \in BOOLEAN /\ s2 \in Stacks /\ EndsAt(s2, s, m, b)
  /\ c = s[m].co
  /\ \A i \in m + 1..Len(s), j \in 1..m : s[i].co = s[j].co => s[j].co = c
  /\ \A j \in 1..m : s[j].co # c => K2[s[j].co] = K[s[j].co]
  /\ TopFits(s, h, m, b, c, K2[c])

(* Then the calls are a chain as before.                                   *)
LEMMA TopIs ==
  ASSUME NEW s, NEW K, NEW h, NEW m, NEW b, NEW c, NEW s2, NEW K2, Kept(s, K, h, m, b, c, s2, K2)
  PROVE  Chain(s2, K2)
<1>0. /\ s \in Stacks /\ h \in [1..Len(s) -> Nat] /\ ShapeOK(s) /\ Hosted(s, K, h)
      /\ m \in 1..Len(s) /\ b \in BOOLEAN /\ s2 \in Stacks /\ EndsAt(s2, s, m, b)
      /\ c = s[m].co
      /\ \A i \in m + 1..Len(s), j \in 1..m : s[i].co = s[j].co => s[j].co = c
      /\ \A j \in 1..m : s[j].co # c => K2[s[j].co] = K[s[j].co]
      /\ TopFits(s, h, m, b, c, K2[c])
  BY DEF Kept
<1> USE <1>0
<1> DEFINE n == Len(s)
           q == K2[c]
           g == [i \in 1..m |-> h[i]]
<1>1. n \in Nat /\ m \in Nat /\ m <= n /\ m \in 1..m /\ Len(s2) = m
  BY StackTypes DEF EndsAt
<1>2. \A i \in 1..m : i \in 1..n
  BY <1>1
<1>3. \A i \in 1..m : h[i] \in Nat /\ g[i] = h[i]
  BY <1>2
<1>4. g \in [1..Len(s2) -> Nat]
  BY <1>1, <1>3
<1>5. \A i \in 1..m : /\ s2[i].co = s[i].co /\ s2[i].native = s[i].native /\ s2[i].saved = s[i].saved
                      /\ s2[i].byCall = s[i].byCall /\ s2[i].trap = s[i].trap
                      /\ s2[i].failing = IF i = m THEN b ELSE s[i].failing
  BY DEF EndsAt
<1>6. TopFits(s, h, m, b, c, q)
  OBVIOUS
<1> HIDE DEF n, q, g
<1>7. ASSUME NEW i \in 1..m
      PROVE  i # 1 => i - 1 \in 1..m
  BY <1>1
<1>8. \A i \in 1..m : Begins(s2, i) <=> Begins(s, i)
  BY <1>5, <1>7 DEF Begins
<1>9. ASSUME NEW i \in 0..m, NEW d
      PROVE  Natively(s2, i, d) <=> Natively(s, i, d)
  <2>1. \A j \in 1..i : j \in 1..m
    BY <1>1
  <2> QED BY <1>5, <2>1 DEF Natively
<1>10. ASSUME NEW i \in 1..m
       PROVE  ShapeAt(s, i) /\ HostAt(s, K[s[i].co], h, i) /\ CoroAt(s, K[s[i].co], h, i)
  BY <1>2 DEF ShapeOK, Hosted, n
<1>11. ASSUME NEW i \in 1..m
       PROVE  ShapeAt(s2, i)
  <2>1. ShapeAt(s, i)
    BY <1>10
  <2>2. s2[i].native => i > 1 /\ (s2[i].byCall <=> s2[i - 1].native)
    <3>1. s[i].native => i # 1 /\ i > 1 /\ (s[i].byCall <=> s[i - 1].native)
      BY <2>1 DEF ShapeAt
    <3> QED BY <1>5, <1>7, <3>1
  <2>3. Begins(s2, i) => s2[i].trap /\ \A k \in 1..i - 1, j \in i..m : s2[k].co # s2[j].co
    <3>1. \A j \in i..m : j \in i..Len(s) /\ j \in 1..m
      BY <1>1 DEF n
    <3>2. \A k \in 1..i - 1 : k \in 1..m
      BY <1>1
    <3>3. Begins(s, i) => s[i].trap /\ \A k \in 1..i - 1, j \in i..Len(s) : s[k].co # s[j].co
      BY <2>1 DEF ShapeAt
    <3> QED BY <1>5, <1>8, <3>1, <3>2, <3>3
  <2>4. ~ Begins(s2, i) => s2[i].co = s2[i - 1].co
    <3>1. ~ Begins(s, i) => s[i].co = s[i - 1].co /\ i # 1
      BY <2>1 DEF ShapeAt, Begins
    <3> QED BY <1>5, <1>7, <1>8, <3>1
  <2>5. s2[i].native /\ ~ s2[i].byCall => (s2[i].saved <=> Natively(s2, i - 1, s2[i].co))
    <3>1. s[i].native /\ ~ s[i].byCall => (s[i].saved <=> Natively(s, i - 1, s[i].co))
      BY <2>1 DEF ShapeAt
    <3>2. i - 1 \in 0..m
      BY <1>1
    <3> QED BY <1>5, <1>9, <3>1, <3>2
  <2>6. s2[i].failing => i = m
    <3>1. s[i].failing => i = n
      BY <2>1 DEF ShapeAt, n
    <3> QED BY <1>1, <1>5, <3>1
  <2> QED BY <1>1, <2>2, <2>3, <2>4, <2>5, <2>6 DEF ShapeAt
<1>12. ASSUME NEW i \in 1..m, s[i].co = c
       PROVE  HostAt(s2, q, g, i) /\ CoroAt(s2, q, g, i)
  <2>1. HostAt(s, K[s[i].co], h, i) /\ HostAt(s, K[s[m].co], h, m) /\ h[i] \in Nat /\ h[m] \in Nat
    BY <1>1, <1>3, <1>10
  <2>2. h[i] \in 1..Depth(q)
    <3>1. h[m] \in 1..Depth(q)
      BY <1>6 DEF TopFits
    <3>2. CASE i = m
      BY <3>1, <3>2
    <3>3. CASE i # m
      <4>1. i \in 1..m - 1
        BY <1>1, <3>3
      <4>2. h[i] < h[m]
        BY <1>12, <2>1, <4>1 DEF HostAt
      <4>3. h[i] >= 1
        BY <2>1 DEF HostAt
      <4>4. Depth(q) \in Nat
        BY <1>6, CallTypes DEF TopFits, Good
      <4> QED BY <2>1, <3>1, <4>2, <4>3, <4>4
    <3> QED BY <3>2, <3>3
  <2>3. Begins(s2, i) => g[i] = 1
    BY <1>3, <1>8, <2>1 DEF HostAt
  <2>4. ~ Begins(s2, i) /\ s2[i - 1].native => g[i] = g[i - 1] + 1
    <3>1. ~ Begins(s, i) => i # 1
      BY DEF Begins
    <3> QED BY <1>3, <1>5, <1>7, <1>8, <2>1, <3>1 DEF HostAt
  <2>5. s2[i].native => g[i] \in Natives(q) /\ (i = m => g[i] = Depth(q))
    BY <1>3, <1>5, <1>6, <1>12 DEF TopFits
  <2>6. \A k \in 1..i - 1 : s2[k].co = s2[i].co => g[k] < g[i]
    <3>1. \A k \in 1..i - 1 : k \in 1..m
      BY <1>1
    <3> QED BY <1>3, <1>5, <2>1, <3>1 DEF HostAt
  <2>7. HostAt(s2, q, g, i)
    BY <1>1, <1>3, <2>2, <2>3, <2>4, <2>5, <2>6 DEF HostAt
  <2>8. ASSUME NEW k \in Natives(q)
        PROVE  Covered(s2, g, s2[i].co, Depth(q), k)
    <3>1. \/ \E j \in 1..m : s[j].co = c /\ s[j].native /\ h[j] = k
          \/ ~ s[m].native /\ b /\ k = Depth(q) /\ h[m] < k
      BY <1>6 DEF TopFits
    <3>2. s2[i].co = c /\ s2[m].co = c
      BY <1>1, <1>5, <1>12
    <3>3. CASE \E j \in 1..m : s[j].co = c /\ s[j].native /\ h[j] = k
      BY <1>1, <1>3, <1>5, <3>2, <3>3 DEF Covered
    <3>4. CASE ~ s[m].native /\ b /\ k = Depth(q) /\ h[m] < k
      BY <1>1, <1>3, <1>5, <3>2, <3>4 DEF Covered
    <3> QED BY <3>1, <3>3, <3>4
  <2>9. q.hasNative <=> Natively(s2, m, s2[i].co)
    <3>1. m \in 0..m
      BY <1>1
    <3> QED BY <1>5, <1>6, <1>9, <1>12, <3>1 DEF TopFits
  <2>10. ~ (i < m /\ Begins(s2, i + 1))
    <3> SUFFICES ASSUME i < m, Begins(s, i + 1)
                 PROVE  FALSE
      <4>1. i < m => i + 1 \in 1..m
        BY <1>1
      <4> QED BY <1>8, <4>1
    <3>1. i + 1 \in 1..m /\ i \in 1..(i + 1) - 1 /\ m \in i + 1..Len(s)
      BY <1>1 DEF n
    <3>2. ShapeAt(s, i + 1)
      BY <1>10, <3>1
    <3>3. s[i].co # s[m].co
      BY <3>1, <3>2 DEF ShapeAt
    <3> QED BY <1>12, <3>3
  <2>11. CoroAt(s2, q, g, i)
    BY <1>1, <1>6, <2>8, <2>9, <2>10 DEF CoroAt, TopFits
  <2> QED BY <2>7, <2>11
<1>13. ASSUME NEW i \in 1..m, s[i].co # c
       PROVE  HostAt(s2, K2[s[i].co], g, i) /\ CoroAt(s2, K2[s[i].co], g, i)
  <2> DEFINE d == s[i].co
             r == K[d]
  <2>1. HostAt(s, r, h, i) /\ CoroAt(s, r, h, i)
    BY <1>10
  <2>2. K2[d] = r /\ i # m /\ s2[i].co = d
    BY <1>5, <1>13
  <2>3. ASSUME NEW j \in 1..n, s[j].co = d
        PROVE  j \in 1..m /\ j # m
    <3>1. j \notin m + 1..n
      BY <1>13, <2>3 DEF n
    <3>2. j # m
      BY <1>13, <2>3
    <3> QED BY <1>1, <3>1, <3>2
  <2> HIDE DEF d, r
  <2>4. HostAt(s2, r, g, i)
    <3>1. h[i] \in 1..Depth(r)
      BY <2>1 DEF HostAt
    <3>2. Begins(s2, i) => g[i] = 1
      BY <1>3, <1>8, <2>1 DEF HostAt
    <3>3. ~ Begins(s2, i) /\ s2[i - 1].native => g[i] = g[i - 1] + 1
      <4>1. ~ Begins(s, i) => i # 1
        BY DEF Begins
      <4> QED BY <1>3, <1>5, <1>7, <1>8, <2>1, <4>1 DEF HostAt
    <3>4. s2[i].native => g[i] \in Natives(r) /\ i # m
      BY <1>3, <1>5, <2>1, <2>2 DEF HostAt
    <3>5. \A k \in 1..i - 1 : s2[k].co = s2[i].co => g[k] < g[i]
      <4>1. \A k \in 1..i - 1 : k \in 1..m
        BY <1>1
      <4> QED BY <1>3, <1>5, <2>1, <4>1 DEF HostAt
    <3> QED BY <1>1, <1>3, <3>1, <3>2, <3>3, <3>4, <3>5 DEF HostAt
  <2>5. ASSUME NEW k \in Natives(r)
        PROVE  Covered(s2, g, d, Depth(r), k)
    <3>1. Covered(s, h, d, Depth(r), k)
      BY <2>1 DEF CoroAt, d
    <3>2. s[Len(s)].co # d
      <4>1. CASE n = 0
        BY <1>1, <4>1
      <4>2. CASE n # 0
        <5>1. n \in 1..n
          BY <1>1, <4>2
        <5>2. s[n].co = d => n \in 1..m /\ n # m
          BY <2>3, <5>1
        <5> QED BY <1>1, <5>2 DEF n
      <4> QED BY <4>1, <4>2
    <3>3. PICK j \in 1..Len(s) : s[j].co = d /\ s[j].native /\ h[j] = k
      BY <3>1, <3>2 DEF Covered
    <3>4. j \in 1..m
      BY <2>3, <3>3 DEF n
    <3> QED BY <1>1, <1>3, <1>5, <3>3, <3>4 DEF Covered
  <2>6. r.hasNative <=> Natively(s2, m, d)
    <3>1. r.hasNative <=> Natively(s, Len(s), d)
      BY <2>1 DEF CoroAt, d
    <3>2. Natively(s, Len(s), d) <=> Natively(s, m, d)
      BY <1>2, <2>3 DEF Natively, n
    <3>3. m \in 0..m
      BY <1>1
    <3> QED BY <1>9, <3>1, <3>2, <3>3
  <2>7. i < m /\ Begins(s2, i + 1) => Avail(r) >= 1
    <3>1. i < m => i + 1 \in 1..m /\ i < Len(s)
      BY <1>1 DEF n
    <3> QED BY <1>8, <2>1, <3>1 DEF CoroAt
  <2>8. CoroAt(s2, r, g, i)
    BY <1>1, <2>1, <2>2, <2>5, <2>6, <2>7 DEF CoroAt
  <2> QED BY <2>2, <2>4, <2>8 DEF d
<1>14. ShapeOK(s2)
  BY <1>1, <1>11 DEF ShapeOK
<1>15. Hosted(s2, K2, g)
  BY <1>1, <1>5, <1>12, <1>13 DEF Hosted, q
<1> QED BY <1>4, <1>14, <1>15 DEF Chain

(* The stack with one activation more.                                     *)
LEMMA OneMore ==
  ASSUME NEW s \in Stacks, NEW a \in Activation
  PROVE  LET s2 == Append(s, a)
         IN  /\ s2 \in Stacks /\ Len(s2) = Len(s) + 1 /\ s2[Len(s) + 1] = a
             /\ \A i \in 1..Len(s) : s2[i] = s[i]
<1>1. s \in Seq(Activation)
  BY DEF Stacks
<1> QED BY <1>1, Longer DEF Stacks

(* Native code is called, or calls back: its coroutine has one call more.  *)
LEMMA Pushed ==
  ASSUME NEW s \in Stacks, NEW K, NEW h, ShapeOK(s), Hosted(s, K, h), h \in [1..Len(s) -> Nat],
         s # <<>>, NEW c, c = s[Len(s)].co, ~ s[Len(s)].failing,
         NEW a \in Activation, a.co = c, ~ a.failing, a.native \/ s[Len(s)].native,
         a.native => (a.byCall <=> s[Len(s)].native),
         a.native /\ ~ a.byCall => (a.saved <=> K[c].hasNative),
         NEW K2, \A j \in 1..Len(s) : s[j].co # c => K2[s[j].co] = K[s[j].co],
         NEW q, q = K2[c], Good(q), q.alive, Depth(q) = Depth(K[c]) + 1,
         Natives(q) = Natives(K[c]) \cup (IF a.native THEN {Depth(q)} ELSE {}),
         q.hasNative <=> K[c].hasNative \/ a.native
  PROVE  Chain(Append(s, a), K2)
<1> DEFINE n  == Len(s)
           s2 == Append(s, a)
           p  == K[c]
           g  == [i \in 1..n + 1 |-> IF i = n + 1 THEN Depth(q) ELSE h[i]]
<1>1. n \in Nat \ {0} /\ n \in 1..n
  <2>1. n \in Nat /\ n # 0
    BY StackTypes, EmptySeq DEF Stacks
  <2> QED BY <2>1
<1>2. /\ s2 \in Stacks /\ Len(s2) = n + 1 /\ s2[n + 1] = a
      /\ \A i \in 1..n : s2[i] = s[i]
  BY OneMore
<1>3. Depth(q) \in Nat /\ Depth(p) \in Nat /\ Good(p)
  <2>1. CoroAt(s, p, h, n)
    BY <1>1 DEF Hosted, n
  <2> QED BY <2>1, CallTypes DEF CoroAt, Good
<1>4. \A i \in 1..n : h[i] \in Nat /\ g[i] = h[i]
  BY <1>1
<1>5. g \in [1..Len(s2) -> Nat] /\ g[n + 1] = Depth(q)
  <2>1. \A i \in 1..n + 1 : i = n + 1 \/ i \in 1..n
    BY <1>1
  <2>2. n + 1 \in 1..n + 1
    BY <1>1
  <2> QED BY <1>2, <1>3, <1>4, <2>1, <2>2
<1>6. /\ c = s[n].co /\ ~ s[n].failing /\ a.co = c /\ ~ a.failing
      /\ a.native => (a.byCall <=> s[n].native)
      /\ a.native \/ s[n].native
      /\ \A j \in 1..n : s[j].co # c => K2[s[j].co] = K[s[j].co]
      /\ Depth(q) = Depth(p) + 1
      /\ Natives(q) = Natives(p) \cup (IF a.native THEN {Depth(q)} ELSE {})
      /\ q.hasNative <=> p.hasNative \/ a.native
      /\ a.native /\ ~ a.byCall => (a.saved <=> p.hasNative)
  OBVIOUS
<1>7. \A i \in 1..n : ShapeAt(s, i) /\ HostAt(s, K[s[i].co], h, i) /\ CoroAt(s, K[s[i].co], h, i)
  BY DEF ShapeOK, Hosted, n
<1> HIDE DEF n, s2, p, g
<1>8. \A i \in 1..n + 1 : i = n + 1 \/ i \in 1..n
  BY <1>1
<1>9. \A i \in 1..n : i # 1 => i - 1 \in 1..n
  BY <1>1
<1>10. \A i \in 1..n : Begins(s2, i) <=> Begins(s, i)
  BY <1>2, <1>9 DEF Begins
<1>11. ~ Begins(s2, n + 1)
  <2>1. n + 1 # 1 /\ (n + 1) - 1 = n
    BY <1>1
  <2> QED BY <1>1, <1>2, <1>6, <2>1 DEF Begins
<1>12. \A i \in 0..n : \A d : Natively(s2, i, d) <=> Natively(s, i, d)
  <2> SUFFICES ASSUME NEW i \in 0..n, NEW d
               PROVE  Natively(s2, i, d) <=> Natively(s, i, d)
    OBVIOUS
  <2>1. \A j \in 1..i : j \in 1..n
    BY <1>1
  <2> QED BY <1>2, <2>1 DEF Natively
<1>13. \A d : Natively(s2, n + 1, d) <=> Natively(s, n, d) \/ (a.native /\ d = c)
  <2>1. \A j \in 1..n : j \in 1..n + 1
    BY <1>1
  <2>2. n + 1 \in 1..n + 1
    BY <1>1
  <2> QED BY <1>2, <1>6, <1>8, <2>1, <2>2 DEF Natively
<1>14. Natively(s, n, c) <=> p.hasNative
  BY <1>1, <1>6, <1>7 DEF CoroAt, p, n
<1>15. ASSUME NEW i \in 1..n
       PROVE  ShapeAt(s2, i)
  <2>1. ShapeAt(s, i)
    BY <1>7
  <2>2. s2[i].native => i > 1 /\ (s2[i].byCall <=> s2[i - 1].native)
    <3>1. s[i].native => i # 1 /\ i > 1 /\ (s[i].byCall <=> s[i - 1].native)
      BY <2>1 DEF ShapeAt
    <3> QED BY <1>2, <1>9, <3>1
  <2>3. Begins(s2, i) => s2[i].trap /\ \A k \in 1..i - 1, j \in i..n + 1 : s2[k].co # s2[j].co
    <3> SUFFICES ASSUME Begins(s, i)
                 PROVE  s2[i].trap /\ \A k \in 1..i - 1, j \in i..n + 1 : s2[k].co # s2[j].co
      BY <1>10
    <3>1. s[i].trap /\ \A k \in 1..i - 1, j \in i..Len(s) : s[k].co # s[j].co
      BY <2>1 DEF ShapeAt
    <3>2. ASSUME NEW k \in 1..i - 1, NEW j \in i..n + 1
          PROVE  s2[k].co # s2[j].co
      <4>1. k \in 1..n /\ n \in i..Len(s)
        BY <1>1 DEF n
      <4>2. CASE j = n + 1
        <5>1. s2[j].co = s[n].co
          BY <1>2, <1>6, <4>2
        <5>2. s2[k] = s[k]
          BY <1>2, <4>1
        <5>3. s[k].co # s[n].co
          BY <3>1, <4>1
        <5> QED BY <5>1, <5>2, <5>3
      <4>3. CASE j # n + 1
        <5>1. j \in i..Len(s) /\ j \in 1..n
          BY <1>1, <4>3 DEF n
        <5>2. s2[k] = s[k] /\ s2[j] = s[j]
          BY <1>2, <4>1, <5>1
        <5> QED BY <3>1, <5>1, <5>2
      <4> QED BY <4>2, <4>3
    <3> QED BY <1>2, <3>1, <3>2
  <2>4. ~ Begins(s2, i) => s2[i].co = s2[i - 1].co
    <3>1. ~ Begins(s, i) => s[i].co = s[i - 1].co /\ i # 1
      BY <2>1 DEF ShapeAt, Begins
    <3> QED BY <1>2, <1>9, <1>10, <3>1
  <2>5. s2[i].native /\ ~ s2[i].byCall => (s2[i].saved <=> Natively(s2, i - 1, s2[i].co))
    <3>1. s[i].native /\ ~ s[i].byCall => (s[i].saved <=> Natively(s, i - 1, s[i].co))
      BY <2>1 DEF ShapeAt
    <3>2. i - 1 \in 0..n
      BY <1>1
    <3> QED BY <1>2, <1>12, <3>1, <3>2
  <2>6. ~ s2[i].failing
    <3>1. s[i].failing => i = n
      BY <2>1 DEF ShapeAt, n
    <3> QED BY <1>2, <1>6, <3>1
  <2> QED BY <1>2, <2>2, <2>3, <2>4, <2>5, <2>6 DEF ShapeAt
<1>16. ShapeAt(s2, n + 1)
  <2>1. (n + 1) - 1 = n /\ n + 1 > 1 /\ n \in 0..n
    BY <1>1
  <2>2. s2[n] = s[n] /\ s2[n + 1] = a
    BY <1>1, <1>2
  <2>3. a.native /\ ~ a.byCall => (a.saved <=> Natively(s2, n, c))
    BY <1>6, <1>12, <1>14, <2>1
  <2> QED BY <1>2, <1>6, <1>11, <2>1, <2>2, <2>3 DEF ShapeAt
<1>17. ASSUME NEW i \in 1..n
       PROVE  HostAt(s2, K2[s[i].co], g, i)
  <2> DEFINE r == K2[s[i].co]
  <2>1. HostAt(s, K[s[i].co], h, i)
    BY <1>7
  <2>2. /\ h[i] \in 1..Depth(r)
        /\ s[i].native => h[i] \in Natives(r)
    <3>1. CASE s[i].co = c
      <4>1. r = q /\ K[s[i].co] = p
        BY <3>1 DEF p
      <4>2. h[i] \in 1..Depth(p)
        BY <2>1, <4>1 DEF HostAt
      <4>3. h[i] \in 1..Depth(q)
        BY <1>3, <1>6, <4>2
      <4> QED BY <1>6, <2>1, <4>1, <4>3 DEF HostAt
    <3>2. CASE s[i].co # c
      BY <1>6, <2>1, <3>2 DEF HostAt
    <3> QED BY <3>1, <3>2
  <2> HIDE DEF r
  <2>3. Begins(s2, i) => g[i] = 1
    BY <1>4, <1>10, <2>1 DEF HostAt
  <2>4. ~ Begins(s2, i) /\ s2[i - 1].native => g[i] = g[i - 1] + 1
    <3>1. ~ Begins(s, i) => i # 1
      BY DEF Begins
    <3> QED BY <1>2, <1>4, <1>9, <1>10, <2>1, <3>1 DEF HostAt
  <2>5. s2[i].native => g[i] \in Natives(r)
    BY <1>2, <1>4, <2>2
  <2>6. \A k \in 1..i - 1 : s2[k].co = s2[i].co => g[k] < g[i]
    <3>1. \A k \in 1..i - 1 : k \in 1..n
      BY <1>1
    <3> QED BY <1>2, <1>4, <2>1, <3>1 DEF HostAt
  <2>7. g[i] \in 1..Depth(r) /\ i # Len(s2)
    BY <1>1, <1>2, <1>4, <2>2
  <2> QED BY <2>3, <2>4, <2>5, <2>6, <2>7 DEF HostAt, r
<1>18. HostAt(s2, q, g, n + 1)
  <2>1. (n + 1) - 1 = n /\ s2[n] = s[n] /\ s2[n + 1] = a /\ g[n] = h[n]
    BY <1>1, <1>2, <1>4
  <2>2. Depth(q) \in 1..Depth(q)
    BY <1>3, <1>6
  <2>3. s[n].native => Depth(q) = h[n] + 1
    <3>1. s[n].native => h[n] = Depth(p)
      BY <1>1, <1>6, <1>7 DEF HostAt, p, n
    <3> QED BY <1>3, <1>6, <3>1
  <2>4. a.native => Depth(q) \in Natives(q)
    BY <1>6
  <2>5. ASSUME NEW k \in 1..n, s[k].co = c
        PROVE  h[k] < Depth(q)
    <3>1. h[k] \in 1..Depth(p)
      BY <1>7, <2>5 DEF HostAt, p
    <3> QED BY <1>3, <1>6, <3>1
  <2>6. \A k \in 1..n : s2[k].co = s2[n + 1].co => g[k] < g[n + 1]
    BY <1>2, <1>4, <1>5, <1>6, <2>1, <2>5
  <2> QED BY <1>5, <1>11, <2>1, <2>2, <2>3, <2>4, <2>6 DEF HostAt
<1>19. ASSUME NEW i \in 1..n, NEW k \in Natives(K[s[i].co])
       PROVE  \E j \in 1..n : s[j].co = s[i].co /\ s[j].native /\ h[j] = k
  <2>1. Covered(s, h, s[i].co, Depth(K[s[i].co]), k)
    BY <1>7 DEF CoroAt
  <2> QED BY <1>6, <2>1 DEF Covered, n
<1>20. ASSUME NEW i \in 1..n + 1, s2[i].co = c
       PROVE  CoroAt(s2, q, g, i)
  <2>1. ASSUME NEW k \in Natives(q)
        PROVE  Covered(s2, g, c, Depth(q), k)
    <3>1. CASE k \in Natives(p)
      <4>1. s[n].co = c /\ k \in Natives(K[s[n].co])
        BY <1>6, <3>1 DEF p
      <4>2. \E j \in 1..n : s[j].co = s[n].co /\ s[j].native /\ h[j] = k
        BY <1>1, <1>19, <4>1, Zenon
      <4>3. PICK j \in 1..n : s[j].co = c /\ s[j].native /\ h[j] = k
        BY <4>1, <4>2
      <4>4. j \in 1..n + 1
        BY <1>1
      <4> QED BY <1>2, <1>4, <4>3, <4>4 DEF Covered
    <3>2. CASE k \notin Natives(p)
      <4>1. a.native /\ k = Depth(q)
        BY <1>6, <3>2
      <4>2. n + 1 \in 1..n + 1
        BY <1>1
      <4> QED BY <1>2, <1>5, <1>6, <4>1, <4>2 DEF Covered
    <3> QED BY <3>1, <3>2
  <2>2. q.hasNative <=> Natively(s2, n + 1, c)
    BY <1>6, <1>13, <1>14
  <2>3. ~ (i < n + 1 /\ Begins(s2, i + 1))
    <3> SUFFICES ASSUME i < n + 1, Begins(s2, i + 1)
                 PROVE  FALSE
      OBVIOUS
    <3>1. i \in 1..n /\ i # n
      BY <1>1, <1>8, <1>11
    <3>2. i + 1 \in 1..n /\ i \in 1..(i + 1) - 1 /\ n \in i + 1..Len(s)
      BY <1>1, <3>1 DEF n
    <3>3. s[i].co # s[n].co
      BY <1>7, <1>10, <3>2 DEF ShapeAt
    <3> QED BY <1>2, <1>6, <1>20, <3>1, <3>3
  <2>4. Good(q) /\ q.alive
    OBVIOUS
  <2> QED BY <1>2, <1>20, <2>1, <2>2, <2>3, <2>4 DEF CoroAt
<1>21. ASSUME NEW i \in 1..n, s[i].co # c
       PROVE  CoroAt(s2, K2[s[i].co], g, i)
  <2> DEFINE d == s[i].co
             r == K[d]
  <2>1. CoroAt(s, r, h, i) /\ K2[d] = r /\ d # c
    BY <1>6, <1>7, <1>21
  <2>a. s2[i].co = d
    BY <1>2
  <2>2. ASSUME NEW k \in Natives(r)
        PROVE  Covered(s2, g, d, Depth(r), k)
    <3>1. PICK j \in 1..n : s[j].co = d /\ s[j].native /\ h[j] = k
      BY <1>19
    <3>2. j \in 1..n + 1
      BY <1>1
    <3> QED BY <1>2, <1>4, <3>1, <3>2 DEF Covered
  <2>3. r.hasNative <=> Natively(s2, n + 1, d)
    <3>1. r.hasNative <=> Natively(s, n, d)
      BY <2>1 DEF CoroAt, n
    <3> QED BY <1>13, <2>1, <3>1
  <2>4. i < n + 1 /\ Begins(s2, i + 1) => Avail(r) >= 1
    <3>1. i # n
      BY <1>6, <1>21
    <3>2. i + 1 \in 1..n /\ i < Len(s)
      BY <1>1, <3>1 DEF n
    <3> QED BY <1>10, <2>1, <3>2 DEF CoroAt
  <2> HIDE DEF d, r
  <2>5. CoroAt(s2, r, g, i)
    BY <1>2, <2>1, <2>a, <2>2, <2>3, <2>4 DEF CoroAt
  <2> QED BY <2>1, <2>5 DEF d
<1>22. ShapeOK(s2)
  BY <1>2, <1>8, <1>15, <1>16 DEF ShapeOK
<1>23. Hosted(s2, K2, g)
  <2> SUFFICES ASSUME NEW i \in 1..n + 1
               PROVE  HostAt(s2, K2[s2[i].co], g, i) /\ CoroAt(s2, K2[s2[i].co], g, i)
    BY <1>2 DEF Hosted
  <2>1. CASE i = n + 1
    BY <1>2, <1>6, <1>18, <1>20, <2>1
  <2>2. CASE i \in 1..n
    BY <1>2, <1>17, <1>20, <1>21, <2>2
  <2> QED BY <1>8, <2>1, <2>2
<1> QED BY <1>2, <1>5, <1>22, <1>23 DEF Chain, s2

(* A coroutine is begun: off the stack before, it has no native calls, and *)
(* the loop that resumes it has it on its stack.                           *)
LEMMA Begun ==
  ASSUME NEW s \in Stacks, NEW K, NEW h, ShapeOK(s), Hosted(s, K, h), h \in [1..Len(s) -> Nat],
         NEW a \in Activation, ~ a.native, a.trap, ~ a.failing, ~ On(s, a.co),
         NEW K2, \A j \in 1..Len(s) : K2[s[j].co] = K[s[j].co],
         s # <<>> => /\ ~ s[Len(s)].native /\ ~ s[Len(s)].failing
                     /\ Avail(K[s[Len(s)].co]) >= 1,
         Good(K2[a.co]), K2[a.co].alive, Natives(K2[a.co]) = {}, ~ K2[a.co].hasNative
  PROVE  Chain(Append(s, a), K2)
<1> DEFINE n  == Len(s)
           s2 == Append(s, a)
           d  == a.co
           q  == K2[a.co]
           g  == [i \in 1..n + 1 |-> IF i = n + 1 THEN 1 ELSE h[i]]
<1>1. n \in Nat /\ (n # 0 => s # <<>> /\ n \in 1..n)
  BY StackTypes
<1>2. /\ s2 \in Stacks /\ Len(s2) = n + 1 /\ s2[n + 1] = a
      /\ \A i \in 1..n : s2[i] = s[i]
  BY OneMore
<1>3. Depth(q) \in Nat \ {0} /\ Good(q)
  BY CallTypes DEF Good
<1>4. \A i \in 1..n : h[i] \in Nat /\ g[i] = h[i]
  BY <1>1
<1>5. g \in [1..Len(s2) -> Nat] /\ g[n + 1] = 1
  <2>1. \A i \in 1..n + 1 : i = n + 1 \/ i \in 1..n
    BY <1>1
  <2>2. n + 1 \in 1..n + 1
    BY <1>1
  <2> QED BY <1>2, <1>4, <2>1, <2>2
<1>6. /\ ~ a.native /\ a.trap /\ ~ a.failing
      /\ \A j \in 1..n : K2[s[j].co] = K[s[j].co] /\ s[j].co # d
      /\ n # 0 => ~ s[n].native /\ ~ s[n].failing /\ Avail(K[s[n].co]) >= 1
      /\ q.alive /\ Natives(q) = {} /\ ~ q.hasNative
  BY <1>1 DEF On
<1>7. \A i \in 1..n : ShapeAt(s, i) /\ HostAt(s, K[s[i].co], h, i) /\ CoroAt(s, K[s[i].co], h, i)
  BY DEF ShapeOK, Hosted, n
<1> HIDE DEF n, s2, d, q, g
<1>8. \A i \in 1..n + 1 : i = n + 1 \/ i \in 1..n
  BY <1>1
<1>9. \A i \in 1..n : i # 1 => i - 1 \in 1..n
  BY <1>1
<1>10. \A i \in 1..n : Begins(s2, i) <=> Begins(s, i)
  BY <1>2, <1>9 DEF Begins
<1>11. Begins(s2, n + 1) /\ s2[n + 1].co = d
  <2>1. n = 0 \/ ((n + 1) - 1 = n /\ n \in 1..n)
    BY <1>1
  <2>2. ~ s2[n + 1].native
    BY <1>2, <1>6
  <2>3. n # 0 => ~ s2[(n + 1) - 1].native
    BY <1>2, <1>6, <2>1
  <2> QED BY <1>1, <1>2, <2>2, <2>3 DEF Begins, d
<1>12. \A i \in 0..n : \A e : Natively(s2, i, e) <=> Natively(s, i, e)
  <2> SUFFICES ASSUME NEW i \in 0..n, NEW e
               PROVE  Natively(s2, i, e) <=> Natively(s, i, e)
    OBVIOUS
  <2>1. \A j \in 1..i : j \in 1..n
    BY <1>1
  <2> QED BY <1>2, <2>1 DEF Natively
<1>13. \A e : Natively(s2, n + 1, e) <=> Natively(s, n, e)
  <2>1. \A j \in 1..n : j \in 1..n + 1
    BY <1>1
  <2> QED BY <1>2, <1>6, <1>8, <2>1 DEF Natively
<1>14. ASSUME NEW i \in 1..n
       PROVE  ShapeAt(s2, i)
  <2>1. ShapeAt(s, i)
    BY <1>7
  <2>2. s2[i].native => i > 1 /\ (s2[i].byCall <=> s2[i - 1].native)
    <3>1. s[i].native => i # 1 /\ i > 1 /\ (s[i].byCall <=> s[i - 1].native)
      BY <2>1 DEF ShapeAt
    <3> QED BY <1>2, <1>9, <3>1
  <2>3. Begins(s2, i) => s2[i].trap /\ \A k \in 1..i - 1, j \in i..n + 1 : s2[k].co # s2[j].co
    <3> SUFFICES ASSUME Begins(s, i)
                 PROVE  s2[i].trap /\ \A k \in 1..i - 1, j \in i..n + 1 : s2[k].co # s2[j].co
      BY <1>10
    <3>1. s[i].trap /\ \A k \in 1..i - 1, j \in i..Len(s) : s[k].co # s[j].co
      BY <2>1 DEF ShapeAt
    <3>2. ASSUME NEW k \in 1..i - 1, NEW j \in i..n + 1
          PROVE  s2[k].co # s2[j].co
      <4>1. k \in 1..n
        BY <1>1
      <4>2. CASE j = n + 1
        <5>1. s2[j].co = d
          BY <1>11, <4>2
        <5>2. s2[k] = s[k] /\ s[k].co # d
          BY <1>2, <1>6, <4>1
        <5> QED BY <5>1, <5>2
      <4>3. CASE j # n + 1
        <5>1. j \in i..n /\ j \in 1..n
          <6>1. n \in Nat
            BY <1>1
          <6> QED BY <4>3, <6>1
        <5>2. s2[k] = s[k] /\ s2[j] = s[j]
          BY <1>2, <4>1, <5>1
        <5> QED BY <3>1, <5>1, <5>2 DEF n
      <4> QED BY <4>2, <4>3
    <3> QED BY <1>2, <3>1, <3>2
  <2>4. ~ Begins(s2, i) => s2[i].co = s2[i - 1].co
    <3>1. ~ Begins(s, i) => s[i].co = s[i - 1].co /\ i # 1
      BY <2>1 DEF ShapeAt, Begins
    <3> QED BY <1>2, <1>9, <1>10, <3>1
  <2>5. s2[i].native /\ ~ s2[i].byCall => (s2[i].saved <=> Natively(s2, i - 1, s2[i].co))
    <3>1. s[i].native /\ ~ s[i].byCall => (s[i].saved <=> Natively(s, i - 1, s[i].co))
      BY <2>1 DEF ShapeAt
    <3>2. i - 1 \in 0..n
      BY <1>1
    <3> QED BY <1>2, <1>12, <3>1, <3>2
  <2>6. ~ s2[i].failing
    <3>1. s[i].failing => i = n /\ n # 0
      BY <1>1, <2>1 DEF ShapeAt, n
    <3> QED BY <1>2, <1>6, <3>1
  <2> QED BY <1>2, <2>2, <2>3, <2>4, <2>5, <2>6 DEF ShapeAt
<1>15. ShapeAt(s2, n + 1)
  <2>1. \A k \in 1..(n + 1) - 1, j \in n + 1..n + 1 : k \in 1..n /\ j = n + 1
    BY <1>1
  <2>2. \A k \in 1..(n + 1) - 1, j \in n + 1..n + 1 : s2[k].co # s2[j].co
    BY <1>2, <1>6, <1>11, <2>1
  <2> QED BY <1>2, <1>6, <1>11, <2>2 DEF ShapeAt
<1>16. ASSUME NEW i \in 1..n
       PROVE  HostAt(s2, K2[s[i].co], g, i)
  <2> DEFINE r == K[s[i].co]
  <2>1. HostAt(s, r, h, i) /\ K2[s[i].co] = r
    BY <1>6, <1>7
  <2> HIDE DEF r
  <2>2. Begins(s2, i) => g[i] = 1
    BY <1>4, <1>10, <2>1 DEF HostAt
  <2>3. ~ Begins(s2, i) /\ s2[i - 1].native => g[i] = g[i - 1] + 1
    <3>1. ~ Begins(s, i) => i # 1
      BY DEF Begins
    <3> QED BY <1>2, <1>4, <1>9, <1>10, <2>1, <3>1 DEF HostAt
  <2>4. s2[i].native => g[i] \in Natives(r)
    BY <1>2, <1>4, <2>1 DEF HostAt
  <2>5. \A k \in 1..i - 1 : s2[k].co = s2[i].co => g[k] < g[i]
    <3>1. \A k \in 1..i - 1 : k \in 1..n
      BY <1>1
    <3> QED BY <1>2, <1>4, <2>1, <3>1 DEF HostAt
  <2>6. g[i] \in 1..Depth(r) /\ i # Len(s2)
    <3>1. g[i] \in 1..Depth(r)
      BY <1>4, <2>1 DEF HostAt
    <3> QED BY <1>1, <1>2, <3>1
  <2>7. HostAt(s2, r, g, i)
    BY <2>2, <2>3, <2>4, <2>5, <2>6 DEF HostAt
  <2> QED BY <2>1, <2>7
<1>17. HostAt(s2, q, g, n + 1)
  <2>1. 1 \in 1..Depth(q)
    BY <1>3
  <2>2. \A k \in 1..(n + 1) - 1 : s2[k].co # s2[n + 1].co
    <3>1. \A k \in 1..(n + 1) - 1 : k \in 1..n
      BY <1>1
    <3> QED BY <1>2, <1>6, <1>11, <3>1
  <2> QED BY <1>2, <1>5, <1>6, <1>11, <2>1, <2>2 DEF HostAt
<1>18. ASSUME NEW i \in 1..n
       PROVE  CoroAt(s2, K2[s[i].co], g, i)
  <2> DEFINE e == s[i].co
             r == K[e]
  <2>1. CoroAt(s, r, h, i) /\ K2[e] = r
    BY <1>6, <1>7
  <2>2. s2[i].co = e /\ n # 0
    BY <1>1, <1>2
  <2>3. ASSUME NEW k \in Natives(r)
        PROVE  Covered(s2, g, e, Depth(r), k)
    <3>1. Covered(s, h, e, Depth(r), k)
      BY <2>1 DEF CoroAt
    <3>2. \E j \in 1..n : s[j].co = e /\ s[j].native /\ h[j] = k
      BY <1>6, <2>2, <3>1 DEF Covered, n
    <3>3. PICK j \in 1..n : s[j].co = e /\ s[j].native /\ h[j] = k
      BY <3>2
    <3>4. j \in 1..n + 1
      BY <1>1
    <3> QED BY <1>2, <1>4, <3>3, <3>4 DEF Covered
  <2>4. r.hasNative <=> Natively(s2, n + 1, e)
    <3>1. r.hasNative <=> Natively(s, n, e)
      BY <2>1 DEF CoroAt, n
    <3> QED BY <1>13, <3>1
  <2>5. Begins(s2, i + 1) => Avail(r) >= 1
    <3>1. CASE i = n
      BY <1>6, <2>2, <3>1
    <3>2. CASE i # n
      <4>1. i + 1 \in 1..n /\ i < Len(s)
        BY <1>1, <3>2 DEF n
      <4> QED BY <1>10, <2>1, <4>1 DEF CoroAt
    <3> QED BY <3>1, <3>2
  <2> HIDE DEF e, r
  <2>6. CoroAt(s2, r, g, i)
    BY <1>2, <2>1, <2>2, <2>3, <2>4, <2>5 DEF CoroAt
  <2> QED BY <2>1, <2>6 DEF e
<1>19. CoroAt(s2, q, g, n + 1)
  <2>1. ~ Natively(s2, n + 1, d)
    BY <1>6, <1>13 DEF Natively
  <2>2. ~ (n + 1 < n + 1)
    BY <1>1
  <2> QED BY <1>2, <1>3, <1>6, <1>11, <2>1, <2>2 DEF CoroAt
<1>20. ShapeOK(s2)
  BY <1>2, <1>8, <1>14, <1>15 DEF ShapeOK
<1>21. Hosted(s2, K2, g)
  <2> SUFFICES ASSUME NEW i \in 1..n + 1
               PROVE  HostAt(s2, K2[s2[i].co], g, i) /\ CoroAt(s2, K2[s2[i].co], g, i)
    BY <1>2 DEF Hosted
  <2>1. CASE i = n + 1
    BY <1>11, <1>17, <1>19, <2>1 DEF d, q
  <2>2. CASE i \in 1..n
    BY <1>2, <1>16, <1>18, <2>2
  <2> QED BY <1>8, <2>1, <2>2
<1> QED BY <1>2, <1>5, <1>20, <1>21 DEF Chain, s2

(* Other coroutines than those of the stack do not matter.                 *)
LEMMA SameChain ==
  ASSUME NEW s, NEW K, Chain(s, K), NEW K2, \A j \in 1..Len(s) : K2[s[j].co] = K[s[j].co]
  PROVE  Chain(s, K2)
<1>1. PICK h \in [1..Len(s) -> Nat] : Hosted(s, K, h)
  BY DEF Chain
<1>2. Hosted(s, K2, h)
  BY <1>1 DEF Hosted
<1> QED BY <1>1, <1>2 DEF Chain

(* A thread that runs nothing.                                              *)
LEMMA NoChain ==
  ASSUME NEW K
  PROVE  Chain(<<>>, K)
<1>1. Len(<<>>) = 0 /\ <<>> \in Stacks /\ 1..0 = {}
  BY DEF Stacks
<1>2. ShapeOK(<<>>) /\ [i \in 1..0 |-> 0] \in [1..0 -> Nat] /\ Hosted(<<>>, K, [i \in 1..0 |-> 0])
  BY <1>1 DEF ShapeOK, Hosted
<1> QED BY <1>1, <1>2 DEF Chain

(***************************************************************************)
(* The activation at the top, and the coroutine it runs.                   *)
(***************************************************************************)
Held(s, K, h) == /\ s \in Stacks /\ ShapeOK(s)
                 /\ h \in [1..Len(s) -> Nat] /\ Hosted(s, K, h)

(* The coroutine at the top, and the call it hosts.                         *)
LEMMA TopFacts ==
  ASSUME NEW s, NEW K, NEW h, Held(s, K, h), s # <<>>
  PROVE  LET n == Len(s)  c == s[n].co  r == K[c]
         IN  /\ n \in Nat \ {0} /\ n \in 1..n /\ Last(s) = s[n] /\ s[n] \in Activation /\ c \in Coro
             /\ Good(r) /\ r.alive /\ Depth(r) \in Nat \ {0} /\ h[n] \in 1..Depth(r)
             /\ s[n].native => h[n] = Depth(r)
             /\ r.hasNative <=> Natively(s, n, c)
             /\ \A j \in 1..n : s[j].native /\ s[j].co = c => h[j] \in Natives(r)
             /\ \A k \in Natives(r) : Covered(s, h, c, Depth(r), k)
             /\ \A j \in 1..n - 1 : h[j] \in Nat /\ (s[j].co = c => h[j] < h[n])
             /\ \A j \in 1..n - 1 : ~ s[j].failing
<1> DEFINE n == Len(s)
           c == s[n].co
           r == K[c]
<1>1. n \in Nat \ {0} /\ n \in 1..n /\ Last(s) = s[n]
  <2>1. n \in Nat /\ n # 0
    BY StackTypes, EmptySeq DEF Held, Stacks
  <2> QED BY <2>1 DEF Last
<1>2. s[n] \in Activation /\ c \in Coro
  BY <1>1, StackTypes DEF Held
<1>3. \A i \in 1..n : HostAt(s, K[s[i].co], h, i) /\ CoroAt(s, K[s[i].co], h, i) /\ ShapeAt(s, i) /\ h[i] \in Nat
  BY DEF Held, Hosted, ShapeOK
<1>4. HostAt(s, r, h, n) /\ CoroAt(s, r, h, n)
  BY <1>1, <1>3
<1> HIDE DEF n, c, r
<1>5. Good(r) /\ r.alive /\ (r.hasNative <=> Natively(s, n, c))
  BY <1>4 DEF CoroAt, n, c
<1>6. Depth(r) \in Nat \ {0}
  BY <1>5, CallTypes DEF Good
<1>7. h[n] \in 1..Depth(r) /\ (s[n].native => h[n] = Depth(r))
  BY <1>4 DEF HostAt, n
<1>8. \A k \in Natives(r) : Covered(s, h, c, Depth(r), k)
  BY <1>4 DEF CoroAt, c
<1>9. \A j \in 1..n : s[j].native /\ s[j].co = c => h[j] \in Natives(r)
  BY <1>3 DEF HostAt, r
<1>10. \A j \in 1..n - 1 : h[j] \in Nat /\ (s[j].co = c => h[j] < h[n])
  <2>1. \A j \in 1..n - 1 : j \in 1..n
    BY <1>1
  <2>2. \A j \in 1..n - 1 : s[j].co = c => h[j] < h[n]
    BY <1>4 DEF HostAt, c
  <2> QED BY <1>3, <2>1, <2>2
<1>11. \A j \in 1..n - 1 : ~ s[j].failing
  <2>1. \A j \in 1..n - 1 : j \in 1..n /\ j # n
    BY <1>1
  <2> QED BY <1>3, <2>1 DEF ShapeAt, n
<1> QED BY <1>1, <1>2, <1>5, <1>6, <1>7, <1>8, <1>9, <1>10, <1>11 DEF n, c, r

(* Native code is called by the activation below, in the same coroutine.   *)
LEMMA NativeTop ==
  ASSUME NEW s, NEW K, NEW h, Held(s, K, h), s # <<>>, s[Len(s)].native
  PROVE  LET n == Len(s)  c == s[n].co  r == K[c]
         IN  /\ n - 1 \in 1..n - 1 /\ s[n - 1].co = c
             /\ r.runtime.native /\ Depth(r) \in Natives(r) /\ r.frames # <<>>
             /\ s[n].byCall <=> s[n - 1].native
             /\ s[n - 1].native => h[n] = h[n - 1] + 1
             /\ ~ s[n].byCall => (s[n].saved <=> Natively(s, n - 1, c))
<1> DEFINE n == Len(s)
           c == s[n].co
           r == K[c]
<1>1. /\ n \in Nat \ {0} /\ n \in 1..n /\ Good(r) /\ Depth(r) \in Nat \ {0}
      /\ h[n] = Depth(r) /\ h[n] \in Natives(r)
      /\ \A j \in 1..n - 1 : h[j] \in Nat /\ (s[j].co = c => h[j] < h[n])
  BY TopFacts
<1>2. ShapeAt(s, n) /\ HostAt(s, r, h, n)
  BY <1>1 DEF Held, Hosted, ShapeOK
<1>3. s[n].native
  OBVIOUS
<1>4. \A i \in 1..n : h[i] >= 1
  <2> SUFFICES ASSUME NEW i \in 1..n
               PROVE  h[i] >= 1
    OBVIOUS
  <2>1. h[i] \in 1..Depth(K[s[i].co])
    BY DEF Held, Hosted, HostAt
  <2> QED BY <2>1
<1> HIDE DEF n, c, r
<1>5. n > 1 /\ n # 1 /\ (s[n].byCall <=> s[n - 1].native)
  BY <1>1, <1>2, <1>3 DEF ShapeAt
<1>6. ~ Begins(s, n)
  BY <1>3, <1>5 DEF Begins
<1>7. s[n - 1].co = c /\ (s[n - 1].native => h[n] = h[n - 1] + 1)
  BY <1>2, <1>6 DEF ShapeAt, HostAt, c
<1>8. n - 1 \in 1..n - 1 /\ n - 1 \in 1..n
  BY <1>1, <1>5
<1>9. ~ s[n].byCall => (s[n].saved <=> Natively(s, n - 1, c))
  BY <1>2, <1>3 DEF ShapeAt, c
<1>10. r.runtime.native /\ Depth(r) \in Natives(r)
  BY <1>1, CallTypes DEF Good
<1>11. r.frames # <<>>
  <2>1. h[n - 1] < h[n] /\ h[n - 1] >= 1 /\ h[n - 1] \in Nat
    BY <1>1, <1>4, <1>7, <1>8
  <2>2. Depth(r) # 1
    BY <1>1, <2>1
  <2> QED BY <2>2, EmptySeq DEF Depth
<1> QED BY <1>5, <1>7, <1>8, <1>9, <1>10, <1>11 DEF n, c, r

(* A loop at the top that no exception passes runs no native call; when    *)
(* the call it runs is not the one it has been entered with, or that is    *)
(* the root, it returns to the interpreter or ends the coroutine.          *)
LEMMA LoopTop ==
  ASSUME NEW s, NEW K, NEW h, Held(s, K, h), s # <<>>, ~ s[Len(s)].native
  PROVE  LET n == Len(s)  c == s[n].co  r == K[c]
         IN  /\ ~ s[n].failing => Depth(r) \notin Natives(r)
             /\ ~ Begins(s, n) => /\ n - 1 \in 1..n - 1 /\ s[n - 1].co = c /\ s[n - 1].native
                                  /\ h[n] = h[n - 1] + 1 /\ h[n - 1] \in Natives(r)
             /\ Begins(s, n) => h[n] = 1
             /\ r.frames = <<>> => Begins(s, n)
             /\ ~ r.hasNative => Begins(s, n) /\ (~ s[n].failing => Natives(r) = {})
<1> DEFINE n == Len(s)
           c == s[n].co
           r == K[c]
<1>1. /\ n \in Nat \ {0} /\ n \in 1..n /\ Good(r) /\ Depth(r) \in Nat \ {0} /\ h[n] \in 1..Depth(r)
      /\ r.hasNative <=> Natively(s, n, c)
      /\ \A j \in 1..n : s[j].native /\ s[j].co = c => h[j] \in Natives(r)
      /\ \A k \in Natives(r) : Covered(s, h, c, Depth(r), k)
      /\ \A j \in 1..n - 1 : h[j] \in Nat /\ (s[j].co = c => h[j] < h[n])
  BY TopFacts
<1>2. ShapeAt(s, n) /\ HostAt(s, r, h, n)
  BY <1>1 DEF Held, Hosted, ShapeOK
<1>3. ~ s[n].native
  OBVIOUS
<1> HIDE DEF n, c, r
<1>4. ASSUME NEW j \in 1..n, s[j].native
      PROVE  j \in 1..n - 1
  BY <1>1, <1>3, <1>4
<1>5. ASSUME NEW k \in Natives(r), ~ s[n].failing
      PROVE  \E j \in 1..n : s[j].co = c /\ s[j].native /\ h[j] = k
  <2>1. Covered(s, h, c, Depth(r), k)
    BY <1>1
  <2> QED BY <1>5, <2>1 DEF Covered, n
<1>6. ~ s[n].failing => Depth(r) \notin Natives(r)
  <2> SUFFICES ASSUME ~ s[n].failing, Depth(r) \in Natives(r)
               PROVE  FALSE
    OBVIOUS
  <2>1. PICK j \in 1..n : s[j].co = c /\ s[j].native /\ h[j] = Depth(r)
    BY <1>5
  <2>2. h[j] < h[n] /\ h[j] \in Nat
    BY <1>1, <1>4, <2>1
  <2> QED BY <1>1, <2>1, <2>2
<1>7. ~ Begins(s, n) => /\ n - 1 \in 1..n - 1 /\ s[n - 1].co = c /\ s[n - 1].native
                        /\ h[n] = h[n - 1] + 1 /\ h[n - 1] \in Natives(r)
  <2> SUFFICES ASSUME ~ Begins(s, n)
               PROVE  /\ n - 1 \in 1..n - 1 /\ s[n - 1].co = c /\ s[n - 1].native
                      /\ h[n] = h[n - 1] + 1 /\ h[n - 1] \in Natives(r)
    OBVIOUS
  <2>1. n # 1 /\ s[n - 1].native
    BY <1>3 DEF Begins
  <2>2. n - 1 \in 1..n - 1 /\ n - 1 \in 1..n
    BY <1>1, <2>1
  <2>3. s[n - 1].co = c /\ h[n] = h[n - 1] + 1
    BY <1>2, <2>1 DEF ShapeAt, HostAt, c
  <2> QED BY <1>1, <2>1, <2>2, <2>3
<1>8. Begins(s, n) => h[n] = 1
  BY <1>2 DEF HostAt
<1>9. r.frames = <<>> => Begins(s, n)
  <2> SUFFICES ASSUME r.frames = <<>>, ~ Begins(s, n)
               PROVE  FALSE
    OBVIOUS
  <2>1. Depth(r) = 1
    BY EmptySeq DEF Depth
  <2>2. h[n - 1] \in 1..1
    BY <1>1, <1>7, <2>1, CallTypes DEF Good
  <2> QED BY <1>1, <1>7, <2>1, <2>2
<1>10. ~ r.hasNative => Begins(s, n) /\ (~ s[n].failing => Natives(r) = {})
  <2> SUFFICES ASSUME ~ r.hasNative
               PROVE  Begins(s, n) /\ (~ s[n].failing => Natives(r) = {})
    OBVIOUS
  <2>1. \A j \in 1..n : ~ (s[j].native /\ s[j].co = c)
    BY <1>1 DEF Natively
  <2>2. \A j \in 1..n - 1 : j \in 1..n
    BY <1>1
  <2> QED BY <1>5, <1>7, <2>1, <2>2
<1> QED BY <1>6, <1>7, <1>8, <1>9, <1>10 DEF n, c, r

(***************************************************************************)
(* The steps of the activation at the top.                                 *)
(***************************************************************************)

(* The other coroutines of the stack stay as they are.                     *)
Others(s, K, K2) == \A j \in 1..Len(s) : s[j].co # Last(s).co => K2[s[j].co] = K[s[j].co]

(* Each loop hosts a call.                                                  *)
LEMMA ChainHeld ==
  ASSUME NEW s, NEW K, Chain(s, K)
  PROVE  \E h : Held(s, K, h)
BY DEF Chain, Held

(* The activation at the top goes on.                                       *)
LEMMA TopGoesOn ==
  ASSUME NEW s, NEW K, NEW h, Held(s, K, h), s # <<>>, NEW K2, Others(s, K, K2),
         NEW b \in BOOLEAN, NEW s2 \in Stacks, EndsAt(s2, s, Len(s), b),
         TopFits(s, h, Len(s), b, Last(s).co, K2[Last(s).co])
  PROVE  Chain(s2, K2)
<1>1. /\ Len(s) \in Nat \ {0} /\ Len(s) \in 1..Len(s) /\ Last(s) = s[Len(s)]
  BY TopFacts
<1>2. s \in Stacks /\ ShapeOK(s) /\ h \in [1..Len(s) -> Nat] /\ Hosted(s, K, h)
  BY DEF Held
<1>3. Len(s) + 1..Len(s) = {}
  BY <1>1
<1>4. Kept(s, K, h, Len(s), b, Last(s).co, s2, K2)
  BY <1>1, <1>2, <1>3 DEF Others, Kept
<1> QED BY <1>4, TopIs

(* The activation below goes on, in the same coroutine.                    *)
LEMMA BelowGoesOn ==
  ASSUME NEW s, NEW K, NEW h, Held(s, K, h), s # <<>>, NEW K2, Others(s, K, K2),
         Len(s) - 1 \in 1..Len(s) - 1, s[Len(s) - 1].co = Last(s).co,
         NEW b \in BOOLEAN, NEW s2 \in Stacks, EndsAt(s2, s, Len(s) - 1, b),
         TopFits(s, h, Len(s) - 1, b, Last(s).co, K2[Last(s).co])
  PROVE  Chain(s2, K2)
<1>1. PICK m, c : m = Len(s) - 1 /\ c = Last(s).co
  OBVIOUS
<1>2. /\ Len(s) \in Nat \ {0} /\ Last(s) = s[Len(s)]
      /\ m \in 1..Len(s) /\ m + 1 = Len(s) /\ m \in Nat
  BY <1>1, TopFacts
<1>3. s \in Stacks /\ ShapeOK(s) /\ h \in [1..Len(s) -> Nat] /\ Hosted(s, K, h)
  BY DEF Held
<1>4. \A j \in 1..m : s[j].co # c => K2[s[j].co] = K[s[j].co]
  BY <1>1, <1>2 DEF Others
<1>5. c = s[m].co /\ EndsAt(s2, s, m, b) /\ TopFits(s, h, m, b, c, K2[c])
  BY <1>1
<1>6. \A i \in m + 1..Len(s), j \in 1..m : s[i].co = s[j].co => s[j].co = c
  <2>1. \A i \in m + 1..Len(s) : s[i].co = c
    BY <1>1, <1>2
  <2> QED BY <2>1
<1>7. Kept(s, K, h, m, b, c, s2, K2)
  BY <1>2, <1>3, <1>4, <1>5, <1>6 DEF Kept
<1> QED BY <1>7, TopIs

(* The same calls; an exception comes, or none has to leave a native call. *)
LEMMA SameCallsGoOn ==
  ASSUME NEW s, NEW K, Chain(s, K), s # <<>>, NEW K2, Others(s, K, K2),
         NEW b \in BOOLEAN, NEW s2 \in Stacks, EndsAt(s2, s, Len(s), b),
         LET q == K2[Last(s).co]  r == K[Last(s).co]
         IN  /\ Good(q) /\ q.alive /\ q.hasNative = r.hasNative /\ SameCalls(q, r)
             /\ b \/ ~ Last(s).failing \/ Depth(r) \notin Natives(r)
  PROVE  Chain(s2, K2)
<1> DEFINE n == Len(s)
           c == Last(s).co
           r == K[c]
           q == K2[c]
<1>1. PICK h : Held(s, K, h)
  BY ChainHeld
<1>2. /\ n \in Nat \ {0} /\ n \in 1..n /\ Last(s) = s[n] /\ h[n] \in 1..Depth(r)
      /\ s[n].native => h[n] = Depth(r)
      /\ r.hasNative <=> Natively(s, n, c)
      /\ \A j \in 1..n : s[j].native /\ s[j].co = c => h[j] \in Natives(r)
      /\ \A k \in Natives(r) : Covered(s, h, c, Depth(r), k)
  BY <1>1, TopFacts
<1>3. /\ Good(q) /\ q.alive /\ q.hasNative = r.hasNative /\ Depth(q) = Depth(r) /\ Natives(q) = Natives(r)
      /\ b \/ ~ Last(s).failing \/ Depth(r) \notin Natives(r)
  BY DEF SameCalls
<1> HIDE DEF n, c, r, q
<1>4. ASSUME NEW k \in Natives(q)
      PROVE  \/ \E j \in 1..n : s[j].co = c /\ s[j].native /\ h[j] = k
             \/ ~ s[n].native /\ b /\ k = Depth(q) /\ h[n] < k
  <2>1. Covered(s, h, c, Depth(r), k) /\ k \in Natives(r)
    BY <1>2, <1>3
  <2> QED BY <1>2, <1>3, <2>1 DEF Covered, n
<1>5. TopFits(s, h, n, b, c, q)
  BY <1>2, <1>3, <1>4 DEF TopFits
<1> QED BY <1>1, <1>5, TopGoesOn DEF n, c, q

(* The interpreter calls a function that is not native.                    *)
LEMMA InkCallGoesOn ==
  ASSUME NEW s, NEW K, Chain(s, K), s # <<>>, ~ Last(s).native, ~ Last(s).failing,
         NEW K2, Others(s, K, K2),
         LET q == K2[Last(s).co]  r == K[Last(s).co]
         IN  /\ Good(q) /\ q.alive /\ q.hasNative = r.hasNative
             /\ Depth(q) = Depth(r) + 1 /\ Natives(q) = Natives(r)
  PROVE  Chain(s, K2)
<1> DEFINE n == Len(s)
           c == Last(s).co
           r == K[c]
           q == K2[c]
<1>1. PICK h : Held(s, K, h)
  BY ChainHeld
<1>2. /\ n \in Nat \ {0} /\ n \in 1..n /\ Last(s) = s[n] /\ h[n] \in 1..Depth(r)
      /\ Depth(r) \in Nat \ {0}
      /\ r.hasNative <=> Natively(s, n, c)
      /\ \A j \in 1..n : s[j].native /\ s[j].co = c => h[j] \in Natives(r)
      /\ \A k \in Natives(r) : Covered(s, h, c, Depth(r), k)
      /\ s[n] \in Activation
  BY <1>1, TopFacts
<1>3. /\ Good(q) /\ q.alive /\ q.hasNative = r.hasNative
      /\ Depth(q) = Depth(r) + 1 /\ Natives(q) = Natives(r)
      /\ ~ s[n].native /\ ~ s[n].failing /\ s \in Stacks
  BY <1>2 DEF Chain
<1>4. EndsAt(s, s, n, FALSE)
  <2>1. \A j \in 1..n : s[j].failing = IF j = n THEN FALSE ELSE s[j].failing
    <3>1. s[n].failing = FALSE
      BY <1>2, <1>3 DEF Activation
    <3> QED BY <3>1
  <2> QED BY <2>1 DEF EndsAt, n
<1> HIDE DEF n, c, r, q
<1>5. ASSUME NEW k \in Natives(q)
      PROVE  \E j \in 1..n : s[j].co = c /\ s[j].native /\ h[j] = k
  <2>1. Covered(s, h, c, Depth(r), k)
    BY <1>2, <1>3
  <2> QED BY <1>2, <1>3, <2>1 DEF Covered, n
<1>6. h[n] \in 1..Depth(q)
  BY <1>2, <1>3
<1>7. TopFits(s, h, n, FALSE, c, q)
  BY <1>2, <1>3, <1>5, <1>6 DEF TopFits
<1> QED BY <1>1, <1>3, <1>4, <1>7, TopGoesOn DEF n, c, q

(* The call that runs is left.                                             *)
Left(q, r) ==
  /\ Good(q) /\ q.alive /\ Depth(q) = Depth(r) - 1 /\ Natives(q) = Natives(r) \ {Depth(r)}

(* A call returns to the interpreter, or is unwound.                       *)
LEMMA InkReturnGoesOn ==
  ASSUME NEW s, NEW K, Chain(s, K), s # <<>>, ~ Last(s).native,
         NEW K2, Others(s, K, K2),
         LET q == K2[Last(s).co]  r == K[Last(s).co]
         IN  r.frames # <<>> /\ Left(q, r) /\ q.hasNative = r.hasNative /\ Depth(r) - 1 \notin Natives(r)
  PROVE  Chain(s, K2)
<1> DEFINE n == Len(s)
           c == Last(s).co
           r == K[c]
           q == K2[c]
           b == Last(s).failing
<1>1. PICK h : Held(s, K, h)
  BY ChainHeld
<1>2. /\ n \in Nat \ {0} /\ n \in 1..n /\ Last(s) = s[n] /\ h[n] \in 1..Depth(r)
      /\ Depth(r) \in Nat \ {0} /\ s[n] \in Activation /\ Good(r)
      /\ r.hasNative <=> Natively(s, n, c)
      /\ \A j \in 1..n : s[j].native /\ s[j].co = c => h[j] \in Natives(r)
      /\ \A k \in Natives(r) : Covered(s, h, c, Depth(r), k)
      /\ \A j \in 1..n - 1 : h[j] \in Nat /\ (s[j].co = c => h[j] < h[n])
  BY <1>1, TopFacts
<1>3. /\ Good(q) /\ q.alive /\ q.hasNative = r.hasNative /\ r.frames # <<>>
      /\ Depth(q) = Depth(r) - 1 /\ Natives(q) = Natives(r) \ {Depth(r)}
      /\ ~ s[n].native /\ s \in Stacks /\ b = s[n].failing /\ Depth(r) - 1 \notin Natives(r)
  BY <1>2 DEF Chain, Left
<1>4. EndsAt(s, s, n, b) /\ b \in BOOLEAN
  BY <1>2, <1>3 DEF EndsAt, n, Activation
<1>5. /\ ~ Begins(s, n) => n - 1 \in 1..n - 1 /\ h[n] = h[n - 1] + 1 /\ h[n - 1] \in Natives(r)
      /\ Begins(s, n) => h[n] = 1
  BY <1>1, <1>2, <1>3, LoopTop
<1>6. Depth(r) > 1
  <2>1. Len(r.frames) \in Nat /\ Len(r.frames) # 0
    <3>1. r.frames \in Seq(FrameSet)
      BY <1>2, CoroFields DEF Good
    <3> QED BY <1>3, <3>1, EmptySeq
  <2> QED BY <2>1 DEF Depth
<1> HIDE DEF n, c, r, q, b
<1>7. h[n] <= Depth(r) - 1
  <2> SUFFICES ASSUME h[n] = Depth(r)
               PROVE  FALSE
    BY <1>2
  <2>1. ~ Begins(s, n)
    BY <1>5, <1>6
  <2>2. h[n - 1] \in Nat
    BY <1>2, <1>5, <2>1
  <2> QED BY <1>2, <1>3, <1>5, <2>1, <2>2
<1>8. h[n] \in 1..Depth(q)
  BY <1>2, <1>3, <1>7
<1>9. ASSUME NEW j \in 1..n, s[j].native, s[j].co = c
      PROVE  h[j] \in Natives(q)
  <2>1. j \in 1..n - 1
    BY <1>2, <1>3, <1>9
  <2>2. h[j] < h[n] /\ h[j] \in Nat
    BY <1>2, <1>9, <2>1
  <2>3. h[j] # Depth(r)
    BY <1>2, <1>7, <2>2
  <2> QED BY <1>2, <1>3, <1>9, <2>3
<1>10. ASSUME NEW k \in Natives(q)
       PROVE  \E j \in 1..n : s[j].co = c /\ s[j].native /\ h[j] = k
  <2>1. k \in Natives(r) /\ k # Depth(r)
    BY <1>3
  <2>2. Covered(s, h, c, Depth(r), k)
    BY <1>2, <2>1
  <2> QED BY <2>1, <2>2 DEF Covered, n
<1>11. TopFits(s, h, n, b, c, q)
  BY <1>2, <1>3, <1>8, <1>9, <1>10 DEF TopFits
<1> QED BY <1>1, <1>3, <1>4, <1>11, TopGoesOn DEF n, c, q

(* The function that native code has called is left: the native code goes  *)
(* on, with an exception or without.                                       *)
LEMMA CallbackEnds ==
  ASSUME NEW s, NEW K, Chain(s, K), s # <<>>, ~ Last(s).native,
         LET r == K[Last(s).co] IN r.frames # <<>> /\ Depth(r) - 1 \in Natives(r)
  PROVE  LET m == Len(s) - 1
         IN  /\ m \in 1..m /\ s[m].native /\ s[m].co = Last(s).co
             /\ \A K2, b, s2 :
                  /\ Others(s, K, K2) /\ Left(K2[Last(s).co], K[Last(s).co])
                  /\ K2[Last(s).co].hasNative = K[Last(s).co].hasNative
                  /\ b \in BOOLEAN /\ s2 \in Stacks /\ EndsAt(s2, s, m, b)
                  => Chain(s2, K2)
<1> DEFINE n == Len(s)
           m == n - 1
           c == Last(s).co
           r == K[c]
<1>1. PICK h : Held(s, K, h)
  BY ChainHeld
<1>2. /\ n \in Nat \ {0} /\ n \in 1..n /\ Last(s) = s[n] /\ h[n] \in 1..Depth(r)
      /\ Depth(r) \in Nat \ {0} /\ Good(r) /\ r.alive
      /\ r.hasNative <=> Natively(s, n, c)
      /\ \A j \in 1..n : s[j].native /\ s[j].co = c => h[j] \in Natives(r)
      /\ \A k \in Natives(r) : Covered(s, h, c, Depth(r), k)
      /\ \A j \in 1..n - 1 : h[j] \in Nat /\ (s[j].co = c => h[j] < h[n])
  BY <1>1, TopFacts
<1>3. ~ s[n].native /\ r.frames # <<>> /\ Depth(r) - 1 \in Natives(r)
  BY <1>2
<1>4. /\ ~ Begins(s, n) => /\ m \in 1..m /\ s[m].co = c /\ s[m].native
                           /\ h[n] = h[m] + 1 /\ h[m] \in Natives(r)
      /\ Begins(s, n) => h[n] = 1
  BY <1>1, <1>2, <1>3, LoopTop
<1> HIDE DEF n, m, c, r
<1>5. ASSUME NEW j \in 1..n, s[j].native
      PROVE  j \in 1..m
  BY <1>2, <1>3, <1>5 DEF m
<1>6. PICK j0 \in 1..n : s[j0].co = c /\ s[j0].native /\ h[j0] = Depth(r) - 1
  <2>1. Covered(s, h, c, Depth(r), Depth(r) - 1)
    BY <1>2, <1>3
  <2>2. Depth(r) - 1 # Depth(r)
    BY <1>2
  <2> QED BY <2>1, <2>2 DEF Covered, n
<1>7. h[n] = Depth(r) /\ Depth(r) > 1
  <2>1. j0 \in 1..n - 1
    BY <1>5, <1>6 DEF m
  <2>2. h[j0] \in Nat /\ h[j0] < h[n]
    BY <1>2, <1>6, <2>1
  <2>3. Depth(r) - 1 \in 1..Depth(r)
    BY <1>2, <1>3, CallTypes DEF Good
  <2> QED BY <1>2, <1>6, <2>2, <2>3
<1>8. /\ m \in 1..m /\ s[m].co = c /\ s[m].native /\ h[m] = Depth(r) - 1
      /\ m \in 1..n - 1
  <2>1. ~ Begins(s, n)
    BY <1>4, <1>7
  <2>2. m \in 1..n - 1
    BY <1>4, <2>1 DEF m
  <2>3. h[m] \in Nat
    BY <1>2, <2>2
  <2> QED BY <1>2, <1>4, <1>7, <2>1, <2>2, <2>3
<1>9. ASSUME NEW K2, NEW b \in BOOLEAN, NEW s2 \in Stacks, EndsAt(s2, s, m, b), Others(s, K, K2),
             Left(K2[c], r), K2[c].hasNative = r.hasNative
      PROVE  Chain(s2, K2)
  <2> DEFINE q == K2[c]
  <2>1. /\ Good(q) /\ q.alive /\ Depth(q) = Depth(r) - 1 /\ Natives(q) = Natives(r) \ {Depth(r)}
        /\ q.hasNative = r.hasNative
    BY <1>9 DEF Left
  <2> HIDE DEF q
  <2>2. h[m] \in 1..Depth(q) /\ h[m] = Depth(q)
    BY <1>2, <1>7, <1>8, <2>1
  <2>3. ASSUME NEW j \in 1..m, s[j].native, s[j].co = c
        PROVE  h[j] \in Natives(q)
    <3>1. j \in 1..n /\ j \in 1..n - 1
      BY <1>2 DEF m
    <3>2. h[j] \in Natives(r) /\ h[j] < h[n] /\ h[j] \in Nat
      BY <1>2, <2>3, <3>1
    <3>3. h[j] # Depth(r)
      BY <1>2, <1>7, <3>2
    <3> QED BY <2>1, <3>2, <3>3
  <2>4. ASSUME NEW k \in Natives(q)
        PROVE  \E j \in 1..m : s[j].co = c /\ s[j].native /\ h[j] = k
    <3>1. k \in Natives(r) /\ k # Depth(r)
      BY <2>1
    <3>2. Covered(s, h, c, Depth(r), k)
      BY <1>2, <3>1
    <3>3. PICK j \in 1..n : s[j].co = c /\ s[j].native /\ h[j] = k
      BY <3>1, <3>2 DEF Covered, n
    <3> QED BY <1>5, <3>3
  <2>5. Natively(s, n, c) <=> Natively(s, m, c)
    <3>1. \A j \in 1..m : j \in 1..n
      BY <1>2 DEF m
    <3> QED BY <1>5, <3>1 DEF Natively
  <2>6. TopFits(s, h, m, b, c, q)
    BY <1>2, <1>8, <2>1, <2>2, <2>3, <2>4, <2>5 DEF TopFits
  <2> QED BY <1>1, <1>8, <1>9, <2>6, BelowGoesOn DEF m, n, c, q
<1> QED BY <1>8, <1>9 DEF m, n, c, r

(* Native code ends; it has left its call, or else fails, called by the    *)
(* interpreter.                                                            *)
LEMMA NativeEnds ==
  ASSUME NEW s, NEW K, Chain(s, K), s # <<>>, Last(s).native
  PROVE  LET m == Len(s) - 1  r == K[Last(s).co]
         IN  /\ m \in 1..m /\ s[m].co = Last(s).co
             /\ Last(s).byCall <=> s[m].native
             /\ r.runtime.native /\ r.frames # <<>>
             /\ \A K2, b, s2 :
                  /\ Others(s, K, K2) /\ b \in BOOLEAN /\ s2 \in Stacks /\ EndsAt(s2, s, m, b)
                  /\ LET q == K2[Last(s).co]
                     IN  /\ q.hasNative = IF Last(s).byCall THEN r.hasNative ELSE Last(s).saved
                         /\ \/ Left(q, r)
                            \/ b /\ ~ Last(s).byCall /\ Good(q) /\ q.alive /\ SameCalls(q, r)
                  => Chain(s2, K2)
<1> DEFINE n == Len(s)
           m == n - 1
           c == Last(s).co
           r == K[c]
<1>1. PICK h : Held(s, K, h)
  BY ChainHeld
<1>2. /\ n \in Nat \ {0} /\ n \in 1..n /\ Last(s) = s[n] /\ h[n] \in 1..Depth(r)
      /\ Depth(r) \in Nat \ {0} /\ Good(r) /\ r.alive /\ h[n] = Depth(r)
      /\ r.hasNative <=> Natively(s, n, c)
      /\ \A j \in 1..n : s[j].native /\ s[j].co = c => h[j] \in Natives(r)
      /\ \A k \in Natives(r) : Covered(s, h, c, Depth(r), k)
      /\ \A j \in 1..n - 1 : h[j] \in Nat /\ (s[j].co = c => h[j] < h[n])
      /\ s[n] \in Activation
  BY <1>1, TopFacts
<1>3. s[n].native
  BY <1>2
<1>4. /\ m \in 1..m /\ s[m].co = c
      /\ r.runtime.native /\ Depth(r) \in Natives(r) /\ r.frames # <<>>
      /\ s[n].byCall <=> s[m].native
      /\ s[m].native => h[n] = h[m] + 1
      /\ ~ s[n].byCall => (s[n].saved <=> Natively(s, m, c))
  BY <1>1, <1>2, <1>3, NativeTop
<1>5. m \in Nat /\ \A j \in 1..m : j \in 1..n /\ j \in 1..n - 1 /\ j # n
  BY <1>2
<1> HIDE DEF n, m, c, r
<1>6. h[m] \in Nat /\ h[m] < h[n] /\ h[m] >= 1
  <2>1. h[m] \in 1..Depth(K[s[m].co])
    BY <1>1, <1>4, <1>5 DEF Held, Hosted, HostAt, n
  <2> QED BY <1>2, <1>4, <1>5, <2>1
<1>7. ASSUME NEW K2, NEW b \in BOOLEAN, NEW s2 \in Stacks, EndsAt(s2, s, m, b), Others(s, K, K2),
             LET q == K2[c]
             IN  /\ q.hasNative = IF Last(s).byCall THEN r.hasNative ELSE Last(s).saved
                 /\ \/ Left(q, r)
                    \/ b /\ ~ Last(s).byCall /\ Good(q) /\ q.alive /\ SameCalls(q, r)
      PROVE  Chain(s2, K2)
  <2> DEFINE q == K2[c]
  <2>1. q.hasNative <=> Natively(s, m, c)
    <3>1. CASE s[n].byCall
      <4>1. Natively(s, m, c)
        BY <1>4, <3>1 DEF Natively
      <4>2. Natively(s, n, c)
        BY <1>2, <1>3 DEF Natively, c
      <4> QED BY <1>2, <1>7, <3>1, <4>1, <4>2
    <3>2. CASE ~ s[n].byCall
      BY <1>2, <1>4, <1>7, <3>2
    <3> QED BY <3>1, <3>2
  <2>2. Good(q) /\ q.alive
    BY <1>7 DEF Left
  <2>3. /\ \/ Depth(q) = Depth(r) - 1 /\ Natives(q) = Natives(r) \ {Depth(r)}
           \/ b /\ ~ s[n].byCall /\ Depth(q) = Depth(r) /\ Natives(q) = Natives(r)
    BY <1>2, <1>7 DEF Left, SameCalls
  <2> HIDE DEF q
  <2>4. h[m] \in 1..Depth(q)
    BY <1>2, <1>6, <2>3
  <2>5. s[m].native => h[m] = Depth(q)
    BY <1>2, <1>4, <1>6, <2>3
  <2>6. ASSUME NEW j \in 1..m, s[j].native, s[j].co = c
        PROVE  h[j] \in Natives(q)
    <3>1. h[j] \in Natives(r) /\ h[j] < h[n] /\ h[j] \in Nat
      BY <1>2, <1>5, <2>6
    <3>2. h[j] # Depth(r)
      BY <1>2, <3>1
    <3> QED BY <2>3, <3>1, <3>2
  <2>7. ASSUME NEW k \in Natives(q)
        PROVE  \/ \E j \in 1..m : s[j].co = c /\ s[j].native /\ h[j] = k
               \/ ~ s[m].native /\ b /\ k = Depth(q) /\ h[m] < k
    <3>1. k \in Natives(r)
      BY <2>3
    <3>2. Covered(s, h, c, Depth(r), k)
      BY <1>2, <3>1
    <3>3. PICK j \in 1..n : s[j].co = c /\ s[j].native /\ h[j] = k
      BY <1>3, <3>2 DEF Covered, n
    <3>4. j = n \/ j \in 1..m
      BY <1>2 DEF m
    <3>5. CASE j = n
      <4>1. k = Depth(r) /\ k = h[n]
        BY <1>2, <3>3, <3>5
      <4>2. b /\ ~ s[n].byCall /\ k = Depth(q)
        BY <2>3, <4>1
      <4> QED BY <1>4, <1>6, <4>1, <4>2
    <3>6. CASE j \in 1..m
      BY <3>3, <3>6
    <3> QED BY <3>4, <3>5, <3>6
  <2>8. TopFits(s, h, m, b, c, q)
    BY <2>1, <2>2, <2>4, <2>5, <2>6, <2>7 DEF TopFits
  <2> QED BY <1>1, <1>4, <1>7, <2>8, BelowGoesOn DEF m, n, c, q
<1> QED BY <1>2, <1>4, <1>7 DEF m, n, c, r

(* The loop that has begun a coroutine ends, and the loop that has resumed *)
(* it goes on, if there is one.                                            *)
LEMMA LoopEnds ==
  ASSUME NEW s, NEW K, Chain(s, K), s # <<>>, ~ Last(s).native, Begins(s, Len(s)), Len(s) # 1
  PROVE  LET m == Len(s) - 1  e == s[m].co
         IN  /\ m \in 1..m /\ ~ s[m].native /\ e # Last(s).co /\ Good(K[e]) /\ K[e].alive
             /\ Avail(K[e]) >= 1
             /\ \A j \in 1..m : s[j].co # Last(s).co
             /\ \A K2, s2 :
                  /\ \A j \in 1..m : s[j].co # e => K2[s[j].co] = K[s[j].co]
                  /\ Good(K2[e]) /\ Alike(K2[e], K[e]) /\ SameCalls(K2[e], K[e])
                  /\ s2 \in Stacks /\ EndsAt(s2, s, m, FALSE)
                  => Chain(s2, K2)
<1> DEFINE n == Len(s)
           m == n - 1
           c == Last(s).co
           e == s[m].co
           r == K[e]
<1>1. PICK h : Held(s, K, h)
  BY ChainHeld
<1>2. n \in Nat \ {0} /\ n \in 1..n /\ Last(s) = s[n]
  BY <1>1, TopFacts
<1>3. ShapeAt(s, n) /\ \A i \in 1..n : HostAt(s, K[s[i].co], h, i) /\ CoroAt(s, K[s[i].co], h, i)
  BY <1>1, <1>2 DEF Held, ShapeOK, Hosted
<1>4. Begins(s, n) /\ n # 1 /\ ~ s[n].native
  BY <1>2
<1> HIDE DEF n, m, c, e, r
<1>5. m \in 1..m /\ m \in 1..n /\ \A j \in 1..m : j \in 1..n - 1 /\ j \in 1..n
  BY <1>2, <1>4 DEF m
<1>6. \A j \in 1..m : s[j].co # c
  <2>1. \A k \in 1..n - 1, j \in n..Len(s) : s[k].co # s[j].co
    BY <1>3, <1>4 DEF ShapeAt
  <2>2. n \in n..Len(s)
    BY <1>2 DEF n
  <2> QED BY <1>2, <1>5, <2>1, <2>2 DEF c
<1>7. ~ s[m].native
  BY <1>4 DEF Begins, m
<1>8. HostAt(s, r, h, m) /\ CoroAt(s, r, h, m)
  BY <1>3, <1>5 DEF r, e
<1>9. Good(r) /\ r.alive /\ Avail(r) >= 1
  <2>1. m < Len(s) /\ m + 1 = n
    BY <1>2 DEF m, n
  <2> QED BY <1>4, <1>8, <2>1 DEF CoroAt
<1>10. ASSUME NEW K2, NEW s2 \in Stacks, EndsAt(s2, s, m, FALSE),
              \A j \in 1..m : s[j].co # e => K2[s[j].co] = K[s[j].co],
              Good(K2[e]), Alike(K2[e], r), SameCalls(K2[e], r)
       PROVE  Chain(s2, K2)
  <2> DEFINE q == K2[e]
  <2>1. Good(q) /\ q.alive /\ q.hasNative = r.hasNative /\ Depth(q) = Depth(r) /\ Natives(q) = Natives(r)
    BY <1>9, <1>10 DEF Alike, SameCalls
  <2> HIDE DEF q
  <2>2. h[m] \in 1..Depth(q)
    BY <1>8, <2>1 DEF HostAt
  <2>3. ASSUME NEW j \in 1..m, s[j].native, s[j].co = e
        PROVE  h[j] \in Natives(q)
    <3>1. HostAt(s, r, h, j)
      BY <1>3, <1>5, <2>3 DEF r
    <3> QED BY <2>1, <2>3, <3>1 DEF HostAt
  <2>4. ASSUME NEW k \in Natives(q)
        PROVE  \E j \in 1..m : s[j].co = e /\ s[j].native /\ h[j] = k
    <3>1. Covered(s, h, e, Depth(r), k)
      BY <1>8, <2>1 DEF CoroAt, e
    <3>2. s[n].co # e
      BY <1>2, <1>5, <1>6 DEF e, c
    <3>3. PICK j \in 1..n : s[j].co = e /\ s[j].native /\ h[j] = k
      BY <3>1, <3>2 DEF Covered, n
    <3>4. j \in 1..m
      BY <1>2, <1>4, <3>3 DEF m
    <3> QED BY <3>3, <3>4
  <2>5. q.hasNative <=> Natively(s, m, e)
    <3>1. r.hasNative <=> Natively(s, n, e)
      BY <1>8 DEF CoroAt, e, n
    <3>2. \A j \in 1..n : s[j].native => j \in 1..m
      BY <1>2, <1>4 DEF m
    <3>3. Natively(s, n, e) <=> Natively(s, m, e)
      BY <1>5, <3>2 DEF Natively
    <3> QED BY <2>1, <3>1, <3>3
  <2>6. PICK b \in BOOLEAN : EndsAt(s2, s, m, b) /\ TopFits(s, h, m, b, e, q)
    <3>1. EndsAt(s2, s, m, FALSE)
      BY <1>10
    <3>2. TopFits(s, h, m, FALSE, e, q)
      BY <1>7, <2>1, <2>2, <2>3, <2>4, <2>5 DEF TopFits
    <3> QED BY <3>1, <3>2, Zenon
  <2>7. \A i \in m + 1..Len(s), j \in 1..m : s[i].co = s[j].co => s[j].co = e
    <3>1. \A i \in m + 1..Len(s) : i = n
      BY <1>2 DEF m, n
    <3>2. s[n].co = c
      BY <1>2 DEF c
    <3>3. ASSUME NEW i \in m + 1..Len(s), NEW j \in 1..m
          PROVE  s[i].co # s[j].co
      BY <1>6, <3>1, <3>2
    <3> QED BY <3>3
  <2>8. s \in Stacks /\ ShapeOK(s) /\ Hosted(s, K, h) /\ h \in [1..Len(s) -> Nat] /\ m \in 1..Len(s)
    BY <1>1, <1>5 DEF Held, n
  <2>9. e = s[m].co /\ TopFits(s, h, m, b, e, K2[e])
    BY <2>6 DEF e, q
  <2>10. \A j \in 1..m : s[j].co # e => K2[s[j].co] = K[s[j].co]
    BY <1>10
  <2>11. Kept(s, K, h, m, b, e, s2, K2)
    BY <1>10, <2>6, <2>7, <2>8, <2>9, <2>10 DEF Kept
  <2> QED BY <2>11, TopIs
<1>11. e # c
  BY <1>5, <1>6 DEF e
<1> QED BY <1>5, <1>6, <1>7, <1>9, <1>10, <1>11 DEF n, m, c, e, r

(***************************************************************************)
(* What CallModel sees of a coroutine.  Places are counted from the bottom *)
(* of its array, so they stay when it moves.                               *)
(***************************************************************************)

(* Where the values below each block of the stack end, counted from 0.     *)
Offs(r) == CHOOSE P : StackFits(r, P)

(* How many blocks call i has, where its block j + 1 starts, where it ends.*)
Nb(r, i)    == (IF i = Depth(r) THEN Len(r.blocks) ELSE CallAt(r, i + 1).bcur) - CallAt(r, i).bcur
At(r, i, j) == CallAt(r, i).rbp - r.bottom + Offs(r)[CallAt(r, i).bcur + j] - Offs(r)[CallAt(r, i).bcur]
EndAt(r, i) == (IF i = Depth(r) THEN Sp(r) ELSE CallAt(r, i + 1).rbp - CallAt(r, i + 1).dump) - r.bottom

BlockShown(r, i, j) ==
  [vals  |-> SubSeq(r.mem, At(r, i, j - 1) + 1, IF j = Nb(r, i) + 1 THEN EndAt(r, i) ELSE At(r, i, j)),
   catch |-> j > 1 /\ r.blocks[CallAt(r, i).bcur + j - 1].catch]
CallShown(r, i) ==
  [native |-> CallAt(r, i).native, args |-> CallAt(r, i).args,
   blocks |-> [j \in 1..Nb(r, i) + 1 |-> BlockShown(r, i, j)]]

(* The places of a call are in order.                                      *)
LEMMA PlacesFit ==
  ASSUME NEW r, Good(r), NEW i \in 1..Depth(r)
  PROVE  LET f == CallAt(r, i)  n == Nb(r, i)
         IN  /\ f \in FrameSet /\ f.bcur \in Nat /\ n \in Nat /\ f.bcur + n \in 0..Len(r.blocks)
             /\ \A j \in 0..n : At(r, i, j) \in Nat
             /\ \A j, k \in 0..n : j <= k => At(r, i, j) <= At(r, i, k)
             /\ EndAt(r, i) \in Nat /\ At(r, i, n) <= EndAt(r, i)
             /\ At(r, i, 0) = f.rbp - r.bottom /\ At(r, i, n) = f.bp - r.bottom
             /\ i = Depth(r) => EndAt(r, i) = Len(r.mem) /\ f.bcur + n = Len(r.blocks)
             /\ i # Depth(r) => /\ i + 1 \in 1..Depth(r) /\ EndAt(r, i) <= At(r, i + 1, 0)
                                /\ f.bcur + n = CallAt(r, i + 1).bcur
             /\ f.native => n = 0
<1> DEFINE P == Offs(r)
           f == CallAt(r, i)
           b == f.bcur
           l == IF i = Depth(r) THEN Len(r.blocks) ELSE CallAt(r, i + 1).bcur
           e == IF i = Depth(r) THEN Sp(r) ELSE CallAt(r, i + 1).rbp - CallAt(r, i + 1).dump
           n == Nb(r, i)
<1>0. StackFits(r, P)
  BY DEF Good, Offs
<1>1. /\ r \in CoroSet /\ r.bottom \in Nat /\ Len(r.mem) \in Nat /\ Len(r.blocks) \in Nat
      /\ Sp(r) = r.bottom + Len(r.mem) /\ Len(r.frames) \in Nat
  BY GoodFacts, CoroFields
<1>2. f \in FrameSet /\ f.rbp \in Nat /\ f.bp \in Nat /\ b \in Nat /\ b \in 0..Len(r.blocks)
  BY <1>1, CallTypes, FrameFields, BlockBounds
<1>4. n = l - b /\ EndAt(r, i) = e - r.bottom /\ \A j : At(r, i, j) = f.rbp - r.bottom + P[b + j] - P[b]
  BY DEF Nb, EndAt, At
<1>5. /\ i = Depth(r) => e = Sp(r) /\ l = Len(r.blocks)
      /\ i # Depth(r) => /\ At(r, i + 1, 0) = CallAt(r, i + 1).rbp - r.bottom + P[CallAt(r, i + 1).bcur + 0] - P[CallAt(r, i + 1).bcur]
                         /\ l = CallAt(r, i + 1).bcur
  BY DEF At
<1> HIDE DEF P
<1>3. /\ CallFits(f, r.bottom, l, e, P) /\ l \in 0..Len(r.blocks) /\ e \in Int
      /\ i # Depth(r) => /\ i + 1 \in 1..Depth(r) /\ e <= CallAt(r, i + 1).rbp
                         /\ CallAt(r, i + 1).rbp \in Nat /\ CallAt(r, i + 1).bcur \in Nat
                         /\ CallAt(r, i + 1).bcur \in 0..Len(r.blocks)
  <2>1. CASE i = Depth(r)
    <3>1. f = r.runtime
      BY <1>1, <2>1, CallTypes
    <3> QED BY <1>0, <1>1, <2>1, <3>1 DEF StackFits
  <2>2. CASE i # Depth(r)
    <3> DEFINE g == CallAt(r, i + 1)
    <3>1. i \in 1..Len(r.frames) /\ i + 1 \in 1..Depth(r)
      BY <1>1, <2>2 DEF Depth
    <3>2. CallAt(r, i) = r.frames[i]
      BY <3>1 DEF CallAt
    <3>3. CallFits(r.frames[i], r.bottom, g.bcur, g.rbp - g.dump, P)
      BY <1>0, <3>1 DEF StackFits, CallersFit
    <3>4. g \in FrameSet /\ g.rbp \in Nat /\ g.dump \in 0..2 /\ g.bcur \in Nat /\ g.bcur \in 0..Len(r.blocks)
      BY <1>1, <3>1, CallTypes, FrameFields, BlockBounds
    <3> HIDE DEF g
    <3>5. l = g.bcur /\ e = g.rbp - g.dump
      BY <2>2 DEF g
    <3>6. e \in Int /\ e <= g.rbp
      BY <3>4, <3>5
    <3> HIDE DEF l, e
    <3> QED BY <2>2, <3>1, <3>2, <3>3, <3>4, <3>5, <3>6 DEF g, f
  <2> QED BY <2>1, <2>2
<1> HIDE DEF f, b, l, n, e
<1>6. /\ r.bottom <= f.rbp /\ b <= l /\ f.bp = f.rbp + P[l] - P[b] /\ f.bp <= e
      /\ f.native => b = l
  BY <1>3 DEF CallFits, b
<1>7. n \in Nat /\ b + n = l
  BY <1>1, <1>2, <1>3, <1>4, <1>6
<1>8. IsOffsets(P, r.blocks)
  BY <1>0 DEF StackFits
<1>9. ASSUME NEW j \in 0..n
      PROVE  P[b + j] \in Nat /\ P[b] \in Nat /\ P[b] <= P[b + j]
  <2>1. b \in 0..Len(r.blocks) /\ b + j \in 0..Len(r.blocks) /\ b <= b + j
    BY <1>1, <1>2, <1>3, <1>7
  <2> QED BY <1>8, <2>1 DEF IsOffsets
<1>10. ASSUME NEW j \in 0..n, NEW k \in 0..n, j <= k
       PROVE  P[b + j] <= P[b + k]
  <2>1. b + j \in 0..Len(r.blocks) /\ b + k \in 0..Len(r.blocks) /\ b + j <= b + k
    BY <1>1, <1>2, <1>3, <1>7, <1>10
  <2> QED BY <1>8, <2>1 DEF IsOffsets
<1>11. \A j \in 0..n : At(r, i, j) \in Nat
  <2> SUFFICES ASSUME NEW j \in 0..n
               PROVE  At(r, i, j) \in Nat
    OBVIOUS
  <2> DEFINE x == P[b + j]
             y == P[b]
             z == f.rbp
             a == At(r, i, j)
  <2>1. x \in Nat /\ y \in Nat /\ y <= x
    BY <1>9
  <2>2. a = z - r.bottom + x - y
    BY <1>4
  <2>3. z \in Nat /\ r.bottom \in Nat /\ r.bottom <= z
    BY <1>1, <1>2, <1>6
  <2> HIDE DEF x, y, z, a
  <2>4. a \in Nat
    BY <2>1, <2>2, <2>3
  <2> QED BY <2>4 DEF a
<1>12. \A j, k \in 0..n : j <= k => At(r, i, j) <= At(r, i, k)
  <2> SUFFICES ASSUME NEW j \in 0..n, NEW k \in 0..n, j <= k
               PROVE  At(r, i, j) <= At(r, i, k)
    OBVIOUS
  <2>1. P[b + j] <= P[b + k] /\ P[b + j] \in Nat /\ P[b + k] \in Nat /\ P[b] \in Nat
    BY <1>9, <1>10
  <2>2. /\ At(r, i, j) = f.rbp - r.bottom + P[b + j] - P[b]
        /\ At(r, i, k) = f.rbp - r.bottom + P[b + k] - P[b]
    BY <1>4
  <2>3. f.rbp \in Nat /\ r.bottom \in Nat
    BY <1>1, <1>2
  <2> DEFINE x == P[b + j]
             w == P[b + k]
             y == P[b]
             z == f.rbp
             a == At(r, i, j)
             c == At(r, i, k)
  <2>4. x <= w /\ x \in Nat /\ w \in Nat /\ y \in Nat /\ z \in Nat /\ r.bottom \in Nat
    BY <2>1, <2>3
  <2>5. a = z - r.bottom + x - y /\ c = z - r.bottom + w - y
    BY <2>2
  <2> HIDE DEF x, y, z, w, a, c
  <2>6. a <= c
    BY <2>4, <2>5
  <2> QED BY <2>6 DEF a, c
<1>13. n \in 0..n /\ 0 \in 0..n /\ b + 0 = b
  BY <1>2, <1>7
<1>14. At(r, i, 0) = f.rbp - r.bottom /\ At(r, i, n) = f.bp - r.bottom
  <2>1. P[b] \in Nat /\ P[l] \in Nat
    BY <1>7, <1>9, <1>13
  <2>2. /\ At(r, i, 0) = f.rbp - r.bottom + P[b + 0] - P[b]
        /\ At(r, i, n) = f.rbp - r.bottom + P[b + n] - P[b]
    BY <1>4
  <2>3. P[b + 0] = P[b] /\ P[b + n] = P[l]
    BY <1>7, <1>13
  <2>4. f.rbp \in Nat /\ r.bottom \in Nat /\ f.bp = f.rbp + P[l] - P[b]
    BY <1>1, <1>2, <1>6
  <2> DEFINE x == P[b]
             w == P[l]
             z == f.rbp
             a == At(r, i, 0)
             c == At(r, i, n)
  <2>5. x \in Nat /\ w \in Nat /\ z \in Nat /\ r.bottom \in Nat /\ f.bp = z + w - x
    BY <2>1, <2>4
  <2>6. a = z - r.bottom + x - x /\ c = z - r.bottom + w - x
    BY <2>2, <2>3
  <2> HIDE DEF x, w, z, a, c
  <2>7. a = z - r.bottom /\ c = f.bp - r.bottom
    BY <2>5, <2>6
  <2> QED BY <2>7 DEF a, c, z
<1>15. f.bp - r.bottom \in Nat
  BY <1>11, <1>13, <1>14
<1>16. EndAt(r, i) \in Nat /\ At(r, i, n) <= EndAt(r, i)
  <2>1. EndAt(r, i) = e - r.bottom /\ At(r, i, n) = f.bp - r.bottom /\ e \in Int /\ f.bp <= e
    BY <1>3, <1>4, <1>6, <1>14
  <2>2. f.bp \in Nat /\ r.bottom \in Nat
    BY <1>1, <1>2
  <2> HIDE DEF f
  <2> QED BY <1>15, <2>1, <2>2
<1>17. i # Depth(r) => EndAt(r, i) <= At(r, i + 1, 0)
  <2> SUFFICES ASSUME i # Depth(r)
               PROVE  EndAt(r, i) <= At(r, i + 1, 0)
    OBVIOUS
  <2> DEFINE g == CallAt(r, i + 1)
  <2>1. g.bcur + 0 = g.bcur /\ P[g.bcur] \in Nat /\ g.rbp \in Nat /\ e <= g.rbp
    BY <1>3, <1>8 DEF IsOffsets
  <2>2. At(r, i + 1, 0) = g.rbp - r.bottom + P[g.bcur + 0] - P[g.bcur]
    BY <1>5
  <2> HIDE DEF g
  <2> QED BY <1>1, <1>3, <1>4, <2>1, <2>2
<1>18. i = Depth(r) => EndAt(r, i) = Len(r.mem)
  BY <1>1, <1>4, <1>5
<1>19. f.native => n = 0
  BY <1>2, <1>4, <1>6
<1>20. b + n \in 0..Len(r.blocks)
  BY <1>3, <1>7
<1> QED BY <1>2, <1>3, <1>5, <1>7, <1>11, <1>12, <1>14, <1>16, <1>17, <1>18, <1>19, <1>20 DEF f, b, n

(* Calls end one after the other, all of them below sp.                    *)
LEMMA EndsInOrder ==
  ASSUME NEW r, Good(r), NEW i \in 1..Depth(r), NEW k \in 1..Depth(r), i <= k
  PROVE  EndAt(r, i) <= EndAt(r, k) /\ EndAt(r, k) <= Len(r.mem) /\ EndAt(r, i) \in Nat
<1>2. Depth(r) \in Nat \ {0} /\ Depth(r) \in 1..Depth(r)
  BY GoodFacts, CallTypes
<1>3. ASSUME NEW m \in 1..Depth(r)
      PROVE  EndAt(r, m) \in Nat /\ (m # Depth(r) => EndAt(r, m) <= EndAt(r, m + 1))
  <2>1. EndAt(r, m) \in Nat /\ (m # Depth(r) => m + 1 \in 1..Depth(r) /\ EndAt(r, m) <= At(r, m + 1, 0))
    BY PlacesFit
  <2>2. ASSUME m # Depth(r)
        PROVE  EndAt(r, m) <= EndAt(r, m + 1)
    <3> DEFINE n == Nb(r, m + 1)
    <3>1. m + 1 \in 1..Depth(r) /\ EndAt(r, m) <= At(r, m + 1, 0)
      BY <2>1, <2>2
    <3>2. /\ n \in Nat /\ \A j \in 0..n : At(r, m + 1, j) \in Nat
          /\ \A j, l \in 0..n : j <= l => At(r, m + 1, j) <= At(r, m + 1, l)
          /\ EndAt(r, m + 1) \in Nat /\ At(r, m + 1, n) <= EndAt(r, m + 1)
      BY <3>1, PlacesFit
    <3>3. 0 \in 0..n /\ n \in 0..n /\ 0 <= n
      BY <3>2
    <3>4. At(r, m + 1, 0) \in Nat /\ At(r, m + 1, n) \in Nat /\ At(r, m + 1, 0) <= At(r, m + 1, n)
      BY <3>2, <3>3
    <3> HIDE DEF n
    <3> QED BY <2>1, <3>1, <3>2, <3>4
  <2> QED BY <2>1, <2>2
<1> DEFINE S == {d \in Nat : \A m \in 1..Depth(r) : m + d \in 1..Depth(r) => EndAt(r, m) <= EndAt(r, m + d)}
<1>4. 0 \in S
  <2>1. \A m \in 1..Depth(r) : m + 0 = m /\ EndAt(r, m) <= EndAt(r, m)
    BY <1>3
  <2> QED BY <2>1
<1>5. ASSUME NEW d \in Nat, d \in S
      PROVE  d + 1 \in S
  <2>1. ASSUME NEW m \in 1..Depth(r), m + (d + 1) \in 1..Depth(r)
        PROVE  EndAt(r, m) <= EndAt(r, m + (d + 1))
    <3>1. m + d \in 1..Depth(r) /\ m + d # Depth(r) /\ m + (d + 1) = (m + d) + 1
      BY <1>2, <2>1
    <3>2. EndAt(r, m) <= EndAt(r, m + d) /\ EndAt(r, m + d) <= EndAt(r, (m + d) + 1)
      BY <1>3, <1>5, <3>1
    <3>3. EndAt(r, m) \in Nat /\ EndAt(r, m + d) \in Nat /\ EndAt(r, (m + d) + 1) \in Nat
      BY <1>3, <2>1, <3>1
    <3> QED BY <3>1, <3>2, <3>3
  <2> QED BY <2>1
<1> HIDE DEF S
<1>6. Nat \subseteq S
  BY <1>4, <1>5, SetInduction
<1>7. ASSUME NEW m \in 1..Depth(r), NEW l \in 1..Depth(r), m <= l
      PROVE  EndAt(r, m) <= EndAt(r, l)
  <2>1. l - m \in Nat /\ m + (l - m) = l
    BY <1>2, <1>7
  <2> QED BY <1>6, <2>1 DEF S
<1>8. EndAt(r, Depth(r)) = Len(r.mem)
  BY <1>2, PlacesFit
<1>9. EndAt(r, k) <= EndAt(r, Depth(r))
  BY <1>2, <1>7
<1> QED BY <1>3, <1>7, <1>8, <1>9

(* The offsets of blocks that leave the same numbers of values.            *)
LEMMA OffsetsAgree ==
  ASSUME NEW P, NEW bs, IsOffsets(P, bs), NEW Q, NEW cs, IsOffsets(Q, cs), Len(bs) \in Nat, Len(cs) \in Nat,
         NEW l \in Nat, l <= Len(bs), l <= Len(cs), \A k \in 1..l : cs[k].sp = bs[k].sp
  PROVE  \A k \in 0..l : Q[k] = P[k]
<1> DEFINE S == {k \in Nat : k <= l => Q[k] = P[k]}
<1>1. 0 \in S
  BY DEF IsOffsets
<1>2. ASSUME NEW k \in Nat, k \in S
      PROVE  k + 1 \in S
  <2>1. ASSUME k + 1 <= l
        PROVE  Q[k + 1] = P[k + 1]
    <3>1. k + 1 \in 1..l /\ k + 1 \in 1..Len(bs) /\ k + 1 \in 1..Len(cs) /\ (k + 1) - 1 = k /\ k <= l
      BY <2>1
    <3>2. P[k + 1] = P[(k + 1) - 1] + bs[k + 1].sp /\ Q[k + 1] = Q[(k + 1) - 1] + cs[k + 1].sp
      BY <3>1 DEF IsOffsets
    <3> QED BY <1>2, <3>1, <3>2
  <2> QED BY <2>1
<1>3. Nat \subseteq S
  BY <1>1, <1>2, SetInduction
<1> QED BY <1>3

(* A part of two sequences that are the same up to its end.                *)
LEMMA PartIsSame ==
  ASSUME NEW S, NEW s \in Seq(S), NEW t \in Seq(S), NEW a \in Nat, NEW n \in Nat,
         \A i \in 1..n : t[i] = s[i]
  PROVE  SubSeq(t, a + 1, n) = SubSeq(s, a + 1, n)
<1>1. \A i \in 1..n - a : a + i \in 1..n
  OBVIOUS
<1> QED BY <1>1

(* Two coroutines whose first d calls have the same frames, but for what   *)
(* the last of them is.                                                    *)
Agree(r, s, d) ==
  /\ d \in 1..Depth(r) /\ d \in 1..Depth(s)
  /\ \A k \in 1..d : LET f == CallAt(r, k)  g == CallAt(s, k)
                     IN  /\ k < d => g.native = f.native /\ g.args = f.args
                         /\ g.bcur = f.bcur
                         /\ g.rbp - s.bottom = f.rbp - r.bottom
                         /\ k > 1 => g.dump = f.dump
SameTo(r, s, d, m, n) ==
  /\ \A j \in 1..CallAt(r, d).bcur + m :
       /\ s.blocks[j].sp = r.blocks[j].sp
       /\ j <= CallAt(r, d).bcur \/ j < CallAt(r, d).bcur + m => s.blocks[j].catch = r.blocks[j].catch
  /\ \A j \in 1..n : s.mem[j] = r.mem[j]

(* They show the same calls below, and the same m blocks of that call.     *)
LEMMA LowerIsSame ==
  ASSUME NEW r, Good(r), NEW s, Good(s), NEW d, Agree(r, s, d),
         NEW m \in Nat, m <= Nb(r, d), m <= Nb(s, d),
         NEW n \in Nat, At(r, d, m) <= n, SameTo(r, s, d, m, n)
  PROVE  /\ \A i \in 1..d - 1 : CallShown(s, i) = CallShown(r, i)
         /\ \A j \in 1..m : BlockShown(s, d, j) = BlockShown(r, d, j)
         /\ \A j \in 0..m : At(s, d, j) = At(r, d, j)
<1> DEFINE b == CallAt(r, d).bcur
           P == Offs(r)
           Q == Offs(s)
<1>1. /\ r \in CoroSet /\ r.mem \in Seq(Values) /\ r.bottom \in Nat /\ Len(r.blocks) \in Nat
      /\ s \in CoroSet /\ s.mem \in Seq(Values) /\ s.bottom \in Nat /\ Len(s.blocks) \in Nat
      /\ d \in 1..Depth(r) /\ d \in 1..Depth(s) /\ Depth(r) \in Nat /\ Depth(s) \in Nat
  BY GoodFacts, CoroFields, CallTypes DEF Agree
<1>2. IsOffsets(P, r.blocks) /\ IsOffsets(Q, s.blocks)
  BY DEF Good, StackFits, Offs
<1>3. /\ b \in Nat /\ Nb(r, d) \in Nat /\ b + Nb(r, d) <= Len(r.blocks)
      /\ CallAt(s, d).bcur = b /\ Nb(s, d) \in Nat /\ b + Nb(s, d) <= Len(s.blocks)
  <2>1. /\ b \in Nat /\ Nb(r, d) \in Nat /\ b + Nb(r, d) \in 0..Len(r.blocks)
    BY <1>1, PlacesFit
  <2>2. Nb(s, d) \in Nat /\ CallAt(s, d).bcur + Nb(s, d) \in 0..Len(s.blocks)
    BY <1>1, PlacesFit
  <2>3. CallAt(s, d).bcur = b
    BY <1>1 DEF Agree
  <2> HIDE DEF b
  <2> QED BY <1>1, <2>1, <2>2, <2>3
<1>13. /\ \A j \in 0..Nb(r, d) : At(r, d, j) \in Nat
       /\ \A j, k \in 0..Nb(r, d) : j <= k => At(r, d, j) <= At(r, d, k)
  BY <1>1, PlacesFit
<1>14. CallAt(r, d).bcur = b
  OBVIOUS
<1> HIDE DEF b
<1>4. \A k \in 0..b + m : Q[k] = P[k]
  <2>1. \A k \in 1..b + m : s.blocks[k].sp = r.blocks[k].sp
    BY <1>14 DEF SameTo
  <2>2. b + m \in Nat /\ b + m <= Len(r.blocks) /\ b + m <= Len(s.blocks)
    <3> DEFINE x == Nb(r, d)
               y == Nb(s, d)
    <3>1. /\ b \in Nat /\ x \in Nat /\ y \in Nat /\ m <= x /\ m <= y
          /\ b + x <= Len(r.blocks) /\ b + y <= Len(s.blocks)
          /\ Len(r.blocks) \in Nat /\ Len(s.blocks) \in Nat
      BY <1>1, <1>3
    <3> HIDE DEF x, y
    <3> QED BY <3>1
  <2> HIDE DEF P, Q
  <2>3. IsOffsets(P, r.blocks) /\ IsOffsets(Q, s.blocks) /\ Len(r.blocks) \in Nat /\ Len(s.blocks) \in Nat
    BY <1>1, <1>2
  <2> DEFINE l == b + m
  <2>4. l \in Nat /\ l <= Len(r.blocks) /\ l <= Len(s.blocks) /\ \A k \in 1..l : s.blocks[k].sp = r.blocks[k].sp
    BY <2>1, <2>2
  <2> HIDE DEF l
  <2>5. \A k \in 0..l : Q[k] = P[k]
    BY <2>3, <2>4, OffsetsAgree
  <2> QED BY <2>5 DEF l
<1>5. ASSUME NEW i \in 1..d
      PROVE  /\ i \in 1..Depth(r) /\ i \in 1..Depth(s)
             /\ i < d => CallAt(s, i).native = CallAt(r, i).native /\ CallAt(s, i).args = CallAt(r, i).args
             /\ CallAt(s, i).bcur = CallAt(r, i).bcur /\ CallAt(r, i).bcur \in Nat
             /\ CallAt(r, i).rbp \in Nat /\ CallAt(s, i).rbp \in Nat
             /\ CallAt(s, i).rbp - s.bottom = CallAt(r, i).rbp - r.bottom
             /\ CallAt(r, i).dump \in Nat /\ CallAt(s, i).dump \in Nat
             /\ i > 1 => CallAt(s, i).dump = CallAt(r, i).dump
  <2>1. i \in 1..Depth(r) /\ i \in 1..Depth(s)
    BY <1>1
  <2>2. CallAt(r, i) \in FrameSet /\ CallAt(s, i) \in FrameSet
    BY <1>1, <2>1, CallTypes
  <2>3. /\ CallAt(r, i).bcur \in Nat /\ CallAt(r, i).rbp \in Nat /\ CallAt(r, i).dump \in 0..2
        /\ CallAt(s, i).rbp \in Nat /\ CallAt(s, i).dump \in 0..2
    BY <2>2, FrameFields
  <2> QED BY <2>1, <2>3 DEF Agree
<1>6. ASSUME NEW i \in 1..d, NEW j \in Nat, CallAt(r, i).bcur + j <= b + m
      PROVE  At(s, i, j) = At(r, i, j)
  <2> DEFINE k == CallAt(r, i).bcur
             x == CallAt(r, i).rbp - r.bottom
  <2>1. k \in 0..b + m /\ k + j \in 0..b + m
    <3>1. k \in Nat /\ k + j <= b + m
      BY <1>5, <1>6
    <3> HIDE DEF k
    <3> QED BY <1>3, <3>1
  <2>2. /\ At(r, i, j) = x + P[k + j] - P[k]
        /\ At(s, i, j) = CallAt(s, i).rbp - s.bottom + Q[CallAt(s, i).bcur + j] - Q[CallAt(s, i).bcur]
    BY DEF At
  <2>3. Q[k + j] = P[k + j] /\ Q[k] = P[k]
    BY <1>4, <2>1
  <2> HIDE DEF P, Q
  <2> QED BY <1>5, <2>2, <2>3
<1>7. ASSUME NEW i \in 1..d - 1
      PROVE  /\ Nb(s, i) = Nb(r, i) /\ Nb(r, i) \in Nat
             /\ EndAt(s, i) = EndAt(r, i) /\ EndAt(r, i) \in Nat /\ EndAt(r, i) <= n
             /\ CallAt(r, i).bcur + Nb(r, i) <= b
             /\ \A j \in 0..Nb(r, i) : At(r, i, j) \in Nat /\ At(r, i, j) <= n
  <2>1. i \in 1..d /\ i + 1 \in 1..d /\ i # Depth(r) /\ i # Depth(s) /\ i + 1 > 1 /\ i \in 1..Depth(r)
        /\ i + 1 \in 1..Depth(r) /\ d - 1 \in 1..Depth(r) /\ i <= d - 1 /\ d - 1 # Depth(r) /\ (d - 1) + 1 = d
    BY <1>1
  <2>2. Nb(s, i) = Nb(r, i)
    BY <1>5, <2>1 DEF Nb
  <2>3. EndAt(s, i) = EndAt(r, i)
    <3>1. /\ EndAt(s, i) = CallAt(s, i + 1).rbp - CallAt(s, i + 1).dump - s.bottom
          /\ EndAt(r, i) = CallAt(r, i + 1).rbp - CallAt(r, i + 1).dump - r.bottom
      BY <2>1 DEF EndAt
    <3>2. /\ CallAt(r, i + 1).rbp \in Nat /\ CallAt(s, i + 1).rbp \in Nat
          /\ CallAt(s, i + 1).rbp - s.bottom = CallAt(r, i + 1).rbp - r.bottom
          /\ CallAt(r, i + 1).dump \in Nat /\ CallAt(s, i + 1).dump \in Nat
          /\ CallAt(s, i + 1).dump = CallAt(r, i + 1).dump
      BY <1>5, <2>1
    <3> DEFINE g == CallAt(r, i + 1)
               f == CallAt(s, i + 1)
    <3>3. /\ g.rbp \in Nat /\ f.rbp \in Nat /\ g.dump \in Nat /\ f.dump = g.dump
          /\ f.rbp - s.bottom = g.rbp - r.bottom
          /\ EndAt(s, i) = f.rbp - f.dump - s.bottom /\ EndAt(r, i) = g.rbp - g.dump - r.bottom
      BY <3>1, <3>2
    <3> HIDE DEF f, g
    <3>4. r.bottom \in Nat /\ s.bottom \in Nat
      BY <1>1
    <3> QED BY <3>3, <3>4
  <2>4. /\ Nb(r, i) \in Nat /\ EndAt(r, i) \in Nat
        /\ CallAt(r, i).bcur + Nb(r, i) = CallAt(r, i + 1).bcur
        /\ At(r, i, Nb(r, i)) <= EndAt(r, i)
        /\ \A j \in 0..Nb(r, i) : At(r, i, j) \in Nat
        /\ \A j, k \in 0..Nb(r, i) : j <= k => At(r, i, j) <= At(r, i, k)
    BY <2>1, PlacesFit
  <2>5. EndAt(r, i) <= EndAt(r, d - 1) /\ EndAt(r, d - 1) \in Nat
    BY <2>1, EndsInOrder, PlacesFit
  <2>6. EndAt(r, d - 1) <= At(r, d, 0)
    BY <2>1, PlacesFit
  <2>7. At(r, d, 0) <= At(r, d, m) /\ At(r, d, 0) \in Nat /\ At(r, d, m) \in Nat
    <3>1. 0 \in 0..Nb(r, d) /\ m \in 0..Nb(r, d) /\ 0 <= m
      BY <1>3
    <3> QED BY <1>13, <3>1
  <2>8. EndAt(r, i) <= n
    BY <2>4, <2>5, <2>6, <2>7
  <2>9. CallAt(r, i + 1).bcur <= b
    <3>1. Ordered(r)
      BY DEF Good, StackFits
    <3>2. i + 1 \in 1..Depth(r) /\ d \in 1..Depth(r) /\ i + 1 <= d
      BY <1>1, <2>1
    <3> QED BY <1>14, <3>1, <3>2 DEF Ordered
  <2>10. ASSUME NEW j \in 0..Nb(r, i)
         PROVE  At(r, i, j) <= n
    <3>1. At(r, i, j) <= At(r, i, Nb(r, i)) /\ At(r, i, j) \in Nat /\ At(r, i, Nb(r, i)) \in Nat
      BY <2>4
    <3> QED BY <2>4, <2>8, <3>1
  <2> QED BY <2>2, <2>3, <2>4, <2>8, <2>9, <2>10
<1>8. ASSUME NEW i \in 1..d, NEW j \in Nat \ {0}, NEW k \in Nat, CallAt(r, i).bcur + j - 1 <= b + m,
             At(r, i, j - 1) \in Nat, k <= n
      PROVE  SubSeq(s.mem, At(s, i, j - 1) + 1, k) = SubSeq(r.mem, At(r, i, j - 1) + 1, k)
  <2>1. j - 1 \in Nat /\ CallAt(r, i).bcur + (j - 1) <= b + m
    BY <1>3, <1>5, <1>8
  <2>2. At(s, i, j - 1) = At(r, i, j - 1)
    BY <1>6, <2>1
  <2>3. \A e \in 1..k : s.mem[e] = r.mem[e]
    BY <1>8 DEF SameTo
  <2> DEFINE a == At(r, i, j - 1)
  <2>4. a \in Nat /\ k \in Nat /\ r.mem \in Seq(Values) /\ s.mem \in Seq(Values)
    BY <1>1, <1>8
  <2> HIDE DEF a
  <2>5. SubSeq(s.mem, a + 1, k) = SubSeq(r.mem, a + 1, k)
    BY <2>3, <2>4, PartIsSame
  <2> QED BY <2>2, <2>5 DEF a
<1>9. ASSUME NEW i \in 1..d - 1, NEW j \in 1..Nb(r, i) + 1
      PROVE  BlockShown(s, i, j) = BlockShown(r, i, j)
  <2> DEFINE e == Nb(r, i)
             a == CallAt(r, i).bcur
  <2>0. e \in Nat /\ a + e <= b /\ j \in 1..e + 1
    BY <1>7
  <2>1. i \in 1..d /\ j - 1 \in 0..e /\ j \in Nat \ {0} /\ (j # e + 1 => j \in 0..e)
    <3> HIDE DEF e
    <3> QED BY <1>1, <2>0
  <2>2. a + j - 1 <= b + m /\ (j # e + 1 => a + j <= b + m) /\ (j > 1 => a + j - 1 \in 1..b)
    <3>1. a \in Nat
      BY <1>5, <2>1
    <3> HIDE DEF e, a
    <3> QED BY <1>3, <2>0, <2>1, <3>1
  <2> DEFINE k == IF j = Nb(r, i) + 1 THEN EndAt(r, i) ELSE At(r, i, j)
  <2>3. k = (IF j = Nb(s, i) + 1 THEN EndAt(s, i) ELSE At(s, i, j)) /\ k \in Nat /\ k <= n
    BY <1>6, <1>7, <2>1, <2>2
  <2>4. At(r, i, j - 1) \in Nat
    BY <1>7, <2>1
  <2> HIDE DEF k
  <2>5. SubSeq(s.mem, At(s, i, j - 1) + 1, k) = SubSeq(r.mem, At(r, i, j - 1) + 1, k)
    BY <1>8, <2>1, <2>2, <2>3, <2>4
  <2>6. j > 1 => s.blocks[CallAt(s, i).bcur + j - 1].catch = r.blocks[CallAt(r, i).bcur + j - 1].catch
    <3> SUFFICES ASSUME j > 1
                 PROVE  s.blocks[CallAt(s, i).bcur + j - 1].catch = r.blocks[CallAt(r, i).bcur + j - 1].catch
      OBVIOUS
    <3>1. CallAt(s, i).bcur = CallAt(r, i).bcur
      BY <1>5, <2>1
    <3>2. a + j - 1 \in 1..b /\ a + j - 1 \in 1..b + m /\ a + j - 1 <= b
      BY <1>3, <2>2
    <3>3. s.blocks[a + j - 1].catch = r.blocks[a + j - 1].catch
      <4> HIDE DEF a
      <4> QED BY <1>14, <3>2 DEF SameTo
    <3> QED BY <3>1, <3>3
  <2> QED BY <2>3, <2>5, <2>6 DEF BlockShown, k
<1>10. ASSUME NEW i \in 1..d - 1
       PROVE  CallShown(s, i) = CallShown(r, i)
  <2>1. i \in 1..d /\ i < d
    BY <1>1
  <2> QED BY <1>5, <1>7, <1>9, <2>1 DEF CallShown
<1>11. ASSUME NEW j \in 0..m
       PROVE  At(s, d, j) = At(r, d, j)
  <2>1. d \in 1..d /\ j \in Nat /\ b + j <= b + m
    BY <1>1, <1>3
  <2> QED BY <1>6, <1>14, <2>1
<1>12. ASSUME NEW j \in 1..m
       PROVE  BlockShown(s, d, j) = BlockShown(r, d, j)
  <2> DEFINE e == Nb(r, d)
             x == Nb(s, d)
  <2>0. e \in Nat /\ x \in Nat /\ m <= e /\ m <= x
    BY <1>3
  <2>1. /\ d \in 1..d /\ j - 1 \in 0..m /\ j \in 0..m /\ j \in Nat \ {0} /\ j # e + 1 /\ j # x + 1
        /\ j - 1 \in 0..e /\ j \in 0..e /\ m \in 0..e /\ j <= m
    <3> HIDE DEF e, x
    <3> QED BY <1>1, <2>0
  <2>2. At(r, d, j - 1) \in Nat /\ At(r, d, j) \in Nat /\ At(r, d, m) \in Nat /\ At(r, d, j) <= At(r, d, m)
    BY <1>13, <2>1
  <2>3. At(r, d, j) <= n
    BY <2>2
  <2>4. b + j - 1 <= b + m /\ b + j - 1 \in 1..b + m \cup {0} /\ b + j - 1 < b + m
    BY <1>3, <2>1
  <2>5. SubSeq(s.mem, At(s, d, j - 1) + 1, At(r, d, j)) = SubSeq(r.mem, At(r, d, j - 1) + 1, At(r, d, j))
    BY <1>8, <1>14, <2>1, <2>2, <2>3, <2>4
  <2>6. j > 1 => s.blocks[CallAt(s, d).bcur + j - 1].catch = r.blocks[CallAt(r, d).bcur + j - 1].catch
    <3> SUFFICES ASSUME j > 1
                 PROVE  s.blocks[b + j - 1].catch = r.blocks[b + j - 1].catch
      BY <1>3, <1>14
    <3>1. b + j - 1 \in 1..b + m
      BY <1>3, <2>1
    <3> QED BY <1>14, <2>4, <3>1 DEF SameTo
  <2>7. At(s, d, j) = At(r, d, j)
    BY <1>11, <2>1
  <2> QED BY <2>1, <2>5, <2>6, <2>7 DEF BlockShown
<1> QED BY <1>10, <1>11, <1>12

(* A part of a sequence.                                                   *)
LEMMA PartOf ==
  ASSUME NEW S, NEW s \in Seq(S), NEW a \in Nat, NEW n \in Nat, a <= n, n <= Len(s)
  PROVE  /\ SubSeq(s, a + 1, n) \in Seq(S) /\ Len(SubSeq(s, a + 1, n)) = n - a
         /\ \A i \in 1..n - a : SubSeq(s, a + 1, n)[i] = s[a + i]
OBVIOUS

(* A sequence and its last element.                                        *)
LEMMA SplitLast ==
  ASSUME NEW S, NEW s \in Seq(S), NEW t \in Seq(S), Len(s) = Len(t) + 1, \A i \in 1..Len(t) : s[i] = t[i]
  PROVE  s = Append(t, s[Len(t) + 1])
OBVIOUS

(* What is shown of a block and of a call.                                 *)
LEMMA ShownTypes ==
  ASSUME NEW r, Good(r), NEW i \in 1..Depth(r)
  PROVE  /\ CallShown(r, i) \in ShownCall
         /\ \A j \in 1..Nb(r, i) + 1 : BlockShown(r, i, j) \in ShownBlock
<1> DEFINE n == Nb(r, i)
           f == CallAt(r, i)
<1>1. /\ r \in CoroSet /\ r.mem \in Seq(Values) /\ r.blocks \in Seq(BlockSet) /\ Len(r.blocks) \in Nat
      /\ Len(r.mem) \in Nat
  BY GoodFacts, CoroFields
<1>2. f \in FrameSet /\ f.bcur \in Nat /\ n \in Nat /\ f.bcur + n \in 0..Len(r.blocks)
  BY PlacesFit
<1>3. /\ \A j \in 0..n : At(r, i, j) \in Nat
      /\ \A j, k \in 0..n : j <= k => At(r, i, j) <= At(r, i, k)
  BY PlacesFit
<1>4. EndAt(r, i) \in Nat /\ At(r, i, n) <= EndAt(r, i) /\ EndAt(r, i) <= Len(r.mem)
  BY PlacesFit, EndsInOrder
<1>5. ASSUME NEW j \in 1..n + 1
      PROVE  BlockShown(r, i, j) \in ShownBlock
  <2> DEFINE e == IF j = n + 1 THEN EndAt(r, i) ELSE At(r, i, j)
             a == At(r, i, j - 1)
  <2>1. j - 1 \in 0..n /\ n \in 0..n /\ (j # n + 1 => j \in 0..n) /\ j - 1 <= j /\ j - 1 <= n
    BY <1>2
  <2>2. a \in Nat /\ At(r, i, n) \in Nat /\ a <= At(r, i, n)
    BY <1>3, <2>1
  <2>3. j # n + 1 => At(r, i, j) \in Nat /\ a <= At(r, i, j) /\ At(r, i, j) <= At(r, i, n)
    BY <1>3, <2>1
  <2>4. e \in Nat /\ a <= e /\ e <= Len(r.mem)
    <3>1. CASE j = n + 1
      <4>1. e = EndAt(r, i)
        BY <3>1
      <4> HIDE DEF e, a
      <4> QED BY <1>4, <2>2, <4>1
    <3>2. CASE j # n + 1
      <4>1. e = At(r, i, j)
        BY <3>2
      <4>2. At(r, i, j) \in Nat /\ a <= At(r, i, j) /\ At(r, i, j) <= At(r, i, n)
        BY <2>3, <3>2
      <4> HIDE DEF e, a
      <4> QED BY <1>1, <1>4, <2>2, <4>1, <4>2
    <3> QED BY <3>1, <3>2
  <2> HIDE DEF e, a
  <2>5. SubSeq(r.mem, a + 1, e) \in Seq(Values)
    BY <1>1, <2>2, <2>4, PartOf
  <2>6. (j > 1 /\ r.blocks[f.bcur + j - 1].catch) \in BOOLEAN
    <3>1. CASE j > 1
      <4>1. f.bcur + j - 1 \in 1..Len(r.blocks)
        <5> HIDE DEF f, n
        <5> QED BY <1>1, <1>2, <3>1
      <4>2. r.blocks[f.bcur + j - 1] \in BlockSet
        BY <1>1, <4>1
      <4>3. r.blocks[f.bcur + j - 1].catch \in BOOLEAN
        BY <4>2 DEF BlockSet
      <4> QED BY <4>3
    <3>2. CASE ~ (j > 1)
      BY <3>2
    <3> QED BY <3>1, <3>2
  <2> QED BY <2>5, <2>6 DEF BlockShown, ShownBlock, e, a
<1>6. [j \in 1..n + 1 |-> BlockShown(r, i, j)] \in Seq(ShownBlock)
  BY <1>2, <1>5
<1>7. f.native \in BOOLEAN /\ f.args \in Seq(Values)
  BY <1>2, FrameFields
<1> QED BY <1>5, <1>6, <1>7 DEF CallShown, ShownCall

(* The calls that CallModel sees.                                          *)
LEMMA CallsAre ==
  ASSUME NEW r, Good(r)
  PROVE  CallsOf(r) = [i \in 1..Depth(r) |-> CallShown(r, i)]
<1> DEFINE P == Offs(r)
<1>1. r \in CoroSet /\ r.bottom \in Nat
  BY GoodFacts, CoroFields
<1>2. IsOffsets(P, r.blocks)
  BY DEF Good, StackFits, Offs
<1>3. /\ r.frames \in Seq(FrameSet) /\ Len(r.frames) \in Nat /\ r.runtime \in FrameSet
      /\ r.blocks \in Seq(BlockSet) /\ Len(r.blocks) \in Nat
  BY <1>1, CoroFields
<1>4. /\ DOMAIN Calls(r) = 1..Depth(r) /\ Len(Calls(r)) = Depth(r) /\ Depth(r) \in Nat
      /\ \A i \in 1..Depth(r) : Calls(r)[i] = CallAt(r, i)
  BY <1>3 DEF Calls, Depth, CallAt
<1>5. ASSUME NEW i \in 1..Depth(r)
      PROVE  [native |-> Calls(r)[i].native, args |-> Calls(r)[i].args,
              blocks |-> [j \in 1..NBlocks(r, i) + 1 |->
                [vals  |-> SubSeq(r.mem, BlockStart(r, i)[j - 1] - r.bottom + 1,
                             (IF j = NBlocks(r, i) + 1 THEN EndOf(r, i) ELSE BlockStart(r, i)[j]) - r.bottom),
                 catch |-> j > 1 /\ r.blocks[Calls(r)[i].bcur + j - 1].catch]]]
             = CallShown(r, i)
  <2> DEFINE f == CallAt(r, i)
             b == f.bcur
             n == NBlocks(r, i)
  <2>1. f = Calls(r)[i] /\ f.rbp \in Nat /\ b \in Nat
    BY <1>1, <1>4, CallTypes, FrameFields
  <2>2. n = Nb(r, i) /\ EndOf(r, i) - r.bottom = EndAt(r, i)
    <3>1. CASE i = Depth(r)
      <4>1. LastBlock(r, i) = Len(r.blocks) /\ EndOf(r, i) = Sp(r)
        BY <1>4, <3>1 DEF LastBlock, EndOf
      <4> QED BY <2>1, <3>1, <4>1 DEF NBlocks, Nb, EndAt
    <3>2. CASE i # Depth(r)
      <4>1. i + 1 \in 1..Depth(r)
        BY <1>4, <3>2
      <4>2. Calls(r)[i + 1] = CallAt(r, i + 1)
        BY <1>4, <4>1
      <4>3. /\ LastBlock(r, i) = CallAt(r, i + 1).bcur
            /\ EndOf(r, i) = CallAt(r, i + 1).rbp - CallAt(r, i + 1).dump
        BY <1>4, <3>2, <4>2 DEF LastBlock, EndOf
      <4> QED BY <2>1, <3>2, <4>3 DEF NBlocks, Nb, EndAt
    <3> QED BY <3>1, <3>2
  <2>3. n \in Nat /\ b + n \in 0..Len(r.blocks)
    BY <2>2, PlacesFit
  <2> HIDE DEF n
  <2>4. OffsetsAfter(P, b, n, r.blocks)
    <3>1. ASSUME NEW j \in 0..n
          PROVE  P[b + j] \in Nat /\ P[b] <= P[b + j]
      <4>1. b \in 0..Len(r.blocks) /\ b + j \in 0..Len(r.blocks) /\ b <= b + j
        <5>1. b \in Nat /\ b + n \in 0..Len(r.blocks) /\ n \in Nat /\ Len(r.blocks) \in Nat
          BY <1>3, <2>1, <2>3
        <5> HIDE DEF b
        <5> QED BY <5>1
      <4> QED BY <1>2, <4>1 DEF IsOffsets
    <3>2. ASSUME NEW j \in 1..n
          PROVE  P[b + j] = P[b + (j - 1)] + r.blocks[b + j].sp /\ r.blocks[b + j].sp \in Nat
      <4>1. b + j \in 1..Len(r.blocks) /\ (b + j) - 1 = b + (j - 1)
        <5>1. b \in Nat /\ b + n \in 0..Len(r.blocks) /\ n \in Nat /\ Len(r.blocks) \in Nat
          BY <1>3, <2>1, <2>3
        <5> HIDE DEF b
        <5> QED BY <5>1
      <4>2. r.blocks[b + j] \in BlockSet
        BY <1>3, <4>1
      <4>3. P[b + j] = P[(b + j) - 1] + r.blocks[b + j].sp
        BY <1>2, <4>1 DEF IsOffsets
      <4> QED BY <4>1, <4>2, <4>3 DEF BlockSet
    <3> QED BY <3>1, <3>2 DEF OffsetsAfter
  <2>5. ASSUME NEW j \in 0..n
        PROVE  BlockStart(r, i)[j] - r.bottom = At(r, i, j)
    <3>1. /\ Calls(r)[i].bcur \in Nat /\ Calls(r)[i].rbp \in Nat /\ NBlocks(r, i) \in Nat
          /\ OffsetsAfter(P, Calls(r)[i].bcur, NBlocks(r, i), r.blocks)
      BY <2>1, <2>3, <2>4 DEF n
    <3> HIDE DEF P
    <3>2. \A m \in 0..NBlocks(r, i) :
            BlockStart(r, i)[m] = Calls(r)[i].rbp + P[Calls(r)[i].bcur + m] - P[Calls(r)[i].bcur]
      BY <3>1, BlockStartIs
    <3>3. BlockStart(r, i)[j] = f.rbp + P[b + j] - P[b]
      BY <2>1, <3>2 DEF n
    <3>4. At(r, i, j) = f.rbp - r.bottom + P[b + j] - P[b]
      BY DEF At, P
    <3>5. P[b + j] \in Nat /\ P[b + 0] \in Nat /\ b + 0 = b
      <4>1. b \in Nat /\ b + 0 = b
        BY <2>1
      <4>2. j \in 0..n /\ 0 \in 0..n
        BY <2>3
      <4>3. \A k \in 0..n : P[b + k] \in Nat /\ P[b] <= P[b + k]
        BY <2>4 DEF OffsetsAfter
      <4> HIDE DEF b, n
      <4> QED BY <4>1, <4>2, <4>3
    <3> DEFINE x == P[b + j]
               y == P[b]
               z == f.rbp
    <3>6. x \in Nat /\ y \in Nat /\ z \in Nat /\ BlockStart(r, i)[j] = z + x - y /\ At(r, i, j) = z - r.bottom + x - y
      BY <2>1, <3>3, <3>4, <3>5
    <3> HIDE DEF x, y, z
    <3> QED BY <1>1, <3>6
  <2>6. ASSUME NEW j \in 1..n + 1
        PROVE  [vals  |-> SubSeq(r.mem, BlockStart(r, i)[j - 1] - r.bottom + 1,
                             (IF j = n + 1 THEN EndOf(r, i) ELSE BlockStart(r, i)[j]) - r.bottom),
                catch |-> j > 1 /\ r.blocks[b + j - 1].catch] = BlockShown(r, i, j)
    <3>1. j - 1 \in 0..n /\ (j # n + 1 => j \in 0..n)
      BY <2>3
    <3>2. BlockStart(r, i)[j - 1] - r.bottom = At(r, i, j - 1)
      BY <2>5, <3>1
    <3>3. (IF j = n + 1 THEN EndOf(r, i) ELSE BlockStart(r, i)[j]) - r.bottom
            = IF j = n + 1 THEN EndAt(r, i) ELSE At(r, i, j)
      <4>1. CASE j = n + 1
        BY <2>2, <4>1
      <4>2. CASE j # n + 1
        BY <2>5, <3>1, <4>2
      <4> QED BY <4>1, <4>2
    <3> QED BY <2>2, <3>2, <3>3 DEF BlockShown
  <2> QED BY <2>1, <2>2, <2>6 DEF CallShown, n
<1>6. CallsOf(r) = [i \in 1..Depth(r) |->
        [native |-> Calls(r)[i].native, args |-> Calls(r)[i].args,
         blocks |-> [j \in 1..NBlocks(r, i) + 1 |->
           [vals  |-> SubSeq(r.mem, BlockStart(r, i)[j - 1] - r.bottom + 1,
                        (IF j = NBlocks(r, i) + 1 THEN EndOf(r, i) ELSE BlockStart(r, i)[j]) - r.bottom),
            catch |-> j > 1 /\ r.blocks[Calls(r)[i].bcur + j - 1].catch]]]]
  BY <1>4 DEF CallsOf
<1> QED BY <1>5, <1>6

(***************************************************************************)
(* The calls below the one that runs, its blocks below the one that it is  *)
(* in, and the values of that.                                             *)
(***************************************************************************)
LowCalls(r)  == [i \in 1..Len(r.frames) |-> CallShown(r, i)]
LowBlocks(r) == [j \in 1..Nb(r, Depth(r)) |-> BlockShown(r, Depth(r), j)]
TopVals(r)   == SubSeq(r.mem, r.runtime.bp - r.bottom + 1, Len(r.mem))

Nest(calls, native, args, blocks, vals, catch) ==
  Append(calls, [native |-> native, args |-> args,
                 blocks |-> Append(blocks, [vals |-> vals, catch |-> catch])])

(* The calls of a coroutine are put together from them.                    *)
LEMMA ViewIs ==
  ASSUME NEW r, Good(r)
  PROVE  /\ CallsOf(r) = Nest(LowCalls(r), r.runtime.native, r.runtime.args, LowBlocks(r), TopVals(r), Caught(r))
         /\ LowCalls(r) \in Seq(ShownCall) /\ Len(LowCalls(r)) = Len(r.frames)
         /\ LowBlocks(r) \in Seq(ShownBlock) /\ Len(LowBlocks(r)) = Len(r.blocks) - r.runtime.bcur
         /\ Len(LowBlocks(r)) = Nb(r, Depth(r))
         /\ TopVals(r) \in Seq(Values) /\ Len(TopVals(r)) = Avail(r)
         /\ \A i \in 1..Avail(r) : TopVals(r)[i] = r.mem[Len(r.mem) - Avail(r) + i]
         /\ Caught(r) \in BOOLEAN /\ r.runtime.native \in BOOLEAN /\ r.runtime.args \in Seq(Values)
         /\ CallsOf(r) \in Seq(ShownCall) /\ Len(CallsOf(r)) = Depth(r)
         /\ \A i \in 1..Depth(r) : CallsOf(r)[i].native = CallAt(r, i).native
         /\ BlockShown(r, Depth(r), Nb(r, Depth(r)) + 1) = [vals |-> TopVals(r), catch |-> Caught(r)]
         /\ \A i \in 1..Depth(r) : CallsOf(r)[i] = CallShown(r, i)
<1> DEFINE d == Depth(r)
           n == Nb(r, d)
           p == r.runtime.bp - r.bottom
<1>1. /\ r \in CoroSet /\ r.mem \in Seq(Values) /\ r.blocks \in Seq(BlockSet) /\ Len(r.blocks) \in Nat
      /\ Len(r.mem) \in Nat /\ r.bottom \in Nat /\ Len(r.frames) \in Nat /\ r.runtime \in FrameSet
  BY GoodFacts, CoroFields
<1>2. d \in Nat \ {0} /\ CallAt(r, d) = r.runtime /\ d \in 1..d /\ d = Len(r.frames) + 1
  BY <1>1, CallTypes DEF Depth
<1>3. /\ r.runtime.bcur \in Nat /\ n \in Nat /\ r.runtime.bcur + n = Len(r.blocks)
      /\ EndAt(r, d) = Len(r.mem) /\ At(r, d, n) = p
  BY <1>2, PlacesFit
<1>4. /\ r.runtime.bp \in Nat /\ r.runtime.bp <= Sp(r) /\ Sp(r) = r.bottom + Len(r.mem)
      /\ Avail(r) = Sp(r) - r.runtime.bp /\ r.runtime.rbp \in Nat /\ r.bottom <= r.runtime.rbp /\ r.runtime.rbp <= r.runtime.bp
      /\ (BlockOpen(r) <=> r.runtime.bcur < Len(r.blocks))
  BY GoodFacts
<1>5. p \in Nat /\ p <= Len(r.mem) /\ Avail(r) = Len(r.mem) - p /\ Len(r.mem) - Avail(r) = p
  BY <1>1, <1>4
<1>6. /\ TopVals(r) \in Seq(Values) /\ Len(TopVals(r)) = Avail(r)
      /\ \A i \in 1..Avail(r) : TopVals(r)[i] = r.mem[Len(r.mem) - Avail(r) + i]
  <2> DEFINE m == Len(r.mem)
  <2>1. m \in Nat /\ m <= Len(r.mem)
    BY <1>1
  <2> HIDE DEF p, m
  <2>2. /\ SubSeq(r.mem, p + 1, m) \in Seq(Values) /\ Len(SubSeq(r.mem, p + 1, m)) = m - p
        /\ \A i \in 1..m - p : SubSeq(r.mem, p + 1, m)[i] = r.mem[p + i]
    BY <1>1, <1>5, <2>1, PartOf DEF m
  <2> QED BY <1>5, <2>2 DEF TopVals, p, m
<1>7. \A i \in 1..d : CallShown(r, i) \in ShownCall
  BY ShownTypes
<1>8. \A j \in 1..n + 1 : BlockShown(r, d, j) \in ShownBlock
  BY <1>2, ShownTypes
<1>9. LowCalls(r) \in Seq(ShownCall) /\ Len(LowCalls(r)) = Len(r.frames)
  BY <1>1, <1>2, <1>7 DEF LowCalls
<1>10. LowBlocks(r) \in Seq(ShownBlock) /\ Len(LowBlocks(r)) = n
  <2> HIDE DEF n
  <2>1. \A j \in 1..n : BlockShown(r, d, j) \in ShownBlock
    BY <1>3, <1>8
  <2> QED BY <1>3, <2>1 DEF LowBlocks, n
<1>11. Caught(r) = (n + 1 > 1 /\ r.blocks[r.runtime.bcur + (n + 1) - 1].catch)
  <2> HIDE DEF n
  <2>1. CASE n = 0
    BY <1>3, <1>4, <2>1 DEF Caught
  <2>2. CASE n # 0
    <3>1. r.blocks # <<>> /\ BlockOpen(r) /\ n + 1 > 1 /\ r.runtime.bcur + (n + 1) - 1 = Len(r.blocks)
      BY <1>1, <1>3, <1>4, <2>2
    <3>2. Last(r.blocks) = r.blocks[Len(r.blocks)]
      BY <1>1, <3>1, LastFront
    <3> QED BY <3>1, <3>2 DEF Caught
  <2> QED BY <2>1, <2>2
<1>12. BlockShown(r, d, n + 1) = [vals |-> TopVals(r), catch |-> Caught(r)]
  <2>1. (n + 1) - 1 = n
    BY <1>3
  <2> QED BY <1>2, <1>3, <1>11, <2>1 DEF BlockShown, TopVals
<1>13. Caught(r) \in BOOLEAN
  <2>1. BlockShown(r, d, n + 1) \in ShownBlock
    BY <1>3, <1>8
  <2> QED BY <1>12, <2>1 DEF ShownBlock
<1>14. [j \in 1..n + 1 |-> BlockShown(r, d, j)] = Append(LowBlocks(r), [vals |-> TopVals(r), catch |-> Caught(r)])
  <2> DEFINE bs == [j \in 1..n + 1 |-> BlockShown(r, d, j)]
  <2>1. bs \in Seq(ShownBlock) /\ Len(bs) = n + 1
    BY <1>3, <1>8
  <2>2. \A j \in 1..n : bs[j] = LowBlocks(r)[j]
    BY <1>3 DEF LowBlocks
  <2>3. bs[n + 1] = BlockShown(r, d, n + 1)
    BY <1>3
  <2> HIDE DEF bs, n
  <2>4. bs = Append(LowBlocks(r), bs[Len(LowBlocks(r)) + 1])
    BY <1>10, <2>1, <2>2, SplitLast
  <2> QED BY <1>10, <1>12, <2>3, <2>4 DEF bs
<1>15. CallShown(r, d) = [native |-> r.runtime.native, args |-> r.runtime.args,
                          blocks |-> Append(LowBlocks(r), [vals |-> TopVals(r), catch |-> Caught(r)])]
  BY <1>2, <1>14 DEF CallShown
<1>16. /\ CallsOf(r) \in Seq(ShownCall) /\ Len(CallsOf(r)) = d
       /\ \A i \in 1..d : CallsOf(r)[i] = CallShown(r, i)
  <2> HIDE DEF d
  <2>1. CallsOf(r) = [i \in 1..d |-> CallShown(r, i)]
    BY CallsAre DEF d
  <2> QED BY <1>2, <1>7, <2>1
<1>17. \A i \in 1..d : CallsOf(r)[i].native = CallAt(r, i).native
  BY <1>16 DEF CallShown
<1>18. CallsOf(r) = Nest(LowCalls(r), r.runtime.native, r.runtime.args, LowBlocks(r), TopVals(r), Caught(r))
  <2> HIDE DEF d, n
  <2>1. \A i \in 1..Len(LowCalls(r)) : CallsOf(r)[i] = LowCalls(r)[i]
    BY <1>1, <1>2, <1>9, <1>16 DEF LowCalls
  <2>2. CallsOf(r) = Append(LowCalls(r), CallsOf(r)[Len(LowCalls(r)) + 1])
    BY <1>2, <1>9, <1>16, <2>1, SplitLast
  <2>3. CallsOf(r)[Len(LowCalls(r)) + 1] = CallShown(r, d)
    BY <1>2, <1>9, <1>16
  <2> QED BY <1>15, <2>2, <2>3 DEF Nest
<1>19. r.runtime.native \in BOOLEAN /\ r.runtime.args \in Seq(Values)
  BY <1>1, FrameFields
<1>20. n = Len(r.blocks) - r.runtime.bcur
  BY <1>1, <1>3
<1> QED BY <1>6, <1>9, <1>10, <1>12, <1>13, <1>16, <1>17, <1>18, <1>19, <1>20

(* A sequence and one more element.                                        *)
LEMMA AppendEnds ==
  ASSUME NEW S, NEW s \in Seq(S), NEW x \in S
  PROVE  LET a == Append(s, x)
         IN  a \in Seq(S) /\ a # <<>> /\ Len(a) = Len(s) + 1 /\ Last(a) = x /\ Front(a) = s
<1> DEFINE a == Append(s, x)
<1>1. a \in Seq(S) /\ Len(a) = Len(s) + 1 /\ a[Len(s) + 1] = x /\ \A i \in 1..Len(s) : a[i] = s[i]
  BY Longer
<1> HIDE DEF a
<1>2. a # <<>>
  BY <1>1
<1>3. Last(a) = x
  BY <1>1 DEF Last
<1>4. Front(a) \in Seq(S) /\ Len(Front(a)) = Len(s) /\ \A i \in 1..Len(s) : Front(a)[i] = s[i]
  BY <1>1, <1>2, LastFront
<1>5. Front(a) = s
  BY <1>4
<1> QED BY <1>1, <1>2, <1>3, <1>5 DEF a

(* CallModel means the same by these.                                      *)
LEMMA SameEnds == \A s : Model!Front(s) = Front(s) /\ Model!Last(s) = Last(s)
BY DEF Front, Last, Model!Front, Model!Last

(* What CallModel does to the innermost block of the calls z.              *)
Parts(z, cs, nat, args, bs, vals, catch) ==
  /\ z \in Seq(ShownCall) /\ z # <<>> /\ Len(z) = Len(cs) + 1 /\ Front(z) = cs
  /\ Last(z) \in ShownCall /\ Last(z).native = nat /\ Last(z).args = args
  /\ Last(z).blocks = Append(bs, [vals |-> vals, catch |-> catch])
  /\ Last(z).blocks # <<>> /\ Len(Last(z).blocks) = Len(bs) + 1
  /\ Front(Last(z).blocks) = bs
  /\ Last(Last(z).blocks) = [vals |-> vals, catch |-> catch]
  /\ \A b : Model!WithBlocks(z, b) = Append(cs, [native |-> nat, args |-> args, blocks |-> b])
  /\ \A v : Model!WithVals(z, v) = Nest(cs, nat, args, bs, v, catch)
  /\ \A v : Model!PushOn(z, v) = Nest(cs, nat, args, bs, Append(vals, v), catch)

(* The parts of a nest, and its operations on them.                        *)
LEMMA NestFacts ==
  ASSUME NEW cs \in Seq(ShownCall), NEW nat \in BOOLEAN, NEW args \in Seq(Values),
         NEW bs \in Seq(ShownBlock), NEW vals \in Seq(Values), NEW catch \in BOOLEAN
  PROVE  Parts(Nest(cs, nat, args, bs, vals, catch), cs, nat, args, bs, vals, catch)
<1> DEFINE b == [vals |-> vals, catch |-> catch]
           y == Append(bs, b)
           f == [native |-> nat, args |-> args, blocks |-> y]
           z == Append(cs, f)
<1>1. b \in ShownBlock
  BY DEF ShownBlock
<1>2. y \in Seq(ShownBlock) /\ y # <<>> /\ Len(y) = Len(bs) + 1 /\ Last(y) = b /\ Front(y) = bs
  BY <1>1, AppendEnds
<1>3. f \in ShownCall
  BY <1>2 DEF ShownCall
<1>4. z \in Seq(ShownCall) /\ z # <<>> /\ Len(z) = Len(cs) + 1 /\ Last(z) = f /\ Front(z) = cs
  BY <1>3, AppendEnds
<1>5. ASSUME NEW x
      PROVE  Model!WithBlocks(z, x) = Append(cs, [native |-> nat, args |-> args, blocks |-> x])
  <2>1. [f EXCEPT !.blocks = x] = [native |-> nat, args |-> args, blocks |-> x]
    <3> HIDE DEF y
    <3> QED OBVIOUS
  <2> HIDE DEF f, z
  <2> QED BY <1>4, <2>1, SameEnds DEF Model!WithBlocks, Model!WithInner
<1>6. f.native = nat /\ f.args = args /\ f.blocks = y
  OBVIOUS
<1>7. \A x : [b EXCEPT !.vals = x] = [vals |-> x, catch |-> catch]
  OBVIOUS
<1>8. b.vals = vals
  OBVIOUS
<1> HIDE DEF f, y, b, z
<1>9. ASSUME NEW x
      PROVE  Model!WithVals(z, x) = Nest(cs, nat, args, bs, x, catch)
  <2>1. Model!WithVals(z, x) = Model!WithBlocks(z, Append(bs, [vals |-> x, catch |-> catch]))
    BY <1>2, <1>4, <1>6, <1>7, SameEnds DEF Model!WithVals
  <2> QED BY <1>5, <2>1 DEF Nest
<1>10. ASSUME NEW x
       PROVE  Model!PushOn(z, x) = Nest(cs, nat, args, bs, Append(vals, x), catch)
  BY <1>2, <1>4, <1>6, <1>8, <1>9, SameEnds DEF Model!PushOn
<1>11. Parts(z, cs, nat, args, bs, vals, catch)
  <2>1. y = Append(bs, [vals |-> vals, catch |-> catch]) /\ Last(y) = [vals |-> vals, catch |-> catch]
    BY <1>2 DEF y, b
  <2>2. Last(z).native = nat /\ Last(z).args = args /\ Last(z).blocks = y /\ Last(z) \in ShownCall
    BY <1>3, <1>4, <1>6
  <2> QED BY <1>2, <1>4, <1>5, <1>9, <1>10, <2>1, <2>2 DEF Parts
<1> QED BY <1>11 DEF Nest, z, f, y, b

(* The innermost block catches.                                            *)
Catches(z, cs, nat, args, bs, vals) ==
  \A v : Model!Caught(z, v) = Nest(cs, nat, args, bs, Append(vals, v), FALSE)

(* What is left of a nest when its innermost block catches.                *)
LEMMA NestCaught ==
  ASSUME NEW cs \in Seq(ShownCall), NEW nat \in BOOLEAN, NEW args \in Seq(Values),
         NEW bs \in Seq(ShownBlock), NEW vals \in Seq(Values), NEW catch \in BOOLEAN
  PROVE  Catches(Nest(cs, nat, args, bs, vals, catch), cs, nat, args, bs, vals)
<1> SUFFICES ASSUME NEW v
             PROVE  Model!Caught(Nest(cs, nat, args, bs, vals, catch), v) = Nest(cs, nat, args, bs, Append(vals, v), FALSE)
  BY DEF Catches
<1> DEFINE z == Nest(cs, nat, args, bs, vals, catch)
           y == Nest(cs, nat, args, bs, vals, FALSE)
           b == [vals |-> vals, catch |-> catch]
           e == [vals |-> vals, catch |-> FALSE]
<1>1. Parts(z, cs, nat, args, bs, vals, catch)
  BY NestFacts
<1>2. Parts(y, cs, nat, args, bs, vals, FALSE)
  BY NestFacts
<1>3. [b EXCEPT !.catch = FALSE] = e
  <2>1. \A x : [b EXCEPT !.catch = x] = [vals |-> vals, catch |-> x]
    OBVIOUS
  <2> HIDE DEF b
  <2> QED BY <2>1
<1>4. Model!WithBlocks(z, Append(bs, e)) = y
  BY <1>1 DEF Nest, Parts
<1> HIDE DEF z, y, e
<1>5. Model!PushOn(y, v) = Nest(cs, nat, args, bs, Append(vals, v), FALSE)
  BY <1>2 DEF Parts
<1>6. Front(Last(z).blocks) = bs /\ Last(Last(z).blocks) = b
  BY <1>1 DEF Parts
<1> HIDE DEF b
<1>7. Model!Caught(z, v) = Nest(cs, nat, args, bs, Append(vals, v), FALSE)
  BY <1>3, <1>4, <1>5, <1>6, SameEnds DEF Model!Caught
<1> QED BY <1>7 DEF z

(* A function called by native code has nothing else to take off the stack *)
(* when it ends.                                                           *)
Tidy(r) == \A k \in 1..Len(r.frames) : CallAt(r, k).native => CallAt(r, k + 1).dump = 0

(* The call that runs changes, from its innermost block on.                *)
LEMMA TopChanges ==
  ASSUME NEW r, Good(r), NEW q, Good(q), Depth(q) = Depth(r), Agree(r, q, Depth(r)),
         Len(q.blocks) = Len(r.blocks),
         \A j \in 1..Len(r.blocks) : /\ q.blocks[j].sp = r.blocks[j].sp
                                     /\ ~ BlockOpen(r) \/ j # Len(r.blocks) => q.blocks[j].catch = r.blocks[j].catch,
         \A j \in 1..r.runtime.bp - r.bottom : q.mem[j] = r.mem[j]
  PROVE  /\ CallsOf(q) = Nest(LowCalls(r), q.runtime.native, q.runtime.args, LowBlocks(r), TopVals(q), Caught(q))
         /\ q.runtime.bp - q.bottom = r.runtime.bp - r.bottom
         /\ Tidy(r) => Tidy(q)
<1> DEFINE d == Depth(r)
           m == Nb(r, d)
           n == r.runtime.bp - r.bottom
<1>1. /\ d \in Nat \ {0} /\ d \in 1..d /\ CallAt(r, d) = r.runtime /\ CallAt(q, d) = q.runtime
      /\ Len(r.frames) \in Nat /\ Len(q.frames) \in Nat /\ d = Len(r.frames) + 1 /\ d = Len(q.frames) + 1
      /\ Len(r.blocks) \in Nat
  BY GoodFacts, CallTypes, CoroFields DEF Depth
<1>2. /\ r.runtime.bcur \in Nat /\ m \in Nat /\ r.runtime.bcur + m = Len(r.blocks) /\ At(r, d, m) = n
      /\ \A j \in 0..m : At(r, d, j) \in Nat
  BY <1>1, PlacesFit
<1>3. Nb(q, d) \in Nat /\ q.runtime.bcur + Nb(q, d) = Len(q.blocks) /\ At(q, d, Nb(q, d)) = q.runtime.bp - q.bottom
  BY <1>1, PlacesFit
<1>4. q.runtime.bcur = r.runtime.bcur
  BY <1>1 DEF Agree
<1>5. Nb(q, d) = m
  BY <1>2, <1>3, <1>4
<1>6. n \in Nat
  BY <1>2
<1>7. BlockOpen(r) <=> m # 0
  BY <1>1, <1>2, GoodFacts
<1> HIDE DEF d, m, n
<1>8. SameTo(r, q, d, m, n)
  <2>1. ASSUME NEW j \in 1..r.runtime.bcur + m
        PROVE  /\ q.blocks[j].sp = r.blocks[j].sp
               /\ j <= r.runtime.bcur \/ j < r.runtime.bcur + m => q.blocks[j].catch = r.blocks[j].catch
    BY <1>2, <1>7
  <2>2. \A j \in 1..n : q.mem[j] = r.mem[j]
    BY DEF n
  <2> QED BY <1>1, <2>1, <2>2 DEF SameTo
<1>9. /\ \A i \in 1..d - 1 : CallShown(q, i) = CallShown(r, i)
      /\ \A j \in 1..m : BlockShown(q, d, j) = BlockShown(r, d, j)
      /\ \A j \in 0..m : At(q, d, j) = At(r, d, j)
  <2>1. m <= Nb(r, d) /\ m <= Nb(q, d) /\ At(r, d, m) <= n /\ Agree(r, q, d)
    BY <1>2, <1>5, <1>6 DEF m, d
  <2> QED BY <1>2, <1>6, <1>8, <2>1, LowerIsSame
<1>10. LowCalls(q) = LowCalls(r)
  <2>1. Len(q.frames) = Len(r.frames) /\ Len(r.frames) = d - 1
    BY <1>1
  <2> QED BY <1>9, <2>1 DEF LowCalls
<1>11. LowBlocks(q) = LowBlocks(r)
  <2>1. Depth(q) = d /\ Depth(r) = d /\ Nb(r, d) = m
    BY DEF d, m
  <2> QED BY <1>5, <1>9, <2>1 DEF LowBlocks
<1>12. CallsOf(q) = Nest(LowCalls(q), q.runtime.native, q.runtime.args, LowBlocks(q), TopVals(q), Caught(q))
  BY ViewIs
<1>13. q.runtime.bp - q.bottom = r.runtime.bp - r.bottom
  BY <1>2, <1>3, <1>5, <1>9 DEF n
<1>14. ASSUME Tidy(r)
       PROVE  Tidy(q)
  <2> SUFFICES ASSUME NEW k \in 1..Len(q.frames), CallAt(q, k).native
               PROVE  CallAt(q, k + 1).dump = 0
    BY DEF Tidy
  <2>1. k \in 1..d /\ k + 1 \in 1..d /\ k < d /\ k + 1 > 1 /\ k \in 1..Len(r.frames)
    BY <1>1
  <2>2. Agree(r, q, d)
    BY DEF d
  <2>3. CallAt(q, k).native = CallAt(r, k).native /\ CallAt(q, k + 1).dump = CallAt(r, k + 1).dump
    BY <2>1, <2>2 DEF Agree
  <2> QED BY <1>14, <2>1, <2>3 DEF Tidy
<1> QED BY <1>10, <1>11, <1>12, <1>13, <1>14

(* The parts of what a coroutine shows.                                    *)
LEMMA ViewParts ==
  ASSUME NEW r, Good(r)
  PROVE  Parts(CallsOf(r), LowCalls(r), r.runtime.native, r.runtime.args, LowBlocks(r), TopVals(r), Caught(r))
BY ViewIs, NestFacts

=============================================================================
