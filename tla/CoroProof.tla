----------------------------- MODULE CoroProof -----------------------------
(***************************************************************************)
(* First what pushing, blocks, calls and returns do to the nested calls    *)
(* and blocks that CallModel sees of a coroutine.  Then the inductive      *)
(* invariant of module Coro: each C stack and the call stacks of its       *)
(* coroutines agree (CoroStackProof), no coroutine is on two C stacks or   *)
(* keeps native calls when it is on none, and one exception at a time is   *)
(* on its way.  Every step keeps it, and what the runs check of Coro       *)
(* follows.                                                                *)
(***************************************************************************)
EXTENDS CoroStackProof

(***************************************************************************)
(* What the steps of one coroutine do to what CallModel sees of it.        *)
(***************************************************************************)

(* The frames stay, or move with the array.                                *)
LEMMA FramesAgree ==
  ASSUME NEW r \in CoroSet, NEW q \in CoroSet, NEW by \in Nat, q.bottom = r.bottom + by,
         Len(q.frames) = Len(r.frames),
         \A i \in 1..Len(r.frames) : q.frames[i] = MoveFrame(r.frames[i], by),
         q.runtime.rbp = r.runtime.rbp + by, q.runtime.bcur = r.runtime.bcur, q.runtime.dump = r.runtime.dump
  PROVE  Depth(q) = Depth(r) /\ Agree(r, q, Depth(r))
<1>1. /\ r.bottom \in Nat /\ Len(r.frames) \in Nat /\ r.frames \in Seq(FrameSet) /\ r.runtime \in FrameSet
      /\ r.runtime.rbp \in Nat
  BY CoroFields, FrameFields
<1>2. Depth(q) = Depth(r) /\ Depth(r) \in 1..Depth(r)
  BY <1>1 DEF Depth
<1>3. ASSUME NEW k \in 1..Depth(r)
      PROVE  /\ k < Depth(r) => /\ CallAt(q, k).native = CallAt(r, k).native
                                /\ CallAt(q, k).args = CallAt(r, k).args
             /\ CallAt(q, k).bcur = CallAt(r, k).bcur
             /\ CallAt(q, k).rbp - q.bottom = CallAt(r, k).rbp - r.bottom
             /\ CallAt(q, k).dump = CallAt(r, k).dump
  <2>1. CASE k = Depth(r)
    <3>1. CallAt(r, k) = r.runtime /\ CallAt(q, k) = q.runtime
      BY <1>1, <1>2, <2>1 DEF CallAt, Depth
    <3>2. (r.runtime.rbp + by) - (r.bottom + by) = r.runtime.rbp - r.bottom
      BY <1>1
    <3> QED BY <1>2, <2>1, <3>1, <3>2
  <2>2. CASE k # Depth(r)
    <3> DEFINE f == r.frames[k]
               g == MoveFrame(f, by)
    <3>1. k \in 1..Len(r.frames)
      BY <1>1, <2>2 DEF Depth
    <3>2. CallAt(r, k) = f /\ CallAt(q, k) = g
      BY <3>1 DEF CallAt
    <3>3. f \in FrameSet
      BY <1>1, <3>1
    <3>4. f.rbp \in Nat
      BY <3>3, FrameFields
    <3> HIDE DEF f
    <3>5. g.rbp = f.rbp + by /\ g.bcur = f.bcur /\ g.dump = f.dump /\ g.native = f.native
      BY <3>3, MovedFrame
    <3>6. g.args = f.args
      BY <3>3 DEF MoveFrame, FrameSet
    <3> HIDE DEF g
    <3>7. g.rbp - q.bottom = f.rbp - r.bottom
      BY <1>1, <3>4, <3>5
    <3> QED BY <3>2, <3>5, <3>6, <3>7
  <2> QED BY <2>1, <2>2
<1> QED BY <1>2, <1>3 DEF Agree

(* The calls agree when bottom, frames and the saved pointers are the same.*)
LEMMA SameAgree ==
  ASSUME NEW r \in CoroSet, NEW q \in CoroSet, q.bottom = r.bottom, q.frames = r.frames,
         q.runtime.rbp = r.runtime.rbp, q.runtime.bcur = r.runtime.bcur, q.runtime.dump = r.runtime.dump
  PROVE  Depth(q) = Depth(r) /\ Agree(r, q, Depth(r))
<1>1. /\ r.bottom \in Nat /\ Len(r.frames) \in Nat /\ r.frames \in Seq(FrameSet) /\ r.runtime \in FrameSet
      /\ r.runtime.rbp \in Nat
  BY CoroFields, FrameFields
<1>2. \A f \in FrameSet : MoveFrame(f, 0) = f
  <2> SUFFICES ASSUME NEW f \in FrameSet
               PROVE  MoveFrame(f, 0) = f
    OBVIOUS
  <2>1. f.bp + 0 = f.bp /\ f.rbp + 0 = f.rbp
    BY FrameFields
  <2> QED BY <2>1 DEF MoveFrame, FrameSet
<1>3. \A i \in 1..Len(r.frames) : q.frames[i] = MoveFrame(r.frames[i], 0)
  BY <1>1, <1>2
<1>4. 0 \in Nat /\ q.bottom = r.bottom + 0 /\ q.runtime.rbp = r.runtime.rbp + 0 /\ Len(q.frames) = Len(r.frames)
  BY <1>1
<1> QED BY <1>3, <1>4, FramesAgree

(* What no instruction on the values and blocks of a call changes.         *)
Steady(q, r) == q.param = r.param /\ (Tidy(r) => Tidy(q))

(* A value is pushed.                                                      *)
LEMMA PushView ==
  ASSUME NEW r, Good(r), NEW v \in Values
  PROVE  LET q == Push(r, v)
         IN  Good(q) /\ CallsOf(q) = Model!PushOn(CallsOf(r), v) /\ Steady(q, r)
<1> DEFINE s == [r EXCEPT !.mem = Append(r.mem, v)]
           q == Push(r, v)
<1>1. r \in CoroSet /\ Good(q)
  BY PushGood DEF Good
<1>2. /\ r.mem \in Seq(Values) /\ Len(r.mem) \in Nat /\ r.bottom \in Nat /\ r.size \in Nat
      /\ r.runtime \in FrameSet /\ r.frames \in Seq(FrameSet) /\ Len(r.frames) \in Nat
      /\ r.blocks \in Seq(BlockSet) /\ Len(r.blocks) \in Nat
  BY <1>1, CoroFields
<1>3. /\ Append(r.mem, v) \in Seq(Values) /\ Len(Append(r.mem, v)) = Len(r.mem) + 1
      /\ Append(r.mem, v)[Len(r.mem) + 1] = v /\ \A i \in 1..Len(r.mem) : Append(r.mem, v)[i] = r.mem[i]
  BY <1>2, Longer
<1>4. /\ s \in CoroSet /\ s.mem = Append(r.mem, v) /\ s.param = r.param
      /\ s.bottom = r.bottom /\ s.blocks = r.blocks
      /\ s.runtime = r.runtime /\ s.frames = r.frames
  BY <1>1, <1>3 DEF CoroSet
<1>5. q = IF Len(s.mem) < s.size THEN s ELSE Enlarge(s)
  BY DEF Push
<1> HIDE DEF s, q
<1>6. /\ Depth(q) = Depth(r) /\ Agree(r, q, Depth(r)) /\ q.mem = Append(r.mem, v) /\ q.blocks = r.blocks
      /\ q.runtime.native = r.runtime.native /\ q.runtime.args = r.runtime.args /\ q.param = r.param
  <2>1. CASE q = s
    BY <1>1, <1>4, <2>1, SameAgree
  <2>2. CASE q = Enlarge(s)
    <3> DEFINE by == s.size + 1
    <3>1. /\ q \in CoroSet /\ q.bottom = s.bottom + by /\ by \in Nat /\ q.mem = s.mem /\ q.blocks = s.blocks
          /\ q.runtime = MoveFrame(s.runtime, by) /\ Len(q.frames) = Len(s.frames)
          /\ \A i \in 1..Len(s.frames) : q.frames[i] = MoveFrame(s.frames[i], by)
      BY <1>4, <2>2, EnlargeMoves
    <3>2. q.param = s.param
      BY <1>4, <2>2 DEF Enlarge, CoroSet
    <3> HIDE DEF by
    <3>6. r.runtime \in FrameSet /\ by \in Nat /\ q.runtime = MoveFrame(r.runtime, by)
      BY <1>2, <1>4, <3>1
    <3>3. /\ q.runtime.rbp = r.runtime.rbp + by /\ q.runtime.bcur = r.runtime.bcur
          /\ q.runtime.dump = r.runtime.dump /\ q.runtime.native = r.runtime.native
      BY <3>6, MovedFrame
    <3>4. q.runtime.args = r.runtime.args
      BY <1>2, <1>4, <3>1 DEF MoveFrame, FrameSet
    <3>5. Depth(q) = Depth(r) /\ Agree(r, q, Depth(r))
      BY <1>1, <1>4, <3>1, <3>3, FramesAgree
    <3> QED BY <1>4, <3>1, <3>2, <3>3, <3>4, <3>5
  <2> QED BY <1>5, <2>1, <2>2
<1>7. r.runtime.bp - r.bottom \in 0..Len(r.mem)
  BY <1>2, GoodFacts
<1>8. /\ CallsOf(q) = Nest(LowCalls(r), r.runtime.native, r.runtime.args, LowBlocks(r), TopVals(q), Caught(q))
      /\ q.runtime.bp - q.bottom = r.runtime.bp - r.bottom /\ (Tidy(r) => Tidy(q))
  <2>1. \A j \in 1..r.runtime.bp - r.bottom : q.mem[j] = r.mem[j]
    BY <1>2, <1>3, <1>6, <1>7
  <2> QED BY <1>1, <1>6, <2>1, TopChanges
<1>9. TopVals(q) = Append(TopVals(r), v)
  <2> DEFINE p == r.runtime.bp - r.bottom
             n == Len(r.mem)
  <2>1. TopVals(q) = SubSeq(Append(r.mem, v), p + 1, n + 1) /\ TopVals(r) = SubSeq(r.mem, p + 1, n)
    BY <1>3, <1>6, <1>8 DEF TopVals
  <2>2. p \in 0..n /\ n \in Nat
    BY <1>2, <1>7
  <2> HIDE DEF p
  <2>3. SubSeq(Append(r.mem, v), p + 1, n + 1) = Append(SubSeq(r.mem, p + 1, n), v)
    <3> DEFINE m == Append(r.mem, v)
               w == SubSeq(r.mem, p + 1, n)
               x == SubSeq(m, p + 1, n + 1)
    <3>1. p \in Nat /\ p <= n /\ n <= Len(r.mem) /\ p <= n + 1 /\ n + 1 \in Nat /\ n + 1 <= Len(m)
      BY <1>3, <2>2
    <3>2. m \in Seq(Values) /\ m[n + 1] = v /\ \A i \in 1..n : m[i] = r.mem[i]
      BY <1>3
    <3> HIDE DEF m, n
    <3>3. /\ x \in Seq(Values) /\ Len(x) = (n + 1) - p
          /\ \A i \in 1..(n + 1) - p : x[i] = m[p + i]
      BY <3>1, <3>2, PartOf
    <3>4. /\ w \in Seq(Values) /\ Len(w) = n - p
          /\ \A i \in 1..n - p : w[i] = r.mem[p + i]
      BY <1>2, <2>2, <3>1, PartOf
    <3> HIDE DEF w, x
    <3>5. (n + 1) - p = Len(w) + 1 /\ Len(w) + 1 \in 1..(n + 1) - p /\ p + (Len(w) + 1) = n + 1
      BY <2>2, <3>1, <3>4
    <3>6. ASSUME NEW i \in 1..Len(w)
          PROVE  x[i] = w[i]
      <4>1. i \in 1..(n + 1) - p /\ i \in 1..n - p /\ p + i \in 1..n
        BY <2>2, <3>1, <3>4
      <4> QED BY <3>2, <3>3, <3>4, <4>1
    <3>7. x = Append(w, x[Len(w) + 1])
      BY <3>3, <3>4, <3>5, <3>6, SplitLast
    <3>8. x[Len(w) + 1] = v
      BY <3>2, <3>3, <3>5
    <3> QED BY <3>7, <3>8 DEF x, w, m, n
  <2> QED BY <2>1, <2>3
<1>10. Caught(q) = Caught(r)
  <2>1. q.runtime.bcur = r.runtime.bcur
    <3>1. Depth(r) \in 1..Depth(r) /\ CallAt(r, Depth(r)) = r.runtime /\ CallAt(q, Depth(q)) = q.runtime
      BY <1>1, CallTypes DEF Good
    <3> QED BY <1>6, <3>1 DEF Agree
  <2> QED BY <1>6, <2>1 DEF Caught, BlockOpen
<1>11. Model!PushOn(CallsOf(r), v)
         = Nest(LowCalls(r), r.runtime.native, r.runtime.args, LowBlocks(r), Append(TopVals(r), v), Caught(r))
  BY ViewParts DEF Parts
<1> QED BY <1>1, <1>6, <1>8, <1>9, <1>10, <1>11 DEF q, Steady

(* n values are dropped.                                                   *)
LEMMA DropView ==
  ASSUME NEW r, Good(r), NEW n \in 0..Avail(r)
  PROVE  LET q == Drop(r, n)
         IN  /\ Good(q) /\ Steady(q, r) /\ LowCalls(q) = LowCalls(r) /\ LowBlocks(q) = LowBlocks(r)
             /\ CallsOf(q) = Model!WithVals(CallsOf(r), SubSeq(TopVals(r), 1, Avail(r) - n))
             /\ TopVals(q) = SubSeq(TopVals(r), 1, Avail(r) - n) /\ Caught(q) = Caught(r)
<1> DEFINE m == Cut(r.mem, Len(r.mem) - n)
           q == Drop(r, n)
<1>1. r \in CoroSet /\ Good(q) /\ q.blocks = r.blocks /\ q.runtime = r.runtime
  BY DropGood DEF Good
<1>2. /\ Avail(r) \in 0..Len(r.mem) /\ Avail(r) = Sp(r) - r.runtime.bp /\ Sp(r) = r.bottom + Len(r.mem)
      /\ r.runtime.bp \in Nat /\ r.bottom \in Nat
  BY <1>1, GoodFacts, CoroFields
<1>3. Len(r.mem) \in Nat /\ r.mem \in Seq(Values)
  BY <1>1, CoroFields
<1>4. Len(r.mem) - n \in 0..Len(r.mem) /\ r.runtime.bp - r.bottom \in 0..Len(r.mem) - n
  BY <1>2, <1>3
<1>5. m \in Seq(Values) /\ Len(m) = Len(r.mem) - n /\ \A i \in 1..Len(r.mem) - n : m[i] = r.mem[i]
  BY <1>3, <1>4, CutBelow
<1>6. q = [r EXCEPT !.mem = m]
  BY DEF Drop
<1> HIDE DEF q, m
<1>7. q \in CoroSet /\ q.mem = m /\ q.bottom = r.bottom /\ q.frames = r.frames /\ q.param = r.param
  BY <1>1, <1>6 DEF CoroSet, Good
<1>8. Depth(q) = Depth(r) /\ Agree(r, q, Depth(r))
  BY <1>1, <1>7, SameAgree
<1>9. /\ CallsOf(q) = Nest(LowCalls(r), r.runtime.native, r.runtime.args, LowBlocks(r), TopVals(q), Caught(q))
      /\ (Tidy(r) => Tidy(q))
  <2>1. \A j \in 1..r.runtime.bp - r.bottom : q.mem[j] = r.mem[j]
    BY <1>4, <1>5, <1>7
  <2> QED BY <1>1, <1>8, <2>1, TopChanges
<1>10. Caught(q) = Caught(r)
  BY <1>1 DEF Caught, BlockOpen
<1>11. TopVals(q) = SubSeq(TopVals(r), 1, Avail(r) - n)
  <2> DEFINE p == r.runtime.bp - r.bottom
             l == Len(r.mem)
             a == Avail(r)
  <2>1. TopVals(q) = SubSeq(m, p + 1, l - n) /\ TopVals(r) = SubSeq(r.mem, p + 1, l)
    BY <1>1, <1>5, <1>7 DEF TopVals
  <2>2. p \in 0..l - n /\ l \in Nat /\ n \in Nat /\ a = l - p /\ a \in Nat
    BY <1>2, <1>3, <1>4
  <2> HIDE DEF p, a
  <2>3. SubSeq(m, p + 1, l - n) = SubSeq(SubSeq(r.mem, p + 1, l), 1, a - n)
    <3>1. /\ SubSeq(r.mem, p + 1, l) \in Seq(Values) /\ Len(SubSeq(r.mem, p + 1, l)) = l - p
          /\ \A i \in 1..l - p : SubSeq(r.mem, p + 1, l)[i] = r.mem[p + i]
      <4>1. p \in Nat /\ p <= l /\ l <= Len(r.mem)
        BY <1>3, <2>2
      <4> QED BY <1>3, <4>1, PartOf
    <3>2. /\ SubSeq(m, p + 1, l - n) \in Seq(Values) /\ Len(SubSeq(m, p + 1, l - n)) = (l - n) - p
          /\ \A i \in 1..(l - n) - p : SubSeq(m, p + 1, l - n)[i] = m[p + i]
      <4>1. p \in Nat /\ p <= l - n /\ l - n <= Len(m) /\ l - n \in Nat
        <5>1. Len(m) = l - n /\ l \in Nat /\ n \in Nat
          BY <1>5, <2>2
        <5> HIDE DEF m, l
        <5> QED BY <2>2, <5>1
      <4>2. m \in Seq(Values)
        BY <1>5
      <4> DEFINE k == l - n
      <4>3. p \in Nat /\ k \in Nat /\ p <= k /\ k <= Len(m)
        BY <4>1
      <4> HIDE DEF m, k
      <4>4. /\ SubSeq(m, p + 1, k) \in Seq(Values) /\ Len(SubSeq(m, p + 1, k)) = k - p
            /\ \A i \in 1..k - p : SubSeq(m, p + 1, k)[i] = m[p + i]
        BY <4>2, <4>3, PartOf
      <4> QED BY <4>4 DEF k
    <3>3. \A i \in 1..(l - n) - p : m[p + i] = r.mem[p + i]
      <4>1. \A i \in 1..l - n : m[i] = r.mem[i]
        BY <1>5
      <4>2. l \in Nat /\ n \in Nat /\ p \in 0..l - n
        BY <2>2
      <4> HIDE DEF m, l
      <4>3. \A i \in 1..(l - n) - p : p + i \in 1..l - n
        BY <4>2
      <4> QED BY <4>1, <4>3
    <3> DEFINE w == SubSeq(r.mem, p + 1, l)
    <3>4. /\ SubSeq(w, 1, a - n) \in Seq(Values) /\ Len(SubSeq(w, 1, a - n)) = a - n
          /\ \A i \in 1..a - n : SubSeq(w, 1, a - n)[i] = w[i]
      <4>1. w \in Seq(Values) /\ a - n \in 0..Len(w)
        BY <2>2, <3>1
      <4> HIDE DEF w
      <4> QED BY <4>1, FirstOf
    <3>5. (l - n) - p = a - n /\ a - n \in Nat /\ \A i \in 1..a - n : i \in 1..l - p
      BY <2>2
    <3>6. \A i \in 1..a - n : SubSeq(w, 1, a - n)[i] = SubSeq(m, p + 1, l - n)[i]
      BY <3>1, <3>2, <3>3, <3>4, <3>5
    <3> HIDE DEF w
    <3> DEFINE x == SubSeq(w, 1, a - n)
               y == SubSeq(m, p + 1, l - n)
    <3>7. x \in Seq(Values) /\ y \in Seq(Values) /\ Len(x) = Len(y) /\ \A i \in 1..Len(x) : x[i] = y[i]
      BY <3>2, <3>4, <3>5, <3>6
    <3> HIDE DEF x, y
    <3>8. x = y
      BY <3>7
    <3> QED BY <3>8 DEF x, y, w
  <2> QED BY <2>1, <2>3 DEF a
<1>12. \A x : Model!WithVals(CallsOf(r), x)
         = Nest(LowCalls(r), r.runtime.native, r.runtime.args, LowBlocks(r), x, Caught(r))
  BY ViewParts DEF Parts
<1>13. LowCalls(q) = LowCalls(r) /\ LowBlocks(q) = LowBlocks(r)
  <2>1. Parts(CallsOf(q), LowCalls(q), q.runtime.native, q.runtime.args, LowBlocks(q), TopVals(q), Caught(q))
    BY <1>1, ViewParts
  <2>2. Parts(CallsOf(q), LowCalls(r), r.runtime.native, r.runtime.args, LowBlocks(r), TopVals(q), Caught(q))
    <3>1. TopVals(q) \in Seq(Values) /\ Caught(q) \in BOOLEAN
      BY <1>1, ViewIs
    <3>2. /\ LowCalls(r) \in Seq(ShownCall) /\ LowBlocks(r) \in Seq(ShownBlock)
          /\ r.runtime.native \in BOOLEAN /\ r.runtime.args \in Seq(Values)
      BY ViewIs
    <3>3. Parts(Nest(LowCalls(r), r.runtime.native, r.runtime.args, LowBlocks(r), TopVals(q), Caught(q)),
                LowCalls(r), r.runtime.native, r.runtime.args, LowBlocks(r), TopVals(q), Caught(q))
      BY <3>1, <3>2, NestFacts
    <3> QED BY <1>9, <3>3
  <2> QED BY <2>1, <2>2 DEF Parts
<1> QED BY <1>1, <1>7, <1>9, <1>10, <1>11, <1>12, <1>13 DEF q, Steady

(* Sequences with the same elements.                                       *)
LEMMA SameSeq ==
  ASSUME NEW S, NEW x \in Seq(S), NEW y \in Seq(S), Len(x) = Len(y), \A i \in 1..Len(x) : x[i] = y[i]
  PROVE  x = y
OBVIOUS

(* A part of a part.                                                       *)
LEMMA SubPart ==
  ASSUME NEW S, NEW s \in Seq(S), NEW p \in Nat, NEW l \in Nat, p <= l, l <= Len(s),
         NEW a \in Nat, NEW b \in Nat, a <= b, p + b <= l
  PROVE  SubSeq(SubSeq(s, p + 1, l), a + 1, b) = SubSeq(s, (p + a) + 1, p + b)
<1> DEFINE w == SubSeq(s, p + 1, l)
           x == SubSeq(w, a + 1, b)
           y == SubSeq(s, (p + a) + 1, p + b)
<1>1. w \in Seq(S) /\ Len(w) = l - p /\ \A i \in 1..l - p : w[i] = s[p + i]
  BY PartOf
<1>2. b <= Len(w)
  BY <1>1
<1>3. x \in Seq(S) /\ Len(x) = b - a /\ \A i \in 1..b - a : x[i] = w[a + i]
  <2>1. w \in Seq(S) /\ a <= b /\ b <= Len(w)
    BY <1>1, <1>2
  <2> HIDE DEF w
  <2> QED BY <2>1, PartOf
<1> HIDE DEF w
<1>4. p + a \in Nat /\ p + b \in Nat /\ p + a <= p + b /\ p + b <= Len(s)
  OBVIOUS
<1>5. y \in Seq(S) /\ Len(y) = (p + b) - (p + a) /\ \A i \in 1..(p + b) - (p + a) : y[i] = s[(p + a) + i]
  BY <1>4, PartOf
<1> HIDE DEF x, y
<1>6. (p + b) - (p + a) = b - a /\ b - a \in Nat
  OBVIOUS
<1>7. ASSUME NEW i \in 1..b - a
      PROVE  x[i] = y[i]
  <2>1. a + i \in 1..l - p /\ p + (a + i) = (p + a) + i
    OBVIOUS
  <2> QED BY <1>1, <1>3, <1>5, <1>6, <2>1
<1>8. Len(x) = Len(y) /\ \A i \in 1..Len(x) : x[i] = y[i]
  BY <1>3, <1>5, <1>6, <1>7
<1>9. x = y
  BY <1>3, <1>5, <1>8, SameSeq
<1> QED BY <1>9 DEF x, y, w

(* A block is left.                                                        *)
LEMMA LeaveBlockView ==
  ASSUME NEW r, Good(r), BlockOpen(r)
  PROVE  LET q == LeaveBlock(r)
         IN  /\ Good(q) /\ Steady(q, r) /\ LowBlocks(r) # <<>>
             /\ CallsOf(q) = Append(LowCalls(r), [native |-> r.runtime.native, args |-> r.runtime.args,
                                                  blocks |-> LowBlocks(r)])
<1> DEFINE d == Depth(r)
           n == Nb(r, d)
           p == r.runtime.bp - r.bottom
           m == Cut(r.mem, p)
           f == [r.runtime EXCEPT !.bp = r.runtime.bp - Last(r.blocks).sp]
           bs == Front(r.blocks)
           q == LeaveBlock(r)
<1>1. r \in CoroSet /\ Good(q)
  BY LeaveBlockGood DEF Good
<1>2. /\ r.mem \in Seq(Values) /\ Len(r.mem) \in Nat /\ r.bottom \in Nat /\ r.runtime \in FrameSet
      /\ r.blocks \in Seq(BlockSet) /\ Len(r.blocks) \in Nat
  BY <1>1, CoroFields
<1>3. q = [r EXCEPT !.mem = m, !.runtime = f, !.blocks = bs]
  BY <1>1 DEF LeaveBlock, CoroSet
<1>4. /\ f.rbp = r.runtime.rbp /\ f.bcur = r.runtime.bcur /\ f.dump = r.runtime.dump
      /\ f.native = r.runtime.native /\ f.args = r.runtime.args
  BY <1>2 DEF FrameSet
<1>5. d \in Nat \ {0} /\ CallAt(r, d) = r.runtime /\ d \in 1..d
  BY <1>1, CallTypes
<1>6. /\ r.runtime.bcur \in Nat /\ n \in Nat /\ r.runtime.bcur + n = Len(r.blocks)
      /\ EndAt(r, d) = Len(r.mem) /\ At(r, d, n) = p /\ \A j \in 0..n : At(r, d, j) \in Nat
  BY <1>5, PlacesFit
<1>7. r.runtime.bcur < Len(r.blocks)
  BY GoodFacts
<1>8. n \in Nat \ {0} /\ r.blocks # <<>>
  BY <1>2, <1>6, <1>7
<1>9. Len(bs) = Len(r.blocks) - 1 /\ \A i \in 1..Len(r.blocks) - 1 : bs[i] = r.blocks[i]
  BY <1>2, <1>8, LastFront
<1>10. p \in 0..Len(r.mem)
  BY <1>2, GoodFacts
<1>11. Len(m) = p /\ \A i \in 1..p : m[i] = r.mem[i]
  BY <1>2, <1>10, CutBelow
<1> HIDE DEF q, m, f, bs
<1>12. /\ q \in CoroSet /\ q.mem = m /\ q.runtime = f /\ q.blocks = bs
       /\ q.bottom = r.bottom /\ q.frames = r.frames /\ q.param = r.param
  BY <1>1, <1>3 DEF CoroSet, Good
<1>13. Depth(q) = d /\ Agree(r, q, d)
  BY <1>1, <1>4, <1>12, SameAgree
<1>14. CallAt(q, d) = q.runtime
  BY <1>12, <1>13, CallTypes
<1>15. Nb(q, d) \in Nat /\ q.runtime.bcur + Nb(q, d) = Len(q.blocks) /\ EndAt(q, d) = Len(q.mem)
  BY <1>1, <1>5, <1>13, <1>14, PlacesFit
<1>16. Nb(q, d) = n - 1
  <2> HIDE DEF n
  <2> QED BY <1>2, <1>4, <1>6, <1>9, <1>12, <1>15
<1> HIDE DEF d, n, p
<1>17. At(r, d, n - 1) <= p
  <2>1. /\ n - 1 \in 0..n /\ n \in 0..n /\ n - 1 <= n
        /\ \A j, k \in 0..Nb(r, d) : j <= k => At(r, d, j) <= At(r, d, k)
    BY <1>5, <1>8, PlacesFit DEF d
  <2> QED BY <1>6, <2>1 DEF n
<1>18. SameTo(r, q, d, n - 1, p)
  <2>1. ASSUME NEW j \in 1..r.runtime.bcur + (n - 1)
        PROVE  q.blocks[j] = r.blocks[j]
    BY <1>2, <1>6, <1>9, <1>12
  <2> QED BY <1>5, <1>11, <1>12, <2>1 DEF SameTo
<1>19. /\ \A i \in 1..d - 1 : CallShown(q, i) = CallShown(r, i)
       /\ \A j \in 1..n - 1 : BlockShown(q, d, j) = BlockShown(r, d, j)
       /\ \A j \in 0..n - 1 : At(q, d, j) = At(r, d, j)
  <2>1. n - 1 \in Nat /\ n - 1 <= Nb(r, d) /\ n - 1 <= Nb(q, d) /\ p \in Nat /\ Good(r) /\ Good(q)
    BY <1>1, <1>2, <1>8, <1>10, <1>16 DEF n
  <2> QED BY <1>13, <1>17, <1>18, <2>1, LowerIsSame
<1>20. LowCalls(q) = LowCalls(r)
  <2>1. Len(q.frames) = Len(r.frames) /\ Len(r.frames) = d - 1
    BY <1>1, <1>12, CoroFields DEF d, Depth
  <2> QED BY <1>19, <2>1 DEF LowCalls
<1>21. BlockShown(r, d, n) = BlockShown(q, d, n)
  <2>1. n # n + 1 /\ n = (n - 1) + 1 /\ (n - 1) \in 0..n - 1
    BY <1>8
  <2>2. BlockShown(r, d, n) =
          [vals  |-> SubSeq(r.mem, At(r, d, n - 1) + 1, p),
           catch |-> n > 1 /\ r.blocks[r.runtime.bcur + n - 1].catch]
    BY <1>5, <1>6, <2>1 DEF BlockShown, n
  <2>3. BlockShown(q, d, n) =
          [vals  |-> SubSeq(q.mem, At(r, d, n - 1) + 1, p),
           catch |-> n > 1 /\ q.blocks[r.runtime.bcur + n - 1].catch]
    BY <1>4, <1>11, <1>12, <1>14, <1>15, <1>16, <1>19, <2>1 DEF BlockShown
  <2>4. SubSeq(q.mem, At(r, d, n - 1) + 1, p) = SubSeq(r.mem, At(r, d, n - 1) + 1, p)
    <3> DEFINE a == At(r, d, n - 1)
    <3>1. a \in Nat /\ p \in Nat /\ q.mem \in Seq(Values)
      BY <1>2, <1>6, <1>8, <1>10, <1>12, CoroFields
    <3>2. \A i \in 1..p : q.mem[i] = r.mem[i]
      BY <1>11, <1>12
    <3> HIDE DEF a
    <3>3. SubSeq(q.mem, a + 1, p) = SubSeq(r.mem, a + 1, p)
      BY <1>2, <3>1, <3>2, PartIsSame
    <3> QED BY <3>3 DEF a
  <2>5. n > 1 => q.blocks[r.runtime.bcur + n - 1] = r.blocks[r.runtime.bcur + n - 1]
    <3>1. r.runtime.bcur + n - 1 = Len(r.blocks) - 1
      <4> DEFINE c == r.runtime.bcur
                 x == Len(r.blocks)
      <4>1. c \in Nat /\ n \in Nat /\ c + n = x
        BY <1>6
      <4> HIDE DEF c, x
      <4>2. c + n - 1 = x - 1
        BY <4>1
      <4> QED BY <4>2 DEF c, x
    <3>2. n > 1 => Len(r.blocks) - 1 \in 1..Len(r.blocks) - 1
      BY <1>2, <1>6, <1>8
    <3> QED BY <1>9, <1>12, <3>1, <3>2
  <2> QED BY <2>2, <2>3, <2>4, <2>5
<1>22. LowBlocks(r) = Append(LowBlocks(q), BlockShown(q, d, n)) /\ LowBlocks(r) # <<>>
  <2>1. /\ LowBlocks(r) = [j \in 1..n |-> BlockShown(r, d, j)]
        /\ LowBlocks(q) = [j \in 1..n - 1 |-> BlockShown(q, d, j)]
    BY <1>13, <1>16 DEF LowBlocks, n, d
  <2>2. /\ LowBlocks(r) \in Seq(ShownBlock) /\ LowBlocks(q) \in Seq(ShownBlock)
        /\ Len(LowBlocks(r)) = n /\ Len(LowBlocks(q)) = n - 1
    BY <1>1, <1>13, <1>16, ViewIs DEF n, d
  <2>3. \A j \in 1..n - 1 : LowBlocks(r)[j] = LowBlocks(q)[j]
    BY <1>8, <1>19, <2>1
  <2>4. Len(LowBlocks(r)) = Len(LowBlocks(q)) + 1 /\ (n - 1) + 1 = n
    BY <1>8, <2>2
  <2>5. LowBlocks(r) = Append(LowBlocks(q), LowBlocks(r)[n])
    BY <2>2, <2>3, <2>4, SplitLast
  <2>6. LowBlocks(r)[n] = BlockShown(q, d, n)
    BY <1>8, <1>21, <2>1
  <2>7. LowBlocks(r) # <<>>
    BY <1>8, <2>2
  <2> QED BY <2>5, <2>6, <2>7
<1>23. BlockShown(q, d, n) = [vals |-> TopVals(q), catch |-> Caught(q)]
  <2>1. Nb(q, d) + 1 = n /\ Depth(q) = d
    BY <1>8, <1>13, <1>16
  <2> QED BY <1>1, <2>1, ViewIs
<1>24. CallsOf(q) = Append(LowCalls(r), [native |-> r.runtime.native, args |-> r.runtime.args,
                                         blocks |-> LowBlocks(r)])
  <2>1. CallsOf(q) = Nest(LowCalls(q), q.runtime.native, q.runtime.args, LowBlocks(q), TopVals(q), Caught(q))
    BY <1>1, ViewIs
  <2> QED BY <1>4, <1>12, <1>20, <1>22, <1>23, <2>1 DEF Nest
<1>25. ASSUME Tidy(r)
       PROVE  Tidy(q)
  <2> SUFFICES ASSUME NEW k \in 1..Len(q.frames), CallAt(q, k).native
               PROVE  CallAt(q, k + 1).dump = 0
    BY DEF Tidy
  <2>1. k \in 1..d /\ k + 1 \in 1..d /\ k < d /\ k + 1 > 1 /\ k \in 1..Len(r.frames)
    BY <1>1, <1>12, CoroFields DEF d, Depth
  <2>2. CallAt(q, k).native = CallAt(r, k).native /\ CallAt(q, k + 1).dump = CallAt(r, k + 1).dump
    BY <1>13, <2>1 DEF Agree
  <2> QED BY <1>25, <2>1, <2>2 DEF Tidy
<1> QED BY <1>1, <1>12, <1>22, <1>24, <1>25 DEF Steady, q

(* The frames stay, and the callers' native functions and dumps with them. *)
LEMMA AgreeTidy ==
  ASSUME NEW r \in CoroSet, NEW q \in CoroSet, Depth(q) = Depth(r), Agree(r, q, Depth(r)), Tidy(r)
  PROVE  Tidy(q)
<1> SUFFICES ASSUME NEW k \in 1..Len(q.frames), CallAt(q, k).native
             PROVE  CallAt(q, k + 1).dump = 0
  BY DEF Tidy
<1>1. Len(q.frames) \in Nat /\ Len(r.frames) \in Nat /\ Len(q.frames) + 1 = Len(r.frames) + 1
  BY CoroFields DEF Depth
<1>2. /\ k \in 1..Depth(r) /\ k + 1 \in 1..Depth(r) /\ k < Depth(r) /\ k + 1 > 1
      /\ k \in 1..Len(r.frames)
  BY <1>1 DEF Depth
<1>3. CallAt(q, k).native = CallAt(r, k).native /\ CallAt(q, k + 1).dump = CallAt(r, k + 1).dump
  BY <1>2 DEF Agree
<1> QED BY <1>2, <1>3 DEF Tidy

(* The values above the first k of the block go into a new block.          *)
LEMMA BeginBlockView ==
  ASSUME NEW r, Good(r), NEW k \in 0..Avail(r), ~ r.runtime.native
  PROVE  LET q == BeginBlock(r, k)
             v == TopVals(r)
         IN  /\ Good(q) /\ Steady(q, r)
             /\ CallsOf(q) = Nest(LowCalls(r), r.runtime.native, r.runtime.args,
                                  Append(LowBlocks(r), [vals |-> SubSeq(v, 1, k), catch |-> Caught(r)]),
                                  SubSeq(v, k + 1, Len(v)), FALSE)
<1> DEFINE d == Depth(r)
           n == Nb(r, d)
           p == r.runtime.bp - r.bottom
           l == Len(r.mem)
           b == [sp |-> k, catch |-> FALSE]
           bs == Append(r.blocks, b)
           f  == [r.runtime EXCEPT !.bp = r.runtime.bp + k]
           q  == BeginBlock(r, k)
           v == TopVals(r)
           e == [vals |-> SubSeq(v, 1, k), catch |-> Caught(r)]
<1>1. r \in CoroSet /\ Good(q)
  BY BeginBlockGood DEF Good
<1>2. /\ r.mem \in Seq(Values) /\ l \in Nat /\ r.bottom \in Nat /\ r.runtime \in FrameSet
      /\ r.blocks \in Seq(BlockSet) /\ Len(r.blocks) \in Nat /\ r.runtime.bp \in Nat
  BY <1>1, CoroFields, FrameFields
<1>3. q = [r EXCEPT !.blocks = bs, !.runtime = f]
  BY <1>1 DEF BeginBlock, CoroSet
<1>4. /\ f.rbp = r.runtime.rbp /\ f.bcur = r.runtime.bcur /\ f.dump = r.runtime.dump
      /\ f.native = r.runtime.native /\ f.args = r.runtime.args /\ f.bp = r.runtime.bp + k
  BY <1>2 DEF FrameSet
<1>5. d \in Nat \ {0} /\ CallAt(r, d) = r.runtime /\ d \in 1..d
  BY <1>1, CallTypes
<1>6. /\ r.runtime.bcur \in Nat /\ n \in Nat /\ r.runtime.bcur + n = Len(r.blocks)
      /\ At(r, d, n) = p
  BY <1>5, PlacesFit
<1>7. Avail(r) = l - p /\ p \in 0..l /\ k \in Nat /\ p + k <= l
  <2>1. /\ Avail(r) \in 0..l /\ Avail(r) = Sp(r) - r.runtime.bp /\ Sp(r) = r.bottom + l
        /\ r.runtime.rbp \in Nat /\ r.bottom <= r.runtime.rbp /\ r.runtime.rbp <= r.runtime.bp
    BY GoodFacts
  <2>2. k \in 0..Avail(r)
    OBVIOUS
  <2> DEFINE a == Avail(r)
             x == r.runtime.bp
             y == r.bottom
             z == r.runtime.rbp
             w == Sp(r)
  <2>3. a \in 0..l /\ a = w - x /\ w = y + l /\ z \in Nat /\ y <= z /\ z <= x /\ k \in 0..a
    BY <2>1, <2>2
  <2>4. l \in Nat /\ x \in Nat /\ y \in Nat
    BY <1>2
  <2> HIDE DEF a, l, x, y, z, w
  <2>5. a = l - (x - y) /\ x - y \in 0..l /\ k \in Nat /\ (x - y) + k <= l
    BY <2>3, <2>4
  <2> QED BY <2>5 DEF a, x, y
<1>8. b \in BlockSet
  BY <1>7 DEF BlockSet
<1>9. /\ bs \in Seq(BlockSet) /\ Len(bs) = Len(r.blocks) + 1 /\ bs[Len(r.blocks) + 1] = b
      /\ \A i \in 1..Len(r.blocks) : bs[i] = r.blocks[i]
  BY <1>2, <1>8, Longer
<1>10. b.catch = FALSE
  OBVIOUS
<1> HIDE DEF q, f, bs, b
<1>12. /\ q \in CoroSet /\ q.mem = r.mem /\ q.runtime = f /\ q.blocks = bs
       /\ q.bottom = r.bottom /\ q.frames = r.frames /\ q.param = r.param
  BY <1>1, <1>3 DEF CoroSet, Good
<1>13. Depth(q) = d /\ Agree(r, q, d)
  BY <1>1, <1>4, <1>12, SameAgree
<1>14. CallAt(q, d) = q.runtime
  BY <1>12, <1>13, CallTypes
<1>15. /\ Nb(q, d) \in Nat /\ q.runtime.bcur + Nb(q, d) = Len(q.blocks)
       /\ At(q, d, Nb(q, d)) = q.runtime.bp - q.bottom
  BY <1>1, <1>5, <1>13, <1>14, PlacesFit
<1>16. Nb(q, d) = n + 1
  <2> DEFINE c == r.runtime.bcur
             x == Len(r.blocks)
             y == Nb(q, d)
  <2>1. c \in Nat /\ n \in Nat /\ c + n = x
    BY <1>6
  <2>2. y \in Nat /\ c + y = x + 1
    BY <1>4, <1>9, <1>12, <1>15
  <2> HIDE DEF c, n, x, y
  <2>3. y = n + 1
    BY <2>1, <2>2
  <2> QED BY <2>3 DEF y
<1>30. At(q, d, n + 1) = p + k
  BY <1>2, <1>4, <1>7, <1>12, <1>15, <1>16
<1> HIDE DEF d, n, p, l, v
<1>18. SameTo(r, q, d, n, p)
  <2>1. ASSUME NEW j \in 1..r.runtime.bcur + n
        PROVE  q.blocks[j] = r.blocks[j]
    BY <1>2, <1>6, <1>9, <1>12
  <2> QED BY <1>5, <1>12, <2>1 DEF SameTo
<1>19. /\ \A i \in 1..d - 1 : CallShown(q, i) = CallShown(r, i)
       /\ \A j \in 1..n : BlockShown(q, d, j) = BlockShown(r, d, j)
       /\ \A j \in 0..n : At(q, d, j) = At(r, d, j)
  <2>1. /\ n \in Nat /\ n <= Nb(r, d) /\ n <= Nb(q, d) /\ p \in Nat /\ Good(r) /\ Good(q)
        /\ At(r, d, n) <= p
    <3>1. Nb(r, d) = n
      BY DEF n
    <3> QED BY <1>1, <1>6, <1>7, <1>16, <3>1
  <2> QED BY <1>13, <1>18, <2>1, LowerIsSame
<1>20. LowCalls(q) = LowCalls(r)
  <2>1. Len(q.frames) = Len(r.frames) /\ Len(r.frames) = d - 1
    BY <1>1, <1>12, CoroFields DEF d, Depth
  <2> QED BY <1>19, <2>1 DEF LowCalls
<1>21. v = SubSeq(r.mem, p + 1, l) /\ Len(v) = l - p
  <2>1. Len(TopVals(r)) = Avail(r)
    BY ViewIs
  <2> QED BY <1>7, <2>1 DEF v, TopVals, p, l
<1>22. BlockShown(q, d, n + 1) = e
  <2>1. /\ n + 1 # Nb(q, d) + 1 /\ (n + 1) - 1 = n /\ n \in 0..n
        /\ r.runtime.bcur + (n + 1) - 1 = Len(r.blocks)
        /\ n + 1 = Nb(r, d) + 1
    <3>1. Nb(r, d) = n
      BY DEF n
    <3> QED BY <1>6, <1>16, <3>1
  <2>2. BlockShown(q, d, n + 1) =
          [vals  |-> SubSeq(r.mem, p + 1, p + k),
           catch |-> n + 1 > 1 /\ q.blocks[Len(r.blocks)].catch]
    BY <1>4, <1>6, <1>12, <1>14, <1>19, <1>30, <2>1 DEF BlockShown
  <2>3. SubSeq(r.mem, p + 1, p + k) = SubSeq(v, 1, k)
    <3>1. p \in Nat /\ l \in Nat /\ p <= l /\ l <= Len(r.mem) /\ 0 \in Nat /\ k \in Nat /\ 0 <= k /\ p + k <= l
      BY <1>2, <1>7 DEF l
    <3>2. SubSeq(SubSeq(r.mem, p + 1, l), 0 + 1, k) = SubSeq(r.mem, (p + 0) + 1, p + k)
      BY <1>2, <3>1, SubPart
    <3>3. p + 0 = p /\ 0 + 1 = 1
      BY <3>1
    <3> QED BY <1>21, <3>2, <3>3
  <2>4. Caught(r) = (n + 1 > 1 /\ r.blocks[Len(r.blocks)].catch)
    <3>1. BlockShown(r, d, n + 1) = [vals |-> TopVals(r), catch |-> Caught(r)]
      BY <2>1, ViewIs DEF d
    <3>2. BlockShown(r, d, n + 1).catch = (n + 1 > 1 /\ r.blocks[Len(r.blocks)].catch)
      BY <1>5, <2>1 DEF BlockShown
    <3> QED BY <3>1, <3>2
  <2>5. n + 1 > 1 => q.blocks[Len(r.blocks)] = r.blocks[Len(r.blocks)]
    <3>1. n + 1 > 1 => Len(r.blocks) \in 1..Len(r.blocks)
      BY <1>2, <1>6
    <3> QED BY <1>9, <1>12, <3>1
  <2> QED BY <2>2, <2>3, <2>4, <2>5
<1> HIDE DEF e
<1>23. LowBlocks(q) = Append(LowBlocks(r), e)
  <2>1. /\ LowBlocks(r) = [j \in 1..n |-> BlockShown(r, d, j)]
        /\ LowBlocks(q) = [j \in 1..n + 1 |-> BlockShown(q, d, j)]
    BY <1>13, <1>16 DEF LowBlocks, n, d
  <2>2. /\ LowBlocks(r) \in Seq(ShownBlock) /\ LowBlocks(q) \in Seq(ShownBlock)
        /\ Len(LowBlocks(r)) = n /\ Len(LowBlocks(q)) = n + 1
    BY <1>1, <1>13, <1>16, ViewIs DEF n, d
  <2>3. \A j \in 1..n : LowBlocks(q)[j] = LowBlocks(r)[j]
    BY <1>6, <1>19, <2>1
  <2>4. LowBlocks(q) = Append(LowBlocks(r), LowBlocks(q)[n + 1])
    BY <2>2, <2>3, SplitLast
  <2>5. LowBlocks(q)[n + 1] = e
    BY <1>6, <1>22, <2>1
  <2> QED BY <2>4, <2>5
<1>24. TopVals(q) = SubSeq(v, k + 1, Len(v))
  <2>1. TopVals(q) = SubSeq(r.mem, (p + k) + 1, l)
    <3>1. q.runtime.bp - q.bottom = p + k
      BY <1>15, <1>16, <1>30
    <3> QED BY <1>12, <3>1 DEF TopVals, l
  <2>2. /\ p \in Nat /\ l \in Nat /\ p <= l /\ l <= Len(r.mem) /\ k \in Nat /\ l - p \in Nat /\ k <= l - p
        /\ p + (l - p) <= l /\ p + (l - p) = l
    BY <1>2, <1>7 DEF l
  <2>3. SubSeq(SubSeq(r.mem, p + 1, l), k + 1, l - p) = SubSeq(r.mem, (p + k) + 1, p + (l - p))
    BY <1>2, <2>2, SubPart
  <2> QED BY <1>21, <2>1, <2>2, <2>3
<1>25. Caught(q) = FALSE
  <2>1. Last(bs) = b
    BY <1>9 DEF Last
  <2> QED BY <1>10, <1>12, <2>1 DEF Caught
<1>26. CallsOf(q) = Nest(LowCalls(q), q.runtime.native, q.runtime.args, LowBlocks(q), TopVals(q), Caught(q))
  BY <1>1, ViewIs
<1>27. Steady(q, r)
  BY <1>1, <1>12, <1>13, AgreeTidy DEF Steady, d
<1> QED BY <1>1, <1>4, <1>12, <1>20, <1>23, <1>24, <1>25, <1>26, <1>27 DEF q, v, e

(* The block is set to catch, or not to.                                   *)
LEMMA SetCatchView ==
  ASSUME NEW r, Good(r), BlockOpen(r), NEW on \in BOOLEAN
  PROVE  LET q == SetCatchOf(r, on)
         IN  /\ Good(q) /\ Steady(q, r)
             /\ CallsOf(q) = Nest(LowCalls(r), r.runtime.native, r.runtime.args, LowBlocks(r), TopVals(r), on)
<1> DEFINE n  == Len(r.blocks)
           b  == [Last(r.blocks) EXCEPT !.catch = on]
           bs == Append(Front(r.blocks), b)
           q  == SetCatchOf(r, on)
<1>1. r \in CoroSet /\ Good(q)
  BY SetCatchGood DEF Good
<1>3. /\ r.blocks \in Seq(BlockSet) /\ n \in Nat \ {0} /\ r.blocks # <<>> /\ r.runtime.bcur \in Nat
      /\ r.runtime.bcur < n
  BY <1>1, CoroFields, GoodFacts
<1>4. /\ Last(r.blocks) = r.blocks[n] /\ Last(r.blocks) \in BlockSet
      /\ Front(r.blocks) \in Seq(BlockSet) /\ Len(Front(r.blocks)) = n - 1
      /\ \A i \in 1..n - 1 : Front(r.blocks)[i] = r.blocks[i]
  BY <1>3, LastFront
<1>5. b \in BlockSet /\ b.sp = r.blocks[n].sp /\ b.catch = on
  BY <1>4 DEF BlockSet
<1> HIDE DEF b
<1>6. /\ bs \in Seq(BlockSet) /\ Len(bs) = (n - 1) + 1 /\ bs[(n - 1) + 1] = b
      /\ \A i \in 1..n - 1 : bs[i] = Front(r.blocks)[i]
  BY <1>4, <1>5, Longer
<1>7. q = [r EXCEPT !.blocks = bs]
  BY DEF SetCatchOf, b
<1> HIDE DEF bs, q
<1>8. /\ q.mem = r.mem /\ q.bottom = r.bottom /\ q.param = r.param /\ q \in CoroSet
      /\ q.blocks = bs /\ q.runtime = r.runtime /\ q.frames = r.frames
  BY <1>1, <1>7 DEF CoroSet, Good
<1>9. Depth(q) = Depth(r) /\ Agree(r, q, Depth(r))
  BY <1>1, <1>8, SameAgree
<1>10. Len(q.blocks) = n /\ q.blocks[n] = b
  BY <1>3, <1>6, <1>8
<1>11. ASSUME NEW j \in 1..n
       PROVE  /\ q.blocks[j].sp = r.blocks[j].sp
              /\ j # n => q.blocks[j].catch = r.blocks[j].catch
  <2>1. CASE j = n
    BY <1>5, <1>10, <2>1
  <2>2. CASE j # n
    <3>1. j \in 1..n - 1
      BY <1>3, <2>2
    <3> QED BY <1>4, <1>6, <1>8, <3>1
  <2> QED BY <2>1, <2>2
<1>12. CallsOf(q) = Nest(LowCalls(r), q.runtime.native, q.runtime.args, LowBlocks(r), TopVals(q), Caught(q))
       /\ (Tidy(r) => Tidy(q))
  BY <1>1, <1>8, <1>9, <1>10, <1>11, TopChanges
<1>13. TopVals(q) = TopVals(r)
  BY <1>8 DEF TopVals
<1>14. Caught(q) = on
  <2>1. q.blocks # <<>> /\ Last(q.blocks) = q.blocks[n] /\ BlockOpen(q)
    BY <1>3, <1>8, <1>10 DEF Last, BlockOpen
  <2> QED BY <1>5, <1>10, <2>1 DEF Caught
<1> QED BY <1>1, <1>8, <1>12, <1>13, <1>14 DEF q, Steady

(* What is left of a coroutine when a call ends.                           *)
LEMMA LeaveFields ==
  ASSUME NEW r, Good(r), r.frames # <<>>
  PROVE  LET q == LeaveFrame(r)  e == Len(r.frames)
         IN  /\ Good(q) /\ q.bottom = r.bottom /\ q.param = r.param /\ e \in Nat \ {0}
             /\ q.runtime = r.frames[e] /\ Len(q.frames) = e - 1 /\ q.frames \in Seq(FrameSet)
             /\ \A i \in 1..e - 1 : q.frames[i] = r.frames[i]
             /\ q.blocks = SubSeq(r.blocks, 1, r.runtime.bcur)
             /\ Len(q.mem) = EndAt(r, e) /\ \A i \in 1..EndAt(r, e) : q.mem[i] = r.mem[i]
             /\ r.runtime.dump = 0 => q = PopFrame(r)
<1> DEFINE e == Len(r.frames)
           g == r.runtime
           x == PopFrame(r)
           q == LeaveFrame(r)
           m == Cut(r.mem, g.rbp - r.bottom)
           w == Cut(m, Len(m) - g.dump)
           bs == SubSeq(r.blocks, 1, g.bcur)
           n == (g.rbp - r.bottom) - g.dump
<1>1. r \in CoroSet /\ Good(q)
  BY LeaveFrameGood DEF Good
<1>2. /\ r.mem \in Seq(Values) /\ Len(r.mem) \in Nat /\ r.bottom \in Nat /\ r.runtime \in FrameSet
      /\ r.frames \in Seq(FrameSet)
  BY <1>1, CoroFields
<1>3. e \in Nat \ {0} /\ Last(r.frames) = r.frames[e] /\ Front(r.frames) \in Seq(FrameSet)
      /\ Len(Front(r.frames)) = e - 1 /\ \A i \in 1..e - 1 : Front(r.frames)[i] = r.frames[i]
  BY <1>2, LastFront
<1>4. g.rbp \in Nat /\ r.bottom <= g.rbp /\ g.dump \in 0..2 /\ g.rbp <= r.bottom + Len(r.mem)
  <2>1. /\ g.rbp \in Nat /\ r.bottom <= g.rbp /\ g.rbp <= g.bp /\ g.bp <= Sp(r) /\ Sp(r) = r.bottom + Len(r.mem)
        /\ g.bp \in Nat
    BY GoodFacts
  <2>2. g.dump \in 0..2
    BY <1>2, FrameFields
  <2> DEFINE y == g.bp
             z == Sp(r)
             l == Len(r.mem)
  <2>3. g.rbp <= y /\ y <= z /\ z = r.bottom + l /\ y \in Nat /\ l \in Nat /\ r.bottom \in Nat /\ g.rbp \in Nat
    BY <1>2, <2>1
  <2> HIDE DEF y, z, l, g
  <2>4. g.rbp <= r.bottom + l
    BY <2>3
  <2> QED BY <2>1, <2>2, <2>4 DEF l
<1>5. EndAt(r, e) = n /\ EndAt(r, e) \in Nat
  <2>1. e # Depth(r) /\ e \in 1..Depth(r) /\ CallAt(r, e + 1) = g
    BY <1>3 DEF Depth, CallAt
  <2>2. EndAt(r, e) \in Nat /\ EndAt(r, e) = (g.rbp - g.dump) - r.bottom
    BY <2>1, PlacesFit DEF EndAt
  <2> HIDE DEF g
  <2>3. (g.rbp - g.dump) - r.bottom = (g.rbp - r.bottom) - g.dump
    BY <1>2, <1>4
  <2> QED BY <2>2, <2>3
<1>6. g.rbp - r.bottom \in 0..Len(r.mem)
  <2> HIDE DEF g
  <2> QED BY <1>2, <1>4
<1>7. m \in Seq(Values) /\ Len(m) = g.rbp - r.bottom /\ \A i \in 1..g.rbp - r.bottom : m[i] = r.mem[i]
  BY <1>2, <1>6, CutBelow
<1>8. Len(m) - g.dump = n /\ n \in 0..Len(m)
  <2>1. n \in Nat
    BY <1>5
  <2> HIDE DEF m, g
  <2> QED BY <1>4, <1>6, <1>7, <2>1
<1>9. x = [r EXCEPT !.blocks = bs, !.mem = m, !.runtime = Last(r.frames), !.frames = Front(r.frames)]
  BY <1>1 DEF PopFrame, CoroSet
<1> HIDE DEF m, bs, x, n
<1>10. w \in Seq(Values) /\ Len(w) = n /\ \A i \in 1..n : w[i] = m[i]
  BY <1>7, <1>8, CutBelow
<1>11. x.mem = m
  BY <1>1, <1>9 DEF CoroSet
<1>12. q = [x EXCEPT !.mem = w]
  BY <1>11 DEF LeaveFrame, Drop, x
<1> HIDE DEF w, q
<1>13. /\ q.mem = w /\ q.bottom = r.bottom /\ q.param = r.param /\ q.runtime = Last(r.frames)
       /\ q.frames = Front(r.frames) /\ q.blocks = bs
  BY <1>1, <1>9, <1>12 DEF CoroSet
<1>14. \A i \in 1..n : q.mem[i] = r.mem[i]
  <2>1. \A i \in 1..n : i \in 1..Len(m)
    BY <1>8, <1>5
  <2> QED BY <1>7, <1>10, <1>13, <2>1
<1>15. ASSUME g.dump = 0
       PROVE  q = x
  <2>1. n = Len(m) /\ Len(w) = Len(m)
    <3> HIDE DEF g
    <3> QED BY <1>6, <1>7, <1>8, <1>10, <1>15
  <2>2. \A i \in 1..Len(w) : w[i] = m[i]
    BY <1>10, <2>1
  <2>3. w = m
    BY <1>7, <1>10, <2>1, <2>2, SameSeq
  <2>4. x \in CoroSet
    BY PopFrameGood DEF Good, x
  <2> QED BY <1>11, <1>12, <2>3, <2>4 DEF CoroSet
<1> QED BY <1>1, <1>3, <1>5, <1>10, <1>13, <1>14, <1>15 DEF q, x, bs

(* The call that runs is left.                                             *)
LEMMA LeaveFrameView ==
  ASSUME NEW r, Good(r), r.frames # <<>>
  PROVE  LET q == LeaveFrame(r)
         IN  /\ Good(q) /\ Steady(q, r) /\ CallsOf(q) = LowCalls(r)
             /\ LowCalls(r) # <<>> /\ Last(LowCalls(r)).native = q.runtime.native
             /\ Tidy(r) /\ q.runtime.native => q = PopFrame(r)
<1> DEFINE d == Depth(r)
           e == Len(r.frames)
           q == LeaveFrame(r)
           n == EndAt(r, e)
           m == Nb(r, e)
<1>1. /\ Good(q) /\ q.bottom = r.bottom /\ q.param = r.param /\ e \in Nat \ {0}
      /\ q.runtime = r.frames[e] /\ Len(q.frames) = e - 1
      /\ \A i \in 1..e - 1 : q.frames[i] = r.frames[i]
      /\ q.blocks = SubSeq(r.blocks, 1, r.runtime.bcur)
      /\ Len(q.mem) = n /\ (r.runtime.dump = 0 => q = PopFrame(r))
  BY LeaveFields
<1>21. \A i \in 1..n : q.mem[i] = r.mem[i]
  BY LeaveFields
<1>2. /\ r \in CoroSet /\ r.mem \in Seq(Values) /\ r.blocks \in Seq(BlockSet) /\ Len(r.blocks) \in Nat
      /\ q \in CoroSet /\ q.mem \in Seq(Values)
  BY <1>1, CoroFields DEF Good
<1> HIDE DEF q
<1>3. d = e + 1 /\ Depth(q) = e /\ e \in 1..e /\ e \in 1..d /\ e # d
  BY <1>1 DEF Depth
<1>4. \A k \in 1..e : CallAt(q, k) = CallAt(r, k)
  <2> SUFFICES ASSUME NEW k \in 1..e
               PROVE  CallAt(q, k) = CallAt(r, k)
    OBVIOUS
  <2>1. CASE k = e
    <3>1. ~ (k <= Len(q.frames)) /\ k <= Len(r.frames)
      BY <1>1, <2>1
    <3> QED BY <1>1, <2>1, <3>1 DEF CallAt
  <2>2. CASE k # e
    <3>1. k <= Len(q.frames) /\ k <= Len(r.frames) /\ k \in 1..e - 1
      BY <1>1, <2>2
    <3> QED BY <1>1, <3>1 DEF CallAt
  <2> QED BY <2>1, <2>2
<1>5. CallAt(r, d) = r.runtime /\ CallAt(r, e) = r.frames[e]
  BY <1>2, <1>3, CallTypes DEF CallAt
<1>6. /\ CallAt(r, e).bcur \in Nat /\ m \in Nat /\ CallAt(r, e).bcur + m = r.runtime.bcur
      /\ \A j \in 0..m : At(r, e, j) \in Nat
      /\ n \in Nat /\ At(r, e, m) <= n
      /\ CallAt(r, e).bcur + m \in 0..Len(r.blocks)
  <2>1. e \in 1..Depth(r) /\ e # Depth(r) /\ CallAt(r, e + 1) = r.runtime
    BY <1>3, <1>5 DEF d
  <2> HIDE DEF e
  <2> QED BY <2>1, PlacesFit
<1>7. Len(q.blocks) = r.runtime.bcur /\ \A i \in 1..r.runtime.bcur : q.blocks[i] = r.blocks[i]
  <2>1. r.runtime.bcur \in 0..Len(r.blocks)
    BY <1>6
  <2> QED BY <1>1, <1>2, <2>1, FirstOf
<1>8. Nb(q, e) = m
  <2> DEFINE x == CallAt(r, e).bcur
             y == r.runtime.bcur
  <2>1. Nb(q, e) = y - x
    BY <1>3, <1>4, <1>7 DEF Nb
  <2>2. x \in Nat /\ m \in Nat /\ x + m = y
    BY <1>6
  <2> HIDE DEF x, y, m
  <2> QED BY <2>1, <2>2
<1>9. EndAt(q, e) = n
  <2>1. EndAt(q, e) = Len(q.mem)
    BY <1>1, <1>3, PlacesFit
  <2> QED BY <1>1, <2>1
<1> HIDE DEF n, m, d, e
<1>10. Agree(r, q, e)
  BY <1>1, <1>3, <1>4 DEF Agree, d
<1>11. SameTo(r, q, e, m, n)
  BY <1>6, <1>7, <1>21 DEF SameTo
<1>12. /\ \A i \in 1..e - 1 : CallShown(q, i) = CallShown(r, i)
       /\ \A j \in 1..m : BlockShown(q, e, j) = BlockShown(r, e, j)
       /\ \A j \in 0..m : At(q, e, j) = At(r, e, j)
  <2>1. m \in Nat /\ m <= Nb(r, e) /\ m <= Nb(q, e) /\ n \in Nat /\ At(r, e, m) <= n
    <3>1. Nb(r, e) = m
      BY DEF m
    <3> QED BY <1>6, <1>8, <3>1
  <2> QED BY <1>1, <1>10, <1>11, <2>1, LowerIsSame
<1>13. BlockShown(q, e, m + 1) = BlockShown(r, e, m + 1)
  <2>1. (m + 1) - 1 = m /\ m \in 0..m /\ m + 1 = Nb(r, e) + 1 /\ m + 1 = Nb(q, e) + 1
    <3>1. Nb(r, e) = m
      BY DEF m
    <3> QED BY <1>6, <1>8, <3>1
  <2> DEFINE a == At(r, e, m)
  <2>2. SubSeq(q.mem, a + 1, n) = SubSeq(r.mem, a + 1, n)
    <3>1. a \in Nat
      BY <1>6, <2>1
    <3> HIDE DEF a
    <3> QED BY <1>2, <1>6, <1>21, <3>1, PartIsSame
  <2>3. m + 1 > 1 => q.blocks[CallAt(r, e).bcur + (m + 1) - 1] = r.blocks[CallAt(r, e).bcur + (m + 1) - 1]
    <3> DEFINE x == CallAt(r, e).bcur
               y == r.runtime.bcur
    <3>1. x \in Nat /\ m \in Nat /\ x + m = y
      BY <1>6
    <3> HIDE DEF x, y
    <3>2. x + (m + 1) - 1 = y /\ (m + 1 > 1 => y \in 1..y)
      BY <3>1
    <3>3. \A i \in 1..y : q.blocks[i] = r.blocks[i]
      BY <1>7 DEF y
    <3> QED BY <3>2, <3>3 DEF x
  <2>4. CallAt(q, e) = CallAt(r, e) /\ At(q, e, m) = a
    BY <1>3, <1>4, <1>12, <2>1
  <2>5. EndAt(r, e) = n
    BY DEF n
  <2> HIDE DEF a
  <2>6. BlockShown(q, e, m + 1) =
          [vals |-> SubSeq(q.mem, a + 1, n), catch |-> m + 1 > 1 /\ q.blocks[CallAt(r, e).bcur + (m + 1) - 1].catch]
    BY <1>9, <2>1, <2>4 DEF BlockShown
  <2>7. BlockShown(r, e, m + 1) =
          [vals |-> SubSeq(r.mem, a + 1, n), catch |-> m + 1 > 1 /\ r.blocks[CallAt(r, e).bcur + (m + 1) - 1].catch]
    BY <2>1, <2>5 DEF BlockShown, a
  <2> QED BY <2>2, <2>3, <2>6, <2>7
<1>14. CallShown(q, e) = CallShown(r, e)
  <2>1. ASSUME NEW j \in 1..m + 1
        PROVE  BlockShown(q, e, j) = BlockShown(r, e, j)
    <3>1. CASE j = m + 1
      BY <1>13, <3>1
    <3>2. CASE j # m + 1
      <4>1. j \in 1..m
        BY <1>6, <3>2
      <4> QED BY <1>12, <4>1
    <3> QED BY <3>1, <3>2
  <2>2. Nb(q, e) = m /\ Nb(r, e) = m /\ CallAt(q, e) = CallAt(r, e)
    BY <1>3, <1>4, <1>8 DEF m
  <2> QED BY <2>1, <2>2 DEF CallShown
<1>15. CallsOf(q) = LowCalls(r)
  <2>1. CallsOf(q) = [i \in 1..e |-> CallShown(q, i)]
    BY <1>1, <1>3, CallsAre
  <2>2. LowCalls(r) = [i \in 1..e |-> CallShown(r, i)]
    BY DEF LowCalls, e
  <2>3. \A i \in 1..e : CallShown(q, i) = CallShown(r, i)
    <3>1. \A i \in 1..e : i = e \/ i \in 1..e - 1
      BY <1>1
    <3> QED BY <1>12, <1>14, <3>1
  <2> QED BY <2>1, <2>2, <2>3
<1>16. LowCalls(r) # <<>> /\ Last(LowCalls(r)).native = q.runtime.native
  <2>1. Parts(CallsOf(q), LowCalls(q), q.runtime.native, q.runtime.args, LowBlocks(q), TopVals(q), Caught(q))
    BY <1>1, ViewParts
  <2> QED BY <1>15, <2>1 DEF Parts
<1>17. ASSUME Tidy(r)
       PROVE  Tidy(q)
  <2> SUFFICES ASSUME NEW k \in 1..Len(q.frames), CallAt(q, k).native
               PROVE  CallAt(q, k + 1).dump = 0
    BY DEF Tidy
  <2>1. k \in 1..e /\ k + 1 \in 1..e /\ k \in 1..Len(r.frames)
    BY <1>1 DEF e
  <2> QED BY <1>4, <1>17, <2>1 DEF Tidy
<1>18. ASSUME Tidy(r), q.runtime.native
       PROVE  q = PopFrame(r)
  <2>1. e \in 1..Len(r.frames) /\ e + 1 = d
    BY <1>3 DEF e
  <2>2. CallAt(r, e).native
    BY <1>1, <1>5, <1>18
  <2>3. r.runtime.dump = 0
    BY <1>5, <1>18, <2>1, <2>2 DEF Tidy
  <2> QED BY <1>1, <2>3
<1> QED BY <1>1, <1>15, <1>16, <1>17, <1>18 DEF q, Steady

(* A function is entered: the n values on top are its first, the dump      *)
(* values below them are gone.                                             *)
LEMMA EnterView ==
  ASSUME NEW r, Good(r), NEW kind \in Kind, NEW n \in Nat, NEW dump \in 0..2,
         n + dump <= Avail(r), NEW args \in ArgLists
  PROVE  LET q == Enter(r, kind, n, dump, args)
             v == TopVals(r)
             a == Avail(r)
         IN  /\ Good(q) /\ q.param = r.param /\ (Tidy(r) /\ (r.runtime.native => dump = 0) => Tidy(q))
             /\ CallsOf(q) = Append(Nest(LowCalls(r), r.runtime.native, r.runtime.args, LowBlocks(r),
                                         SubSeq(v, 1, a - n - dump), Caught(r)),
                                    [native |-> kind = "native", args |-> args,
                                     blocks |-> <<[vals |-> SubSeq(v, a - n + 1, a), catch |-> FALSE]>>])
<1> DEFINE d == Depth(r)
           m == Nb(r, d)
           p == r.runtime.bp - r.bottom
           l == Len(r.mem)
           f  == [native |-> kind = "native", bp |-> Sp(r) - n, rbp |-> Sp(r) - n, bcur |-> Len(r.blocks),
                  dump |-> dump, param |-> kind = "ink", args |-> args]
           fs == Append(r.frames, r.runtime)
           q  == Enter(r, kind, n, dump, args)
           v == TopVals(r)
           a == Avail(r)
           low == SubSeq(v, 1, a - n - dump)
           top == SubSeq(v, a - n + 1, a)
           e == [vals |-> low, catch |-> Caught(r)]
<1>1. r \in CoroSet /\ Good(q)
  BY EnterGood DEF Good
<1>2. /\ r.mem \in Seq(Values) /\ l \in Nat /\ r.bottom \in Nat /\ r.runtime \in FrameSet
      /\ r.blocks \in Seq(BlockSet) /\ Len(r.blocks) \in Nat /\ r.frames \in Seq(FrameSet) /\ Len(r.frames) \in Nat
  BY <1>1, CoroFields
<1>3. /\ fs \in Seq(FrameSet) /\ Len(fs) = Len(r.frames) + 1 /\ fs[Len(r.frames) + 1] = r.runtime
      /\ \A i \in 1..Len(r.frames) : fs[i] = r.frames[i]
  BY <1>2, Longer
<1>4. q = [r EXCEPT !.frames = fs, !.runtime = f]
  <2>1. PushFrame(r).runtime.bcur = Len(r.blocks)
    BY <1>1, <1>2 DEF PushFrame, CoroSet, FrameSet
  <2>2. q = [PushFrame(r) EXCEPT !.runtime = f]
    BY <2>1 DEF Enter
  <2> QED BY <1>1, <2>2 DEF PushFrame, CoroSet
<1>5. /\ f.bp = Sp(r) - n /\ f.rbp = Sp(r) - n /\ f.bcur = Len(r.blocks) /\ f.dump = dump
      /\ f.native = (kind = "native") /\ f.args = args
  OBVIOUS
<1> HIDE DEF q, f, fs
<1>6. /\ q \in CoroSet /\ q.mem = r.mem /\ q.bottom = r.bottom /\ q.param = r.param
      /\ q.blocks = r.blocks /\ q.runtime = f /\ q.frames = fs
  BY <1>1, <1>4 DEF CoroSet, Good
<1>7. /\ d = Len(r.frames) + 1 /\ Depth(q) = d + 1 /\ Len(q.frames) = d /\ d \in 1..d /\ d # d + 1
      /\ d \in 1..d + 1 /\ d + 1 \in 1..d + 1 /\ CallAt(r, d) = r.runtime
  BY <1>2, <1>3, <1>6 DEF Depth, CallAt
<1>8. CallAt(q, d + 1) = f /\ \A k \in 1..d : CallAt(q, k) = CallAt(r, k)
  BY <1>2, <1>3, <1>6, <1>7 DEF CallAt
<1>9. /\ r.runtime.bcur \in Nat /\ m \in Nat /\ r.runtime.bcur + m = Len(r.blocks)
      /\ At(r, d, m) = p /\ At(r, d, m) \in Nat
  <2>1. d \in 1..Depth(r)
    BY <1>7
  <2>2. m \in 0..m
    BY <2>1, PlacesFit
  <2> QED BY <1>7, <2>1, <2>2, PlacesFit
<1>10. a = l - p /\ p \in 0..l /\ Sp(r) = r.bottom + l /\ a \in Nat
  <2> DEFINE b == r.bottom
             x == r.runtime.bp
             y == Sp(r)
  <2>1. a \in 0..l /\ a = y - x /\ y = b + l /\ x \in Nat /\ b \in Nat
    BY <1>2, GoodFacts
  <2>2. p = x - b /\ p \in Nat /\ l \in Nat
    BY <1>2, <1>9
  <2> HIDE DEF a, l, p, x, y, b
  <2>3. a = l - p /\ p \in 0..l /\ a \in Nat
    BY <2>1, <2>2
  <2> QED BY <2>1, <2>3 DEF y, b
<1>11. n + dump <= a /\ n \in Nat /\ dump \in 0..2
  OBVIOUS
<1>12. Nb(q, d) = m
  <2> DEFINE x == r.runtime.bcur
             y == Len(r.blocks)
  <2>1. Nb(q, d) = y - x
    BY <1>5, <1>7, <1>8 DEF Nb
  <2>2. x \in Nat /\ m \in Nat /\ x + m = y
    BY <1>9
  <2> HIDE DEF x, y, m
  <2> QED BY <2>1, <2>2
<1>13. EndAt(q, d) = l - n - dump
  <2>1. EndAt(q, d) = (Sp(r) - n - dump) - r.bottom
    BY <1>5, <1>6, <1>7, <1>8 DEF EndAt
  <2> DEFINE b == r.bottom
             y == Sp(r)
  <2>2. y = b + l /\ b \in Nat /\ l \in Nat
    BY <1>2, <1>10
  <2> HIDE DEF y, b, l
  <2>3. (y - n - dump) - b = l - n - dump
    BY <1>11, <2>2
  <2> QED BY <2>1, <2>3 DEF y, b
<1> HIDE DEF d, m, p, l, a, v, low, top
<1>14. Agree(r, q, d)
  BY <1>6, <1>7, <1>8 DEF Agree, d
<1>15. /\ \A i \in 1..d - 1 : CallShown(q, i) = CallShown(r, i)
       /\ \A j \in 1..m : BlockShown(q, d, j) = BlockShown(r, d, j)
       /\ \A j \in 0..m : At(q, d, j) = At(r, d, j)
  <2>1. m \in Nat /\ m <= Nb(r, d) /\ m <= Nb(q, d) /\ p \in Nat /\ At(r, d, m) <= p
    <3>1. Nb(r, d) = m
      BY DEF m
    <3> QED BY <1>9, <1>10, <1>12, <3>1
  <2>2. SameTo(r, q, d, m, p)
    BY <1>6 DEF SameTo
  <2> QED BY <1>1, <1>14, <2>1, <2>2, LowerIsSame
<1>16. v = SubSeq(r.mem, p + 1, l)
  BY DEF v, TopVals, p, l
<1>17. /\ p \in Nat /\ l \in Nat /\ p <= l /\ l <= Len(r.mem) /\ 0 \in Nat /\ a - n - dump \in Nat /\ 0 <= a - n - dump
       /\ p + (a - n - dump) <= l /\ p + (a - n - dump) = l - n - dump /\ p + 0 = p /\ 0 + 1 = 1
       /\ a - n \in Nat /\ a \in Nat /\ a - n <= a /\ p + a <= l /\ p + a = l /\ p + (a - n) = l - n
  <2>1. l <= Len(r.mem)
    BY <1>2 DEF l
  <2> QED BY <1>2, <1>10, <1>11, <2>1
<1>18. low = SubSeq(r.mem, p + 1, l - n - dump)
  <2>1. SubSeq(SubSeq(r.mem, p + 1, l), 0 + 1, a - n - dump) = SubSeq(r.mem, (p + 0) + 1, p + (a - n - dump))
    BY <1>2, <1>17, SubPart
  <2> QED BY <1>16, <1>17, <2>1 DEF low
<1>19. top = SubSeq(r.mem, (l - n) + 1, l)
  <2>1. SubSeq(SubSeq(r.mem, p + 1, l), (a - n) + 1, a) = SubSeq(r.mem, (p + (a - n)) + 1, p + a)
    BY <1>2, <1>17, SubPart
  <2> QED BY <1>16, <1>17, <2>1 DEF top
<1>20. BlockShown(q, d, m + 1) = e
  <2>1. (m + 1) - 1 = m /\ m \in 0..m /\ m + 1 = Nb(r, d) + 1 /\ m + 1 = Nb(q, d) + 1
    <3>1. Nb(r, d) = m
      BY DEF m
    <3> QED BY <1>9, <1>12, <3>1
  <2>2. CallAt(q, d) = CallAt(r, d) /\ At(q, d, m) = p
    BY <1>7, <1>8, <1>9, <1>15, <2>1
  <2>3. BlockShown(q, d, m + 1) =
          [vals |-> low, catch |-> m + 1 > 1 /\ r.blocks[CallAt(r, d).bcur + (m + 1) - 1].catch]
    BY <1>6, <1>13, <1>18, <2>1, <2>2 DEF BlockShown
  <2>4. BlockShown(r, d, m + 1).catch = (m + 1 > 1 /\ r.blocks[CallAt(r, d).bcur + (m + 1) - 1].catch)
    BY DEF BlockShown
  <2>5. BlockShown(r, d, m + 1) = [vals |-> TopVals(r), catch |-> Caught(r)]
    BY <2>1, ViewIs DEF d
  <2>6. Caught(r) = (m + 1 > 1 /\ r.blocks[CallAt(r, d).bcur + (m + 1) - 1].catch)
    BY <2>4, <2>5
  <2> QED BY <2>3, <2>6
<1>21. CallShown(q, d) = [native |-> r.runtime.native, args |-> r.runtime.args, blocks |-> Append(LowBlocks(r), e)]
  <2> DEFINE bs == [j \in 1..m + 1 |-> BlockShown(q, d, j)]
  <2>1. CallShown(q, d) = [native |-> r.runtime.native, args |-> r.runtime.args, blocks |-> bs]
    <3>1. CallAt(q, d) = r.runtime
      BY <1>7, <1>8
    <3> QED BY <1>12, <3>1 DEF CallShown
  <2>2. \A j \in 1..m + 1 : BlockShown(q, d, j) \in ShownBlock
    <3>1. d \in 1..Depth(q)
      BY <1>7
    <3> QED BY <1>1, <1>12, <3>1, ShownTypes
  <2>3. bs \in Seq(ShownBlock) /\ Len(bs) = m + 1
    BY <1>9, <2>2
  <2>4. LowBlocks(r) \in Seq(ShownBlock) /\ Len(LowBlocks(r)) = m /\ LowBlocks(r) = [j \in 1..m |-> BlockShown(r, d, j)]
    BY ViewIs DEF LowBlocks, m, d
  <2>5. \A j \in 1..m : bs[j] = LowBlocks(r)[j]
    BY <1>9, <1>15, <2>4
  <2>6. bs[m + 1] = e
    BY <1>9, <1>20
  <2> HIDE DEF bs, e
  <2>7. bs = Append(LowBlocks(r), bs[m + 1])
    BY <2>3, <2>4, <2>5, SplitLast
  <2> QED BY <2>1, <2>6, <2>7
<1> HIDE DEF e
<1>22. LowCalls(q) = Append(LowCalls(r), CallShown(q, d))
  <2>1. /\ LowCalls(q) \in Seq(ShownCall) /\ Len(LowCalls(q)) = d
        /\ LowCalls(r) \in Seq(ShownCall) /\ Len(LowCalls(r)) = d - 1
    <3>1. Len(r.frames) = d - 1 /\ Len(q.frames) = d
      BY <1>2, <1>7
    <3> QED BY <1>1, <3>1, ViewIs
  <2>2. /\ LowCalls(q) = [i \in 1..d |-> CallShown(q, i)]
        /\ LowCalls(r) = [i \in 1..d - 1 |-> CallShown(r, i)]
    BY <1>2, <1>7 DEF LowCalls
  <2>3. d - 1 \in Nat /\ (d - 1) + 1 = d
    BY <1>2, <1>7
  <2>4. \A i \in 1..d - 1 : LowCalls(q)[i] = LowCalls(r)[i]
    BY <1>15, <2>2, <2>3
  <2>5. LowCalls(q) = Append(LowCalls(r), LowCalls(q)[(d - 1) + 1])
    BY <2>1, <2>3, <2>4, SplitLast
  <2> QED BY <1>7, <2>2, <2>3, <2>5
<1>23. LowBlocks(q) = <<>>
  <2>1. LowBlocks(q) \in Seq(ShownBlock) /\ Len(LowBlocks(q)) = Len(q.blocks) - q.runtime.bcur
    BY <1>1, ViewIs
  <2>2. Len(LowBlocks(q)) = 0
    BY <1>2, <1>5, <1>6, <2>1
  <2> QED BY <2>1, <2>2
<1>24. TopVals(q) = top
  <2>1. q.runtime.bp - q.bottom = l - n /\ Len(q.mem) = l
    <3> DEFINE b == r.bottom
               y == Sp(r)
    <3>1. y = b + l /\ b \in Nat /\ l \in Nat
      BY <1>2, <1>10
    <3> HIDE DEF b, y
    <3>2. (y - n) - b = l - n
      BY <1>11, <3>1
    <3>3. q.runtime.bp = y - n /\ q.bottom = b /\ Len(q.mem) = l
      BY <1>5, <1>6 DEF y, b, l
    <3> QED BY <3>2, <3>3
  <2> QED BY <1>6, <1>19, <2>1 DEF TopVals
<1>25. Caught(q) = FALSE
  BY <1>5, <1>6 DEF Caught, BlockOpen
<1>26. CallsOf(q) = Nest(LowCalls(q), q.runtime.native, q.runtime.args, LowBlocks(q), TopVals(q), Caught(q))
  BY <1>1, ViewIs
<1>27. CallsOf(q) = Append(LowCalls(q), [native |-> kind = "native", args |-> args,
                                         blocks |-> Append(<<>>, [vals |-> top, catch |-> FALSE])])
  BY <1>5, <1>6, <1>23, <1>24, <1>25, <1>26 DEF Nest
<1>28. Append(<<>>, [vals |-> top, catch |-> FALSE]) = <<[vals |-> top, catch |-> FALSE]>>
  OBVIOUS
<1>29. LowCalls(q) = Nest(LowCalls(r), r.runtime.native, r.runtime.args, LowBlocks(r), low, Caught(r))
  BY <1>21, <1>22 DEF Nest, e
<1>30. ASSUME Tidy(r), r.runtime.native => dump = 0
       PROVE  Tidy(q)
  <2> SUFFICES ASSUME NEW k \in 1..Len(q.frames), CallAt(q, k).native
               PROVE  CallAt(q, k + 1).dump = 0
    BY DEF Tidy
  <2>1. k \in 1..d
    BY <1>7
  <2>2. CASE k = d
    BY <1>5, <1>7, <1>8, <1>30, <2>2
  <2>3. CASE k # d
    <3>1. k \in 1..Len(r.frames) /\ k + 1 \in 1..d
      BY <1>2, <1>7, <2>1, <2>3
    <3> QED BY <1>8, <1>30, <2>1, <3>1 DEF Tidy
  <2> QED BY <2>2, <2>3
<1> QED BY <1>1, <1>6, <1>27, <1>28, <1>29, <1>30 DEF q, low, top, v, a

(* The flags are not seen.                                                 *)
LEMMA FlagsView ==
  ASSUME NEW r, Good(r), NEW q \in CoroSet,
         q.bottom = r.bottom, q.size = r.size, q.mem = r.mem,
         q.runtime = r.runtime, q.frames = r.frames, q.blocks = r.blocks
  PROVE  Good(q) /\ CallsOf(q) = CallsOf(r) /\ (Tidy(r) => Tidy(q)) /\ TopVals(q) = TopVals(r)
<1>1. r \in CoroSet /\ Good(q)
  BY FlagsGood DEF Good
<1>2. Depth(q) = Depth(r) /\ Agree(r, q, Depth(r))
  BY <1>1, SameAgree
<1>3. CallsOf(q) = Nest(LowCalls(r), q.runtime.native, q.runtime.args, LowBlocks(r), TopVals(q), Caught(q))
      /\ (Tidy(r) => Tidy(q))
  BY <1>1, <1>2, TopChanges
<1>4. TopVals(q) = TopVals(r) /\ Caught(q) = Caught(r)
  BY DEF TopVals, Caught, BlockOpen
<1>5. CallsOf(r) = Nest(LowCalls(r), r.runtime.native, r.runtime.args, LowBlocks(r), TopVals(r), Caught(r))
  BY ViewIs
<1> QED BY <1>1, <1>3, <1>4, <1>5

(* The value on top.                                                       *)
LEMMA TopOfView ==
  ASSUME NEW r, Good(r)
  PROVE  /\ Avail(r) = Len(TopVals(r)) /\ Avail(r) \in Nat
         /\ (Avail(r) = 0 <=> TopVals(r) = <<>>)
         /\ (Avail(r) >= 1 => TopOf(r) = Last(TopVals(r)) /\ TopOf(r) \in Values)
         /\ \A n \in 0..Avail(r) : Taken(r, n) = SubSeq(TopVals(r), Avail(r) - n + 1, Avail(r))
<1> DEFINE p == r.runtime.bp - r.bottom
           l == Len(r.mem)
           a == Avail(r)
           v == TopVals(r)
<1>1. /\ r \in CoroSet /\ r.mem \in Seq(Values) /\ l \in Nat
  BY CoroFields, GoodFacts
<1>2. v \in Seq(Values) /\ Len(v) = a /\ \A i \in 1..a : v[i] = r.mem[l - a + i]
  BY ViewIs
<1>3. a \in 0..l /\ a = l - p /\ p \in Nat
  <2> DEFINE b == r.bottom
             x == r.runtime.bp
             y == Sp(r)
             z == r.runtime.rbp
  <2>1. a \in 0..l /\ a = y - x /\ y = b + l /\ x \in Nat /\ z \in Nat /\ b <= z /\ z <= x
    BY GoodFacts
  <2>2. b \in Nat
    BY <1>1, CoroFields
  <2> HIDE DEF a, l, x, y, z, b
  <2>3. a \in 0..l /\ a = l - (x - b) /\ x - b \in Nat
    BY <1>1, <2>1, <2>2
  <2> QED BY <2>3 DEF x, b
<1>4. v = SubSeq(r.mem, p + 1, l)
  BY DEF TopVals
<1>5. l <= Len(r.mem)
  BY <1>1
<1> HIDE DEF v, p, l, a
<1>6. a = 0 <=> v = <<>>
  BY <1>2, <1>3
<1>7. ASSUME a >= 1
      PROVE  TopOf(r) = Last(v) /\ TopOf(r) \in Values
  <2>1. a \in 1..a /\ l - a + a = l /\ l \in 1..l
    BY <1>1, <1>3, <1>7
  <2>2. v[a] = r.mem[l]
    BY <1>2, <2>1
  <2>3. Last(v) = v[a]
    BY <1>2 DEF Last
  <2>4. TopOf(r) = r.mem[l]
    BY DEF TopOf, Last, l
  <2>5. v[a] \in Values
    BY <1>2, <2>1
  <2> QED BY <2>2, <2>3, <2>4, <2>5
<1>8. ASSUME NEW n \in 0..a
      PROVE  Taken(r, n) = SubSeq(v, a - n + 1, a)
  <2>1. /\ p <= l /\ a - n \in Nat /\ a \in Nat /\ a - n <= a /\ p + a <= l /\ p + a = l
        /\ (p + (a - n)) + 1 = l - n + 1
    BY <1>1, <1>3
  <2>2. SubSeq(SubSeq(r.mem, p + 1, l), (a - n) + 1, a) = SubSeq(r.mem, (p + (a - n)) + 1, p + a)
    BY <1>1, <1>3, <1>5, <2>1, SubPart
  <2>3. Taken(r, n) = SubSeq(r.mem, l - n + 1, l)
    BY DEF Taken, l
  <2> QED BY <1>4, <2>1, <2>2, <2>3
<1> QED BY <1>2, <1>3, <1>6, <1>7, <1>8 DEF a, v

(* A loop takes its argument.                                              *)
LEMMA ExecuteView ==
  ASSUME NEW r, Good(r), NEW v \in Values \cup {Nil}
  PROVE  LET q == Execute(r, v)
         IN  /\ Good(q) /\ (Tidy(r) => Tidy(q))
             /\ q.param = IF v = Nil THEN r.param ELSE "no"
             /\ CallsOf(q) = IF v = Nil THEN CallsOf(r)
                             ELSE IF r.param = "no" THEN Model!PushOn(CallsOf(r), v)
                             ELSE IF r.param = "bind"
                             THEN Append(LowCalls(r), [Last(CallsOf(r)) EXCEPT !.args = <<v>>])
                             ELSE CallsOf(r)
<1> DEFINE a == [r EXCEPT !.active = TRUE]
           q == Execute(r, v)
<1>1. r \in CoroSet /\ Good(q)
  BY ExecuteGood DEF Good
<1>2. /\ a \in CoroSet /\ a.bottom = r.bottom /\ a.size = r.size /\ a.mem = r.mem
      /\ a.runtime = r.runtime /\ a.frames = r.frames /\ a.blocks = r.blocks /\ a.param = r.param
  BY <1>1 DEF CoroSet
<1>3. q = Deliver(a, v)
  BY DEF Execute
<1> HIDE DEF a, q
<1>4. Good(a) /\ CallsOf(a) = CallsOf(r) /\ (Tidy(r) => Tidy(a))
  BY <1>2, FlagsView
<1>5. CASE v = Nil
  <2>1. q = a
    BY <1>3, <1>5 DEF Deliver
  <2> QED BY <1>1, <1>2, <1>4, <1>5, <2>1 DEF q
<1>6. CASE v # Nil /\ r.param = "no"
  <2>1. q = Push(a, v) /\ v \in Values
    BY <1>2, <1>3, <1>6 DEF Deliver
  <2>2. CallsOf(q) = Model!PushOn(CallsOf(a), v) /\ Steady(q, a)
    BY <1>4, <2>1, PushView
  <2> QED BY <1>1, <1>2, <1>4, <1>6, <2>2 DEF q, Steady
<1>7. CASE v # Nil /\ r.param # "no"
  <2> DEFINE as == IF r.param = "bind" THEN <<v>> ELSE r.runtime.args
             f  == [r.runtime EXCEPT !.args = as]
  <2>1. r.runtime \in FrameSet
    BY <1>1, CoroFields
  <2>2. f.rbp = r.runtime.rbp /\ f.bcur = r.runtime.bcur /\ f.bp = r.runtime.bp
        /\ f.dump = r.runtime.dump /\ f.native = r.runtime.native /\ f.args = as
    BY <2>1 DEF FrameSet
  <2>3. q = [a EXCEPT !.param = "no", !.runtime = f]
    BY <1>2, <1>3, <1>7 DEF Deliver, CoroSet
  <2> HIDE DEF f
  <2>4. /\ q \in CoroSet /\ q.bottom = r.bottom /\ q.mem = r.mem /\ q.param = "no"
        /\ q.runtime = f /\ q.frames = r.frames /\ q.blocks = r.blocks
    BY <1>1, <1>2, <2>3 DEF CoroSet, Good
  <2>5. Depth(q) = Depth(r) /\ Agree(r, q, Depth(r))
    BY <1>1, <2>2, <2>4, SameAgree
  <2>6. CallsOf(q) = Nest(LowCalls(r), q.runtime.native, q.runtime.args, LowBlocks(r), TopVals(q), Caught(q))
        /\ (Tidy(r) => Tidy(q))
    BY <1>1, <2>4, <2>5, TopChanges
  <2>7. TopVals(q) = TopVals(r) /\ Caught(q) = Caught(r)
    BY <2>2, <2>4 DEF TopVals, Caught, BlockOpen
  <2>8. CallsOf(q) = Nest(LowCalls(r), r.runtime.native, as, LowBlocks(r), TopVals(r), Caught(r))
    BY <2>2, <2>4, <2>6, <2>7
  <2>9. /\ CallsOf(r) = Nest(LowCalls(r), r.runtime.native, r.runtime.args, LowBlocks(r), TopVals(r), Caught(r))
        /\ Parts(CallsOf(r), LowCalls(r), r.runtime.native, r.runtime.args, LowBlocks(r), TopVals(r), Caught(r))
    BY ViewIs, ViewParts
  <2>10. CASE r.param = "bind"
    <3> DEFINE x == Last(CallsOf(r))
               b == Append(LowBlocks(r), [vals |-> TopVals(r), catch |-> Caught(r)])
    <3>1. x \in ShownCall /\ x.native = r.runtime.native /\ x.blocks = b
      BY <2>9 DEF Parts
    <3> HIDE DEF x, b
    <3>2. [x EXCEPT !.args = <<v>>] = [native |-> r.runtime.native, args |-> <<v>>, blocks |-> b]
      BY <3>1 DEF ShownCall
    <3>3. CallsOf(q) = Append(LowCalls(r), [native |-> r.runtime.native, args |-> <<v>>, blocks |-> b])
      BY <2>8, <2>10 DEF Nest, b
    <3> QED BY <1>1, <1>7, <2>4, <2>6, <2>10, <3>2, <3>3 DEF q, x
  <2>11. CASE r.param # "bind"
    BY <1>1, <1>7, <2>4, <2>6, <2>8, <2>9, <2>11 DEF q
  <2> QED BY <2>10, <2>11
<1> QED BY <1>5, <1>6, <1>7

(* A new coroutine is one call without values.                             *)
LEMMA RootView ==
  ASSUME NEW param \in {"no", "bind", "drop"}
  PROVE  LET q == Root(param)
         IN  Good(q) /\ q.param = param /\ Tidy(q) /\ CallsOf(q) = <<Model!Frame(FALSE, <<>>, <<>>)>>
<1> DEFINE q == Root(param)
           b == [vals |-> <<>>, catch |-> FALSE]
<1>1. Good(q)
  BY RootGood
<1>2. /\ q.mem = <<>> /\ q.frames = <<>> /\ q.blocks = <<>> /\ q.bottom = 0 /\ q.param = param
      /\ q.runtime.bcur = 0 /\ q.runtime.bp = 0 /\ q.runtime.native = FALSE /\ q.runtime.args = <<>>
  BY DEF Root
<1> HIDE DEF q
<1>3. Len(q.mem) = 0 /\ Len(q.frames) = 0 /\ Len(q.blocks) = 0
  BY <1>2
<1>4. /\ LowCalls(q) \in Seq(ShownCall) /\ Len(LowCalls(q)) = 0 /\ LowBlocks(q) \in Seq(ShownBlock)
      /\ Len(LowBlocks(q)) = 0 /\ TopVals(q) \in Seq(Values)
  <2>1. 0 - 0 = 0
    OBVIOUS
  <2> QED BY <1>1, <1>2, <1>3, <2>1, ViewIs
<1>5. Len(TopVals(q)) = 0
  <2>1. Len(TopVals(q)) = Avail(q) /\ Avail(q) \in 0..Len(q.mem)
    BY <1>1, TopOfView, GoodFacts
  <2> QED BY <1>3, <2>1
<1>6. LowCalls(q) = <<>> /\ LowBlocks(q) = <<>> /\ TopVals(q) = <<>>
  BY <1>4, <1>5
<1>7. Caught(q) = FALSE
  BY <1>2, <1>3 DEF Caught, BlockOpen
<1>8. CallsOf(q) = Nest(LowCalls(q), q.runtime.native, q.runtime.args, LowBlocks(q), TopVals(q), Caught(q))
  BY <1>1, ViewIs
<1>9. Append(<<>>, b) = <<b>>
  OBVIOUS
<1>10. \A x : Append(<<>>, x) = <<x>>
  OBVIOUS
<1>11. CallsOf(q) = <<[native |-> FALSE, args |-> <<>>, blocks |-> <<b>>]>>
  BY <1>2, <1>6, <1>7, <1>8, <1>10 DEF Nest
<1>12. Tidy(q)
  BY <1>3 DEF Tidy
<1> QED BY <1>1, <1>2, <1>11, <1>12 DEF q, Model!Frame, Model!Block

(* Up to two arguments.                                                    *)
LEMMA ArgsAre ==
  ASSUME NEW n \in 0..2, NEW s \in [1..n -> Values]
  PROVE  /\ s \in Seq(Values) /\ Len(s) = n /\ (n = 0 \/ n = 1 \/ n = 2)
         /\ n = 0 => s = <<>>
         /\ n = 1 => s # <<>> /\ s[1] \in Values /\ s = Append(<<>>, s[1])
         /\ n = 2 => /\ s # <<>> /\ s[1] \in Values /\ s[2] \in Values
                     /\ s = Append(Append(<<>>, s[1]), s[2]) /\ Append(<<>>, s[1]) \in Seq(Values)
<1>1. s \in Seq(Values) /\ Len(s) = n /\ (n = 0 \/ n = 1 \/ n = 2)
  OBVIOUS
<1>2. ASSUME n = 1
      PROVE  s # <<>> /\ s[1] \in Values /\ s = Append(<<>>, s[1])
  BY <1>1, <1>2
<1>3. ASSUME n = 2
      PROVE  s # <<>> /\ s[1] \in Values /\ s[2] \in Values
  BY <1>1, <1>3
<1>4. ASSUME n = 2
      PROVE  s = Append(Append(<<>>, s[1]), s[2]) /\ Append(<<>>, s[1]) \in Seq(Values)
  BY <1>1, <1>3, <1>4
<1> QED BY <1>1, <1>2, <1>3, <1>4

(* INVOKE enters a function.                                               *)
LEMMA CalleeView ==
  ASSUME NEW r, Good(r), NEW kind \in Kind, NEW n \in 0..2, NEW base \in 0..1,
         Avail(r) >= n + base + 1, ~ r.runtime.native
  PROVE  LET q == Callee(r, kind, n, base)
             v == TopVals(r)
         IN  /\ Good(q) /\ q.param = r.param /\ (Tidy(r) => Tidy(q))
             /\ CallsOf(q) = Append(Model!WithVals(CallsOf(r), SubSeq(v, 1, Len(v) - (n + base + 1))),
                                    Model!Callee(kind, SubSeq(v, Len(v) - n + 1, Len(v))))
<1> DEFINE q == Callee(r, kind, n, base)
           v == TopVals(r)
           a == Avail(r)
           low == SubSeq(v, 1, a - (n + base + 1))
           top == SubSeq(v, a - n + 1, a)
<1>1. Good(q)
  BY CalleeGood
<1>2. a \in Nat /\ a = Len(v) /\ v \in Seq(Values) /\ a >= n + base + 1
  BY TopOfView, ViewIs
<1>3. \A x : Model!WithVals(CallsOf(r), x)
         = Nest(LowCalls(r), r.runtime.native, r.runtime.args, LowBlocks(r), x, Caught(r))
  BY ViewParts DEF Parts
<1>4. CASE kind = "ink"
  <2> DEFINE s == Drop(r, n + base + 1)
             k == a - (n + base + 1)
  <2>1. n + base + 1 \in 0..a /\ n \in 0..a /\ k \in 0..a
    BY <1>2
  <2>2. /\ Good(s) /\ Steady(s, r) /\ CallsOf(s) = Model!WithVals(CallsOf(r), low) /\ TopVals(s) = low
    BY <2>1, DropView
  <2>3. Taken(r, n) \in ArgLists /\ Taken(r, n) = top
    BY <2>1, TakenAreValues, TopOfView
  <2>4. q = Enter(s, kind, 0, 0, Taken(r, n))
    BY <1>4 DEF Callee
  <2>5. s.runtime = r.runtime
    BY DropGood, <2>1
  <2> HIDE DEF s, q, top
  <2>6. Len(low) = k /\ low \in Seq(Values)
    <3> HIDE DEF v, a, k
    <3> QED BY <1>2, <2>1, FirstOf DEF k
  <2>7. Avail(s) = k
    BY <2>2, <2>6, TopOfView
  <2>8. /\ q.param = s.param /\ (Tidy(s) => Tidy(q))
        /\ CallsOf(q) = Append(Nest(LowCalls(s), s.runtime.native, s.runtime.args, LowBlocks(s),
                                    SubSeq(low, 1, k - 0 - 0), Caught(s)),
                               [native |-> FALSE, args |-> top,
                                blocks |-> <<[vals |-> SubSeq(low, k - 0 + 1, k), catch |-> FALSE]>>])
    <3> HIDE DEF low, k
    <3>1. 0 \in Nat /\ 0 \in 0..2 /\ 0 + 0 <= Avail(s)
      BY <2>1, <2>7
    <3>2. (kind = "native") = FALSE
      BY <1>4
    <3> QED BY <2>2, <2>3, <2>4, <2>7, <3>1, <3>2, EnterView
  <2>9. SubSeq(low, 1, k - 0 - 0) = low /\ SubSeq(low, k - 0 + 1, k) = <<>>
    <3> HIDE DEF low, k
    <3>1. k \in Nat
      BY <2>1
    <3>2. k - 0 - 0 = k /\ k - 0 + 1 = k + 1
      BY <3>1
    <3>3. SubSeq(low, 1, k) = low
      BY <2>6, <3>1
    <3>4. SubSeq(low, k + 1, k) = <<>>
      BY <2>6, <3>1
    <3> QED BY <3>2, <3>3, <3>4
  <2> HIDE DEF low, k
  <2>10. CallsOf(s) = Nest(LowCalls(s), s.runtime.native, s.runtime.args, LowBlocks(s), low, Caught(s))
    BY <2>2, ViewIs
  <2>11. Model!Callee(kind, top) = [native |-> FALSE, args |-> top,
                                    blocks |-> <<[vals |-> <<>>, catch |-> FALSE]>>]
    BY <1>4 DEF Model!Callee, Model!Frame, Model!Block
  <2>12. CallsOf(q) = Append(Model!WithVals(CallsOf(r), low), Model!Callee(kind, top))
    BY <2>2, <2>8, <2>9, <2>10, <2>11
  <2> QED BY <1>1, <1>2, <2>2, <2>8, <2>12 DEF q, low, top, Steady
<1>5. CASE kind # "ink"
  <2>1. q = Enter(r, kind, n, 1 + base, <<>>)
    BY <1>5 DEF Callee
  <2>2. n \in Nat /\ 1 + base \in 0..2 /\ n + (1 + base) <= a /\ a - n - (1 + base) = a - (n + base + 1)
    BY <1>2
  <2>3. <<>> \in ArgLists
    BY DEF ArgLists
  <2> HIDE DEF q, v, a
  <2>4. /\ q.param = r.param /\ (Tidy(r) => Tidy(q))
        /\ CallsOf(q) = Append(Nest(LowCalls(r), r.runtime.native, r.runtime.args, LowBlocks(r),
                                    SubSeq(v, 1, a - n - (1 + base)), Caught(r)),
                               [native |-> kind = "native", args |-> <<>>,
                                blocks |-> <<[vals |-> top, catch |-> FALSE]>>])
    BY <2>1, <2>2, <2>3, EnterView DEF v, a
  <2>5. Model!Callee(kind, top) = [native |-> kind = "native", args |-> <<>>,
                                   blocks |-> <<[vals |-> top, catch |-> FALSE]>>]
    <3> HIDE DEF top
    <3> QED BY <1>5 DEF Model!Callee, Model!Frame, Model!Block
  <2> HIDE DEF low, top
  <2>6. CallsOf(q) = Append(Model!WithVals(CallsOf(r), low), Model!Callee(kind, top))
    BY <1>3, <2>2, <2>4, <2>5 DEF low
  <2> QED BY <1>1, <1>2, <2>4, <2>6 DEF q, low, top, v, a
<1> QED BY <1>4, <1>5

(* Native code enters a function that has no values yet.                   *)
LEMMA EnterEmpty ==
  ASSUME NEW r, Good(r), NEW kind \in Kind, NEW args \in ArgLists
  PROVE  LET s == Enter(r, kind, 0, 0, args)
         IN  /\ Good(s) /\ s.param = r.param /\ (Tidy(r) => Tidy(s))
             /\ CallsOf(s) = Nest(CallsOf(r), kind = "native", args, <<>>, <<>>, FALSE)
<1> DEFINE s == Enter(r, kind, 0, 0, args)
           v == TopVals(r)
           a == Avail(r)
<1>1. a \in Nat /\ a = Len(v) /\ v \in Seq(Values)
  BY TopOfView, ViewIs
<1>2. 0 \in Nat /\ 0 \in 0..2 /\ 0 + 0 <= a
  BY <1>1
<1>3. /\ Good(s) /\ s.param = r.param /\ (Tidy(r) => Tidy(s))
      /\ CallsOf(s) = Append(Nest(LowCalls(r), r.runtime.native, r.runtime.args, LowBlocks(r),
                                  SubSeq(v, 1, a - 0 - 0), Caught(r)),
                             [native |-> kind = "native", args |-> args,
                              blocks |-> <<[vals |-> SubSeq(v, a - 0 + 1, a), catch |-> FALSE]>>])
  BY <1>2, EnterView
<1>4. CallsOf(r) = Nest(LowCalls(r), r.runtime.native, r.runtime.args, LowBlocks(r), v, Caught(r))
  BY ViewIs
<1> HIDE DEF s, v, a
<1>5. a - 0 - 0 = a /\ a - 0 + 1 = a + 1
  BY <1>1
<1>6. SubSeq(v, 1, a) = v /\ SubSeq(v, a + 1, a) = <<>>
  BY <1>1
<1>7. Append(CallsOf(r), Model!Frame(kind = "native", args, <<>>)) = Nest(CallsOf(r), kind = "native", args, <<>>, <<>>, FALSE)
  <2>1. \A x : Append(<<>>, x) = <<x>>
    OBVIOUS
  <2> QED BY <2>1 DEF Nest, Model!Frame, Model!Block
<1>8. Model!Frame(kind = "native", args, <<>>)
        = [native |-> kind = "native", args |-> args, blocks |-> <<[vals |-> <<>>, catch |-> FALSE]>>]
  BY DEF Model!Frame, Model!Block
<1>9. CallsOf(s) = Append(CallsOf(r), Model!Frame(kind = "native", args, <<>>))
  BY <1>3, <1>4, <1>5, <1>6, <1>8
<1> QED BY <1>3, <1>7, <1>9 DEF s

(* Its arguments are pushed.                                               *)
LEMMA PushAllView ==
  ASSUME NEW r, Good(r), NEW cs \in Seq(ShownCall), NEW nat \in BOOLEAN, NEW as \in Seq(Values),
         CallsOf(r) = Nest(cs, nat, as, <<>>, <<>>, FALSE),
         NEW n \in 0..2, NEW args \in [1..n -> Values]
  PROVE  LET q == PushAll(r, args)
         IN  Good(q) /\ Steady(q, r) /\ CallsOf(q) = Nest(cs, nat, as, <<>>, args, FALSE)
<1> DEFINE q == PushAll(r, args)
<1>1. <<>> \in Seq(ShownBlock) /\ <<>> \in Seq(Values)
  OBVIOUS
<1>2. \A v \in Seq(Values) : \A x : Model!PushOn(Nest(cs, nat, as, <<>>, v, FALSE), x)
                               = Nest(cs, nat, as, <<>>, Append(v, x), FALSE)
  <2> SUFFICES ASSUME NEW v \in Seq(Values)
               PROVE  \A x : Model!PushOn(Nest(cs, nat, as, <<>>, v, FALSE), x)
                               = Nest(cs, nat, as, <<>>, Append(v, x), FALSE)
    OBVIOUS
  <2>1. Parts(Nest(cs, nat, as, <<>>, v, FALSE), cs, nat, as, <<>>, v, FALSE)
    BY <1>1, NestFacts
  <2> QED BY <2>1 DEF Parts
<1>3. CASE n = 0
  <2>1. args = <<>>
    BY <1>3, ArgsAre
  <2>2. q = r
    BY <2>1 DEF PushAll
  <2> QED BY <2>1, <2>2 DEF Steady
<1>4. CASE n = 1
  <2>1. args # <<>> /\ Len(args) = 1 /\ args[1] \in Values /\ args = Append(<<>>, args[1])
    BY <1>4, ArgsAre
  <2>2. q = Push(r, args[1])
    BY <2>1 DEF PushAll
  <2>3. Good(q) /\ Steady(q, r) /\ CallsOf(q) = Model!PushOn(CallsOf(r), args[1])
    BY <2>1, <2>2, PushView
  <2> QED BY <1>1, <1>2, <2>1, <2>3
<1>5. CASE n = 2
  <2>1. args # <<>> /\ Len(args) = 2 /\ args[1] \in Values /\ args[2] \in Values
    BY <1>5, ArgsAre
  <2>2. args = Append(Append(<<>>, args[1]), args[2]) /\ Append(<<>>, args[1]) \in Seq(Values)
    BY <1>5, ArgsAre
  <2> DEFINE p == Push(r, args[1])
             o == Append(<<>>, args[1])
  <2>3. q = Push(p, args[2])
    BY <2>1 DEF PushAll
  <2>4. Good(p) /\ Steady(p, r) /\ CallsOf(p) = Model!PushOn(CallsOf(r), args[1])
    BY <2>1, PushView
  <2> HIDE DEF p, q
  <2>5. Good(q) /\ Steady(q, p) /\ CallsOf(q) = Model!PushOn(CallsOf(p), args[2])
    BY <2>1, <2>3, <2>4, PushView
  <2>6. CallsOf(p) = Nest(cs, nat, as, <<>>, o, FALSE)
    BY <1>1, <1>2, <2>4
  <2>7. o \in Seq(Values) /\ args = Append(o, args[2])
    BY <2>2
  <2> HIDE DEF o
  <2>8. CallsOf(q) = Nest(cs, nat, as, <<>>, args, FALSE)
    BY <1>2, <2>5, <2>6, <2>7
  <2> QED BY <2>4, <2>5, <2>8 DEF q, Steady
<1>6. n = 0 \/ n = 1 \/ n = 2
  BY ArgsAre
<1> QED BY <1>3, <1>4, <1>5, <1>6

(***************************************************************************)
(* The inductive invariant.                                                *)
(***************************************************************************)
Types ==
  /\ co \in [Coro -> CoroSet \cup {Nil}]
  /\ cstack \in [Thread -> Stacks]
  /\ start \in [Thread -> Coro \cup {Nil}]
  /\ except \in Values \cup {Nil}

Lives(r) == r # Nil /\ r.alive

Chains == \A t \in Thread : Chain(cstack[t], co)

(* No coroutine is on two C stacks.                                        *)
Apart == \A t, u \in Thread : \A c \in Coro : On(cstack[t], c) /\ On(cstack[u], c) => t = u

(* Off the C stacks a coroutine has no native calls.                       *)
Idle ==
  \A c \in Coro : Lives(co[c]) =>
    /\ Good(co[c])
    /\ ~ OnStack(c) => Natives(co[c]) = {} /\ ~ co[c].hasNative

(* One exception at a time is on its way, and it is the one that is set.   *)
OneException ==
  /\ \A t, u \in Thread : FailsAt(cstack[t]) /\ FailsAt(cstack[u]) => t = u
  /\ \A t \in Thread : FailsAt(cstack[t]) => except # Nil
  /\ "fault" \notin Quirks /\ except # Nil => \E t \in Thread : FailsAt(cstack[t])

(* A coroutine that a thread is to run is nobody else's.                   *)
Starts ==
  \A u \in Thread : start[u] # Nil =>
    /\ Lives(co[start[u]]) /\ co[start[u]].spawned /\ ~ OnStack(start[u])
    /\ cstack[u] = <<>>
    /\ \A v \in Thread : start[v] = start[u] => v = u

CoroInv == Types /\ Chains /\ Apart /\ Idle /\ OneException /\ Starts

(***************************************************************************)
(* All C stacks.                                                           *)
(***************************************************************************)

(* A coroutine that enters a function with parameters has no values.       *)
Bound(q, r)   ==
  "callback" \notin Quirks /\ Len(q.frames) = Len(r.frames) + 1 /\ q.runtime.param => Avail(q) = 0
ArgumentsStep == \A c \in Coro : co[c] # Nil => Bound(co'[c], co[c])

(* The chain of a thread, and the coroutine at its top.                    *)
LEMMA ActiveFacts ==
  ASSUME CoroInv, NEW t \in Thread, cstack[t] # <<>>
  PROVE  /\ Chain(cstack[t], co) /\ cstack[t] \in Stacks
         /\ Active(t) = Last(cstack[t]) /\ Active(t) \in Activation /\ Active(t).co \in Coro
         /\ Last(cstack[t]) = cstack[t][Len(cstack[t])] /\ Len(cstack[t]) \in Nat \ {0}
         /\ Current(t) = co[Last(cstack[t]).co]
         /\ Good(Current(t)) /\ Current(t).alive /\ Lives(Current(t))
         /\ On(cstack[t], Active(t).co) /\ OnStack(Active(t).co)
<1> DEFINE s == cstack[t]
<1>1. Chain(s, co) /\ s \in Stacks /\ s # <<>>
  BY DEF CoroInv, Chains, Chain
<1>2. PICK h : Held(s, co, h)
  BY <1>1, ChainHeld
<1> HIDE DEF s
<1>3. /\ Len(s) \in Nat \ {0} /\ Len(s) \in 1..Len(s) /\ Last(s) = s[Len(s)]
      /\ Last(s) \in Activation /\ Last(s).co \in Coro
      /\ Good(co[Last(s).co]) /\ co[Last(s).co].alive
  BY <1>1, <1>2, TopFacts
<1>4. Active(t) = Last(s) /\ Current(t) = co[Last(s).co]
  BY DEF Active, Current, s
<1>5. Current(t) # Nil
  <2>1. co[Last(s).co] \in CoroSet
    BY <1>3 DEF Good
  <2> QED BY <1>4, <2>1, NilAssumption
<1>6. On(s, Active(t).co)
  BY <1>3, <1>4 DEF On
<1>7. DOMAIN s = 1..Len(s)
  BY <1>1 DEF Stacks
<1>8. OnStack(Active(t).co)
  BY <1>3, <1>4, <1>7 DEF OnStack, s
<1> QED BY <1>1, <1>3, <1>4, <1>5, <1>6, <1>8 DEF s, Lives

(* On, for some thread.                                                     *)
LEMMA OnStackIs ==
  ASSUME CoroInv, NEW c
  PROVE  OnStack(c) <=> \E t \in Thread : On(cstack[t], c)
<1>1. \A t \in Thread : DOMAIN cstack[t] = 1..Len(cstack[t])
  BY DEF CoroInv, Types, Stacks
<1> QED BY <1>1 DEF OnStack, On

(* Thread t and the coroutines that its C stack had, or no stack had, move *)
(* on.                                                                     *)
LEMMA Moves ==
  ASSUME CoroInv, NEW t \in Thread, NEW s2, cstack' = [cstack EXCEPT ![t] = s2], Chain(s2, co'),
         \A d \in Coro : co'[d] # co[d] \/ On(s2, d) => On(cstack[t], d) \/ ~ OnStack(d),
         \A d \in Coro : Lives(co'[d]) /\ co'[d] # co[d] => Good(co'[d]),
         \A d \in Coro : Lives(co'[d]) /\ ~ On(s2, d) /\ (On(cstack[t], d) \/ co'[d] # co[d])
           => Natives(co'[d]) = {} /\ ~ co'[d].hasNative,
         NoneFailing \/ FailsAt(cstack[t]),
         FailsAt(s2) => except' # Nil,
         "fault" \notin Quirks /\ except' # Nil => FailsAt(s2)
  PROVE  (Chains /\ Apart /\ Idle /\ OneException)'
<1>1. /\ cstack'[t] = s2 /\ s2 \in Stacks
      /\ \A u \in Thread : u # t => cstack'[u] = cstack[u]
  BY DEF CoroInv, Types, Chain
<1>2. \A c : OnStack(c)' <=> On(s2, c) \/ \E u \in Thread \ {t} : On(cstack[u], c)
  <2>1. \A u \in Thread : DOMAIN cstack'[u] = 1..Len(cstack'[u])
    BY <1>1 DEF CoroInv, Types, Stacks
  <2> QED BY <1>1, <2>1 DEF OnStack, On
<1>3. \A c : OnStack(c) <=> \E u \in Thread : On(cstack[u], c)
  BY OnStackIs
<1>4. \A u, v \in Thread : \A c \in Coro : On(cstack[u], c) /\ On(cstack[v], c) => u = v
  BY DEF CoroInv, Apart
<1>5. ASSUME NEW u \in Thread \ {t}, NEW d \in Coro, On(cstack[u], d)
      PROVE  ~ On(s2, d) /\ co'[d] = co[d]
  BY <1>3, <1>4, <1>5
<1>6. Chains'
  <2> SUFFICES ASSUME NEW u \in Thread
               PROVE  Chain(cstack'[u], co')
    BY DEF Chains
  <2>1. CASE u = t
    BY <1>1, <2>1
  <2>2. CASE u # t
    <3> DEFINE s == cstack[u]
    <3>1. cstack'[u] = s /\ Chain(s, co)
      BY <1>1, <2>2 DEF CoroInv, Chains
    <3>2. \A j \in 1..Len(s) : s[j].co \in Coro
      BY <3>1, StackTypes DEF Chain
    <3>3. \A j \in 1..Len(s) : co'[s[j].co] = co[s[j].co]
      <4>1. \A j \in 1..Len(s) : On(s, s[j].co)
        BY DEF On
      <4> QED BY <1>5, <2>2, <3>2, <4>1
    <3> HIDE DEF s
    <3> QED BY <3>1, <3>3, SameChain
  <2> QED BY <2>1, <2>2
<1>7. Apart'
  <2> SUFFICES ASSUME NEW u \in Thread, NEW v \in Thread, NEW c \in Coro,
                      On(cstack'[u], c), On(cstack'[v], c)
               PROVE  u = v
    BY DEF Apart
  <2> QED BY <1>1, <1>4, <1>5
<1>8. Idle'
  <2> SUFFICES ASSUME NEW c \in Coro, Lives(co'[c])
               PROVE  /\ Good(co'[c])
                      /\ ~ OnStack(c)' => Natives(co'[c]) = {} /\ ~ co'[c].hasNative
    BY DEF Idle
  <2>1. co'[c] = co[c] => Good(co'[c])
    BY DEF CoroInv, Idle
  <2>2. co'[c] = co[c] /\ ~ OnStack(c) => Natives(co'[c]) = {} /\ ~ co'[c].hasNative
    BY DEF CoroInv, Idle
  <2> QED BY <1>2, <1>3, <2>1, <2>2
<1>9. OneException'
  <2>1. \A u \in Thread : u # t => ~ FailsAt(cstack[u])
    BY DEF CoroInv, OneException, NoneFailing, FailsAt, Active
  <2> QED BY <1>1, <2>1 DEF OneException
<1> QED BY <1>6, <1>7, <1>8, <1>9

(* Coroutines that threads are to run are left alone.                      *)
LEMMA StartsKept ==
  ASSUME CoroInv, NEW t \in Thread, cstack[t] # <<>>, NEW s2, s2 \in Stacks,
         cstack' = [cstack EXCEPT ![t] = s2], start' = start,
         \A d \in Coro : co'[d] # co[d] \/ On(s2, d)
           => On(cstack[t], d) \/ ~ Lives(co[d]) \/ ~ co[d].spawned
  PROVE  Starts'
<1>1. /\ cstack'[t] = s2
      /\ \A u \in Thread : u # t => cstack'[u] = cstack[u]
  BY DEF CoroInv, Types
<1> SUFFICES ASSUME NEW u \in Thread, start[u] # Nil
             PROVE  /\ Lives(co'[start[u]]) /\ co'[start[u]].spawned /\ ~ OnStack(start[u])'
                    /\ cstack'[u] = <<>>
                    /\ \A v \in Thread : start[v] = start[u] => v = u
  BY DEF Starts
<1> DEFINE d == start[u]
<1>2. /\ Lives(co[d]) /\ co[d].spawned /\ ~ OnStack(d) /\ cstack[u] = <<>> /\ d \in Coro
      /\ \A v \in Thread : start[v] = start[u] => v = u
  BY DEF CoroInv, Starts, Types
<1>3. \A v \in Thread : ~ On(cstack[v], d)
  BY <1>2, OnStackIs
<1>4. co'[d] = co[d] /\ ~ On(s2, d)
  BY <1>2, <1>3
<1>5. \A v \in Thread : DOMAIN cstack'[v] = 1..Len(cstack'[v])
  BY <1>1 DEF CoroInv, Types, Stacks
<1> HIDE DEF d
<1>6. ~ OnStack(d)'
  <2>1. \A v \in Thread : ~ On(cstack'[v], d)
    BY <1>1, <1>3, <1>4
  <2> QED BY <1>5, <2>1 DEF OnStack, On, d
<1> QED BY <1>1, <1>2, <1>4, <1>6 DEF d

(***************************************************************************)
(* Steps of the coroutine at the top of one C stack.                       *)
(***************************************************************************)
LEMMA SetCoroIs ==
  ASSUME CoroInv, NEW t \in Thread, cstack[t] # <<>>, NEW q, SetCoro(t, q)
  PROVE  /\ co'[Active(t).co] = q /\ Others(cstack[t], co, co')
         /\ \A d \in Coro : d # Active(t).co => co'[d] = co[d]
         /\ q \in CoroSet => co' \in [Coro -> CoroSet \cup {Nil}]
<1>1. Active(t).co \in Coro /\ Active(t) = Last(cstack[t]) /\ cstack[t] \in Stacks
  BY ActiveFacts
<1>2. co \in [Coro -> CoroSet \cup {Nil}] /\ co' = [co EXCEPT ![Active(t).co] = q]
  BY DEF CoroInv, Types, SetCoro
<1>3. \A j \in 1..Len(cstack[t]) : cstack[t][j].co \in Coro
  BY <1>1, StackTypes
<1> QED BY <1>1, <1>2, <1>3 DEF Others

(* It goes on, and so may its C stack, with the same coroutines.           *)
LEMMA OwnMove ==
  ASSUME CoroInv, NEW t \in Thread, cstack[t] # <<>>,
         NEW q, Good(q), SetCoro(t, q), Bound(q, Current(t)),
         NEW s2, cstack' = [cstack EXCEPT ![t] = s2], Chain(s2, co'), start' = start,
         \A d : On(s2, d) <=> On(cstack[t], d),
         NoneFailing \/ FailsAt(cstack[t]),
         except' \in Values \cup {Nil},
         FailsAt(s2) => except' # Nil,
         "fault" \notin Quirks /\ except' # Nil => FailsAt(s2)
  PROVE  CoroInv' /\ ArgumentsStep
<1>1. /\ Active(t).co \in Coro /\ On(cstack[t], Active(t).co)
      /\ Current(t) = co[Active(t).co]
  BY ActiveFacts
<1>2. /\ co'[Active(t).co] = q
      /\ \A d \in Coro : d # Active(t).co => co'[d] = co[d]
      /\ co' \in [Coro -> CoroSet \cup {Nil}]
  BY SetCoroIs DEF Good
<1>3. \A d \in Coro : co'[d] # co[d] \/ On(s2, d) => On(cstack[t], d)
  BY <1>1, <1>2
<1>4. \A d \in Coro : Lives(co'[d]) /\ co'[d] # co[d] => Good(co'[d])
  BY <1>2
<1>5. \A d \in Coro : On(s2, d) \/ ~ (On(cstack[t], d) \/ co'[d] # co[d])
  BY <1>1, <1>2
<1>6. (Chains /\ Apart /\ Idle /\ OneException)'
  BY <1>3, <1>4, <1>5, Moves
<1>7. Types'
  BY <1>2 DEF CoroInv, Types, Chain
<1>8. Starts'
  BY <1>3, StartsKept DEF Chain
<1>9. ArgumentsStep
  <2>1. \A d \in Coro : co[d] # Nil => Len(co[d].frames) # Len(co[d].frames) + 1
    BY CoroFields DEF CoroInv, Types
  <2> QED BY <1>1, <1>2, <2>1 DEF ArgumentsStep, Bound
<1> QED BY <1>6, <1>7, <1>8, <1>9 DEF CoroInv

(* Nothing else changes.                                                   *)
LEMMA LocalMove ==
  ASSUME CoroInv, NEW t \in Thread, cstack[t] # <<>>, NoneFailing \/ Active(t).failing,
         NEW q, Good(q), Local(t, q), Bound(q, Current(t)), Chain(cstack[t], co')
  PROVE  CoroInv' /\ ArgumentsStep
<1>1. /\ SetCoro(t, q) /\ UNCHANGED <<cstack, start, except>>
  BY DEF Local
<1>2. cstack' = [cstack EXCEPT ![t] = cstack[t]]
  BY <1>1 DEF CoroInv, Types
<1>3. NoneFailing \/ FailsAt(cstack[t])
  BY DEF FailsAt, Active
<1>4. FailsAt(cstack[t]) => except' # Nil
  BY <1>1 DEF CoroInv, OneException
<1>5. "fault" \notin Quirks /\ except' # Nil => FailsAt(cstack[t])
  <2> SUFFICES ASSUME "fault" \notin Quirks, except # Nil
               PROVE  FailsAt(cstack[t])
    BY <1>1
  <2>1. PICK u \in Thread : FailsAt(cstack[u])
    BY DEF CoroInv, OneException
  <2>2. ~ NoneFailing
    BY <2>1 DEF NoneFailing, FailsAt, Active
  <2> QED BY <1>3, <2>1, <2>2 DEF CoroInv, OneException
<1>6. except' \in Values \cup {Nil}
  BY <1>1 DEF CoroInv, Types
<1> QED BY <1>1, <1>2, <1>3, <1>4, <1>5, <1>6, OwnMove

(* The activation at the top with another mark.                            *)
Marked(s, b) == Append(Front(s), [Last(s) EXCEPT !.failing = b])

(* An exception is on its way in the activation at the top, or no more.     *)
LEMMA MarkedIs ==
  ASSUME NEW s \in Stacks, s # <<>>, NEW b \in BOOLEAN
  PROVE  LET s2 == Marked(s, b)
         IN  /\ s2 \in Stacks /\ EndsAt(s2, s, Len(s), b)
             /\ \A d : On(s2, d) <=> On(s, d)
             /\ FailsAt(s2) <=> b
<1> DEFINE n  == Len(s)
           a  == [Last(s) EXCEPT !.failing = b]
           f  == Front(s)
           s2 == Append(f, a)
<1>1. s \in Seq(Activation)
  BY DEF Stacks
<1>2. /\ n \in Nat \ {0} /\ Last(s) = s[n] /\ Last(s) \in Activation
      /\ f \in Seq(Activation) /\ Len(f) = n - 1 /\ \A i \in 1..n - 1 : f[i] = s[i]
  BY <1>1, LastFront
<1>3. /\ a \in Activation /\ a.co = s[n].co /\ a.native = s[n].native /\ a.saved = s[n].saved
      /\ a.byCall = s[n].byCall /\ a.trap = s[n].trap /\ a.failing = b
  BY <1>2 DEF Activation
<1> HIDE DEF n, a, f
<1>4. /\ s2 \in Seq(Activation) /\ Len(s2) = (n - 1) + 1 /\ s2[(n - 1) + 1] = a
      /\ \A i \in 1..n - 1 : s2[i] = f[i]
  BY <1>2, <1>3, Longer
<1> HIDE DEF s2
<1>5. Len(s2) = n /\ s2[n] = a /\ \A i \in 1..n - 1 : s2[i] = s[i]
  BY <1>2, <1>4
<1>6. \A i \in 1..n : i = n \/ i \in 1..n - 1
  BY <1>2
<1>7. EndsAt(s2, s, n, b)
  <2>1. \A i \in 1..n - 1 : i # n
    BY <1>2
  <2> QED BY <1>3, <1>5, <1>6, <2>1 DEF EndsAt
<1>8. \A d : On(s2, d) <=> On(s, d)
  BY <1>5, <1>7 DEF On, EndsAt, n
<1>9. FailsAt(s2) <=> b
  <2>1. s2 # <<>> /\ Last(s2) = s2[n]
    <3>1. s2 # <<>>
      BY <1>2, <1>4, <1>5, EmptySeq
    <3> QED BY <1>5, <3>1 DEF Last
  <2> QED BY <1>3, <1>5, <2>1 DEF FailsAt
<1> QED BY <1>4, <1>7, <1>8, <1>9 DEF Marked, Stacks, s2, n, f, a

(* The calls stay.                                                         *)
LEMMA LocalSame ==
  ASSUME CoroInv, NEW t \in Thread, cstack[t] # <<>>, NoneFailing \/ Active(t).failing,
         NEW q, Good(q), Alike(q, Current(t)), SameCalls(q, Current(t)), Local(t, q)
  PROVE  CoroInv' /\ ArgumentsStep
<1> DEFINE s == cstack[t]
           b == Last(s).failing
<1>1. /\ Chain(s, co) /\ s \in Stacks /\ Active(t) = Last(s) /\ Active(t) \in Activation
      /\ Current(t) = co[Last(s).co] /\ Current(t).alive /\ Good(Current(t)) /\ Last(s) = s[Len(s)]
  BY ActiveFacts
<1>2. b \in BOOLEAN /\ EndsAt(s, s, Len(s), b)
  BY <1>1 DEF Activation, EndsAt
<1>3. SetCoro(t, q) /\ co'[Last(s).co] = q /\ Others(s, co, co')
  BY <1>1, SetCoroIs DEF Local
<1>4. q.alive /\ q.hasNative = Current(t).hasNative
  BY <1>1 DEF Alike
<1> HIDE DEF s, b
<1>5. b \/ ~ Last(s).failing
  BY DEF b
<1>6. Chain(s, co')
  BY <1>1, <1>2, <1>3, <1>4, <1>5, SameCallsGoOn DEF s
<1>7. Bound(q, Current(t))
  <2>1. Len(q.frames) = Len(Current(t).frames) /\ Len(q.frames) \in Nat
    <3>1. Len(q.frames) \in Nat /\ Len(Current(t).frames) \in Nat
      BY <1>1, CoroFields DEF Good
    <3> QED BY <3>1 DEF SameCalls, Depth
  <2> QED BY <2>1 DEF Bound
<1> QED BY <1>6, <1>7, LocalMove DEF s

(* ... with another mark on the activation, and another exception.         *)
LEMMA MarkSame ==
  ASSUME CoroInv, NEW t \in Thread, cstack[t] # <<>>, NoneFailing \/ Active(t).failing,
         NEW q, Good(q), Alike(q, Current(t)), SameCalls(q, Current(t)), SetCoro(t, q),
         NEW b \in BOOLEAN, cstack' = [cstack EXCEPT ![t] = Marked(cstack[t], b)],
         b \/ ~ Active(t).failing \/ Depth(Current(t)) \notin Natives(Current(t)),
         start' = start, except' \in Values \cup {Nil},
         b <=> except' # Nil
  PROVE  CoroInv' /\ ArgumentsStep
<1> DEFINE s  == cstack[t]
           s2 == Marked(s, b)
<1>1. /\ Chain(s, co) /\ s \in Stacks /\ Active(t) = Last(s)
      /\ Current(t) = co[Last(s).co] /\ Current(t).alive /\ Good(Current(t)) /\ Last(s) = s[Len(s)]
  BY ActiveFacts
<1>2. s2 \in Stacks /\ EndsAt(s2, s, Len(s), b) /\ (FailsAt(s2) <=> b) /\ \A d : On(s2, d) <=> On(s, d)
  BY <1>1, MarkedIs
<1>3. co'[Last(s).co] = q /\ Others(s, co, co')
  <2>1. co'[Active(t).co] = q /\ Others(cstack[t], co, co')
    BY SetCoroIs
  <2> QED BY <1>1, <2>1
<1>4. q.alive /\ q.hasNative = Current(t).hasNative
  BY <1>1 DEF Alike
<1> HIDE DEF s, s2
<1>5. Chain(s2, co')
  BY <1>1, <1>2, <1>3, <1>4, SameCallsGoOn DEF s
<1>6. Bound(q, Current(t))
  <2>1. Len(q.frames) = Len(Current(t).frames) /\ Len(q.frames) \in Nat
    <3>1. Len(q.frames) \in Nat /\ Len(Current(t).frames) \in Nat
      BY <1>1, CoroFields DEF Good
    <3> QED BY <3>1 DEF SameCalls, Depth
  <2> QED BY <2>1 DEF Bound
<1>7. NoneFailing \/ FailsAt(cstack[t])
  BY DEF FailsAt, Active
<1> QED BY <1>2, <1>5, <1>6, <1>7, OwnMove DEF s, s2

(***************************************************************************)
(* Instructions.                                                           *)
(***************************************************************************)
LEMMA InkFacts ==
  ASSUME CoroInv, NEW t \in Thread, Ink(t)
  PROVE  /\ cstack[t] # <<>> /\ NoneFailing
         /\ ~ Active(t).native /\ ~ Active(t).failing /\ ~ Last(cstack[t]).native /\ ~ Last(cstack[t]).failing
         /\ Good(Current(t)) /\ Current(t).alive /\ ~ Current(t).runtime.native
         /\ Depth(Current(t)) \notin Natives(Current(t))
<1>1. cstack[t] # <<>> /\ NoneFailing /\ ~ Active(t).native /\ ~ Active(t).failing
  BY DEF Ink, Interp, NoneFailing
<1>2. /\ Chain(cstack[t], co) /\ Active(t) = Last(cstack[t]) /\ Last(cstack[t]) = cstack[t][Len(cstack[t])]
      /\ Good(Current(t)) /\ Current(t).alive /\ Current(t) = co[Last(cstack[t]).co]
  BY <1>1, ActiveFacts
<1>3. PICK h : Held(cstack[t], co, h)
  BY <1>2, ChainHeld
<1>4. Depth(Current(t)) \notin Natives(Current(t))
  BY <1>1, <1>2, <1>3, LoopTop
<1>5. ~ Current(t).runtime.native
  BY <1>2, <1>4, CallTypes DEF Good
<1> QED BY <1>1, <1>2, <1>4, <1>5

(* Two changes that keep the calls.                                        *)
LEMMA AlikeTwice ==
  ASSUME NEW p, NEW q, NEW r, Alike(q, p), SameCalls(q, p), Alike(p, r), SameCalls(p, r)
  PROVE  Alike(q, r) /\ SameCalls(q, r)
BY DEF Alike, SameCalls

(* NEW_NUM_I and all the others that push a value.                          *)
LEMMA PushValueStep ==
  ASSUME CoroInv, NEW t \in Thread, PushValue(t)
  PROVE  CoroInv' /\ ArgumentsStep
<1>1. PICK v \in Arg : Ink(t) /\ Local(t, Push(Current(t), v))
  BY DEF PushValue
<1>2. cstack[t] # <<>> /\ NoneFailing /\ Good(Current(t)) /\ v \in Values
  BY <1>1, InkFacts DEF Arg, Values
<1>3. LET q == Push(Current(t), v)
      IN  Good(q) /\ Alike(q, Current(t)) /\ SameCalls(q, Current(t))
  BY <1>2, PushGood
<1> QED BY <1>1, <1>2, <1>3, LocalSame

(* POP.                                                                     *)
LEMMA PopValueStep ==
  ASSUME CoroInv, NEW t \in Thread, PopValue(t)
  PROVE  CoroInv' /\ ArgumentsStep
<1>1. Ink(t) /\ Avail(Current(t)) >= 1 /\ Local(t, Drop(Current(t), 1))
  BY DEF PopValue
<1>2. cstack[t] # <<>> /\ NoneFailing /\ Good(Current(t))
  BY <1>1, InkFacts
<1>3. 1 \in 0..Avail(Current(t))
  BY <1>1, <1>2, GoodFacts
<1>4. LET q == Drop(Current(t), 1)
      IN  Good(q) /\ Alike(q, Current(t)) /\ SameCalls(q, Current(t))
  BY <1>2, <1>3, DropGood
<1> QED BY <1>1, <1>2, <1>4, LocalSame

(* PUSH_BLOCK.                                                              *)
LEMMA PushBlockStep ==
  ASSUME CoroInv, NEW t \in Thread, PushBlock(t)
  PROVE  CoroInv' /\ ArgumentsStep
<1>1. PICK k \in 0..Avail(Current(t)) : Ink(t) /\ Local(t, BeginBlock(Current(t), k))
  BY DEF PushBlock, BeginBlock
<1>2. cstack[t] # <<>> /\ NoneFailing /\ Good(Current(t)) /\ ~ Current(t).runtime.native
  BY <1>1, InkFacts
<1>3. LET q == BeginBlock(Current(t), k)
      IN  Good(q) /\ Alike(q, Current(t)) /\ SameCalls(q, Current(t))
  BY <1>2, BeginBlockGood
<1> QED BY <1>1, <1>2, <1>3, LocalSame

(* POP_BLOCK.                                                               *)
LEMMA PopBlockStep ==
  ASSUME CoroInv, NEW t \in Thread, PopBlock(t)
  PROVE  CoroInv' /\ ArgumentsStep
<1>1. Ink(t) /\ Local(t, LeaveBlock(Current(t)))
  BY DEF PopBlock
<1>2. cstack[t] # <<>> /\ NoneFailing /\ Good(Current(t))
  BY <1>1, InkFacts
<1>3. LET q == LeaveBlock(Current(t))
      IN  Good(q) /\ Alike(q, Current(t)) /\ SameCalls(q, Current(t))
  BY <1>2, LeaveBlockGood
<1> QED BY <1>1, <1>2, <1>3, LocalSame

(* A value is taken off the stack.                                         *)
LEMMA TakesOne ==
  ASSUME NEW r, Good(r), Avail(r) >= 1
  PROVE  LET p == Drop(r, 1)
         IN  /\ Good(p) /\ Alike(p, r) /\ SameCalls(p, r) /\ Avail(p) = Avail(r) - 1
             /\ TopOf(r) \in Values
<1>1. 1 \in 0..Avail(r)
  BY GoodFacts
<1> QED BY <1>1, DropGood, TopIsValue

(* POP_BLOCK_S.                                                             *)
LEMMA PopBlockSaveStep ==
  ASSUME CoroInv, NEW t \in Thread, PopBlockSave(t)
  PROVE  CoroInv' /\ ArgumentsStep
<1> DEFINE r == Current(t)
           p == Drop(r, 1)
           o == LeaveBlock(p)
           q == Push(o, TopOf(r))
<1>1. Ink(t) /\ Avail(r) >= 1 /\ Local(t, q)
  BY DEF PopBlockSave
<1>2. cstack[t] # <<>> /\ NoneFailing /\ Good(r)
  BY <1>1, InkFacts
<1>3. Good(p) /\ Alike(p, r) /\ SameCalls(p, r) /\ TopOf(r) \in Values
  BY <1>1, <1>2, TakesOne
<1> HIDE DEF p
<1>4. Good(o) /\ Alike(o, p) /\ SameCalls(o, p)
  BY <1>3, LeaveBlockGood
<1> HIDE DEF o
<1>5. Good(q) /\ Alike(q, o) /\ SameCalls(q, o)
  BY <1>3, <1>4, PushGood
<1> HIDE DEF q, r
<1>6. Alike(q, r) /\ SameCalls(q, r)
  BY <1>3, <1>4, <1>5, AlikeTwice
<1> QED BY <1>1, <1>2, <1>5, <1>6, LocalSame DEF r

(* RPROT_SET and RPROT_CAC.                                                 *)
LEMMA SetCatchStep ==
  ASSUME CoroInv, NEW t \in Thread, SetCatch(t)
  PROVE  CoroInv' /\ ArgumentsStep
<1>1. PICK on \in BOOLEAN : Ink(t) /\ BlockOpen(Current(t)) /\ Local(t, SetCatchOf(Current(t), on))
  BY DEF SetCatch
<1>2. cstack[t] # <<>> /\ NoneFailing /\ Good(Current(t))
  BY <1>1, InkFacts
<1>3. LET q == SetCatchOf(Current(t), on)
      IN  Good(q) /\ Alike(q, Current(t)) /\ SameCalls(q, Current(t))
  BY <1>1, <1>2, SetCatchGood
<1> QED BY <1>1, <1>2, <1>3, LocalSame

(***************************************************************************)
(* Exceptions.                                                             *)
(***************************************************************************)
LEMMA ValuesAreNotNil == Nil \notin Values /\ Exc \in Values /\ None \in Values
BY CoroAssumption DEF Values

(* The block that catches goes on with the exception.                      *)
LEMMA CatchGood ==
  ASSUME NEW r, Good(r), Caught(r), NEW v \in Values
  PROVE  LET q == Push(SetCatchOf(r, FALSE), v)
         IN  Good(q) /\ Alike(q, r) /\ SameCalls(q, r) /\ Depth(r) \notin Natives(r)
<1> DEFINE p == SetCatchOf(r, FALSE)
           q == Push(p, v)
<1>1. BlockOpen(r) /\ FALSE \in BOOLEAN
  BY DEF Caught
<1>2. Good(p) /\ Alike(p, r) /\ SameCalls(p, r)
  BY <1>1, SetCatchGood, Zenon
<1> HIDE DEF p
<1>3. Good(q) /\ Alike(q, p) /\ SameCalls(q, p)
  BY <1>2, PushGood
<1> HIDE DEF q
<1>4. Depth(r) \notin Natives(r)
  BY <1>1, GoodFacts, CallTypes DEF Good
<1>5. Alike(q, r) /\ SameCalls(q, r)
  BY <1>2, <1>3, AlikeTwice
<1> QED BY <1>3, <1>4, <1>5 DEF q, p

(* An exception comes up: a block of the call catches it, or none does.     *)
LEMMA RaisedStep ==
  ASSUME CoroInv, NEW t \in Thread, Ink(t), NEW q, Good(q), Alike(q, Current(t)), SameCalls(q, Current(t)),
         NEW v \in Values, Raised(t, q, v)
  PROVE  CoroInv' /\ ArgumentsStep
<1>1. /\ cstack[t] # <<>> /\ NoneFailing
  BY InkFacts
<1>2. CASE Caught(q)
  <2> DEFINE p == Push(SetCatchOf(q, FALSE), v)
  <2>1. Local(t, p)
    BY <1>2 DEF Raised
  <2>2. Good(p) /\ Alike(p, q) /\ SameCalls(p, q)
    BY <1>2, CatchGood
  <2> HIDE DEF p
  <2>3. Alike(p, Current(t)) /\ SameCalls(p, Current(t))
    BY <2>2, AlikeTwice
  <2> QED BY <1>1, <2>1, <2>2, <2>3, LocalSame
<1>3. CASE ~ Caught(q)
  <2>1. /\ SetCoro(t, q) /\ except' = v /\ start' = start
        /\ cstack' = [cstack EXCEPT ![t] = Append(Front(@), [Active(t) EXCEPT !.failing = TRUE])]
    BY <1>3 DEF Raised
  <2>2. PICK b \in BOOLEAN : b /\ cstack' = [cstack EXCEPT ![t] = Marked(cstack[t], b)]
    BY <2>1, Zenon DEF Marked, Active
  <2>3. except' \in Values \cup {Nil} /\ except' # Nil
    BY <2>1, ValuesAreNotNil
  <2> QED BY <1>1, <2>1, <2>2, <2>3, MarkSame
<1> QED BY <1>2, <1>3

(* RAISE.                                                                   *)
LEMMA RaiseStep ==
  ASSUME CoroInv, NEW t \in Thread, Raise(t)
  PROVE  CoroInv' /\ ArgumentsStep
<1> DEFINE r == Current(t)
           p == Drop(r, 1)
<1>1. Ink(t) /\ Avail(r) >= 1 /\ Raised(t, p, TopOf(r))
  BY DEF Raise
<1>2. Good(r)
  BY <1>1, InkFacts
<1>3. Good(p) /\ Alike(p, r) /\ SameCalls(p, r) /\ TopOf(r) \in Values
  BY <1>1, <1>2, TakesOne
<1> HIDE DEF p
<1> QED BY <1>1, <1>3, RaisedStep

(* An instruction fails.                                                    *)
LEMMA FaultStep ==
  ASSUME CoroInv, NEW t \in Thread, Fault(t)
  PROVE  CoroInv' /\ ArgumentsStep
<1> DEFINE r == Current(t)
           p == Drop(r, 2)
           q == Push(SetCatchOf(p, FALSE), Exc)
<1>1. /\ Ink(t) /\ Avail(r) >= 2
      /\ Caught(p) => "fault" \in Quirks /\ SetCoro(t, q) /\ except' = Exc /\ UNCHANGED <<cstack, start>>
      /\ ~ Caught(p) => Raised(t, p, Exc)
  BY DEF Fault
<1>2. Good(r) /\ cstack[t] # <<>> /\ NoneFailing /\ ~ Last(cstack[t]).failing
  BY <1>1, InkFacts
<1>3. 2 \in 0..Avail(r)
  BY <1>1, <1>2, GoodFacts
<1>4. Good(p) /\ Alike(p, r) /\ SameCalls(p, r) /\ Exc \in Values
  BY <1>2, <1>3, DropGood, ValuesAreNotNil
<1>5. CASE ~ Caught(p)
  <2> HIDE DEF p
  <2> QED BY <1>1, <1>4, <1>5, RaisedStep
<1>6. CASE Caught(p)
  <2>1. Good(q) /\ Alike(q, p) /\ SameCalls(q, p)
    BY <1>4, <1>6, CatchGood
  <2> HIDE DEF p, q
  <2>2. /\ Chain(cstack[t], co) /\ cstack[t] \in Stacks /\ r = co[Last(cstack[t]).co] /\ r.alive
        /\ Active(t) = Last(cstack[t]) /\ Last(cstack[t]) \in Activation
        /\ Last(cstack[t]) = cstack[t][Len(cstack[t])]
    BY <1>2, ActiveFacts
  <2>3. Alike(q, r) /\ SameCalls(q, r)
    BY <1>4, <2>1, AlikeTwice
  <2>4. SetCoro(t, q) /\ co'[Last(cstack[t]).co] = q /\ Others(cstack[t], co, co')
    BY <1>1, <1>2, <1>6, <2>2, SetCoroIs
  <2> HIDE DEF r
  <2>5. PICK b \in BOOLEAN : b = Last(cstack[t]).failing /\ EndsAt(cstack[t], cstack[t], Len(cstack[t]), b)
    BY <2>2 DEF EndsAt, Activation
  <2>6. Good(q) /\ q.alive /\ q.hasNative = r.hasNative
    BY <2>1, <2>2, <2>3 DEF Alike
  <2>7. Chain(cstack[t], co')
    BY <1>2, <2>2, <2>3, <2>4, <2>5, <2>6, SameCallsGoOn
  <2>8. cstack' = [cstack EXCEPT ![t] = cstack[t]]
    BY <1>1, <1>6 DEF CoroInv, Types
  <2>9. Bound(q, r)
    <3>1. Len(q.frames) \in Nat /\ Len(r.frames) \in Nat
      BY <1>2, <2>1, CoroFields DEF Good
    <3> QED BY <2>3, <3>1 DEF Bound, SameCalls, Depth
  <2>10. except' \in Values \cup {Nil} /\ except' # Nil /\ start' = start /\ "fault" \in Quirks
    BY <1>1, <1>6, ValuesAreNotNil
  <2> QED BY <1>2, <2>1, <2>4, <2>7, <2>8, <2>9, <2>10, OwnMove DEF r
<1> QED BY <1>5, <1>6

(***************************************************************************)
(* Calls.                                                                  *)
(***************************************************************************)
LEMMA NoException ==
  ASSUME CoroInv, NoneFailing, "fault" \notin Quirks
  PROVE  except = Nil
BY DEF CoroInv, OneException, NoneFailing, FailsAt, Active

(* A C stack with one activation more.                                      *)
LEMMA AppendedOn ==
  ASSUME NEW s \in Stacks, NEW a \in Activation
  PROVE  LET s2 == Append(s, a)
         IN  (\A d : On(s2, d) <=> On(s, d) \/ d = a.co) /\ (FailsAt(s2) <=> a.failing)
<1> DEFINE n  == Len(s)
           s2 == Append(s, a)
<1>1. /\ s2 \in Stacks /\ Len(s2) = n + 1 /\ s2[n + 1] = a /\ n \in Nat
      /\ \A i \in 1..n : s2[i] = s[i]
  BY OneMore, StackTypes
<1> HIDE DEF s2, n
<1>2. \A i \in 1..n + 1 : i \in 1..n \/ i = n + 1
  BY <1>1
<1>3. n + 1 \in 1..n + 1 /\ \A i \in 1..n : i \in 1..n + 1
  BY <1>1
<1>4. \A d : On(s2, d) <=> On(s, d) \/ d = a.co
  BY <1>1, <1>2, <1>3 DEF On, n
<1>5. s2 # <<>> /\ Last(s2) = a
  <2>1. Len(s2) # 0
    BY <1>1
  <2> QED BY <1>1, <2>1, EmptySeq DEF Last
<1>6. FailsAt(s2) <=> a.failing
  BY <1>5 DEF FailsAt
<1> QED BY <1>4, <1>6 DEF s2

(* One more activation, and one more call, of the same coroutine.          *)
LEMMA CallMove ==
  ASSUME CoroInv, NEW t \in Thread, cstack[t] # <<>>, NoneFailing,
         NEW a \in Activation, a.co = Active(t).co, ~ a.failing, a.native \/ Active(t).native,
         a.native => (a.byCall <=> Active(t).native),
         a.native /\ ~ a.byCall => (a.saved <=> Current(t).hasNative),
         NEW q, Good(q), q.alive, Depth(q) = Depth(Current(t)) + 1,
         Natives(q) = Natives(Current(t)) \cup (IF a.native THEN {Depth(q)} ELSE {}),
         q.hasNative <=> Current(t).hasNative \/ a.native,
         SetCoro(t, q), Bound(q, Current(t)),
         cstack' = [cstack EXCEPT ![t] = Append(cstack[t], a)], UNCHANGED <<start, except>>
  PROVE  CoroInv' /\ ArgumentsStep
<1> DEFINE s == cstack[t]
           r == Current(t)
<1>1. /\ Chain(s, co) /\ s \in Stacks /\ Active(t) = Last(s) /\ Active(t).co \in Coro
      /\ r = co[Last(s).co] /\ Last(s) = s[Len(s)] /\ On(s, Active(t).co) /\ Len(s) \in Nat \ {0}
  BY ActiveFacts
<1>2. ~ Last(s).failing
  BY <1>1 DEF NoneFailing, Active
<1>3. co'[Last(s).co] = q /\ Others(s, co, co')
  <2>1. co'[Active(t).co] = q /\ Others(cstack[t], co, co')
    BY SetCoroIs
  <2> QED BY <1>1, <2>1
<1>4. PICK h : Held(s, co, h)
  BY <1>1, ChainHeld
<1>5. /\ a.co = Last(s).co /\ (a.native \/ Last(s).native)
      /\ a.native => (a.byCall <=> Last(s).native)
      /\ a.native /\ ~ a.byCall => (a.saved <=> co[Last(s).co].hasNative)
      /\ Depth(q) = Depth(co[Last(s).co]) + 1
      /\ Natives(q) = Natives(co[Last(s).co]) \cup (IF a.native THEN {Depth(q)} ELSE {})
      /\ q.hasNative <=> co[Last(s).co].hasNative \/ a.native
  BY <1>1
<1>6. (\A d : On(Append(s, a), d) <=> On(s, d)) /\ ~ FailsAt(Append(s, a))
  <2> HIDE DEF s
  <2> QED BY <1>1, AppendedOn
<1>7. s # <<>>
  OBVIOUS
<1> HIDE DEF s, r
<1>8. Chain(Append(s, a), co')
  <2>1. ShapeOK(s) /\ Hosted(s, co, h) /\ h \in [1..Len(s) -> Nat]
    BY <1>4 DEF Held
  <2>2. \A j \in 1..Len(s) : s[j].co # Last(s).co => co'[s[j].co] = co[s[j].co]
    BY <1>3 DEF Others
  <2>3. /\ s \in Stacks /\ s # <<>> /\ Last(s).co = s[Len(s)].co /\ ~ s[Len(s)].failing
        /\ a.co = Last(s).co /\ (a.native \/ s[Len(s)].native)
        /\ a.native => (a.byCall <=> s[Len(s)].native)
        /\ a.native /\ ~ a.byCall => (a.saved <=> co[Last(s).co].hasNative)
        /\ q = co'[Last(s).co]
    BY <1>1, <1>2, <1>3, <1>5, <1>7
  <2> QED BY <1>5, <2>1, <2>2, <2>3, Pushed
<1>9. "fault" \notin Quirks /\ except' # Nil => FALSE
  BY NoException
<1>10. except' \in Values \cup {Nil}
  BY DEF CoroInv, Types
<1> QED BY <1>6, <1>8, <1>9, <1>10, OwnMove DEF s, r

(* INVOKE and INVOKE_BASE.                                                  *)
LEMMA InvokeStep ==
  ASSUME CoroInv, NEW t \in Thread, Invoke(t)
  PROVE  CoroInv' /\ ArgumentsStep
<1> DEFINE r == Current(t)
           s == cstack[t]
<1>1. PICK kind \in Kind, n \in 0..2, base \in 0..1 :
        /\ Ink(t) /\ Avail(r) >= n + base + 1
        /\ SetCoro(t, [Callee(r, kind, n, base) EXCEPT !.hasNative = @ \/ kind = "native"])
        /\ cstack' = IF kind # "native" THEN cstack
                     ELSE [cstack EXCEPT ![t] = Append(@, CFunction(Active(t).co, r.hasNative, FALSE))]
        /\ UNCHANGED <<start, except>>
  BY DEF Invoke
<1>2. /\ Good(r) /\ r.alive /\ s # <<>> /\ NoneFailing /\ ~ Active(t).native
      /\ ~ Last(s).native /\ ~ Last(s).failing
  BY <1>1, InkFacts
<1>3. Chain(s, co) /\ r = co[Last(s).co] /\ Active(t).co \in Coro
  BY <1>2, ActiveFacts
<1> DEFINE p == Callee(r, kind, n, base)
<1>4. /\ Good(p) /\ Alike(p, r) /\ Depth(p) = Depth(r) + 1
      /\ Natives(p) = Natives(r) \cup (IF kind = "native" THEN {Depth(r) + 1} ELSE {})
      /\ p.runtime.param = (kind = "ink") /\ (kind = "ink" => Avail(p) = 0)
  BY <1>1, <1>2, CalleeGood
<1> HIDE DEF p
<1>5. p \in CoroSet /\ r \in CoroSet /\ p.hasNative \in BOOLEAN
  BY <1>2, <1>4, CoroFields DEF Good
<1>6. PICK b \in BOOLEAN : /\ b <=> p.hasNative \/ kind = "native"
                           /\ SetCoro(t, [p EXCEPT !.hasNative = b])
  <2>1. SetCoro(t, [p EXCEPT !.hasNative = p.hasNative \/ kind = "native"])
    BY <1>1 DEF p
  <2>2. (p.hasNative \/ kind = "native") \in BOOLEAN
    OBVIOUS
  <2> QED BY <2>1, <2>2, Zenon
<1> DEFINE q == [p EXCEPT !.hasNative = b]
<1>7. /\ Good(q) /\ SameCalls(q, p) /\ Avail(q) = Avail(p) /\ q.runtime = p.runtime
      /\ q.alive = p.alive /\ q.hasNative = b
  BY <1>4, SetNative
<1> HIDE DEF q
<1>8. /\ q.alive /\ Depth(q) = Depth(r) + 1
      /\ Natives(q) = Natives(r) \cup (IF kind = "native" THEN {Depth(q)} ELSE {})
      /\ q.hasNative <=> r.hasNative \/ kind = "native"
      /\ SetCoro(t, q)
  BY <1>2, <1>4, <1>6, <1>7 DEF SameCalls, Alike, q
<1>9. Bound(q, r)
  BY <1>4, <1>7 DEF Bound
<1>10. CASE kind # "native"
  <2>1. Local(t, q) /\ co'[Last(s).co] = q /\ Others(s, co, co')
    <3>1. Active(t) = Last(s)
      BY <1>2, ActiveFacts
    <3> QED BY <1>1, <1>2, <1>8, <1>10, <3>1, SetCoroIs DEF Local
  <2>2. q.hasNative = r.hasNative /\ Natives(q) = Natives(r)
    <3>1. r.hasNative \in BOOLEAN
      BY <1>5, CoroFields
    <3>2. q.hasNative \in BOOLEAN
      BY <1>7
    <3> QED BY <1>8, <1>10, <3>1, <3>2
  <2> HIDE DEF s, r
  <2>3. Chain(s, co')
    BY <1>2, <1>3, <1>7, <1>8, <2>1, <2>2, InkCallGoesOn
  <2> QED BY <1>2, <1>7, <1>9, <2>1, <2>3, LocalMove DEF s, r
<1>11. CASE kind = "native"
  <2> DEFINE a == CFunction(Active(t).co, r.hasNative, FALSE)
  <2>1. r.hasNative \in BOOLEAN
    BY <1>5, CoroFields
  <2>2. /\ a \in Activation /\ a.co = Active(t).co /\ ~ a.failing /\ a.native /\ ~ a.byCall
        /\ a.saved = r.hasNative
    BY <1>3, <2>1 DEF CFunction, Loop, Activation
  <2>3. cstack' = [cstack EXCEPT ![t] = Append(cstack[t], a)]
    BY <1>1, <1>11
  <2> HIDE DEF a
  <2>4. Natives(q) = Natives(r) \cup (IF a.native THEN {Depth(q)} ELSE {})
    BY <1>8, <1>11, <2>2
  <2>5. /\ (a.native => (a.byCall <=> Active(t).native)) /\ (a.native \/ Active(t).native)
        /\ a.native /\ ~ a.byCall => (a.saved <=> r.hasNative)
        /\ q.hasNative <=> r.hasNative \/ a.native
    BY <1>2, <1>8, <1>11, <2>2
  <2>6. UNCHANGED <<start, except>>
    BY <1>1
  <2> QED BY <1>2, <1>7, <1>8, <1>9, <2>2, <2>3, <2>4, <2>5, <2>6, CallMove DEF r, s
<1> QED BY <1>10, <1>11

(* A call is left, and the loop goes on.                                   *)
LEMMA LocalReturn ==
  ASSUME CoroInv, NEW t \in Thread, Interp(t), NoneFailing \/ Active(t).failing,
         NEW q, Left(q, Current(t)), q.hasNative = Current(t).hasNative, Local(t, q),
         Current(t).frames # <<>>, Depth(Current(t)) - 1 \notin Natives(Current(t))
  PROVE  CoroInv' /\ ArgumentsStep
<1> DEFINE s == cstack[t]
           r == Current(t)
<1>1. s # <<>> /\ ~ Active(t).native
  BY DEF Interp
<1>2. Chain(s, co) /\ r = co[Last(s).co] /\ Active(t) = Last(s) /\ Good(r)
  BY <1>1, ActiveFacts
<1>3. co'[Last(s).co] = q /\ Others(s, co, co')
  BY <1>1, <1>2, SetCoroIs DEF Local
<1>4. Bound(q, r)
  <2>1. Len(q.frames) \in Nat /\ Len(r.frames) \in Nat
    BY <1>2, CoroFields DEF Good, Left
  <2> QED BY <2>1 DEF Bound, Left, Depth
<1>5. Good(q)
  BY DEF Left
<1>6. r.frames # <<>> /\ Left(q, r) /\ q.hasNative = r.hasNative /\ Depth(r) - 1 \notin Natives(r)
  OBVIOUS
<1> HIDE DEF s, r
<1>7. Chain(s, co')
  BY <1>1, <1>2, <1>3, <1>6, InkReturnGoesOn
<1> QED BY <1>1, <1>4, <1>5, <1>7, LocalMove DEF s, r

(***************************************************************************)
(* A loop ends.                                                            *)
(***************************************************************************)

(* The stack without its top.                                              *)
LEMMA FrontIs ==
  ASSUME NEW s \in Stacks, s # <<>>, \A j \in 1..Len(s) - 1 : ~ s[j].failing
  PROVE  LET s2 == Front(s)  m == Len(s) - 1
         IN  /\ s2 \in Stacks /\ Len(s2) = m /\ m \in Nat
             /\ \A i \in 1..m : s2[i] = s[i]
             /\ ~ FailsAt(s2)
             /\ m = 0 <=> s2 = <<>>
             /\ m # 0 => Last(s2) = s[m] /\ m \in 1..m
             /\ \E b \in BOOLEAN : ~ b /\ EndsAt(s2, s, m, b)
<1> DEFINE n  == Len(s)
           m  == n - 1
           s2 == Front(s)
<1>1. s \in Seq(Activation)
  BY DEF Stacks
<1>2. /\ n \in Nat \ {0} /\ s2 \in Seq(Activation) /\ Len(s2) = n - 1
      /\ \A i \in 1..n - 1 : s2[i] = s[i]
  BY <1>1, LastFront
<1>3. \A j \in 1..m : ~ s[j].failing
  OBVIOUS
<1>4. \A i \in 1..n : s[i].failing \in BOOLEAN
  BY StackTypes
<1> HIDE DEF n, s2
<1>5. m \in Nat /\ (m # 0 => m \in 1..m) /\ \A i \in 1..m : i \in 1..n
  BY <1>2
<1>6. m = 0 <=> s2 = <<>>
  BY <1>2, EmptySeq
<1>7. m # 0 => Last(s2) = s[m]
  BY <1>2, <1>5 DEF Last
<1>8. ~ FailsAt(s2)
  BY <1>3, <1>5, <1>6, <1>7 DEF FailsAt
<1>9. \E b \in BOOLEAN : ~ b /\ EndsAt(s2, s, m, b)
  <2>1. PICK b \in BOOLEAN : ~ b
    OBVIOUS
  <2>2. \A i \in 1..m : s[i].failing = b
    BY <1>3, <1>4, <1>5, <2>1
  <2>3. \A i \in 1..m : s2[i].failing = IF i = m THEN b ELSE s[i].failing
    BY <1>2, <2>2
  <2>4. EndsAt(s2, s, m, b)
    BY <1>2, <2>3 DEF EndsAt
  <2> QED BY <2>1, <2>4
<1> QED BY <1>2, <1>5, <1>6, <1>7, <1>8, <1>9 DEF n, s2, Stacks

(* The mark on the activation below.                                       *)
LEMMA MarkedBelow ==
  ASSUME NEW s \in Stacks, s # <<>>, \A j \in 1..Len(s) - 1 : ~ s[j].failing,
         Len(s) # 1, s[Len(s) - 1].co = Last(s).co, NEW b \in BOOLEAN
  PROVE  LET s2 == Marked(Front(s), b)  m == Len(s) - 1
         IN  /\ s2 \in Stacks /\ EndsAt(s2, s, m, b)
             /\ \A d : On(s2, d) <=> On(s, d)
             /\ FailsAt(s2) <=> b
<1> DEFINE n  == Len(s)
           m  == n - 1
           f  == Front(s)
           s2 == Marked(f, b)
<1>1. /\ f \in Stacks /\ Len(f) = m /\ m \in Nat /\ (\A i \in 1..m : f[i] = s[i])
      /\ m = 0 <=> f = <<>>
  BY FrontIs
<1>2. n \in Nat \ {0} /\ Last(s) = s[n]
  BY LastFront DEF Stacks
<1>3. s[m].co = s[n].co /\ n # 1
  BY <1>2
<1> HIDE DEF f, n
<1>4. f # <<>> /\ m \in 1..m
  BY <1>1, <1>2, <1>3
<1>5. /\ s2 \in Stacks /\ EndsAt(s2, f, m, b)
      /\ \A d : On(s2, d) <=> On(f, d)
      /\ FailsAt(s2) <=> b
  BY <1>1, <1>4, MarkedIs
<1> HIDE DEF s2
<1>6. EndsAt(s2, s, m, b)
  BY <1>1, <1>5 DEF EndsAt
<1>7. \A d : On(f, d) <=> On(s, d)
  <2>1. \A i \in 1..n : i \in 1..m \/ i = n
    BY <1>2
  <2>2. \A i \in 1..m : i \in 1..n
    BY <1>2
  <2> QED BY <1>1, <1>3, <1>4, <2>1, <2>2 DEF On, n
<1> QED BY <1>5, <1>6, <1>7 DEF s2, f, n

(* The top marks fail, below none does.                                    *)
LEMMA NoneBelow ==
  ASSUME CoroInv, NEW t \in Thread, cstack[t] # <<>>
  PROVE  \A j \in 1..Len(cstack[t]) - 1 : ~ cstack[t][j].failing
<1>1. Chain(cstack[t], co)
  BY ActiveFacts
<1>2. PICK h : Held(cstack[t], co, h)
  BY <1>1, ChainHeld
<1> QED BY <1>2, TopFacts

(* How a loop ends: with a value while no exception is on its way, or with *)
(* the exception.                                                          *)
EndsWith(t, v) == \/ NoneFailing /\ v \in Values
                  \/ Active(t).failing /\ v = Nil

(* A function called by native code ends.                                  *)
LEMMA EndCallback ==
  ASSUME CoroInv, NEW t \in Thread, Interp(t), NEW q, Left(q, Current(t)), Alike(q, Current(t)),
         Current(t).frames # <<>>, Depth(Current(t)) - 1 \in Natives(Current(t)),
         NEW v, EndsWith(t, v), End(t, q, v)
  PROVE  CoroInv' /\ ArgumentsStep
<1> DEFINE s == cstack[t]
           r == Current(t)
           m == Len(s) - 1
           p == [q EXCEPT !.active = FALSE]
<1>1. s # <<>> /\ ~ Active(t).native
  BY DEF Interp
<1>2. /\ Chain(s, co) /\ r = co[Last(s).co] /\ Active(t) = Last(s) /\ Good(r) /\ r.alive
      /\ s \in Stacks /\ Len(s) \in Nat \ {0} /\ Last(s) = s[Len(s)] /\ Last(s) \in Activation
  BY <1>1, ActiveFacts
<1>3. /\ m \in 1..m /\ s[m].native /\ s[m].co = Last(s).co
      /\ \A K2, b, s2 :
           /\ Others(s, co, K2) /\ Left(K2[Last(s).co], r)
           /\ K2[Last(s).co].hasNative = r.hasNative
           /\ b \in BOOLEAN /\ s2 \in Stacks /\ EndsAt(s2, s, m, b)
           => Chain(s2, K2)
  <2>1. s # <<>> /\ ~ Last(s).native /\ r.frames # <<>> /\ Depth(r) - 1 \in Natives(r) /\ Chain(s, co)
    BY <1>1, <1>2
  <2>2. r = co[Last(s).co]
    BY <1>2
  <2> HIDE DEF s, r
  <2> QED BY <2>1, <2>2, CallbackEnds DEF m
<1>a. m \in 1..m /\ s[m].native /\ s[m].co = Last(s).co
  BY <1>3
<1>b. m # 0
  <2> HIDE DEF m
  <2> QED BY <1>a
<1>4. \A j \in 1..Len(s) - 1 : ~ s[j].failing
  BY <1>1, NoneBelow
<1>5. Front(s) # <<>> /\ Last(Front(s)) = s[m] /\ Len(s) # 1
  <2>1. m # 0 /\ s # <<>> /\ s \in Stacks
    BY <1>1, <1>2, <1>b
  <2>2. (m = 0 <=> Front(s) = <<>>) /\ (m # 0 => Last(Front(s)) = s[m])
    BY <1>4, <2>1, FrontIs
  <2>3. Len(s) # 1
    BY <1>2, <1>b
  <2> QED BY <2>1, <2>2, <2>3
<1>6. PICK b \in BOOLEAN :
        /\ b <=> v = Nil /\ ~ Active(t).trap
        /\ cstack' = [cstack EXCEPT ![t] = Marked(Front(s), b)]
        /\ SetCoro(t, p) /\ start' = start
        /\ except' = IF v = Nil /\ Active(t).trap THEN Nil ELSE except
  <2>1. /\ cstack' = [cstack EXCEPT ![t] = Marked(Front(s), v = Nil /\ ~ (v = Nil /\ Active(t).trap))]
        /\ SetCoro(t, p) /\ start' = start
        /\ except' = IF v = Nil /\ Active(t).trap THEN Nil ELSE except
    BY <1>a, <1>5 DEF End, Popped, Marked, SetCoro
  <2>2. (v = Nil /\ ~ (v = Nil /\ Active(t).trap)) \in BOOLEAN
    OBVIOUS
  <2> QED BY <2>1, <2>2, Zenon
<1>7. Left(p, r) /\ p.hasNative = r.hasNative /\ Good(p)
  <2>1. /\ Good(q) /\ q.alive /\ Depth(q) = Depth(r) - 1 /\ Natives(q) = Natives(r) \ {Depth(r)}
        /\ q.hasNative = r.hasNative
    BY DEF Left, Alike
  <2>2. FALSE \in BOOLEAN
    OBVIOUS
  <2>3. Good(p) /\ Alike(p, q) /\ SameCalls(p, q)
    BY <2>1, <2>2, SetActive, Zenon
  <2> HIDE DEF p
  <2> QED BY <2>1, <2>3 DEF Left, Alike, SameCalls
<1> HIDE DEF p
<1>8. co'[Last(s).co] = p /\ Others(s, co, co')
  <2>1. SetCoro(t, p) /\ Active(t) = Last(s) /\ s # <<>>
    BY <1>1, <1>2, <1>6
  <2> QED BY <2>1, SetCoroIs
<1> DEFINE s2 == Marked(Front(s), b)
<1>9. /\ s2 \in Stacks /\ EndsAt(s2, s, m, b) /\ (FailsAt(s2) <=> b)
      /\ \A d : On(s2, d) <=> On(s, d)
  BY <1>1, <1>2, <1>a, <1>4, <1>5, MarkedBelow
<1> HIDE DEF s2
<1>10. Chain(s2, co')
  BY <1>3, <1>7, <1>8, <1>9
<1>11. Bound(p, r)
  <2>1. Len(p.frames) \in Nat /\ Len(r.frames) \in Nat
    BY <1>2, <1>7, CoroFields DEF Good
  <2> QED BY <1>7, <2>1 DEF Bound, Left, Depth
<1>12. NoneFailing \/ FailsAt(s)
  BY <1>1 DEF EndsWith, FailsAt, Active
<1>13. except \in Values \cup {Nil}
  BY DEF CoroInv, Types
<1>14. FailsAt(s2) => except' # Nil
  <2> SUFFICES ASSUME b
               PROVE  except # Nil
    BY <1>6, <1>9
  <2>1. FailsAt(s)
    BY <1>1, <1>6, ValuesAreNotNil DEF EndsWith, FailsAt, Active
  <2> QED BY <2>1 DEF CoroInv, OneException
<1>15. "fault" \notin Quirks /\ except' # Nil => FailsAt(s2)
  <2> SUFFICES ASSUME "fault" \notin Quirks, except' # Nil, ~ b
               PROVE  FALSE
    BY <1>9
  <2>1. v # Nil /\ except # Nil
    BY <1>6
  <2> QED BY <2>1, NoException DEF EndsWith
<1> QED BY <1>1, <1>6, <1>7, <1>9, <1>10, <1>11, <1>12, <1>13, <1>14, <1>15, OwnMove DEF s, r, s2

(* A coroutine as it is off the C stacks: dead, or without native calls.   *)
Off(q) == q \in CoroSet /\ (q.alive => Good(q) /\ Natives(q) = {} /\ ~ q.hasNative)

(* A coroutine that has ended loses its flags.                              *)
LEMMA OffFlags ==
  ASSUME NEW q, Off(q)
  PROVE  LET p == [q EXCEPT !.active = FALSE]  o == [p EXCEPT !.spawned = FALSE]
         IN  Off(p) /\ p.frames = q.frames /\ Off(o) /\ o.frames = q.frames
<1> DEFINE p == [q EXCEPT !.active = FALSE]
           o == [p EXCEPT !.spawned = FALSE]
<1>1. q \in CoroSet
  BY DEF Off
<1>2. p \in CoroSet /\ o \in CoroSet /\ p.frames = q.frames /\ o.frames = q.frames
  BY <1>1 DEF CoroSet
<1>3. p.alive = q.alive /\ o.alive = q.alive
  BY <1>1 DEF CoroSet
<1>4. FALSE \in BOOLEAN
  OBVIOUS
<1>5. q.alive => Good(p) /\ Alike(p, q) /\ SameCalls(p, q)
  BY <1>4, SetActive, Zenon DEF Off
<1>6. q.alive => Good(p) /\ Natives(p) = {} /\ ~ p.hasNative
  <2> HIDE DEF p
  <2> QED BY <1>5 DEF Off, Alike, SameCalls
<1>7. q.alive => Good(o) /\ SameCalls(o, p) /\ o.hasNative = p.hasNative
  <2> HIDE DEF p
  <2> QED BY <1>4, <1>6, SetSpawned, Zenon
<1>8. q.alive => Good(o) /\ Natives(o) = {} /\ ~ o.hasNative
  <2> HIDE DEF p, o
  <2> QED BY <1>6, <1>7 DEF SameCalls
<1> QED BY <1>2, <1>3, <1>6, <1>8 DEF Off

(* The loop that has begun the coroutine ends.                             *)
LEMMA EndLoop ==
  ASSUME CoroInv, NEW t \in Thread, Interp(t), Begins(cstack[t], Len(cstack[t])),
         NEW q, Off(q), Len(q.frames) # Len(Current(t).frames) + 1,
         NEW v, EndsWith(t, v), End(t, q, v)
  PROVE  CoroInv' /\ ArgumentsStep
<1> DEFINE s == cstack[t]
           c == Active(t).co
           f == Front(s)
           p == [q EXCEPT !.active = FALSE]
           o == [p EXCEPT !.spawned = FALSE]
<1>1. s # <<>> /\ ~ Active(t).native
  BY DEF Interp
<1>2. /\ Chain(s, co) /\ Current(t) = co[c] /\ Active(t) = Last(s) /\ c \in Coro
      /\ s \in Stacks /\ Len(s) \in Nat \ {0} /\ Len(s) \in 1..Len(s) /\ Last(s) = s[Len(s)]
      /\ On(s, c)
  BY <1>1, ActiveFacts
<1>3. Active(t).trap
  <2>1. ShapeAt(s, Len(s))
    BY <1>2 DEF Chain, ShapeOK
  <2> QED BY <1>2, <2>1 DEF ShapeAt
<1>4. \A j \in 1..Len(s) - 1 : ~ s[j].failing
  BY <1>1, NoneBelow
<1>5. /\ f \in Stacks /\ Len(f) = Len(s) - 1 /\ (\A i \in 1..Len(s) - 1 : f[i] = s[i]) /\ ~ FailsAt(f)
      /\ Len(s) - 1 = 0 <=> f = <<>>
      /\ Len(s) - 1 # 0 => Last(f) = s[Len(s) - 1]
      /\ \E b \in BOOLEAN : ~ b /\ EndsAt(f, s, Len(s) - 1, b)
  BY <1>1, <1>2, <1>4, FrontIs
<1>6. Off(p) /\ p.frames = q.frames /\ Off(o) /\ o.frames = q.frames
  BY OffFlags
<1>7. co \in [Coro -> CoroSet \cup {Nil}] /\ except \in Values \cup {Nil} /\ cstack \in [Thread -> Stacks]
  BY DEF CoroInv, Types
<1>8. \A d : On(f, d) => On(s, d)
  <2>1. \A i \in 1..Len(s) - 1 : i \in 1..Len(s)
    BY <1>2
  <2> QED BY <1>5, <2>1 DEF On
<1>9. /\ except' = IF v = Nil THEN Nil ELSE except
      /\ start' = start
  BY <1>3 DEF End, Popped
<1>10. except' \in Values \cup {Nil} /\ ("fault" \notin Quirks /\ except' # Nil => FALSE)
  BY <1>7, <1>9, NoException DEF EndsWith
<1>11. NoneFailing \/ FailsAt(s)
  BY <1>1 DEF EndsWith, FailsAt, Active
<1>12. Bound(p, co[c]) /\ Bound(o, co[c])
  BY <1>2, <1>6 DEF Bound
<1>13. \A d \in Coro : co[d] # Nil => Bound(co[d], co[d])
  <2> SUFFICES ASSUME NEW d \in Coro, co[d] # Nil
               PROVE  Len(co[d].frames) # Len(co[d].frames) + 1
    BY DEF Bound
  <2>1. Len(co[d].frames) \in Nat
    BY <1>7, CoroFields
  <2> QED BY <2>1
<1>14. CASE Len(s) = 1
  <2>1. f = <<>>
    BY <1>5, <1>14
  <2>2. /\ co' = [[co EXCEPT ![c] = p] EXCEPT ![c].spawned = FALSE]
        /\ cstack' = [cstack EXCEPT ![t] = f]
    BY <2>1 DEF End
  <2> HIDE DEF p, o, c, s, f
  <2>3. co'[c] = o /\ \A d \in Coro : d # c => co'[d] = co[d]
    BY <1>2, <1>7, <2>2 DEF o
  <2>4. co' \in [Coro -> CoroSet \cup {Nil}]
    <3>1. co' = [co EXCEPT ![c] = o]
      BY <1>2, <1>7, <2>2 DEF o
    <3> QED BY <1>6, <1>7, <3>1 DEF Off
  <2>5. Chain(f, co')
    BY <2>1, NoChain
  <2>6. \A d : ~ On(f, d)
    BY <2>1 DEF On
  <2>7. \A d \in Coro : Lives(co'[d]) /\ (On(s, d) \/ co'[d] # co[d]) => d = c
    <3>1. \A j \in 1..Len(s) : s[j].co = c
      BY <1>2, <1>14 DEF c
    <3> QED BY <2>3, <3>1 DEF On
  <2>8. Lives(o) => Good(o) /\ Natives(o) = {} /\ ~ o.hasNative
    BY <1>6 DEF Off, Lives
  <2>9. (Chains /\ Apart /\ Idle /\ OneException)'
    <3>1. \A d \in Coro : co'[d] # co[d] \/ On(f, d) => On(s, d)
      BY <1>2, <2>3, <2>6
    <3>2. \A d \in Coro : Lives(co'[d]) /\ co'[d] # co[d] => Good(co'[d])
      BY <2>3, <2>8
    <3>3. \A d \in Coro : Lives(co'[d]) /\ ~ On(f, d) /\ (On(s, d) \/ co'[d] # co[d])
             => Natives(co'[d]) = {} /\ ~ co'[d].hasNative
      BY <2>3, <2>7, <2>8
    <3> QED BY <1>5, <1>10, <1>11, <2>2, <2>5, <3>1, <3>2, <3>3, Moves DEF s
  <2>10. Starts'
    <3>1. \A d \in Coro : co'[d] # co[d] \/ On(f, d) => On(s, d)
      BY <1>2, <2>3, <2>6
    <3> QED BY <1>1, <1>5, <1>9, <2>2, <3>1, StartsKept DEF s
  <2>11. Types'
    BY <1>5, <1>7, <1>9, <1>10, <2>2, <2>4 DEF CoroInv, Types
  <2>12. ArgumentsStep
    BY <1>12, <1>13, <2>3 DEF ArgumentsStep
  <2> QED BY <2>9, <2>10, <2>11, <2>12 DEF CoroInv
<1>15. CASE Len(s) # 1
  <2> DEFINE m == Len(s) - 1
             e == s[m].co
             w == IF v = Nil THEN None ELSE v
             g == Push(Drop(co[e], 1), w)
  <2>1. Begins(s, Len(s)) /\ ~ Last(s).native
    BY <1>1, <1>2
  <2>2. /\ m \in 1..m /\ ~ s[m].native /\ e # c /\ Good(co[e]) /\ co[e].alive /\ Avail(co[e]) >= 1
        /\ \A j \in 1..m : s[j].co # c
        /\ \A K2, s2 :
             /\ \A j \in 1..m : s[j].co # e => K2[s[j].co] = co[s[j].co]
             /\ Good(K2[e]) /\ Alike(K2[e], co[e]) /\ SameCalls(K2[e], co[e])
             /\ s2 \in Stacks /\ EndsAt(s2, s, m, FALSE)
             => Chain(s2, K2)
    BY <1>1, <1>2, <1>15, <2>1, LoopEnds
  <2>3. m # 0 /\ Last(f) = s[m] /\ f # <<>> /\ m \in 1..Len(s) /\ EndsAt(f, s, m, FALSE)
    <3>1. m # 0 /\ Last(f) = s[m] /\ f # <<>>
      <4>1. m # 0
        BY <1>2, <1>15
      <4>2. (m = 0 <=> f = <<>>) /\ (m # 0 => Last(f) = s[m])
        BY <1>5
      <4> HIDE DEF f, s, m
      <4> QED BY <4>1, <4>2
    <3>2. m \in 1..Len(s)
      <4>1. Len(s) \in Nat /\ Len(s) # 0 /\ Len(s) # 1
        BY <1>2, <1>15
      <4>2. \A n \in Nat : n # 0 /\ n # 1 => n - 1 \in 1..n
        OBVIOUS
      <4> QED BY <4>1, <4>2
    <3>3. PICK b \in BOOLEAN : ~ b /\ EndsAt(f, s, m, b)
      BY <1>5
    <3>4. b = FALSE
      BY <3>3
    <3>5. EndsAt(f, s, m, FALSE)
      BY <3>3, <3>4, Zenon
    <3> QED BY <3>1, <3>2, <3>5
  <2>4. /\ co' = [[co EXCEPT ![c] = p] EXCEPT ![e] = Push(Drop(@, 1), w)]
        /\ cstack' = [cstack EXCEPT ![t] = f]
    BY <2>2, <2>3 DEF End
  <2>5. e \in Coro /\ On(f, e) /\ On(s, e)
    <3>1. e \in Coro
      BY <1>2, <2>3, StackTypes
    <3>2. On(f, e)
      BY <1>5, <2>2 DEF On
    <3> QED BY <1>8, <3>1, <3>2
  <2>6. w \in Values
    BY ValuesAreNotNil DEF EndsWith
  <2>7. Good(g) /\ Alike(g, co[e]) /\ SameCalls(g, co[e])
    <3> DEFINE o2 == Drop(co[e], 1)
    <3>1. Good(o2) /\ Alike(o2, co[e]) /\ SameCalls(o2, co[e])
      BY <2>2, TakesOne
    <3> HIDE DEF o2, w
    <3>2. LET g2 == Push(o2, w) IN Good(g2) /\ Alike(g2, o2) /\ SameCalls(g2, o2)
      BY <2>6, <3>1, PushGood
    <3> QED BY <3>1, <3>2, AlikeTwice DEF o2
  <2>8. Bound(g, co[e])
    <3>1. Len(g.frames) \in Nat /\ Len(co[e].frames) \in Nat
      BY <2>2, <2>7, CoroFields DEF Good
    <3>2. Len(g.frames) + 1 = Len(co[e].frames) + 1
      BY <2>7 DEF SameCalls, Depth
    <3>3. Len(g.frames) # Len(co[e].frames) + 1
      BY <3>1, <3>2
    <3> QED BY <3>3 DEF Bound
  <2> HIDE DEF p, o, w, m, e
  <2>9. co' = [[co EXCEPT ![c] = p] EXCEPT ![e] = g]
    BY <1>2, <1>7, <2>2, <2>4, <2>5
  <2> HIDE DEF g, c, s, f
  <2>10. co'[c] = p /\ co'[e] = g /\ \A d \in Coro : d # c /\ d # e => co'[d] = co[d]
    BY <1>2, <1>7, <2>2, <2>5, <2>9
  <2>11. co' \in [Coro -> CoroSet \cup {Nil}]
    BY <1>6, <1>7, <2>7, <2>9 DEF Off, Good
  <2>12. Chain(f, co')
    <3>1. \A j \in 1..m : s[j].co \in Coro /\ s[j].co # c
      <4>1. \A j \in 1..m : j \in 1..Len(s)
        BY <1>2, <2>3 DEF m
      <4> QED BY <1>2, <2>2, <4>1, StackTypes
    <3>2. \A j \in 1..m : s[j].co # e => co'[s[j].co] = co[s[j].co]
      BY <2>10, <3>1
    <3>3. Good(co'[e]) /\ Alike(co'[e], co[e]) /\ SameCalls(co'[e], co[e])
      BY <2>7, <2>10
    <3> QED BY <1>5, <2>2, <2>3, <3>2, <3>3
  <2>13. \A d : On(s, d) => On(f, d) \/ d = c
    <3>1. \A i \in 1..Len(s) : i \in 1..m \/ i = Len(s)
      BY <1>2 DEF m
    <3> QED BY <1>2, <1>5, <3>1 DEF On, m, c
  <2>14. Lives(p) => Good(p) /\ Natives(p) = {} /\ ~ p.hasNative
    BY <1>6 DEF Off, Lives
  <2>15. \A d \in Coro : co'[d] # co[d] \/ On(f, d) => On(s, d)
    BY <1>2, <1>8, <2>5, <2>10
  <2>16. (Chains /\ Apart /\ Idle /\ OneException)'
    <3>1. \A d \in Coro : Lives(co'[d]) /\ co'[d] # co[d] => Good(co'[d])
      BY <2>7, <2>10, <2>14
    <3>2. \A d \in Coro : Lives(co'[d]) /\ ~ On(f, d) /\ (On(s, d) \/ co'[d] # co[d])
             => Natives(co'[d]) = {} /\ ~ co'[d].hasNative
      BY <1>2, <2>5, <2>10, <2>13, <2>14
    <3> QED BY <1>5, <1>10, <1>11, <2>4, <2>12, <2>15, <3>1, <3>2, Moves DEF s
  <2>17. Starts'
    BY <1>1, <1>5, <1>9, <2>4, <2>15, StartsKept DEF s
  <2>18. Types'
    BY <1>5, <1>7, <1>9, <1>10, <2>4, <2>11 DEF CoroInv, Types
  <2>19. ArgumentsStep
    BY <1>12, <1>13, <2>8, <2>10 DEF ArgumentsStep
  <2> QED BY <2>16, <2>17, <2>18, <2>19 DEF CoroInv
<1> QED BY <1>14, <1>15

(* How the loop at the top of a C stack leaves a call.                     *)
LEMMA LoopFacts ==
  ASSUME CoroInv, NEW t \in Thread, Interp(t)
  PROVE  LET r == Current(t)
         IN  /\ cstack[t] # <<>> /\ Good(r) /\ r.alive /\ r.spawned \in BOOLEAN
             /\ r.frames = <<>> => Begins(cstack[t], Len(cstack[t]))
             /\ ~ r.hasNative => /\ Begins(cstack[t], Len(cstack[t]))
                                 /\ ~ Active(t).failing => Natives(r) = {}
<1>1. cstack[t] # <<>> /\ ~ Active(t).native
  BY DEF Interp
<1>2. /\ Chain(cstack[t], co) /\ Active(t) = Last(cstack[t]) /\ Last(cstack[t]) = cstack[t][Len(cstack[t])]
      /\ Good(Current(t)) /\ Current(t).alive /\ Current(t) = co[Last(cstack[t]).co]
  BY <1>1, ActiveFacts
<1>3. PICK h : Held(cstack[t], co, h)
  BY <1>2, ChainHeld
<1>4. Current(t).spawned \in BOOLEAN
  BY <1>2, CoroFields DEF Good
<1>5. LET s == cstack[t]  n == Len(s)  r == co[s[n].co]
      IN  /\ ~ s[n].failing => Depth(r) \notin Natives(r)
          /\ r.frames = <<>> => Begins(s, n)
          /\ ~ r.hasNative => Begins(s, n) /\ (~ s[n].failing => Natives(r) = {})
  <2>1. ~ cstack[t][Len(cstack[t])].native
    BY <1>1, <1>2
  <2> QED BY <1>1, <1>3, <2>1, LoopTop
<1> QED BY <1>1, <1>2, <1>4, <1>5

(* The root call is left: the coroutine is dead.                           *)
LEMMA DeadIsOff ==
  ASSUME NEW r, Good(r), r.frames = <<>>
  PROVE  LET q == [LeaveFrame(r) EXCEPT !.alive = FALSE]
         IN  Off(q) /\ Len(q.frames) # Len(r.frames) + 1
<1> DEFINE q == [LeaveFrame(r) EXCEPT !.alive = FALSE]
<1>1. q \in CoroSet /\ ~ q.alive
  BY LeaveRoot
<1>2. q.frames = r.frames
  BY DEF LeaveFrame, PopFrame, Good, CoroSet
<1>3. Len(r.frames) \in Nat
  BY CoroFields DEF Good
<1> QED BY <1>1, <1>2, <1>3 DEF Off

(* A call that is not the root is left.                                    *)
LEMMA LeftIs ==
  ASSUME NEW r, Good(r), r.alive, r.frames # <<>>
  PROVE  LET q == LeaveFrame(r)
         IN  /\ Good(q) /\ Left(q, r) /\ Alike(q, r) /\ q.hasNative = r.hasNative
             /\ Depth(r) - 1 \in Natives(r) <=> q.runtime.native
BY LeaveFrameGood DEF Left, Alike

(* A value is pushed after it.                                             *)
LEMMA LeftAndPushed ==
  ASSUME NEW r, NEW p, Left(p, r), NEW v \in Values
  PROVE  LET q == Push(p, v)
         IN  Left(q, r) /\ q.hasNative = p.hasNative /\ Good(q)
<1> DEFINE q == Push(p, v)
<1>1. Good(q) /\ Alike(q, p) /\ SameCalls(q, p)
  BY PushGood DEF Left
<1> HIDE DEF q
<1>2. Left(q, r) /\ q.hasNative = p.hasNative
  BY <1>1 DEF Left, Alike, SameCalls
<1> QED BY <1>1, <1>2 DEF q

(* RETURN.                                                                  *)
LEMMA ReturnStep ==
  ASSUME CoroInv, NEW t \in Thread, Return(t)
  PROVE  CoroInv' /\ ArgumentsStep
<1> DEFINE r == Current(t)
           v == IF Avail(r) = 0 THEN None ELSE TopOf(r)
           p == LeaveFrame(r)
<1>1. Ink(t) /\ Returned(t, r, v)
  BY DEF Return
<1>2. Good(r) /\ r.alive /\ NoneFailing /\ Interp(t)
  BY <1>1, InkFacts DEF Ink
<1>3. v \in Values
  <2>1. Avail(r) = 0 \/ Avail(r) >= 1
    BY <1>2, GoodFacts
  <2> QED BY <1>2, <2>1, TopIsValue, ValuesAreNotNil
<1>4. EndsWith(t, v)
  BY <1>2, <1>3 DEF EndsWith
<1> HIDE DEF v
<1>5. CASE r.frames = <<>>
  <2> DEFINE q == [p EXCEPT !.alive = FALSE]
  <2>1. End(t, q, v)
    BY <1>1, <1>5 DEF Returned
  <2>2. Off(q) /\ Len(q.frames) # Len(r.frames) + 1
    BY <1>2, <1>5, DeadIsOff
  <2>3. Begins(cstack[t], Len(cstack[t]))
    BY <1>2, <1>5, LoopFacts
  <2> HIDE DEF q
  <2> QED BY <1>2, <1>4, <2>1, <2>2, <2>3, EndLoop
<1>6. CASE r.frames # <<>> /\ p.runtime.native
  <2>1. End(t, p, v)
    BY <1>1, <1>6 DEF Returned
  <2>2. Left(p, r) /\ Alike(p, r) /\ Depth(r) - 1 \in Natives(r)
    BY <1>2, <1>6, LeftIs
  <2> HIDE DEF p
  <2> QED BY <1>2, <1>4, <1>6, <2>1, <2>2, EndCallback
<1>7. CASE r.frames # <<>> /\ ~ p.runtime.native
  <2> DEFINE q == Push(p, v)
  <2>1. Local(t, q)
    BY <1>1, <1>7 DEF Returned
  <2>2. Left(p, r) /\ p.hasNative = r.hasNative /\ Depth(r) - 1 \notin Natives(r)
    BY <1>2, <1>7, LeftIs
  <2>3. Left(q, r) /\ q.hasNative = p.hasNative
    BY <1>3, <2>2, LeftAndPushed
  <2> HIDE DEF p, q
  <2> QED BY <1>2, <1>7, <2>1, <2>2, <2>3, LocalReturn
<1> QED BY <1>5, <1>6, <1>7

(* YIELD.                                                                   *)
LEMMA YieldStep ==
  ASSUME CoroInv, NEW t \in Thread, Yield(t)
  PROVE  CoroInv' /\ ArgumentsStep
<1> DEFINE r == Current(t)
           p == Drop(r, 1)
           v == TopOf(r)
<1>1. /\ Ink(t) /\ Avail(r) >= 1
      /\ r.hasNative => Raised(t, p, Exc)
      /\ ~ r.hasNative => End(t, p, v)
  BY DEF Yield, YieldsFail
<1>2. Good(r) /\ r.alive /\ NoneFailing /\ Interp(t) /\ ~ Active(t).failing
  BY <1>1, InkFacts DEF Ink
<1>3. Good(p) /\ Alike(p, r) /\ SameCalls(p, r) /\ v \in Values /\ Exc \in Values
  BY <1>1, <1>2, TakesOne, ValuesAreNotNil
<1> HIDE DEF p, v
<1>4. CASE r.hasNative
  BY <1>1, <1>3, <1>4, RaisedStep
<1>5. CASE ~ r.hasNative
  <2>1. Begins(cstack[t], Len(cstack[t])) /\ Natives(r) = {}
    BY <1>2, <1>5, LoopFacts
  <2>2. Off(p)
    BY <1>3, <1>5, <2>1 DEF Off, Good, Alike, SameCalls
  <2>3. Len(p.frames) # Len(r.frames) + 1
    <3>1. Len(p.frames) \in Nat /\ Len(r.frames) \in Nat
      BY <1>2, <1>3, CoroFields DEF Good
    <3> QED BY <1>3, <3>1 DEF SameCalls, Depth
  <2>4. EndsWith(t, v)
    BY <1>2, <1>3 DEF EndsWith
  <2> QED BY <1>1, <1>2, <1>5, <2>1, <2>2, <2>3, <2>4, EndLoop
<1> QED BY <1>4, <1>5

(* An exception leaves a block or a call.                                   *)
LEMMA UnwindStep ==
  ASSUME CoroInv, NEW t \in Thread, Unwind(t)
  PROVE  CoroInv' /\ ArgumentsStep
<1> DEFINE r == Current(t)
           p == LeaveFrame(r)
<1>1. /\ Interp(t) /\ Active(t).failing /\ Active(t) = Last(cstack[t])
      /\ Good(r) /\ r.alive /\ cstack[t] # <<>>
  BY LoopFacts DEF Unwind, Active
<1>2. EndsWith(t, Nil)
  BY <1>1 DEF EndsWith
<1>3. except \in Values /\ except # Nil
  <2>1. FailsAt(cstack[t])
    BY <1>1 DEF FailsAt
  <2> QED BY <2>1, ValuesAreNotNil DEF CoroInv, OneException, Types
<1>4. CASE Caught(r)
  <2> DEFINE q == Push(SetCatchOf(r, FALSE), except)
  <2>1. /\ SetCoro(t, q) /\ except' = Nil /\ start' = start
        /\ cstack' = [cstack EXCEPT ![t] = Append(Front(@), [Active(t) EXCEPT !.failing = FALSE])]
    BY <1>4 DEF Unwind
  <2>2. Good(q) /\ Alike(q, r) /\ SameCalls(q, r) /\ Depth(r) \notin Natives(r)
    BY <1>1, <1>3, <1>4, CatchGood
  <2>3. PICK b \in BOOLEAN : ~ b /\ cstack' = [cstack EXCEPT ![t] = Marked(cstack[t], b)]
    BY <2>1, Zenon DEF Marked, Active
  <2>4. except' \in Values \cup {Nil} /\ (b <=> except' # Nil)
    BY <2>1, <2>3
  <2> HIDE DEF q
  <2> QED BY <1>1, <2>1, <2>2, <2>3, <2>4, MarkSame
<1>5. CASE ~ Caught(r) /\ BlockOpen(r)
  <2>1. Local(t, LeaveBlock(r))
    BY <1>5 DEF Unwind
  <2>2. LET q == LeaveBlock(r) IN Good(q) /\ Alike(q, r) /\ SameCalls(q, r)
    BY <1>1, LeaveBlockGood
  <2> QED BY <1>1, <2>1, <2>2, LocalSame
<1>6. CASE ~ Caught(r) /\ ~ BlockOpen(r) /\ r.frames = <<>>
  <2> DEFINE q == [p EXCEPT !.alive = FALSE]
  <2>1. End(t, q, Nil)
    BY <1>6 DEF Unwind
  <2>2. Off(q) /\ Len(q.frames) # Len(r.frames) + 1
    BY <1>1, <1>6, DeadIsOff
  <2>3. Begins(cstack[t], Len(cstack[t]))
    BY <1>1, <1>6, LoopFacts
  <2> HIDE DEF q
  <2> QED BY <1>1, <1>2, <2>1, <2>2, <2>3, EndLoop
<1>7. CASE ~ Caught(r) /\ ~ BlockOpen(r) /\ r.frames # <<>> /\ p.runtime.native
  <2>1. End(t, p, Nil)
    BY <1>7 DEF Unwind
  <2>2. Left(p, r) /\ Alike(p, r) /\ Depth(r) - 1 \in Natives(r)
    BY <1>1, <1>7, LeftIs
  <2> HIDE DEF p
  <2> QED BY <1>1, <1>2, <1>7, <2>1, <2>2, EndCallback
<1>8. CASE ~ Caught(r) /\ ~ BlockOpen(r) /\ r.frames # <<>> /\ ~ p.runtime.native
  <2>1. Local(t, p)
    BY <1>8 DEF Unwind
  <2>2. Left(p, r) /\ p.hasNative = r.hasNative /\ Depth(r) - 1 \notin Natives(r)
    BY <1>1, <1>8, LeftIs
  <2> HIDE DEF p
  <2> QED BY <1>1, <1>8, <2>1, <2>2, LocalReturn
<1> QED BY <1>4, <1>5, <1>6, <1>7, <1>8

(***************************************************************************)
(* Native code.                                                            *)
(***************************************************************************)

(* Native code that is at the top, and what is below it.                   *)
LEMMA NativeFacts ==
  ASSUME CoroInv, NEW t \in Thread, cstack[t] # <<>>, Active(t).native
  PROVE  LET s == cstack[t]  r == Current(t)  a == Active(t)  m == Len(cstack[t]) - 1
         IN  /\ a = Last(s) /\ a \in Activation /\ s \in Stacks /\ Good(r) /\ r.alive /\ r.frames # <<>>
             /\ m \in 1..m /\ m \in Nat /\ m # 0 /\ Len(s) # 1 /\ s[m].co = Last(s).co
             /\ \A j \in 1..m : ~ s[j].failing
             /\ \A K2, b, s2 :
                  /\ Others(s, co, K2) /\ b \in BOOLEAN /\ s2 \in Stacks /\ EndsAt(s2, s, m, b)
                  /\ LET q == K2[a.co]
                     IN  /\ q.hasNative = IF a.byCall THEN r.hasNative ELSE a.saved
                         /\ \/ Left(q, r)
                            \/ b /\ ~ a.byCall /\ Good(q) /\ q.alive /\ SameCalls(q, r)
                  => Chain(s2, K2)
<1> DEFINE s == cstack[t]
           r == Current(t)
           a == Active(t)
           m == Len(s) - 1
<1>1. /\ a = Last(s) /\ a \in Activation /\ s \in Stacks /\ Good(r) /\ r.alive
      /\ Chain(s, co) /\ r = co[Last(s).co] /\ Len(s) \in Nat \ {0}
  BY ActiveFacts
<1>2. Last(s).native /\ s # <<>>
  BY <1>1
<1>3. \A j \in 1..m : ~ s[j].failing
  BY <1>2, NoneBelow
<1> HIDE DEF s, r, a
<1>4. /\ m \in 1..m /\ s[m].co = Last(s).co /\ r.frames # <<>>
      /\ \A K2, b, s2 :
           /\ Others(s, co, K2) /\ b \in BOOLEAN /\ s2 \in Stacks /\ EndsAt(s2, s, m, b)
           /\ LET q == K2[Last(s).co]
              IN  /\ q.hasNative = IF Last(s).byCall THEN r.hasNative ELSE Last(s).saved
                  /\ \/ Left(q, r)
                     \/ b /\ ~ Last(s).byCall /\ Good(q) /\ q.alive /\ SameCalls(q, r)
           => Chain(s2, K2)
  BY <1>1, <1>2, NativeEnds
<1>5. m \in Nat /\ m # 0 /\ Len(s) # 1
  <2>1. \A n \in Nat \ {0} : n - 1 \in 1..n - 1 => n - 1 \in Nat /\ n - 1 # 0 /\ n # 1
    OBVIOUS
  <2> QED BY <1>1, <1>4, <2>1
<1> QED BY <1>1, <1>3, <1>4, <1>5 DEF s, r, a

(* The same when the stack has lost its top.                               *)
LEMMA FrontOn ==
  ASSUME NEW s \in Stacks, s # <<>>, \A j \in 1..Len(s) - 1 : ~ s[j].failing,
         Len(s) # 1, s[Len(s) - 1].co = Last(s).co
  PROVE  \A d : On(Front(s), d) <=> On(s, d)
<1> DEFINE n == Len(s)
           m == n - 1
           f == Front(s)
<1>1. /\ f \in Stacks /\ Len(f) = m /\ m \in Nat /\ (\A i \in 1..m : f[i] = s[i])
  BY FrontIs
<1>2. n \in Nat \ {0} /\ Last(s) = s[n] /\ n # 1 /\ s[m].co = s[n].co
  BY LastFront DEF Stacks
<1> HIDE DEF f, n
<1>3. \A i \in 1..n : i \in 1..m \/ i = n
  BY <1>2
<1>4. \A i \in 1..m : i \in 1..n
  BY <1>2
<1>5. m \in 1..m
  BY <1>2
<1> QED BY <1>1, <1>2, <1>3, <1>4, <1>5 DEF On, n, f

(* A native function returns.                                               *)
LEMMA NativeReturnStep ==
  ASSUME CoroInv, NEW t \in Thread, NativeReturn(t)
  PROVE  CoroInv' /\ ArgumentsStep
<1> DEFINE s == cstack[t]
           r == Current(t)
           a == Active(t)
           m == Len(s) - 1
           f == Front(s)
<1>1. /\ Native(t) /\ cstack' = [cstack EXCEPT ![t] = f] /\ UNCHANGED <<start, except>>
      /\ \E v \in Arg : SetCoro(t, IF a.byCall THEN PopFrame(r)
                                   ELSE Push([LeaveFrame(r) EXCEPT !.hasNative = a.saved], v))
  BY DEF NativeReturn, SetCoro, Current
<1>2. s # <<>> /\ a.native /\ NoneFailing
  BY <1>1 DEF Native
<1>3. /\ a = Last(s) /\ a \in Activation /\ s \in Stacks /\ Good(r) /\ r.alive /\ r.frames # <<>>
      /\ m \in Nat /\ m # 0 /\ Len(s) # 1 /\ s[m].co = Last(s).co
      /\ \A j \in 1..m : ~ s[j].failing
      /\ \A K2, b, s2 :
           /\ Others(s, co, K2) /\ b \in BOOLEAN /\ s2 \in Stacks /\ EndsAt(s2, s, m, b)
           /\ LET q == K2[a.co]
              IN  /\ q.hasNative = IF a.byCall THEN r.hasNative ELSE a.saved
                  /\ \/ Left(q, r)
                     \/ b /\ ~ a.byCall /\ Good(q) /\ q.alive /\ SameCalls(q, r)
           => Chain(s2, K2)
  BY <1>2, NativeFacts
<1>4. PICK q : SetCoro(t, q) /\ Left(q, r) /\ q.hasNative = IF a.byCall THEN r.hasNative ELSE a.saved
  <2>1. PICK v \in Arg : SetCoro(t, IF a.byCall THEN PopFrame(r)
                                    ELSE Push([LeaveFrame(r) EXCEPT !.hasNative = a.saved], v))
    BY <1>1
  <2>2. CASE a.byCall
    <3>1. SetCoro(t, PopFrame(r))
      BY <2>1, <2>2
    <3>2. LET q == PopFrame(r) IN Left(q, r) /\ q.hasNative = r.hasNative
      BY <1>3, PopFrameGood DEF Left, Alike
    <3> QED BY <2>2, <3>1, <3>2
  <2>3. CASE ~ a.byCall
    <3> DEFINE p == LeaveFrame(r)
               o == [p EXCEPT !.hasNative = a.saved]
    <3>1. SetCoro(t, Push(o, v)) /\ v \in Values
      BY <2>1, <2>3 DEF Arg, Values
    <3>2. Left(p, r) /\ Good(p)
      BY <1>3, LeftIs
    <3>3. a.saved \in BOOLEAN
      BY <1>3 DEF Activation
    <3> HIDE DEF p
    <3>4. Good(o) /\ SameCalls(o, p) /\ o.alive = p.alive /\ o.hasNative = a.saved
      BY <3>2, <3>3, SetNative
    <3> HIDE DEF o
    <3>5. Left(o, r)
      BY <3>2, <3>4 DEF Left, SameCalls
    <3>6. LET q == Push(o, v) IN Left(q, r) /\ q.hasNative = o.hasNative
      BY <3>1, <3>5, LeftAndPushed
    <3> QED BY <2>3, <3>1, <3>4, <3>6
  <2> QED BY <2>2, <2>3
<1>5. co'[Active(t).co] = q /\ Others(s, co, co')
  BY <1>2, <1>4, SetCoroIs
<1>6. /\ f \in Stacks /\ ~ FailsAt(f) /\ \E b \in BOOLEAN : ~ b /\ EndsAt(f, s, m, b)
  BY <1>2, <1>3, FrontIs
<1>7. \A d : On(f, d) <=> On(s, d)
  BY <1>2, <1>3, FrontOn
<1>8. Chain(f, co')
  <2>1. PICK b \in BOOLEAN : EndsAt(f, s, m, b)
    BY <1>6
  <2> HIDE DEF f, s, r
  <2> QED BY <1>3, <1>4, <1>5, <1>6, <2>1
<1>9. Good(q) /\ Bound(q, r)
  <2>1. Good(q)
    BY <1>4 DEF Left
  <2>2. Len(q.frames) \in Nat /\ Len(r.frames) \in Nat
    BY <1>3, <2>1, CoroFields DEF Good
  <2> QED BY <1>4, <2>1, <2>2 DEF Bound, Left, Depth
<1>10. except' \in Values \cup {Nil} /\ ("fault" \notin Quirks /\ except' # Nil => FALSE)
  BY <1>1, <1>2, NoException DEF CoroInv, Types
<1> QED BY <1>1, <1>2, <1>4, <1>6, <1>7, <1>8, <1>9, <1>10, OwnMove

(* A native function raises an exception.                                   *)
LEMMA NativeFailStep ==
  ASSUME CoroInv, NEW t \in Thread, NativeFail(t)
  PROVE  CoroInv' /\ ArgumentsStep
<1> DEFINE r == Current(t)
<1>1. /\ Native(t) /\ except' = Exc /\ UNCHANGED <<co, start>>
      /\ cstack' = [cstack EXCEPT ![t] = Append(Front(@), [Active(t) EXCEPT !.failing = TRUE])]
  BY DEF NativeFail
<1>2. cstack[t] # <<>> /\ NoneFailing
  BY <1>1 DEF Native
<1>3. Good(r) /\ Alike(r, r) /\ SameCalls(r, r)
  BY <1>2, ActiveFacts DEF Alike, SameCalls
<1>4. SetCoro(t, r)
  BY <1>1 DEF SetCoro, Current, CoroInv, Types
<1>5. PICK b \in BOOLEAN : b /\ cstack' = [cstack EXCEPT ![t] = Marked(cstack[t], b)]
  BY <1>1, Zenon DEF Marked, Active
<1>6. except' \in Values \cup {Nil} /\ except' # Nil /\ start' = start
  BY <1>1, ValuesAreNotNil
<1> HIDE DEF r
<1> QED BY <1>2, <1>3, <1>4, <1>5, <1>6, MarkSame DEF r

(* An exception leaves a native function.                                   *)
LEMMA NativeUnwindStep ==
  ASSUME CoroInv, NEW t \in Thread, NativeUnwind(t)
  PROVE  CoroInv' /\ ArgumentsStep
<1> DEFINE s == cstack[t]
           r == Current(t)
           a == Active(t)
           m == Len(s) - 1
           f == Front(s)
           q == IF a.byCall THEN PopFrame(r) ELSE Restore(r, a)
<1>1. /\ s # <<>> /\ a.native /\ a.failing /\ SetCoro(t, q) /\ UNCHANGED <<start, except>>
      /\ cstack' = [cstack EXCEPT ![t] = Append(Front(f), [Last(f) EXCEPT !.failing = TRUE])]
  BY DEF NativeUnwind
<1>2. PICK b \in BOOLEAN : b /\ cstack' = [cstack EXCEPT ![t] = Marked(f, b)]
  BY <1>1, Zenon DEF Marked
<1>3. /\ a = Last(s) /\ a \in Activation /\ s \in Stacks /\ Good(r) /\ r.alive /\ r.frames # <<>>
      /\ m \in Nat /\ m # 0 /\ Len(s) # 1 /\ s[m].co = Last(s).co
      /\ \A j \in 1..m : ~ s[j].failing
      /\ \A K2, b2, s2 :
           /\ Others(s, co, K2) /\ b2 \in BOOLEAN /\ s2 \in Stacks /\ EndsAt(s2, s, m, b2)
           /\ LET q2 == K2[a.co]
              IN  /\ q2.hasNative = IF a.byCall THEN r.hasNative ELSE a.saved
                  /\ \/ Left(q2, r)
                     \/ b2 /\ ~ a.byCall /\ Good(q2) /\ q2.alive /\ SameCalls(q2, r)
           => Chain(s2, K2)
  BY <1>1, NativeFacts
<1>4. /\ Good(q) /\ Bound(q, r)
      /\ q.hasNative = IF a.byCall THEN r.hasNative ELSE a.saved
      /\ Left(q, r) \/ (b /\ ~ a.byCall /\ Good(q) /\ q.alive /\ SameCalls(q, r))
  <2>1. CASE a.byCall
    <3> DEFINE p == PopFrame(r)
    <3>1. Left(p, r) /\ p.hasNative = r.hasNative /\ Good(p) /\ Len(p.frames) = Len(r.frames) - 1
      BY <1>3, PopFrameGood DEF Left, Alike
    <3> HIDE DEF p
    <3>2. Len(r.frames) \in Nat
      BY <1>3, CoroFields DEF Good
    <3>3. Bound(p, r)
      BY <3>1, <3>2 DEF Bound
    <3> QED BY <2>1, <3>1, <3>3 DEF p
  <2>2. CASE ~ a.byCall
    <3> DEFINE p == Restore(r, a)
    <3>1. a.saved \in BOOLEAN
      BY <1>3 DEF Activation
    <3>2. Good(p) /\ SameCalls(p, r) /\ p.alive = r.alive /\ p.hasNative = a.saved
      BY <1>3, <3>1, SetNative DEF Restore
    <3> HIDE DEF p
    <3>3. Bound(p, r)
      <4>1. Len(p.frames) \in Nat /\ Len(r.frames) \in Nat
        BY <1>3, <3>2, CoroFields DEF Good
      <4> QED BY <3>2, <4>1 DEF Bound, SameCalls, Depth
    <3> QED BY <1>2, <1>3, <2>2, <3>2, <3>3 DEF p
  <2> QED BY <2>1, <2>2
<1> HIDE DEF q
<1>5. co'[a.co] = q /\ Others(s, co, co')
  BY <1>1, SetCoroIs
<1> DEFINE s2 == Marked(f, b)
<1>6. /\ s2 \in Stacks /\ EndsAt(s2, s, m, b) /\ (FailsAt(s2) <=> b)
      /\ \A d : On(s2, d) <=> On(s, d)
  BY <1>1, <1>3, MarkedBelow
<1> HIDE DEF s2
<1>7. Chain(s2, co')
  BY <1>3, <1>4, <1>5, <1>6
<1>8. FailsAt(s) /\ except \in Values \cup {Nil} /\ except # Nil
  BY <1>1, <1>3 DEF FailsAt, CoroInv, OneException, Types
<1>9. cstack' = [cstack EXCEPT ![t] = s2] /\ FailsAt(s2) /\ start' = start /\ except' = except
  BY <1>1, <1>2, <1>6 DEF s2
<1> QED BY <1>1, <1>4, <1>6, <1>7, <1>8, <1>9, OwnMove DEF s, r

(* A native function calls back.                                            *)
LEMMA NativeCallStep ==
  ASSUME CoroInv, NEW t \in Thread, NativeCall(t)
  PROVE  CoroInv' /\ ArgumentsStep
<1> DEFINE r == Current(t)
           c == Active(t).co
           Begin(kind, args) ==
             LET s == Enter(r, kind, 0, 0, IF kind = "ink" /\ Len(args) = 2 THEN args ELSE <<>>)
             IN  CASE Len(args) = 0 -> Execute(s, Nil)
                   [] Len(args) = 1 -> Execute(s, args[1])
                   [] OTHER -> Execute(IF kind = "ink" THEN s ELSE PushAll(s, args), Nil)
           Called(kind, n, args) ==
             IF kind = "native"
             THEN /\ SetCoro(t, PushAll(Enter(r, kind, 0, 0, <<>>), args))
                  /\ cstack' = [cstack EXCEPT ![t] = Append(@, CFunction(c, FALSE, TRUE))]
             ELSE /\ n = 1 => /\ kind = "legacy" \/ "callback" \in Quirks
                              /\ r.spawned => r.param = "no" \/ "spawn" \in Quirks
                  /\ \E trap \in {FALSE} \cup {kind = "ink" /\ n = 0} :
                       cstack' = [cstack EXCEPT ![t] = Append(@, Loop(c, trap))]
                  /\ SetCoro(t, Begin(kind, args))
<1>a. /\ Native(t) /\ UNCHANGED <<start, except>>
      /\ \E kind \in Kind, n \in 0..2 : \E args \in [1..n -> Arg] : Called(kind, n, args)
  BY DEF NativeCall
<1> HIDE DEF Called
<1>b. PICK kind \in Kind, n \in 0..2 : \E args \in [1..n -> Arg] : Called(kind, n, args)
  BY <1>a
<1>c. PICK args \in [1..n -> Arg] : Called(kind, n, args)
  BY <1>b
<1>1. /\ kind \in Kind /\ n \in 0..2 /\ args \in [1..n -> Arg]
      /\ Native(t) /\ UNCHANGED <<start, except>>
      /\ IF kind = "native"
         THEN /\ SetCoro(t, PushAll(Enter(r, kind, 0, 0, <<>>), args))
              /\ cstack' = [cstack EXCEPT ![t] = Append(@, CFunction(c, FALSE, TRUE))]
         ELSE /\ n = 1 => kind = "legacy" \/ "callback" \in Quirks
              /\ \E trap \in {FALSE} \cup {kind = "ink" /\ n = 0} :
                   cstack' = [cstack EXCEPT ![t] = Append(@, Loop(c, trap))]
              /\ SetCoro(t, Begin(kind, args))
  BY <1>a, <1>c DEF Called
<1>2. cstack[t] # <<>> /\ NoneFailing /\ Active(t).native
  BY <1>1 DEF Native
<1>3. Good(r) /\ r.alive /\ r \in CoroSet /\ c \in Coro
  BY <1>2, ActiveFacts DEF Good
<1>4. args \in [1..n -> Values] /\ args \in ArgLists /\ Len(args) = n
  <2>1. args \in [1..n -> Values] /\ n \in Nat
    BY <1>1 DEF Arg, Values
  <2>2. args \in Seq(Values)
    BY <2>1, SeqDef
  <2>3. Len(args) = n
    BY <2>1, LenProperties, <2>2
  <2> QED BY <2>1, <2>2, <2>3 DEF ArgLists
<1> DEFINE taken == IF kind = "ink" /\ Len(args) = 2 THEN args ELSE <<>>
           p     == Enter(r, kind, 0, 0, taken)
<1>5. taken \in ArgLists /\ <<>> \in ArgLists
  BY <1>4 DEF ArgLists
<1> HIDE DEF taken
<1>6. /\ Good(p) /\ Alike(p, r) /\ Avail(p) = 0
      /\ Depth(p) = Depth(r) + 1
      /\ Natives(p) = Natives(r) \cup (IF kind = "native" THEN {Depth(r) + 1} ELSE {})
      /\ p.runtime.param = (kind = "ink")
  <2>1. PICK z \in Nat : z = 0 /\ z \in 0..2 /\ z + z <= Avail(r)
    BY <1>3, GoodFacts
  <2>2. LET q == Enter(r, kind, z, z, taken)
        IN  /\ Good(q) /\ Alike(q, r) /\ Avail(q) = z
            /\ Depth(q) = Depth(r) + 1
            /\ Natives(q) = Natives(r) \cup (IF kind = "native" THEN {Depth(r) + 1} ELSE {})
            /\ q.runtime.param = (kind = "ink")
    <3>1. kind \in Kind
      OBVIOUS
    <3> QED BY <1>3, <1>5, <2>1, <3>1, EnterGood
  <2> DEFINE x == Enter(r, kind, z, z, taken)
  <2>3. p = x
    BY <2>1
  <2> HIDE DEF x, p
  <2>4. /\ Good(x) /\ Alike(x, r) /\ Avail(x) = z
        /\ Depth(x) = Depth(r) + 1
        /\ Natives(x) = Natives(r) \cup (IF kind = "native" THEN {Depth(r) + 1} ELSE {})
        /\ x.runtime.param = (kind = "ink")
    BY <2>2 DEF x
  <2> QED BY <2>1, <2>3, <2>4
<1> HIDE DEF p
<1>7. CASE kind = "native"
  <2> DEFINE q == PushAll(p, args)
             a == CFunction(c, FALSE, TRUE)
  <2>1. taken = <<>>
    BY <1>7 DEF taken
  <2>2. SetCoro(t, q) /\ cstack' = [cstack EXCEPT ![t] = Append(cstack[t], a)]
    BY <1>1, <1>7, <2>1 DEF p
  <2>3. Good(q) /\ Alike(q, p) /\ SameCalls(q, p) /\ q.runtime.param = p.runtime.param
    BY <1>1, <1>4, <1>6, PushAllGood
  <2>4. a \in Activation /\ a.co = c /\ ~ a.failing /\ a.native /\ a.byCall
    BY <1>3 DEF CFunction, Loop, Activation
  <2> HIDE DEF q, a
  <2>5. /\ q.alive /\ Depth(q) = Depth(r) + 1
        /\ Natives(q) = Natives(r) \cup (IF a.native THEN {Depth(q)} ELSE {})
    BY <1>3, <1>6, <1>7, <2>3, <2>4 DEF Alike, SameCalls
  <2>6. q.hasNative <=> r.hasNative \/ a.native
    <3>1. r.hasNative
      <4>1. /\ Chain(cstack[t], co) /\ r = co[Last(cstack[t]).co] /\ Last(cstack[t]).native
            /\ Last(cstack[t]) = cstack[t][Len(cstack[t])]
        BY <1>2, ActiveFacts
      <4>2. PICK h : Held(cstack[t], co, h)
        BY <4>1, ChainHeld
      <4>3. /\ r.hasNative <=> Natively(cstack[t], Len(cstack[t]), cstack[t][Len(cstack[t])].co)
            /\ Len(cstack[t]) \in 1..Len(cstack[t])
        BY <1>2, <4>1, <4>2, TopFacts
      <4> QED BY <4>1, <4>3 DEF Natively
    <3>2. q.hasNative = r.hasNative
      BY <1>6, <2>3 DEF Alike
    <3> QED BY <3>1, <3>2
  <2>7. Bound(q, r)
    <3>1. ~ q.runtime.param
      BY <1>6, <1>7, <2>3
    <3> QED BY <3>1 DEF Bound
  <2>8. UNCHANGED <<start, except>>
    BY <1>1
  <2> QED BY <1>2, <2>2, <2>3, <2>4, <2>5, <2>6, <2>7, <2>8, CallMove DEF r, c
<1>8. CASE kind # "native"
  <2>1. PICK a \in Activation :
          /\ a.co = c /\ ~ a.failing /\ ~ a.native
          /\ cstack' = [cstack EXCEPT ![t] = Append(cstack[t], a)]
    <3>1. PICK trap \in {FALSE} \cup {kind = "ink" /\ n = 0} :
            cstack' = [cstack EXCEPT ![t] = Append(cstack[t], Loop(c, trap))]
      BY <1>1, <1>8
    <3>2. trap \in BOOLEAN
      OBVIOUS
    <3>3. LET a == Loop(c, trap) IN a \in Activation /\ a.co = c /\ ~ a.failing /\ ~ a.native
      BY <1>3, <3>2 DEF Loop, Activation
    <3> QED BY <3>1, <3>3
  <2>2. PICK q : SetCoro(t, q) /\ Good(q) /\ Alike(q, p) /\ SameCalls(q, p) /\ Bound(q, r)
    <3> DEFINE begin == CASE Len(args) = 0 -> Execute(p, Nil)
                          [] Len(args) = 1 -> Execute(p, args[1])
                          [] OTHER -> Execute(IF kind = "ink" THEN p ELSE PushAll(p, args), Nil)
    <3>1. SetCoro(t, begin) /\ (n = 1 => kind = "legacy" \/ "callback" \in Quirks)
      BY <1>1, <1>8 DEF p, taken
    <3>2. CASE n = 0
      <4>1. begin = Execute(p, Nil)
        BY <1>4, <3>2
      <4>2. LET q == Execute(p, Nil)
            IN  Good(q) /\ Alike(q, p) /\ SameCalls(q, p) /\ Avail(q) = Avail(p)
        BY <1>6, ExecuteGood
      <4>3. Bound(Execute(p, Nil), r)
        BY <1>6, <4>2 DEF Bound
      <4> HIDE DEF begin
      <4> QED BY <3>1, <4>1, <4>2, <4>3
    <3>3. CASE n = 1
      <4>1. begin = Execute(p, args[1])
        BY <1>4, <3>3
      <4>2. args[1] \in Values \cup {Nil}
        BY <1>4, <3>3
      <4>3. LET q == Execute(p, args[1])
            IN  Good(q) /\ Alike(q, p) /\ SameCalls(q, p) /\ q.runtime.param = p.runtime.param
        BY <1>6, <4>2, ExecuteGood
      <4>4. Bound(Execute(p, args[1]), r)
        <5>1. "callback" \notin Quirks => ~ p.runtime.param
          BY <1>6, <3>1, <3>3
        <5> QED BY <4>3, <5>1 DEF Bound
      <4> HIDE DEF begin
      <4> QED BY <3>1, <4>1, <4>3, <4>4
    <3>4. CASE n = 2 /\ kind = "ink"
      <4>1. begin = Execute(p, Nil)
        BY <1>4, <3>4
      <4>2. LET q == Execute(p, Nil)
            IN  Good(q) /\ Alike(q, p) /\ SameCalls(q, p) /\ Avail(q) = Avail(p)
        BY <1>6, ExecuteGood
      <4>3. Bound(Execute(p, Nil), r)
        BY <1>6, <4>2 DEF Bound
      <4> HIDE DEF begin
      <4> QED BY <3>1, <4>1, <4>2, <4>3
    <3>5. CASE n = 2 /\ kind # "ink"
      <4> DEFINE o == PushAll(p, args)
      <4>1. begin = Execute(o, Nil)
        BY <1>4, <3>5
      <4>2. Good(o) /\ Alike(o, p) /\ SameCalls(o, p) /\ o.runtime.param = p.runtime.param
        BY <1>1, <1>4, <1>6, PushAllGood
      <4> HIDE DEF o
      <4>3. LET q == Execute(o, Nil)
            IN  Good(q) /\ Alike(q, o) /\ SameCalls(q, o) /\ q.runtime.param = o.runtime.param
        BY <4>2, ExecuteGood
      <4>4. LET q == Execute(o, Nil) IN Alike(q, p) /\ SameCalls(q, p)
        BY <4>2, <4>3, AlikeTwice
      <4>5. Bound(Execute(o, Nil), r)
        <5>1. ~ p.runtime.param
          BY <1>6, <3>5
        <5> QED BY <4>2, <4>3, <5>1 DEF Bound
      <4> HIDE DEF begin
      <4> QED BY <3>1, <4>1, <4>3, <4>4, <4>5
    <3> QED BY <1>1, <3>2, <3>3, <3>4, <3>5
  <2>3. q.alive /\ Depth(q) = Depth(r) + 1 /\ Natives(q) = Natives(r) \cup (IF a.native THEN {Depth(q)} ELSE {})
    BY <1>3, <1>6, <1>8, <2>1, <2>2 DEF Alike, SameCalls
  <2>4. q.hasNative <=> r.hasNative \/ a.native
    BY <1>6, <2>1, <2>2 DEF Alike
  <2>5. UNCHANGED <<start, except>>
    BY <1>1
  <2> QED BY <1>2, <2>1, <2>2, <2>3, <2>4, <2>5, CallMove DEF r, c
<1> QED BY <1>7, <1>8

(***************************************************************************)
(* Coroutines.                                                             *)
(***************************************************************************)

(* What is on a C stack is alive.                                          *)
LEMMA OnIsAlive ==
  ASSUME CoroInv, NEW t \in Thread, NEW d, On(cstack[t], d)
  PROVE  d \in Coro /\ Good(co[d]) /\ Lives(co[d]) /\ cstack[t] # <<>>
<1> DEFINE s == cstack[t]
<1>1. Chain(s, co)
  BY DEF CoroInv, Chains
<1>2. PICK h : Held(s, co, h)
  BY <1>1, ChainHeld
<1>3. PICK i \in 1..Len(s) : s[i].co = d
  BY DEF On
<1>4. CoroAt(s, co[d], h, i)
  BY <1>2, <1>3 DEF Held, Hosted
<1>5. Good(co[d]) /\ co[d].alive
  BY <1>4 DEF CoroAt
<1>6. d \in Coro
  BY <1>2, <1>3, StackTypes DEF Held
<1>7. co[d] # Nil
  BY <1>5, NilAssumption DEF Good
<1>8. s # <<>>
  <2>1. Len(<<>>) = 0 /\ 1..0 = {}
    OBVIOUS
  <2> QED BY <1>3, <2>1
<1> QED BY <1>5, <1>6, <1>7, <1>8 DEF Lives

(* A coroutine that may be resumed is on no C stack.                       *)
LEMMA ResumableIsOff ==
  ASSUME CoroInv, NEW d \in Coro, CanResume(co[d]), ~ OnStack(d)
  PROVE  /\ Good(co[d]) /\ Lives(co[d]) /\ co[d].alive /\ ~ co[d].spawned
         /\ Natives(co[d]) = {} /\ ~ co[d].hasNative
         /\ \A t \in Thread : ~ On(cstack[t], d)
<1>1. Lives(co[d]) /\ ~ co[d].spawned
  BY DEF CanResume, Lives
<1> QED BY <1>1, OnStackIs DEF CoroInv, Idle, Lives

(* FORK.                                                                    *)
LEMMA ForkStep ==
  ASSUME CoroInv, NEW t \in Thread, Fork(t)
  PROVE  CoroInv' /\ ArgumentsStep
<1> DEFINE r == Current(t)
           c == Active(t).co
           p == Drop(r, 1)
           q == Push(p, TopOf(r))
           s == cstack[t]
<1>1. /\ Ink(t) /\ Avail(r) >= 1
      /\ \/ Raised(t, p, Exc)
         \/ \E d \in Coro, param \in {"bind", "drop"} :
              /\ co[d] = Nil
              /\ co' = [co EXCEPT ![d] = Root(param), ![c] = Push(Drop(@, 1), TopOf(r))]
              /\ UNCHANGED <<cstack, start, except>>
  BY DEF Fork
<1>2. Good(r) /\ r.alive /\ NoneFailing /\ s # <<>> /\ ~ Last(s).failing
  BY <1>1, InkFacts
<1>3. Good(p) /\ Alike(p, r) /\ SameCalls(p, r) /\ TopOf(r) \in Values /\ Exc \in Values
  BY <1>1, <1>2, TakesOne, ValuesAreNotNil
<1>4. Good(q) /\ Alike(q, p) /\ SameCalls(q, p)
  <2> HIDE DEF p
  <2> QED BY <1>3, PushGood
<1>5. CASE Raised(t, p, Exc)
  <2> HIDE DEF p
  <2> QED BY <1>1, <1>3, <1>5, RaisedStep
<1>6. ASSUME NEW d \in Coro, NEW param \in {"bind", "drop"}, co[d] = Nil,
             co' = [co EXCEPT ![d] = Root(param), ![c] = Push(Drop(@, 1), TopOf(r))],
             UNCHANGED <<cstack, start, except>>
      PROVE  CoroInv' /\ ArgumentsStep
  <2>1. /\ Chain(s, co) /\ s \in Stacks /\ r = co[c] /\ Active(t) = Last(s) /\ Last(s) \in Activation
        /\ c \in Coro /\ On(s, c) /\ Lives(r) /\ Last(s) = s[Len(s)]
    BY <1>2, ActiveFacts
  <2>2. co \in [Coro -> CoroSet \cup {Nil}] /\ cstack \in [Thread -> Stacks]
        /\ start \in [Thread -> Coro \cup {Nil}] /\ except \in Values \cup {Nil}
    BY DEF CoroInv, Types
  <2>3. d # c
    BY <1>6, <2>1 DEF Lives
  <2>4. \A u \in Thread : ~ On(cstack[u], d)
    BY <1>6, OnIsAlive DEF Lives
  <2>5. Good(Root(param)) /\ Natives(Root(param)) = {} /\ ~ Root(param).hasNative
    BY RootGood
  <2>6. Alike(q, r) /\ SameCalls(q, r)
    <3> HIDE DEF p, q
    <3> QED BY <1>3, <1>4, AlikeTwice
  <2>7. co' = [[co EXCEPT ![d] = Root(param)] EXCEPT ![c] = q]
    <3>1. q = Push(Drop(r, 1), TopOf(r)) /\ r = co[c]
      BY <2>1
    <3> HIDE DEF c, p, q, r
    <3> QED BY <1>6, <2>1, <2>2, <2>3, <3>1
  <2>8. Bound(q, r)
    <3>1. Len(q.frames) \in Nat /\ Len(r.frames) \in Nat
      BY <1>2, <1>4, CoroFields DEF Good
    <3> QED BY <2>6, <3>1 DEF Bound, SameCalls, Depth
  <2> HIDE DEF p, q, r, c, s
  <2>9. co'[d] = Root(param) /\ co'[c] = q /\ \A e \in Coro : e # c /\ e # d => co'[e] = co[e]
    BY <2>1, <2>2, <2>3, <2>7
  <2>10. co' \in [Coro -> CoroSet \cup {Nil}]
    BY <1>4, <2>2, <2>5, <2>7 DEF Good
  <2>11. Last(s).co = c
    BY <2>1 DEF c
  <2>12. Others(s, co, co')
    <3>1. \A j \in 1..Len(s) : s[j].co \in Coro /\ s[j].co # d
      BY <2>1, <2>4, StackTypes DEF On, s
    <3> QED BY <2>9, <2>11, <3>1 DEF Others
  <2>13. Chain(s, co')
    <3>1. PICK b \in BOOLEAN : b = Last(s).failing /\ EndsAt(s, s, Len(s), b)
      BY <2>1 DEF EndsAt, Activation
    <3>2. Good(q) /\ q.alive /\ q.hasNative = r.hasNative
      BY <1>2, <1>4, <2>6 DEF Alike
    <3> QED BY <1>2, <2>1, <2>6, <2>9, <2>11, <2>12, <3>1, <3>2, SameCallsGoOn
  <2>14. cstack' = [cstack EXCEPT ![t] = s] /\ start' = start /\ except' = except
    BY <1>6, <2>2 DEF s
  <2>15. ~ OnStack(d)
    BY <2>4, OnStackIs
  <2>16. ~ FailsAt(s)
    BY <1>2 DEF FailsAt
  <2>17. "fault" \notin Quirks /\ except' # Nil => FALSE
    BY <1>2, <2>14, NoException
  <2>18. (Chains /\ Apart /\ Idle /\ OneException)'
    <3>1. \A e \in Coro : co'[e] # co[e] \/ On(s, e) => On(cstack[t], e) \/ ~ OnStack(e)
      BY <2>1, <2>9, <2>15 DEF s
    <3>2. \A e \in Coro : Lives(co'[e]) /\ co'[e] # co[e] => Good(co'[e])
      BY <1>4, <2>5, <2>9
    <3>3. \A e \in Coro : Lives(co'[e]) /\ ~ On(s, e) /\ (On(cstack[t], e) \/ co'[e] # co[e])
             => Natives(co'[e]) = {} /\ ~ co'[e].hasNative
      BY <2>1, <2>5, <2>9 DEF s
    <3> QED BY <1>2, <2>13, <2>14, <2>16, <2>17, <3>1, <3>2, <3>3, Moves
  <2>19. Starts'
    <3>1. \A e \in Coro : co'[e] # co[e] \/ On(s, e) => On(cstack[t], e) \/ ~ Lives(co[e]) \/ ~ co[e].spawned
      BY <1>6, <2>1, <2>9 DEF s, Lives
    <3> QED BY <1>2, <2>1, <2>14, <3>1, StartsKept DEF s
  <2>20. Types'
    BY <2>2, <2>10, <2>14, <1>6 DEF Types
  <2>21. ArgumentsStep
    <3>1. \A e \in Coro : co[e] # Nil => Bound(co[e], co[e])
      BY <2>2, CoroFields DEF Bound
    <3> QED BY <1>6, <2>1, <2>8, <2>9, <3>1 DEF ArgumentsStep
  <2> QED BY <2>18, <2>19, <2>20, <2>21 DEF CoroInv
<1> QED BY <1>1, <1>5, <1>6

(* The loop that resumes or starts a coroutine.                            *)
LEMMA LoopIs ==
  ASSUME NEW d \in Coro
  PROVE  LET a == Loop(d, TRUE)
         IN  a \in Activation /\ a.co = d /\ ~ a.native /\ a.trap /\ ~ a.failing
BY DEF Loop, Activation

(* A coroutine takes an argument, if it gets one, and runs.                *)
LEMMA Started ==
  ASSUME NEW r, Good(r), r.alive, Natives(r) = {}, ~ r.hasNative, NEW v \in Values \cup {Nil}
  PROVE  LET q == Execute(r, v)
         IN  /\ Good(q) /\ q.alive /\ Natives(q) = {} /\ ~ q.hasNative
             /\ Bound(q, r)
<1> DEFINE q == Execute(r, v)
<1>1. Good(q) /\ Alike(q, r) /\ SameCalls(q, r)
  BY ExecuteGood
<1> HIDE DEF q
<1>2. Len(q.frames) \in Nat /\ Len(r.frames) \in Nat
  BY <1>1, CoroFields DEF Good
<1>3. Bound(q, r)
  BY <1>1, <1>2 DEF Bound, SameCalls, Depth
<1> QED BY <1>1, <1>3 DEF q, Alike, SameCalls

(* RESUME.                                                                  *)
LEMMA ResumeStep ==
  ASSUME CoroInv, NEW t \in Thread, Resume(t), "reenter" \notin Quirks
  PROVE  CoroInv' /\ ArgumentsStep
<1> DEFINE r == Current(t)
           c == Active(t).co
           p == Drop(r, 1)
           s == cstack[t]
           Begin(d) == /\ co[d] # Nil /\ CanResume(co[d]) /\ ~ OnStack(d)
                       /\ co' = [co EXCEPT ![c] = p, ![d] = Execute(IF d = c THEN p ELSE @, TopOf(r))]
                       /\ cstack' = [cstack EXCEPT ![t] = Append(@, Loop(d, TRUE))]
                       /\ UNCHANGED <<start, except>>
<1>1. /\ Ink(t) /\ Avail(r) >= 2
      /\ Raised(t, p, Exc) \/ \E d \in Coro : Begin(d)
  <2>1. /\ Ink(t) /\ Avail(r) >= 2
        /\ \/ Raised(t, p, Exc)
           \/ \E d \in Coro :
                /\ co[d] # Nil
                /\ IF ~ CanResume(co[d]) THEN Raised(t, p, Exc)
                   ELSE /\ OnStack(d) /\ ~ co[d].active => "reenter" \in Quirks
                        /\ co' = [co EXCEPT ![c] = p, ![d] = Execute(IF d = c THEN p ELSE @, TopOf(r))]
                        /\ cstack' = [cstack EXCEPT ![t] = Append(@, Loop(d, TRUE))]
                        /\ UNCHANGED <<start, except>>
    BY Zenon DEF Resume, Resumable
  <2>2. \A d \in Coro : CanResume(co[d]) => ~ co[d].active
    BY DEF CanResume
  <2> HIDE DEF r, c, p
  <2> QED BY <2>1, <2>2
<1>2. Good(r) /\ r.alive /\ NoneFailing /\ s # <<>> /\ ~ Last(s).failing /\ ~ Last(s).native
  BY <1>1, InkFacts
<1>3. 1 \in 0..Avail(r) /\ Avail(r) >= 1
  BY <1>1, <1>2, GoodFacts
<1>4. /\ Good(p) /\ Alike(p, r) /\ SameCalls(p, r) /\ TopOf(r) \in Values /\ Exc \in Values
      /\ Avail(p) >= 1
  <2>1. Avail(p) = Avail(r) - 1
    BY <1>2, <1>3, TakesOne
  <2>2. Avail(r) \in Nat
    BY <1>2, GoodFacts
  <2> HIDE DEF p
  <2>3. Avail(p) >= 1
    BY <1>1, <2>1, <2>2
  <2> QED BY <1>2, <1>3, <2>3, TakesOne, ValuesAreNotNil DEF p
<1>5. CASE Raised(t, p, Exc)
  <2> HIDE DEF p
  <2> QED BY <1>1, <1>4, <1>5, RaisedStep
<1>6. ASSUME NEW d \in Coro, Begin(d)
      PROVE  CoroInv' /\ ArgumentsStep
  <2> DEFINE q == Execute(co[d], TopOf(r))
             a == Loop(d, TRUE)
             s2 == Append(s, a)
             K == [co EXCEPT ![c] = p]
  <2>1. /\ Chain(s, co) /\ s \in Stacks /\ r = co[c] /\ Active(t) = Last(s) /\ Last(s) \in Activation
        /\ c \in Coro /\ On(s, c) /\ Lives(r) /\ Last(s) = s[Len(s)]
    BY <1>2, ActiveFacts
  <2>2. co \in [Coro -> CoroSet \cup {Nil}] /\ cstack \in [Thread -> Stacks]
        /\ start \in [Thread -> Coro \cup {Nil}] /\ except \in Values \cup {Nil}
    BY DEF CoroInv, Types
  <2>3. /\ Good(co[d]) /\ Lives(co[d]) /\ co[d].alive /\ ~ co[d].spawned
        /\ Natives(co[d]) = {} /\ ~ co[d].hasNative /\ ~ OnStack(d)
        /\ \A u \in Thread : ~ On(cstack[u], d)
    BY <1>6, ResumableIsOff
  <2>4. d # c /\ ~ On(s, d)
    BY <2>1, <2>3
  <2>5. Good(q) /\ q.alive /\ Natives(q) = {} /\ ~ q.hasNative /\ Bound(q, co[d])
    <3> HIDE DEF r
    <3> QED BY <1>4, <2>3, Started
  <2>6. co' = [[co EXCEPT ![c] = p] EXCEPT ![d] = q]
    <3> HIDE DEF c, p, r
    <3> QED BY <1>6, <2>1, <2>2, <2>4
  <2>7. Bound(p, r)
    <3>1. Len(p.frames) \in Nat /\ Len(r.frames) \in Nat
      BY <1>2, <1>4, CoroFields DEF Good
    <3> QED BY <1>4, <3>1 DEF Bound, SameCalls, Depth
  <2>8. a \in Activation /\ a.co = d /\ ~ a.native /\ a.trap /\ ~ a.failing
    BY LoopIs
  <2>9. cstack' = [cstack EXCEPT ![t] = s2] /\ start' = start /\ except' = except
    BY <1>6
  <2> HIDE DEF p, q, r, c, s, a
  <2>10. co'[d] = q /\ co'[c] = p /\ \A e \in Coro : e # c /\ e # d => co'[e] = co[e]
    BY <2>1, <2>2, <2>4, <2>6
  <2>11. K[c] = p /\ \A e \in Coro : e # c => K[e] = co[e]
    BY <2>1, <2>2
  <2> HIDE DEF K
  <2>12. co' \in [Coro -> CoroSet \cup {Nil}]
    BY <1>4, <2>2, <2>5, <2>6 DEF Good
  <2>13. Last(s).co = c
    BY <2>1 DEF c
  <2>14. Chain(s, K)
    <3>1. PICK b \in BOOLEAN : b = Last(s).failing /\ EndsAt(s, s, Len(s), b)
      BY <2>1 DEF EndsAt, Activation
    <3>2. Good(p) /\ p.alive /\ p.hasNative = r.hasNative
      BY <1>2, <1>4 DEF Alike
    <3>3. Others(s, co, K)
      BY <2>1, <2>11, <2>13, StackTypes DEF Others
    <3> QED BY <1>2, <1>4, <2>1, <2>11, <2>13, <3>1, <3>2, <3>3, SameCallsGoOn
  <2>15. PICK h : Held(s, K, h)
    BY <2>14, ChainHeld
  <2>16. s2 \in Stacks /\ Chain(s2, co')
    <3>1. \A j \in 1..Len(s) : co'[s[j].co] = K[s[j].co]
      BY <2>1, <2>4, <2>10, <2>11, StackTypes DEF On
    <3>2. s # <<>> => /\ ~ s[Len(s)].native /\ ~ s[Len(s)].failing /\ Avail(K[s[Len(s)].co]) >= 1
      BY <1>2, <1>4, <2>1, <2>11, <2>13
    <3>3. ShapeOK(s) /\ Hosted(s, K, h) /\ h \in [1..Len(s) -> Nat]
      BY <2>15 DEF Held
    <3>4. Chain(Append(s, a), co')
      BY <2>1, <2>4, <2>5, <2>8, <2>10, <3>1, <3>2, <3>3, Begun
    <3> QED BY <2>1, <2>8, <3>4, OneMore
  <2>17. (\A e : On(s2, e) <=> On(s, e) \/ e = d) /\ ~ FailsAt(s2)
    BY <2>1, <2>8, AppendedOn
  <2> HIDE DEF s2
  <2>18. "fault" \notin Quirks /\ except' # Nil => FALSE
    BY <1>2, <2>9, NoException
  <2>19. (Chains /\ Apart /\ Idle /\ OneException)'
    <3>1. \A e \in Coro : co'[e] # co[e] \/ On(s2, e) => On(cstack[t], e) \/ ~ OnStack(e)
      BY <2>1, <2>3, <2>10, <2>17 DEF s
    <3>2. \A e \in Coro : Lives(co'[e]) /\ co'[e] # co[e] => Good(co'[e])
      BY <1>4, <2>5, <2>10
    <3>3. \A e \in Coro : Lives(co'[e]) /\ ~ On(s2, e) /\ (On(cstack[t], e) \/ co'[e] # co[e])
             => Natives(co'[e]) = {} /\ ~ co'[e].hasNative
      BY <2>1, <2>10, <2>17 DEF s
    <3> QED BY <1>2, <2>9, <2>16, <2>17, <2>18, <3>1, <3>2, <3>3, Moves
  <2>20. Starts'
    <3>1. \A e \in Coro : co'[e] # co[e] \/ On(s2, e) => On(cstack[t], e) \/ ~ Lives(co[e]) \/ ~ co[e].spawned
      BY <2>1, <2>3, <2>10, <2>17 DEF s
    <3> QED BY <1>2, <2>9, <2>16, <3>1, StartsKept DEF s
  <2>21. Types'
    BY <2>2, <2>9, <2>12, <2>16 DEF Types
  <2>22. ArgumentsStep
    <3>1. \A e \in Coro : co[e] # Nil => Bound(co[e], co[e])
      BY <2>2, CoroFields DEF Bound
    <3> QED BY <2>1, <2>5, <2>7, <2>10, <3>1 DEF ArgumentsStep
  <2> QED BY <2>19, <2>20, <2>21, <2>22 DEF CoroInv
<1> QED BY <1>1, <1>5, <1>6

(* A coroutine that is handed to a thread, with or without an argument.    *)
LEMMA Handed ==
  ASSUME NEW r, Good(r), r.alive, Natives(r) = {}, ~ r.hasNative, NEW v \in Values \cup {Nil}
  PROVE  LET q == [IF v = Nil THEN r ELSE Push(r, v) EXCEPT !.spawned = TRUE]
         IN  /\ Good(q) /\ q.alive /\ Natives(q) = {} /\ ~ q.hasNative /\ q.spawned
             /\ Bound(q, r)
<1> DEFINE p == IF v = Nil THEN r ELSE Push(r, v)
           q == [p EXCEPT !.spawned = TRUE]
<1>1. Good(p) /\ Alike(p, r) /\ SameCalls(p, r)
  <2>1. CASE v = Nil
    BY <2>1 DEF Alike, SameCalls
  <2>2. CASE v # Nil
    <3>1. v \in Values
      BY <2>2
    <3> QED BY <2>2, <3>1, PushGood
  <2> QED BY <2>1, <2>2
<1> HIDE DEF p
<1>2. PICK b \in BOOLEAN : b /\ q = [p EXCEPT !.spawned = b]
  OBVIOUS
<1>3. Good(q) /\ SameCalls(q, p) /\ q.alive = p.alive /\ q.hasNative = p.hasNative /\ q.spawned
  BY <1>1, <1>2, SetSpawned
<1> HIDE DEF q
<1>4. Len(q.frames) \in Nat /\ Len(r.frames) \in Nat
  BY <1>3, CoroFields DEF Good
<1>5. SameCalls(q, r)
  BY <1>1, <1>3 DEF SameCalls
<1>6. Bound(q, r)
  BY <1>4, <1>5 DEF Bound, SameCalls, Depth
<1> QED BY <1>1, <1>3, <1>5, <1>6 DEF q, p, Alike, SameCalls

(* A coroutine is given to a thread.                                        *)
LEMMA SpawnStep ==
  ASSUME CoroInv, NEW t \in Thread, Spawn(t), "reenter" \notin Quirks
  PROVE  CoroInv' /\ ArgumentsStep
<1> DEFINE Q(d, arg) == [IF arg = Nil THEN co[d] ELSE Push(co[d], arg) EXCEPT !.spawned = TRUE]
<1>1. PICK d \in Coro, u \in Thread \ {MainThread}, arg \in Arg \cup {Nil} :
        /\ CanResume(co[d]) /\ cstack[u] = <<>> /\ start[u] = Nil
        /\ OnStack(d) /\ ~ co[d].active => "reenter" \in Quirks
        /\ co' = [co EXCEPT ![d] = Q(d, arg)]
        /\ start' = [start EXCEPT ![u] = d]
  BY Zenon DEF Spawn
<1>2. NoneFailing /\ cstack' = cstack /\ except' = except /\ cstack[t] # <<>>
  BY DEF Spawn, Native
<1> DEFINE q == Q(d, arg)
<1>3. /\ Good(co[d]) /\ Lives(co[d]) /\ co[d].alive /\ ~ co[d].spawned
      /\ Natives(co[d]) = {} /\ ~ co[d].hasNative /\ ~ OnStack(d)
      /\ \A v \in Thread : ~ On(cstack[v], d)
  <2>1. ~ OnStack(d)
    BY <1>1 DEF CanResume
  <2> QED BY <1>1, <2>1, ResumableIsOff
<1>4. Good(q) /\ q.alive /\ Natives(q) = {} /\ ~ q.hasNative /\ q.spawned /\ Bound(q, co[d])
  <2>1. arg \in Values \cup {Nil}
    BY DEF Arg, Values
  <2> QED BY <1>3, <2>1, Handed
<1>5. co \in [Coro -> CoroSet \cup {Nil}] /\ cstack \in [Thread -> Stacks]
      /\ start \in [Thread -> Coro \cup {Nil}] /\ except \in Values \cup {Nil}
  BY DEF CoroInv, Types
<1> HIDE DEF q
<1>6. co' = [co EXCEPT ![d] = q]
  BY <1>1 DEF q
<1>7. co'[d] = q /\ \A e \in Coro : e # d => co'[e] = co[e]
  BY <1>5, <1>6
<1>8. co' \in [Coro -> CoroSet \cup {Nil}]
  BY <1>4, <1>5, <1>6 DEF Good
<1>9. cstack' = [cstack EXCEPT ![t] = cstack[t]]
  BY <1>2, <1>5
<1>10. Chain(cstack[t], co) /\ cstack[t] \in Stacks
  BY DEF CoroInv, Chains, Chain
<1>11. Chain(cstack[t], co')
  <2>1. \A j \in 1..Len(cstack[t]) : co'[cstack[t][j].co] = co[cstack[t][j].co]
    BY <1>3, <1>7, <1>10, StackTypes DEF On
  <2> QED BY <1>10, <2>1, SameChain
<1>12. ~ FailsAt(cstack[t])
  BY <1>2 DEF FailsAt, NoneFailing, Active
<1>13. "fault" \notin Quirks /\ except' # Nil => FALSE
  BY <1>2, NoException
<1>14. (Chains /\ Apart /\ Idle /\ OneException)'
  <2>1. \A e \in Coro : co'[e] # co[e] \/ On(cstack[t], e) => On(cstack[t], e) \/ ~ OnStack(e)
    BY <1>3, <1>7
  <2>2. \A e \in Coro : Lives(co'[e]) /\ co'[e] # co[e] => Good(co'[e])
    BY <1>4, <1>7
  <2>3. \A e \in Coro : Lives(co'[e]) /\ ~ On(cstack[t], e) /\ (On(cstack[t], e) \/ co'[e] # co[e])
           => Natives(co'[e]) = {} /\ ~ co'[e].hasNative
    BY <1>4, <1>7
  <2> QED BY <1>2, <1>9, <1>11, <1>12, <1>13, <2>1, <2>2, <2>3, Moves
<1>15. start'[u] = d /\ \A v \in Thread : v # u => start'[v] = start[v]
  BY <1>1, <1>5
<1>16. Starts'
  <2> DEFINE Free(e) == ~ \E w \in Thread : \E i \in DOMAIN cstack'[w] : cstack'[w][i].co = e
  <2>1. \A v \in Thread : start[v] # Nil => /\ Lives(co[start[v]]) /\ co[start[v]].spawned
           /\ ~ OnStack(start[v]) /\ cstack[v] = <<>> /\ start[v] \in Coro
           /\ \A w \in Thread : start[w] = start[v] => w = v
    BY <1>5 DEF CoroInv, Starts
  <2>2. \A v \in Thread : start[v] # d
    BY <1>3, <2>1, CoroAssumption
  <2>3. Lives(q) /\ d # Nil
    <3>1. q \in CoroSet
      BY <1>4 DEF Good
    <3> QED BY <1>4, <3>1, NilAssumption, CoroAssumption DEF Lives
  <2>4. \A e : Free(e) <=> ~ OnStack(e)
    BY <1>2 DEF OnStack
  <2> HIDE DEF Free
  <2>5. ASSUME NEW v \in Thread, start'[v] # Nil
        PROVE  /\ Lives(co'[start'[v]]) /\ co'[start'[v]].spawned /\ Free(start'[v])
               /\ cstack'[v] = <<>>
               /\ \A w \in Thread : start'[w] = start'[v] => w = v
    <3>1. CASE v = u
      <4>1. start'[v] = d /\ co'[d] = q /\ q.spawned /\ cstack'[v] = <<>>
        BY <1>1, <1>2, <1>4, <1>7, <1>15, <3>1
      <4>2. Free(d)
        BY <1>3, <2>4
      <4>3. \A w \in Thread : start'[w] = d => w = v
        BY <1>15, <2>2, <3>1
      <4> QED BY <2>3, <4>1, <4>2, <4>3
    <3>2. CASE v # u
      BY <1>2, <1>7, <1>15, <2>1, <2>2, <2>4, <2>5, <3>2
    <3> QED BY <3>1, <3>2
  <2>6. \A v \in Thread : start'[v] # Nil =>
           /\ Lives(co'[start'[v]]) /\ co'[start'[v]].spawned /\ Free(start'[v])
           /\ cstack'[v] = <<>>
           /\ \A w \in Thread : start'[w] = start'[v] => w = v
    BY <2>5
  <2> QED BY <2>6, Zenon DEF Starts, Lives, OnStack, Free
<1>17. Types'
  BY <1>1, <1>2, <1>5, <1>8 DEF Types
<1>18. ArgumentsStep
  <2>1. \A e \in Coro : co[e] # Nil => Bound(co[e], co[e])
    BY <1>5, CoroFields DEF Bound
  <2> QED BY <1>4, <1>7, <2>1 DEF ArgumentsStep
<1> QED BY <1>14, <1>16, <1>17, <1>18 DEF CoroInv

(* A C stack with one loop.                                                *)
LEMMA OneLoop ==
  ASSUME NEW d \in Coro, NEW K, Good(K[d]), K[d].alive, Natives(K[d]) = {}, ~ K[d].hasNative
  PROVE  LET s == <<Loop(d, TRUE)>>
         IN  Chain(s, K) /\ s \in Stacks /\ (\A e : On(s, e) <=> e = d) /\ ~ FailsAt(s)
<1> DEFINE a == Loop(d, TRUE)
<1>1. a \in Activation /\ a.co = d /\ ~ a.native /\ a.trap /\ ~ a.failing
  BY LoopIs
<1>2. PICK h : Held(<<>>, K, h)
  BY NoChain, ChainHeld
<1>3. <<>> \in Stacks /\ Len(<<>>) = 0 /\ 1..0 = {} /\ Append(<<>>, a) = <<a>>
  BY DEF Stacks
<1>4. PICK z : z = <<>>
  OBVIOUS
<1> HIDE DEF a
<1>5. /\ z \in Stacks /\ 1..Len(z) = {} /\ Append(z, a) = <<a>>
      /\ ShapeOK(z) /\ Hosted(z, K, h) /\ h \in [1..Len(z) -> Nat]
  BY <1>2, <1>3, <1>4 DEF Held
<1>6. ~ On(z, d) /\ (\A e : ~ On(z, e)) /\ \A j \in 1..Len(z) : K[z[j].co] = K[z[j].co]
  BY <1>5 DEF On
<1>7. Chain(Append(z, a), K)
  BY <1>1, <1>4, <1>5, <1>6, Begun
<1>8. Append(z, a) \in Stacks /\ (\A e : On(Append(z, a), e) <=> e = d) /\ ~ FailsAt(Append(z, a))
  BY <1>1, <1>5, <1>6, OneMore, AppendedOn
<1> QED BY <1>5, <1>7, <1>8 DEF a

(* The thread starts to run it.                                             *)
LEMMA ThreadStartStep ==
  ASSUME CoroInv, NEW u \in Thread, ThreadStart(u)
  PROVE  CoroInv' /\ ArgumentsStep
<1> DEFINE d  == start[u]
           q  == Execute(co[d], Nil)
           s2 == <<Loop(d, TRUE)>>
<1>1. /\ d # Nil /\ NoneFailing
      /\ co' = [co EXCEPT ![d] = q]
      /\ cstack' = [cstack EXCEPT ![u] = s2]
      /\ start' = [start EXCEPT ![u] = Nil]
      /\ except' = except
  BY DEF ThreadStart
<1>2. co \in [Coro -> CoroSet \cup {Nil}] /\ cstack \in [Thread -> Stacks]
      /\ start \in [Thread -> Coro \cup {Nil}] /\ except \in Values \cup {Nil}
  BY DEF CoroInv, Types
<1>3. \A v \in Thread : start[v] # Nil => /\ Lives(co[start[v]]) /\ co[start[v]].spawned
         /\ ~ OnStack(start[v]) /\ cstack[v] = <<>> /\ start[v] \in Coro
         /\ \A w \in Thread : start[w] = start[v] => w = v
  BY <1>2 DEF CoroInv, Starts
<1>4. /\ d \in Coro /\ Good(co[d]) /\ co[d].alive /\ co[d].spawned /\ ~ OnStack(d)
      /\ Natives(co[d]) = {} /\ ~ co[d].hasNative /\ cstack[u] = <<>>
      /\ \A v \in Thread : ~ On(cstack[v], d)
  BY <1>1, <1>3, OnStackIs DEF CoroInv, Idle, Lives
<1>5. Good(q) /\ q.alive /\ Natives(q) = {} /\ ~ q.hasNative /\ Bound(q, co[d])
  BY <1>4, Started
<1> HIDE DEF q, s2, d
<1>6. co'[d] = q /\ \A e \in Coro : e # d => co'[e] = co[e]
  BY <1>1, <1>2, <1>4
<1>7. co' \in [Coro -> CoroSet \cup {Nil}]
  BY <1>1, <1>2, <1>5 DEF Good
<1>8. Chain(s2, co') /\ s2 \in Stacks /\ (\A e : On(s2, e) <=> e = d) /\ ~ FailsAt(s2)
  BY <1>4, <1>5, <1>6, OneLoop DEF s2
<1>9. "fault" \notin Quirks /\ except' # Nil => FALSE
  BY <1>1, NoException
<1>10. (Chains /\ Apart /\ Idle /\ OneException)'
  <2>1. \A e \in Coro : co'[e] # co[e] \/ On(s2, e) => On(cstack[u], e) \/ ~ OnStack(e)
    BY <1>4, <1>6, <1>8
  <2>2. \A e \in Coro : Lives(co'[e]) /\ co'[e] # co[e] => Good(co'[e])
    BY <1>5, <1>6
  <2>3. \A e : ~ On(<<>>, e)
    <3>1. Len(<<>>) = 0 /\ 1..0 = {}
      OBVIOUS
    <3> QED BY <3>1 DEF On
  <2>4. \A e \in Coro : Lives(co'[e]) /\ ~ On(s2, e) /\ (On(cstack[u], e) \/ co'[e] # co[e])
           => Natives(co'[e]) = {} /\ ~ co'[e].hasNative
    BY <1>4, <1>5, <1>6, <2>3
  <2> QED BY <1>1, <1>8, <1>9, <2>1, <2>2, <2>4, Moves
<1>11. /\ start'[u] = Nil /\ (\A v \in Thread : v # u => start'[v] = start[v])
       /\ cstack'[u] = s2 /\ \A v \in Thread : v # u => cstack'[v] = cstack[v]
  BY <1>1, <1>2
<1>12. Starts'
  <2> DEFINE Free(e) == ~ \E w \in Thread : \E i \in DOMAIN cstack'[w] : cstack'[w][i].co = e
  <2>1. \A v \in Thread : v # u => start[v] # d
    BY <1>1, <1>3 DEF d
  <2>2. ASSUME NEW e, ~ OnStack(e), e # d
        PROVE  Free(e)
    <3>1. \A v \in Thread : ~ On(cstack[v], e)
      BY <2>2, OnStackIs
    <3>2. \A v \in Thread : ~ On(cstack'[v], e)
      BY <1>8, <1>11, <2>2, <3>1
    <3>3. \A v \in Thread : DOMAIN cstack'[v] = 1..Len(cstack'[v])
      BY <1>2, <1>8, <1>11 DEF Stacks
    <3> QED BY <3>2, <3>3 DEF On
  <2> HIDE DEF Free
  <2>3. ASSUME NEW v \in Thread, start'[v] # Nil
        PROVE  /\ Lives(co'[start'[v]]) /\ co'[start'[v]].spawned /\ Free(start'[v])
               /\ cstack'[v] = <<>>
               /\ \A w \in Thread : start'[w] = start'[v] => w = v
    <3>1. v # u /\ start[v] # d /\ start[v] # Nil
      BY <1>11, <2>1, <2>3
    <3> QED BY <1>3, <1>6, <1>11, <2>2, <3>1
  <2>4. \A v \in Thread : start'[v] # Nil =>
           /\ Lives(co'[start'[v]]) /\ co'[start'[v]].spawned /\ Free(start'[v])
           /\ cstack'[v] = <<>>
           /\ \A w \in Thread : start'[w] = start'[v] => w = v
    BY <2>3
  <2> QED BY <2>4, Zenon DEF Starts, Lives, OnStack, Free
<1>13. Types'
  BY <1>1, <1>2, <1>7, <1>8 DEF Types
<1>14. ArgumentsStep
  <2>1. \A e \in Coro : co[e] # Nil => Bound(co[e], co[e])
    BY <1>2, CoroFields DEF Bound
  <2> QED BY <1>5, <1>6, <2>1 DEF ArgumentsStep
<1> QED BY <1>10, <1>12, <1>13, <1>14 DEF CoroInv

(* The program begins.                                                      *)
LEMMA InitOK == Init => CoroInv
<1> SUFFICES ASSUME Init PROVE CoroInv
  OBVIOUS
<1> DEFINE q == [Root("no") EXCEPT !.active = TRUE]
           s == <<Loop(MainCoro, TRUE)>>
<1>1. /\ co = [c \in Coro |-> IF c = MainCoro THEN q ELSE Nil]
      /\ cstack = [t \in Thread |-> IF t = MainThread THEN s ELSE <<>>]
      /\ start = [t \in Thread |-> Nil]
      /\ except = Nil
  BY DEF Init
<1>2. MainCoro \in Coro /\ MainThread \in Thread
  BY CoroAssumption
<1>3. Good(q) /\ q.alive /\ Natives(q) = {} /\ ~ q.hasNative
  <2>1. Good(Root("no")) /\ Natives(Root("no")) = {} /\ Root("no").alive /\ ~ Root("no").hasNative
    BY RootGood
  <2>2. PICK p : p = Root("no")
    OBVIOUS
  <2> HIDE DEF q
  <2>3. PICK b \in BOOLEAN : b /\ q = [p EXCEPT !.active = b]
    BY <2>2 DEF q
  <2>4. Good(q) /\ Alike(q, p) /\ SameCalls(q, p)
    BY <2>1, <2>2, <2>3, SetActive
  <2> QED BY <2>1, <2>2, <2>4 DEF Alike, SameCalls
<1> HIDE DEF q, s
<1>4. co[MainCoro] = q /\ \A c \in Coro : c # MainCoro => co[c] = Nil
  BY <1>1, <1>2
<1>5. Chain(s, co) /\ s \in Stacks /\ (\A e : On(s, e) <=> e = MainCoro) /\ ~ FailsAt(s)
  BY <1>2, <1>3, <1>4, OneLoop DEF s
<1>6. Chain(<<>>, co) /\ <<>> \in Stacks /\ (\A e : ~ On(<<>>, e)) /\ ~ FailsAt(<<>>)
  <2>1. Len(<<>>) = 0 /\ 1..0 = {} /\ <<>> \in Stacks
    BY DEF Stacks
  <2>2. \A e : ~ On(<<>>, e)
    BY <2>1 DEF On
  <2> QED BY <2>1, <2>2, NoChain DEF FailsAt
<1>7. cstack[MainThread] = s /\ \A t \in Thread : t # MainThread => cstack[t] = <<>>
  BY <1>1, <1>2
<1>8. Types
  <2>1. q \in CoroSet
    BY <1>3 DEF Good
  <2> QED BY <1>1, <1>5, <1>6, <2>1 DEF Types
<1>9. Chains
  BY <1>5, <1>6, <1>7 DEF Chains
<1>10. Apart
  BY <1>5, <1>6, <1>7 DEF Apart
<1>11. OnStack(MainCoro)
  <2>1. DOMAIN s = 1..Len(s) /\ On(s, MainCoro)
    BY <1>5 DEF Stacks
  <2> QED BY <1>2, <1>7, <2>1 DEF OnStack, On
<1>12. Idle
  BY <1>3, <1>4, <1>11 DEF Idle, Lives
<1>13. OneException
  BY <1>1, <1>5, <1>6, <1>7 DEF OneException
<1>14. Starts
  BY <1>1 DEF Starts
<1> QED BY <1>8, <1>9, <1>10, <1>12, <1>13, <1>14 DEF CoroInv

(***************************************************************************)
(* The theorems.                                                           *)
(***************************************************************************)

(* Every step of a thread.                                                 *)
LEMMA CoroStep ==
  ASSUME CoroInv, "reenter" \notin Quirks, NEW t \in Thread, Step(t)
  PROVE  CoroInv' /\ ArgumentsStep
<1>1. CASE PushValue(t) \/ PopValue(t) \/ PushBlock(t) \/ PopBlock(t) \/ PopBlockSave(t)
  BY <1>1, PushValueStep, PopValueStep, PushBlockStep, PopBlockStep, PopBlockSaveStep
<1>2. CASE SetCatch(t) \/ Invoke(t) \/ Return(t) \/ Yield(t) \/ Raise(t) \/ Fault(t)
  BY <1>2, SetCatchStep, InvokeStep, ReturnStep, YieldStep, RaiseStep, FaultStep
<1>3. CASE Fork(t) \/ Resume(t) \/ Unwind(t)
  BY <1>3, ForkStep, ResumeStep, UnwindStep
<1>4. CASE NativeReturn(t) \/ NativeFail(t) \/ NativeUnwind(t) \/ NativeCall(t) \/ Spawn(t)
  BY <1>4, NativeReturnStep, NativeFailStep, NativeUnwindStep, NativeCallStep, SpawnStep
<1>5. CASE ThreadStart(t)
  BY <1>5, ThreadStartStep
<1> QED BY <1>1, <1>2, <1>3, <1>4, <1>5 DEF Step

(* Every step.                                                              *)
LEMMA CoroNext ==
  ASSUME CoroInv, "reenter" \notin Quirks, [Next]_vars
  PROVE  CoroInv'
<1>1. CASE Next
  BY <1>1, CoroStep DEF Next
<1>2. CASE UNCHANGED vars
  BY <1>2 DEF CoroInv, Types, Chains, Apart, Idle, OneException, Starts, OnStack, vars
<1> QED BY <1>1, <1>2

(* The inductive invariant: the stacks of every coroutine fit its calls and*)
(* blocks, and every C stack fits the coroutines on it, whatever a program *)
(* does that does not resume a coroutine from below itself.                *)
THEOREM CoroInvariant ==
  ASSUME "reenter" \notin Quirks
  PROVE  Spec => []CoroInv
<1>1. CoroInv /\ [Next]_vars => CoroInv'
  BY CoroNext
<1> QED BY <1>1, InitOK, PTL DEF Spec

(* No pointer of a coroutine falls below its bottom, no word above sp and  *)
(* no NULL becomes a value.                                                *)
THEOREM CoroTypeCorrect ==
  ASSUME "reenter" \notin Quirks
  PROVE  Spec => []TypeOK
<1>1. CoroInv => TypeOK
  BY DEF CoroInv, Types, TypeOK, Stacks
<1> QED BY <1>1, CoroInvariant, PTL

(* Every saved pointer of a live coroutine lies in the array as it is now, *)
(* however often it has moved, and calls and blocks are nested in it.      *)
THEOREM CallsAreNested ==
  ASSUME "reenter" \notin Quirks
  PROVE  Spec => []Nested
<1>1. CoroInv => Nested
  <2> SUFFICES ASSUME CoroInv, NEW c \in Coro, co[c] # Nil, co[c].alive
               PROVE  /\ Len(co[c].mem) < co[c].size
                      /\ \A i \in DOMAIN Calls(co[c]) :
                           /\ co[c].bottom <= Calls(co[c])[i].rbp /\ NBlocks(co[c], i) >= 0
                           /\ Calls(co[c])[i].bp = BlockStart(co[c], i)[NBlocks(co[c], i)]
                           /\ Calls(co[c])[i].bp <= EndOf(co[c], i)
    BY Zenon DEF Nested
  <2>1. Good(co[c])
    BY DEF CoroInv, Idle, Lives
  <2> QED BY <2>1, GoodIsNested
<1> QED BY <1>1, CoroInvariant, PTL

(* has_native is exact: native code in progress on a C stack and native    *)
(* calls of the coroutine are the same.                                    *)
THEOREM NativeFlagIsExact ==
  ASSUME "reenter" \notin Quirks
  PROVE  Spec => []NativeFlagExact
<1>1. CoroInv => NativeFlagExact
  <2> SUFFICES ASSUME CoroInv, NEW c \in Coro, co[c] # Nil, co[c].alive,
                      \A t \in Thread : Unwinding(t) => Active(t).co # c
               PROVE  co[c].hasNative <=> \E i \in DOMAIN Calls(co[c]) : Calls(co[c])[i].native
    BY Zenon DEF NativeFlagExact
  <2> DEFINE r == co[c]
  <2>1. Good(r) /\ r \in CoroSet /\ (~ OnStack(c) => Natives(r) = {} /\ ~ r.hasNative)
    BY DEF CoroInv, Idle, Lives, Good
  <2>2. (\E i \in DOMAIN Calls(r) : Calls(r)[i].native) <=> Natives(r) # {}
    <3>1. r.frames \in Seq(FrameSet) /\ r.runtime \in FrameSet /\ Len(r.frames) \in Nat
      BY <2>1, CoroFields
    <3>2. /\ DOMAIN Calls(r) = 1..Depth(r)
          /\ \A i \in 1..Depth(r) : Calls(r)[i] = CallAt(r, i)
      BY <3>1 DEF Calls, Depth, CallAt
    <3> QED BY <3>2 DEF Natives
  <2>3. ASSUME NEW t \in Thread, On(cstack[t], c)
        PROVE  r.hasNative <=> Natives(r) # {}
    <3> DEFINE s == cstack[t]
    <3>1. Chain(s, co)
      BY DEF CoroInv, Chains
    <3>2. PICK h : Held(s, co, h)
      BY <3>1, ChainHeld
    <3>3. PICK i \in 1..Len(s) : s[i].co = c
      BY <2>3 DEF On
    <3>4. CoroAt(s, r, h, i)
      BY <3>2, <3>3 DEF Held, Hosted
    <3>5. s # <<>> /\ Last(s) = s[Len(s)]
      <4>1. Len(<<>>) = 0 /\ 1..0 = {}
        OBVIOUS
      <4> QED BY <3>3, <4>1 DEF Last
    <3>6. ~ (s[Len(s)].failing /\ s[Len(s)].co = c)
      BY <3>5 DEF Unwinding, Active
    <3>7. ASSUME r.hasNative
          PROVE  Natives(r) # {}
      <4>1. PICK j \in 1..Len(s) : s[j].native /\ s[j].co = c
        BY <3>3, <3>4, <3>7 DEF CoroAt, Natively
      <4>2. h[j] \in Natives(r)
        BY <3>2, <4>1 DEF Held, Hosted, HostAt
      <4> QED BY <4>2
    <3>8. ASSUME NEW k \in Natives(r)
          PROVE  r.hasNative
      <4>1. \E j \in 1..Len(s) : s[j].co = c /\ s[j].native
        BY <3>3, <3>4, <3>6 DEF CoroAt, Covered
      <4> QED BY <3>3, <3>4, <4>1 DEF CoroAt, Natively
    <3> QED BY <3>7, <3>8
  <2>4. CASE OnStack(c)
    BY <2>2, <2>3, <2>4, OnStackIs
  <2>5. CASE ~ OnStack(c)
    BY <2>1, <2>2, <2>5
  <2> QED BY <2>4, <2>5
<1> QED BY <1>1, CoroInvariant, PTL

(* A coroutine is begun once on a C stack: whatever else is active for it  *)
(* there is its own native code and what that has called back.             *)
THEOREM CoroutineNotReentered ==
  ASSUME "reenter" \notin Quirks
  PROVE  Spec => []NotReentered
<1>1. CoroInv => NotReentered
  <2> SUFFICES ASSUME CoroInv, NEW t \in Thread, NEW i \in DOMAIN cstack[t], NEW j \in DOMAIN cstack[t],
                      i < j, cstack[t][i].co = cstack[t][j].co
               PROVE  cstack[t][j].native \/ cstack[t][j - 1].native
    BY DEF NotReentered
  <2> DEFINE s == cstack[t]
  <2>1. s \in Stacks /\ ShapeOK(s)
    BY DEF CoroInv, Chains, Chain
  <2>2. Len(s) \in Nat /\ i \in 1..Len(s) /\ j \in 1..Len(s)
    BY <2>1 DEF Stacks
  <2>3. i \in 1..j - 1 /\ j \in j..Len(s)
    BY <2>2
  <2>4. ~ Begins(s, j)
    BY <2>1, <2>2, <2>3 DEF ShapeOK, ShapeAt
  <2> QED BY <2>4 DEF Begins
<1> QED BY <1>1, CoroInvariant, PTL

(* An exception is set only while it is on its way through a C stack,      *)
(* unless a block has caught a failing operator.                           *)
THEOREM ExceptionIsForgotten ==
  ASSUME "reenter" \notin Quirks, "fault" \notin Quirks
  PROVE  Spec => []CaughtIsForgotten
<1>1. CoroInv => CaughtIsForgotten
  BY DEF CoroInv, OneException, CaughtIsForgotten, Unwinding, FailsAt, Active
<1>2. Spec => []CoroInv
  BY CoroInvariant
<1> QED BY <1>1, <1>2, PTL

(* A function with parameters begins without values of its own, whichever  *)
(* instruction, native code or operator calls it, unless native code       *)
(* passes it one argument.                                                 *)
THEOREM ArgumentsAreBound ==
  ASSUME "reenter" \notin Quirks, "callback" \notin Quirks
  PROVE  Spec => ArgumentsBound
<1>1. CoroInv /\ [Next]_vars =>
        [\A c \in Coro :
           /\ co[c] # Nil /\ Len(co'[c].frames) = Len(co[c].frames) + 1
           /\ co'[c].runtime.param
           => Avail(co'[c]) = 0]_vars
  BY CoroStep DEF Next, ArgumentsStep, Bound
<1> QED BY <1>1, CoroInvariant, PTL DEF Spec, ArgumentsBound
=============================================================================
