---------------------------- MODULE ModulesProof ----------------------------
(***************************************************************************)
(* Proofs about the module loader: the current path, the marks of the      *)
(* modules, what is taken of cache files and whose functions a module      *)
(* makes, for all files, directories and threads.                          *)
(*                                                                         *)
(* The path of a thread is not written down anywhere: it is what the       *)
(* innermost load of its call stack says (HomeAt), or what a join has left *)
(* there.  So the invariant                                                *)
(* speaks of the call stack: each frame that loads a module goes back to   *)
(* the path of the frames below it (GoodFrames), the thread with the lock  *)
(* is in the path of its stack and each waiting thread has kept that of    *)
(* its own (PathInv); each mark is one frame that loads the module, and    *)
(* only one (MarkInv).  An exception that leaves loads then goes back to   *)
(* the right path because the lowest of them does (PathOverIs).            *)
(*                                                                         *)
(* A unit is added to the one list of functions whenever it is loaded,     *)
(* again too, and its code counts from where it was added.  So a frame     *)
(* has a function, values and blocks of its own file (Own), and the list   *)
(* keeps what was added together (GoodList).                               *)
(***************************************************************************)
EXTENDS Modules, FiniteSetTheorems, SequenceTheorems, WellFoundedInduction, TLAPS

(***************************************************************************)
(* Numbers.                                                                *)
(***************************************************************************)

(* A set of natural numbers has a least member.                            *)
LEMMA LeastOf ==
  ASSUME NEW L, L \subseteq Nat, L # {}
  PROVE  \E x \in L : \A y \in L : x <= y
<1> DEFINE R == OpToRel(<, Nat)
<1>1. IsWellFoundedOn(R, Nat)
  BY NatLessThanWellFounded, Zenon
<1>2. \A x, y \in Nat : x < y => <<x, y>> \in R
  BY SMT DEF OpToRel
<1> HIDE DEF R
<1>3. PICK x \in L : \A y \in L : ~ (<<y, x>> \in R)
  BY <1>1, WFMin
<1>4. ASSUME NEW y \in L
      PROVE  x <= y
  <2>1. x \in Nat /\ y \in Nat /\ ~ (y < x)
    BY <1>2, <1>3
  <2> QED BY <2>1
<1> QED BY <1>4

(* The least, as Min chooses it.                                           *)
LEMMA MinIs ==
  ASSUME NEW L, L \subseteq Nat, L # {}
  PROVE  Min(L) \in L /\ \A y \in L : Min(L) <= y
<1>1. PICK x \in L : \A y \in L : x <= y
  BY LeastOf
<1> QED BY <1>1, Zenon DEF Min

(* A bounded set of them has a greatest.                                   *)
LEMMA MaxIs ==
  ASSUME NEW n \in Nat, NEW L, L \subseteq 0..n, L # {}
  PROVE  Max(L) \in L /\ \A y \in L : y <= Max(L)
<1> DEFINE M == {n - y : y \in L}
<1>1. M \subseteq Nat /\ M # {}
  <2>1. PICK y : y \in L
    OBVIOUS
  <2>2. n - y \in M
    BY <2>1
  <2> QED BY <2>2
<1>2. PICK m \in M : \A y \in M : m <= y
  BY <1>1, LeastOf
<1>3. PICK x \in L : m = n - x
  OBVIOUS
<1>4. \A y \in L : n - y \in M
  OBVIOUS
<1> HIDE DEF M
<1>5. \A y \in L : n - x <= n - y
  BY <1>2, <1>3, <1>4
<1>6. \A y \in L : x >= y
  BY <1>5
<1>7. Max(L) \in L /\ \A y \in L : Max(L) >= y
  BY <1>6, Zenon DEF Max
<1>8. \A a, b \in 0..n : a >= b => b <= a
  OBVIOUS
<1> QED BY <1>7, <1>8

(***************************************************************************)
(* Call stacks.                                                            *)
(***************************************************************************)

(* The modules that the first n frames load, and the path they run in.     *)
LoadsIn(fs, n) == {j \in 1..n : fs[j].load # NoFile}
LastLoad(fs, n) == IF LoadsIn(fs, n) = {} THEN 1 ELSE Max(LoadsIn(fs, n))
HomeAt(fs, n)  == fs[LastLoad(fs, n)].home

IsSeq(fs) == \E S : fs \in Seq(S)
Shape(f)  == {"load", "back", "home"} \subseteq DOMAIN f

(* A call stack: the program or the function of a thread is its root, and  *)
(* what loads a module goes back to the path it has come from.             *)
GoodFrames(fs) ==
  /\ IsSeq(fs) /\ Len(fs) >= 1 /\ fs[1].load = NoFile
  /\ \A j \in 1..Len(fs) :
       /\ Shape(fs[j])
       /\ fs[j].load # NoFile => fs[j].load \in DOMAIN Files /\ fs[j].back = HomeAt(fs, j - 1)

(* The same loaders with the same paths.                                   *)
SameLoads(gs, fs, n) ==
  \A j \in 1..n : gs[j].load = fs[j].load /\ gs[j].back = fs[j].back /\ gs[j].home = fs[j].home

(* What there is to know of a sequence.                                    *)
LEMMA SeqFacts ==
  ASSUME NEW fs, IsSeq(fs)
  PROVE  Len(fs) \in Nat /\ DOMAIN fs = 1..Len(fs) /\ (fs = <<>> <=> Len(fs) = 0)
<1>1. PICK S : fs \in Seq(S)
  BY DEF IsSeq
<1> QED BY <1>1, EmptySeq

(* The first k frames.                                                     *)
LEMMA SubFrames ==
  ASSUME NEW fs, IsSeq(fs), NEW k \in 0..Len(fs)
  PROVE  LET gs == SubSeq(fs, 1, k)
         IN  IsSeq(gs) /\ Len(gs) = k /\ \A j \in 1..k : gs[j] = fs[j]
<1>1. PICK S : fs \in Seq(S)
  BY DEF IsSeq
<1>2. SubSeq(fs, 1, k) \in Seq(S) /\ Len(SubSeq(fs, 1, k)) = k
      /\ \A j \in 1..k : SubSeq(fs, 1, k)[j] = fs[j]
  BY <1>1
<1> QED BY <1>2 DEF IsSeq

(* One frame more.                                                         *)
LEMMA OneFrameMore ==
  ASSUME NEW fs, IsSeq(fs), NEW f
  PROVE  LET gs == Append(fs, f)
         IN  /\ IsSeq(gs) /\ Len(gs) = Len(fs) + 1 /\ gs[Len(fs) + 1] = f
             /\ \A j \in 1..Len(fs) : gs[j] = fs[j]
<1>1. PICK S : fs \in Seq(S)
  BY DEF IsSeq
<1>2. fs \in Seq(S \cup {f}) /\ f \in S \cup {f}
  BY <1>1
<1> DEFINE T == S \cup {f}
<1> HIDE DEF T
<1>3. fs \in Seq(T) /\ f \in T
  BY <1>2 DEF T
<1>4. Append(fs, f) \in Seq(T) /\ Len(Append(fs, f)) = Len(fs) + 1 /\ Append(fs, f)[Len(fs) + 1] = f
      /\ \A j \in 1..Len(fs) : Append(fs, f)[j] = fs[j]
  BY <1>3
<1> QED BY <1>4 DEF IsSeq

(* The frame at the top becomes another one.                               *)
LEMMA OtherTop ==
  ASSUME NEW fs, IsSeq(fs), Len(fs) >= 1, NEW f
  PROVE  LET gs == Append(Front(fs), f)
         IN  /\ IsSeq(gs) /\ Len(gs) = Len(fs) /\ gs[Len(fs)] = f /\ Last(fs) = fs[Len(fs)]
             /\ \A j \in 1..Len(fs) - 1 : gs[j] = fs[j]
             /\ IsSeq(Front(fs)) /\ Len(Front(fs)) = Len(fs) - 1
             /\ \A j \in 1..Len(fs) - 1 : Front(fs)[j] = fs[j]
<1>1. Len(fs) \in Nat
  BY SeqFacts
<1>2. Len(fs) - 1 \in 0..Len(fs)
  BY <1>1
<1>3. IsSeq(Front(fs)) /\ Len(Front(fs)) = Len(fs) - 1 /\ \A j \in 1..Len(fs) - 1 : Front(fs)[j] = fs[j]
  BY <1>2, SubFrames DEF Front
<1> DEFINE gs == Append(Front(fs), f)
<1>4. /\ IsSeq(gs) /\ Len(gs) = Len(Front(fs)) + 1 /\ gs[Len(Front(fs)) + 1] = f
      /\ \A j \in 1..Len(Front(fs)) : gs[j] = Front(fs)[j]
  BY <1>3, OneFrameMore
<1> HIDE DEF gs
<1>5. Len(gs) = Len(fs) /\ gs[Len(fs)] = f /\ \A j \in 1..Len(fs) - 1 : gs[j] = fs[j]
  BY <1>1, <1>3, <1>4
<1> QED BY <1>3, <1>4, <1>5 DEF gs, Last

(* The frame of the innermost load, or the first one.                      *)
LEMMA LastLoadIs ==
  ASSUME NEW fs, NEW n \in Nat, n >= 1
  PROVE  LastLoad(fs, n) \in 1..n /\ \A j \in LoadsIn(fs, n) : j <= LastLoad(fs, n)
<1>1. CASE LoadsIn(fs, n) = {}
  BY <1>1 DEF LastLoad
<1>2. CASE LoadsIn(fs, n) # {}
  <2>1. LoadsIn(fs, n) \subseteq 0..n /\ LoadsIn(fs, n) \subseteq 1..n
    BY DEF LoadsIn
  <2>2. Max(LoadsIn(fs, n)) \in 1..n /\ \A j \in LoadsIn(fs, n) : j <= Max(LoadsIn(fs, n))
    BY <1>2, <2>1, MaxIs
  <2> QED BY <1>2, <2>2 DEF LastLoad
<1> QED BY <1>1, <1>2

(* Where the first n frames run.                                           *)
LEMMA HomeSame ==
  ASSUME NEW gs, NEW fs, NEW n \in Nat, n >= 1, SameLoads(gs, fs, n)
  PROVE  HomeAt(gs, n) = HomeAt(fs, n)
<1>1. LoadsIn(gs, n) = LoadsIn(fs, n)
  BY DEF LoadsIn, SameLoads
<1>2. LastLoad(fs, n) \in 1..n
  BY LastLoadIs
<1> QED BY <1>1, <1>2 DEF HomeAt, LastLoad, SameLoads

(* Frames that load nothing run in the path of those below them.           *)
LEMMA HomeSkips ==
  ASSUME NEW fs, NEW n \in Nat, NEW k \in 0..n, \A j \in k + 1..n : fs[j].load = NoFile
  PROVE  HomeAt(fs, n) = HomeAt(fs, k)
<1>1. \A j \in 1..n : j \in 1..k \/ j \in k + 1..n
  OBVIOUS
<1>2. \A j \in 1..k : j \in 1..n
  OBVIOUS
<1>3. LoadsIn(fs, n) = LoadsIn(fs, k)
  BY <1>1, <1>2 DEF LoadsIn
<1> QED BY <1>3 DEF HomeAt, LastLoad

(* A module runs in the directory of its load.                             *)
LEMMA HomeLoads ==
  ASSUME NEW fs, NEW n \in Nat, n >= 1, fs[n].load # NoFile
  PROVE  HomeAt(fs, n) = fs[n].home
<1>1. n \in LoadsIn(fs, n) /\ LoadsIn(fs, n) \subseteq 0..n /\ LoadsIn(fs, n) # {}
  BY DEF LoadsIn
<1>2. Max(LoadsIn(fs, n)) \in 0..n /\ n <= Max(LoadsIn(fs, n))
  BY <1>1, MaxIs
<1>3. Max(LoadsIn(fs, n)) = n
  BY <1>2
<1> QED BY <1>1, <1>3 DEF HomeAt, LastLoad

(* The first k frames of a call stack, with other values and blocks.       *)
LEMMA GoodSame ==
  ASSUME NEW fs, GoodFrames(fs), NEW gs, IsSeq(gs), NEW k \in 1..Len(fs), Len(gs) = k,
         SameLoads(gs, fs, k), \A j \in 1..k : Shape(gs[j])
  PROVE  GoodFrames(gs) /\ HomeAt(gs, k) = HomeAt(fs, k)
<1>1. Len(fs) \in Nat /\ k \in Nat /\ k >= 1
  BY SeqFacts DEF GoodFrames
<1>2. gs[1].load = NoFile
  BY <1>1 DEF GoodFrames, SameLoads
<1>3. HomeAt(gs, k) = HomeAt(fs, k)
  BY <1>1, HomeSame
<1>4. ASSUME NEW j \in 1..k, gs[j].load # NoFile
      PROVE  gs[j].load \in DOMAIN Files /\ gs[j].back = HomeAt(gs, j - 1)
  <2>1. j \in 1..Len(fs) /\ j - 1 \in Nat
    BY <1>1
  <2>2. gs[j].load = fs[j].load /\ gs[j].back = fs[j].back
    BY DEF SameLoads
  <2>3. fs[j].load \in DOMAIN Files /\ fs[j].back = HomeAt(fs, j - 1)
    BY <1>4, <2>1, <2>2 DEF GoodFrames
  <2>4. j - 1 >= 1
    BY <1>1, <1>2, <1>4, <2>1
  <2>5. SameLoads(gs, fs, j - 1)
    <3>1. \A i \in 1..j - 1 : i \in 1..k
      BY <1>1
    <3> QED BY <3>1 DEF SameLoads
  <2>6. HomeAt(gs, j - 1) = HomeAt(fs, j - 1)
    BY <2>1, <2>4, <2>5, HomeSame
  <2> QED BY <2>2, <2>3, <2>6
<1> QED BY <1>1, <1>2, <1>3, <1>4 DEF GoodFrames

(* A function is called, or a module is loaded.                            *)
LEMMA GoodMore ==
  ASSUME NEW fs, GoodFrames(fs), NEW f, Shape(f),
         f.load # NoFile => f.load \in DOMAIN Files /\ f.back = HomeAt(fs, Len(fs))
  PROVE  LET gs == Append(fs, f)
         IN  /\ GoodFrames(gs) /\ Len(gs) = Len(fs) + 1
             /\ HomeAt(gs, Len(gs)) = IF f.load = NoFile THEN HomeAt(fs, Len(fs)) ELSE f.home
<1> DEFINE gs == Append(fs, f)
           n  == Len(fs)
<1>1. n \in Nat /\ n >= 1 /\ IsSeq(fs)
  BY SeqFacts DEF GoodFrames
<1>2. IsSeq(gs) /\ Len(gs) = n + 1 /\ gs[n + 1] = f /\ \A j \in 1..n : gs[j] = fs[j]
  BY <1>1, OneFrameMore
<1> HIDE DEF gs
<1>3. SameLoads(gs, fs, n)
  BY <1>2 DEF SameLoads
<1>4. ASSUME NEW j \in 1..n
      PROVE  j - 1 # 0 => HomeAt(gs, j - 1) = HomeAt(fs, j - 1)
  <2>1. SameLoads(gs, fs, j - 1)
    <3>1. \A i \in 1..j - 1 : i \in 1..n
      BY <1>1
    <3> QED BY <1>3, <3>1 DEF SameLoads
  <2>2. j - 1 # 0 => j - 1 \in Nat /\ j - 1 >= 1
    BY <1>1
  <2> QED BY <2>1, <2>2, HomeSame
<1>5. HomeAt(gs, n) = HomeAt(fs, n)
  BY <1>1, <1>3, HomeSame
<1>6. ASSUME NEW j \in 1..n + 1
      PROVE  /\ Shape(gs[j])
             /\ gs[j].load # NoFile => gs[j].load \in DOMAIN Files /\ gs[j].back = HomeAt(gs, j - 1)
  <2>1. CASE j = n + 1
    <3>1. j - 1 = n /\ gs[j] = f
      BY <1>1, <1>2, <2>1
    <3> QED BY <1>5, <3>1
  <2>2. CASE j # n + 1
    <3>1. j \in 1..n /\ gs[j] = fs[j]
      BY <1>1, <1>2, <2>2
    <3>2. fs[j].load # NoFile => j # 1
      BY DEF GoodFrames
    <3>3. fs[j].load # NoFile => j - 1 # 0
      BY <1>1, <3>1, <3>2
    <3>4. /\ Shape(fs[j])
          /\ fs[j].load # NoFile => fs[j].load \in DOMAIN Files /\ fs[j].back = HomeAt(fs, j - 1)
      BY <3>1 DEF GoodFrames
    <3> QED BY <1>4, <3>1, <3>3, <3>4
  <2> QED BY <2>1, <2>2
<1>7. GoodFrames(gs)
  BY <1>1, <1>2, <1>6 DEF GoodFrames
<1>8. HomeAt(gs, n + 1) = IF f.load = NoFile THEN HomeAt(fs, n) ELSE f.home
  <2>1. CASE f.load = NoFile
    <3>1. n \in 0..n + 1 /\ n + 1 \in Nat /\ \A j \in n + 1..n + 1 : gs[j].load = NoFile
      BY <1>1, <1>2, <2>1
    <3> QED BY <1>5, <2>1, <3>1, HomeSkips
  <2>2. CASE f.load # NoFile
    <3>1. n + 1 \in Nat /\ n + 1 >= 1 /\ gs[n + 1].load # NoFile
      BY <1>1, <1>2, <2>2
    <3> QED BY <1>2, <2>2, <3>1, HomeLoads
  <2> QED BY <2>1, <2>2
<1> QED BY <1>2, <1>7, <1>8 DEF gs

(* A join leaves the thread somewhere else: only the load that is in       *)
(* progress, or the thread itself, has another path.                       *)
LEMMA HomeMoves ==
  ASSUME NEW fs, GoodFrames(fs), NEW p
  PROVE  LET gs == [fs EXCEPT ![LastLoad(fs, Len(fs))].home = p]
         IN  /\ GoodFrames(gs) /\ Len(gs) = Len(fs) /\ HomeAt(gs, Len(gs)) = p
             /\ \A j \in 1..Len(fs) : Shape(fs[j]) /\ (gs[j] = fs[j] \/ gs[j] = [fs[j] EXCEPT !.home = p])
<1> DEFINE n  == Len(fs)
           l  == LastLoad(fs, n)
           gs == [fs EXCEPT ![l].home = p]
<1>1. n \in Nat /\ n >= 1 /\ DOMAIN fs = 1..n /\ fs[1].load = NoFile
  BY SeqFacts DEF GoodFrames
<1>2. l \in 1..n /\ \A j \in LoadsIn(fs, n) : j <= l
  BY <1>1, LastLoadIs
<1> HIDE DEF l
<1>3. DOMAIN gs = 1..n /\ gs[l] = [fs[l] EXCEPT !.home = p] /\ \A j \in 1..n : j # l => gs[j] = fs[j]
  BY <1>1, <1>2
<1>4. IsSeq(gs) /\ Len(gs) = n
  <2>1. PICK S : fs \in Seq(S)
    BY DEF GoodFrames, IsSeq
  <2>2. PICK T : T = S \cup {[fs[l] EXCEPT !.home = p]}
    OBVIOUS
  <2>3. \A j \in 1..n : fs[j] \in S
    BY <1>1, <2>1
  <2>4. \A j \in 1..n : gs[j] \in T
    BY <1>3, <2>2, <2>3
  <2>5. gs = [j \in 1..n |-> gs[j]]
    BY <1>1
  <2>6. gs \in [1..n -> T]
    BY <1>1, <2>4, <2>5
  <2> HIDE DEF gs, n
  <2>7. gs \in Seq(T) /\ Len(gs) = n
    BY <1>1, <2>6
  <2> QED BY <2>7 DEF IsSeq
<1> HIDE DEF gs
<1>5. \A j \in 1..n : Shape(fs[j])
  BY DEF GoodFrames
<1> HIDE DEF n
<1>6. ASSUME NEW j \in 1..n
      PROVE  /\ Shape(gs[j]) /\ gs[j].load = fs[j].load /\ gs[j].back = fs[j].back
             /\ gs[j] = fs[j] \/ gs[j] = [fs[j] EXCEPT !.home = p]
  <2>1. CASE j = l
    BY <1>3, <1>5, <2>1 DEF Shape
  <2>2. CASE j # l
    BY <1>3, <1>5, <2>2
  <2> QED BY <2>1, <2>2
<1>7. gs[l].home = p
  BY <1>2, <1>3, <1>5 DEF Shape
<1>8. LoadsIn(gs, n) = LoadsIn(fs, n)
  BY <1>6 DEF LoadsIn
<1>9. HomeAt(gs, n) = p
  BY <1>7, <1>8 DEF HomeAt, LastLoad, l
<1>10. ASSUME NEW j \in 1..n, gs[j].load # NoFile
       PROVE  gs[j].load \in DOMAIN Files /\ gs[j].back = HomeAt(gs, j - 1)
  <2>1. fs[j].load \in DOMAIN Files /\ fs[j].back = HomeAt(fs, j - 1)
    BY <1>6, <1>10 DEF GoodFrames, n
  <2>2. j <= l /\ j # 1
    BY <1>1, <1>2, <1>6, <1>10 DEF LoadsIn
  <2>3. j - 1 \in Nat /\ j - 1 >= 1 /\ \A i \in 1..j - 1 : i \in 1..n /\ i # l
    BY <1>1, <1>2, <2>2
  <2>4. SameLoads(gs, fs, j - 1)
    BY <1>3, <2>3 DEF SameLoads
  <2>5. HomeAt(gs, j - 1) = HomeAt(fs, j - 1)
    BY <2>3, <2>4, HomeSame
  <2> QED BY <1>6, <2>1, <2>5
<1>11. GoodFrames(gs)
  <2>1. 1 \in 1..n
    BY <1>1
  <2> QED BY <1>1, <1>4, <1>6, <1>10, <2>1 DEF GoodFrames
<1> QED BY <1>4, <1>5, <1>6, <1>9, <1>11 DEF gs, l, n

(***************************************************************************)
(* The inductive invariants.                                               *)
(***************************************************************************)

(* The path in which a thread goes on.                                     *)
PathOf(t) == HomeAt(Frames(t), Len(Frames(t)))

(* A thread that runs has the lock and the path; one that waits keeps its  *)
(* path; one that joins has none until it runs again.                      *)
PathAt(t) ==
  /\ {"st", "path", "frames"} \subseteq DOMAIN run[t]
  /\ run[t].st \in {"new", "runs", "waits", "joins", "ended"}
  /\ run[t].st = "runs" => gil = t /\ cur = PathOf(t)
  /\ run[t].st = "waits" => run[t].path = PathOf(t)
  /\ run[t].st \in {"runs", "waits", "joins"} => GoodFrames(Frames(t))
  /\ run[t].st \in {"new", "ended"} => Frames(t) = <<>>
PathInv == DOMAIN run = Thread /\ \A t \in Thread : PathAt(t)

(* Frame j of t loads id.                                                  *)
Loads(t, j, id) == j \in 1..Len(Frames(t)) /\ Frames(t)[j].load = id

MarkInv ==
  /\ DOMAIN loaded = DOMAIN Files
  /\ \A id \in DOMAIN Files :
       /\ loaded[id] = "none" <=> \E t \in Thread : \E j : Loads(t, j, id)
       /\ \A t, u \in Thread : \A i, j : Loads(t, i, id) /\ Loads(u, j, id) => t = u /\ i = j

ModInv == PathInv /\ MarkInv

(***************************************************************************)
(* Steps of the thread that has the lock.                                  *)
(***************************************************************************)

(* The thread that runs, and its call stack.                               *)
LEMMA RunsFacts ==
  ASSUME PathInv, NEW t \in Thread, Runs(t)
  PROVE  /\ gil = t /\ run[t].st = "runs" /\ GoodFrames(Frames(t)) /\ cur = PathOf(t)
         /\ IsSeq(Frames(t)) /\ Len(Frames(t)) \in Nat /\ Len(Frames(t)) >= 1
         /\ \A j \in 1..Len(Frames(t)) : Shape(Frames(t)[j])
         /\ \A u \in Thread : u # t => run[u].st # "runs"
<1>1. /\ gil = t /\ run[t].st = "runs" /\ GoodFrames(Frames(t)) /\ cur = PathOf(t)
  BY DEF PathInv, PathAt, Runs
<1>2. IsSeq(Frames(t)) /\ Len(Frames(t)) \in Nat /\ Len(Frames(t)) >= 1
      /\ \A j \in 1..Len(Frames(t)) : Shape(Frames(t)[j])
  BY <1>1, SeqFacts DEF GoodFrames
<1>3. \A u \in Thread : u # t => run[u].st # "runs"
  BY <1>1 DEF PathInv, PathAt
<1> QED BY <1>1, <1>2, <1>3

(* What Replace and the end of a thread do to the threads.                 *)
LEMMA ReplaceIs ==
  ASSUME PathInv, NEW t \in Thread, NEW gs, Replace(t, gs)
  PROVE  /\ DOMAIN run' = Thread /\ {"st", "path", "frames"} \subseteq DOMAIN run'[t]
         /\ run'[t].st = run[t].st /\ run'[t].path = run[t].path /\ Frames(t)' = gs
         /\ \A u \in Thread : u # t => run'[u] = run[u] /\ Frames(u)' = Frames(u)
BY DEF PathInv, PathAt, Replace, Frames

(* Its call stack changes.                                                 *)
LEMMA PathMove ==
  ASSUME PathInv, NEW t \in Thread, Runs(t), NEW gs, Replace(t, gs),
         GoodFrames(gs), cur' = HomeAt(gs, Len(gs)), gil' = gil
  PROVE  PathInv'
<1>1. gil = t /\ run[t].st = "runs" /\ \A u \in Thread : u # t => run[u].st # "runs"
  BY RunsFacts
<1>2. /\ DOMAIN run' = Thread /\ {"st", "path", "frames"} \subseteq DOMAIN run'[t]
      /\ run'[t].st = run[t].st /\ run'[t].path = run[t].path /\ Frames(t)' = gs
      /\ \A u \in Thread : u # t => run'[u] = run[u] /\ Frames(u)' = Frames(u)
  BY ReplaceIs
<1>3. PathAt(t)'
  BY <1>1, <1>2 DEF PathAt, PathOf
<1>4. ASSUME NEW u \in Thread, u # t
      PROVE  PathAt(u)'
  <2>1. PathAt(u)
    BY DEF PathInv
  <2>2. run'[u] = run[u] /\ Frames(u)' = Frames(u) /\ run[u].st # "runs"
    BY <1>1, <1>2, <1>4
  <2> QED BY <2>1, <2>2 DEF PathAt, PathOf
<1> QED BY <1>2, <1>3, <1>4 DEF PathInv

(* It ends.                                                                *)
LEMMA PathOver ==
  ASSUME PathInv, NEW t \in Thread, Runs(t), Over(t)
  PROVE  /\ PathInv' /\ Frames(t)' = <<>>
         /\ \A u \in Thread : u # t => Frames(u)' = Frames(u)
<1>1. gil = t /\ run[t].st = "runs" /\ \A u \in Thread : u # t => run[u].st # "runs"
  BY RunsFacts
<1>2. /\ DOMAIN run' = Thread /\ {"st", "path", "frames"} \subseteq DOMAIN run'[t]
      /\ run'[t].st = "ended" /\ Frames(t)' = <<>>
      /\ \A u \in Thread : u # t => run'[u] = run[u] /\ Frames(u)' = Frames(u)
  BY DEF PathInv, PathAt, Over, Frames
<1>3. PathAt(t)'
  BY <1>1, <1>2 DEF PathAt
<1>4. ASSUME NEW u \in Thread, u # t
      PROVE  PathAt(u)'
  <2>1. PathAt(u)
    BY DEF PathInv
  <2>2. run'[u] = run[u] /\ Frames(u)' = Frames(u) /\ run[u].st # "runs"
    BY <1>1, <1>2, <1>4
  <2> QED BY <2>1, <2>2 DEF PathAt, PathOf
<1> QED BY <1>2, <1>3, <1>4 DEF PathInv

(* The loaders below frame k stay, those above it are no loaders any more; *)
(* their modules are loaded or absent.                                     *)
LEMMA MarkMove ==
  ASSUME MarkInv, NEW t \in Thread, Len(Frames(t)) \in Nat, NEW k \in 0..Len(Frames(t)),
         Len(Frames(t)') = k, \A j \in 1..k : Frames(t)'[j].load = Frames(t)[j].load,
         \A u \in Thread : u # t => Frames(u)' = Frames(u),
         DOMAIN loaded' = DOMAIN loaded,
         \A id \in DOMAIN Files :
           IF \E j \in k + 1..Len(Frames(t)) : Frames(t)[j].load = id THEN loaded'[id] # "none"
           ELSE loaded'[id] = "none" <=> loaded[id] = "none"
  PROVE  MarkInv'
<1>1. \A j \in 1..Len(Frames(t)) : j \in 1..k \/ j \in k + 1..Len(Frames(t))
  OBVIOUS
<1>2. \A j \in k + 1..Len(Frames(t)) : j \in 1..Len(Frames(t)) /\ j \notin 1..k
  OBVIOUS
<1>3. \A j \in 1..k : j \in 1..Len(Frames(t))
  OBVIOUS
<1>4. ASSUME NEW u \in Thread, NEW j, NEW id
      PROVE  /\ Loads(u, j, id)' => Loads(u, j, id) /\ (u = t => j \in 1..k)
             /\ Loads(u, j, id) /\ (u = t => j \in 1..k) => Loads(u, j, id)'
  <2>1. CASE u = t
    BY <1>3, <2>1 DEF Loads
  <2>2. CASE u # t
    BY <2>2 DEF Loads
  <2> QED BY <2>1, <2>2
<1>5. ASSUME NEW id \in DOMAIN Files
      PROVE  /\ loaded'[id] = "none" <=> \E u \in Thread : \E j : Loads(u, j, id)'
             /\ \A v, u \in Thread : \A i, j : Loads(v, i, id)' /\ Loads(u, j, id)' => v = u /\ i = j
  <2>1. /\ loaded[id] = "none" <=> \E u \in Thread : \E j : Loads(u, j, id)
        /\ \A v, u \in Thread : \A i, j : Loads(v, i, id) /\ Loads(u, j, id) => v = u /\ i = j
    BY DEF MarkInv
  <2>2. CASE \E j \in k + 1..Len(Frames(t)) : Frames(t)[j].load = id
    <3>1. PICK j \in k + 1..Len(Frames(t)) : Frames(t)[j].load = id
      BY <2>2
    <3>2. Loads(t, j, id) /\ j \notin 1..k
      BY <1>2, <3>1 DEF Loads
    <3>3. loaded'[id] # "none"
      BY <2>2
    <3> QED BY <1>4, <2>1, <3>2, <3>3
  <2>3. CASE ~ \E j \in k + 1..Len(Frames(t)) : Frames(t)[j].load = id
    <3>1. \A j : Loads(t, j, id) => j \in 1..k
      BY <1>1, <2>3 DEF Loads
    <3>2. loaded'[id] = "none" <=> loaded[id] = "none"
      BY <2>3
    <3> QED BY <1>4, <2>1, <3>1, <3>2
  <2> QED BY <2>2, <2>3
<1> QED BY <1>5 DEF MarkInv

(* No loader changes.                                                      *)
LEMMA MarkSame ==
  ASSUME MarkInv, NEW t \in Thread, loaded' = loaded, Len(Frames(t)') = Len(Frames(t)),
         \A j \in 1..Len(Frames(t)) : Frames(t)'[j].load = Frames(t)[j].load,
         \A u \in Thread : u # t => Frames(u)' = Frames(u)
  PROVE  MarkInv'
<1>1. \A u \in Thread : \A j, id : Loads(u, j, id)' <=> Loads(u, j, id)
  BY DEF Loads
<1> QED BY <1>1 DEF MarkInv

(* A module begins to be loaded in a frame of its own.                     *)
LEMMA MarkLoad ==
  ASSUME MarkInv, NEW t \in Thread, Len(Frames(t)) \in Nat, NEW id \in DOMAIN Files,
         loaded[id] = "absent", loaded' = [loaded EXCEPT ![id] = "none"],
         Len(Frames(t)') = Len(Frames(t)) + 1,
         \A j \in 1..Len(Frames(t)) : Frames(t)'[j].load = Frames(t)[j].load,
         Frames(t)'[Len(Frames(t)) + 1].load = id,
         \A u \in Thread : u # t => Frames(u)' = Frames(u)
  PROVE  MarkInv'
<1> DEFINE n == Len(Frames(t))
<1>1. n \in Nat /\ n + 1 \in 1..n + 1 /\ \A j \in 1..n + 1 : j = n + 1 \/ j \in 1..n
  OBVIOUS
<1>2. \A j \in 1..n : j \in 1..n + 1 /\ j # n + 1
  OBVIOUS
<1> HIDE DEF n
<1>3. ASSUME NEW u \in Thread, NEW j, NEW m
      PROVE  Loads(u, j, m)' <=> Loads(u, j, m) \/ (u = t /\ j = n + 1 /\ m = id)
  <2>1. CASE u = t
    <3>1. CASE j = n + 1
      <4>1. ~ Loads(u, j, m)
        BY <1>2, <2>1, <3>1 DEF Loads, n
      <4>2. Loads(u, j, m)' <=> m = id
        BY <1>1, <2>1, <3>1 DEF Loads, n
      <4> QED BY <2>1, <3>1, <4>1, <4>2
    <3>2. CASE j # n + 1
      <4>1. Loads(u, j, m)' <=> Loads(u, j, m)
        BY <1>1, <1>2, <2>1, <3>2 DEF Loads, n
      <4> QED BY <3>2, <4>1
    <3> QED BY <3>1, <3>2
  <2>2. CASE u # t
    BY <2>2 DEF Loads
  <2> QED BY <2>1, <2>2
<1>4. DOMAIN loaded' = DOMAIN Files /\ \A m \in DOMAIN Files : loaded'[m] = IF m = id THEN "none" ELSE loaded[m]
  BY DEF MarkInv
<1>5. ASSUME NEW m \in DOMAIN Files
      PROVE  /\ loaded'[m] = "none" <=> \E u \in Thread : \E j : Loads(u, j, m)'
             /\ \A v, u \in Thread : \A i, j : Loads(v, i, m)' /\ Loads(u, j, m)' => v = u /\ i = j
  <2>1. /\ loaded[m] = "none" <=> \E u \in Thread : \E j : Loads(u, j, m)
        /\ \A v, u \in Thread : \A i, j : Loads(v, i, m) /\ Loads(u, j, m) => v = u /\ i = j
    BY DEF MarkInv
  <2>2. CASE m = id
    <3>1. \A u \in Thread : \A j : ~ Loads(u, j, m)
      BY <2>1, <2>2
    <3>2. \A u \in Thread : \A j : Loads(u, j, m)' <=> u = t /\ j = n + 1
      BY <1>3, <2>2, <3>1
    <3>3. \E u \in Thread : \E j : Loads(u, j, m)'
      <4>1. PICK p : p = n + 1
        OBVIOUS
      <4>2. Loads(t, p, m)'
        BY <3>2, <4>1
      <4> QED BY <4>2
    <3>4. loaded'[m] = "none"
      BY <1>4, <2>2
    <3>5. \A v, u \in Thread : \A i, j : Loads(v, i, m)' /\ Loads(u, j, m)' => v = u /\ i = j
      BY <3>2
    <3> QED BY <3>3, <3>4, <3>5
  <2>3. CASE m # id
    <3>1. \A u \in Thread : \A j : Loads(u, j, m)' <=> Loads(u, j, m)
      BY <1>3, <2>3
    <3> QED BY <1>4, <2>1, <2>3, <3>1
  <2> QED BY <2>2, <2>3
<1> QED BY <1>4, <1>5 DEF MarkInv

(***************************************************************************)
(* The call stack with another frame at the top.                           *)
(***************************************************************************)

(* gs has the calls of fs, with other values and blocks.                   *)
Alike(gs, fs) ==
  /\ IsSeq(gs) /\ Len(gs) = Len(fs)
  /\ \A j \in 1..Len(fs) : Shape(gs[j])
  /\ SameLoads(gs, fs, Len(fs))

(* f is the frame g with other values and blocks.                          *)
Becomes(f, g) == Shape(f) /\ f.load = g.load /\ f.back = g.back /\ f.home = g.home

(* Then it is a call stack with the same path.                             *)
LEMMA AlikeIsGood ==
  ASSUME NEW fs, GoodFrames(fs), NEW gs, Alike(gs, fs)
  PROVE  GoodFrames(gs) /\ HomeAt(gs, Len(gs)) = HomeAt(fs, Len(fs))
<1>1. Len(fs) \in Nat /\ Len(fs) \in 1..Len(fs)
  BY SeqFacts DEF GoodFrames
<1>2. IsSeq(gs) /\ Len(gs) = Len(fs) /\ SameLoads(gs, fs, Len(fs)) /\ \A j \in 1..Len(fs) : Shape(gs[j])
  BY DEF Alike, SameLoads
<1> QED BY <1>1, <1>2, GoodSame

(* The frame at the top has other values.                                  *)
LEMMA AlikeTop ==
  ASSUME NEW fs, IsSeq(fs), Len(fs) >= 1, \A j \in 1..Len(fs) : Shape(fs[j]),
         NEW f, Becomes(f, Last(fs))
  PROVE  Alike(Append(Front(fs), f), fs)
<1> DEFINE gs == Append(Front(fs), f)
<1>1. Len(fs) \in Nat
  BY SeqFacts
<1>2. /\ IsSeq(gs) /\ Len(gs) = Len(fs) /\ gs[Len(fs)] = f /\ Last(fs) = fs[Len(fs)]
      /\ \A j \in 1..Len(fs) - 1 : gs[j] = fs[j]
  BY OtherTop
<1> HIDE DEF gs
<1>3. \A j \in 1..Len(fs) : j = Len(fs) \/ j \in 1..Len(fs) - 1
  BY <1>1
<1>4. (\A j \in 1..Len(fs) : Shape(gs[j])) /\ SameLoads(gs, fs, Len(fs))
  BY <1>2, <1>3 DEF Becomes, SameLoads
<1>5. Alike(gs, fs)
  BY <1>2, <1>4 DEF Alike
<1> QED BY <1>5 DEF gs

(* So it has when a call returns a value.                                  *)
LEMMA DeliverAlike ==
  ASSUME NEW fs, IsSeq(fs), Len(fs) >= 1, \A j \in 1..Len(fs) : Shape(fs[j])
  PROVE  Alike(Deliver(fs), fs)
<1>1. Len(fs) \in Nat /\ Last(fs) = fs[Len(fs)] /\ Len(fs) \in 1..Len(fs)
  BY SeqFacts DEF Last
<1> DEFINE f == [Last(fs) EXCEPT !.vals = Append(@, Other)]
<1>2. Becomes(f, Last(fs))
  BY <1>1 DEF Becomes, Shape
<1> HIDE DEF f
<1>3. Alike(Append(Front(fs), f), fs)
  BY <1>2, AlikeTop
<1> QED BY <1>3 DEF Deliver, f

(* One change after the other.                                             *)
LEMMA AlikeTrans ==
  ASSUME NEW fs, NEW gs, NEW hs, Alike(gs, fs), Alike(hs, gs)
  PROVE  Alike(hs, fs)
BY DEF Alike, SameLoads

(* What the step of a thread that changes no call does.                    *)
LEMMA SameMove ==
  ASSUME ModInv, NEW t \in Thread, Runs(t), NEW gs, Alike(gs, Frames(t)), Replace(t, gs),
         cur' = cur, gil' = gil, DOMAIN loaded' = DOMAIN loaded,
         \A id \in DOMAIN Files : loaded'[id] = "none" <=> loaded[id] = "none"
  PROVE  ModInv'
<1>1. /\ PathInv /\ MarkInv /\ GoodFrames(Frames(t)) /\ cur = HomeAt(Frames(t), Len(Frames(t)))
      /\ Len(Frames(t)) \in Nat
  BY RunsFacts DEF ModInv, PathOf
<1>2. GoodFrames(gs) /\ HomeAt(gs, Len(gs)) = HomeAt(Frames(t), Len(Frames(t)))
  BY <1>1, AlikeIsGood
<1>3. PathInv'
  BY <1>1, <1>2, PathMove
<1>4. Frames(t)' = gs /\ \A u \in Thread : u # t => Frames(u)' = Frames(u)
  BY <1>1, ReplaceIs
<1>5. /\ Len(Frames(t)') = Len(Frames(t))
      /\ \A j \in 1..Len(Frames(t)) : Frames(t)'[j].load = Frames(t)[j].load
  BY <1>4 DEF Alike, SameLoads
<1>6. \A j : j \notin Len(Frames(t)) + 1..Len(Frames(t))
  BY <1>1
<1>7. Len(Frames(t)) \in 0..Len(Frames(t))
  BY <1>1
<1>8. MarkInv'
  BY <1>1, <1>4, <1>5, <1>6, <1>7, MarkMove
<1> QED BY <1>3, <1>8 DEF ModInv

(***************************************************************************)
(* Exceptions.                                                             *)
(***************************************************************************)

(* The frame an exception gets to, and the loaders that it leaves.         *)
Stop(fs)       == Max({j \in DOMAIN fs : Catching(fs[j]) # {} \/ fs[j].load \in Caches} \cup {0})
LoadsOver(fs, k) == {j \in k + 1 .. Len(fs) : fs[j].load # NoFile}
PathLeft(fs, k) == IF LoadsOver(fs, k) = {} THEN cur ELSE fs[Min(LoadsOver(fs, k))].back

(* It is a frame that catches it, or that a cache file is loaded in.       *)
LEMMA StopIs ==
  ASSUME NEW fs, IsSeq(fs)
  PROVE  /\ Stop(fs) \in 0..Len(fs)
         /\ Stop(fs) # 0 => Catching(fs[Stop(fs)]) # {} \/ fs[Stop(fs)].load \in Caches
<1> DEFINE L == {j \in DOMAIN fs : Catching(fs[j]) # {} \/ fs[j].load \in Caches} \cup {0}
<1>1. Len(fs) \in Nat /\ DOMAIN fs = 1..Len(fs)
  BY SeqFacts
<1>2. L \subseteq 0..Len(fs) /\ L # {}
  BY <1>1
<1>3. \A j \in L : j # 0 => Catching(fs[j]) # {} \/ fs[j].load \in Caches
  OBVIOUS
<1> HIDE DEF L
<1>4. Max(L) \in L
  BY <1>1, <1>2, MaxIs
<1>5. Stop(fs) = Max(L)
  BY DEF Stop, L
<1> QED BY <1>2, <1>3, <1>4, <1>5

(* The path is that of the frame it gets to.                               *)
LEMMA PathOverIs ==
  ASSUME NEW fs, GoodFrames(fs), cur = HomeAt(fs, Len(fs)), NEW k \in 0..Len(fs)
  PROVE  PathLeft(fs, k) = HomeAt(fs, k)
<1> DEFINE n == Len(fs)
           L == LoadsOver(fs, k)
<1>1. n \in Nat /\ k \in 0..n /\ k \in Nat
  BY SeqFacts DEF GoodFrames
<1> HIDE DEF n
<1>2. CASE L = {}
  <2>1. \A j \in k + 1..n : fs[j].load = NoFile
    BY <1>2 DEF LoadsOver, n
  <2>2. HomeAt(fs, n) = HomeAt(fs, k)
    BY <1>1, <2>1, HomeSkips
  <2> QED BY <1>2, <2>2 DEF PathLeft, n
<1>3. CASE L # {}
  <2>1. L \subseteq Nat /\ L \subseteq k + 1..n
    BY <1>1 DEF LoadsOver, n
  <2>2. PICK m : m = Min(L)
    OBVIOUS
  <2>3. m \in L /\ \A y \in L : m <= y
    BY <1>3, <2>1, <2>2, MinIs
  <2>4. m \in k + 1..n /\ fs[m].load # NoFile /\ m \in 1..n
    BY <1>1, <2>1, <2>3 DEF LoadsOver
  <2>5. fs[m].back = HomeAt(fs, m - 1)
    BY <2>4 DEF GoodFrames, n
  <2>6. \A j \in k + 1..m - 1 : j \notin L /\ j \in k + 1..n
    BY <1>1, <2>3, <2>4
  <2>7. \A j \in k + 1..m - 1 : fs[j].load = NoFile
    BY <2>6 DEF LoadsOver, n
  <2>8. m - 1 \in Nat /\ k \in 0..m - 1
    BY <1>1, <2>4
  <2>9. HomeAt(fs, m - 1) = HomeAt(fs, k)
    BY <2>7, <2>8, HomeSkips
  <2> QED BY <1>3, <2>2, <2>5, <2>9 DEF PathLeft
<1> QED BY <1>2, <1>3

(* The frames it gets to.                                                  *)
LEMMA SubAlike ==
  ASSUME NEW fs, GoodFrames(fs), NEW k \in 1..Len(fs)
  PROVE  LET gs == SubSeq(fs, 1, k)
         IN  /\ GoodFrames(gs) /\ Len(gs) = k /\ HomeAt(gs, k) = HomeAt(fs, k) /\ Len(gs) >= 1
             /\ \A j \in 1..k : gs[j] = fs[j]
<1> DEFINE gs == SubSeq(fs, 1, k)
<1>1. Len(fs) \in Nat /\ k \in 0..Len(fs) /\ k >= 1 /\ IsSeq(fs) /\ \A j \in 1..k : j \in 1..Len(fs)
  BY SeqFacts DEF GoodFrames
<1>2. IsSeq(gs) /\ Len(gs) = k /\ \A j \in 1..k : gs[j] = fs[j]
  BY <1>1, SubFrames
<1> HIDE DEF gs
<1>3. SameLoads(gs, fs, k) /\ \A j \in 1..k : Shape(gs[j])
  BY <1>1, <1>2 DEF SameLoads, GoodFrames
<1>4. GoodFrames(gs) /\ HomeAt(gs, k) = HomeAt(fs, k)
  BY <1>2, <1>3, GoodSame
<1> QED BY <1>1, <1>2, <1>4 DEF gs

(* The catch of a block only changes values and blocks.                    *)
LEMMA CaughtAlike ==
  ASSUME NEW fs, GoodFrames(fs)
  PROVE  Alike(Caught(fs), fs)
<1>1. IsSeq(fs) /\ Len(fs) >= 1 /\ Len(fs) \in Nat /\ \A j \in 1..Len(fs) : Shape(fs[j])
  BY SeqFacts DEF GoodFrames
<1>2. Last(fs) = fs[Len(fs)] /\ Len(fs) \in 1..Len(fs)
  BY <1>1 DEF Last
<1>3. ASSUME NEW a, NEW b, NEW c
      PROVE  Becomes([Last(fs) EXCEPT !.blocks = a, !.ip = b, !.vals = c], Last(fs))
  BY <1>1, <1>2 DEF Becomes, Shape
<1>4. PICK f : Caught(fs) = Append(Front(fs), f) /\ Becomes(f, Last(fs))
  BY <1>3 DEF Caught
<1> QED BY <1>1, <1>4, AlikeTop

(* The modules that are left are absent, or loaded.                        *)
LEMMA LeftMarks ==
  ASSUME FileAssumption, MarkInv, NEW t \in Thread, Len(Frames(t)) \in Nat, NEW fs, Alike(fs, Frames(t)),
         NEW k \in 0..Len(fs), NEW l \in 0..k, l = k \/ k = l + 1,
         Len(Frames(t)') = l, \A j \in 1..l : Frames(t)'[j].load = Frames(t)[j].load,
         \A u \in Thread : u # t => Frames(u)' = Frames(u),
         l = k => loaded' = Left(LoadsOver(fs, k), fs),
         l # k => loaded' = [Left(LoadsOver(fs, k), fs) EXCEPT ![fs[k].load] = "object"]
  PROVE  MarkInv'
<1> DEFINE n == Len(fs)
           M == Left(LoadsOver(fs, k), fs)
<1>1. n = Len(Frames(t)) /\ n \in Nat /\ k \in 0..n /\ l \in 0..n /\ \A j \in 1..n : fs[j].load = Frames(t)[j].load
  BY DEF Alike, SameLoads
<1>2. DOMAIN M = DOMAIN Files
      /\ \A id \in DOMAIN Files : M[id] = IF \E j \in LoadsOver(fs, k) : fs[j].load = id THEN "absent" ELSE loaded[id]
  BY DEF Left, MarkInv
<1> HIDE DEF n, M
<1>3. \A j \in l + 1..n : j \in 1..n /\ (j \in k + 1..n \/ (l # k /\ j = k))
  BY <1>1
<1>4. \A j \in k + 1..n : j \in l + 1..n /\ j \in 1..n
  BY <1>1
<1>5. l # k => k \in l + 1..n /\ k \in 1..n
  BY <1>1
<1>6. \A id \in DOMAIN Files : id # NoFile
  BY DEF FileAssumption
<1>7. DOMAIN loaded' = DOMAIN loaded
  BY <1>2 DEF M, MarkInv
<1>8. ASSUME NEW id \in DOMAIN Files
      PROVE  IF \E j \in l + 1..n : Frames(t)[j].load = id THEN loaded'[id] # "none"
             ELSE loaded'[id] = "none" <=> loaded[id] = "none"
  <2>1. CASE \E j \in LoadsOver(fs, k) : fs[j].load = id
    <3>1. PICK j \in LoadsOver(fs, k) : fs[j].load = id
      BY <2>1
    <3>2. j \in l + 1..n /\ Frames(t)[j].load = id
      BY <1>1, <1>4, <3>1 DEF LoadsOver, n
    <3>3. M[id] = "absent"
      BY <1>2, <2>1
    <3>4. loaded'[id] # "none"
      BY <1>2, <3>3 DEF M
    <3> QED BY <3>2, <3>4
  <2>2. CASE ~ \E j \in LoadsOver(fs, k) : fs[j].load = id
    <3>1. \A j \in k + 1..n : fs[j].load # id
      BY <1>6, <2>2 DEF LoadsOver, n
    <3>2. M[id] = loaded[id]
      BY <1>2, <2>2
    <3>3. CASE l # k /\ fs[k].load = id
      <4>1. loaded'[id] # "none"
        BY <1>2, <3>3 DEF M
      <4>2. \E j \in l + 1..n : Frames(t)[j].load = id
        BY <1>1, <1>5, <3>3
      <4> QED BY <4>1, <4>2
    <3>4. CASE ~ (l # k /\ fs[k].load = id)
      <4>1. loaded'[id] = loaded[id]
        BY <1>2, <3>2, <3>4 DEF M
      <4>2. \A j \in l + 1..n : fs[j].load # id
        BY <1>3, <3>1, <3>4
      <4>3. \A j \in l + 1..n : Frames(t)[j].load # id
        BY <1>1, <1>3, <4>2
      <4> QED BY <4>1, <4>3
    <3> QED BY <3>3, <3>4
  <2> QED BY <2>1, <2>2
<1>9. l \in 0..Len(Frames(t))
  BY <1>1
<1> QED BY <1>1, <1>7, <1>8, <1>9, MarkMove

(* An exception restores the path and the marks of all loads that it leaves. *)
LEMMA RaiseStep ==
  ASSUME FileAssumption, ModInv, NEW t \in Thread, Runs(t), NEW fs, Alike(fs, Frames(t)), Raise(t, fs)
  PROVE  ModInv'
<1> DEFINE k == Stop(fs)
           M == Left(LoadsOver(fs, k), fs)
<1>1. /\ PathInv /\ MarkInv /\ GoodFrames(Frames(t)) /\ cur = HomeAt(Frames(t), Len(Frames(t)))
      /\ Len(Frames(t)) \in Nat
  BY RunsFacts DEF ModInv, PathOf
<1>2. GoodFrames(fs) /\ cur = HomeAt(fs, Len(fs)) /\ Len(fs) = Len(Frames(t))
  BY <1>1, AlikeIsGood DEF Alike
<1>3. IsSeq(fs) /\ fs[1].load = NoFile /\ \A j \in 1..Len(fs) : fs[j].load = Frames(t)[j].load
  BY <1>2 DEF GoodFrames, Alike, SameLoads
<1>4. k \in 0..Len(fs) /\ k \in Nat /\ (k # 0 => Catching(fs[k]) # {} \/ fs[k].load \in Caches)
  BY <1>1, <1>2, <1>3, StopIs
<1>5. \/ k = 0 /\ Over(t) /\ loaded' = M
      \/ /\ k > 0 /\ Catching(fs[k]) # {}
         /\ Replace(t, Caught(SubSeq(fs, 1, k))) /\ loaded' = M /\ cur' = PathLeft(fs, k) /\ gil' = gil
      \/ /\ k > 0 /\ Catching(fs[k]) = {}
         /\ Replace(t, Deliver(SubSeq(fs, 1, k - 1)))
         /\ loaded' = [M EXCEPT ![fs[k].load] = "object"] /\ cur' = fs[k].back /\ gil' = gil
  <2>1. k = 0 \/ (k > 0 /\ Catching(fs[k]) # {}) \/ (k > 0 /\ Catching(fs[k]) = {})
    BY <1>4
  <2> QED BY <2>1 DEF Raise, Stop, LoadsOver, PathLeft
<1> HIDE DEF k, M
<1>6. CASE k = 0 /\ Over(t) /\ loaded' = M
  <2>1. PathInv' /\ Frames(t)' = <<>> /\ \A u \in Thread : u # t => Frames(u)' = Frames(u)
    BY <1>1, <1>6, PathOver
  <2>2. Len(Frames(t)') = 0 /\ \A j \in 1..0 : FALSE
    BY <2>1
  <2>3. k \in 0..Len(fs) /\ k \in 0..k /\ Len(Frames(t)') = k /\ \A j \in 1..k : FALSE
    BY <1>4, <1>6, <2>2
  <2>4. loaded' = Left(LoadsOver(fs, k), fs)
    BY <1>6 DEF M
  <2>5. MarkInv'
    BY <1>1, <2>1, <2>3, <2>4, LeftMarks
  <2> QED BY <2>1, <2>5 DEF ModInv
<1>7. CASE /\ k > 0 /\ Catching(fs[k]) # {}
           /\ Replace(t, Caught(SubSeq(fs, 1, k))) /\ loaded' = M /\ cur' = PathLeft(fs, k) /\ gil' = gil
  <2> DEFINE gs == SubSeq(fs, 1, k)
  <2>1. k \in 1..Len(fs)
    BY <1>4, <1>7
  <2>2. GoodFrames(gs) /\ Len(gs) = k /\ HomeAt(gs, k) = HomeAt(fs, k) /\ \A j \in 1..k : gs[j] = fs[j]
    BY <1>2, <2>1, SubAlike
  <2> HIDE DEF gs
  <2>3. Alike(Caught(gs), gs)
    BY <2>2, CaughtAlike
  <2>4. GoodFrames(Caught(gs)) /\ HomeAt(Caught(gs), Len(Caught(gs))) = HomeAt(fs, k) /\ Len(Caught(gs)) = k
    BY <2>2, <2>3, AlikeIsGood DEF Alike
  <2>5. cur' = HomeAt(fs, k)
    BY <1>2, <1>4, <1>7, PathOverIs
  <2>6. Replace(t, Caught(gs)) /\ gil' = gil
    BY <1>7 DEF gs
  <2>7. PathInv'
    BY <1>1, <2>4, <2>5, <2>6, PathMove
  <2>8. Frames(t)' = Caught(gs) /\ \A u \in Thread : u # t => Frames(u)' = Frames(u)
    BY <1>1, <2>6, ReplaceIs
  <2>9. Len(Frames(t)') = k /\ \A j \in 1..k : Frames(t)'[j].load = Frames(t)[j].load
    <3>1. \A j \in 1..k : j \in 1..Len(fs)
      BY <1>1, <1>2, <1>4
    <3> QED BY <1>3, <2>2, <2>3, <2>4, <2>8, <3>1 DEF Alike, SameLoads
  <2>10. loaded' = Left(LoadsOver(fs, k), fs) /\ k \in 0..k
    BY <1>4, <1>7 DEF M
  <2>11. MarkInv'
    BY <1>1, <1>4, <2>8, <2>9, <2>10, LeftMarks
  <2> QED BY <2>7, <2>11 DEF ModInv
<1>8. CASE /\ k > 0 /\ Catching(fs[k]) = {}
           /\ Replace(t, Deliver(SubSeq(fs, 1, k - 1)))
           /\ loaded' = [M EXCEPT ![fs[k].load] = "object"] /\ cur' = fs[k].back /\ gil' = gil
  <2>1. fs[k].load \in Caches /\ fs[k].load # NoFile /\ k \in 1..Len(fs)
    BY <1>4, <1>8 DEF FileAssumption, Caches
  <2>2. PICK l : l = k - 1
    OBVIOUS
  <2>3. k # 1
    BY <1>3, <2>1
  <2>4. l \in 1..Len(fs) /\ l \in 0..k /\ k = l + 1 /\ l # k
    BY <1>1, <1>2, <1>4, <2>2, <2>3, <2>1
  <2>5. fs[k].back = HomeAt(fs, l)
    BY <1>2, <2>1, <2>2 DEF GoodFrames
  <2> DEFINE gs == SubSeq(fs, 1, l)
  <2>6. /\ GoodFrames(gs) /\ Len(gs) = l /\ HomeAt(gs, l) = HomeAt(fs, l) /\ Len(gs) >= 1
        /\ \A j \in 1..l : gs[j] = fs[j]
    BY <1>2, <2>4, SubAlike
  <2> HIDE DEF gs
  <2>7. IsSeq(gs) /\ \A j \in 1..Len(gs) : Shape(gs[j])
    BY <2>6 DEF GoodFrames
  <2>8. Alike(Deliver(gs), gs)
    BY <2>6, <2>7, DeliverAlike
  <2>9. GoodFrames(Deliver(gs)) /\ HomeAt(Deliver(gs), Len(Deliver(gs))) = HomeAt(fs, l) /\ Len(Deliver(gs)) = l
    BY <2>6, <2>8, AlikeIsGood DEF Alike
  <2>10. Replace(t, Deliver(gs)) /\ gil' = gil /\ cur' = HomeAt(fs, l)
    BY <1>8, <2>2, <2>5 DEF gs
  <2>11. PathInv'
    BY <1>1, <2>9, <2>10, PathMove
  <2>12. Frames(t)' = Deliver(gs) /\ \A u \in Thread : u # t => Frames(u)' = Frames(u)
    BY <1>1, <2>10, ReplaceIs
  <2>13. Len(Frames(t)') = l /\ \A j \in 1..l : Frames(t)'[j].load = Frames(t)[j].load
    <3>1. \A j \in 1..l : j \in 1..Len(fs)
      BY <1>1, <1>2, <2>4
    <3> QED BY <1>3, <2>6, <2>8, <2>9, <2>12, <3>1 DEF Alike, SameLoads
  <2>14. loaded' = [Left(LoadsOver(fs, k), fs) EXCEPT ![fs[k].load] = "object"]
    BY <1>8 DEF M
  <2>15. MarkInv'
    BY <1>1, <1>4, <2>4, <2>12, <2>13, <2>14, LeftMarks
  <2> QED BY <2>11, <2>15 DEF ModInv
<1> QED BY <1>5, <1>6, <1>7, <1>8

(* A frame that loads nothing changes no mark.                             *)
LEMMA MarkCall ==
  ASSUME FileAssumption, MarkInv, NEW t \in Thread, Len(Frames(t)) \in Nat,
         NEW fs, Len(fs) = Len(Frames(t)), \A j \in 1..Len(fs) : fs[j].load = Frames(t)[j].load,
         NEW gs, Len(gs) = Len(fs) + 1, \A j \in 1..Len(fs) : gs[j] = fs[j],
         NEW g, g.load = NoFile, gs[Len(fs) + 1] = g,
         Frames(t)' = gs, \A u \in Thread : u # t => Frames(u)' = Frames(u), loaded' = loaded
  PROVE  MarkInv'
<1>1. \A j \in 1..Len(gs) : j \in 1..Len(fs) \/ j = Len(fs) + 1
  OBVIOUS
<1>2. \A j \in 1..Len(fs) : j \in 1..Len(gs)
  OBVIOUS
<1>3. \A id \in DOMAIN Files : id # NoFile
  BY DEF FileAssumption
<1>4. ASSUME NEW u \in Thread, NEW j, NEW id \in DOMAIN Files
      PROVE  Loads(u, j, id)' <=> Loads(u, j, id)
  <2>1. CASE u = t
    BY <1>1, <1>2, <1>3, <2>1 DEF Loads
  <2>2. CASE u # t
    BY <2>2 DEF Loads
  <2> QED BY <2>1, <2>2
<1> QED BY <1>4 DEF MarkInv

(***************************************************************************)
(* Imports.                                                                *)
(***************************************************************************)

(* What is found is a file.                                                *)
LEMMA FoundIsFile ==
  ASSUME FileAssumption, NEW name, Found(name) # {}
  PROVE  Candidates(name)[Min(Found(name))] \in DOMAIN Files
<1> DEFINE dirs == <<cur>> \o Reverse(ModPaths)
           hits == Found(name)
<1>1. Len(dirs) \in Nat
  <2>1. ModPaths \in Seq(STRING) /\ Len(ModPaths) \in Nat
    BY DEF FileAssumption
  <2>2. Len(Reverse(ModPaths)) \in Nat /\ Reverse(ModPaths) \in Seq(STRING)
    BY <2>1 DEF Reverse
  <2>3. PICK S : <<cur>> \in Seq(S) /\ Reverse(ModPaths) \in Seq(S)
    <3>1. <<cur>> \in Seq({cur} \cup STRING) /\ Reverse(ModPaths) \in Seq({cur} \cup STRING)
      BY <2>2
    <3> QED BY <3>1
  <2> QED BY <2>3
<1>2. DOMAIN Candidates(name) = 1 .. 6 * Len(dirs)
  BY DEF Candidates
<1> HIDE DEF dirs, hits
<1>3. hits \subseteq DOMAIN Candidates(name) /\ \A n \in hits : Candidates(name)[n] \in DOMAIN Files
  BY DEF Found, hits
<1>4. hits \subseteq Nat
  BY <1>1, <1>2, <1>3
<1>5. Min(hits) \in hits
  BY <1>4, MinIs DEF hits
<1> QED BY <1>3, <1>5 DEF hits

(* import of a file, of one that is loaded, and of one that is not there.  *)
LEMMA ImportStep ==
  ASSUME FileAssumption, ModInv, NEW t \in Thread, Runs(t), NEW fs, Alike(fs, Frames(t)),
         NEW name, Import(t, name, fs)
  PROVE  ModInv'
<1> DEFINE id == Candidates(name)[Min(Found(name))]
           unit == disk[id].at[written[id]]
<1>1. /\ PathInv /\ MarkInv /\ GoodFrames(Frames(t)) /\ cur = HomeAt(Frames(t), Len(Frames(t)))
      /\ Len(Frames(t)) \in Nat
  BY RunsFacts DEF ModInv, PathOf
<1>2. GoodFrames(fs) /\ cur = HomeAt(fs, Len(fs)) /\ Len(fs) = Len(Frames(t))
  BY <1>1, AlikeIsGood DEF Alike
<1>3. IsSeq(fs) /\ Len(fs) >= 1 /\ (\A j \in 1..Len(fs) : Shape(fs[j]) /\ fs[j].load = Frames(t)[j].load)
  BY <1>2 DEF GoodFrames, Alike, SameLoads
<1>4. DOMAIN loaded = DOMAIN Files
  BY <1>1 DEF MarkInv
<1>5. \/ Raise(t, fs)
      \/ Replace(t, Deliver(fs)) /\ Quiet
      \/ /\ Found(name) # {} /\ loaded[id] = "absent" /\ Replace(t, Deliver(fs))
         /\ loaded' = [loaded EXCEPT ![id] = "object"] /\ cur' = cur /\ gil' = gil
      \/ /\ Found(name) # {} /\ loaded[id] = "absent"
         /\ cur' = Files[id].base /\ loaded' = [loaded EXCEPT ![id] = "none"] /\ gil' = gil
         /\ Replace(t, Append(fs, Frame(Root(unit), id, id, cur)))
  BY DEF Import
<1>6. Found(name) # {} => id \in DOMAIN Files
  BY FoundIsFile
<1> HIDE DEF id, unit
<1>7. Alike(Deliver(fs), Frames(t))
  BY <1>3, DeliverAlike, AlikeTrans
<1>8. CASE Raise(t, fs)
  BY <1>8, RaiseStep
<1>9. CASE Replace(t, Deliver(fs)) /\ Quiet
  BY <1>7, <1>9, SameMove DEF Quiet
<1>10. CASE /\ Found(name) # {} /\ loaded[id] = "absent" /\ Replace(t, Deliver(fs))
            /\ loaded' = [loaded EXCEPT ![id] = "object"] /\ cur' = cur /\ gil' = gil
  <2>1. DOMAIN loaded' = DOMAIN loaded /\ \A m \in DOMAIN Files : loaded'[m] = "none" <=> loaded[m] = "none"
    BY <1>4, <1>10
  <2> QED BY <1>7, <1>10, <2>1, SameMove
<1>11. CASE /\ Found(name) # {} /\ loaded[id] = "absent"
            /\ cur' = Files[id].base /\ loaded' = [loaded EXCEPT ![id] = "none"] /\ gil' = gil
            /\ Replace(t, Append(fs, Frame(Root(unit), id, id, cur)))
  <2>1. PICK f : f = Frame(Root(unit), id, id, cur)
    OBVIOUS
  <2>2. id \in DOMAIN Files /\ id # NoFile
    BY <1>6, <1>11 DEF FileAssumption
  <2>3. Shape(f) /\ f.load = id /\ f.back = cur /\ f.home = Files[id].base
    BY <2>1, <2>2 DEF Frame, Shape
  <2> DEFINE gs == Append(fs, f)
  <2>4. GoodFrames(gs) /\ Len(gs) = Len(fs) + 1 /\ HomeAt(gs, Len(gs)) = Files[id].base
    BY <1>2, <2>2, <2>3, GoodMore
  <2>5. gs[Len(fs) + 1] = f /\ \A j \in 1..Len(fs) : gs[j] = fs[j]
    BY <1>3, OneFrameMore
  <2> HIDE DEF gs
  <2>6. Replace(t, gs) /\ gil' = gil /\ cur' = Files[id].base
    BY <1>11, <2>1 DEF gs
  <2>7. PathInv'
    BY <1>1, <2>4, <2>6, PathMove
  <2>8. Frames(t)' = gs /\ \A u \in Thread : u # t => Frames(u)' = Frames(u)
    BY <1>1, <2>6, ReplaceIs
  <2>9. /\ Len(Frames(t)') = Len(Frames(t)) + 1
        /\ \A j \in 1..Len(Frames(t)) : Frames(t)'[j].load = Frames(t)[j].load
        /\ Frames(t)'[Len(Frames(t)) + 1].load = id
    BY <1>2, <1>3, <2>3, <2>4, <2>5, <2>8
  <2>10. MarkInv'
    BY <1>1, <1>11, <2>2, <2>8, <2>9, MarkLoad
  <2> QED BY <2>7, <2>10 DEF ModInv
<1> QED BY <1>5, <1>8, <1>9, <1>10, <1>11

(***************************************************************************)
(* Steps.                                                                  *)
(***************************************************************************)

(* The frame at the top changes, but not what it loads.                    *)
LEMMA TopStep ==
  ASSUME ModInv, NEW t \in Thread, Runs(t), NEW f, Becomes(f, Top(t)), ToTop(t, f), Quiet
  PROVE  ModInv'
<1>1. IsSeq(Frames(t)) /\ Len(Frames(t)) >= 1 /\ \A j \in 1..Len(Frames(t)) : Shape(Frames(t)[j])
  BY RunsFacts DEF ModInv
<1>2. Alike(Append(Front(Frames(t)), f), Frames(t))
  BY <1>1, AlikeTop DEF Top
<1> QED BY <1>2, SameMove DEF ToTop, Quiet

(* An instruction steps on in the frame at the top.                        *)
LEMMA Steps ==
  ASSUME ModInv, NEW t \in Thread, Runs(t), NEW vals
  PROVE  /\ Becomes(Step(Top(t), vals), Top(t)) /\ Shape(Top(t))
         /\ Alike(Append(Front(Frames(t)), Step(Top(t), vals)), Frames(t))
<1>1. IsSeq(Frames(t)) /\ Len(Frames(t)) >= 1 /\ Len(Frames(t)) \in Nat /\ \A j \in 1..Len(Frames(t)) : Shape(Frames(t)[j])
  BY RunsFacts DEF ModInv
<1>2. Top(t) = Frames(t)[Len(Frames(t))] /\ Len(Frames(t)) \in 1..Len(Frames(t))
  BY <1>1 DEF Top, Last
<1>3. Shape(Top(t))
  BY <1>1, <1>2
<1>4. Becomes(Step(Top(t), vals), Top(t))
  BY <1>3 DEF Becomes, Shape, Step
<1> QED BY <1>1, <1>3, <1>4, AlikeTop DEF Top

(* Instructions that call nothing.                                         *)
LEMMA SimpleStep ==
  ASSUME ModInv, NEW t \in Thread, Simple(t)
  PROVE  ModInv'
<1>1. PICK vals : Runs(t) /\ ToTop(t, Step(Top(t), vals)) /\ Quiet
  BY DEF Simple
<1> QED BY <1>1, Steps, TopStep

(* Calls.                                                                  *)
LEMMA InvokeStep ==
  ASSUME FileAssumption, ModInv, NEW t \in Thread, Invoke(t)
  PROVE  ModInv'
<1> DEFINE f == Top(t)
           i == Instr(t)
           callee == f.vals[Len(f.vals) - i.arg]
           fs == Append(Front(Frames(t)), Step(f, Without(f, i.arg + 1)))
<1>1. /\ Runs(t)
      /\ \/ Import(t, Last(f.vals).s, fs)
         \/ Replace(t, Append(fs, Frame(callee.fn, f.of, NoFile, NoFile))) /\ Quiet
         \/ Replace(t, Deliver(fs)) /\ Quiet
  BY DEF Invoke
<1>2. Alike(fs, Frames(t))
  BY <1>1, Steps
<1>3. /\ PathInv /\ MarkInv /\ GoodFrames(Frames(t)) /\ cur = HomeAt(Frames(t), Len(Frames(t)))
      /\ Len(Frames(t)) \in Nat
  BY <1>1, RunsFacts DEF ModInv, PathOf
<1> HIDE DEF f, i, callee, fs
<1>4. GoodFrames(fs) /\ cur = HomeAt(fs, Len(fs)) /\ Len(fs) = Len(Frames(t))
  BY <1>2, <1>3, AlikeIsGood DEF Alike
<1>5. IsSeq(fs) /\ Len(fs) >= 1 /\ (\A j \in 1..Len(fs) : Shape(fs[j]) /\ fs[j].load = Frames(t)[j].load)
  BY <1>2, <1>4 DEF GoodFrames, Alike, SameLoads
<1>6. CASE Import(t, Last(f.vals).s, fs)
  BY <1>1, <1>2, <1>6, ImportStep
<1>7. CASE Replace(t, Append(fs, Frame(callee.fn, f.of, NoFile, NoFile))) /\ Quiet
  <2>1. PICK g : g = Frame(callee.fn, f.of, NoFile, NoFile)
    OBVIOUS
  <2>2. Shape(g) /\ g.load = NoFile
    BY <2>1 DEF Frame, Shape
  <2> DEFINE gs == Append(fs, g)
  <2>3. GoodFrames(gs) /\ Len(gs) = Len(fs) + 1 /\ HomeAt(gs, Len(gs)) = HomeAt(fs, Len(fs))
    BY <1>4, <2>2, GoodMore
  <2>4. gs[Len(fs) + 1] = g /\ \A j \in 1..Len(fs) : gs[j] = fs[j]
    BY <1>5, OneFrameMore
  <2> HIDE DEF gs
  <2>5. Replace(t, gs) /\ gil' = gil /\ cur' = cur /\ loaded' = loaded
    BY <1>7, <2>1 DEF gs, Quiet
  <2>6. PathInv'
    BY <1>1, <1>3, <1>4, <2>3, <2>5, PathMove
  <2>7. Frames(t)' = gs /\ \A u \in Thread : u # t => Frames(u)' = Frames(u)
    BY <1>3, <2>5, ReplaceIs
  <2>8. MarkInv'
    BY <1>3, <1>4, <1>5, <2>2, <2>3, <2>4, <2>5, <2>7, MarkCall
  <2> QED BY <2>6, <2>8 DEF ModInv
<1>8. CASE Replace(t, Deliver(fs)) /\ Quiet
  <2>1. Alike(Deliver(fs), Frames(t))
    BY <1>2, <1>5, DeliverAlike, AlikeTrans
  <2> QED BY <1>1, <1>8, <2>1, SameMove DEF Quiet
<1> QED BY <1>1, <1>6, <1>7, <1>8

(* A thread joins: it releases the lock, or raises.                        *)
LEMMA JoinStep ==
  ASSUME FileAssumption, ModInv, NEW t \in Thread, Join(t)
  PROVE  ModInv'
<1> DEFINE fs == Append(Front(Frames(t)), Step(Top(t), Without(Top(t), Instr(t).arg + 1)))
<1>1. /\ Runs(t)
      /\ \/ Raise(t, fs)
         \/ /\ run' = [run EXCEPT ![t].st = "joins", ![t].frames = Deliver(fs)]
            /\ gil' = "free" /\ loaded' = loaded
  BY DEF Join
<1>2. Alike(fs, Frames(t))
  BY <1>1, Steps
<1>3. /\ PathInv /\ MarkInv /\ GoodFrames(Frames(t)) /\ run[t].st = "runs"
      /\ \A u \in Thread : u # t => run[u].st # "runs"
  BY <1>1, RunsFacts DEF ModInv
<1> HIDE DEF fs
<1>4. CASE Raise(t, fs)
  BY <1>1, <1>2, <1>4, RaiseStep
<1>5. CASE /\ run' = [run EXCEPT ![t].st = "joins", ![t].frames = Deliver(fs)]
           /\ gil' = "free" /\ loaded' = loaded
  <2>1. IsSeq(fs) /\ Len(fs) >= 1 /\ \A j \in 1..Len(fs) : Shape(fs[j])
    BY <1>2, <1>3, AlikeIsGood DEF GoodFrames
  <2>2. Alike(Deliver(fs), Frames(t))
    BY <1>2, <2>1, DeliverAlike, AlikeTrans
  <2>3. GoodFrames(Deliver(fs))
    BY <1>3, <2>2, AlikeIsGood
  <2>4. /\ DOMAIN run' = Thread /\ {"st", "path", "frames"} \subseteq DOMAIN run'[t]
        /\ run'[t].st = "joins" /\ Frames(t)' = Deliver(fs)
        /\ \A u \in Thread : u # t => run'[u] = run[u] /\ Frames(u)' = Frames(u)
    BY <1>3, <1>5 DEF PathInv, PathAt, Frames
  <2>5. PathAt(t)'
    BY <2>3, <2>4 DEF PathAt
  <2>6. ASSUME NEW u \in Thread, u # t
        PROVE  PathAt(u)'
    <3>1. PathAt(u)
      BY <1>3 DEF PathInv
    <3>2. run'[u] = run[u] /\ Frames(u)' = Frames(u) /\ run[u].st # "runs"
      BY <1>3, <2>4, <2>6
    <3> QED BY <3>1, <3>2 DEF PathAt, PathOf
  <2>7. PathInv'
    BY <2>4, <2>5, <2>6 DEF PathInv
  <2>8. MarkInv'
    BY <1>3, <1>5, <2>2, <2>4, MarkSame DEF Alike, SameLoads
  <2> QED BY <2>7, <2>8 DEF ModInv
<1> QED BY <1>1, <1>4, <1>5

(* The end of a function, a module or a thread.                            *)
LEMMA ReturnStep ==
  ASSUME FileAssumption, ModInv, NEW t \in Thread, Return(t)
  PROVE  ModInv'
<1> DEFINE fs == Frames(t)
           n  == Len(fs)
           f  == Top(t)
<1>1. /\ Runs(t) /\ PathInv /\ MarkInv /\ GoodFrames(fs) /\ cur = HomeAt(fs, n) /\ n \in Nat /\ n >= 1
      /\ IsSeq(fs) /\ fs[1].load = NoFile /\ \A j \in 1..n : Shape(fs[j])
  BY RunsFacts DEF ModInv, PathOf, Return, GoodFrames
<1>2. f = fs[n]
  BY DEF Top, Last
<1>3. \/ n = 1 /\ Over(t) /\ cur' = cur /\ loaded' = loaded
      \/ /\ n # 1 /\ Replace(t, Deliver(Front(fs))) /\ gil' = gil
         /\ loaded' = IF f.load = NoFile THEN loaded ELSE [loaded EXCEPT ![f.load] = "object"]
         /\ cur' = IF f.load = NoFile THEN cur ELSE f.back
  BY DEF Return
<1>4. \A id \in DOMAIN Files : id # NoFile
  BY DEF FileAssumption
<1>5. DOMAIN loaded = DOMAIN Files
  BY <1>1 DEF MarkInv
<1>6. CASE n = 1 /\ Over(t) /\ cur' = cur /\ loaded' = loaded
  <2>1. PathInv' /\ Frames(t)' = <<>> /\ \A u \in Thread : u # t => Frames(u)' = Frames(u)
    BY <1>1, <1>6, PathOver
  <2>2. PICK k : k = 0
    OBVIOUS
  <2>3. k \in 0..n /\ Len(Frames(t)') = k /\ \A j \in 1..k : FALSE
    BY <1>1, <2>1, <2>2
  <2>4. \A j \in k + 1..n : fs[j].load = NoFile
    BY <1>1, <1>6, <2>2
  <2>5. \A id \in DOMAIN Files : ~ \E j \in k + 1..n : fs[j].load = id
    BY <1>4, <2>4
  <2>6. MarkInv'
    BY <1>1, <1>6, <2>1, <2>3, <2>5, MarkMove
  <2> QED BY <2>1, <2>6 DEF ModInv
<1>7. CASE /\ n # 1 /\ Replace(t, Deliver(Front(fs))) /\ gil' = gil
           /\ loaded' = IF f.load = NoFile THEN loaded ELSE [loaded EXCEPT ![f.load] = "object"]
           /\ cur' = IF f.load = NoFile THEN cur ELSE f.back
  <2>1. PICK l : l = n - 1
    OBVIOUS
  <2>2. l \in 1..n /\ l \in 0..n /\ n = l + 1 /\ l \in Nat
    <3>1. \A a \in Nat, b \in Nat : a >= 1 /\ a # 1 /\ b = a - 1 => b \in 1..a /\ b \in 0..a /\ a = b + 1
      OBVIOUS
    <3>2. n \in Nat /\ n >= 1 /\ n # 1 /\ l \in Nat
      BY <1>1, <1>7, <2>1
    <3> HIDE DEF n
    <3> QED BY <2>1, <3>1, <3>2
  <2>3. PICK gs : gs = Front(fs)
    OBVIOUS
  <2>4. gs = SubSeq(fs, 1, l)
    BY <2>1, <2>3 DEF Front
  <2>5. /\ GoodFrames(gs) /\ Len(gs) = l /\ HomeAt(gs, l) = HomeAt(fs, l) /\ Len(gs) >= 1
        /\ \A j \in 1..l : gs[j] = fs[j]
    BY <1>1, <2>2, <2>4, SubAlike
  <2>6. IsSeq(gs) /\ \A j \in 1..Len(gs) : Shape(gs[j])
    BY <2>5 DEF GoodFrames
  <2>7. Alike(Deliver(gs), gs)
    BY <2>5, <2>6, DeliverAlike
  <2>8. GoodFrames(Deliver(gs)) /\ HomeAt(Deliver(gs), Len(Deliver(gs))) = HomeAt(fs, l) /\ Len(Deliver(gs)) = l
    BY <2>5, <2>7, AlikeIsGood DEF Alike
  <2>9. cur' = HomeAt(fs, l)
    <3>1. CASE f.load = NoFile
      <4>1. \A j \in l + 1..n : fs[j].load = NoFile
        BY <1>1, <1>2, <2>2, <3>1
      <4>2. HomeAt(fs, n) = HomeAt(fs, l)
        BY <1>1, <2>2, <4>1, HomeSkips
      <4> QED BY <1>1, <1>7, <3>1, <4>2
    <3>2. CASE f.load # NoFile
      <4>1. n \in 1..n
        BY <1>1
      <4>2. fs[n].back = HomeAt(fs, n - 1)
        BY <1>1, <1>2, <3>2, <4>1 DEF GoodFrames
      <4> QED BY <1>2, <1>7, <2>1, <3>2, <4>2
    <3> QED BY <3>1, <3>2
  <2>10. Replace(t, Deliver(gs)) /\ gil' = gil
    BY <1>7, <2>3
  <2>11. PathInv'
    BY <1>1, <2>8, <2>9, <2>10, PathMove
  <2>12. Frames(t)' = Deliver(gs) /\ \A u \in Thread : u # t => Frames(u)' = Frames(u)
    BY <1>1, <2>10, ReplaceIs
  <2>13. Len(Frames(t)') = l /\ \A j \in 1..l : Frames(t)'[j].load = Frames(t)[j].load
    BY <2>5, <2>7, <2>8, <2>12 DEF Alike, SameLoads
  <2>14. \A id \in DOMAIN Files : (\E j \in l + 1..n : fs[j].load = id) <=> f.load = id
    BY <1>1, <1>2, <2>2
  <2>15. DOMAIN loaded' = DOMAIN loaded
         /\ \A id \in DOMAIN Files : IF f.load = id THEN loaded'[id] = "object" ELSE loaded'[id] = loaded[id]
    BY <1>4, <1>5, <1>7
  <2>16. \A id \in DOMAIN Files : IF \E j \in l + 1..n : fs[j].load = id THEN loaded'[id] # "none"
                                  ELSE loaded'[id] = "none" <=> loaded[id] = "none"
    BY <2>14, <2>15
  <2>17. MarkInv'
    BY <1>1, <2>2, <2>12, <2>13, <2>15, <2>16, MarkMove
  <2> QED BY <2>11, <2>17 DEF ModInv
<1> QED BY <1>3, <1>6, <1>7

(* RAISE.                                                                  *)
LEMMA ThrowStep ==
  ASSUME FileAssumption, ModInv, NEW t \in Thread, Throw(t)
  PROVE  ModInv'
<1>1. Runs(t) /\ Raise(t, Frames(t))
  BY DEF Throw
<1>2. Alike(Frames(t), Frames(t))
  BY <1>1, RunsFacts DEF ModInv, Alike, SameLoads
<1> QED BY <1>1, <1>2, RaiseStep

(* JUMP.                                                                   *)
LEMMA JumpStep ==
  ASSUME ModInv, NEW t \in Thread, Jump(t)
  PROVE  ModInv'
<1>1. Runs(t) /\ ToTop(t, [Top(t) EXCEPT !.ip = @ + Instr(t).arg]) /\ Quiet
  BY DEF Jump
<1>2. Shape(Top(t))
  BY <1>1, Steps
<1>3. PICK f : f = [Top(t) EXCEPT !.ip = @ + Instr(t).arg]
  OBVIOUS
<1>4. Becomes(f, Top(t))
  BY <1>2, <1>3 DEF Becomes, Shape
<1> QED BY <1>1, <1>3, <1>4, TopStep

(* Blocks begin, end and catch.                                            *)
LEMMA BlocksStep ==
  ASSUME ModInv, NEW t \in Thread, Blocks(t)
  PROVE  ModInv'
<1> DEFINE Popped == \E vals : Runs(t) /\ Quiet /\ ToTop(t, Step(Top(t), vals))
<1>1. CASE Popped
  <2>1. PICK vals : Runs(t) /\ Quiet /\ ToTop(t, Step(Top(t), vals))
    BY <1>1
  <2>2. Becomes(Step(Top(t), vals), Top(t))
    BY <2>1, Steps
  <2> QED BY <2>1, <2>2, TopStep
<1>2. CASE ~ Popped
  <2>1. PICK vals, blocks : Runs(t) /\ Quiet /\ ToTop(t, [Step(Top(t), vals) EXCEPT !.blocks = blocks])
    <3> DEFINE f == Top(t)  i == Instr(t)  b == Last(f.blocks)  n == Len(f.blocks)
    <3>1. \A v : Step(f, v).blocks = f.blocks
      BY DEF Step
    <3>2. Runs(t) /\ Quiet
          /\ \/ ToTop(t, [Step(f, f.vals) EXCEPT !.blocks = Append(@, Block(Len(f.vals)))])
             \/ ToTop(t, [Step(f, SubSeq(f.vals, 1, b.bp)) EXCEPT !.blocks = Front(@)])
             \/ ToTop(t, [Step(f, f.vals) EXCEPT !.blocks[n].catch = f.ip + i.arg])
             \/ ToTop(t, [Step(f, f.vals) EXCEPT !.blocks[n].catch = 0])
      BY <1>2 DEF Blocks
    <3> QED BY <3>2
  <2>2. Becomes(Step(Top(t), vals), Top(t))
    BY <2>1, Steps
  <2>3. PICK f : f = [Step(Top(t), vals) EXCEPT !.blocks = blocks]
    OBVIOUS
  <2>4. Becomes(f, Top(t))
    BY <2>2, <2>3 DEF Becomes, Shape
  <2> QED BY <2>1, <2>3, <2>4, TopStep
<1> QED BY <1>1, <1>2

(* Every instruction.                                                      *)
LEMMA ExecuteStep ==
  ASSUME FileAssumption, ModInv, NEW t \in Thread, Execute(t)
  PROVE  ModInv'
BY SimpleStep, InvokeStep, JoinStep, ReturnStep, ThrowStep, JumpStep, BlocksStep DEF Execute

(* No call changes.                                                        *)
LEMMA MarkStays ==
  ASSUME MarkInv, loaded' = loaded, \A u \in Thread : Frames(u)' = Frames(u)
  PROVE  MarkInv'
BY DEF MarkInv, Loads

(* The lock is released: the path is kept.                                 *)
LEMMA YieldStep ==
  ASSUME ModInv, NEW t \in Thread, Yield(t)
  PROVE  ModInv'
<1>1. /\ Runs(t) /\ PathInv /\ MarkInv /\ GoodFrames(Frames(t)) /\ cur = PathOf(t)
      /\ \A u \in Thread : u # t => run[u].st # "runs"
  BY RunsFacts DEF ModInv, Yield
<1>2. /\ DOMAIN run' = Thread /\ {"st", "path", "frames"} \subseteq DOMAIN run'[t]
      /\ run'[t].st = "waits" /\ run'[t].path = cur /\ Frames(t)' = Frames(t)
      /\ \A u \in Thread : u # t => run'[u] = run[u] /\ Frames(u)' = Frames(u)
  BY <1>1 DEF PathInv, PathAt, Yield, Frames
<1>3. PathAt(t)'
  BY <1>1, <1>2 DEF PathAt, PathOf
<1>4. ASSUME NEW u \in Thread, u # t
      PROVE  PathAt(u)'
  <2>1. PathAt(u)
    BY <1>1 DEF PathInv
  <2>2. run'[u] = run[u] /\ Frames(u)' = Frames(u) /\ run[u].st # "runs"
    BY <1>1, <1>2, <1>4
  <2> QED BY <2>1, <2>2 DEF PathAt, PathOf
<1>5. PathInv'
  BY <1>2, <1>3, <1>4 DEF PathInv
<1>6. MarkInv'
  BY <1>1, <1>2, MarkStays DEF Yield
<1> QED BY <1>5, <1>6 DEF ModInv

(* The lock is taken again: the path is restored.                          *)
LEMMA LockStep ==
  ASSUME FileAssumption, ModInv, NEW t \in Thread, Lock(t)
  PROVE  ModInv'
<1>1. PathInv /\ MarkInv /\ PathAt(t) /\ run[t].st = "waits"
  BY DEF ModInv, PathInv, Lock
<1>2. \A u \in Thread : run[u].st # "runs"
  <2>1. gil \notin Thread
    BY DEF Lock, FileAssumption
  <2> QED BY <1>1, <2>1 DEF PathInv, PathAt
<1>3. /\ DOMAIN run' = Thread /\ {"st", "path", "frames"} \subseteq DOMAIN run'[t]
      /\ run'[t].st = "runs" /\ run'[t].path = run[t].path /\ Frames(t)' = Frames(t)
      /\ \A u \in Thread : u # t => run'[u] = run[u] /\ Frames(u)' = Frames(u)
  BY <1>1 DEF PathInv, PathAt, Lock, Frames
<1>4. gil' = t /\ cur' = run[t].path
  BY DEF Lock
<1>5. PathAt(t)'
  BY <1>1, <1>3, <1>4 DEF PathAt, PathOf
<1>6. ASSUME NEW u \in Thread, u # t
      PROVE  PathAt(u)'
  <2>1. PathAt(u)
    BY <1>1 DEF PathInv
  <2>2. run'[u] = run[u] /\ Frames(u)' = Frames(u) /\ run[u].st # "runs"
    BY <1>2, <1>3, <1>6
  <2> QED BY <2>1, <2>2 DEF PathAt, PathOf
<1>7. PathInv'
  BY <1>3, <1>5, <1>6 DEF PathInv
<1>8. MarkInv'
  BY <1>1, <1>3, MarkStays DEF Lock
<1> QED BY <1>7, <1>8 DEF ModInv

(* After a join the lock is taken and the path is what it is.              *)
LEMMA RejoinStep ==
  ASSUME FileAssumption, ModInv, NEW t \in Thread, Rejoin(t)
  PROVE  ModInv'
<1> DEFINE fs == Frames(t)
           gs == [fs EXCEPT ![LastLoad(fs, Len(fs))].home = cur]
<1>1. PathInv /\ MarkInv /\ PathAt(t) /\ run[t].st = "joins" /\ GoodFrames(fs)
  BY DEF ModInv, PathInv, PathAt, Rejoin
<1>2. \A u \in Thread : run[u].st # "runs"
  <2>1. gil \notin Thread
    BY DEF Rejoin, FileAssumption
  <2> QED BY <1>1, <2>1 DEF PathInv, PathAt
<1>3. Level(t) = LastLoad(fs, Len(fs))
  <2>1. DOMAIN fs = 1..Len(fs)
    BY <1>1, SeqFacts DEF GoodFrames
  <2> QED BY <2>1 DEF Level, Loading, LastLoad, LoadsIn
<1>4. /\ GoodFrames(gs) /\ Len(gs) = Len(fs) /\ HomeAt(gs, Len(gs)) = cur
      /\ \A j \in 1..Len(fs) : Shape(fs[j]) /\ (gs[j] = fs[j] \/ gs[j] = [fs[j] EXCEPT !.home = cur])
  BY <1>1, HomeMoves
<1>5. gil' = t /\ cur' = cur /\ loaded' = loaded /\ run' = [run EXCEPT ![t].st = "runs", ![t].frames = gs]
  BY <1>3 DEF Rejoin, Frames
<1> HIDE DEF gs, fs
<1>6. /\ DOMAIN run' = Thread /\ {"st", "path", "frames"} \subseteq DOMAIN run'[t]
      /\ run'[t].st = "runs" /\ Frames(t)' = gs
      /\ \A u \in Thread : u # t => run'[u] = run[u] /\ Frames(u)' = Frames(u)
  BY <1>1, <1>5 DEF PathInv, PathAt, Frames
<1>7. PathAt(t)'
  BY <1>4, <1>5, <1>6 DEF PathAt, PathOf
<1>8. ASSUME NEW u \in Thread, u # t
      PROVE  PathAt(u)'
  <2>1. PathAt(u)
    BY <1>1 DEF PathInv
  <2>2. run'[u] = run[u] /\ Frames(u)' = Frames(u) /\ run[u].st # "runs"
    BY <1>2, <1>6, <1>8
  <2> QED BY <2>1, <2>2 DEF PathAt, PathOf
<1>9. PathInv'
  BY <1>6, <1>7, <1>8 DEF PathInv
<1>10. \A j \in 1..Len(fs) : gs[j].load = fs[j].load
  BY <1>4 DEF Shape
<1>11. MarkInv'
  BY <1>1, <1>4, <1>5, <1>6, <1>10, MarkSame DEF fs
<1> QED BY <1>9, <1>11 DEF ModInv

(* A thread begins.                                                        *)
LEMMA Begun ==
  ASSUME NEW fn, NEW of, NEW p
  PROVE  LET fs == <<Frame(fn, of, NoFile, p)>>
         IN  GoodFrames(fs) /\ HomeAt(fs, Len(fs)) = p /\ Len(fs) = 1 /\ fs[1].load = NoFile
<1> DEFINE f == Frame(fn, of, NoFile, p)
           fs == <<f>>
<1>1. Shape(f) /\ f.load = NoFile /\ f.home = p
  BY DEF Frame, Shape
<1> HIDE DEF f
<1>2. IsSeq(fs) /\ Len(fs) = 1 /\ fs[1] = f
  <2>1. fs \in Seq({f})
    OBVIOUS
  <2> QED BY <2>1 DEF IsSeq
<1>3. GoodFrames(fs)
  BY <1>1, <1>2 DEF GoodFrames
<1>4. LoadsIn(fs, 1) = {}
  BY <1>1, <1>2 DEF LoadsIn
<1>5. HomeAt(fs, Len(fs)) = p
  BY <1>1, <1>2, <1>4 DEF HomeAt, LastLoad
<1> QED BY <1>1, <1>2, <1>3, <1>5 DEF f

(* A thread starts in the path of the one that has spawned it.             *)
LEMMA SpawnStep ==
  ASSUME FileAssumption, ModInv, NEW t \in Thread, Spawn(t)
  PROVE  ModInv'
<1> DEFINE fs == <<Frame(StartFn[t], MainFile, NoFile, cur)>>
<1>1. PathInv /\ MarkInv /\ PathAt(t) /\ run[t].st = "new" /\ cur' = cur /\ gil' = gil /\ loaded' = loaded
  BY DEF ModInv, PathInv, Spawn, Quiet
<1>2. GoodFrames(fs) /\ HomeAt(fs, Len(fs)) = cur /\ Len(fs) = 1 /\ fs[1].load = NoFile
  BY Begun
<1>3. Spawn(t) => run' = [run EXCEPT ![t] = [st |-> "waits", path |-> cur, frames |-> fs]]
  BY DEF Spawn
<1> HIDE DEF fs
<1>4. /\ DOMAIN run' = Thread /\ {"st", "path", "frames"} \subseteq DOMAIN run'[t]
      /\ run'[t].st = "waits" /\ run'[t].path = cur /\ Frames(t)' = fs
      /\ \A u \in Thread : u # t => run'[u] = run[u] /\ Frames(u)' = Frames(u)
  BY <1>1, <1>3 DEF PathInv, Frames
<1>5. PathAt(t)'
  BY <1>2, <1>4 DEF PathAt, PathOf
<1>6. ASSUME NEW u \in Thread, u # t
      PROVE  PathAt(u)'
  <2>1. PathAt(u)
    BY <1>1 DEF PathInv
  <2>2. run'[u] = run[u] /\ Frames(u)' = Frames(u)
    BY <1>4, <1>6
  <2> QED BY <1>1, <2>1, <2>2 DEF PathAt, PathOf
<1>7. PathInv'
  BY <1>4, <1>5, <1>6 DEF PathInv
<1>8. \A u \in Thread, id \in DOMAIN Files : \A j : Loads(u, j, id)' <=> Loads(u, j, id)
  <2>1. Frames(t) = <<>>
    BY <1>1 DEF PathAt
  <2>2. \A j \in 1..1 : j = 1
    OBVIOUS
  <2>3. \A id \in DOMAIN Files : id # NoFile
    BY DEF FileAssumption
  <2>4. \A id \in DOMAIN Files : \A j : ~ Loads(t, j, id)
    BY <2>1 DEF Loads
  <2>5. \A id \in DOMAIN Files : \A j : ~ Loads(t, j, id)'
    BY <1>2, <1>4, <2>2, <2>3 DEF Loads
  <2>6. \A u \in Thread : \A j, id : u # t => (Loads(u, j, id)' <=> Loads(u, j, id))
    BY <1>4 DEF Loads
  <2> QED BY <2>4, <2>5, <2>6
<1>9. MarkInv'
  BY <1>1, <1>8 DEF MarkInv
<1> QED BY <1>7, <1>9 DEF ModInv

(* A compiler writes a cache file.                                         *)
LEMMA WriteStep ==
  ASSUME ModInv, NEW id \in Caches, Write(id)
  PROVE  ModInv'
<1>1. run' = run /\ cur' = cur /\ gil' = gil /\ loaded' = loaded
  BY DEF Write
<1>2. \A t \in Thread : Frames(t)' = Frames(t) /\ PathOf(t)' = PathOf(t)
  BY <1>1 DEF Frames, PathOf
<1>3. PathInv'
  BY <1>1, <1>2 DEF ModInv, PathInv, PathAt
<1> QED BY <1>1, <1>2, <1>3, MarkStays DEF ModInv

(* Nothing happens.                                                        *)
LEMMA IdleStep ==
  ASSUME ModInv, UNCHANGED vars
  PROVE  ModInv'
<1>1. run' = run /\ cur' = cur /\ gil' = gil /\ loaded' = loaded
  BY DEF vars
<1>2. \A t \in Thread : Frames(t)' = Frames(t) /\ PathOf(t)' = PathOf(t)
  BY <1>1 DEF Frames, PathOf
<1>3. PathInv'
  BY <1>1, <1>2 DEF ModInv, PathInv, PathAt
<1> QED BY <1>1, <1>2, <1>3, MarkStays DEF ModInv

(* The program begins.                                                     *)
LEMMA AtFirst ==
  ASSUME FileAssumption, Init
  PROVE  ModInv
<1> DEFINE fs == <<Frame(StartFn[Main], MainFile, NoFile, cur)>>
<1>1. GoodFrames(fs) /\ HomeAt(fs, Len(fs)) = cur /\ Len(fs) = 1 /\ fs[1].load = NoFile
  BY Begun
<1>2. /\ gil = Main /\ Main \in Thread /\ loaded = [id \in DOMAIN Files |-> "absent"]
      /\ run = [t \in Thread |-> IF t = Main THEN [st |-> "runs", path |-> NoFile, frames |-> fs]
                                 ELSE [st |-> "new", path |-> NoFile, frames |-> <<>>]]
  BY DEF Init, FileAssumption
<1> HIDE DEF fs
<1>3. ASSUME NEW t \in Thread
      PROVE  PathAt(t) /\ Frames(t) = IF t = Main THEN fs ELSE <<>>
  <2>1. CASE t = Main
    <3>1. run[t] = [st |-> "runs", path |-> NoFile, frames |-> fs]
      BY <1>2, <2>1
    <3>2. Frames(t) = fs /\ run[t].st = "runs" /\ {"st", "path", "frames"} \subseteq DOMAIN run[t]
      BY <3>1 DEF Frames
    <3>3. cur = PathOf(t) /\ GoodFrames(Frames(t)) /\ gil = t
      BY <1>1, <1>2, <2>1, <3>2 DEF PathOf
    <3> QED BY <2>1, <3>2, <3>3 DEF PathAt
  <2>2. CASE t # Main
    <3>1. run[t] = [st |-> "new", path |-> NoFile, frames |-> <<>>]
      BY <1>2, <2>2
    <3>2. Frames(t) = <<>> /\ run[t].st = "new" /\ {"st", "path", "frames"} \subseteq DOMAIN run[t]
      BY <3>1 DEF Frames
    <3> QED BY <2>2, <3>2 DEF PathAt
  <2> QED BY <2>1, <2>2
<1>4. PathInv
  BY <1>2, <1>3 DEF PathInv
<1>5. \A id \in DOMAIN Files : id # NoFile
  BY DEF FileAssumption
<1>6. \A j \in 1..1 : j = 1
  OBVIOUS
<1>7. \A t \in Thread : \A id \in DOMAIN Files : \A j : ~ Loads(t, j, id)
  BY <1>1, <1>3, <1>5, <1>6 DEF Loads
<1>8. MarkInv
  BY <1>2, <1>7 DEF MarkInv
<1> QED BY <1>4, <1>8 DEF ModInv

(***************************************************************************)
(* Theorems.                                                               *)
(***************************************************************************)

(* Whatever is imported from wherever by whichever threads, loads that     *)
(* fail and threads that yield in the middle of one included: the path is  *)
(* that of the thread that runs, each waiting thread keeps its own, and    *)
(* the marks of the modules are those of the loads in progress.  A thread  *)
(* that joins loses its own path, up to the end of the import in which it  *)
(* does; that of the import around it is kept.                             *)
THEOREM ModInvariant == Spec => []ModInv
<1>1. Init => ModInv
  BY AtFirst, FileAssumption
<1>2. ModInv /\ [Next]_vars => ModInv'
  <2> SUFFICES ASSUME ModInv, [Next]_vars
               PROVE  ModInv'
    OBVIOUS
  <2>1. ASSUME NEW t \in Thread, Execute(t)
        PROVE  ModInv'
    BY <2>1, ExecuteStep, FileAssumption
  <2>2. ASSUME NEW t \in Thread, Yield(t)
        PROVE  ModInv'
    BY <2>2, YieldStep
  <2>3. ASSUME NEW t \in Thread, Lock(t)
        PROVE  ModInv'
    BY <2>3, LockStep, FileAssumption
  <2>4. ASSUME NEW t \in Thread, Spawn(t)
        PROVE  ModInv'
    BY <2>4, SpawnStep, FileAssumption
  <2>5. ASSUME NEW id \in Caches, Write(id)
        PROVE  ModInv'
    BY <2>5, WriteStep
  <2>6. ASSUME NEW t \in Thread, Rejoin(t)
        PROVE  ModInv'
    BY <2>6, RejoinStep, FileAssumption
  <2>7. CASE UNCHANGED vars
    BY <2>7, IdleStep
  <2> QED BY <2>1, <2>2, <2>3, <2>4, <2>5, <2>6, <2>7 DEF Next
<1> QED BY <1>1, <1>2, PTL DEF Spec

(* The call stack of a thread is a sequence.                               *)
LEMMA FramesAre ==
  ASSUME PathInv, NEW t \in Thread
  PROVE  DOMAIN Frames(t) = 1..Len(Frames(t)) /\ Len(Frames(t)) \in Nat
<1>1. PathAt(t)
  BY DEF PathInv
<1>2. CASE Frames(t) = <<>>
  BY <1>2
<1>3. CASE GoodFrames(Frames(t))
  BY <1>3, SeqFacts DEF GoodFrames
<1> QED BY <1>1, <1>2, <1>3 DEF PathAt

(* A thread that runs is in the directory of the module it loads, or in    *)
(* that it was started in (mod.c ivm_mod_load, vm.h threadYield), or, when *)
(* it has joined there, where the threads it joined have left it           *)
(* (joinAllThread): without a join a name means the same file each time.   *)
THEOREM PathIsOwn == Spec => []OwnPath
<1>1. ModInv => OwnPath
  <2> SUFFICES ASSUME ModInv, NEW t \in Thread, Runs(t)
               PROVE  cur = Frames(t)[Level(t)].home
    BY DEF OwnPath
  <2>1. cur = PathOf(t)
    BY RunsFacts DEF ModInv
  <2>2. DOMAIN Frames(t) = 1..Len(Frames(t))
    BY FramesAre DEF ModInv
  <2>3. Level(t) = LastLoad(Frames(t), Len(Frames(t)))
    BY <2>2 DEF Level, Loading, LastLoad, LoadsIn
  <2> QED BY <2>1, <2>3 DEF PathOf, HomeAt
<1> QED BY <1>1, ModInvariant, PTL

(* A module is marked with none exactly as long as someone loads it, and   *)
(* one thread does at a time (mod.c): a mark is never left behind, and no  *)
(* module runs twice at once.                                              *)
THEOREM MarksAreLoads == Spec => []Marked
<1>1. ModInv => Marked
  <2> SUFFICES ASSUME ModInv, NEW id \in DOMAIN Files
               PROVE  LET loads == UNION {{<<t, j>> : j \in {i \in Loading(t) : Frames(t)[i].load = id}} : t \in Thread}
                      IN  Cardinality(loads) = IF loaded[id] = "none" THEN 1 ELSE 0
    BY DEF Marked
  <2> DEFINE loads == UNION {{<<t, j>> : j \in {i \in Loading(t) : Frames(t)[i].load = id}} : t \in Thread}
  <2>1. id # NoFile
    BY FileAssumption DEF FileAssumption
  <2>2. \A t \in Thread : \A j : j \in Loading(t) /\ Frames(t)[j].load = id <=> Loads(t, j, id)
    <3>1. \A t \in Thread : DOMAIN Frames(t) = 1..Len(Frames(t))
      BY FramesAre DEF ModInv
    <3> QED BY <2>1, <3>1 DEF Loading, Loads
  <2>3. /\ loaded[id] = "none" <=> \E t \in Thread : \E j : Loads(t, j, id)
        /\ \A t, u \in Thread : \A i, j : Loads(t, i, id) /\ Loads(u, j, id) => t = u /\ i = j
    BY DEF ModInv, MarkInv
  <2>4. \A x : x \in loads <=> \E t \in Thread : \E j : x = <<t, j>> /\ Loads(t, j, id)
    BY <2>2
  <2> HIDE DEF loads
  <2>5. CASE loaded[id] = "none"
    <3>1. PICK t \in Thread : \E j : Loads(t, j, id)
      BY <2>3, <2>5
    <3>2. PICK j : Loads(t, j, id)
      BY <3>1
    <3>3. loads = {<<t, j>>}
      BY <2>3, <2>4, <3>2
    <3>4. Cardinality(loads) = 1
      BY <3>3, FS_Singleton
    <3> QED BY <2>5, <3>4 DEF loads
  <2>6. CASE loaded[id] # "none"
    <3>1. loads = {}
      BY <2>3, <2>4, <2>6
    <3>2. Cardinality(loads) = 0
      BY <3>1, FS_EmptySet
    <3> QED BY <2>6, <3>2 DEF loads
  <2> QED BY <2>5, <2>6
<1> QED BY <1>1, ModInvariant, PTL

(***************************************************************************)
(* Cache files.                                                            *)
(***************************************************************************)

(* What the reader of cache files (exec.c, serial.c; module Serial) gives  *)
(* of a file: nothing, or, when all of it is there, what was compiled.     *)
AllOrNothing ==
  \A id \in Caches : \A n \in DOMAIN Disk[id].at :
    Disk[id].at[n].fns # <<>> => n = Max(DOMAIN Disk[id].at) /\ Disk[id].at[n] = Disk[id].whole

(* How much there is of a file, at most.                                   *)
FullSize(id) == Max(DOMAIN Disk[id].at)
Sizes(id)    == IF id \in Caches THEN 0 .. FullSize(id) ELSE {0}

(* What a loader takes of a file is all of it.                             *)
IsWhole(id, n) == n # -1 /\ Disk[id].at[n] = Disk[id].whole /\ (id \in Caches => n = FullSize(id))

DiskInv ==
  /\ disk = Disk /\ DOMAIN had = DOMAIN Files /\ DOMAIN written = DOMAIN Files
  /\ \A id \in DOMAIN Files : written[id] \in Sizes(id) /\ (had[id] # -1 => IsWhole(id, had[id]))

(* What is loaded when code is found in a file.                            *)
LEMMA CodeIsWhole ==
  ASSUME UnitAssumption, AllOrNothing, NEW id \in DOMAIN Files, NEW n \in Sizes(id), Disk[id].at[n].fns # <<>>
  PROVE  IsWhole(id, n)
<1>1. CASE id \in Caches
  <2>1. FullSize(id) \in Nat /\ DOMAIN Disk[id].at = 0 .. FullSize(id)
    BY <1>1 DEF UnitAssumption, Parts, FullSize
  <2>2. n \in DOMAIN Disk[id].at /\ n # -1
    BY <1>1, <2>1 DEF Sizes
  <2> QED BY <1>1, <2>2 DEF AllOrNothing, IsWhole, FullSize
<1>2. CASE id \notin Caches
  <2>1. n = 0 /\ Disk[id].at[0] = Disk[id].whole
    BY <1>2 DEF UnitAssumption, Parts, Sizes
  <2> QED BY <1>2, <2>1 DEF IsWhole
<1> QED BY <1>1, <1>2

(* The import that loads the file id, after a call that leaves fs.         *)
LoadsFile(t, fs, id) ==
  LET unit == disk[id].at[written[id]] IN
  /\ id \in DOMAIN Files /\ unit.fns # <<>>
  /\ had' = [had EXCEPT ![id] = written[id]] /\ funcs' = Merged(id, unit)
  /\ Replace(t, Append(fs, Frame(Root(unit), id, id, cur)))
  /\ UNCHANGED <<disk, written>>

Keeps == UNCHANGED <<disk, had, funcs, written>>

(* import fails, has its module already, or loads it.                      *)
LEMMA ImportIs ==
  ASSUME FileAssumption, NEW t, NEW name, NEW fs, Import(t, name, fs)
  PROVE  \/ Raise(t, fs) /\ Keeps
         \/ Replace(t, Deliver(fs)) /\ Keeps
         \/ \E id : LoadsFile(t, fs, id)
<1> DEFINE id == Candidates(name)[Min(Found(name))]
           unit == disk[id].at[written[id]]
<1>1. Raise(t, fs) => Keeps
  BY DEF Raise, Keeps
<1>2. \/ Raise(t, fs)
      \/ Replace(t, Deliver(fs)) /\ Keeps
      \/ /\ Found(name) # {} /\ unit.fns # <<>>
         /\ had' = [had EXCEPT ![id] = written[id]] /\ funcs' = Merged(id, unit)
         /\ Replace(t, Append(fs, Frame(Root(unit), id, id, cur)))
         /\ UNCHANGED <<disk, written>>
  BY DEF Import, Quiet, Keeps
<1>3. Found(name) # {} => id \in DOMAIN Files
  BY FoundIsFile
<1> HIDE DEF id
<1>4. CASE /\ Found(name) # {} /\ unit.fns # <<>>
           /\ had' = [had EXCEPT ![id] = written[id]] /\ funcs' = Merged(id, unit)
           /\ Replace(t, Append(fs, Frame(Root(unit), id, id, cur)))
           /\ UNCHANGED <<disk, written>>
  BY <1>3, <1>4 DEF LoadsFile
<1> QED BY <1>1, <1>2, <1>4

(* The other steps load no file.                                           *)
LEMMA StepsAre ==
  ASSUME FileAssumption, NEW t, Execute(t)
  PROVE  Keeps \/ \E fs, id : LoadsFile(t, fs, id)
<1>1. CASE Simple(t) \/ Jump(t) \/ Blocks(t)
  BY <1>1 DEF Simple, Jump, Blocks, Quiet, Keeps
<1>2. CASE Return(t)
  BY <1>2 DEF Return, Keeps
<1>3. CASE Throw(t)
  BY <1>3 DEF Throw, Raise, Keeps
<1>4. CASE Invoke(t)
  <2>1. Keeps \/ \E name, fs : Import(t, name, fs)
    BY <1>4 DEF Invoke, Quiet, Keeps
  <2> QED BY <2>1, ImportIs
<1>5. CASE Join(t)
  BY <1>5 DEF Join, Raise, Keeps
<1> QED BY <1>1, <1>2, <1>3, <1>4, <1>5 DEF Execute

(* Nothing happens to the files.                                           *)
LEMMA DiskStays ==
  ASSUME DiskInv, disk' = disk, had' = had, written' = written
  PROVE  DiskInv'
BY DEF DiskInv

(* A file is loaded.                                                       *)
LEMMA DiskLoads ==
  ASSUME UnitAssumption, AllOrNothing, DiskInv, NEW t, NEW fs, NEW id, LoadsFile(t, fs, id)
  PROVE  DiskInv' /\ id \in DOMAIN Files /\ IsWhole(id, written[id]) /\ disk[id].at[written[id]] = Disk[id].whole
<1>1. id \in DOMAIN Files /\ Disk[id].at[written[id]].fns # <<>> /\ disk = Disk /\ written[id] \in Sizes(id)
      /\ had' = [had EXCEPT ![id] = written[id]] /\ disk' = disk /\ written' = written
  BY DEF LoadsFile, DiskInv
<1>2. IsWhole(id, written[id])
  BY <1>1, CodeIsWhole
<1>3. DOMAIN had' = DOMAIN Files /\ \A m \in DOMAIN Files : had'[m] = IF m = id THEN written[id] ELSE had[m]
  BY <1>1 DEF DiskInv
<1>4. ASSUME NEW m \in DOMAIN Files
      PROVE  written'[m] \in Sizes(m) /\ (had'[m] # -1 => IsWhole(m, had'[m]))
  BY <1>1, <1>2, <1>3 DEF DiskInv
<1>5. DiskInv'
  BY <1>1, <1>3, <1>4 DEF DiskInv
<1> QED BY <1>1, <1>2, <1>5 DEF IsWhole

(* A compiler goes on.                                                     *)
LEMMA DiskWrites ==
  ASSUME UnitAssumption, DiskInv, NEW id \in Caches, Write(id)
  PROVE  DiskInv'
<1>1. id \in DOMAIN Files /\ FullSize(id) \in Nat /\ FullSize(id) \in Sizes(id)
  <2>1. id \in DOMAIN Files
    BY DEF Caches
  <2>2. FullSize(id) \in Nat
    BY <2>1 DEF UnitAssumption, Parts, FullSize
  <2> QED BY <2>1, <2>2 DEF Sizes
<1>2. disk' = disk /\ had' = had /\ written' = [written EXCEPT ![id] = FullSize(id)]
  BY DEF Write, Size, FullSize, DiskInv
<1>3. DOMAIN written' = DOMAIN Files
      /\ \A m \in DOMAIN Files : written'[m] = IF m = id THEN FullSize(id) ELSE written[m]
  BY <1>2 DEF DiskInv
<1> QED BY <1>1, <1>2, <1>3 DEF DiskInv

(* Any step.                                                               *)
LEMMA DiskStep ==
  ASSUME FileAssumption, UnitAssumption, AllOrNothing, DiskInv, [Next]_vars
  PROVE  DiskInv'
<1>1. ASSUME NEW t \in Thread, Execute(t)
      PROVE  DiskInv'
  <2>1. CASE Keeps
    BY <2>1, DiskStays DEF Keeps
  <2>2. CASE \E fs, id : LoadsFile(t, fs, id)
    BY <2>2, DiskLoads
  <2> QED BY <1>1, <2>1, <2>2, StepsAre
<1>2. ASSUME NEW t \in Thread, Yield(t) \/ Lock(t) \/ Rejoin(t) \/ Spawn(t)
      PROVE  DiskInv'
  <2>1. disk' = disk /\ had' = had /\ written' = written
    BY <1>2 DEF Yield, Lock, Rejoin, Spawn, Quiet
  <2> QED BY <2>1, DiskStays
<1>3. ASSUME NEW id \in Caches, Write(id)
      PROVE  DiskInv'
  BY <1>3, DiskWrites
<1>4. CASE UNCHANGED vars
  BY <1>4, DiskStays DEF vars
<1> QED BY <1>1, <1>2, <1>3, <1>4 DEF Next

(* At first only the program is there, and of the caches any part.         *)
LEMMA DiskAtFirst ==
  ASSUME FileAssumption, UnitAssumption, Init
  PROVE  DiskInv
<1>1. disk = Disk /\ had = [id \in DOMAIN Files |-> IF id = MainFile THEN 0 ELSE -1]
  BY DEF Init
<1>2. PICK n : /\ \A id \in Caches : n[id] \in DOMAIN disk[id].at
               /\ written = [id \in DOMAIN Files |-> IF id \in Caches THEN n[id] ELSE 0]
  BY DEF Init
<1>3. ASSUME NEW id \in DOMAIN Files
      PROVE  written[id] \in Sizes(id)
  <2>1. id \in Caches => DOMAIN Disk[id].at = 0 .. FullSize(id)
    BY DEF UnitAssumption, Parts, FullSize
  <2> QED BY <1>1, <1>2, <2>1 DEF Sizes
<1>4. MainFile \in DOMAIN Files /\ MainFile \notin Caches
  BY DEF FileAssumption
<1>5. IsWhole(MainFile, 0)
  <2>1. Disk[MainFile].at[0] = Disk[MainFile].whole
    BY <1>4 DEF UnitAssumption, Parts
  <2> QED BY <1>4, <2>1 DEF IsWhole
<1>6. had[MainFile] = 0 /\ \A id \in DOMAIN Files : id # MainFile => had[id] = -1
  BY <1>1, <1>4
<1>7. \A id \in DOMAIN Files : had[id] # -1 => IsWhole(id, had[id])
  BY <1>5, <1>6
<1> QED BY <1>1, <1>2, <1>3, <1>7 DEF DiskInv

(* Whenever files are loaded, again, or while a compiler writes them: what *)
(* was taken of each is all of it (mod.c, exec.c).                         *)
LEMMA DiskInvariant ==
  ASSUME AllOrNothing
  PROVE  Spec => []DiskInv
<1>1. Init => DiskInv
  BY DiskAtFirst, FileAssumption, UnitAssumption
<1>2. DiskInv /\ [Next]_vars => DiskInv'
  BY DiskStep, FileAssumption, UnitAssumption
<1> QED BY <1>1, <1>2, PTL DEF Spec

(***************************************************************************)
(* Functions and values.                                                   *)
(***************************************************************************)

(* Code that runs fits its stack: there are as many values above the block *)
(* as CHECK_STACK (opcode.dispatch.h) asks for; it ends debug builds.      *)
Avail(f) == Len(f.vals) - Last(f.blocks).bp
StacksFit ==
  \A t \in Thread : Runs(t) =>
    LET f == Top(t)  i == Instr(t) IN
    /\ i.op = "INVOKE" => i.arg \in Nat /\ i.arg + 1 <= Avail(f)
    /\ i.op \in Pops => 1 <= Avail(f)

Fns(id)       == Disk[id].whole.fns
CodeIn(F, fn) == Fns(F[fn].file)[F[fn].x].code

(* The entry e of a list of functions, and those of its unit around it.    *)
Entry(F, e) ==
  LET g == F[e] IN
  /\ g.file \in DOMAIN Files /\ g.x \in 1..Len(Fns(g.file)) /\ g.offset \in Nat
  /\ \A y \in 1..Len(Fns(g.file)) : g.offset + y \in 1..Len(F) /\ F[g.offset + y].file = g.file
GoodList(F) ==
  /\ IsSeq(F)
  /\ \A e \in 1..Len(F) : Entry(F, e)
  /\ \A x \in 1..Len(Fns(MainFile)) : x \in 1..Len(F) /\ F[x].file = MainFile

(* G is F and more.                                                        *)
Grows(F, G) == IsSeq(F) /\ IsSeq(G) /\ Len(F) <= Len(G) /\ \A e \in 1..Len(F) : G[e] = F[e]

(* A function of the file `of`; values of a frame that runs one.           *)
FnOf(F, fn, of)     == fn \in 1..Len(F) /\ F[fn].file = of
OwnVal(F, of, v)    == v.k = "function" => FnOf(F, v.fn, of)
OwnVals(F, of, vals) == IsSeq(vals) /\ \A v \in 1..Len(vals) : OwnVal(F, of, vals[v])

(* Blocks over n values, in code of length m: the later, the higher.       *)
Stacked(n, bs, m) ==
  /\ IsSeq(bs) /\ Len(bs) >= 1 /\ n \in Nat /\ m \in Nat
  /\ \A b \in 1..Len(bs) : {"bp", "catch"} \subseteq DOMAIN bs[b] /\ bs[b].bp \in 0..n /\ bs[b].catch \in 0..m
  /\ \A a, b \in 1..Len(bs) : a <= b => bs[a].bp <= bs[b].bp

(* The frame f runs a function of its file, and has values of the file.    *)
Own(F, f) ==
  /\ {"fn", "of", "ip", "vals", "blocks"} \subseteq DOMAIN f
  /\ FnOf(F, f.fn, f.of)
  /\ f.ip \in 1..Len(CodeIn(F, f.fn))
  /\ OwnVals(F, f.of, f.vals)
  /\ Stacked(Len(f.vals), f.blocks, Len(CodeIn(F, f.fn)))
OwnStack(F, fs) == \A j \in 1..Len(fs) : Own(F, fs[j])

(* Values.                                                                 *)
LEMMA ValsMore ==
  ASSUME NEW F, NEW of, NEW vals, OwnVals(F, of, vals), NEW v, OwnVal(F, of, v)
  PROVE  OwnVals(F, of, Append(vals, v)) /\ Len(Append(vals, v)) = Len(vals) + 1
<1> DEFINE ws == Append(vals, v)
           n  == Len(vals)
<1>1. IsSeq(vals) /\ n \in Nat
  BY SeqFacts DEF OwnVals
<1>2. IsSeq(ws) /\ Len(ws) = n + 1 /\ ws[n + 1] = v /\ \A j \in 1..n : ws[j] = vals[j]
  BY <1>1, OneFrameMore
<1> HIDE DEF ws, n
<1>3. ASSUME NEW j \in 1..Len(ws)
      PROVE  OwnVal(F, of, ws[j])
  <2>1. j = n + 1 \/ j \in 1..n
    BY <1>1, <1>2
  <2>2. j \in 1..n => OwnVal(F, of, vals[j])
    BY DEF OwnVals, n
  <2> QED BY <1>2, <2>1, <2>2
<1>4. OwnVals(F, of, ws)
  BY <1>2, <1>3 DEF OwnVals
<1> QED BY <1>2, <1>4 DEF ws, n

(* Some are popped.                                                        *)
LEMMA ValsCut ==
  ASSUME NEW F, NEW of, NEW vals, OwnVals(F, of, vals), NEW k \in 0..Len(vals)
  PROVE  OwnVals(F, of, SubSeq(vals, 1, k)) /\ Len(SubSeq(vals, 1, k)) = k
<1> DEFINE ws == SubSeq(vals, 1, k)
<1>1. IsSeq(vals) /\ Len(vals) \in Nat
  BY SeqFacts DEF OwnVals
<1>2. IsSeq(ws) /\ Len(ws) = k /\ \A j \in 1..k : ws[j] = vals[j]
  BY <1>1, SubFrames
<1> HIDE DEF ws
<1>3. \A j \in 1..k : j \in 1..Len(vals)
  BY <1>1
<1>4. \A j \in 1..Len(ws) : OwnVal(F, of, ws[j])
  BY <1>2, <1>3 DEF OwnVals
<1>5. OwnVals(F, of, ws)
  BY <1>2, <1>4 DEF OwnVals
<1> QED BY <1>2, <1>5 DEF ws

(* Blocks over other values.                                               *)
LEMMA StackedOver ==
  ASSUME NEW n, NEW bs, NEW m, Stacked(n, bs, m), NEW k \in Nat, Last(bs).bp <= k
  PROVE  Stacked(k, bs, m)
<1>1. Len(bs) \in Nat /\ Len(bs) \in 1..Len(bs) /\ Last(bs) = bs[Len(bs)]
  BY SeqFacts DEF Stacked, Last
<1>2. ASSUME NEW b \in 1..Len(bs)
      PROVE  bs[b].bp \in 0..k
  <2>1. bs[b].bp \in 0..n /\ bs[Len(bs)].bp \in 0..n /\ n \in Nat
    BY <1>1 DEF Stacked
  <2>2. b <= Len(bs)
    BY <1>1
  <2>3. bs[b].bp <= bs[Len(bs)].bp
    BY <1>1, <2>2 DEF Stacked
  <2> QED BY <1>1, <2>1, <2>3
<1> QED BY <1>2 DEF Stacked

(* A block more.                                                           *)
LEMMA StackedMore ==
  ASSUME NEW n, NEW bs, NEW m, Stacked(n, bs, m)
  PROVE  Stacked(n, Append(bs, Block(n)), m)
<1> DEFINE cs == Append(bs, Block(n))
           l  == Len(bs)
<1>1. IsSeq(bs) /\ l \in Nat /\ l >= 1 /\ n \in Nat /\ m \in Nat
  BY SeqFacts DEF Stacked
<1>2. IsSeq(cs) /\ Len(cs) = l + 1 /\ cs[l + 1] = Block(n) /\ \A j \in 1..l : cs[j] = bs[j]
  BY <1>1, OneFrameMore
<1> HIDE DEF cs, l
<1>3. {"bp", "catch"} \subseteq DOMAIN Block(n) /\ Block(n).bp = n /\ Block(n).catch = 0
  BY DEF Block
<1>4. \A j \in 1..l + 1 : j = l + 1 \/ j \in 1..l
  BY <1>1
<1>5. \A b \in 1..l : {"bp", "catch"} \subseteq DOMAIN bs[b] /\ bs[b].bp \in 0..n /\ bs[b].catch \in 0..m
  BY DEF Stacked, l
<1>6. \A b \in 1..l + 1 : {"bp", "catch"} \subseteq DOMAIN cs[b] /\ cs[b].bp \in 0..n /\ cs[b].catch \in 0..m
  BY <1>1, <1>2, <1>3, <1>4, <1>5
<1>7. ASSUME NEW a \in 1..l + 1, NEW b \in 1..l + 1, a <= b
      PROVE  cs[a].bp <= cs[b].bp
  <2>1. CASE b = l + 1
    <3>1. cs[a].bp \in 0..n /\ cs[b].bp = n
      BY <1>2, <1>3, <1>6, <2>1
    <3> QED BY <1>1, <3>1
  <2>2. CASE b # l + 1
    <3>1. a \in 1..l /\ b \in 1..l
      BY <1>1, <1>7, <2>2
    <3>2. bs[a].bp <= bs[b].bp
      BY <1>7, <3>1 DEF Stacked, l
    <3> QED BY <1>2, <3>1, <3>2
  <2> QED BY <2>1, <2>2
<1>8. \A a, b \in 1..l + 1 : a <= b => cs[a].bp <= cs[b].bp
  BY <1>7
<1>9. PICK k : k = l + 1
  OBVIOUS
<1>10. IsSeq(cs) /\ Len(cs) = k /\ k >= 1 /\ n \in Nat /\ m \in Nat
  BY <1>1, <1>2, <1>9
<1>11. /\ \A b \in 1..k : {"bp", "catch"} \subseteq DOMAIN cs[b] /\ cs[b].bp \in 0..n /\ cs[b].catch \in 0..m
       /\ \A a, b \in 1..k : a <= b => cs[a].bp <= cs[b].bp
  BY <1>6, <1>8, <1>9
<1>12. Stacked(n, cs, m)
  BY <1>10, <1>11, Zenon DEF Stacked
<1> QED BY <1>12 DEF cs

(* The first k blocks, over the values that are below the next, or all.    *)
LEMMA StackedCut ==
  ASSUME NEW n, NEW bs, NEW m, Stacked(n, bs, m), NEW k \in 1..Len(bs)
  PROVE  /\ Len(SubSeq(bs, 1, k)) = k /\ \A j \in 1..k : SubSeq(bs, 1, k)[j] = bs[j]
         /\ Stacked(IF k = Len(bs) THEN n ELSE bs[k + 1].bp, SubSeq(bs, 1, k), m)
<1> DEFINE cs == SubSeq(bs, 1, k)
           l  == Len(bs)
           h  == IF k = l THEN n ELSE bs[k + 1].bp
<1>1. IsSeq(bs) /\ l \in Nat /\ l >= 1 /\ n \in Nat /\ m \in Nat /\ k \in 0..l /\ k >= 1
  BY SeqFacts DEF Stacked
<1>2. IsSeq(cs) /\ Len(cs) = k /\ \A j \in 1..k : cs[j] = bs[j]
  BY <1>1, SubFrames
<1> HIDE DEF cs
<1>3. \A b \in 1..l : {"bp", "catch"} \subseteq DOMAIN bs[b] /\ bs[b].bp \in 0..n /\ bs[b].catch \in 0..m
  BY DEF Stacked
<1>4. \A a, b \in 1..l : a <= b => bs[a].bp <= bs[b].bp
  BY DEF Stacked
<1> HIDE DEF l
<1>5. h \in Nat /\ \A b \in 1..k : bs[b].bp <= h
  <2>1. CASE k = l
    BY <1>1, <1>3, <2>1
  <2>2. CASE k # l
    <3>1. k + 1 \in 1..l /\ \A b \in 1..k : b \in 1..l /\ b <= k + 1
      BY <1>1, <2>2
    <3>2. bs[k + 1].bp \in Nat /\ \A b \in 1..k : bs[b].bp <= bs[k + 1].bp
      BY <1>1, <1>3, <1>4, <3>1
    <3> QED BY <2>2, <3>2
  <2> QED BY <2>1, <2>2
<1> HIDE DEF h
<1>6. \A b \in 1..k : b \in 1..l
  BY <1>1
<1>7. \A b \in 1..k : {"bp", "catch"} \subseteq DOMAIN cs[b] /\ cs[b].bp \in 0..h /\ cs[b].catch \in 0..m
  BY <1>1, <1>2, <1>3, <1>5, <1>6
<1>8. \A a, b \in 1..k : a <= b => cs[a].bp <= cs[b].bp
  BY <1>2, <1>4, <1>6
<1>9. Stacked(h, cs, m)
  BY <1>1, <1>2, <1>5, <1>7, <1>8 DEF Stacked
<1> QED BY <1>2, <1>9 DEF cs, h, l

(* Another handler.                                                        *)
LEMMA StackedCatch ==
  ASSUME NEW n, NEW bs, NEW m, Stacked(n, bs, m), NEW k \in 1..Len(bs), NEW c \in 0..m
  PROVE  Stacked(n, [bs EXCEPT ![k].catch = c], m)
<1> DEFINE cs == [bs EXCEPT ![k].catch = c]
           l  == Len(bs)
<1>1. IsSeq(bs) /\ l \in Nat /\ l >= 1 /\ n \in Nat /\ m \in Nat /\ DOMAIN bs = 1..l
  BY SeqFacts DEF Stacked
<1>2. IsSeq(cs) /\ Len(cs) = l
  <2>1. PICK S : bs \in Seq(S)
    BY <1>1 DEF IsSeq
  <2>2. PICK c2 : c2 = [bs[k] EXCEPT !.catch = c]
    OBVIOUS
  <2> DEFINE T == S \cup {c2}
  <2>3. bs \in Seq(T) /\ c2 \in T
    BY <2>1
  <2> HIDE DEF T
  <2>4. cs = [bs EXCEPT ![k] = c2]
    BY <2>2
  <2>5. cs \in Seq(T) /\ Len(cs) = l
    BY <2>3, <2>4
  <2> QED BY <2>5 DEF IsSeq
<1>3. cs[k] = [bs[k] EXCEPT !.catch = c] /\ \A j \in 1..l : j # k => cs[j] = bs[j]
  BY <1>1
<1> HIDE DEF cs
<1>4. \A b \in 1..l : {"bp", "catch"} \subseteq DOMAIN bs[b] /\ bs[b].bp \in 0..n /\ bs[b].catch \in 0..m
  BY DEF Stacked
<1>5. \A a, b \in 1..l : a <= b => bs[a].bp <= bs[b].bp
  BY DEF Stacked
<1> HIDE DEF l
<1>6. k \in 1..l
  BY DEF l
<1>7. {"bp", "catch"} \subseteq DOMAIN cs[k] /\ cs[k].bp = bs[k].bp /\ cs[k].catch = c
  BY <1>3, <1>4, <1>6
<1>8. \A b \in 1..l : {"bp", "catch"} \subseteq DOMAIN cs[b] /\ cs[b].bp = bs[b].bp /\ cs[b].catch \in 0..m
  BY <1>3, <1>4, <1>7
<1>9. Stacked(n, cs, m)
  BY <1>1, <1>2, <1>4, <1>5, <1>8 DEF Stacked
<1> QED BY <1>9 DEF cs

(***************************************************************************)
(* Frames.                                                                 *)
(***************************************************************************)

(* Functions stay when there are more.                                     *)
LEMMA FnGrows ==
  ASSUME NEW F, NEW G, Grows(F, G), NEW fn, NEW of, FnOf(F, fn, of)
  PROVE  FnOf(G, fn, of) /\ CodeIn(G, fn) = CodeIn(F, fn)
<1>1. Len(F) \in Nat /\ Len(G) \in Nat /\ Len(F) <= Len(G)
  BY SeqFacts DEF Grows
<1>2. fn \in 1..Len(F) /\ F[fn].file = of
  BY DEF FnOf
<1>3. fn \in 1..Len(G) /\ G[fn] = F[fn]
  BY <1>1, <1>2 DEF Grows
<1> QED BY <1>2, <1>3 DEF FnOf, CodeIn

(* So do frames.                                                           *)
LEMMA OwnGrows ==
  ASSUME NEW F, NEW G, Grows(F, G), NEW f, Own(F, f)
  PROVE  Own(G, f)
<1>1. FnOf(F, f.fn, f.of) /\ OwnVals(F, f.of, f.vals)
  BY DEF Own
<1>2. FnOf(G, f.fn, f.of) /\ CodeIn(G, f.fn) = CodeIn(F, f.fn)
  BY <1>1, FnGrows
<1>3. OwnVals(G, f.of, f.vals)
  BY <1>1, FnGrows DEF OwnVals, OwnVal
<1> QED BY <1>2, <1>3 DEF Own

(* The same list.                                                          *)
LEMMA GrowsNot ==
  ASSUME NEW F, IsSeq(F)
  PROVE  Grows(F, F)
<1>1. Len(F) \in Nat
  BY SeqFacts
<1> QED BY <1>1 DEF Grows

(* A frame begins.                                                         *)
LEMMA OwnFrame ==
  ASSUME NEW F, NEW fn, NEW of, NEW load, NEW back, FnOf(F, fn, of),
         Len(CodeIn(F, fn)) \in Nat \ {0}
  PROVE  Own(F, Frame(fn, of, load, back))
<1> DEFINE f == Frame(fn, of, load, back)
<1>1. /\ f.fn = fn /\ f.of = of /\ f.ip = 1 /\ f.vals = <<>> /\ f.blocks = <<Block(0)>>
      /\ {"fn", "of", "ip", "vals", "blocks"} \subseteq DOMAIN f
  BY DEF Frame, Block
<1> HIDE DEF f
<1>2. OwnVals(F, of, <<>>)
  <2>1. IsSeq(<<>>) /\ Len(<<>>) = 0
    <3>1. <<>> \in Seq({})
      OBVIOUS
    <3> QED BY <3>1 DEF IsSeq
  <2> QED BY <2>1 DEF OwnVals
<1>3. Stacked(0, <<Block(0)>>, Len(CodeIn(F, fn)))
  <2> DEFINE bs == <<Block(0)>>
  <2>1. bs \in Seq({Block(0)}) /\ Len(bs) = 1 /\ bs[1] = Block(0)
    OBVIOUS
  <2>2. {"bp", "catch"} \subseteq DOMAIN Block(0) /\ Block(0).bp = 0 /\ Block(0).catch = 0
    BY DEF Block
  <2> HIDE DEF bs
  <2>3. IsSeq(bs)
    BY <2>1 DEF IsSeq
  <2>4. \A b \in 1..1 : b = 1
    OBVIOUS
  <2>5. Stacked(0, bs, Len(CodeIn(F, fn)))
    BY <2>1, <2>2, <2>3, <2>4 DEF Stacked
  <2> QED BY <2>5 DEF bs
<1>4. Len(f.vals) = 0
  BY <1>1
<1>5. Own(F, f)
  BY <1>1, <1>2, <1>3, <1>4 DEF Own
<1> QED BY <1>5 DEF f

(* A frame steps on: to another instruction, with other values and blocks. *)
LEMMA OwnBecomes ==
  ASSUME NEW F, NEW f, Own(F, f), NEW g, DOMAIN g = DOMAIN f, g.fn = f.fn, g.of = f.of,
         g.ip \in 1..Len(CodeIn(F, f.fn)), OwnVals(F, f.of, g.vals),
         Stacked(Len(g.vals), g.blocks, Len(CodeIn(F, f.fn)))
  PROVE  Own(F, g)
BY DEF Own

(* A frame gets a value.                                                   *)
LEMMA OwnGets ==
  ASSUME NEW F, NEW f, Own(F, f)
  PROVE  Own(F, [f EXCEPT !.vals = Append(@, Other)])
<1> DEFINE g == [f EXCEPT !.vals = Append(@, Other)]
<1>1. {"fn", "of", "ip", "vals", "blocks"} \subseteq DOMAIN f
  BY DEF Own
<1>2. DOMAIN g = DOMAIN f /\ g.fn = f.fn /\ g.of = f.of /\ g.ip = f.ip /\ g.blocks = f.blocks
      /\ g.vals = Append(f.vals, Other)
  BY <1>1
<1> HIDE DEF g
<1>3. OwnVals(F, f.of, f.vals) /\ Stacked(Len(f.vals), f.blocks, Len(CodeIn(F, f.fn)))
      /\ f.ip \in 1..Len(CodeIn(F, f.fn))
  BY DEF Own
<1>4. OwnVal(F, f.of, Other)
  BY DEF OwnVal, Other
<1>5. OwnVals(F, f.of, g.vals) /\ Len(g.vals) = Len(f.vals) + 1
  BY <1>2, <1>3, <1>4, ValsMore
<1>6. Len(f.vals) \in Nat /\ Last(f.blocks).bp <= Len(f.vals) + 1
  <2>1. Len(f.blocks) \in 1..Len(f.blocks) /\ Last(f.blocks) = f.blocks[Len(f.blocks)] /\ Len(f.vals) \in Nat
    BY <1>3, SeqFacts DEF Stacked, Last
  <2>2. Last(f.blocks).bp \in 0..Len(f.vals)
    BY <1>3, <2>1 DEF Stacked
  <2> QED BY <2>1, <2>2
<1>7. Len(f.vals) + 1 \in Nat
  BY <1>6
<1>8. Stacked(Len(f.vals) + 1, f.blocks, Len(CodeIn(F, f.fn)))
  BY <1>3, <1>6, <1>7, StackedOver
<1>9. Own(F, g)
  BY <1>2, <1>3, <1>5, <1>8, OwnBecomes
<1> QED BY <1>9 DEF g

(***************************************************************************)
(* Stacks of frames.                                                       *)
(***************************************************************************)

(* The first k frames.                                                     *)
LEMMA OwnSub ==
  ASSUME NEW F, NEW fs, IsSeq(fs), OwnStack(F, fs), NEW k \in 0..Len(fs)
  PROVE  LET gs == SubSeq(fs, 1, k)
         IN  IsSeq(gs) /\ Len(gs) = k /\ OwnStack(F, gs) /\ \A j \in 1..k : gs[j] = fs[j]
<1> DEFINE gs == SubSeq(fs, 1, k)
<1>1. Len(fs) \in Nat
  BY SeqFacts
<1>2. IsSeq(gs) /\ Len(gs) = k /\ \A j \in 1..k : gs[j] = fs[j]
  BY SubFrames
<1> HIDE DEF gs
<1>3. \A j \in 1..k : j \in 1..Len(fs)
  BY <1>1
<1>4. OwnStack(F, gs)
  BY <1>2, <1>3 DEF OwnStack
<1> QED BY <1>2, <1>4 DEF gs

(* A frame more.                                                           *)
LEMMA OwnMore ==
  ASSUME NEW F, NEW fs, IsSeq(fs), OwnStack(F, fs), NEW f, Own(F, f)
  PROVE  IsSeq(Append(fs, f)) /\ OwnStack(F, Append(fs, f))
<1> DEFINE gs == Append(fs, f)
           n  == Len(fs)
<1>1. n \in Nat
  BY SeqFacts
<1>2. IsSeq(gs) /\ Len(gs) = n + 1 /\ gs[n + 1] = f /\ \A j \in 1..n : gs[j] = fs[j]
  BY OneFrameMore
<1> HIDE DEF gs
<1>3. \A j \in 1..n : Own(F, fs[j])
  BY DEF OwnStack
<1> HIDE DEF n
<1>4. \A j \in 1..n + 1 : j = n + 1 \/ j \in 1..n
  BY <1>1
<1>5. OwnStack(F, gs)
  BY <1>2, <1>3, <1>4 DEF OwnStack
<1> QED BY <1>2, <1>5 DEF gs

(* Another frame at the top.                                               *)
LEMMA OwnTop ==
  ASSUME NEW F, NEW fs, IsSeq(fs), Len(fs) >= 1, OwnStack(F, fs), NEW f, Own(F, f)
  PROVE  IsSeq(Append(Front(fs), f)) /\ OwnStack(F, Append(Front(fs), f))
<1>1. Len(fs) \in Nat
  BY SeqFacts
<1>2. Len(fs) - 1 \in 0..Len(fs)
  BY <1>1
<1>3. IsSeq(Front(fs)) /\ OwnStack(F, Front(fs))
  BY <1>2, OwnSub DEF Front
<1> QED BY <1>3, OwnMore

(* The frame at the top is one.                                            *)
LEMMA TopOwn ==
  ASSUME NEW F, NEW fs, IsSeq(fs), Len(fs) >= 1, OwnStack(F, fs)
  PROVE  Own(F, Last(fs))
<1>1. Len(fs) \in 1..Len(fs) /\ Last(fs) = fs[Len(fs)]
  BY SeqFacts DEF Last
<1> QED BY <1>1 DEF OwnStack

(* A call returns a value.                                                 *)
LEMMA OwnDeliver ==
  ASSUME NEW F, NEW fs, IsSeq(fs), Len(fs) >= 1, OwnStack(F, fs)
  PROVE  OwnStack(F, Deliver(fs))
<1> DEFINE f == [Last(fs) EXCEPT !.vals = Append(@, Other)]
<1>1. Own(F, f)
  BY TopOwn, OwnGets
<1> HIDE DEF f
<1>2. OwnStack(F, Append(Front(fs), f))
  BY <1>1, OwnTop
<1> QED BY <1>2 DEF Deliver, f

(* A handler is found in code, and with the values below its block.        *)
LEMMA OwnCaught ==
  ASSUME NEW F, NEW fs, IsSeq(fs), Len(fs) >= 1, OwnStack(F, fs), Catching(Last(fs)) # {}
  PROVE  OwnStack(F, Caught(fs))
<1> DEFINE f    == Last(fs)
           k    == Max(Catching(f))
           vals == IF k = Len(f.blocks) THEN f.vals ELSE SubSeq(f.vals, 1, f.blocks[k + 1].bp)
           cut  == SubSeq(f.blocks, 1, k)
           bs   == [cut EXCEPT ![k].catch = 0]
           ws   == Append(vals, Other)
           g    == [f EXCEPT !.blocks = bs, !.ip = f.blocks[k].catch, !.vals = ws]
           m    == Len(CodeIn(F, f.fn))
           l    == Len(f.blocks)
<1>1. Own(F, f)
  BY TopOwn
<1>2. Caught(fs) = Append(Front(fs), g)
  BY DEF Caught
<1>3. Catching(f) # {}
  OBVIOUS
<1> HIDE DEF f
<1>4. /\ {"fn", "of", "ip", "vals", "blocks"} \subseteq DOMAIN f
      /\ OwnVals(F, f.of, f.vals) /\ Stacked(Len(f.vals), f.blocks, m)
  BY <1>1 DEF Own
<1>5. IsSeq(f.blocks) /\ l \in Nat /\ DOMAIN f.blocks = 1..l
  BY <1>4, SeqFacts DEF Stacked
<1>6. k \in 1..l /\ f.blocks[k].catch # 0
  <2>1. Catching(f) \subseteq 1..l /\ Catching(f) \subseteq 0..l
    BY <1>5 DEF Catching
  <2>2. k \in Catching(f)
    BY <1>3, <1>5, <2>1, MaxIs
  <2> QED BY <2>1, <2>2 DEF Catching
<1> HIDE DEF k
<1>7. f.blocks[k].catch \in 0..m /\ m \in Nat /\ \A b \in 1..l : f.blocks[b].bp \in 0..Len(f.vals)
  BY <1>4, <1>6 DEF Stacked
<1>8. f.blocks[k].catch \in 1..m
  BY <1>6, <1>7
<1>9. OwnVals(F, f.of, vals) /\ Len(vals) = IF k = l THEN Len(f.vals) ELSE f.blocks[k + 1].bp
  <2>1. CASE k = l
    BY <1>4, <2>1
  <2>2. CASE k # l
    <3>1. k + 1 \in 1..l
      BY <1>5, <1>6, <2>2
    <3>2. f.blocks[k + 1].bp \in 0..Len(f.vals)
      BY <1>7, <3>1
    <3>3. PICK h : h = f.blocks[k + 1].bp
      OBVIOUS
    <3>4. OwnVals(F, f.of, SubSeq(f.vals, 1, h)) /\ Len(SubSeq(f.vals, 1, h)) = h
      BY <1>4, <3>2, <3>3, ValsCut
    <3> QED BY <2>2, <3>3, <3>4
  <2> QED BY <2>1, <2>2
<1>10. Len(cut) = k /\ Stacked(Len(vals), cut, m)
  <2>1. Len(cut) = k /\ Stacked(IF k = l THEN Len(f.vals) ELSE f.blocks[k + 1].bp, cut, m)
    BY <1>4, <1>6, StackedCut
  <2> QED BY <1>9, <2>1
<1>11. k \in 1..Len(cut) /\ 0 \in 0..m
  BY <1>5, <1>6, <1>7, <1>10
<1> HIDE DEF cut, vals
<1>12. Stacked(Len(vals), bs, m)
  BY <1>10, <1>11, StackedCatch
<1>13. OwnVals(F, f.of, ws) /\ Len(ws) = Len(vals) + 1
  <2>1. OwnVal(F, f.of, Other)
    BY DEF OwnVal, Other
  <2> QED BY <1>9, <2>1, ValsMore
<1> HIDE DEF bs, ws
<1>14. Stacked(Len(ws), bs, m)
  <2>1. Len(bs) \in 1..Len(bs) /\ Last(bs) = bs[Len(bs)] /\ Len(vals) \in Nat
    BY <1>12, SeqFacts DEF Stacked, Last
  <2>2. Last(bs).bp \in 0..Len(vals)
    BY <1>12, <2>1 DEF Stacked
  <2>3. Last(bs).bp <= Len(vals) + 1 /\ Len(vals) + 1 \in Nat
    BY <2>1, <2>2
  <2> QED BY <1>12, <1>13, <2>3, StackedOver
<1>15. /\ DOMAIN g = DOMAIN f /\ g.fn = f.fn /\ g.of = f.of /\ g.ip = f.blocks[k].catch
       /\ g.vals = ws /\ g.blocks = bs
  BY <1>4
<1> HIDE DEF g, m
<1>16. Own(F, g)
  BY <1>1, <1>8, <1>13, <1>14, <1>15, OwnBecomes DEF m
<1> QED BY <1>2, <1>16, OwnTop

(***************************************************************************)
(* The list of functions.                                                  *)
(***************************************************************************)

(* What is known of the code of an entry.                                  *)
LEMMA CodeFacts ==
  ASSUME UnitAssumption, NEW F, NEW e, Entry(F, e)
  PROVE  LET code == CodeIn(F, e)  m == Len(code) IN
         /\ m \in Nat \ {0} /\ code[m].op = "RETURN"
         /\ \A p \in 1..m :
              /\ code[p].op = "NEW_FUNC" => FnOf(F, F[e].offset + code[p].arg + 1, F[e].file)
              /\ code[p].op \in {"JUMP", "RPROT_SET"} => p + code[p].arg \in 1..m
<1> DEFINE id   == F[e].file
           n    == Len(Fns(id))
           code == CodeIn(F, e)
           m    == Len(code)
<1>1. id \in DOMAIN Files /\ F[e].x \in 1..n /\ F[e].offset \in Nat
      /\ \A y \in 1..n : FnOf(F, F[e].offset + y, id)
  BY DEF Entry, FnOf
<1>2. WellMade(Disk[id].whole) /\ code = Disk[id].whole.fns[F[e].x].code
  BY <1>1 DEF UnitAssumption, CodeIn, Fns
<1>3. n \in Nat /\ n = Len(Disk[id].whole.fns)
  BY <1>2 DEF WellMade, Fns
<1> HIDE DEF n, code, id
<1>4. /\ m \in Nat \ {0} /\ code[m].op = "RETURN"
      /\ \A p \in 1..m : /\ code[p].op = "NEW_FUNC" => code[p].arg \in 0..n - 1
                         /\ code[p].op \in {"JUMP", "RPROT_SET"} => p + code[p].arg \in 1..m
  BY <1>1, <1>2, <1>3 DEF WellMade
<1>5. ASSUME NEW p \in 1..m, code[p].op = "NEW_FUNC"
      PROVE  FnOf(F, F[e].offset + code[p].arg + 1, id)
  <2>1. code[p].arg \in 0..n - 1
    BY <1>4, <1>5
  <2>2. PICK y : y = code[p].arg + 1
    OBVIOUS
  <2>3. \A a, b \in Nat : a + b + 1 = a + (b + 1)
    OBVIOUS
  <2>0. \A k \in Nat : \A a \in 0..k - 1 : a \in Nat /\ a + 1 \in 1..k
    OBVIOUS
  <2>4. y \in 1..n /\ code[p].arg \in Nat
    BY <1>3, <2>0, <2>1, <2>2
  <2>5. F[e].offset \in Nat
    BY <1>1
  <2>6. F[e].offset + code[p].arg + 1 = F[e].offset + y
    BY <2>2, <2>3, <2>4, <2>5
  <2> QED BY <1>1, <2>4, <2>6
<1> QED BY <1>4, <1>5 DEF code, id

(* The functions of a unit are added.                                      *)
LEMMA MergedIs ==
  ASSUME UnitAssumption, GoodList(funcs), NEW id \in DOMAIN Files, Disk[id].whole.fns # <<>>
  PROVE  LET G == Merged(id, Disk[id].whole)
         IN  /\ GoodList(G) /\ Grows(funcs, G) /\ FnOf(G, Root(Disk[id].whole), id)
             /\ \A e \in 1..Len(G) : e \in 1..Len(funcs) \/ G[e].file = id
<1> DEFINE unit == Disk[id].whole
           n    == Len(Fns(id))
           l    == Len(funcs)
           One(x) == [file |-> id, x |-> x, offset |-> l]
           T    == [x \in DOMAIN unit.fns |-> One(x)]
           G    == Merged(id, unit)
<1>1. WellMade(unit)
  BY DEF UnitAssumption
<1>2. n \in Nat /\ DOMAIN unit.fns = 1..n /\ unit.root \in 0..n - 1
  BY <1>1 DEF WellMade, Fns
<1>3. IsSeq(funcs) /\ l \in Nat
  BY SeqFacts DEF GoodList
<1>4. /\ IsSeq(G) /\ Len(G) = l + n /\ (\A e \in 1..l : G[e] = funcs[e])
      /\ \A y \in 1..n : G[l + y] = One(y)
  <2>1. PICK S : funcs \in Seq(S)
    BY <1>3 DEF IsSeq
  <2> DEFINE R == S \cup {One(x) : x \in 1..n}
  <2>2. funcs \in Seq(R) /\ \A x \in 1..n : One(x) \in R
    BY <2>1
  <2> HIDE DEF R, One, n, l, unit
  <2>3. T \in [1..n -> R]
    BY <1>2, <2>2
  <2>4. T \in Seq(R) /\ Len(T) = n /\ \A y \in 1..n : T[y] = One(y)
    BY <1>2, <2>3
  <2>5. G = funcs \o T
    BY DEF Merged, T, One, unit, l
  <2> HIDE DEF T, G
  <2>6. /\ G \in Seq(R) /\ Len(G) = Len(funcs) + Len(T)
        /\ \A j \in 1..Len(funcs) + Len(T) : G[j] = IF j <= Len(funcs) THEN funcs[j] ELSE T[j - Len(funcs)]
    BY <2>2, <2>4, <2>5, ConcatProperties
  <2>7. Len(funcs) = l
    BY DEF l
  <2>8. \A e \in 1..l : e \in 1..l + n /\ e <= l
    BY <1>2, <1>3
  <2>9. \A y \in 1..n : l + y \in 1..l + n /\ ~ (l + y <= l) /\ (l + y) - l = y
    BY <1>2, <1>3
  <2>10. (\A e \in 1..l : G[e] = funcs[e]) /\ \A y \in 1..n : G[l + y] = One(y)
    <3>1. \A j \in 1..l + n : G[j] = IF j <= l THEN funcs[j] ELSE T[j - l]
      BY <2>4, <2>6, <2>7
    <3>2. ASSUME NEW e \in 1..l
          PROVE  G[e] = funcs[e]
      BY <2>8, <3>1
    <3>3. ASSUME NEW y \in 1..n
          PROVE  G[l + y] = One(y)
      <4>1. PICK j : j = l + y
        OBVIOUS
      <4>2. j \in 1..l + n /\ ~ (j <= l) /\ j - l = y
        BY <2>9, <4>1
      <4>3. G[j] = T[y]
        BY <3>1, <4>2
      <4> QED BY <2>4, <4>1, <4>3
    <3> QED BY <3>2, <3>3
  <2>11. IsSeq(G)
    BY <2>6 DEF IsSeq
  <2>12. Len(G) = l + n
    BY <2>4, <2>6, <2>7
  <2> QED BY <2>10, <2>11, <2>12
<1>0. \A y : One(y).file = id /\ One(y).x = y /\ One(y).offset = l
  OBVIOUS
<1> HIDE DEF G, One
<1>5. \A y \in 1..n : G[l + y].file = id /\ G[l + y].x = y /\ G[l + y].offset = l
  BY <1>0, <1>4
<1>6. \A e \in 1..l : e \in 1..Len(G)
  BY <1>2, <1>3, <1>4
<1>7. \A y \in 1..n : l + y \in 1..Len(G)
  BY <1>2, <1>3, <1>4
<1>8. \A e \in 1..Len(G) : e \in 1..l \/ \E y \in 1..n : e = l + y
  <2> SUFFICES ASSUME NEW e \in 1..Len(G), e \notin 1..l
               PROVE  \E y \in 1..n : e = l + y
    OBVIOUS
  <2>1. e - l \in 1..n /\ e = l + (e - l)
    BY <1>2, <1>3, <1>4
  <2> QED BY <2>1
<1>9. Grows(funcs, G)
  BY <1>2, <1>3, <1>4 DEF Grows
<1>10. ASSUME NEW e \in 1..Len(G)
       PROVE  Entry(G, e)
  <2>1. CASE e \in 1..l
    <3>1. Entry(funcs, e) /\ G[e] = funcs[e]
      BY <1>4, <2>1 DEF GoodList
    <3>2. \A y \in 1..Len(Fns(funcs[e].file)) :
            funcs[e].offset + y \in 1..l /\ funcs[funcs[e].offset + y].file = funcs[e].file
      BY <3>1 DEF Entry
    <3>3. \A y \in 1..Len(Fns(funcs[e].file)) :
            funcs[e].offset + y \in 1..Len(G) /\ G[funcs[e].offset + y].file = funcs[e].file
      BY <1>4, <1>6, <3>2
    <3> QED BY <3>1, <3>3 DEF Entry
  <2>2. CASE \E y \in 1..n : e = l + y
    <3>1. PICK y \in 1..n : e = l + y
      BY <2>2
    <3>2. G[e].file = id /\ G[e].x = y /\ G[e].offset = l
      BY <1>5, <3>1
    <3>3. \A z \in 1..n : l + z \in 1..Len(G) /\ G[l + z].file = id
      BY <1>5, <1>7
    <3> QED BY <1>3, <3>2, <3>3 DEF Entry
  <2> QED BY <1>8, <2>1, <2>2
<1>11. \A x \in 1..Len(Fns(MainFile)) : x \in 1..Len(G) /\ G[x].file = MainFile
  BY <1>4, <1>6 DEF GoodList
<1>12. GoodList(G)
  BY <1>4, <1>10, <1>11 DEF GoodList
<1>13. FnOf(G, Root(unit), id)
  <2>1. PICK y : y = unit.root + 1
    OBVIOUS
  <2>2. y \in 1..n /\ Root(unit) = l + y
    BY <1>2, <1>3, <2>1 DEF Root
  <2> QED BY <1>5, <1>7, <2>2 DEF FnOf
<1> QED BY <1>5, <1>8, <1>9, <1>12, <1>13 DEF G

(***************************************************************************)
(* The invariant.                                                          *)
(***************************************************************************)

(* Every function in the list is of a file that was loaded; every frame    *)
(* has a function and values of its file.                                  *)
FramesOwn == \A t \in Thread : OwnStack(funcs, Frames(t))
LinkInv ==
  /\ GoodList(funcs)
  /\ \A e \in 1..Len(funcs) : had[funcs[e].file] # -1
  /\ FramesOwn

(* The instruction that is next, and where it may go on.                   *)
LEMMA AtInstr ==
  ASSUME UnitAssumption, DiskInv, ModInv, LinkInv, NEW t \in Thread, Runs(t)
  PROVE  LET f == Top(t)  i == Instr(t)  m == Len(CodeIn(funcs, Top(t).fn)) IN
         /\ IsSeq(Frames(t)) /\ Len(Frames(t)) >= 1 /\ OwnStack(funcs, Frames(t)) /\ f = Last(Frames(t))
         /\ Own(funcs, f) /\ m \in Nat
         /\ i.op # "RETURN" => f.ip + 1 \in 1..m
         /\ i.op \in {"JUMP", "RPROT_SET"} => f.ip + i.arg \in 1..m
         /\ i.op = "NEW_FUNC" => FnOf(funcs, Offset(f.fn) + i.arg + 1, f.of)
<1> DEFINE f == Top(t)
           i == Instr(t)
           m == Len(CodeIn(funcs, f.fn))
<1>1. IsSeq(Frames(t)) /\ Len(Frames(t)) >= 1
  BY RunsFacts DEF ModInv
<1>2. OwnStack(funcs, Frames(t)) /\ GoodList(funcs)
  BY DEF LinkInv, FramesOwn
<1>3. f = Last(Frames(t)) /\ Own(funcs, f)
  BY <1>1, <1>2, TopOwn DEF Top
<1> HIDE DEF f
<1>4. f.fn \in 1..Len(funcs) /\ funcs[f.fn].file = f.of /\ f.ip \in 1..m
  BY <1>3 DEF Own, FnOf
<1>5. Entry(funcs, f.fn) /\ had[f.of] # -1
  BY <1>2, <1>4 DEF GoodList, LinkInv
<1>6. f.of \in DOMAIN Files
  BY <1>4, <1>5 DEF Entry
<1>7. Disk[f.of].at[had[f.of]] = Disk[f.of].whole /\ disk = Disk
  BY <1>5, <1>6 DEF DiskInv, IsWhole
<1>8. i = CodeIn(funcs, f.fn)[f.ip]
  BY <1>4, <1>7 DEF Instr, Code, CodeIn, Fns, f
<1> HIDE DEF i
<1>9. /\ m \in Nat \ {0} /\ CodeIn(funcs, f.fn)[m].op = "RETURN"
      /\ \A p \in 1..m :
           /\ CodeIn(funcs, f.fn)[p].op = "NEW_FUNC"
                => FnOf(funcs, funcs[f.fn].offset + CodeIn(funcs, f.fn)[p].arg + 1, funcs[f.fn].file)
           /\ CodeIn(funcs, f.fn)[p].op \in {"JUMP", "RPROT_SET"} => p + CodeIn(funcs, f.fn)[p].arg \in 1..m
  BY <1>5, CodeFacts
<1> HIDE DEF m
<1>10. i.op # "RETURN" => f.ip + 1 \in 1..m
  <2>1. i.op # "RETURN" => f.ip # m
    BY <1>8, <1>9
  <2>2. f.ip # m => f.ip + 1 \in 1..m
    BY <1>4, <1>9
  <2> QED BY <2>1, <2>2
<1>11. i.op \in {"JUMP", "RPROT_SET"} => f.ip + i.arg \in 1..m
  BY <1>4, <1>8, <1>9
<1>12. i.op = "NEW_FUNC" => FnOf(funcs, Offset(f.fn) + i.arg + 1, f.of)
  BY <1>4, <1>8, <1>9 DEF Offset
<1> QED BY <1>1, <1>2, <1>3, <1>9, <1>10, <1>11, <1>12 DEF f, i, m

(* Frames change, the list does not.                                       *)
LEMMA LinkFrames ==
  ASSUME LinkInv, funcs' = funcs, had' = had,
         \A u \in Thread : Frames(u)' = Frames(u) \/ OwnStack(funcs, Frames(u)')
  PROVE  LinkInv'
<1>1. \A u \in Thread : OwnStack(funcs, Frames(u))
  BY DEF LinkInv, FramesOwn
<1>2. \A u \in Thread : OwnStack(funcs, Frames(u)')
  BY <1>1
<1>3. \A u \in Thread : OwnStack(funcs, Frames(u))'
  BY <1>2 DEF OwnStack, Own, OwnVals, OwnVal, FnOf, CodeIn
<1>4. GoodList(funcs)' /\ \A e \in 1..Len(funcs') : had'[funcs'[e].file] # -1
  BY DEF LinkInv, GoodList, Entry
<1> QED BY <1>3, <1>4 DEF LinkInv, FramesOwn

(* The frames of one thread change, the list does not.                     *)
LEMMA LinkMove ==
  ASSUME PathInv, LinkInv, NEW t \in Thread, NEW gs, Replace(t, gs), OwnStack(funcs, gs), funcs' = funcs, had' = had
  PROVE  LinkInv'
<1>1. Frames(t)' = gs /\ \A u \in Thread : u # t => Frames(u)' = Frames(u)
  BY ReplaceIs
<1> QED BY <1>1, LinkFrames

(***************************************************************************)
(* Steps in a frame.                                                       *)
(***************************************************************************)

(* The frame at the top changes.                                           *)
LEMMA LinkTop ==
  ASSUME ModInv, LinkInv, NEW t \in Thread, Runs(t), NEW f, Own(funcs, f), ToTop(t, f), Quiet
  PROVE  LinkInv'
<1>1. IsSeq(Frames(t)) /\ Len(Frames(t)) >= 1 /\ OwnStack(funcs, Frames(t)) /\ PathInv
  BY RunsFacts DEF ModInv, LinkInv, FramesOwn
<1>2. OwnStack(funcs, Append(Front(Frames(t)), f))
  BY <1>1, OwnTop
<1> QED BY <1>1, <1>2, LinkMove DEF ToTop, Quiet

(* The next instruction, with values that cover the blocks.                *)
LEMMA OwnStep ==
  ASSUME NEW F, NEW f, Own(F, f), f.ip + 1 \in 1..Len(CodeIn(F, f.fn)),
         NEW ws, OwnVals(F, f.of, ws), Last(f.blocks).bp <= Len(ws)
  PROVE  Own(F, Step(f, ws))
<1> DEFINE g == Step(f, ws)
<1>1. DOMAIN g = DOMAIN f /\ g.fn = f.fn /\ g.of = f.of /\ g.ip = f.ip + 1 /\ g.vals = ws /\ g.blocks = f.blocks
  BY DEF Step, Own
<1> HIDE DEF g
<1>2. Len(ws) \in Nat
  BY SeqFacts DEF OwnVals
<1>3. Stacked(Len(f.vals), f.blocks, Len(CodeIn(F, f.fn)))
  BY DEF Own
<1>4. Stacked(Len(ws), f.blocks, Len(CodeIn(F, f.fn)))
  BY <1>2, <1>3, StackedOver
<1>5. Own(F, g)
  BY <1>1, <1>4, OwnBecomes
<1> QED BY <1>5 DEF g

(* What is left without the n values at the top.                           *)
LEMMA WithoutIs ==
  ASSUME NEW F, NEW f, Own(F, f), NEW n \in Nat, n = 0 \/ n <= Avail(f)
  PROVE  /\ OwnVals(F, f.of, Without(f, n)) /\ Len(Without(f, n)) = Len(f.vals) - n
         /\ Last(f.blocks).bp <= Len(Without(f, n)) /\ Len(f.vals) \in Nat /\ n <= Len(f.vals)
<1> DEFINE b == Last(f.blocks).bp
           k == Len(f.vals) - n
<1>1. OwnVals(F, f.of, f.vals) /\ Stacked(Len(f.vals), f.blocks, Len(CodeIn(F, f.fn)))
  BY DEF Own
<1>2. Len(f.blocks) \in 1..Len(f.blocks) /\ Last(f.blocks) = f.blocks[Len(f.blocks)] /\ Len(f.vals) \in Nat
  BY <1>1, SeqFacts DEF Stacked, Last
<1>3. b \in 0..Len(f.vals)
  BY <1>1, <1>2 DEF Stacked
<1>4. n = 0 \/ n <= Len(f.vals) - b
  BY DEF Avail
<1> HIDE DEF b
<1>5. k \in 0..Len(f.vals) /\ b <= k /\ n <= Len(f.vals)
  BY <1>2, <1>3, <1>4
<1> HIDE DEF k
<1>6. OwnVals(F, f.of, SubSeq(f.vals, 1, k)) /\ Len(SubSeq(f.vals, 1, k)) = k
  BY <1>1, <1>5, ValsCut
<1> QED BY <1>2, <1>5, <1>6 DEF Without, k, b

(* Instructions that call nothing.                                         *)
LEMMA SimpleLink ==
  ASSUME UnitAssumption, DiskInv, ModInv, LinkInv, StacksFit, NEW t \in Thread, Simple(t)
  PROVE  LinkInv'
<1> DEFINE f == Top(t)
           i == Instr(t)
           n == IF i.op \in Pops THEN 1 ELSE 0
           ws == Without(f, n) \o Pushed(t)
<1>1. Runs(t) /\ i.op \in Plain /\ ToTop(t, Step(f, ws)) /\ Quiet
  BY DEF Simple
<1>2. Own(funcs, f) /\ (i.op # "RETURN" => f.ip + 1 \in 1..Len(CodeIn(funcs, f.fn)))
      /\ (i.op = "NEW_FUNC" => FnOf(funcs, Offset(f.fn) + i.arg + 1, f.of))
  BY <1>1, AtInstr
<1>3. i.op # "RETURN"
  BY <1>1 DEF Plain, Pushes, Pops
<1>4. n \in Nat /\ (n = 0 \/ n <= Avail(f))
  BY <1>1 DEF StacksFit
<1>5. Pushed(t) = <<>> \/ \E v : Pushed(t) = <<v>> /\ OwnVal(funcs, f.of, v)
  <2>1. \A s : OwnVal(funcs, f.of, Str(s))
    BY DEF OwnVal, Str, Other
  <2>2. OwnVal(funcs, f.of, Other) /\ OwnVal(funcs, f.of, ImportFunc)
    BY DEF OwnVal, Other, ImportFunc
  <2>3. \A m : FnOf(funcs, m, f.of) => OwnVal(funcs, f.of, Func(m))
    BY DEF OwnVal, Func, Other
  <2>4. CASE i.op = "NEW_STR"
    <3>1. Pushed(t) = <<Str(i.arg)>>
      BY <2>4 DEF Pushed
    <3> QED BY <2>1, <3>1
  <2>5. CASE i.op = "NEW_FUNC"
    <3>1. Pushed(t) = <<Func(Offset(f.fn) + i.arg + 1)>>
      BY <2>5 DEF Pushed
    <3> QED BY <1>2, <2>3, <2>5, <3>1
  <2>6. CASE i.op = "GET_CONTEXT_SLOT"
    <3>1. Pushed(t) = <<ImportFunc>> \/ Pushed(t) = <<Other>>
      BY <2>6 DEF Pushed
    <3> QED BY <2>2, <3>1
  <2>7. CASE i.op \notin {"NEW_STR", "NEW_FUNC", "GET_CONTEXT_SLOT"}
    <3>1. Pushed(t) = <<Other>> \/ Pushed(t) = <<>>
      BY <2>7 DEF Pushed
    <3> QED BY <2>2, <3>1
  <2> QED BY <2>4, <2>5, <2>6, <2>7
<1> HIDE DEF f, i, n
<1>6. OwnVals(funcs, f.of, Without(f, n)) /\ Last(f.blocks).bp <= Len(Without(f, n))
      /\ IsSeq(Without(f, n)) /\ Len(Without(f, n)) \in Nat
  <2>1. OwnVals(funcs, f.of, Without(f, n)) /\ Last(f.blocks).bp <= Len(Without(f, n))
    BY <1>2, <1>4, WithoutIs
  <2> QED BY <2>1, SeqFacts DEF OwnVals
<1>7. Last(f.blocks).bp \in Nat
  <2>1. Stacked(Len(f.vals), f.blocks, Len(CodeIn(funcs, f.fn)))
    BY <1>2 DEF Own
  <2>2. Len(f.blocks) \in 1..Len(f.blocks) /\ Last(f.blocks) = f.blocks[Len(f.blocks)]
    BY <2>1, SeqFacts DEF Stacked, Last
  <2>3. Last(f.blocks).bp \in 0..Len(f.vals)
    BY <2>1, <2>2 DEF Stacked
  <2> QED BY <2>3
<1>8. PICK us : us = Without(f, n)
  OBVIOUS
<1>9. OwnVals(funcs, f.of, ws) /\ Last(f.blocks).bp <= Len(ws)
  <2>1. CASE Pushed(t) = <<>>
    <3>1. PICK S : us \in Seq(S)
      BY <1>6, <1>8 DEF IsSeq
    <3>2. us \o <<>> = us
      BY <3>1, ConcatEmptySeq
    <3>3. ws = us
      BY <1>8, <2>1, <3>2
    <3> QED BY <1>6, <1>8, <3>3
  <2>2. CASE \E v : Pushed(t) = <<v>> /\ OwnVal(funcs, f.of, v)
    <3>1. PICK v : Pushed(t) = <<v>> /\ OwnVal(funcs, f.of, v)
      BY <2>2
    <3>2. PICK S : us \in Seq(S)
      BY <1>6, <1>8 DEF IsSeq
    <3>3. us \o <<v>> = Append(us, v)
      <4>1. us \in Seq(S \cup {v}) /\ v \in S \cup {v}
        BY <3>2
      <4> QED BY <4>1, AppendIsConcat
    <3>4. ws = Append(us, v)
      BY <1>8, <3>1, <3>3
    <3>5. OwnVals(funcs, f.of, Append(us, v)) /\ Len(Append(us, v)) = Len(us) + 1
      BY <1>6, <1>8, <3>1, ValsMore
    <3>6. Last(f.blocks).bp <= Len(us) + 1
      BY <1>6, <1>7, <1>8
    <3> QED BY <3>4, <3>5, <3>6
  <2> QED BY <1>5, <2>1, <2>2
<1> HIDE DEF ws
<1>10. Own(funcs, Step(f, ws))
  BY <1>2, <1>3, <1>9, OwnStep
<1> QED BY <1>1, <1>10, LinkTop

(* JUMP.                                                                   *)
LEMMA JumpLink ==
  ASSUME UnitAssumption, DiskInv, ModInv, LinkInv, NEW t \in Thread, Jump(t)
  PROVE  LinkInv'
<1> DEFINE f == Top(t)
           i == Instr(t)
           g == [f EXCEPT !.ip = @ + i.arg]
<1>1. Runs(t) /\ i.op = "JUMP" /\ ToTop(t, g) /\ Quiet
  BY DEF Jump
<1>2. Own(funcs, f) /\ f.ip + i.arg \in 1..Len(CodeIn(funcs, f.fn))
  BY <1>1, AtInstr
<1> HIDE DEF f, i
<1>3. DOMAIN g = DOMAIN f /\ g.fn = f.fn /\ g.of = f.of /\ g.ip = f.ip + i.arg /\ g.vals = f.vals /\ g.blocks = f.blocks
  BY <1>2 DEF Own
<1> HIDE DEF g
<1>4. Own(funcs, g)
  BY <1>2, <1>3 DEF Own
<1> QED BY <1>1, <1>4, LinkTop

(* Blocks begin, end and catch.                                            *)
LEMMA BlocksLink ==
  ASSUME UnitAssumption, DiskInv, ModInv, LinkInv, NEW t \in Thread, Blocks(t)
  PROVE  LinkInv'
<1> DEFINE f == Top(t)
           i == Instr(t)
           m == Len(CodeIn(funcs, f.fn))
           n == Len(f.blocks)
           b == Last(f.blocks)
           New(ws, bs) == [Step(f, ws) EXCEPT !.blocks = bs]
<1>1. Runs(t) /\ Quiet /\ i.op \in {"PUSH_BLOCK", "POP_BLOCK", "RPROT_SET", "RPROT_CAC"}
  BY DEF Blocks
<1>2. /\ Own(funcs, f) /\ (i.op # "RETURN" => f.ip + 1 \in 1..m) /\ m \in Nat
      /\ (i.op \in {"JUMP", "RPROT_SET"} => f.ip + i.arg \in 1..m)
  BY <1>1, AtInstr
<1>4. \A ws : Step(f, ws).blocks = f.blocks
  BY DEF Step
<1>5. \/ i.op = "PUSH_BLOCK" /\ ToTop(t, New(f.vals, Append(f.blocks, Block(Len(f.vals)))))
      \/ i.op = "POP_BLOCK" /\ n = 1 /\ ToTop(t, Step(f, f.vals))
      \/ i.op = "POP_BLOCK" /\ n # 1 /\ ToTop(t, New(SubSeq(f.vals, 1, b.bp), Front(f.blocks)))
      \/ i.op = "RPROT_SET" /\ ToTop(t, New(f.vals, [f.blocks EXCEPT ![n].catch = f.ip + i.arg]))
      \/ i.op = "RPROT_CAC" /\ ToTop(t, New(f.vals, [f.blocks EXCEPT ![n].catch = 0]))
  BY <1>4 DEF Blocks
<1> HIDE DEF f, i
<1>6. {"fn", "of", "ip", "vals", "blocks"} \subseteq DOMAIN f
      /\ OwnVals(funcs, f.of, f.vals) /\ Stacked(Len(f.vals), f.blocks, m) /\ f.ip + 1 \in 1..m
  BY <1>1, <1>2 DEF Own
<1>7. n \in Nat /\ n \in 1..n /\ b = f.blocks[n] /\ Len(f.vals) \in Nat /\ b.bp \in 0..Len(f.vals)
  <2>1. n \in Nat /\ n \in 1..n /\ b = f.blocks[n] /\ Len(f.vals) \in Nat
    BY <1>6, SeqFacts DEF Stacked, Last
  <2> QED BY <1>6, <2>1 DEF Stacked
<1>8. ASSUME NEW ws, NEW bs
      PROVE  /\ DOMAIN New(ws, bs) = DOMAIN f /\ New(ws, bs).fn = f.fn /\ New(ws, bs).of = f.of
             /\ New(ws, bs).ip = f.ip + 1 /\ New(ws, bs).vals = ws /\ New(ws, bs).blocks = bs
  BY <1>6 DEF Step
<1> HIDE DEF New, m, n, b
<1>9. ASSUME NEW ws, NEW bs, OwnVals(funcs, f.of, ws), Stacked(Len(ws), bs, m), ToTop(t, New(ws, bs))
      PROVE  LinkInv'
  <2>1. PICK g : g = New(ws, bs)
    OBVIOUS
  <2>2. Own(funcs, g)
    BY <1>2, <1>6, <1>8, <1>9, <2>1, OwnBecomes DEF m
  <2> QED BY <1>1, <1>9, <2>1, <2>2, LinkTop
<1>10. CASE i.op = "PUSH_BLOCK" /\ ToTop(t, New(f.vals, Append(f.blocks, Block(Len(f.vals)))))
  <2>1. Stacked(Len(f.vals), Append(f.blocks, Block(Len(f.vals))), m)
    BY <1>6, StackedMore
  <2> QED BY <1>6, <1>9, <1>10, <2>1
<1>11. CASE i.op = "POP_BLOCK" /\ n # 1 /\ ToTop(t, New(SubSeq(f.vals, 1, b.bp), Front(f.blocks)))
  <2>1. PICK k : k = n - 1
    OBVIOUS
  <2>2. k \in 1..n /\ k # n /\ k + 1 = n
    BY <1>7, <1>11, <2>1
  <2>3. Front(f.blocks) = SubSeq(f.blocks, 1, k)
    BY <2>1 DEF Front, n
  <2>4. Stacked(IF k = n THEN Len(f.vals) ELSE f.blocks[k + 1].bp, SubSeq(f.blocks, 1, k), m)
    BY <1>6, <2>2, StackedCut DEF n
  <2>5. Stacked(b.bp, Front(f.blocks), m)
    BY <1>7, <2>2, <2>3, <2>4
  <2>6. PICK h : h = b.bp
    OBVIOUS
  <2>7. OwnVals(funcs, f.of, SubSeq(f.vals, 1, h)) /\ Len(SubSeq(f.vals, 1, h)) = h
    BY <1>6, <1>7, <2>6, ValsCut
  <2> QED BY <1>9, <1>11, <2>5, <2>6, <2>7
<1>12. CASE i.op = "RPROT_SET" /\ ToTop(t, New(f.vals, [f.blocks EXCEPT ![n].catch = f.ip + i.arg]))
  <2>1. PICK c : c = f.ip + i.arg
    OBVIOUS
  <2>2. c \in 0..m
    BY <1>2, <1>12, <2>1
  <2>3. Stacked(Len(f.vals), [f.blocks EXCEPT ![n].catch = c], m)
    BY <1>6, <1>7, <2>2, StackedCatch DEF n
  <2> QED BY <1>6, <1>9, <1>12, <2>1, <2>3
<1>13. CASE i.op = "RPROT_CAC" /\ ToTop(t, New(f.vals, [f.blocks EXCEPT ![n].catch = 0]))
  <2>1. PICK c : c = 0
    OBVIOUS
  <2>2. c \in 0..m
    BY <1>2, <2>1 DEF m
  <2>3. Stacked(Len(f.vals), [f.blocks EXCEPT ![n].catch = c], m)
    BY <1>6, <1>7, <2>2, StackedCatch DEF n
  <2> QED BY <1>6, <1>9, <1>13, <2>1, <2>3
<1>14. CASE i.op = "POP_BLOCK" /\ n = 1 /\ ToTop(t, Step(f, f.vals))
  <2>1. PICK g : g = Step(f, f.vals)
    OBVIOUS
  <2>2. DOMAIN g = DOMAIN f /\ g.fn = f.fn /\ g.of = f.of /\ g.ip = f.ip + 1 /\ g.vals = f.vals /\ g.blocks = f.blocks
    BY <1>6, <2>1 DEF Step
  <2>3. Own(funcs, g)
    BY <1>2, <1>6, <2>2, OwnBecomes DEF m
  <2> QED BY <1>1, <1>14, <2>1, <2>3, LinkTop
<1> QED BY <1>5, <1>10, <1>11, <1>12, <1>13, <1>14

(***************************************************************************)
(* Calls, returns and exceptions.                                          *)
(***************************************************************************)

(* The thread ends.                                                        *)
LEMMA LinkOver ==
  ASSUME PathInv, LinkInv, NEW t \in Thread, Runs(t), Over(t), funcs' = funcs, had' = had
  PROVE  LinkInv'
<1>1. Frames(t)' = <<>> /\ \A u \in Thread : u # t => Frames(u)' = Frames(u)
  BY PathOver
<1>2. OwnStack(funcs, <<>>)
  BY DEF OwnStack
<1> QED BY <1>1, <1>2, LinkFrames

(* An exception.                                                           *)
LEMMA RaiseLink ==
  ASSUME FileAssumption, ModInv, LinkInv, NEW t \in Thread, Runs(t), NEW fs, Alike(fs, Frames(t)),
         OwnStack(funcs, fs), Raise(t, fs)
  PROVE  LinkInv'
<1> DEFINE k == Stop(fs)
<1>1. PathInv /\ GoodFrames(Frames(t))
  BY RunsFacts DEF ModInv
<1>2. IsSeq(fs) /\ fs[1].load = NoFile /\ Len(fs) \in Nat
  BY <1>1, AlikeIsGood, SeqFacts DEF GoodFrames
<1>3. k \in 0..Len(fs) /\ k \in Nat /\ (k # 0 => Catching(fs[k]) # {} \/ fs[k].load \in Caches)
  BY <1>2, StopIs
<1>4. funcs' = funcs /\ had' = had
  BY DEF Raise
<1>5. \/ k = 0 /\ Over(t)
      \/ k > 0 /\ Catching(fs[k]) # {} /\ Replace(t, Caught(SubSeq(fs, 1, k)))
      \/ k > 0 /\ Catching(fs[k]) = {} /\ Replace(t, Deliver(SubSeq(fs, 1, k - 1)))
  <2>1. k = 0 \/ (k > 0 /\ Catching(fs[k]) # {}) \/ (k > 0 /\ Catching(fs[k]) = {})
    BY <1>3
  <2> QED BY <2>1 DEF Raise, Stop
<1> HIDE DEF k
<1>6. CASE k = 0 /\ Over(t)
  BY <1>1, <1>4, <1>6, LinkOver
<1>7. CASE k > 0 /\ Catching(fs[k]) # {} /\ Replace(t, Caught(SubSeq(fs, 1, k)))
  <2> DEFINE gs == SubSeq(fs, 1, k)
  <2>1. IsSeq(gs) /\ Len(gs) = k /\ OwnStack(funcs, gs) /\ \A j \in 1..k : gs[j] = fs[j]
    BY <1>2, <1>3, OwnSub
  <2>2. Replace(t, Caught(gs))
    BY <1>7
  <2> HIDE DEF gs
  <2>3. Len(gs) >= 1 /\ Last(gs) = fs[k]
    BY <1>3, <1>7, <2>1 DEF Last
  <2>4. OwnStack(funcs, Caught(gs))
    BY <1>7, <2>1, <2>3, OwnCaught
  <2> QED BY <1>1, <1>4, <2>2, <2>4, LinkMove
<1>8. CASE k > 0 /\ Catching(fs[k]) = {} /\ Replace(t, Deliver(SubSeq(fs, 1, k - 1)))
  <2>1. fs[k].load \in Caches /\ fs[k].load # NoFile
    BY <1>3, <1>8 DEF FileAssumption, Caches
  <2>2. PICK l : l = k - 1
    OBVIOUS
  <2>3. k # 1
    BY <1>2, <2>1
  <2>4. l \in 0..Len(fs) /\ l >= 1
    BY <1>2, <1>3, <1>8, <2>2, <2>3
  <2> DEFINE gs == SubSeq(fs, 1, l)
  <2>5. IsSeq(gs) /\ Len(gs) = l /\ OwnStack(funcs, gs)
    BY <1>2, <2>4, OwnSub
  <2>6. Replace(t, Deliver(gs))
    BY <1>8, <2>2
  <2> HIDE DEF gs
  <2>7. OwnStack(funcs, Deliver(gs))
    BY <2>4, <2>5, OwnDeliver
  <2> QED BY <1>1, <1>4, <2>6, <2>7, LinkMove
<1> QED BY <1>5, <1>6, <1>7, <1>8

(* A module is loaded: its functions are added to the list.                *)
LEMMA LoadLink ==
  ASSUME UnitAssumption, AllOrNothing, DiskInv, ModInv, LinkInv, NEW t \in Thread,
         NEW fs, IsSeq(fs), OwnStack(funcs, fs), NEW id, LoadsFile(t, fs, id)
  PROVE  LinkInv'
<1> DEFINE unit == Disk[id].whole
           G    == Merged(id, unit)
           f    == Frame(Root(unit), id, id, cur)
<1>1. id \in DOMAIN Files /\ disk[id].at[written[id]] = unit /\ written[id] # -1
  BY DiskLoads DEF IsWhole
<1>2. /\ unit.fns # <<>> /\ had' = [had EXCEPT ![id] = written[id]]
      /\ funcs' = G /\ Replace(t, Append(fs, f))
  BY <1>1 DEF LoadsFile
<1>3. PathInv /\ GoodList(funcs) /\ DOMAIN had = DOMAIN Files
  BY DEF ModInv, LinkInv, DiskInv
<1>4. /\ GoodList(G) /\ Grows(funcs, G) /\ FnOf(G, Root(unit), id)
      /\ \A e \in 1..Len(G) : e \in 1..Len(funcs) \/ G[e].file = id
  BY <1>1, <1>2, <1>3, MergedIs
<1> HIDE DEF G, unit
<1>5. Len(CodeIn(G, Root(unit))) \in Nat \ {0}
  <2>1. Entry(G, Root(unit))
    BY <1>4 DEF GoodList, FnOf
  <2> QED BY <2>1, CodeFacts
<1>6. Own(G, f)
  BY <1>4, <1>5, OwnFrame
<1> HIDE DEF f
<1>7. OwnStack(G, fs)
  BY <1>4, OwnGrows DEF OwnStack
<1>8. OwnStack(G, Append(fs, f))
  BY <1>6, <1>7, OwnMore
<1>9. Frames(t)' = Append(fs, f) /\ \A u \in Thread : u # t => Frames(u)' = Frames(u)
  BY <1>2, <1>3, ReplaceIs
<1>10. ASSUME NEW u \in Thread
       PROVE  OwnStack(G, Frames(u)')
  <2>1. OwnStack(funcs, Frames(u))
    BY DEF LinkInv, FramesOwn
  <2>2. OwnStack(G, Frames(u))
    BY <1>4, <2>1, OwnGrows DEF OwnStack
  <2> QED BY <1>8, <1>9, <2>2
<1>11. ASSUME NEW e \in 1..Len(G)
       PROVE  had'[G[e].file] # -1
  <2>1. G[e].file \in DOMAIN Files
    BY <1>4 DEF GoodList, Entry
  <2>2. had'[G[e].file] = IF G[e].file = id THEN written[id] ELSE had[G[e].file]
    BY <1>2, <1>3, <2>1
  <2>3. CASE e \in 1..Len(funcs)
    <3>1. G[e] = funcs[e] /\ had[funcs[e].file] # -1
      BY <1>4, <2>3 DEF Grows, LinkInv
    <3> QED BY <1>1, <2>2, <3>1
  <2>4. CASE G[e].file = id
    BY <1>1, <2>2, <2>4
  <2> QED BY <1>4, <2>3, <2>4
<1>12. \A u \in Thread : OwnStack(funcs, Frames(u))'
  BY <1>2, <1>10 DEF OwnStack, Own, OwnVals, OwnVal, FnOf, CodeIn
<1>13. GoodList(funcs)'
  BY <1>2, <1>4 DEF GoodList, Entry
<1> QED BY <1>2, <1>11, <1>12, <1>13 DEF LinkInv, FramesOwn

(* What a call takes from the stack, and the function that it calls.       *)
LEMMA CallOwn ==
  ASSUME UnitAssumption, DiskInv, ModInv, LinkInv, StacksFit,
         NEW t \in Thread, Runs(t), Instr(t).op = "INVOKE"
  PROVE  LET f == Top(t)  i == Instr(t)
             callee == f.vals[Len(f.vals) - i.arg]
             fs == Append(Front(Frames(t)), Step(f, Without(f, i.arg + 1)))
         IN  /\ Alike(fs, Frames(t)) /\ IsSeq(fs) /\ Len(fs) >= 1 /\ OwnStack(funcs, fs)
             /\ OwnStack(funcs, Deliver(fs))
             /\ callee.k = "function" => FnOf(funcs, callee.fn, f.of)
<1> DEFINE f == Top(t)
           i == Instr(t)
           callee == f.vals[Len(f.vals) - i.arg]
           g == Step(f, Without(f, i.arg + 1))
           fs == Append(Front(Frames(t)), g)
<1>1. i.op = "INVOKE"
  OBVIOUS
<1>2. i.arg \in Nat /\ i.arg + 1 <= Avail(f)
  BY DEF StacksFit
<1>3. /\ IsSeq(Frames(t)) /\ Len(Frames(t)) >= 1 /\ OwnStack(funcs, Frames(t))
      /\ Own(funcs, f) /\ (i.op # "RETURN" => f.ip + 1 \in 1..Len(CodeIn(funcs, f.fn)))
  BY AtInstr
<1>4. Alike(fs, Frames(t)) /\ PathInv
  BY Steps DEF ModInv
<1> HIDE DEF f, i
<1>5. PICK n : n = i.arg + 1
  OBVIOUS
<1>6. n \in Nat /\ n <= Avail(f)
  BY <1>2, <1>5
<1>7. /\ OwnVals(funcs, f.of, Without(f, n)) /\ Last(f.blocks).bp <= Len(Without(f, n))
      /\ Len(f.vals) \in Nat /\ n <= Len(f.vals)
  BY <1>3, <1>6, WithoutIs
<1>8. Own(funcs, Step(f, Without(f, n)))
  BY <1>1, <1>3, <1>7, OwnStep
<1>9. Own(funcs, g)
  BY <1>5, <1>8
<1> HIDE DEF g
<1>10. IsSeq(fs) /\ OwnStack(funcs, fs)
  BY <1>3, <1>9, OwnTop
<1>11. Len(fs) >= 1
  BY <1>3, <1>4 DEF Alike
<1>12. callee.k = "function" => FnOf(funcs, callee.fn, f.of)
  <2>1. Len(f.vals) - i.arg \in 1..Len(f.vals)
    BY <1>2, <1>5, <1>7
  <2>2. OwnVals(funcs, f.of, f.vals)
    BY <1>3 DEF Own
  <2> QED BY <2>1, <2>2 DEF OwnVals, OwnVal
<1> HIDE DEF fs, callee
<1>13. OwnStack(funcs, Deliver(fs))
  BY <1>10, <1>11, OwnDeliver
<1> QED BY <1>4, <1>10, <1>11, <1>12, <1>13 DEF f, i, callee, g, fs

(* Calls.                                                                  *)
LEMMA InvokeLink ==
  ASSUME FileAssumption, UnitAssumption, AllOrNothing, DiskInv, ModInv, LinkInv, StacksFit,
         NEW t \in Thread, Invoke(t)
  PROVE  LinkInv'
<1> DEFINE f == Top(t)
           i == Instr(t)
           callee == f.vals[Len(f.vals) - i.arg]
           fs == Append(Front(Frames(t)), Step(f, Without(f, i.arg + 1)))
<1>1. /\ Runs(t) /\ i.op = "INVOKE"
      /\ \/ Import(t, Last(f.vals).s, fs)
         \/ callee.k = "function" /\ Replace(t, Append(fs, Frame(callee.fn, f.of, NoFile, NoFile))) /\ Quiet
         \/ Replace(t, Deliver(fs)) /\ Quiet
  BY DEF Invoke
<1>2. /\ Alike(fs, Frames(t)) /\ IsSeq(fs) /\ OwnStack(funcs, fs) /\ OwnStack(funcs, Deliver(fs))
      /\ (callee.k = "function" => FnOf(funcs, callee.fn, f.of)) /\ PathInv
  BY <1>1, CallOwn DEF ModInv
<1> HIDE DEF f, i, fs, callee
<1>3. CASE Import(t, Last(f.vals).s, fs)
  <2>1. \/ Raise(t, fs) /\ Keeps
        \/ Replace(t, Deliver(fs)) /\ Keeps
        \/ \E id : LoadsFile(t, fs, id)
    BY <1>3, ImportIs
  <2>2. CASE Raise(t, fs) /\ Keeps
    BY <1>1, <1>2, <2>2, RaiseLink
  <2>3. CASE Replace(t, Deliver(fs)) /\ Keeps
    BY <1>2, <2>3, LinkMove DEF Keeps
  <2>4. CASE \E id : LoadsFile(t, fs, id)
    BY <1>2, <2>4, LoadLink
  <2> QED BY <2>1, <2>2, <2>3, <2>4
<1>4. CASE callee.k = "function" /\ Replace(t, Append(fs, Frame(callee.fn, f.of, NoFile, NoFile))) /\ Quiet
  <2>1. FnOf(funcs, callee.fn, f.of)
    BY <1>2, <1>4
  <2>2. Entry(funcs, callee.fn)
    BY <2>1 DEF FnOf, LinkInv, GoodList
  <2>3. Len(CodeIn(funcs, callee.fn)) \in Nat \ {0}
    BY <2>2, CodeFacts
  <2>4. Own(funcs, Frame(callee.fn, f.of, NoFile, NoFile))
    BY <2>1, <2>3, OwnFrame
  <2>5. OwnStack(funcs, Append(fs, Frame(callee.fn, f.of, NoFile, NoFile)))
    BY <1>2, <2>4, OwnMore
  <2> QED BY <1>2, <1>4, <2>5, LinkMove DEF Quiet
<1>5. CASE Replace(t, Deliver(fs)) /\ Quiet
  BY <1>2, <1>5, LinkMove DEF Quiet
<1> QED BY <1>1, <1>3, <1>4, <1>5

(* A thread joins.                                                         *)
LEMMA JoinLink ==
  ASSUME FileAssumption, UnitAssumption, DiskInv, ModInv, LinkInv, StacksFit, NEW t \in Thread, Join(t)
  PROVE  LinkInv'
<1> DEFINE fs == Append(Front(Frames(t)), Step(Top(t), Without(Top(t), Instr(t).arg + 1)))
<1>1. /\ Runs(t) /\ Instr(t).op = "INVOKE"
      /\ \/ Raise(t, fs)
         \/ /\ run' = [run EXCEPT ![t].st = "joins", ![t].frames = Deliver(fs)]
            /\ funcs' = funcs /\ had' = had
  BY DEF Join
<1>2. Alike(fs, Frames(t)) /\ OwnStack(funcs, fs) /\ OwnStack(funcs, Deliver(fs))
  BY <1>1, CallOwn
<1> HIDE DEF fs
<1>3. CASE Raise(t, fs)
  BY <1>1, <1>2, <1>3, RaiseLink
<1>4. CASE run' = [run EXCEPT ![t].st = "joins", ![t].frames = Deliver(fs)] /\ funcs' = funcs /\ had' = had
  <2>1. Frames(t)' = Deliver(fs) /\ \A u \in Thread : u # t => Frames(u)' = Frames(u)
    BY <1>4 DEF ModInv, PathInv, PathAt, Frames
  <2> QED BY <1>2, <1>4, <2>1, LinkFrames
<1> QED BY <1>1, <1>3, <1>4

(* Returns.                                                                *)
LEMMA ReturnLink ==
  ASSUME ModInv, LinkInv, NEW t \in Thread, Return(t)
  PROVE  LinkInv'
<1> DEFINE fs == Frames(t)
<1>1. /\ Runs(t) /\ PathInv /\ IsSeq(fs) /\ Len(fs) >= 1 /\ Len(fs) \in Nat /\ OwnStack(funcs, fs)
      /\ funcs' = funcs /\ had' = had
  BY RunsFacts DEF ModInv, LinkInv, FramesOwn, Return
<1>2. (Len(fs) = 1 /\ Over(t)) \/ (Len(fs) # 1 /\ Replace(t, Deliver(Front(fs))))
  BY DEF Return
<1> HIDE DEF fs
<1>3. CASE Len(fs) # 1 /\ Replace(t, Deliver(Front(fs)))
  <2>1. PICK l : l = Len(fs) - 1
    OBVIOUS
  <2>2. l \in 0..Len(fs) /\ l >= 1
    BY <1>1, <1>3, <2>1
  <2>3. Front(fs) = SubSeq(fs, 1, l)
    BY <2>1 DEF Front
  <2>4. IsSeq(Front(fs)) /\ Len(Front(fs)) = l /\ OwnStack(funcs, Front(fs))
    BY <1>1, <2>2, <2>3, OwnSub
  <2>5. OwnStack(funcs, Deliver(Front(fs)))
    BY <2>2, <2>4, OwnDeliver
  <2> QED BY <1>1, <1>3, <2>5, LinkMove
<1> QED BY <1>1, <1>2, <1>3, LinkOver

(* RAISE.                                                                  *)
LEMMA ThrowLink ==
  ASSUME FileAssumption, ModInv, LinkInv, NEW t \in Thread, Throw(t)
  PROVE  LinkInv'
<1>1. Runs(t) /\ Raise(t, Frames(t))
  BY DEF Throw
<1>2. Alike(Frames(t), Frames(t)) /\ OwnStack(funcs, Frames(t))
  BY <1>1, RunsFacts DEF ModInv, Alike, SameLoads, LinkInv, FramesOwn
<1> QED BY <1>1, <1>2, RaiseLink

(***************************************************************************)
(* Threads.                                                                *)
(***************************************************************************)

(* A thread begins in the program.                                         *)
LEMMA OwnBegun ==
  ASSUME UnitAssumption, GoodList(funcs), NEW t \in Thread, NEW p
  PROVE  OwnStack(funcs, <<Frame(StartFn[t], MainFile, NoFile, p)>>)
<1> DEFINE f == Frame(StartFn[t], MainFile, NoFile, p)
<1>1. StartFn[t] \in 1..Len(Fns(MainFile))
  BY DEF UnitAssumption, Fns
<1>2. FnOf(funcs, StartFn[t], MainFile) /\ Entry(funcs, StartFn[t])
  BY <1>1 DEF GoodList, FnOf
<1>3. Len(CodeIn(funcs, StartFn[t])) \in Nat \ {0}
  BY <1>2, CodeFacts
<1>4. Own(funcs, f)
  BY <1>2, <1>3, OwnFrame
<1> HIDE DEF f
<1>5. \A j \in 1..1 : <<f>>[j] = f
  OBVIOUS
<1>6. Len(<<f>>) = 1
  OBVIOUS
<1>7. OwnStack(funcs, <<f>>)
  BY <1>4, <1>5, <1>6 DEF OwnStack
<1> QED BY <1>7 DEF f

(* A thread begins with a function of the main file.                       *)
LEMMA SpawnLink ==
  ASSUME UnitAssumption, ModInv, LinkInv, NEW t \in Thread, Spawn(t)
  PROVE  LinkInv'
<1> DEFINE fs == <<Frame(StartFn[t], MainFile, NoFile, cur)>>
<1>1. OwnStack(funcs, fs)
  BY OwnBegun DEF LinkInv
<1>2. run' = [run EXCEPT ![t] = [st |-> "waits", path |-> cur, frames |-> fs]] /\ funcs' = funcs /\ had' = had
  BY DEF Spawn, Quiet
<1> HIDE DEF fs
<1>3. Frames(t)' = fs /\ \A u \in Thread : u # t => Frames(u)' = Frames(u)
  BY <1>2 DEF ModInv, PathInv, Frames
<1> QED BY <1>1, <1>2, <1>3, LinkFrames

(* The lock changes no frame.                                              *)
LEMMA LockLink ==
  ASSUME ModInv, LinkInv, NEW t \in Thread, Yield(t) \/ Lock(t)
  PROVE  LinkInv'
<1>1. funcs' = funcs /\ had' = had
  BY DEF Yield, Lock
<1>2. \A u \in Thread : Frames(u)' = Frames(u)
  <2>1. CASE Yield(t)
    BY <2>1 DEF Yield, ModInv, PathInv, PathAt, Frames
  <2>2. CASE Lock(t)
    BY <2>2 DEF Lock, ModInv, PathInv, PathAt, Frames
  <2> QED BY <2>1, <2>2
<1> QED BY <1>1, <1>2, LinkFrames

(* After a join a frame has another path, and the same function.           *)
LEMMA RejoinLink ==
  ASSUME ModInv, LinkInv, NEW t \in Thread, Rejoin(t)
  PROVE  LinkInv'
<1> DEFINE fs == Frames(t)
           gs == [fs EXCEPT ![LastLoad(fs, Len(fs))].home = cur]
<1>1. PathInv /\ GoodFrames(fs) /\ OwnStack(funcs, fs)
  BY DEF ModInv, PathInv, PathAt, Rejoin, LinkInv, FramesOwn
<1>2. Level(t) = LastLoad(fs, Len(fs))
  <2>1. DOMAIN fs = 1..Len(fs)
    BY <1>1, SeqFacts DEF GoodFrames
  <2> QED BY <2>1 DEF Level, Loading, LastLoad, LoadsIn
<1>3. /\ Len(gs) = Len(fs)
      /\ \A j \in 1..Len(fs) : Shape(fs[j]) /\ (gs[j] = fs[j] \/ gs[j] = [fs[j] EXCEPT !.home = cur])
  BY <1>1, HomeMoves
<1>4. funcs' = funcs /\ had' = had /\ run' = [run EXCEPT ![t].st = "runs", ![t].frames = gs]
  BY <1>2 DEF Rejoin, Frames
<1> HIDE DEF gs, fs
<1>5. ASSUME NEW j \in 1..Len(fs)
      PROVE  Own(funcs, gs[j])
  <2>1. Own(funcs, fs[j])
    BY <1>1 DEF OwnStack
  <2>2. CASE gs[j] = fs[j]
    BY <2>1, <2>2
  <2>3. CASE gs[j] = [fs[j] EXCEPT !.home = cur]
    <3>1. PICK f, g : f = fs[j] /\ g = gs[j]
      OBVIOUS
    <3>2. g = [f EXCEPT !.home = cur] /\ Own(funcs, f)
      BY <2>1, <2>3, <3>1
    <3>3. /\ DOMAIN g = DOMAIN f /\ g.fn = f.fn /\ g.of = f.of /\ g.ip = f.ip
          /\ g.vals = f.vals /\ g.blocks = f.blocks
      BY <3>2 DEF Own
    <3>4. Own(funcs, g)
      BY <3>2, <3>3 DEF Own
    <3> QED BY <3>1, <3>4
  <2> QED BY <1>3, <2>2, <2>3
<1>6. OwnStack(funcs, gs)
  BY <1>3, <1>5 DEF OwnStack
<1>7. Frames(t)' = gs /\ \A u \in Thread : u # t => Frames(u)' = Frames(u)
  BY <1>1, <1>4 DEF PathInv, PathAt, Frames
<1> QED BY <1>4, <1>6, <1>7, LinkFrames

(* Nor do those who write files.                                           *)
LEMMA RunStays ==
  ASSUME LinkInv, run' = run, funcs' = funcs, had' = had
  PROVE  LinkInv'
<1>1. \A u \in Thread : Frames(u)' = Frames(u)
  BY DEF Frames
<1> QED BY <1>1, LinkFrames

(* The program begins.                                                     *)
LEMMA LinkAtFirst ==
  ASSUME FileAssumption, UnitAssumption, Init
  PROVE  LinkInv
<1> DEFINE n == Len(Fns(MainFile))
<1>1. MainFile \in DOMAIN Files /\ had[MainFile] # -1
  BY DEF Init, FileAssumption
<1>2. n \in Nat /\ DOMAIN Disk[MainFile].whole.fns = 1..n /\ disk = Disk
  BY <1>1 DEF UnitAssumption, WellMade, Fns, Init
<1> HIDE DEF n
<1>3. funcs = [x \in 1..n |-> [file |-> MainFile, x |-> x, offset |-> 0]]
  BY <1>2 DEF Init
<1>4. IsSeq(funcs) /\ Len(funcs) = n
  <2>1. PICK S : S = {[file |-> MainFile, x |-> x, offset |-> 0] : x \in 1..n}
    OBVIOUS
  <2>2. funcs \in [1..n -> S]
    BY <1>3, <2>1
  <2>3. funcs \in Seq(S) /\ Len(funcs) = n
    BY <1>2, <2>2
  <2> QED BY <2>3 DEF IsSeq
<1>5. \A e \in 1..n : funcs[e].file = MainFile /\ funcs[e].x = e /\ funcs[e].offset = 0
  BY <1>3
<1>6. \A y \in 1..n : 0 + y = y
  BY <1>2
<1>7. ASSUME NEW e \in 1..n
      PROVE  Entry(funcs, e)
  <2>1. PICK z : z = funcs[e].offset
    OBVIOUS
  <2>2. z = 0 /\ z \in Nat
    BY <1>5, <2>1
  <2>3. \A y \in 1..n : z + y = y
    BY <1>2, <2>2
  <2>4. funcs[e].file = MainFile /\ funcs[e].x \in 1..n
    BY <1>5
  <2> QED BY <1>1, <1>4, <1>5, <2>1, <2>2, <2>3, <2>4 DEF Entry, n
<1>8. GoodList(funcs)
  BY <1>4, <1>5, <1>7 DEF GoodList, n
<1>9. \A e \in 1..Len(funcs) : had[funcs[e].file] # -1
  BY <1>1, <1>4, <1>5
<1>10. ASSUME NEW t \in Thread
       PROVE  OwnStack(funcs, Frames(t))
  <2>1. CASE t = Main
    <3>1. OwnStack(funcs, <<Frame(StartFn[t], MainFile, NoFile, cur)>>)
      BY <1>8, OwnBegun
    <3>2. Frames(t) = <<Frame(StartFn[t], MainFile, NoFile, cur)>>
      BY <2>1 DEF Init, Frames
    <3> QED BY <3>1, <3>2
  <2>2. CASE t # Main
    <3>1. Frames(t) = <<>>
      BY <2>2 DEF Init, Frames
    <3> QED BY <3>1 DEF OwnStack
  <2> QED BY <2>1, <2>2
<1> QED BY <1>8, <1>9, <1>10 DEF LinkInv, FramesOwn

(* Any step.                                                               *)
LEMMA LinkStep ==
  ASSUME FileAssumption, UnitAssumption, AllOrNothing, DiskInv, ModInv, LinkInv, StacksFit, [Next]_vars
  PROVE  LinkInv'
<1>1. ASSUME NEW t \in Thread, Execute(t)
      PROVE  LinkInv'
  BY <1>1, SimpleLink, InvokeLink, JoinLink, ReturnLink, ThrowLink, JumpLink, BlocksLink DEF Execute
<1>2. ASSUME NEW t \in Thread, Yield(t) \/ Lock(t)
      PROVE  LinkInv'
  BY <1>2, LockLink
<1>3. ASSUME NEW t \in Thread, Spawn(t)
      PROVE  LinkInv'
  BY <1>3, SpawnLink
<1>4. ASSUME NEW id \in Caches, Write(id)
      PROVE  LinkInv'
  BY <1>4, RunStays DEF Write
<1>5. ASSUME NEW t \in Thread, Rejoin(t)
      PROVE  LinkInv'
  BY <1>5, RejoinLink
<1>6. CASE UNCHANGED vars
  BY <1>6, RunStays DEF vars
<1> QED BY <1>1, <1>2, <1>3, <1>4, <1>5, <1>6 DEF Next

(* A function that a module makes is one of its own (exec.c mergeToVM adds *)
(* its functions to the one list, NEW_FUNC counts from where they begin):  *)
(* whatever the modules are, in whatever order threads load them, also     *)
(* again after a failure.  The code has to fit its stack (StacksFit), and  *)
(* parts of cache files are rejected (AllOrNothing).                       *)
THEOREM FunctionsAreOwn ==
  ASSUME AllOrNothing
  PROVE  Spec /\ []StacksFit => []Linked
<1>1. Init => LinkInv
  BY LinkAtFirst, FileAssumption, UnitAssumption
<1>2. DiskInv /\ ModInv /\ StacksFit /\ LinkInv /\ [Next]_vars => LinkInv'
  BY LinkStep, FileAssumption, UnitAssumption
<1>3. ModInv /\ LinkInv => Linked
  <2> SUFFICES ASSUME ModInv, LinkInv, NEW t \in Thread, NEW j \in DOMAIN Frames(t)
               PROVE  funcs[Frames(t)[j].fn].file = Frames(t)[j].of
    BY DEF Linked
  <2>1. j \in 1..Len(Frames(t))
    BY FramesAre DEF ModInv
  <2> QED BY <2>1 DEF LinkInv, FramesOwn, OwnStack, Own, FnOf
<1> QED BY <1>1, <1>2, <1>3, DiskInvariant, ModInvariant, PTL DEF Spec
=============================================================================
