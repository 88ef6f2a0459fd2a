--------------------------- MODULE CoroNestProof ---------------------------
(***************************************************************************)
(* The coroutines implement CallModel, for any coroutines, threads,        *)
(* values, exceptions and bounds: what the loops of the C stacks show, and *)
(* one lemma for each action, which is a step of CallModel on what the     *)
(* coroutines show (CoroProof) or changes nothing of it.                   *)
(***************************************************************************)
EXTENDS CoroProof

(***************************************************************************)
(* What CallModel sees of a C stack: its loops.                            *)
(***************************************************************************)
Shown(a) == [co |-> a.co, trap |-> a.trap]

(* f[k]: the loops among the first k activations of s.                     *)
Counts(f, s, k) ==
  f = [n \in 0..k |-> IF n = 0 THEN <<>>
                      ELSE IF s[n].native THEN f[n - 1]
                      ELSE Append(f[n - 1], Shown(s[n]))]

(* There is such a function.                                               *)
LEMMA CountsExist == \A s : \A k \in Nat : \E f : Counts(f, s, k)
<1> SUFFICES ASSUME NEW s
             PROVE  \A k \in Nat : \E f : Counts(f, s, k)
  OBVIOUS
<1> DEFINE S == {k \in Nat : \E f : Counts(f, s, k)}
<1>1. 0 \in S
  <2> DEFINE f == [n \in 0..0 |-> <<>>]
  <2>1. \A n \in 0..0 : n = 0
    OBVIOUS
  <2>2. Counts(f, s, 0)
    BY <2>1 DEF Counts
  <2> QED BY <2>2
<1>2. ASSUME NEW k \in Nat, k \in S
      PROVE  k + 1 \in S
  <2>1. PICK f : Counts(f, s, k)
    BY <1>2
  <2> DEFINE last == IF s[k + 1].native THEN f[k] ELSE Append(f[k], Shown(s[k + 1]))
             g    == [n \in 0..k + 1 |-> IF n = k + 1 THEN last ELSE f[n]]
  <2>2. \A n \in 0..k : f[n] = IF n = 0 THEN <<>>
                               ELSE IF s[n].native THEN f[n - 1]
                               ELSE Append(f[n - 1], Shown(s[n]))
    BY <2>1 DEF Counts
  <2> HIDE DEF last
  <2>3. \A n \in 0..k + 1 : n = k + 1 \/ (n \in 0..k /\ n # k + 1)
    BY <1>2
  <2>4. g[k + 1] = last /\ \A n \in 0..k : g[n] = f[n]
    <3>1. k + 1 \in 0..k + 1 /\ \A n \in 0..k : n \in 0..k + 1 /\ n # k + 1
      BY <1>2
    <3> QED BY <3>1
  <2> DEFINE h == [n \in 0..k + 1 |-> IF n = 0 THEN <<>>
                                      ELSE IF s[n].native THEN g[n - 1]
                                      ELSE Append(g[n - 1], Shown(s[n]))]
  <2>5. \A n \in 0..k + 1 : g[n] = h[n]
    <3> SUFFICES ASSUME NEW n \in 0..k + 1
                 PROVE  g[n] = IF n = 0 THEN <<>>
                               ELSE IF s[n].native THEN g[n - 1]
                               ELSE Append(g[n - 1], Shown(s[n]))
      OBVIOUS
    <3> HIDE DEF g
    <3>1. CASE n = k + 1
      <4>1. n # 0 /\ n - 1 = k /\ k \in 0..k
        BY <1>2, <3>1
      <4> QED BY <2>4, <3>1, <4>1 DEF last
    <3>2. CASE n \in 0..k /\ n = 0
      BY <2>2, <2>4, <3>2
    <3>3. CASE n \in 0..k /\ n # 0
      <4>1. n - 1 \in 0..k
        BY <1>2, <3>3
      <4> QED BY <2>2, <2>4, <3>3, <4>1
    <3> QED BY <2>3, <3>1, <3>2, <3>3
  <2>6. g = h
    BY <2>5
  <2>7. Counts(g, s, k + 1)
    BY <2>6 DEF Counts
  <2> QED BY <1>2, <2>7
<1> HIDE DEF S
<1>3. Nat \subseteq S
  BY <1>1, <1>2, SetInduction
<1> QED BY <1>3 DEF S

(* It depends on the activations up to the one that counts.                *)
LEMMA CountsAgree ==
  ASSUME NEW s, NEW k \in Nat, NEW f, Counts(f, s, k), NEW t, NEW m \in Nat, NEW g, Counts(g, t, m),
         NEW l \in Nat, l <= k, l <= m,
         \A i \in 1..l : t[i].native = s[i].native /\ Shown(t[i]) = Shown(s[i])
  PROVE  \A i \in 0..l : g[i] = f[i]
<1> DEFINE S == {i \in Nat : i <= l => g[i] = f[i]}
<1>1. \A n \in 0..k : f[n] = IF n = 0 THEN <<>>
                             ELSE IF s[n].native THEN f[n - 1]
                             ELSE Append(f[n - 1], Shown(s[n]))
  BY DEF Counts
<1>2. \A n \in 0..m : g[n] = IF n = 0 THEN <<>>
                             ELSE IF t[n].native THEN g[n - 1]
                             ELSE Append(g[n - 1], Shown(t[n]))
  BY DEF Counts
<1>3. 0 \in S
  BY <1>1, <1>2
<1>4. ASSUME NEW i \in Nat, i \in S
      PROVE  i + 1 \in S
  <2> SUFFICES ASSUME i + 1 <= l
               PROVE  g[i + 1] = f[i + 1]
    OBVIOUS
  <2>1. g[i] = f[i]
    BY <1>4
  <2>2. i + 1 \in 0..k /\ i + 1 \in 0..m /\ i + 1 \in 1..l /\ i + 1 # 0 /\ (i + 1) - 1 = i
    OBVIOUS
  <2> QED BY <1>1, <1>2, <2>1, <2>2
<1> HIDE DEF S
<1>5. Nat \subseteq S
  BY <1>3, <1>4, SetInduction
<1> QED BY <1>5 DEF S

(* LoopsOf counts the loops of all activations.                            *)
LEMMA LoopsIs ==
  ASSUME NEW s, Len(s) \in Nat
  PROVE  \E f : Counts(f, s, Len(s)) /\ LoopsOf(s) = f[Len(s)]
<1> DEFINE F == CHOOSE f : Counts(f, s, Len(s))
<1>1. Counts(F, s, Len(s))
  BY CountsExist
<1>2. LoopsOf(s) = F[Len(s)]
  BY DEF LoopsOf, Counts, Shown
<1> QED BY <1>1, <1>2

(* No loop, and one activation more.                                       *)
LEMMA NoLoops == LoopsOf(<<>>) = <<>>
<1>1. Len(<<>>) = 0
  OBVIOUS
<1>2. PICK f : Counts(f, <<>>, 0) /\ LoopsOf(<<>>) = f[0]
  BY <1>1, LoopsIs
<1>3. 0 \in 0..0
  OBVIOUS
<1> QED BY <1>2, <1>3 DEF Counts

(* One more activation: a loop is shown, a C function is not.              *)
LEMMA LoopsMore ==
  ASSUME NEW s \in Stacks, NEW a \in Activation
  PROVE  LoopsOf(Append(s, a)) = IF a.native THEN LoopsOf(s) ELSE Append(LoopsOf(s), Shown(a))
<1> DEFINE t == Append(s, a)
           n == Len(s)
<1>1. t \in Stacks /\ Len(t) = n + 1 /\ t[n + 1] = a /\ (\A i \in 1..n : t[i] = s[i]) /\ n \in Nat
  BY OneMore, StackTypes
<1> HIDE DEF t
<1>2. PICK f : Counts(f, s, n) /\ LoopsOf(s) = f[n]
  BY <1>1, LoopsIs
<1>3. PICK g : Counts(g, t, n + 1) /\ LoopsOf(t) = g[n + 1]
  BY <1>1, LoopsIs
<1> HIDE DEF n
<1>4. n <= n + 1 /\ n <= n /\ n + 1 \in Nat /\ n \in 0..n /\ n + 1 \in 0..n + 1 /\ n + 1 # 0 /\ (n + 1) - 1 = n
  BY <1>1
<1>5. \A i \in 0..n : g[i] = f[i]
  BY <1>1, <1>2, <1>3, <1>4, CountsAgree
<1>6. g[n + 1] = IF t[n + 1].native THEN g[n] ELSE Append(g[n], Shown(t[n + 1]))
  BY <1>3, <1>4 DEF Counts
<1> QED BY <1>1, <1>2, <1>3, <1>4, <1>5, <1>6 DEF t

(* The activation at the top counts if it is a loop.                       *)
LEMMA LoopsTop ==
  ASSUME NEW s \in Stacks, s # <<>>
  PROVE  /\ Front(s) \in Stacks /\ Len(Front(s)) = Len(s) - 1 /\ Len(s) \in Nat \ {0}
         /\ Last(s) \in Activation /\ Last(s) = s[Len(s)] /\ \A i \in 1..Len(s) - 1 : Front(s)[i] = s[i]
         /\ LoopsOf(s) = IF Last(s).native THEN LoopsOf(Front(s))
                         ELSE Append(LoopsOf(Front(s)), Shown(Last(s)))
<1> DEFINE f == Front(s)
           a == Last(s)
<1>1. /\ Len(s) \in Nat \ {0} /\ a = s[Len(s)] /\ a \in Activation /\ f \in Seq(Activation)
      /\ Len(f) = Len(s) - 1 /\ \A i \in 1..Len(s) - 1 : f[i] = s[i]
  BY LastFront DEF Stacks
<1> HIDE DEF f, a
<1>2. s \in Seq(Activation) /\ Len(s) = Len(f) + 1 /\ \A i \in 1..Len(f) : s[i] = f[i]
  BY <1>1 DEF Stacks
<1>3. s = Append(f, s[Len(f) + 1]) /\ s[Len(f) + 1] = a
  <2>1. s = Append(f, s[Len(f) + 1])
    BY <1>1, <1>2, SplitLast
  <2>2. Len(f) + 1 = Len(s)
    BY <1>1
  <2> QED BY <1>1, <2>1, <2>2
<1>4. LoopsOf(s) = IF a.native THEN LoopsOf(f) ELSE Append(LoopsOf(f), Shown(a))
  BY <1>1, <1>3, LoopsMore DEF Stacks
<1> QED BY <1>1, <1>4 DEF f, a, Stacks

(* A mark is not seen.                                                     *)
LEMMA LoopsMarked ==
  ASSUME NEW s \in Stacks, s # <<>>, NEW b \in BOOLEAN
  PROVE  LoopsOf(Marked(s, b)) = LoopsOf(s)
<1> DEFINE a == [Last(s) EXCEPT !.failing = b]
<1>1. /\ Front(s) \in Stacks /\ Last(s) \in Activation
      /\ LoopsOf(s) = IF Last(s).native THEN LoopsOf(Front(s))
                      ELSE Append(LoopsOf(Front(s)), Shown(Last(s)))
  BY LoopsTop
<1>2. a \in Activation /\ a.native = Last(s).native /\ Shown(a) = Shown(Last(s))
  BY <1>1 DEF Activation, Shown
<1> HIDE DEF a
<1>3. LoopsOf(Append(Front(s), a)) = IF a.native THEN LoopsOf(Front(s)) ELSE Append(LoopsOf(Front(s)), Shown(a))
  BY <1>1, <1>2, LoopsMore
<1> QED BY <1>1, <1>2, <1>3 DEF Marked, a

(* All loops are of coroutines on the stack.                               *)
LinkSet == [co : Coro, trap : BOOLEAN]

(* The loops of a C stack are of coroutines that are on it.                *)
LEMMA LoopsOn ==
  ASSUME NEW s \in Stacks
  PROVE  LoopsOf(s) \in Seq(LinkSet) /\ \A i \in 1..Len(LoopsOf(s)) : On(s, LoopsOf(s)[i].co)
<1> DEFINE P(x) == LoopsOf(x) \in Seq(LinkSet) /\ \A i \in 1..Len(LoopsOf(x)) : On(x, LoopsOf(x)[i].co)
           S    == {n \in Nat : \A x \in Stacks : Len(x) = n => P(x)}
<1>1. 0 \in S
  <2> SUFFICES ASSUME NEW x \in Stacks, Len(x) = 0
               PROVE  P(x)
    OBVIOUS
  <2>1. x = <<>>
    BY EmptySeq DEF Stacks
  <2>2. LoopsOf(x) = <<>>
    BY <2>1, NoLoops
  <2>3. <<>> \in Seq(LinkSet) /\ Len(<<>>) = 0 /\ 1..0 = {}
    OBVIOUS
  <2> QED BY <2>2, <2>3
<1>2. ASSUME NEW n \in Nat, n \in S
      PROVE  n + 1 \in S
  <2> SUFFICES ASSUME NEW x \in Stacks, Len(x) = n + 1
               PROVE  P(x)
    OBVIOUS
  <2>1. x # <<>>
    <3>1. Len(x) # 0
      BY <1>2
    <3> QED BY <3>1, EmptySeq
  <2> DEFINE f == Front(x)
             a == Last(x)
  <2>2. /\ f \in Stacks /\ Len(f) = (n + 1) - 1 /\ a \in Activation /\ a = x[n + 1]
        /\ \A i \in 1..(n + 1) - 1 : f[i] = x[i]
        /\ LoopsOf(x) = IF a.native THEN LoopsOf(f) ELSE Append(LoopsOf(f), Shown(a))
    BY <2>1, LoopsTop
  <2>3. (n + 1) - 1 = n /\ n + 1 \in 1..n + 1 /\ \A i \in 1..n : i \in 1..n + 1
    BY <1>2
  <2> HIDE DEF f, a
  <2>4. LoopsOf(f) \in Seq(LinkSet) /\ \A i \in 1..Len(LoopsOf(f)) : On(f, LoopsOf(f)[i].co)
    BY <1>2, <2>2, <2>3
  <2>5. \A d : On(f, d) \/ d = a.co => On(x, d)
    BY <2>2, <2>3 DEF On
  <2>6. CASE a.native
    BY <2>2, <2>4, <2>5, <2>6
  <2>7. CASE ~ a.native
    <3>1. Shown(a) \in LinkSet /\ Shown(a).co = a.co
      BY <2>2 DEF Shown, LinkSet, Activation
    <3>2. PICK l : l = LoopsOf(f)
      OBVIOUS
    <3>3. /\ Append(l, Shown(a)) \in Seq(LinkSet) /\ Len(Append(l, Shown(a))) = Len(l) + 1
          /\ Append(l, Shown(a))[Len(l) + 1] = Shown(a)
          /\ \A i \in 1..Len(l) : Append(l, Shown(a))[i] = l[i]
      BY <2>4, <3>1, <3>2, Longer
    <3>4. \A i \in 1..Len(l) + 1 : i \in 1..Len(l) \/ i = Len(l) + 1
      BY <2>4, <3>2
    <3>5. LoopsOf(x) = Append(l, Shown(a))
      BY <2>2, <2>7, <3>2
    <3> QED BY <2>4, <2>5, <3>1, <3>2, <3>3, <3>4, <3>5
  <2> QED BY <2>6, <2>7
<1> HIDE DEF S
<1>3. Nat \subseteq S
  BY <1>1, <1>2, SetInduction
<1>4. Len(s) \in Nat
  BY StackTypes
<1> QED BY <1>3, <1>4 DEF S

(* Native code runs in the coroutine of the loop below it.                 *)
Rooted(s) == \A i \in 1..Len(s) : s[i].native => i > 1 /\ s[i].co = s[i - 1].co

(* A C stack that is well formed starts with a loop.                       *)
LEMMA ShapeRooted ==
  ASSUME NEW s, ShapeOK(s)
  PROVE  Rooted(s)
<1> SUFFICES ASSUME NEW i \in 1..Len(s), s[i].native
             PROVE  i > 1 /\ s[i].co = s[i - 1].co
  BY DEF Rooted
<1>1. i > 1 /\ ~ Begins(s, i)
  BY DEF ShapeOK, ShapeAt, Begins
<1> QED BY <1>1 DEF ShapeOK, ShapeAt

(* The last loop is that of the coroutine at the top.                      *)
LEMMA LoopsLast ==
  ASSUME NEW s \in Stacks, s # <<>>, Rooted(s)
  PROVE  LoopsOf(s) # <<>> /\ Last(LoopsOf(s)).co = Last(s).co
<1> DEFINE P(x) == x # <<>> /\ Rooted(x) => LoopsOf(x) # <<>> /\ Last(LoopsOf(x)).co = Last(x).co
           S    == {n \in Nat : \A x \in Stacks : Len(x) = n => P(x)}
<1>1. 0 \in S
  BY EmptySeq DEF Stacks
<1>2. ASSUME NEW n \in Nat, n \in S
      PROVE  n + 1 \in S
  <2> SUFFICES ASSUME NEW x \in Stacks, Len(x) = n + 1, x # <<>>, Rooted(x)
               PROVE  LoopsOf(x) # <<>> /\ Last(LoopsOf(x)).co = Last(x).co
    OBVIOUS
  <2> DEFINE f == Front(x)
             a == Last(x)
  <2>1. /\ f \in Stacks /\ Len(f) = (n + 1) - 1 /\ a \in Activation /\ a = x[n + 1]
        /\ \A i \in 1..(n + 1) - 1 : f[i] = x[i]
        /\ LoopsOf(x) = IF a.native THEN LoopsOf(f) ELSE Append(LoopsOf(f), Shown(a))
    BY LoopsTop
  <2>2. (n + 1) - 1 = n /\ n + 1 \in 1..n + 1 /\ \A i \in 1..n : i \in 1..n + 1
    BY <1>2
  <2> HIDE DEF f, a
  <2>3. Len(f) = n /\ \A i \in 1..n : f[i] = x[i]
    BY <2>1, <2>2
  <2>4. CASE ~ a.native
    <3>1. Shown(a) \in LinkSet /\ Shown(a).co = a.co
      BY <2>1 DEF Shown, LinkSet, Activation
    <3>2. LoopsOf(f) \in Seq(LinkSet)
      BY <2>1, LoopsOn
    <3>3. LET l == Append(LoopsOf(f), Shown(a)) IN l # <<>> /\ Last(l) = Shown(a)
      BY <3>1, <3>2, AppendEnds
    <3> QED BY <2>1, <2>4, <3>1, <3>3 DEF a
  <2>5. CASE a.native
    <3>1. n + 1 > 1 /\ x[n + 1].co = x[(n + 1) - 1].co
      BY <2>1, <2>2, <2>5 DEF Rooted
    <3>2. n \in 1..n /\ n # 0
      BY <1>2, <3>1
    <3>3. f # <<>> /\ Last(f) = f[n]
      <4>1. f # <<>>
        BY <2>1, <2>3, <3>2, EmptySeq
      <4> QED BY <2>3, <4>1 DEF Last
    <3>4. Rooted(f)
      <4>1. \A i \in 1..n : i > 1 => i - 1 \in 1..n
        BY <1>2
      <4> QED BY <2>2, <2>3, <4>1 DEF Rooted
    <3>5. LoopsOf(f) # <<>> /\ Last(LoopsOf(f)).co = Last(f).co
      BY <1>2, <2>1, <2>3, <3>3, <3>4
    <3>6. Last(f).co = a.co
      BY <2>1, <2>2, <2>3, <3>1, <3>2, <3>3
    <3> QED BY <2>1, <2>5, <3>5, <3>6 DEF a
  <2> QED BY <2>4, <2>5
<1> HIDE DEF S
<1>3. Nat \subseteq S
  BY <1>1, <1>2, SetInduction
<1>4. Len(s) \in Nat
  BY StackTypes
<1> QED BY <1>3, <1>4 DEF S

(***************************************************************************)
(* What CallModel sees of the coroutines, and what else is needed for it.  *)
(***************************************************************************)
View(r) == IF r = Nil THEN Nil ELSE IF r.alive THEN CallsOf(r) ELSE <<>>
FreshOf(r, on) == IF r = Nil \/ on THEN "no" ELSE IF r.alive THEN r.param ELSE "no"

TidyInv == \A c \in Coro : Lives(co[c]) => Tidy(co[c])

(* Only a coroutine that a thread has started may still have parameters to *)
(* be matched while it runs.                                               *)
ParamInv == \A c \in Coro : OnStack(c) /\ ~ co[c].spawned => co[c].param = "no"

NestInv == CoroInv /\ TidyInv /\ ParamInv

(* The shown state, coroutine by coroutine and thread by thread.           *)
LEMMA StateShown ==
  /\ ShownCalls = [c \in Coro |-> View(co[c])]
  /\ ShownCalls' = [c \in Coro |-> View(co'[c])]
  /\ ShownFresh = [c \in Coro |-> FreshOf(co[c], OnStack(c))]
  /\ ShownFresh' = [c \in Coro |-> FreshOf(co'[c], OnStack(c)')]
  /\ ShownChain = [t \in Thread |-> LoopsOf(cstack[t])]
  /\ ShownChain' = [t \in Thread |-> LoopsOf(cstack'[t])]
BY DEF ShownCalls, ShownFresh, ShownChain, View, FreshOf

(* The exception that is on its way.                                       *)
LEMMA Quiet ==
  ASSUME \A u \in Thread : ~ FailsAt(cstack[u])
  PROVE  ShownExcept = Nil /\ ShownFailing = Nil
BY DEF ShownExcept, ShownFailing, Somewhere, Unwinding, FailsAt, Active

(* The same after a step.                                                  *)
LEMMA QuietNext ==
  ASSUME \A u \in Thread : ~ FailsAt(cstack'[u])
  PROVE  ShownExcept' = Nil /\ ShownFailing' = Nil
BY DEF ShownExcept, ShownFailing, Somewhere, Unwinding, FailsAt, Active

(* One thread is failing: it and the exception are shown.                  *)
LEMMA Loud ==
  ASSUME NEW t \in Thread, FailsAt(cstack[t]), \A u \in Thread : FailsAt(cstack[u]) => u = t
  PROVE  ShownExcept = except /\ ShownFailing = t
<1>1. \A u \in Thread : Unwinding(u) <=> u = t
  BY DEF Unwinding, FailsAt, Active
<1> QED BY <1>1 DEF ShownExcept, ShownFailing, Somewhere

(* The same after a step.                                                  *)
LEMMA LoudNext ==
  ASSUME NEW t \in Thread, FailsAt(cstack'[t]), \A u \in Thread : FailsAt(cstack'[u]) => u = t
  PROVE  ShownExcept' = except' /\ ShownFailing' = t
<1>1. \A u \in Thread : Unwinding(u)' <=> u = t
  BY DEF Unwinding, FailsAt, Active
<1> QED BY <1>1 DEF ShownExcept, ShownFailing, Somewhere

(* A thread fails, or none does, before a step and after it.               *)
LEMMA ExceptNow ==
  ASSUME CoroInv, NEW t \in Thread
  PROVE  /\ NoneFailing => ShownExcept = Nil /\ ShownFailing = Nil
         /\ FailsAt(cstack[t]) => ShownExcept = except /\ ShownFailing = t /\ ~ NoneFailing
<1>1. NoneFailing <=> \A u \in Thread : ~ FailsAt(cstack[u])
  BY DEF NoneFailing, FailsAt, Active
<1>2. \A u \in Thread : FailsAt(cstack[t]) /\ FailsAt(cstack[u]) => u = t
  BY DEF CoroInv, OneException
<1> QED BY <1>1, <1>2, Quiet, Loud

(* A thread fails after its step, or none does.                            *)
LEMMA ExceptNext ==
  ASSUME CoroInv, NEW t \in Thread, NEW s2, cstack' = [cstack EXCEPT ![t] = s2],
         NoneFailing \/ FailsAt(cstack[t])
  PROVE  /\ ~ FailsAt(s2) => ShownExcept' = Nil /\ ShownFailing' = Nil
         /\ FailsAt(s2) => ShownExcept' = except' /\ ShownFailing' = t
<1>1. cstack'[t] = s2 /\ \A u \in Thread : u # t => cstack'[u] = cstack[u]
  BY DEF CoroInv, Types
<1>2. \A u \in Thread : u # t => ~ FailsAt(cstack[u])
  BY DEF CoroInv, OneException, NoneFailing, FailsAt, Active
<1>3. \A u \in Thread : FailsAt(cstack'[u]) <=> u = t /\ FailsAt(s2)
  BY <1>1, <1>2
<1> QED BY <1>1, <1>3, QuietNext, LoudNext

(* The coroutine at the top of a C stack, and what CallModel sees of it.   *)
LEMMA TopShown ==
  ASSUME NestInv, NEW t \in Thread, cstack[t] # <<>>
  PROVE  LET r == Current(t)  c == Active(t).co
         IN  /\ c \in Coro /\ co[c] = r /\ Good(r) /\ Lives(r) /\ r.alive /\ Tidy(r) /\ OnStack(c) /\ On(cstack[t], c)
             /\ ShownCalls[c] = CallsOf(r)
             /\ Model!Runs(t, c)
             /\ Model!Inner(c) = Last(CallsOf(r)) /\ Model!Inner(c).native = r.runtime.native
             /\ Model!Top(c) = [vals |-> TopVals(r), catch |-> Caught(r)]
             /\ Model!Vals(c) = TopVals(r) /\ Model!Top(c).catch = Caught(r)
             /\ Model!Blocks(c) = Len(LowBlocks(r)) + 1
<1> DEFINE r == Current(t)
           c == Active(t).co
           s == cstack[t]
<1>1. /\ Chain(s, co) /\ s \in Stacks /\ Active(t) = Last(s) /\ c \in Coro
      /\ r = co[c] /\ Good(r) /\ r.alive /\ Lives(r) /\ On(s, c) /\ OnStack(c)
  BY ActiveFacts DEF NestInv
<1>2. Tidy(r)
  BY <1>1 DEF NestInv, TidyInv
<1>3. ShownCalls[c] = CallsOf(r)
  BY <1>1, StateShown DEF View, Lives
<1>4. Model!Runs(t, c)
  <2>1. Rooted(s)
    BY <1>1, ShapeRooted DEF Chain
  <2>2. LoopsOf(s) # <<>> /\ Last(LoopsOf(s)).co = c
    BY <1>1, <2>1, LoopsLast
  <2>3. ShownChain[t] = LoopsOf(s)
    BY StateShown
  <2> QED BY <2>2, <2>3, SameEnds DEF Model!Runs
<1>5. Parts(CallsOf(r), LowCalls(r), r.runtime.native, r.runtime.args, LowBlocks(r), TopVals(r), Caught(r))
  BY <1>1, ViewParts
<1> HIDE DEF r, c, s
<1>6. /\ Last(CallsOf(r)).native = r.runtime.native
      /\ Last(Last(CallsOf(r)).blocks) = [vals |-> TopVals(r), catch |-> Caught(r)]
      /\ Len(Last(CallsOf(r)).blocks) = Len(LowBlocks(r)) + 1
  BY <1>5 DEF Parts
<1>7. Model!Inner(c) = Last(CallsOf(r))
  BY <1>3, SameEnds DEF Model!Inner
<1>8. Model!Top(c) = [vals |-> TopVals(r), catch |-> Caught(r)] /\ Model!Blocks(c) = Len(LowBlocks(r)) + 1
  BY <1>6, <1>7, SameEnds DEF Model!Top, Model!Blocks
<1>9. Model!Vals(c) = TopVals(r) /\ Model!Top(c).catch = Caught(r)
  BY <1>8 DEF Model!Vals
<1> QED BY <1>1, <1>2, <1>3, <1>4, <1>6, <1>7, <1>8, <1>9 DEF r, c, s

(* A thread changes its C stack: which coroutines are on one.              *)
LEMMA OnNext ==
  ASSUME CoroInv, NEW t \in Thread, NEW s2 \in Stacks, cstack' = [cstack EXCEPT ![t] = s2]
  PROVE  \A d : OnStack(d)' <=> On(s2, d) \/ \E u \in Thread : u # t /\ On(cstack[u], d)
<1> SUFFICES ASSUME NEW d
             PROVE  OnStack(d)' <=> On(s2, d) \/ \E u \in Thread : u # t /\ On(cstack[u], d)
  OBVIOUS
<1>1. cstack'[t] = s2 /\ \A u \in Thread : u # t => cstack'[u] = cstack[u]
  BY DEF CoroInv, Types
<1>2. \A u \in Thread : cstack'[u] \in Stacks
  BY <1>1 DEF CoroInv, Types
<1>3. \A u \in Thread : DOMAIN cstack'[u] = 1..Len(cstack'[u])
  BY <1>2 DEF Stacks
<1>4. OnStack(d)' <=> \E u \in Thread : On(cstack'[u], d)
  BY <1>3 DEF OnStack, On
<1> QED BY <1>1, <1>4

(* The coroutine at the top of the C stack of t becomes q, and the same    *)
(* coroutines are on the stack.                                            *)
LEMMA Goes ==
  ASSUME NestInv, NEW t \in Thread, cstack[t] # <<>>,
         NEW q, Good(q), q.alive, Tidy(q), q.spawned = Current(t).spawned,
         q.param = Current(t).param \/ q.param = "no", SetCoro(t, q),
         NEW s2 \in Stacks, cstack' = [cstack EXCEPT ![t] = s2],
         \A d : On(s2, d) <=> On(cstack[t], d)
  PROVE  /\ TidyInv' /\ ParamInv'
         /\ ShownCalls' = [ShownCalls EXCEPT ![Active(t).co] = CallsOf(q)]
         /\ ShownFresh' = ShownFresh
         /\ ShownChain' = [ShownChain EXCEPT ![t] = LoopsOf(s2)]
<1> DEFINE c == Active(t).co
           r == Current(t)
<1>1. CoroInv
  BY DEF NestInv
<1>2. c \in Coro /\ co[c] = r /\ Good(r) /\ Lives(r) /\ OnStack(c)
  BY TopShown
<1>3. co'[c] = q /\ \A d \in Coro : d # c => co'[d] = co[d]
  BY <1>1, SetCoroIs
<1>4. \A d : OnStack(d)' <=> OnStack(d)
  <2>1. \A d : OnStack(d)' <=> On(s2, d) \/ \E u \in Thread : u # t /\ On(cstack[u], d)
    BY <1>1, OnNext
  <2>2. \A d : OnStack(d) <=> \E u \in Thread : On(cstack[u], d)
    BY <1>1, OnStackIs
  <2> QED BY <2>1, <2>2
<1>5. q \in CoroSet /\ q # Nil /\ Lives(q)
  BY NilAssumption DEF Good, Lives
<1> HIDE DEF c, r
<1>6. TidyInv'
  <2>1. \A d \in Coro : Lives(co'[d]) => Tidy(co'[d])
    BY <1>2, <1>3 DEF NestInv, TidyInv
  <2> QED BY <2>1 DEF TidyInv, Lives, Tidy, CallAt
<1>7. ParamInv'
  <2>1. \A d \in Coro : OnStack(d) /\ ~ co'[d].spawned => co'[d].param = "no"
    BY <1>2, <1>3 DEF NestInv, ParamInv, r
  <2> QED BY <1>4, <2>1 DEF ParamInv
<1>8. ShownCalls' = [ShownCalls EXCEPT ![c] = CallsOf(q)]
  <2>1. \A d \in Coro : View(co'[d]) = IF d = c THEN CallsOf(q) ELSE View(co[d])
    BY <1>3, <1>5 DEF View
  <2> QED BY <1>2, <2>1, StateShown
<1>9. ShownFresh' = ShownFresh
  <2>1. \A d \in Coro : FreshOf(co'[d], OnStack(d)') = FreshOf(co[d], OnStack(d))
    BY <1>2, <1>3, <1>4 DEF FreshOf
  <2> QED BY <2>1, StateShown
<1>10. ShownChain' = [ShownChain EXCEPT ![t] = LoopsOf(s2)]
  <2>1. \A u \in Thread : cstack'[u] = IF u = t THEN s2 ELSE cstack[u]
    BY <1>1 DEF CoroInv, Types
  <2> QED BY <2>1, StateShown
<1> QED BY <1>6, <1>7, <1>8, <1>9, <1>10 DEF c

GoesOn(q, r) == /\ Good(q) /\ q.alive /\ Tidy(q) /\ q.spawned = r.spawned
                /\ q.param = r.param \/ q.param = "no"

(* A coroutine whose other fields stay goes on.                            *)
LEMMA SteadyGoesOn ==
  ASSUME NEW q, NEW r, Good(q), Alike(q, r), Steady(q, r), r.alive, Tidy(r)
  PROVE  GoesOn(q, r)
BY DEF GoesOn, Alike, Steady

(* Two changes in a row.                                                   *)
LEMMA GoesOnTwice ==
  ASSUME NEW p, NEW q, NEW r, GoesOn(q, p), GoesOn(p, r)
  PROVE  GoesOn(q, r)
BY DEF GoesOn

(* A step that changes the current coroutine only, and no C stack.         *)
LEMMA LocalShown ==
  ASSUME NestInv, NEW t \in Thread, cstack[t] # <<>>, NoneFailing \/ Active(t).failing,
         NEW q, GoesOn(q, Current(t)), Local(t, q)
  PROVE  /\ TidyInv' /\ ParamInv'
         /\ Model!SetCalls(Active(t).co, CallsOf(q)) /\ Model!NoSwitch
<1>1. CoroInv /\ cstack[t] \in Stacks
  BY ActiveFacts DEF NestInv
<1>2. /\ SetCoro(t, q) /\ start' = start /\ except' = except
      /\ cstack' = [cstack EXCEPT ![t] = cstack[t]]
  BY <1>1 DEF Local, CoroInv, Types
<1>3. /\ TidyInv' /\ ParamInv'
      /\ ShownCalls' = [ShownCalls EXCEPT ![Active(t).co] = CallsOf(q)]
      /\ ShownFresh' = ShownFresh
      /\ ShownChain' = [ShownChain EXCEPT ![t] = LoopsOf(cstack[t])]
  BY <1>1, <1>2, Goes DEF GoesOn
<1>4. ShownChain' = ShownChain
  BY <1>3 DEF ShownChain
<1>5. NoneFailing \/ FailsAt(cstack[t])
  BY DEF FailsAt, Active
<1>6. ShownExcept' = ShownExcept /\ ShownFailing' = ShownFailing
  <2>1. /\ NoneFailing => ShownExcept = Nil /\ ShownFailing = Nil
        /\ FailsAt(cstack[t]) => ShownExcept = except /\ ShownFailing = t /\ ~ NoneFailing
    BY <1>1, ExceptNow
  <2>2. /\ ~ FailsAt(cstack[t]) => ShownExcept' = Nil /\ ShownFailing' = Nil
        /\ FailsAt(cstack[t]) => ShownExcept' = except' /\ ShownFailing' = t
    BY <1>1, <1>2, <1>5, ExceptNext
  <2> QED BY <1>2, <1>5, <2>1, <2>2
<1> QED BY <1>2, <1>3, <1>4, <1>6 DEF Model!SetCalls, Model!NoSwitch

(* A step that changes the current coroutine and the failing flag.         *)
LEMMA MarkShown ==
  ASSUME NestInv, NEW t \in Thread, cstack[t] # <<>>, NoneFailing \/ Active(t).failing,
         NEW q, GoesOn(q, Current(t)), SetCoro(t, q), NEW b \in BOOLEAN,
         cstack' = [cstack EXCEPT ![t] = Marked(cstack[t], b)]
  PROVE  /\ TidyInv' /\ ParamInv'
         /\ Model!SetCalls(Active(t).co, CallsOf(q))
         /\ ShownFresh' = ShownFresh /\ ShownChain' = ShownChain
         /\ ShownExcept' = (IF b THEN except' ELSE Nil) /\ ShownFailing' = (IF b THEN t ELSE Nil)
<1> DEFINE s2 == Marked(cstack[t], b)
<1>1. CoroInv /\ cstack[t] \in Stacks
  BY ActiveFacts DEF NestInv
<1>2. s2 \in Stacks /\ (\A d : On(s2, d) <=> On(cstack[t], d)) /\ (FailsAt(s2) <=> b) /\ LoopsOf(s2) = LoopsOf(cstack[t])
  BY <1>1, MarkedIs, LoopsMarked
<1>3. cstack' = [cstack EXCEPT ![t] = s2]
  OBVIOUS
<1> HIDE DEF s2
<1>4. /\ TidyInv' /\ ParamInv'
      /\ ShownCalls' = [ShownCalls EXCEPT ![Active(t).co] = CallsOf(q)]
      /\ ShownFresh' = ShownFresh
      /\ ShownChain' = [ShownChain EXCEPT ![t] = LoopsOf(s2)]
  BY <1>2, <1>3, Goes DEF GoesOn
<1>5. ShownChain' = ShownChain
  BY <1>2, <1>4 DEF ShownChain
<1>6. NoneFailing \/ FailsAt(cstack[t])
  BY DEF FailsAt, Active
<1>7. /\ ~ FailsAt(s2) => ShownExcept' = Nil /\ ShownFailing' = Nil
      /\ FailsAt(s2) => ShownExcept' = except' /\ ShownFailing' = t
  BY <1>1, <1>3, <1>6, ExceptNext
<1> QED BY <1>2, <1>4, <1>5, <1>7 DEF Model!SetCalls

(* The steps of CallModel by the call at the top of thread t.              *)
ModelStep == [Model!Next]_(Model!vars)

(* A step of an instruction is one of CallModel.                           *)
LEMMA InkModel ==
  ASSUME NestInv, NEW t \in Thread, Ink(t), Model!InkStep(t, Active(t).co)
  PROVE  ModelStep
<1>1. cstack[t] # <<>> /\ NoneFailing /\ ~ Current(t).runtime.native
  BY InkFacts DEF NestInv
<1>2. /\ Active(t).co \in Coro /\ Model!Runs(t, Active(t).co)
      /\ ~ Model!Inner(Active(t).co).native
  BY <1>1, TopShown
<1>3. ShownFailing = Nil
  BY <1>1, ExceptNow DEF NestInv
<1> QED BY <1>2, <1>3 DEF ModelStep, Model!Next

(* So is a step of a native function.                                      *)
LEMMA NativeModel ==
  ASSUME NestInv, NEW t \in Thread, Native(t), Model!NativeStep(t, Active(t).co)
  PROVE  ModelStep
<1>1. cstack[t] # <<>> /\ NoneFailing /\ Last(cstack[t]).native /\ Active(t).native
  BY DEF Native, Active
<1>2. CoroInv /\ Chain(cstack[t], co) /\ Current(t) = co[Last(cstack[t]).co]
  BY <1>1, ActiveFacts DEF NestInv
<1>3. Current(t).runtime.native
  BY <1>1, <1>2, NativeEnds
<1>4. /\ Active(t).co \in Coro /\ Model!Runs(t, Active(t).co)
      /\ Model!Inner(Active(t).co).native
  BY <1>1, <1>3, TopShown
<1>5. ShownFailing = Nil
  BY <1>1, <1>2, ExceptNow
<1> QED BY <1>4, <1>5 DEF ModelStep, Model!Next

(* So is a step of the exception on its way.                               *)
LEMMA UnwindModel ==
  ASSUME NestInv, NEW t \in Thread, cstack[t] # <<>>, Active(t).failing, Model!Unwind(t, Active(t).co)
  PROVE  ModelStep
<1>1. FailsAt(cstack[t])
  BY DEF FailsAt, Active
<1>2. Active(t).co \in Coro /\ Model!Runs(t, Active(t).co)
  BY TopShown
<1>3. ShownFailing = t
  BY <1>1, ExceptNow DEF NestInv
<1> QED BY <1>2, <1>3 DEF ModelStep, Model!Next

(***************************************************************************)
(* Instructions.                                                           *)
(***************************************************************************)
Shows == TidyInv' /\ ParamInv' /\ ModelStep

(* An instruction that changes the current coroutine only.                 *)
LEMMA LocalInk ==
  ASSUME NestInv, NEW t \in Thread, Ink(t),
         NEW q, GoesOn(q, Current(t)), Local(t, q),
         Model!SetCalls(Active(t).co, CallsOf(q)) /\ Model!NoSwitch => Model!InkStep(t, Active(t).co)
  PROVE  Shows
<1>1. cstack[t] # <<>> /\ NoneFailing
  BY InkFacts DEF NestInv
<1>2. /\ TidyInv' /\ ParamInv'
      /\ Model!SetCalls(Active(t).co, CallsOf(q)) /\ Model!NoSwitch
  BY <1>1, LocalShown
<1>3. ModelStep
  BY <1>2, InkModel
<1> QED BY <1>2, <1>3 DEF Shows

(* What an instruction finds.                                              *)
LEMMA InkShown ==
  ASSUME NestInv, NEW t \in Thread, Ink(t)
  PROVE  LET r == Current(t)  c == Active(t).co
         IN  /\ CoroInv /\ cstack[t] # <<>> /\ NoneFailing /\ ~ Active(t).native /\ ~ r.runtime.native
             /\ c \in Coro /\ co[c] = r /\ Good(r) /\ r.alive /\ Tidy(r)
             /\ ShownCalls[c] = CallsOf(r)
             /\ Model!Vals(c) = TopVals(r) /\ Avail(r) = Len(TopVals(r)) /\ Avail(r) \in Nat
             /\ TopVals(r) \in Seq(Values) /\ (TopVals(r) = <<>> <=> Avail(r) = 0)
             /\ Model!Blocks(c) = Len(LowBlocks(r)) + 1
             /\ Parts(CallsOf(r), LowCalls(r), r.runtime.native, r.runtime.args, LowBlocks(r), TopVals(r), Caught(r))
<1> DEFINE r == Current(t)
           c == Active(t).co
<1>1. CoroInv /\ cstack[t] # <<>> /\ NoneFailing /\ ~ Active(t).native /\ ~ r.runtime.native
  BY InkFacts DEF NestInv
<1>2. /\ c \in Coro /\ co[c] = r /\ Good(r) /\ r.alive /\ Tidy(r)
      /\ ShownCalls[c] = CallsOf(r) /\ Model!Vals(c) = TopVals(r)
      /\ Model!Blocks(c) = Len(LowBlocks(r)) + 1
  BY <1>1, TopShown
<1> HIDE DEF r, c
<1>3. TopVals(r) \in Seq(Values)
  BY <1>2, ViewIs
<1>4. Avail(r) = Len(TopVals(r)) /\ Avail(r) \in Nat /\ (TopVals(r) = <<>> <=> Avail(r) = 0)
  BY <1>2, TopOfView
<1>5. Parts(CallsOf(r), LowCalls(r), r.runtime.native, r.runtime.args, LowBlocks(r), TopVals(r), Caught(r))
  BY <1>2, ViewParts
<1> QED BY <1>1, <1>2, <1>3, <1>4, <1>5 DEF r, c

(* Arguments are values.                                                   *)
LEMMA ArgValues == Arg \subseteq Values
BY DEF Arg, Values

(* PushValue pushes on the innermost block.                                *)
LEMMA PushValueShown ==
  ASSUME NestInv, NEW t \in Thread, PushValue(t)
  PROVE  Shows
<1> DEFINE r == Current(t)
           c == Active(t).co
<1>1. Ink(t)
  BY DEF PushValue
<1>2. PICK v \in Arg : Local(t, Push(r, v))
  BY DEF PushValue
<1>3. v \in Values
  BY ArgValues
<1>4. Good(r) /\ r.alive /\ Tidy(r) /\ ShownCalls[c] = CallsOf(r)
  BY <1>1, InkShown
<1> DEFINE q == Push(r, v)
<1>5. Good(q) /\ CallsOf(q) = Model!PushOn(CallsOf(r), v) /\ Steady(q, r) /\ Alike(q, r)
  BY <1>3, <1>4, PushView, PushGood
<1>6. Local(t, q)
  BY <1>2
<1> HIDE DEF q
<1>7. GoesOn(q, r)
  BY <1>4, <1>5, SteadyGoesOn
<1>8. Model!SetCalls(c, CallsOf(q)) /\ Model!NoSwitch => Model!PushValue(c, v)
  BY <1>4, <1>5 DEF Model!PushValue
<1>9. Model!SetCalls(c, CallsOf(q)) /\ Model!NoSwitch => Model!InkStep(t, c)
  BY <1>8 DEF Model!InkStep, Arg
<1> QED BY <1>1, <1>6, <1>7, <1>9, LocalInk

(* PopValue takes the last value of the innermost block.                   *)
LEMMA PopValueShown ==
  ASSUME NestInv, NEW t \in Thread, PopValue(t)
  PROVE  Shows
<1> DEFINE r == Current(t)
           c == Active(t).co
           q == Drop(r, 1)
<1>1. Ink(t) /\ Avail(r) >= 1 /\ Local(t, q)
  BY DEF PopValue
<1>2. /\ Good(r) /\ r.alive /\ Tidy(r) /\ ShownCalls[c] = CallsOf(r)
      /\ Model!Vals(c) = TopVals(r) /\ Avail(r) = Len(TopVals(r)) /\ Avail(r) \in Nat
      /\ (TopVals(r) = <<>> <=> Avail(r) = 0)
  BY <1>1, InkShown
<1>3. 1 \in 0..Avail(r) /\ Avail(r) # 0
  BY <1>1, <1>2
<1>4. /\ Good(q) /\ Steady(q, r) /\ Alike(q, r)
      /\ CallsOf(q) = Model!WithVals(CallsOf(r), SubSeq(TopVals(r), 1, Avail(r) - 1))
  BY <1>2, <1>3, DropView, DropGood
<1>5. Model!Keep(c, 1) = SubSeq(TopVals(r), 1, Avail(r) - 1)
  BY <1>2 DEF Model!Keep
<1> HIDE DEF q
<1>6. GoesOn(q, r)
  BY <1>2, <1>4, SteadyGoesOn
<1>7. Model!SetCalls(c, CallsOf(q)) /\ Model!NoSwitch => Model!PopValue(c)
  BY <1>2, <1>3, <1>4, <1>5 DEF Model!PopValue
<1>8. Model!SetCalls(c, CallsOf(q)) /\ Model!NoSwitch => Model!InkStep(t, c)
  BY <1>7 DEF Model!InkStep
<1> QED BY <1>1, <1>6, <1>8, LocalInk

(* PushBlock opens a block with no values.                                 *)
LEMMA PushBlockShown ==
  ASSUME NestInv, NEW t \in Thread, PushBlock(t)
  PROVE  Shows
<1> DEFINE r == Current(t)
           c == Active(t).co
           v == TopVals(r)
<1>1. Ink(t)
  BY DEF PushBlock
<1>2. PICK k \in 0..Avail(r) : Local(t, BeginBlock(r, k))
  BY DEF PushBlock, BeginBlock
<1>3. /\ Good(r) /\ r.alive /\ Tidy(r) /\ ShownCalls[c] = CallsOf(r) /\ ~ r.runtime.native
      /\ Model!Vals(c) = v /\ Avail(r) = Len(v) /\ Avail(r) \in Nat /\ v \in Seq(Values)
      /\ Parts(CallsOf(r), LowCalls(r), r.runtime.native, r.runtime.args, LowBlocks(r), v, Caught(r))
  BY <1>1, InkShown
<1> DEFINE q == BeginBlock(r, k)
           low == SubSeq(v, 1, k)
           top == SubSeq(v, k + 1, Len(v))
           z == Nest(LowCalls(r), r.runtime.native, r.runtime.args, LowBlocks(r), low, Caught(r))
           bs == Append(LowBlocks(r), [vals |-> low, catch |-> Caught(r)])
<1>4. /\ Good(q) /\ Steady(q, r) /\ Alike(q, r)
      /\ CallsOf(q) = Nest(LowCalls(r), r.runtime.native, r.runtime.args, bs, top, FALSE)
  BY <1>3, BeginBlockView, BeginBlockGood
<1>5. low \in Seq(Values)
  BY <1>3, FirstOf
<1>6. /\ LowCalls(r) \in Seq(ShownCall) /\ r.runtime.native \in BOOLEAN /\ r.runtime.args \in Seq(Values)
      /\ LowBlocks(r) \in Seq(ShownBlock) /\ Caught(r) \in BOOLEAN
  BY <1>3, ViewIs
<1>7. Local(t, q)
  BY <1>2
<1> HIDE DEF q, low, top, v
<1>8. Last(z).blocks = bs
  BY <1>5, <1>6, NestFacts DEF Parts
<1>9. z = Model!WithVals(CallsOf(r), low)
  BY <1>3 DEF Parts
<1>10. Model!Last(Model!WithVals(ShownCalls[c], SubSeq(Model!Vals(c), 1, k))).blocks = bs
  BY <1>3, <1>8, <1>9, SameEnds DEF low
<1>11. CallsOf(q) = Model!WithBlocks(CallsOf(r), Append(bs, Model!Block(top)))
  BY <1>3, <1>4 DEF Parts, Nest, Model!Block
<1>12. GoesOn(q, r)
  BY <1>3, <1>4, SteadyGoesOn
<1>13. Model!SetCalls(c, CallsOf(q)) /\ Model!NoSwitch => Model!PushBlock(c, k)
  <2>1. k <= Len(Model!Vals(c))
    BY <1>3
  <2>2. Model!Block(SubSeq(Model!Vals(c), k + 1, Len(Model!Vals(c)))) = Model!Block(top)
    BY <1>3 DEF top
  <2> HIDE DEF bs, r, c
  <2>3. CallsOf(q) = Model!WithBlocks(ShownCalls[c],
          Append(Model!Last(Model!WithVals(ShownCalls[c], SubSeq(Model!Vals(c), 1, k))).blocks,
                 Model!Block(SubSeq(Model!Vals(c), k + 1, Len(Model!Vals(c))))))
    BY <1>3, <1>10, <1>11, <2>2
  <2> QED BY <2>1, <2>3 DEF Model!PushBlock
<1>14. k \in 0..Len(Model!Vals(c))
  BY <1>3
<1>15. Model!SetCalls(c, CallsOf(q)) /\ Model!NoSwitch => Model!InkStep(t, c)
  BY <1>13, <1>14 DEF Model!InkStep
<1> QED BY <1>1, <1>7, <1>12, <1>15, LocalInk

(* Nothing changes, or nothing that CallModel sees.                        *)
LEMMA Stutters ==
  ASSUME NestInv, UNCHANGED vars
  PROVE  Shows
<1>1. co' = co /\ cstack' = cstack /\ start' = start /\ except' = except
  BY DEF vars
<1>2. \A c \in Coro : OnStack(c)' <=> OnStack(c)
  BY <1>1 DEF OnStack
<1>3. TidyInv'
  BY <1>1 DEF NestInv, TidyInv, Lives, Tidy, CallAt
<1>4. ParamInv'
  BY <1>1, <1>2 DEF NestInv, ParamInv
<1>5. \A u \in Thread : Unwinding(u)' <=> Unwinding(u)
  BY <1>1 DEF Unwinding, Active
<1>6. ShownExcept' = ShownExcept /\ ShownFailing' = ShownFailing
  BY <1>1, <1>5 DEF ShownExcept, ShownFailing, Somewhere
<1>7. ShownCalls' = ShownCalls /\ ShownFresh' = ShownFresh /\ ShownChain' = ShownChain
  <2>1. \A c \in Coro : FreshOf(co'[c], OnStack(c)') = FreshOf(co[c], OnStack(c))
    BY <1>1, <1>2 DEF FreshOf
  <2>2. ShownFresh' = ShownFresh
    BY <2>1, StateShown
  <2>3. ShownCalls' = ShownCalls /\ ShownChain' = ShownChain
    BY <1>1, StateShown
  <2> QED BY <2>2, <2>3
<1> QED BY <1>1, <1>3, <1>4, <1>6, <1>7 DEF Shows, ModelStep, Model!vars

(* A change of the current coroutine that CallModel does not see.          *)
LEMMA LocalSees ==
  ASSUME NestInv, NEW t \in Thread, cstack[t] # <<>>, NoneFailing \/ Active(t).failing,
         NEW q, GoesOn(q, Current(t)), Local(t, q), CallsOf(q) = CallsOf(Current(t))
  PROVE  Shows
<1> DEFINE c == Active(t).co
<1>1. /\ TidyInv' /\ ParamInv'
      /\ Model!SetCalls(c, CallsOf(q)) /\ Model!NoSwitch
  BY LocalShown
<1>2. ShownCalls[c] = CallsOf(q)
  BY TopShown
<1> HIDE DEF c
<1>3. ShownCalls' = ShownCalls
  BY <1>1, <1>2 DEF Model!SetCalls, ShownCalls
<1> QED BY <1>1, <1>3 DEF Shows, ModelStep, Model!vars, Model!NoSwitch

(* PopBlock drops the innermost block and its values.                      *)
LEMMA PopBlockShown ==
  ASSUME NestInv, NEW t \in Thread, PopBlock(t)
  PROVE  Shows
<1> DEFINE r == Current(t)
           c == Active(t).co
           q == LeaveBlock(r)
<1>1. Ink(t) /\ Local(t, q)
  BY DEF PopBlock
<1>2. /\ cstack[t] # <<>> /\ NoneFailing /\ c \in Coro /\ co[c] = r
      /\ Good(r) /\ r.alive /\ Tidy(r) /\ ShownCalls[c] = CallsOf(r)
      /\ Model!Blocks(c) = Len(LowBlocks(r)) + 1
      /\ Parts(CallsOf(r), LowCalls(r), r.runtime.native, r.runtime.args, LowBlocks(r), TopVals(r), Caught(r))
  BY <1>1, InkShown
<1>3. CASE ~ BlockOpen(r)
  <2>1. q = r
    BY <1>3 DEF LeaveBlock
  <2>2. GoesOn(r, r)
    BY <1>2 DEF GoesOn
  <2> HIDE DEF q
  <2> QED BY <1>1, <1>2, <2>1, <2>2, LocalSees
<1>4. CASE BlockOpen(r)
  <2>1. /\ Good(q) /\ Steady(q, r) /\ Alike(q, r) /\ LowBlocks(r) # <<>>
        /\ CallsOf(q) = Append(LowCalls(r), [native |-> r.runtime.native, args |-> r.runtime.args,
                                             blocks |-> LowBlocks(r)])
    BY <1>2, <1>4, LeaveBlockView, LeaveBlockGood
  <2>2. LowBlocks(r) \in Seq(ShownBlock)
    BY <1>2, ViewIs
  <2>3. Len(LowBlocks(r)) + 1 > 1
    BY <2>1, <2>2, LastFront
  <2> HIDE DEF q
  <2>4. Model!Front(Model!Inner(c).blocks) = LowBlocks(r)
    BY <1>2, SameEnds DEF Parts, Model!Inner
  <2>5. CallsOf(q) = Model!WithBlocks(ShownCalls[c], LowBlocks(r))
    BY <1>2, <2>1 DEF Parts
  <2>6. GoesOn(q, r)
    BY <1>2, <2>1, SteadyGoesOn
  <2>7. Model!SetCalls(c, CallsOf(q)) /\ Model!NoSwitch => Model!PopBlock(c, FALSE)
    BY <1>2, <2>3, <2>4, <2>5 DEF Model!PopBlock
  <2>8. Model!SetCalls(c, CallsOf(q)) /\ Model!NoSwitch => Model!InkStep(t, c)
    BY <2>7 DEF Model!InkStep
  <2> QED BY <1>1, <2>6, <2>8, LocalInk
<1> QED BY <1>3, <1>4

(* A sequence is its front and its last member.                            *)
LEMMA FrontAndLast ==
  ASSUME NEW S, NEW s \in Seq(S), s # <<>>
  PROVE  Append(SubSeq(s, 1, Len(s) - 1), Last(s)) = s
<1>1. Len(s) \in Nat \ {0} /\ Last(s) = s[Len(s)] /\ Len(s) - 1 \in 0..Len(s)
  <2>1. Len(s) \in Nat \ {0} /\ Last(s) = s[Len(s)]
    BY LastFront
  <2> QED BY <2>1
<1> DEFINE f == SubSeq(s, 1, Len(s) - 1)
<1>2. f \in Seq(S) /\ Len(f) = Len(s) - 1 /\ \A i \in 1..Len(s) - 1 : f[i] = s[i]
  BY <1>1, FirstOf
<1> HIDE DEF f
<1>3. Len(s) = Len(f) + 1 /\ \A i \in 1..Len(f) : s[i] = f[i]
  BY <1>1, <1>2
<1>4. s = Append(f, s[Len(f) + 1])
  BY <1>2, <1>3, SplitLast
<1> QED BY <1>1, <1>3, <1>4 DEF f

(* PopBlockSave keeps the last value of the block it drops.                *)
LEMMA PopBlockSaveShown ==
  ASSUME NestInv, NEW t \in Thread, PopBlockSave(t)
  PROVE  Shows
<1> DEFINE r == Current(t)
           c == Active(t).co
           p == Drop(r, 1)
           o == LeaveBlock(p)
           q == Push(o, TopOf(r))
<1>1. Ink(t) /\ Avail(r) >= 1 /\ Local(t, q)
  BY DEF PopBlockSave
<1>2. /\ cstack[t] # <<>> /\ NoneFailing
      /\ Good(r) /\ r.alive /\ Tidy(r) /\ ShownCalls[c] = CallsOf(r)
      /\ Model!Vals(c) = TopVals(r) /\ Avail(r) = Len(TopVals(r)) /\ Avail(r) \in Nat
      /\ TopVals(r) \in Seq(Values) /\ (TopVals(r) = <<>> <=> Avail(r) = 0)
      /\ Model!Blocks(c) = Len(LowBlocks(r)) + 1
      /\ Parts(CallsOf(r), LowCalls(r), r.runtime.native, r.runtime.args, LowBlocks(r), TopVals(r), Caught(r))
  BY <1>1, InkShown
<1>3. 1 \in 0..Avail(r) /\ Avail(r) # 0
  BY <1>1, <1>2
<1>4. TopOf(r) = Last(TopVals(r)) /\ TopOf(r) \in Values
  BY <1>1, <1>2, TopOfView
<1>5. /\ Good(p) /\ Steady(p, r) /\ Alike(p, r) /\ p.blocks = r.blocks /\ p.runtime = r.runtime
      /\ LowCalls(p) = LowCalls(r) /\ LowBlocks(p) = LowBlocks(r)
      /\ CallsOf(p) = Model!WithVals(CallsOf(r), SubSeq(TopVals(r), 1, Avail(r) - 1))
  BY <1>2, <1>3, DropView, DropGood
<1>6. p.alive /\ Tidy(p)
  BY <1>2, <1>5 DEF Alike, Steady
<1> HIDE DEF p
<1>7. Good(o) /\ Alike(o, p)
  BY <1>5, LeaveBlockGood
<1>8. /\ Good(q) /\ Steady(q, o) /\ Alike(q, o) /\ CallsOf(q) = Model!PushOn(CallsOf(o), TopOf(r))
  BY <1>4, <1>7, PushView, PushGood
<1>9. Steady(o, p) => GoesOn(q, r)
  <2> SUFFICES ASSUME Steady(o, p)
               PROVE  GoesOn(q, r)
    OBVIOUS
  <2>1. Steady(q, r) /\ Alike(q, r)
    BY <1>5, <1>7, <1>8 DEF Steady, Alike
  <2> QED BY <1>2, <1>8, <2>1, SteadyGoesOn
<1>10. BlockOpen(p) <=> BlockOpen(r)
  BY <1>5 DEF BlockOpen
<1>11. CASE ~ BlockOpen(r)
  <2>1. o = p
    BY <1>10, <1>11 DEF LeaveBlock
  <2> HIDE DEF q, o
  <2>2. GoesOn(q, r)
    BY <1>9, <2>1 DEF Steady
  <2> DEFINE v == TopVals(r)
             low == SubSeq(v, 1, Len(v) - 1)
  <2>3. v \in Seq(Values) /\ v # <<>> /\ Avail(r) = Len(v)
    BY <1>2, <1>3
  <2>4. Append(low, Last(v)) = v
    BY <2>3, FrontAndLast
  <2>5. low \in Seq(Values)
    <3>1. Len(v) - 1 \in 0..Len(v)
      BY <2>3, <1>2, <1>3
    <3> QED BY <2>3, <3>1, FirstOf
  <2>6. /\ LowCalls(r) \in Seq(ShownCall) /\ r.runtime.native \in BOOLEAN /\ r.runtime.args \in Seq(Values)
        /\ LowBlocks(r) \in Seq(ShownBlock) /\ Caught(r) \in BOOLEAN
        /\ CallsOf(r) = Nest(LowCalls(r), r.runtime.native, r.runtime.args, LowBlocks(r), v, Caught(r))
    BY <1>2, ViewIs
  <2>7. CallsOf(p) = Model!WithVals(CallsOf(r), low)
    BY <1>5, <2>3
  <2> HIDE DEF low, v
  <2> DEFINE z == Nest(LowCalls(r), r.runtime.native, r.runtime.args, LowBlocks(r), low, Caught(r))
  <2>8. CallsOf(p) = z
    BY <1>2, <2>7 DEF Parts
  <2>9. Model!PushOn(z, Last(v)) = Nest(LowCalls(r), r.runtime.native, r.runtime.args, LowBlocks(r),
                                        Append(low, Last(v)), Caught(r))
    <3>1. Parts(z, LowCalls(r), r.runtime.native, r.runtime.args, LowBlocks(r), low, Caught(r))
      BY <2>5, <2>6, NestFacts
    <3> QED BY <3>1 DEF Parts
  <2>10. CallsOf(q) = CallsOf(r)
    BY <1>4, <1>8, <2>1, <2>4, <2>6, <2>8, <2>9 DEF v
  <2>11. Local(t, q)
    BY <1>1 DEF q, o, p
  <2> QED BY <1>2, <2>2, <2>10, <2>11, LocalSees
<1>12. CASE BlockOpen(r)
  <2>1. /\ Steady(o, p) /\ LowBlocks(p) # <<>>
        /\ CallsOf(o) = Append(LowCalls(p), [native |-> p.runtime.native, args |-> p.runtime.args,
                                             blocks |-> LowBlocks(p)])
    BY <1>5, <1>10, <1>12, LeaveBlockView
  <2>2. LowBlocks(r) \in Seq(ShownBlock)
    BY <1>2, ViewIs
  <2>3. Len(LowBlocks(r)) + 1 > 1
    BY <1>5, <2>1, <2>2, LastFront
  <2>4. Local(t, q)
    BY <1>1 DEF p
  <2> HIDE DEF q, o
  <2>5. Model!Front(Model!Inner(c).blocks) = LowBlocks(r)
    BY <1>2, SameEnds DEF Parts, Model!Inner
  <2>6. CallsOf(o) = Model!WithBlocks(ShownCalls[c], LowBlocks(r))
    BY <1>2, <1>5, <2>1 DEF Parts
  <2>7. GoesOn(q, r)
    BY <1>9, <2>1
  <2>8. TopOf(r) = Model!Last(Model!Vals(c)) /\ Model!Vals(c) # <<>>
    BY <1>2, <1>3, <1>4, SameEnds
  <2>9. Model!SetCalls(c, CallsOf(q)) /\ Model!NoSwitch => Model!PopBlock(c, TRUE)
    BY <1>2, <1>8, <2>3, <2>5, <2>6, <2>8 DEF Model!PopBlock
  <2>10. Model!SetCalls(c, CallsOf(q)) /\ Model!NoSwitch => Model!InkStep(t, c)
    BY <2>9 DEF Model!InkStep
  <2> QED BY <1>1, <2>4, <2>7, <2>10, LocalInk
<1> QED BY <1>11, <1>12

(* SetCatch marks the innermost block as a try.                            *)
LEMMA SetCatchShown ==
  ASSUME NestInv, NEW t \in Thread, SetCatch(t)
  PROVE  Shows
<1> DEFINE r == Current(t)
           c == Active(t).co
<1>1. Ink(t) /\ BlockOpen(r)
  BY DEF SetCatch
<1>2. PICK on \in BOOLEAN : Local(t, SetCatchOf(r, on))
  BY DEF SetCatch
<1>3. /\ cstack[t] # <<>> /\ Good(r) /\ r.alive /\ Tidy(r) /\ ShownCalls[c] = CallsOf(r)
      /\ Model!Blocks(c) = Len(LowBlocks(r)) + 1
      /\ Parts(CallsOf(r), LowCalls(r), r.runtime.native, r.runtime.args, LowBlocks(r), TopVals(r), Caught(r))
  BY <1>1, InkShown
<1> DEFINE q == SetCatchOf(r, on)
<1>4. /\ Good(q) /\ Steady(q, r) /\ Alike(q, r)
      /\ CallsOf(q) = Nest(LowCalls(r), r.runtime.native, r.runtime.args, LowBlocks(r), TopVals(r), on)
  BY <1>1, <1>3, SetCatchView, SetCatchGood
<1>5. LowBlocks(r) # <<>> /\ LowBlocks(r) \in Seq(ShownBlock)
  BY <1>1, <1>3, ViewIs, LeaveBlockView
<1>6. Len(LowBlocks(r)) + 1 > 1
  BY <1>5, LastFront
<1>7. Local(t, q)
  BY <1>2
<1> HIDE DEF q
<1>8. Model!Front(Model!Inner(c).blocks) = LowBlocks(r)
  BY <1>3, SameEnds DEF Parts, Model!Inner
<1>9. Model!Top(c) = [vals |-> TopVals(r), catch |-> Caught(r)]
  BY <1>3, TopShown
<1>10. [Model!Top(c) EXCEPT !.catch = on] = [vals |-> TopVals(r), catch |-> on]
  BY <1>9
<1>11. CallsOf(q) = Model!WithBlocks(ShownCalls[c],
                      Append(Model!Front(Model!Inner(c).blocks), [Model!Top(c) EXCEPT !.catch = on]))
  BY <1>3, <1>4, <1>8, <1>10 DEF Parts, Nest
<1>12. GoesOn(q, r)
  BY <1>3, <1>4, SteadyGoesOn
<1>13. Model!SetCalls(c, CallsOf(q)) /\ Model!NoSwitch => Model!SetCatch(c, on)
  BY <1>3, <1>6, <1>11 DEF Model!SetCatch
<1>14. Model!SetCalls(c, CallsOf(q)) /\ Model!NoSwitch => Model!InkStep(t, c)
  BY <1>13 DEF Model!InkStep
<1> QED BY <1>1, <1>7, <1>12, <1>14, LocalInk

(* A step that changes the C stack by native functions only.               *)
LEMMA KeepsShown ==
  ASSUME NestInv, NEW t \in Thread, cstack[t] # <<>>, NoneFailing,
         NEW q, GoesOn(q, Current(t)), SetCoro(t, q),
         NEW s2 \in Stacks, cstack' = [cstack EXCEPT ![t] = s2], start' = start,
         \A d : On(s2, d) <=> On(cstack[t], d), LoopsOf(s2) = LoopsOf(cstack[t]), ~ FailsAt(s2)
  PROVE  /\ TidyInv' /\ ParamInv'
         /\ Model!SetCalls(Active(t).co, CallsOf(q)) /\ Model!NoSwitch
<1>1. CoroInv
  BY DEF NestInv
<1>2. /\ TidyInv' /\ ParamInv'
      /\ ShownCalls' = [ShownCalls EXCEPT ![Active(t).co] = CallsOf(q)]
      /\ ShownFresh' = ShownFresh
      /\ ShownChain' = [ShownChain EXCEPT ![t] = LoopsOf(s2)]
  BY Goes DEF GoesOn
<1>3. ShownChain' = ShownChain
  BY <1>2 DEF ShownChain
<1>4. ShownExcept = Nil /\ ShownFailing = Nil
  BY <1>1, ExceptNow
<1>5. ShownExcept' = Nil /\ ShownFailing' = Nil
  BY <1>1, ExceptNext
<1> QED BY <1>2, <1>3, <1>4, <1>5 DEF Model!SetCalls, Model!NoSwitch

(* The activation of a native function.                                    *)
LEMMA CFunctionIs ==
  ASSUME NEW c \in Coro, NEW saved \in BOOLEAN, NEW byCall \in BOOLEAN
  PROVE  LET a == CFunction(c, saved, byCall)
         IN  a \in Activation /\ a.native /\ a.co = c /\ ~ a.failing
BY DEF CFunction, Loop, Activation

(* Invoke: the callee and its arguments become a call.                     *)
LEMMA InvokeShown ==
  ASSUME NestInv, NEW t \in Thread, Invoke(t)
  PROVE  Shows
<1> DEFINE r == Current(t)
           c == Active(t).co
           v == TopVals(r)
           s == cstack[t]
<1>1. Ink(t) /\ start' = start
  BY DEF Invoke
<1>2. PICK kind \in Kind, n \in 0..2, base \in 0..1 :
        /\ Avail(r) >= n + base + 1
        /\ SetCoro(t, [Callee(r, kind, n, base) EXCEPT !.hasNative = @ \/ kind = "native"])
        /\ cstack' = IF kind # "native" THEN cstack
                     ELSE [cstack EXCEPT ![t] = Append(@, CFunction(c, r.hasNative, FALSE))]
  BY DEF Invoke
<1>3. /\ CoroInv /\ s # <<>> /\ NoneFailing /\ c \in Coro
      /\ Good(r) /\ r.alive /\ Tidy(r) /\ ShownCalls[c] = CallsOf(r) /\ ~ r.runtime.native
      /\ Model!Vals(c) = v /\ Avail(r) = Len(v) /\ Avail(r) \in Nat
  BY <1>1, InkShown
<1> DEFINE p == Callee(r, kind, n, base)
           q == [p EXCEPT !.hasNative = @ \/ kind = "native"]
<1>4. /\ Good(p) /\ p.param = r.param /\ (Tidy(r) => Tidy(p)) /\ Alike(p, r)
      /\ CallsOf(p) = Append(Model!WithVals(CallsOf(r), SubSeq(v, 1, Len(v) - (n + base + 1))),
                             Model!Callee(kind, SubSeq(v, Len(v) - n + 1, Len(v))))
  <2> HIDE DEF r, c, s
  <2>1. Good(r) /\ ~ r.runtime.native /\ Avail(r) >= n + base + 1
    BY <1>2, <1>3
  <2>2. /\ Good(p) /\ p.param = r.param /\ (Tidy(r) => Tidy(p))
        /\ CallsOf(p) = Append(Model!WithVals(CallsOf(r), SubSeq(v, 1, Len(v) - (n + base + 1))),
                               Model!Callee(kind, SubSeq(v, Len(v) - n + 1, Len(v))))
    BY <2>1, CalleeView
  <2>3. Alike(p, r)
    BY <2>1, CalleeGood
  <2> QED BY <2>2, <2>3
<1>5. SetCoro(t, q)
  BY <1>2
<1> HIDE DEF p
<1>6. p \in CoroSet
  BY <1>4 DEF Good
<1>7. /\ q \in CoroSet /\ q.bottom = p.bottom /\ q.size = p.size /\ q.mem = p.mem
      /\ q.runtime = p.runtime /\ q.frames = p.frames /\ q.blocks = p.blocks
      /\ q.alive = p.alive /\ q.spawned = p.spawned /\ q.param = p.param
  BY <1>6 DEF CoroSet
<1> HIDE DEF q
<1>8. Good(q) /\ CallsOf(q) = CallsOf(p) /\ Tidy(q)
  <2>1. Good(q) /\ CallsOf(q) = CallsOf(p) /\ (Tidy(p) => Tidy(q))
    BY <1>4, <1>7, FlagsView
  <2> QED BY <1>3, <1>4, <2>1
<1>9. GoesOn(q, r)
  BY <1>3, <1>4, <1>7, <1>8 DEF GoesOn, Alike
<1>10. s \in Stacks /\ ~ FailsAt(s)
  BY <1>3, ActiveFacts DEF NoneFailing, FailsAt, Active
<1>11. \E s2 \in Stacks : /\ cstack' = [cstack EXCEPT ![t] = s2] /\ \A d : On(s2, d) <=> On(s, d)
                          /\ LoopsOf(s2) = LoopsOf(s) /\ ~ FailsAt(s2)
  <2>1. CASE kind # "native"
    <3>1. cstack' = [cstack EXCEPT ![t] = s]
      BY <1>2, <1>3, <2>1 DEF CoroInv, Types
    <3> QED BY <1>10, <3>1
  <2>2. CASE kind = "native"
    <3> DEFINE a == CFunction(c, r.hasNative, FALSE)
               s2 == Append(s, a)
    <3>1. r.hasNative \in BOOLEAN
      BY <1>3, CoroFields DEF Good
    <3>2. a \in Activation /\ a.native /\ a.co = c /\ ~ a.failing
      BY <1>3, <3>1, CFunctionIs
    <3>3. cstack' = [cstack EXCEPT ![t] = s2]
      BY <1>2, <2>2
    <3>4. On(s, c)
      BY <1>3, ActiveFacts
    <3> HIDE DEF a, s, c
    <3>5. s2 \in Stacks
      BY <1>10, <3>2, OneMore
    <3>6. (\A d : On(s2, d) <=> On(s, d) \/ d = a.co) /\ (FailsAt(s2) <=> a.failing)
      BY <1>10, <3>2, AppendedOn
    <3>7. LoopsOf(s2) = LoopsOf(s)
      BY <1>10, <3>2, LoopsMore
    <3> QED BY <3>2, <3>3, <3>4, <3>5, <3>6, <3>7
  <2> QED BY <2>1, <2>2
<1>12. TidyInv' /\ ParamInv' /\ Model!SetCalls(c, CallsOf(q)) /\ Model!NoSwitch
  BY <1>1, <1>3, <1>5, <1>9, <1>11, KeepsShown
<1>13. Model!Invoke(c, kind, n, base)
  <2>1. Len(Model!Vals(c)) >= n + base + 1
    BY <1>2, <1>3
  <2>2. /\ Model!Keep(c, n + base + 1) = SubSeq(v, 1, Len(v) - (n + base + 1))
        /\ Model!TakeTop(c, n) = SubSeq(v, Len(v) - n + 1, Len(v))
    BY <1>3 DEF Model!Keep, Model!TakeTop
  <2>3. CallsOf(q) = Append(Model!WithVals(ShownCalls[c], Model!Keep(c, n + base + 1)),
                            Model!Callee(kind, Model!TakeTop(c, n)))
    BY <1>3, <1>4, <1>8, <2>2
  <2> QED BY <1>12, <2>1, <2>3 DEF Model!Invoke
<1>14. Model!InkStep(t, c)
  BY <1>13 DEF Model!InkStep, Kind
<1>15. ModelStep
  BY <1>1, <1>14, InkModel
<1> QED BY <1>12, <1>15 DEF Shows

(***************************************************************************)
(* Exceptions.                                                             *)
(***************************************************************************)
LEMMA CaughtView ==
  ASSUME NEW r, Good(r), Caught(r), NEW v \in Values
  PROVE  LET q == Push(SetCatchOf(r, FALSE), v)
         IN  Good(q) /\ Alike(q, r) /\ Steady(q, r) /\ CallsOf(q) = Model!Caught(CallsOf(r), v)
<1> DEFINE p == SetCatchOf(r, FALSE)
           q == Push(p, v)
<1>1. BlockOpen(r)
  BY DEF Caught
<1>2. /\ Good(p) /\ Steady(p, r) /\ Alike(p, r)
      /\ CallsOf(p) = Nest(LowCalls(r), r.runtime.native, r.runtime.args, LowBlocks(r), TopVals(r), FALSE)
  BY <1>1, SetCatchView, SetCatchGood
<1> HIDE DEF p
<1>3. Good(q) /\ Steady(q, p) /\ Alike(q, p) /\ CallsOf(q) = Model!PushOn(CallsOf(p), v)
  BY <1>2, PushView, PushGood
<1>4. /\ LowCalls(r) \in Seq(ShownCall) /\ r.runtime.native \in BOOLEAN /\ r.runtime.args \in Seq(Values)
      /\ LowBlocks(r) \in Seq(ShownBlock) /\ Caught(r) \in BOOLEAN /\ TopVals(r) \in Seq(Values)
      /\ CallsOf(r) = Nest(LowCalls(r), r.runtime.native, r.runtime.args, LowBlocks(r), TopVals(r), Caught(r))
  BY ViewIs
<1>5. Model!Caught(CallsOf(r), v) = Nest(LowCalls(r), r.runtime.native, r.runtime.args, LowBlocks(r),
                                         Append(TopVals(r), v), FALSE)
  <2> DEFINE z    == CallsOf(r)
             cs   == LowCalls(r)
             bs   == LowBlocks(r)
             vals == TopVals(r)
             on   == Caught(r)
             nat  == r.runtime.native
             args == r.runtime.args
  <2> HIDE DEF z, cs, bs, vals, on, nat, args
  <2>1. /\ cs \in Seq(ShownCall) /\ nat \in BOOLEAN /\ args \in Seq(Values) /\ bs \in Seq(ShownBlock)
        /\ on \in BOOLEAN /\ vals \in Seq(Values) /\ z = Nest(cs, nat, args, bs, vals, on)
    BY <1>4 DEF z, cs, bs, vals, on, nat, args
  <2>2. Model!Caught(z, v) = Nest(cs, nat, args, bs, Append(vals, v), FALSE)
    <3>1. Catches(z, cs, nat, args, bs, vals)
      BY <2>1, NestCaught
    <3> QED BY <3>1 DEF Catches
  <2> QED BY <2>2 DEF z, cs, bs, vals, nat, args
<1>6. CallsOf(q) = Nest(LowCalls(r), r.runtime.native, r.runtime.args, LowBlocks(r), Append(TopVals(r), v), FALSE)
  <2>1. FALSE \in BOOLEAN
    OBVIOUS
  <2>2. Parts(CallsOf(p), LowCalls(r), r.runtime.native, r.runtime.args, LowBlocks(r), TopVals(r), FALSE)
    BY <1>2, <1>4, <2>1, NestFacts
  <2> QED BY <1>3, <2>2 DEF Parts
<1>7. Alike(q, r) /\ Steady(q, r)
  BY <1>2, <1>3 DEF Alike, Steady
<1> QED BY <1>3, <1>5, <1>6, <1>7 DEF p

(* n values are taken and v is raised: the nest keeps the try, or v is on its way.*)
LEMMA RaisedShown ==
  ASSUME NestInv, NEW t \in Thread, Ink(t), NEW n \in 1..2, Avail(Current(t)) >= n, NEW v \in Values,
         Raised(t, Drop(Current(t), n), v),
         Model!RaiseAfter(t, Active(t).co, n, v) => Model!InkStep(t, Active(t).co)
  PROVE  Shows
<1> DEFINE r == Current(t)
           c == Active(t).co
           p == Drop(r, n)
           z == Model!WithVals(ShownCalls[c], Model!Keep(c, n))
<1>1. /\ cstack[t] # <<>> /\ NoneFailing /\ c \in Coro
      /\ Good(r) /\ r.alive /\ Tidy(r) /\ ShownCalls[c] = CallsOf(r)
      /\ Model!Vals(c) = TopVals(r) /\ Avail(r) = Len(TopVals(r)) /\ Avail(r) \in Nat
  BY InkShown
<1>2. n \in 0..Avail(r)
  BY <1>1
<1>3. /\ Good(p) /\ Steady(p, r) /\ Alike(p, r) /\ Caught(p) = Caught(r)
      /\ CallsOf(p) = Model!WithVals(CallsOf(r), SubSeq(TopVals(r), 1, Avail(r) - n))
  BY <1>1, <1>2, DropView, DropGood
<1>4. CallsOf(p) = z
  BY <1>1, <1>3 DEF Model!Keep
<1>5. Model!Top(c).catch = Caught(p)
  BY <1>1, <1>3, TopShown
<1>6. Len(Model!Vals(c)) >= n
  BY <1>1
<1>7. Raised(t, p, v)
  OBVIOUS
<1> HIDE DEF p
<1>8. GoesOn(p, r)
  BY <1>1, <1>3, SteadyGoesOn
<1>9. CASE Caught(p)
  <2> DEFINE q == Push(SetCatchOf(p, FALSE), v)
  <2>1. Good(q) /\ Alike(q, p) /\ Steady(q, p) /\ CallsOf(q) = Model!Caught(CallsOf(p), v)
    BY <1>3, <1>9, CaughtView
  <2>2. Local(t, q)
    BY <1>7, <1>9 DEF Raised
  <2> HIDE DEF q
  <2>3. GoesOn(q, r)
    <3>1. Good(q) /\ Alike(q, r) /\ Steady(q, r)
      BY <1>3, <2>1 DEF Alike, Steady
    <3> QED BY <1>1, <3>1, SteadyGoesOn
  <2>4. Model!SetCalls(c, CallsOf(q)) /\ Model!NoSwitch => Model!RaiseAfter(t, c, n, v)
    BY <1>4, <1>5, <1>6, <1>9, <2>1 DEF Model!RaiseAfter, Model!NoSwitch
  <2> QED BY <2>2, <2>3, <2>4, LocalInk
<1>10. CASE ~ Caught(p)
  <2>1. /\ SetCoro(t, p) /\ except' = v /\ start' = start
        /\ cstack' = [cstack EXCEPT ![t] = Marked(cstack[t], TRUE)]
    BY <1>7, <1>10 DEF Raised, Marked, Active
  <2>2. TRUE \in BOOLEAN
    OBVIOUS
  <2>3. /\ TidyInv' /\ ParamInv' /\ Model!SetCalls(c, CallsOf(p))
        /\ ShownFresh' = ShownFresh /\ ShownChain' = ShownChain
        /\ ShownExcept' = (IF TRUE THEN except' ELSE Nil) /\ ShownFailing' = (IF TRUE THEN t ELSE Nil)
    BY <1>1, <1>8, <2>1, <2>2, MarkShown
  <2>4. Model!RaiseAfter(t, c, n, v)
    BY <1>4, <1>5, <1>6, <1>10, <2>1, <2>3 DEF Model!RaiseAfter
  <2>5. ModelStep
    BY <2>4, InkModel
  <2> QED BY <2>3, <2>5 DEF Shows
<1> QED BY <1>9, <1>10

(* Raise takes the value that it raises.                                   *)
LEMMA RaiseShown ==
  ASSUME NestInv, NEW t \in Thread, Raise(t)
  PROVE  Shows
<1> DEFINE r == Current(t)
           c == Active(t).co
           v == TopOf(r)
<1>1. Ink(t) /\ Avail(r) >= 1 /\ Raised(t, Drop(r, 1), v)
  BY DEF Raise
<1>2. Good(r) /\ Model!Vals(c) = TopVals(r) /\ (TopVals(r) = <<>> <=> Avail(r) = 0) /\ Avail(r) \in Nat
  BY <1>1, InkShown
<1>3. v = Last(TopVals(r)) /\ v \in Values
  BY <1>1, <1>2, TopOfView
<1>4. Model!Vals(c) # <<>> /\ Model!Last(Model!Vals(c)) = v
  BY <1>1, <1>2, <1>3, SameEnds
<1> HIDE DEF r, c, v
<1>5. Model!RaiseAfter(t, c, 1, v) => Model!InkStep(t, c)
  BY <1>4 DEF Model!InkStep
<1>6. 1 \in 1..2
  OBVIOUS
<1> QED BY <1>1, <1>3, <1>5, <1>6, RaisedShown DEF r, c

(* The same for the exceptions of the interpreter.                         *)
LEMMA ExcRaised ==
  ASSUME NestInv, NEW t \in Thread, Ink(t), NEW n \in 1..2, Avail(Current(t)) >= n,
         Raised(t, Drop(Current(t), n), Exc)
  PROVE  Shows
<1>1. Exc \in Values
  BY ValuesAreNotNil
<1>2. Model!RaiseAfter(t, Active(t).co, n, Exc) => Model!InkStep(t, Active(t).co)
  BY DEF Model!InkStep
<1> QED BY <1>1, <1>2, RaisedShown

(* Fault: an instruction with wrong operands raises.                       *)
LEMMA FaultShown ==
  ASSUME NestInv, NEW t \in Thread, Fault(t)
  PROVE  Shows
<1> DEFINE r == Current(t)
           c == Active(t).co
           p == Drop(r, 2)
           z == Model!WithVals(ShownCalls[c], Model!Keep(c, 2))
<1>1. Ink(t) /\ Avail(r) >= 2 /\ 2 \in 1..2
  BY DEF Fault
<1>2. CASE ~ Caught(p)
  <2>1. Raised(t, p, Exc)
    BY <1>2 DEF Fault
  <2> QED BY <1>1, <2>1, ExcRaised
<1>3. CASE Caught(p)
  <2> DEFINE q == Push(SetCatchOf(p, FALSE), Exc)
  <2>1. SetCoro(t, q) /\ cstack' = cstack /\ start' = start
    BY <1>3 DEF Fault
  <2>2. /\ CoroInv /\ cstack[t] # <<>> /\ NoneFailing /\ c \in Coro
        /\ Good(r) /\ r.alive /\ Tidy(r) /\ ShownCalls[c] = CallsOf(r)
        /\ Model!Vals(c) = TopVals(r) /\ Avail(r) = Len(TopVals(r)) /\ Avail(r) \in Nat
    BY <1>1, InkShown
  <2>3. 2 \in 0..Avail(r) /\ Len(Model!Vals(c)) >= 2
    BY <1>1, <2>2
  <2>4. /\ Good(p) /\ Steady(p, r) /\ Alike(p, r) /\ Caught(p) = Caught(r)
        /\ CallsOf(p) = Model!WithVals(CallsOf(r), SubSeq(TopVals(r), 1, Avail(r) - 2))
    BY <2>2, <2>3, DropView, DropGood
  <2>5. CallsOf(p) = z
    BY <2>2, <2>4 DEF Model!Keep
  <2>6. Model!Top(c).catch = Caught(p)
    BY <2>2, <2>4, TopShown
  <2> HIDE DEF p
  <2>7. Exc \in Values
    BY ValuesAreNotNil
  <2>8. Good(q) /\ Alike(q, p) /\ Steady(q, p) /\ CallsOf(q) = Model!Caught(CallsOf(p), Exc)
    BY <1>3, <2>4, <2>7, CaughtView
  <2> HIDE DEF q
  <2>9. GoesOn(q, r)
    <3>1. Good(q) /\ Alike(q, r) /\ Steady(q, r)
      BY <2>4, <2>8 DEF Alike, Steady
    <3> QED BY <2>2, <3>1, SteadyGoesOn
  <2>10. cstack[t] \in Stacks /\ ~ FailsAt(cstack[t]) /\ cstack' = [cstack EXCEPT ![t] = cstack[t]]
    <3>1. cstack[t] \in Stacks
      BY <2>2, ActiveFacts
    <3>2. ~ FailsAt(cstack[t])
      BY <2>2 DEF NoneFailing, FailsAt, Active
    <3>3. cstack' = [cstack EXCEPT ![t] = cstack[t]]
      BY <2>1, <2>2 DEF CoroInv, Types
    <3> QED BY <3>1, <3>2, <3>3
  <2>11. TidyInv' /\ ParamInv' /\ Model!SetCalls(c, CallsOf(q)) /\ Model!NoSwitch
    BY <2>1, <2>2, <2>9, <2>10, KeepsShown
  <2>12. Model!RaiseAfter(t, c, 2, Exc)
    BY <1>3, <2>3, <2>5, <2>6, <2>8, <2>11 DEF Model!RaiseAfter, Model!NoSwitch
  <2>13. Model!InkStep(t, c)
    BY <1>1, <2>12 DEF Model!InkStep
  <2>14. ModelStep
    BY <1>1, <2>13, InkModel
  <2> QED BY <2>11, <2>14 DEF Shows
<1> QED BY <1>2, <1>3

(***************************************************************************)
(* Coroutines are made, resumed, handed to a thread.                       *)
(***************************************************************************)
LEMMA InvNext ==
  ASSUME \A e \in Coro : Lives(co'[e]) => Tidy(co'[e]),
         \A e \in Coro : OnStack(e)' /\ ~ co'[e].spawned => co'[e].param = "no"
  PROVE  TidyInv' /\ ParamInv'
<1>1. TidyInv'
  BY DEF TidyInv, Lives, Tidy, CallAt
<1>2. ParamInv'
  BY DEF ParamInv
<1> QED BY <1>1, <1>2

(* The C stacks and the exception stay.                                    *)
LEMMA SameStacks ==
  ASSUME cstack' = cstack, except' = except
  PROVE  /\ \A c : OnStack(c)' <=> OnStack(c)
         /\ ShownChain' = ShownChain
         /\ ShownExcept' = ShownExcept /\ ShownFailing' = ShownFailing
<1>1. \A c : OnStack(c)' <=> OnStack(c)
  BY DEF OnStack
<1>2. \A u \in Thread : Unwinding(u)' <=> Unwinding(u)
  BY DEF Unwinding, Active
<1>3. ShownExcept' = ShownExcept /\ ShownFailing' = ShownFailing
  BY <1>2 DEF ShownExcept, ShownFailing, Somewhere
<1>4. ShownChain' = ShownChain
  BY StateShown
<1> QED BY <1>1, <1>3, <1>4

(* The value at the top of the running call, and the call without it.      *)
LEMMA TopTaken ==
  ASSUME NestInv, NEW t \in Thread, Ink(t), Avail(Current(t)) >= 1
  PROVE  LET r == Current(t)  c == Active(t).co  p == Drop(Current(t), 1)
         IN  /\ Good(p) /\ GoesOn(p, r)
             /\ CallsOf(p) = Model!WithVals(ShownCalls[c], Model!Keep(c, 1))
             /\ TopOf(r) = Model!Last(Model!Vals(c)) /\ TopOf(r) \in Values /\ TopOf(r) # Nil
             /\ Model!Vals(c) # <<>> /\ Len(Model!Vals(c)) = Avail(r)
<1> DEFINE r == Current(t)
           c == Active(t).co
           p == Drop(r, 1)
<1>1. /\ Good(r) /\ r.alive /\ Tidy(r) /\ ShownCalls[c] = CallsOf(r)
      /\ Model!Vals(c) = TopVals(r) /\ Avail(r) = Len(TopVals(r)) /\ Avail(r) \in Nat
      /\ (TopVals(r) = <<>> <=> Avail(r) = 0)
  BY InkShown
<1>2. 1 \in 0..Avail(r) /\ Avail(r) # 0 /\ Avail(r) >= 1
  BY <1>1
<1>3. /\ Good(p) /\ Steady(p, r) /\ Alike(p, r)
      /\ CallsOf(p) = Model!WithVals(CallsOf(r), SubSeq(TopVals(r), 1, Avail(r) - 1))
  BY <1>1, <1>2, DropView, DropGood
<1>4. TopOf(r) = Last(TopVals(r)) /\ TopOf(r) \in Values
  BY <1>1, <1>2, TopOfView
<1>5. CallsOf(p) = Model!WithVals(ShownCalls[c], Model!Keep(c, 1))
  BY <1>1, <1>3 DEF Model!Keep
<1> HIDE DEF p, r
<1>6. GoesOn(p, r)
  BY <1>1, <1>3, SteadyGoesOn
<1>7. TopOf(r) # Nil
  BY <1>4, ValuesAreNotNil
<1> QED BY <1>1, <1>2, <1>3, <1>4, <1>5, <1>6, <1>7, SameEnds DEF p, r

(* Fork: a new coroutine with one call and no values.                      *)
LEMMA ForkShown ==
  ASSUME NestInv, NEW t \in Thread, Fork(t)
  PROVE  Shows
<1> DEFINE r == Current(t)
           c == Active(t).co
           v == TopOf(r)
           p == Drop(r, 1)
           q == Push(p, v)
<1>1. Ink(t) /\ Avail(r) >= 1
  BY DEF Fork
<1>2. CASE Raised(t, p, Exc)
  <2>1. 1 \in 1..2
    OBVIOUS
  <2> QED BY <1>1, <1>2, <2>1, ExcRaised
<1>3. CASE ~ Raised(t, p, Exc)
  <2>1. PICK d \in Coro, param \in {"bind", "drop"} :
          /\ co[d] = Nil
          /\ co' = [co EXCEPT ![d] = Root(param), ![c] = Push(Drop(@, 1), TopOf(r))]
          /\ UNCHANGED <<cstack, start, except>>
    BY <1>3 DEF Fork
  <2>2. /\ CoroInv /\ c \in Coro /\ co[c] = r /\ ShownCalls[c] = CallsOf(r) /\ r.alive /\ Good(r)
        /\ cstack[t] # <<>>
    BY <1>1, InkShown
  <2>3. /\ Good(p) /\ GoesOn(p, r) /\ CallsOf(p) = Model!WithVals(ShownCalls[c], Model!Keep(c, 1))
        /\ v = Model!Last(Model!Vals(c)) /\ v \in Values /\ Model!Vals(c) # <<>>
    BY <1>1, TopTaken
  <2>4. OnStack(c)
    BY <2>2, ActiveFacts
  <2>5. d # c
    BY <2>1, <2>2, NilAssumption DEF Good
  <2>6. co' = [co EXCEPT ![d] = Root(param), ![c] = q]
    BY <2>1, <2>2, <2>5
  <2> HIDE DEF p, v
  <2>7. Good(q) /\ Steady(q, p) /\ Alike(q, p) /\ CallsOf(q) = Model!PushOn(CallsOf(p), v)
    BY <2>3, PushView, PushGood
  <2> HIDE DEF q
  <2>8. GoesOn(q, r) /\ q \in CoroSet /\ q # Nil
    <3>1. GoesOn(q, p)
      BY <2>3, <2>7, SteadyGoesOn DEF GoesOn
    <3>2. GoesOn(q, r)
      BY <2>3, <3>1, GoesOnTwice
    <3> QED BY <2>7, <3>2, NilAssumption DEF Good
  <2> DEFINE o == Root(param)
  <2>9. Good(o) /\ o.param = param /\ Tidy(o) /\ CallsOf(o) = <<Model!Frame(FALSE, <<>>, <<>>)>> /\ o.alive /\ ~ o.spawned
    <3>1. param \in {"no", "bind", "drop"}
      BY <2>1
    <3> QED BY <3>1, RootView, RootGood
  <2>10. o # Nil
    BY <2>9, NilAssumption DEF Good
  <2>11. co'[c] = q /\ co'[d] = o /\ \A e \in Coro : e # c /\ e # d => co'[e] = co[e]
    BY <2>2, <2>5, <2>6 DEF CoroInv, Types
  <2> HIDE DEF o
  <2>12. ~ OnStack(d)
    <3>1. \A u \in Thread : ~ On(cstack[u], d)
      BY <2>1, <2>2, OnIsAlive DEF Lives
    <3> QED BY <2>2, <3>1, OnStackIs
  <2>13. /\ (\A e : OnStack(e)' <=> OnStack(e)) /\ ShownChain' = ShownChain
         /\ ShownExcept' = ShownExcept /\ ShownFailing' = ShownFailing
    BY <2>1, SameStacks
  <2>14. TidyInv' /\ ParamInv'
    <3>1. \A e \in Coro : Lives(co'[e]) => Tidy(co'[e])
      BY <2>8, <2>9, <2>11 DEF GoesOn, NestInv, TidyInv
    <3>2. \A e \in Coro : OnStack(e)' /\ ~ co'[e].spawned => co'[e].param = "no"
      <4> SUFFICES ASSUME NEW e \in Coro, OnStack(e), ~ co'[e].spawned
                   PROVE  co'[e].param = "no"
        BY <2>13
      <4>1. CASE e = c
        BY <2>2, <2>4, <2>8, <2>11, <4>1 DEF GoesOn, NestInv, ParamInv
      <4>2. CASE e # c
        BY <2>11, <2>12, <4>2 DEF NestInv, ParamInv
      <4> QED BY <4>1, <4>2
    <3> QED BY <3>1, <3>2, InvNext
  <2> HIDE DEF r, c
  <2>15. ShownCalls' = [ShownCalls EXCEPT ![c] = CallsOf(q), ![d] = CallsOf(o)]
    <3>1. \A e \in Coro : View(co'[e]) = IF e = d THEN CallsOf(o) ELSE IF e = c THEN CallsOf(q) ELSE View(co[e])
      BY <2>5, <2>8, <2>9, <2>10, <2>11 DEF View, GoesOn
    <3> QED BY <2>2, <2>5, <3>1, StateShown
  <2>16. ShownFresh' = [ShownFresh EXCEPT ![d] = param]
    <3>1. \A e \in Coro : FreshOf(co'[e], OnStack(e)') = IF e = d THEN param ELSE FreshOf(co[e], OnStack(e))
      BY <2>4, <2>9, <2>10, <2>11, <2>12, <2>13 DEF FreshOf
    <3> QED BY <3>1, StateShown
  <2>17. ShownCalls[d] = Nil
    BY <2>1, StateShown DEF View
  <2>18. CallsOf(q) = Model!PushOn(Model!WithVals(ShownCalls[c], Model!Keep(c, 1)), Model!Last(Model!Vals(c)))
    BY <2>3, <2>7
  <2>19. Model!Fork(c, d, param)
    BY <2>1, <2>3, <2>9, <2>13, <2>15, <2>16, <2>17, <2>18 DEF Model!Fork
  <2>20. Model!InkStep(t, c)
    BY <2>19 DEF Model!InkStep
  <2>21. ModelStep
    BY <1>1, <2>20, InkModel DEF c
  <2> QED BY <2>14, <2>21 DEF Shows
<1> QED BY <1>2, <1>3

(* A coroutine that nobody runs may be resumed.                            *)
LEMMA MayResume ==
  ASSUME CoroInv, NEW d \in Coro, CanResume(co[d]), ~ OnStack(d)
  PROVE  /\ Model!CanResume(d) /\ ShownCalls[d] = CallsOf(co[d])
         /\ ShownFresh[d] = co[d].param
<1>1. Good(co[d]) /\ Lives(co[d]) /\ co[d].alive /\ ~ co[d].spawned /\ \A u \in Thread : ~ On(cstack[u], d)
  BY ResumableIsOff
<1>2. ShownCalls[d] = CallsOf(co[d]) /\ ShownFresh[d] = co[d].param
  BY <1>1, StateShown DEF View, FreshOf, Lives
<1>3. ShownCalls[d] \notin {Nil, <<>>}
  <2>1. CallsOf(co[d]) \in Seq(ShownCall) /\ CallsOf(co[d]) # <<>>
    BY <1>1, ViewParts DEF Parts
  <2> QED BY <1>2, <2>1, NilAssumption
<1>4. \A u \in Thread : start[u] # d
  <2>1. d # Nil
    BY CoroAssumption
  <2> QED BY <1>1, <2>1 DEF CoroInv, Starts
<1>5. \A u \in Thread : \A i \in DOMAIN ShownChain[u] : ShownChain[u][i].co # d
  <2> SUFFICES ASSUME NEW u \in Thread
               PROVE  \A i \in DOMAIN ShownChain[u] : ShownChain[u][i].co # d
    OBVIOUS
  <2>1. ShownChain[u] = LoopsOf(cstack[u]) /\ cstack[u] \in Stacks
    BY StateShown DEF CoroInv, Types
  <2>2. LoopsOf(cstack[u]) \in Seq(LinkSet) /\ \A i \in 1..Len(LoopsOf(cstack[u])) : On(cstack[u], LoopsOf(cstack[u])[i].co)
    BY <2>1, LoopsOn
  <2> QED BY <1>1, <2>1, <2>2
<1>6. ~ Model!Running(d)
  BY <1>4, <1>5 DEF Model!Running
<1> QED BY <1>2, <1>3, <1>6 DEF Model!CanResume

(* What a resumed coroutine shows: the value delivered to it.              *)
LEMMA DeliveredIs ==
  ASSUME CoroInv, NEW d \in Coro, CanResume(co[d]), ~ OnStack(d), NEW v \in Values
  PROVE  CallsOf(Execute(co[d], v)) = Model!Delivered(d, v)
<1> DEFINE r == co[d]
<1>1. ShownCalls[d] = CallsOf(r) /\ ShownFresh[d] = r.param
  BY MayResume
<1>2. Good(r)
  BY ResumableIsOff
<1>3. v # Nil /\ v \in Values \cup {Nil}
  BY ValuesAreNotNil
<1> HIDE DEF r
<1>4. CallsOf(Execute(r, v)) = IF v = Nil THEN CallsOf(r)
                               ELSE IF r.param = "no" THEN Model!PushOn(CallsOf(r), v)
                               ELSE IF r.param = "bind"
                               THEN Append(LowCalls(r), [Last(CallsOf(r)) EXCEPT !.args = <<v>>])
                               ELSE CallsOf(r)
  BY <1>2, <1>3, ExecuteView
<1>5. Front(CallsOf(r)) = LowCalls(r)
  BY <1>2, ViewParts DEF Parts
<1>6. Model!WithInner(ShownCalls[d], [Model!Inner(d) EXCEPT !.args = <<v>>])
        = Append(LowCalls(r), [Last(CallsOf(r)) EXCEPT !.args = <<v>>])
  BY <1>1, <1>5, SameEnds DEF Model!WithInner, Model!Inner
<1> QED BY <1>1, <1>3, <1>4, <1>6 DEF Model!Delivered, r

(* The loop of a resumed coroutine.                                        *)
LEMMA LoopShown ==
  ASSUME NEW d \in Coro, NEW trap \in BOOLEAN
  PROVE  LET a == Loop(d, trap)
         IN  a \in Activation /\ a.co = d /\ ~ a.native /\ ~ a.failing /\ Shown(a) = Model!Link(d, trap)
BY DEF Loop, Activation, Shown, Model!Link

(* Resume: the loop of the other coroutine on top of the C stack.          *)
LEMMA ResumeShown ==
  ASSUME NestInv, NEW t \in Thread, Resume(t), "reenter" \notin Quirks
  PROVE  Shows
<1> DEFINE r == Current(t)
           c == Active(t).co
           v == TopOf(r)
           p == Drop(r, 1)
           s == cstack[t]
<1>1. Ink(t) /\ Avail(r) >= 2
  BY DEF Resume
<1>2. /\ CoroInv /\ s # <<>> /\ NoneFailing /\ c \in Coro /\ co[c] = r /\ ShownCalls[c] = CallsOf(r)
      /\ r.alive /\ Good(r) /\ Avail(r) \in Nat
  BY <1>1, InkShown
<1>3. Avail(r) >= 1
  BY <1>1, <1>2
<1>4. CASE Raised(t, p, Exc)
  <2>1. 1 \in 1..2
    OBVIOUS
  <2> QED BY <1>1, <1>3, <1>4, <2>1, ExcRaised
<1>5. CASE ~ Raised(t, p, Exc)
  <2>1. PICK d \in Coro :
          /\ CanResume(co[d])
          /\ OnStack(d) => co[d].active
          /\ co' = [co EXCEPT ![c] = p, ![d] = Execute(IF d = c THEN p ELSE @, v)]
          /\ cstack' = [cstack EXCEPT ![t] = Append(@, Loop(d, TRUE))]
          /\ UNCHANGED <<start, except>>
    BY <1>5 DEF Resume, Resumable
  <2>2. ~ OnStack(d)
    BY <2>1 DEF CanResume
  <2>3. OnStack(c) /\ s \in Stacks
    BY <1>2, ActiveFacts
  <2>4. d # c
    BY <2>2, <2>3
  <2> DEFINE o == Execute(co[d], v)
             a == Loop(d, TRUE)
             s2 == Append(s, a)
  <2>5. co'[c] = p /\ co'[d] = o /\ \A e \in Coro : e # c /\ e # d => co'[e] = co[e]
    BY <1>2, <2>1, <2>4 DEF CoroInv, Types
  <2>6. /\ Good(p) /\ GoesOn(p, r) /\ CallsOf(p) = Model!WithVals(ShownCalls[c], Model!Keep(c, 1))
        /\ v = Model!Last(Model!Vals(c)) /\ v \in Values /\ v # Nil /\ Len(Model!Vals(c)) = Avail(r)
    BY <1>1, <1>3, TopTaken
  <2>7. Good(co[d]) /\ Lives(co[d]) /\ co[d].alive /\ ~ co[d].spawned
    BY <1>2, <2>1, <2>2, ResumableIsOff
  <2>8. Tidy(co[d])
    BY <2>7 DEF NestInv, TidyInv
  <2>9. Model!CanResume(d)
    BY <1>2, <2>1, <2>2, MayResume
  <2>10. CallsOf(o) = Model!Delivered(d, v)
    BY <1>2, <2>1, <2>2, <2>6, DeliveredIs
  <2>11. cstack' = [cstack EXCEPT ![t] = s2]
    BY <2>1
  <2> HIDE DEF p, v
  <2>12. Good(o) /\ o.alive /\ ~ o.spawned /\ Tidy(o) /\ o.param = "no"
    <3>1. v \in Values \cup {Nil}
      BY <2>6
    <3>2. Good(o) /\ Alike(o, co[d])
      BY <2>7, <3>1, ExecuteGood
    <3>3. (Tidy(co[d]) => Tidy(o)) /\ o.param = IF v = Nil THEN co[d].param ELSE "no"
      BY <2>7, <3>1, ExecuteView
    <3> QED BY <2>6, <2>7, <2>8, <3>2, <3>3 DEF Alike
  <2>13. a \in Activation /\ a.co = d /\ ~ a.native /\ ~ a.failing /\ Shown(a) = Model!Link(d, TRUE)
    <3>1. TRUE \in BOOLEAN
      OBVIOUS
    <3> QED BY <3>1, LoopShown
  <2> HIDE DEF o, a, s
  <2>14. s2 \in Stacks /\ (\A e : On(s2, e) <=> On(s, e) \/ e = d) /\ ~ FailsAt(s2)
    <3>1. s2 \in Stacks
      BY <2>3, <2>13, OneMore
    <3>2. (\A e : On(s2, e) <=> On(s, e) \/ e = a.co) /\ (FailsAt(s2) <=> a.failing)
      BY <2>3, <2>13, AppendedOn
    <3> QED BY <2>13, <3>1, <3>2
  <2>15. LoopsOf(s2) = Append(LoopsOf(s), Model!Link(d, TRUE))
    <3>1. LoopsOf(s2) = IF a.native THEN LoopsOf(s) ELSE Append(LoopsOf(s), Shown(a))
      BY <2>3, <2>13, LoopsMore
    <3> QED BY <2>13, <3>1
  <2> HIDE DEF s2
  <2>16. \A e : OnStack(e)' <=> OnStack(e) \/ e = d
    <3>1. \A e : OnStack(e)' <=> On(s2, e) \/ \E u \in Thread : u # t /\ On(cstack[u], e)
      BY <1>2, <2>11, <2>14, OnNext
    <3>2. \A e : OnStack(e) <=> \E u \in Thread : On(cstack[u], e)
      BY <1>2, OnStackIs
    <3> QED BY <2>14, <3>1, <3>2 DEF s
  <2> HIDE DEF r, c
  <2>17. p \in CoroSet /\ p # Nil /\ o # Nil
    BY <2>6, <2>12, NilAssumption DEF Good
  <2>18. TidyInv' /\ ParamInv'
    <3>1. \A e \in Coro : Lives(co'[e]) => Tidy(co'[e])
      BY <2>5, <2>6, <2>12 DEF GoesOn, NestInv, TidyInv
    <3>2. \A e \in Coro : OnStack(e)' /\ ~ co'[e].spawned => co'[e].param = "no"
      <4> SUFFICES ASSUME NEW e \in Coro, OnStack(e) \/ e = d, ~ co'[e].spawned
                   PROVE  co'[e].param = "no"
        BY <2>16
      <4>1. CASE e = d
        BY <2>5, <2>12, <4>1
      <4>2. CASE e = c
        BY <1>2, <2>3, <2>5, <2>6, <4>2 DEF GoesOn, NestInv, ParamInv
      <4>3. CASE e # c /\ e # d
        BY <2>5, <4>3 DEF NestInv, ParamInv
      <4> QED BY <4>1, <4>2, <4>3
    <3> QED BY <3>1, <3>2, InvNext
  <2>19. ShownCalls' = [ShownCalls EXCEPT ![c] = CallsOf(p), ![d] = CallsOf(o)]
    <3>1. \A e \in Coro : View(co'[e]) = IF e = d THEN CallsOf(o) ELSE IF e = c THEN CallsOf(p) ELSE View(co[e])
      BY <2>4, <2>5, <2>6, <2>12, <2>17 DEF View, GoesOn
    <3> QED BY <1>2, <2>4, <3>1, StateShown
  <2>20. ShownFresh' = [ShownFresh EXCEPT ![d] = "no"]
    <3>1. \A e \in Coro : FreshOf(co'[e], OnStack(e)') = IF e = d THEN "no" ELSE FreshOf(co[e], OnStack(e))
      BY <2>3, <2>5, <2>16 DEF FreshOf
    <3> QED BY <3>1, StateShown
  <2>21. ShownChain' = [ShownChain EXCEPT ![t] = Append(@, Model!Link(d, TRUE))]
    <3>1. \A u \in Thread : cstack'[u] = IF u = t THEN s2 ELSE cstack[u]
      BY <1>2, <2>11 DEF CoroInv, Types
    <3> QED BY <2>15, <3>1, StateShown DEF s
  <2>22. ShownExcept' = ShownExcept /\ ShownFailing' = ShownFailing
    <3>1. ShownExcept = Nil /\ ShownFailing = Nil
      BY <1>2, ExceptNow
    <3>2. ShownExcept' = Nil /\ ShownFailing' = Nil
      BY <1>2, <2>11, <2>14, ExceptNext
    <3> QED BY <3>1, <3>2
  <2>23. ShownCalls' = [ShownCalls EXCEPT ![c] = Model!WithVals(@, Model!Keep(c, 1)),
                                          ![d] = Model!Delivered(d, Model!Last(Model!Vals(c)))]
    BY <2>6, <2>10, <2>19
  <2>24. Len(Model!Vals(c)) >= 2
    BY <1>1, <2>6
  <2>25. Model!Resume(t, c, d)
    BY <2>1, <2>9, <2>20, <2>21, <2>22, <2>23, <2>24 DEF Model!Resume
  <2>26. Model!InkStep(t, c)
    BY <2>25 DEF Model!InkStep
  <2>27. ModelStep
    BY <1>1, <2>26, InkModel DEF c
  <2> QED BY <2>18, <2>27 DEF Shows
<1> QED BY <1>4, <1>5

(* ThreadStart: a spawned coroutine on an empty C stack.                   *)
LEMMA ThreadStartShown ==
  ASSUME NestInv, NEW u \in Thread, ThreadStart(u)
  PROVE  Shows
<1> DEFINE d == start[u]
           o == Execute(co[d], Nil)
           a == Loop(d, TRUE)
           s2 == <<a>>
<1>1. /\ d # Nil /\ NoneFailing /\ co' = [co EXCEPT ![d] = Execute(@, Nil)]
      /\ cstack' = [cstack EXCEPT ![u] = s2] /\ start' = [start EXCEPT ![u] = Nil] /\ except' = except
  BY DEF ThreadStart
<1>2. CoroInv
  BY DEF NestInv
<1>3. d \in Coro /\ Lives(co[d]) /\ co[d].spawned /\ ~ OnStack(d) /\ cstack[u] = <<>>
  BY <1>1, <1>2 DEF CoroInv, Starts, Types
<1>4. Good(co[d]) /\ Tidy(co[d]) /\ co[d].alive
  BY <1>2, <1>3 DEF CoroInv, Idle, NestInv, TidyInv, Lives
<1>5. co'[d] = o /\ \A e \in Coro : e # d => co'[e] = co[e]
  BY <1>1, <1>2, <1>3 DEF CoroInv, Types
<1>6. a \in Activation /\ a.co = d /\ ~ a.native /\ ~ a.failing /\ Shown(a) = Model!Link(d, TRUE)
  <2>1. TRUE \in BOOLEAN
    OBVIOUS
  <2> QED BY <1>3, <2>1, LoopShown
<1> HIDE DEF d
<1>7. Good(o) /\ o.alive /\ o.spawned /\ Tidy(o) /\ CallsOf(o) = CallsOf(co[d])
  <2>1. Nil \in Values \cup {Nil}
    OBVIOUS
  <2>2. Good(o) /\ Alike(o, co[d])
    BY <1>4, <2>1, ExecuteGood
  <2>3. (Tidy(co[d]) => Tidy(o)) /\ CallsOf(o) = IF Nil = Nil THEN CallsOf(co[d]) ELSE CallsOf(o)
    BY <1>4, <2>1, ExecuteView
  <2> QED BY <1>3, <1>4, <2>2, <2>3 DEF Alike
<1> HIDE DEF o, a
<1>8. s2 \in Stacks /\ (\A e : On(s2, e) <=> e = d) /\ ~ FailsAt(s2) /\ LoopsOf(s2) = <<Model!Link(d, TRUE)>>
  <2>1. <<>> \in Stacks /\ s2 = Append(<<>>, a) /\ Len(<<>>) = 0 /\ 1..0 = {}
    BY DEF Stacks
  <2>2. s2 \in Stacks
    BY <1>6, <2>1, OneMore
  <2>3. (\A e : On(s2, e) <=> On(<<>>, e) \/ e = a.co) /\ (FailsAt(s2) <=> a.failing)
    BY <1>6, <2>1, AppendedOn
  <2>4. \A e : ~ On(<<>>, e)
    BY <2>1 DEF On
  <2>5. LoopsOf(s2) = IF a.native THEN LoopsOf(<<>>) ELSE Append(LoopsOf(<<>>), Shown(a))
    BY <1>6, <2>1, LoopsMore
  <2>6. Append(<<>>, Shown(a)) = <<Shown(a)>>
    OBVIOUS
  <2> QED BY <1>6, <2>2, <2>3, <2>4, <2>5, <2>6, NoLoops
<1> HIDE DEF s2
<1>9. \A e : OnStack(e)' <=> OnStack(e) \/ e = d
  <2>1. \A e : OnStack(e)' <=> On(s2, e) \/ \E x \in Thread : x # u /\ On(cstack[x], e)
    BY <1>1, <1>2, <1>8, OnNext
  <2>2. \A e : OnStack(e) <=> \E x \in Thread : On(cstack[x], e)
    BY <1>2, OnStackIs
  <2>3. \A e : ~ On(cstack[u], e)
    <3>1. Len(<<>>) = 0 /\ 1..0 = {}
      OBVIOUS
    <3> QED BY <1>3, <3>1 DEF On
  <2> QED BY <1>8, <2>1, <2>2, <2>3
<1>10. TidyInv' /\ ParamInv'
  <2>1. \A e \in Coro : Lives(co'[e]) => Tidy(co'[e])
    BY <1>5, <1>7 DEF NestInv, TidyInv
  <2>2. \A e \in Coro : OnStack(e)' /\ ~ co'[e].spawned => co'[e].param = "no"
    BY <1>5, <1>7, <1>9 DEF NestInv, ParamInv
  <2> QED BY <2>1, <2>2, InvNext
<1>11. ShownCalls' = ShownCalls
  <2>1. o # Nil /\ co[d] # Nil
    BY <1>4, <1>7, NilAssumption DEF Good
  <2>2. \A e \in Coro : View(co'[e]) = View(co[e])
    BY <1>4, <1>5, <1>7, <2>1 DEF View
  <2> QED BY <2>2, StateShown
<1>12. ShownFresh' = [ShownFresh EXCEPT ![d] = "no"]
  <2>1. \A e \in Coro : FreshOf(co'[e], OnStack(e)') = IF e = d THEN "no" ELSE FreshOf(co[e], OnStack(e))
    BY <1>5, <1>9 DEF FreshOf
  <2> QED BY <2>1, StateShown
<1>13. ShownChain' = [ShownChain EXCEPT ![u] = <<Model!Link(d, TRUE)>>]
  <2>1. \A x \in Thread : cstack'[x] = IF x = u THEN s2 ELSE cstack[x]
    BY <1>1, <1>2 DEF CoroInv, Types
  <2> QED BY <1>8, <2>1, StateShown
<1>14. /\ ShownExcept = Nil /\ ShownFailing = Nil
       /\ ShownExcept' = Nil /\ ShownFailing' = Nil
  <2>1. ShownExcept = Nil /\ ShownFailing = Nil
    BY <1>1, <1>2, ExceptNow
  <2>2. ShownExcept' = Nil /\ ShownFailing' = Nil
    BY <1>1, <1>2, <1>8, ExceptNext
  <2> QED BY <2>1, <2>2
<1>15. Model!ThreadStart(u)
  BY <1>1, <1>11, <1>12, <1>13, <1>14 DEF Model!ThreadStart, d
<1> QED BY <1>10, <1>15 DEF Shows, ModelStep, Model!Next

(* A step of a native function that keeps the C stack.                     *)
LEMMA NativeShown ==
  ASSUME NestInv, NEW t \in Thread, cstack[t] # <<>>, Active(t).native
  PROVE  LET r == Current(t)  c == Active(t).co
         IN  /\ CoroInv /\ c \in Coro /\ co[c] = r /\ Good(r) /\ r.alive /\ Tidy(r)
             /\ r.runtime.native /\ r.frames # <<>> /\ ShownCalls[c] = CallsOf(r)
             /\ Chain(cstack[t], co) /\ cstack[t] \in Stacks /\ Active(t) = Last(cstack[t])
<1>1. /\ CoroInv /\ Chain(cstack[t], co) /\ cstack[t] \in Stacks
      /\ Active(t) = Last(cstack[t]) /\ Current(t) = co[Last(cstack[t]).co]
  BY ActiveFacts DEF NestInv
<1>2. Current(t).runtime.native /\ Current(t).frames # <<>>
  BY <1>1, NativeEnds
<1> QED BY <1>1, <1>2, TopShown

(* Spawn: a coroutine that a thread will run gets its argument.            *)
LEMMA SpawnShown ==
  ASSUME NestInv, NEW t \in Thread, Spawn(t), "reenter" \notin Quirks, "spawn" \notin Quirks
  PROVE  Shows
<1>1. PICK d \in Coro, u \in Thread \ {MainThread}, arg \in Arg \cup {Nil} :
         /\ Native(t)
         /\ CanResume(co[d]) /\ cstack[u] = <<>> /\ start[u] = Nil
         /\ OnStack(d) => co[d].active
         /\ arg # Nil => co[d].param = "no"
         /\ co' = [co EXCEPT ![d] = [IF arg = Nil THEN @ ELSE Push(@, arg) EXCEPT !.spawned = TRUE]]
         /\ start' = [start EXCEPT ![u] = d]
         /\ cstack' = cstack /\ except' = except
  BY DEF Spawn
<1> DEFINE r == co[d]
           p == IF arg = Nil THEN r ELSE Push(r, arg)
           q == [p EXCEPT !.spawned = TRUE]
<1>2. CoroInv
  BY DEF NestInv
<1>3. ~ OnStack(d)
  BY <1>1 DEF CanResume
<1>4. Good(r) /\ Lives(r) /\ r.alive
  BY <1>1, <1>2, <1>3, ResumableIsOff
<1>5. Tidy(r)
  BY <1>4 DEF NestInv, TidyInv
<1>6. co'[d] = q /\ \A e \in Coro : e # d => co'[e] = co[e]
  BY <1>1, <1>2 DEF CoroInv, Types
<1>7. Model!CanResume(d) /\ ShownCalls[d] = CallsOf(r) /\ ShownFresh[d] = r.param
  BY <1>1, <1>2, <1>3, MayResume
<1>8. arg # Nil => arg \in Values
  BY ArgValues
<1> HIDE DEF r
<1>9. /\ Good(p) /\ p.alive /\ Tidy(p) /\ p.param = r.param
      /\ CallsOf(p) = IF arg = Nil THEN CallsOf(r) ELSE Model!PushOn(CallsOf(r), arg)
  <2>1. CASE arg = Nil
    BY <1>4, <1>5, <2>1
  <2>2. CASE arg # Nil
    <3> DEFINE x == Push(r, arg)
    <3>1. Good(x) /\ CallsOf(x) = Model!PushOn(CallsOf(r), arg) /\ Steady(x, r) /\ Alike(x, r)
      BY <1>4, <1>8, <2>2, PushView, PushGood
    <3>2. p = x
      BY <2>2
    <3> HIDE DEF x, p
    <3> QED BY <1>4, <1>5, <2>2, <3>1, <3>2 DEF Steady, Alike
  <2> QED BY <2>1, <2>2
<1> HIDE DEF p
<1>10. p \in CoroSet
  BY <1>9 DEF Good
<1>11. /\ q \in CoroSet /\ q.bottom = p.bottom /\ q.size = p.size /\ q.mem = p.mem
       /\ q.runtime = p.runtime /\ q.frames = p.frames /\ q.blocks = p.blocks
       /\ q.alive = p.alive /\ q.spawned /\ q.param = p.param
  BY <1>10 DEF CoroSet
<1> HIDE DEF q
<1>12. Good(q) /\ CallsOf(q) = CallsOf(p) /\ Tidy(q) /\ q # Nil
  <2>1. Good(q) /\ CallsOf(q) = CallsOf(p) /\ (Tidy(p) => Tidy(q))
    BY <1>9, <1>11, FlagsView
  <2> QED BY <1>9, <1>11, <2>1, NilAssumption
<1>13. /\ (\A e : OnStack(e)' <=> OnStack(e)) /\ ShownChain' = ShownChain
       /\ ShownExcept' = ShownExcept /\ ShownFailing' = ShownFailing
  BY <1>1, SameStacks
<1>14. TidyInv' /\ ParamInv'
  <2>1. \A e \in Coro : Lives(co'[e]) => Tidy(co'[e])
    BY <1>6, <1>12 DEF NestInv, TidyInv
  <2>2. \A e \in Coro : OnStack(e)' /\ ~ co'[e].spawned => co'[e].param = "no"
    BY <1>3, <1>6, <1>13 DEF NestInv, ParamInv
  <2> QED BY <2>1, <2>2, InvNext
<1>15. ShownCalls' = [ShownCalls EXCEPT ![d] = CallsOf(q)]
  <2>1. \A e \in Coro : View(co'[e]) = IF e = d THEN CallsOf(q) ELSE View(co[e])
    BY <1>6, <1>9, <1>11, <1>12 DEF View
  <2> QED BY <2>1, StateShown
<1>16. ShownFresh' = ShownFresh
  <2>1. r # Nil
    BY <1>4 DEF Lives
  <2>2. \A e \in Coro : FreshOf(co'[e], OnStack(e)') = FreshOf(co[e], OnStack(e))
    BY <1>3, <1>4, <1>6, <1>9, <1>11, <1>12, <1>13, <2>1 DEF FreshOf, r
  <2> QED BY <2>2, StateShown
<1>17. CASE arg = Nil
  <2>1. ShownCalls' = ShownCalls
    <3>1. CallsOf(q) = ShownCalls[d]
      BY <1>7, <1>9, <1>12, <1>17
    <3> QED BY <1>15, <3>1 DEF ShownCalls
  <2>2. ShownChain[u] = <<>>
    BY <1>1, NoLoops, StateShown
  <2>3. Model!Spawn(u, d, arg)
    BY <1>1, <1>7, <1>13, <1>16, <1>17, <2>1, <2>2 DEF Model!Spawn
  <2>4. Model!NativeStep(t, Active(t).co)
    BY <2>3 DEF Model!NativeStep, Arg
  <2>5. ModelStep
    BY <1>1, <2>4, NativeModel
  <2> QED BY <1>14, <2>5 DEF Shows
<1>18. CASE arg # Nil
  <2>1. CallsOf(q) = Model!Delivered(d, arg)
    BY <1>1, <1>7, <1>9, <1>12, <1>18 DEF Model!Delivered, r
  <2>2. ShownChain[u] = <<>>
    BY <1>1, NoLoops, StateShown
  <2>3. ShownFresh' = [ShownFresh EXCEPT ![d] = "no"]
    <3>1. ShownFresh[d] = "no"
      BY <1>1, <1>7, <1>18 DEF r
    <3> QED BY <1>16, <3>1 DEF ShownFresh
  <2>4. Model!Spawn(u, d, arg)
    BY <1>1, <1>7, <1>13, <1>15, <1>18, <2>1, <2>2, <2>3 DEF Model!Spawn
  <2>5. Model!NativeStep(t, Active(t).co)
    BY <2>4 DEF Model!NativeStep, Arg
  <2>6. ModelStep
    BY <1>1, <2>5, NativeModel
  <2> QED BY <1>14, <2>6 DEF Shows
<1> QED BY <1>17, <1>18

(***************************************************************************)
(* Native code.                                                            *)
(***************************************************************************)
(* Native code that ivm_coro_call runs has been called by native code, and *)
(* no other.                                                               *)
LEMMA NativeDepth ==
  ASSUME NEW s, NEW K, Chain(s, K), s # <<>>, Last(s).native
  PROVE  LET r == K[Last(s).co]
         IN  Depth(r) - 1 \in Natives(r) <=> Last(s).byCall
<1> DEFINE n == Len(s)
           c == s[n].co
           r == K[c]
<1>1. PICK h : Held(s, K, h)
  BY ChainHeld
<1>2. /\ n \in Nat \ {0} /\ n \in 1..n /\ Last(s) = s[n] /\ Depth(r) \in Nat \ {0} /\ h[n] = Depth(r)
      /\ \A j \in 1..n : s[j].native /\ s[j].co = c => h[j] \in Natives(r)
      /\ \A k \in Natives(r) : Covered(s, h, c, Depth(r), k)
      /\ \A j \in 1..n - 1 : h[j] \in Nat /\ (s[j].co = c => h[j] < h[n])
  <2>1. LET nn == Len(s)  cc == s[nn].co  rr == K[cc]
        IN  /\ nn \in Nat \ {0} /\ nn \in 1..nn /\ Last(s) = s[nn] /\ Depth(rr) \in Nat \ {0}
            /\ s[nn].native => h[nn] = Depth(rr)
            /\ \A j \in 1..nn : s[j].native /\ s[j].co = cc => h[j] \in Natives(rr)
            /\ \A k \in Natives(rr) : Covered(s, h, cc, Depth(rr), k)
            /\ \A j \in 1..nn - 1 : h[j] \in Nat /\ (s[j].co = cc => h[j] < h[nn])
    BY <1>1, TopFacts
  <2> QED BY <2>1
<1>3. s[n].native
  BY <1>2
<1>4. /\ n - 1 \in 1..n - 1 /\ s[n - 1].co = c
      /\ s[n].byCall <=> s[n - 1].native
      /\ s[n - 1].native => h[n] = h[n - 1] + 1
  <2>1. LET nn == Len(s)  cc == s[nn].co  rr == K[cc]
        IN  /\ nn - 1 \in 1..nn - 1 /\ s[nn - 1].co = cc
            /\ s[nn].byCall <=> s[nn - 1].native
            /\ s[nn - 1].native => h[nn] = h[nn - 1] + 1
    BY <1>1, <1>3, NativeTop
  <2> QED BY <2>1
<1>5. \A i \in 1..n : \A k \in 1..i - 1 : s[k].co = s[i].co => h[k] < h[i]
  BY <1>1 DEF Held, Hosted, HostAt
<1>6. Last(s).byCall <=> s[n - 1].native
  BY <1>2, <1>4
<1> HIDE DEF r
<1>7. ASSUME s[n - 1].native
      PROVE  Depth(r) - 1 \in Natives(r)
  <2>1. n - 1 \in 1..n /\ h[n - 1] \in Nat
    BY <1>2, <1>4
  <2>2. h[n - 1] \in Natives(r)
    BY <1>2, <1>4, <1>7, <2>1
  <2>3. h[n - 1] = Depth(r) - 1
    BY <1>2, <1>4, <1>7, <2>1
  <2> QED BY <2>2, <2>3
<1>8. ASSUME ~ s[n - 1].native, Depth(r) - 1 \in Natives(r)
      PROVE  FALSE
  <2>1. PICK j \in 1..n : s[j].co = c /\ s[j].native /\ h[j] = Depth(r) - 1
    BY <1>2, <1>3, <1>8 DEF Covered
  <2>2. j # n
    <3>1. Depth(r) - 1 # Depth(r)
      BY <1>2
    <3> QED BY <1>2, <2>1, <3>1
  <2>3. j # n - 1
    BY <1>8, <2>1
  <2>4. j \in 1..(n - 1) - 1 /\ n - 1 \in 1..n /\ h[n - 1] \in Nat /\ h[j] \in Nat
    BY <1>2, <1>4, <2>2, <2>3
  <2>5. h[j] < h[n - 1]
    BY <1>4, <1>5, <2>1, <2>4
  <2>6. h[n - 1] < Depth(r)
    BY <1>2, <1>4
  <2> QED BY <1>2, <2>1, <2>4, <2>5, <2>6
<1> QED BY <1>2, <1>6, <1>7, <1>8 DEF r

(* A native call that has failed in the interpreter was no callback.       *)
LEMMA LoopDepth ==
  ASSUME NEW s, NEW K, Chain(s, K), s # <<>>, ~ Last(s).native,
         LET r == K[Last(s).co] IN Depth(r) - 1 \in Natives(r)
  PROVE  ~ K[Last(s).co].runtime.native
<1> DEFINE n == Len(s)
           c == s[n].co
           r == K[c]
<1>1. PICK h : Held(s, K, h)
  BY ChainHeld
<1>2. /\ n \in Nat \ {0} /\ n \in 1..n /\ Last(s) = s[n] /\ Depth(r) \in Nat \ {0} /\ h[n] \in 1..Depth(r)
      /\ Good(r)
      /\ \A k \in Natives(r) : Covered(s, h, c, Depth(r), k)
      /\ \A j \in 1..n - 1 : h[j] \in Nat /\ (s[j].co = c => h[j] < h[n])
  <2>1. LET nn == Len(s)  cc == s[nn].co  rr == K[cc]
        IN  /\ nn \in Nat \ {0} /\ nn \in 1..nn /\ Last(s) = s[nn] /\ Depth(rr) \in Nat \ {0}
            /\ h[nn] \in 1..Depth(rr) /\ Good(rr)
            /\ \A k \in Natives(rr) : Covered(s, h, cc, Depth(rr), k)
            /\ \A j \in 1..nn - 1 : h[j] \in Nat /\ (s[j].co = cc => h[j] < h[nn])
    BY <1>1, TopFacts
  <2> QED BY <2>1
<1>3. Depth(r) - 1 \in Natives(r) /\ ~ s[n].native /\ c = Last(s).co
  BY <1>2
<1> SUFFICES ASSUME r.runtime.native
             PROVE  FALSE
  BY <1>3
<1>4. Depth(r) \in Natives(r)
  BY <1>2, CallTypes DEF Good
<1> HIDE DEF r
<1>5. \A j \in 1..n : s[j].co = c /\ s[j].native => j \in 1..n - 1 /\ h[j] \in Nat /\ h[j] < h[n]
  <2>1. \A j \in 1..n : j = n \/ j \in 1..n - 1
    BY <1>2
  <2> QED BY <1>2, <1>3, <2>1
<1>6. h[n] < Depth(r)
  <2>1. CASE \E j \in 1..n : s[j].co = c /\ s[j].native /\ h[j] = Depth(r)
    BY <1>2, <1>5, <2>1
  <2> QED BY <1>2, <1>4, <2>1 DEF Covered
<1>7. PICK j \in 1..n : s[j].co = c /\ s[j].native /\ h[j] = Depth(r) - 1
  <2>1. Depth(r) - 1 # Depth(r)
    BY <1>2
  <2> QED BY <1>2, <1>3, <2>1 DEF Covered
<1> QED BY <1>2, <1>5, <1>6, <1>7

(* What is below the native function.                                      *)
LEMMA NativeBelow ==
  ASSUME NestInv, NEW t \in Thread, cstack[t] # <<>>, Active(t).native
  PROVE  LET s == cstack[t]  f == Front(s)
         IN  /\ f \in Stacks /\ f # <<>> /\ LoopsOf(f) = LoopsOf(s) /\ ~ FailsAt(f)
             /\ \A d : On(f, d) <=> On(s, d)
             /\ \A b \in BOOLEAN : LET s2 == Marked(f, b)
                                   IN  /\ s2 \in Stacks /\ LoopsOf(s2) = LoopsOf(s) /\ (FailsAt(s2) <=> b)
                                       /\ \A d : On(s2, d) <=> On(s, d)
<1> DEFINE s == cstack[t]
           f == Front(s)
<1>1. CoroInv /\ s \in Stacks /\ Active(t) = Last(s)
  BY NativeShown
<1>2. /\ Len(s) # 1 /\ s[Len(s) - 1].co = Last(s).co
      /\ \A j \in 1..Len(s) - 1 : ~ s[j].failing
  BY <1>1, NativeFacts
<1>3. LoopsOf(f) = LoopsOf(s)
  BY <1>1, LoopsTop
<1> HIDE DEF s, f
<1>4. s # <<>>
  BY DEF s
<1>5. \A d : On(f, d) <=> On(s, d)
  BY <1>1, <1>2, <1>4, FrontOn DEF f
<1>6. f \in Stacks /\ f # <<>> /\ ~ FailsAt(f)
  <2>1. LET m == Len(s) - 1 IN f \in Stacks /\ ~ FailsAt(f) /\ (m = 0 <=> f = <<>>)
    BY <1>1, <1>2, <1>4, FrontIs DEF f
  <2>2. Len(s) \in Nat
    BY <1>1, StackTypes
  <2> QED BY <1>2, <2>1, <2>2
<1>7. ASSUME NEW b \in BOOLEAN
      PROVE  LET s2 == Marked(f, b)
             IN  /\ s2 \in Stacks /\ LoopsOf(s2) = LoopsOf(s) /\ (FailsAt(s2) <=> b)
                 /\ \A d : On(s2, d) <=> On(s, d)
  <2> DEFINE s2 == Marked(f, b)
  <2>1. s2 \in Stacks /\ (\A d : On(s2, d) <=> On(f, d)) /\ (FailsAt(s2) <=> b)
    BY <1>6, MarkedIs
  <2>2. LoopsOf(s2) = LoopsOf(f)
    BY <1>6, LoopsMarked
  <2> QED BY <1>3, <1>5, <2>1, <2>2
<1> QED BY <1>3, <1>5, <1>6, <1>7 DEF s, f

(* The call by native code leaves what its caller had.                     *)
LEMMA CallLeaves ==
  ASSUME NEW r, Good(r), r.alive, Tidy(r), r.frames # <<>>
  PROVE  LET q == LeaveFrame(r)
         IN  /\ GoesOn(q, r) /\ CallsOf(q) = Front(CallsOf(r)) /\ Front(CallsOf(r)) # <<>>
             /\ Last(Front(CallsOf(r))).native = q.runtime.native
             /\ (Depth(r) - 1 \in Natives(r) <=> q.runtime.native)
             /\ q.runtime.native => q = PopFrame(r)
<1> DEFINE q == LeaveFrame(r)
<1>1. /\ Good(q) /\ Steady(q, r) /\ CallsOf(q) = LowCalls(r)
      /\ LowCalls(r) # <<>> /\ Last(LowCalls(r)).native = q.runtime.native
      /\ Tidy(r) /\ q.runtime.native => q = PopFrame(r)
  BY LeaveFrameView
<1>2. Alike(q, r) /\ (Depth(r) - 1 \in Natives(r) <=> q.runtime.native)
  BY LeaveFrameGood
<1>3. Front(CallsOf(r)) = LowCalls(r)
  BY ViewParts DEF Parts
<1> HIDE DEF q
<1>4. GoesOn(q, r)
  BY <1>1, <1>2, SteadyGoesOn
<1> QED BY <1>1, <1>2, <1>3, <1>4 DEF q

(* CallModel sees neither has_native nor active.                           *)
LEMMA SameFlags ==
  ASSUME NEW q, NEW r, GoesOn(q, r), NEW b \in BOOLEAN
  PROVE  /\ GoesOn([q EXCEPT !.hasNative = b], r) /\ CallsOf([q EXCEPT !.hasNative = b]) = CallsOf(q)
         /\ GoesOn([q EXCEPT !.active = b], r) /\ CallsOf([q EXCEPT !.active = b]) = CallsOf(q)
<1>1. Good(q) /\ q \in CoroSet /\ Tidy(q)
  BY DEF GoesOn, Good
<1>2. ASSUME NEW p \in CoroSet, p.bottom = q.bottom, p.size = q.size, p.mem = q.mem, p.runtime = q.runtime,
             p.frames = q.frames, p.blocks = q.blocks,
             p.alive = q.alive, p.spawned = q.spawned, p.param = q.param
      PROVE  GoesOn(p, r) /\ CallsOf(p) = CallsOf(q)
  <2>1. Good(p) /\ CallsOf(p) = CallsOf(q) /\ (Tidy(q) => Tidy(p))
    BY <1>1, <1>2, FlagsView
  <2> QED BY <1>1, <1>2, <2>1 DEF GoesOn
<1>3. LET p == [q EXCEPT !.hasNative = b]
      IN  /\ p \in CoroSet /\ p.bottom = q.bottom /\ p.size = q.size /\ p.mem = q.mem /\ p.runtime = q.runtime
          /\ p.frames = q.frames /\ p.blocks = q.blocks
          /\ p.alive = q.alive /\ p.spawned = q.spawned /\ p.param = q.param
  BY <1>1 DEF CoroSet
<1>4. LET p == [q EXCEPT !.active = b]
      IN  /\ p \in CoroSet /\ p.bottom = q.bottom /\ p.size = q.size /\ p.mem = q.mem /\ p.runtime = q.runtime
          /\ p.frames = q.frames /\ p.blocks = q.blocks
          /\ p.alive = q.alive /\ p.spawned = q.spawned /\ p.param = q.param
  BY <1>1 DEF CoroSet
<1>5. GoesOn([q EXCEPT !.hasNative = b], r) /\ CallsOf([q EXCEPT !.hasNative = b]) = CallsOf(q)
  BY <1>2, <1>3
<1>6. GoesOn([q EXCEPT !.active = b], r) /\ CallsOf([q EXCEPT !.active = b]) = CallsOf(q)
  BY <1>2, <1>4
<1> QED BY <1>5, <1>6

(* NativeReturn: the call goes and its value is pushed on the caller.      *)
LEMMA NativeReturnShown ==
  ASSUME NestInv, NEW t \in Thread, NativeReturn(t)
  PROVE  Shows
<1> DEFINE a == Active(t)
           r == Current(t)
           c == Active(t).co
           s == cstack[t]
           f == Front(s)
           p == LeaveFrame(r)
<1>1. /\ Native(t) /\ s # <<>> /\ Active(t).native /\ NoneFailing
      /\ cstack' = [cstack EXCEPT ![t] = f] /\ start' = start
  BY DEF NativeReturn, Native
<1>2. PICK v \in Arg : co' = [co EXCEPT ![c] = IF a.byCall THEN PopFrame(r)
                                               ELSE Push([LeaveFrame(r) EXCEPT !.hasNative = a.saved], v)]
  BY DEF NativeReturn
<1>3. /\ CoroInv /\ c \in Coro /\ co[c] = r /\ Good(r) /\ r.alive /\ Tidy(r)
      /\ r.runtime.native /\ r.frames # <<>> /\ ShownCalls[c] = CallsOf(r)
      /\ Chain(s, co) /\ s \in Stacks /\ a = Last(s)
  BY <1>1, NativeShown
<1>4. /\ f \in Stacks /\ LoopsOf(f) = LoopsOf(s) /\ ~ FailsAt(f)
      /\ \A d : On(f, d) <=> On(s, d)
  BY <1>1, NativeBelow
<1>5. /\ GoesOn(p, r) /\ CallsOf(p) = Front(CallsOf(r)) /\ Front(CallsOf(r)) # <<>>
      /\ Last(Front(CallsOf(r))).native = p.runtime.native
      /\ (Depth(r) - 1 \in Natives(r) <=> p.runtime.native)
      /\ p.runtime.native => p = PopFrame(r)
  BY <1>3, CallLeaves
<1>6. Depth(r) - 1 \in Natives(r) <=> a.byCall
  BY <1>1, <1>3, NativeDepth
<1>7. Model!Inner(c).native
  BY <1>1, <1>3, TopShown
<1> DEFINE q == IF a.byCall THEN p ELSE Push([p EXCEPT !.hasNative = a.saved], v)
<1>8. SetCoro(t, q)
  BY <1>2, <1>5, <1>6 DEF SetCoro
<1>9. /\ GoesOn(q, r)
      /\ CallsOf(q) = IF a.byCall THEN Front(CallsOf(r)) ELSE Model!PushOn(Front(CallsOf(r)), v)
  <2>1. CASE a.byCall
    BY <1>5, <2>1
  <2>2. CASE ~ a.byCall
    <3> DEFINE x == [p EXCEPT !.hasNative = a.saved]
               y == Push(x, v)
    <3>1. a.saved \in BOOLEAN /\ v \in Values
      <4>1. a \in Activation
        BY <1>1, <1>3, ActiveFacts
      <4> QED BY <4>1, ArgValues DEF Activation
    <3> HIDE DEF p, a
    <3>2. GoesOn(x, r) /\ CallsOf(x) = CallsOf(p)
      BY <1>5, <3>1, SameFlags
    <3> HIDE DEF x
    <3>3. Good(y) /\ CallsOf(y) = Model!PushOn(CallsOf(x), v) /\ Steady(y, x) /\ Alike(y, x)
      BY <3>1, <3>2, PushView, PushGood DEF GoesOn
    <3>4. GoesOn(y, x)
      BY <3>2, <3>3, SteadyGoesOn DEF GoesOn
    <3>5. GoesOn(y, r)
      BY <3>2, <3>4, GoesOnTwice
    <3>6. q = y
      BY <2>2 DEF x
    <3> QED BY <1>5, <2>2, <3>2, <3>3, <3>5, <3>6
  <2> QED BY <2>1, <2>2
<1> HIDE DEF q, p, f
<1>10. TidyInv' /\ ParamInv' /\ Model!SetCalls(c, CallsOf(q)) /\ Model!NoSwitch
  BY <1>1, <1>4, <1>8, <1>9, KeepsShown
<1>11. Model!Returned(t, c, v)
  <2>1. /\ Model!Front(ShownCalls[c]) = Front(CallsOf(r)) /\ Front(CallsOf(r)) # <<>>
        /\ Model!Last(Front(CallsOf(r))).native <=> a.byCall
    BY <1>3, <1>5, <1>6, SameEnds
  <2>2. ~ Model!CallsBack(c)
    BY <1>7 DEF Model!CallsBack
  <2>3. CallsOf(q) = IF Model!Last(Model!Front(ShownCalls[c])).native THEN Model!Front(ShownCalls[c])
                     ELSE Model!PushOn(Model!Front(ShownCalls[c]), v)
    BY <1>9, <2>1
  <2> QED BY <1>10, <2>1, <2>2, <2>3 DEF Model!Returned, Model!NoSwitch
<1>12. Model!NativeStep(t, c)
  BY <1>11 DEF Model!NativeStep, Arg
<1>13. ModelStep
  BY <1>1, <1>12, NativeModel
<1> QED BY <1>10, <1>13 DEF Shows

(* NativeFail: the exception of a native function.                         *)
LEMMA NativeFailShown ==
  ASSUME NestInv, NEW t \in Thread, NativeFail(t)
  PROVE  Shows
<1> DEFINE r == Current(t)
           c == Active(t).co
<1>1. /\ Native(t) /\ cstack[t] # <<>> /\ Active(t).native /\ NoneFailing
      /\ cstack' = [cstack EXCEPT ![t] = Marked(cstack[t], TRUE)]
      /\ co' = co /\ start' = start /\ except' = Exc
  BY DEF NativeFail, Native, Marked, Active
<1>2. /\ CoroInv /\ c \in Coro /\ co[c] = r /\ Good(r) /\ r.alive /\ Tidy(r) /\ ShownCalls[c] = CallsOf(r)
  BY <1>1, NativeShown
<1>3. SetCoro(t, r)
  BY <1>1, <1>2 DEF SetCoro, CoroInv, Types
<1>4. GoesOn(r, r) /\ TRUE \in BOOLEAN
  BY <1>2 DEF GoesOn
<1> HIDE DEF r, c
<1>5. /\ TidyInv' /\ ParamInv' /\ Model!SetCalls(c, CallsOf(r))
      /\ ShownFresh' = ShownFresh /\ ShownChain' = ShownChain
      /\ ShownExcept' = (IF TRUE THEN except' ELSE Nil) /\ ShownFailing' = (IF TRUE THEN t ELSE Nil)
  BY <1>1, <1>3, <1>4, MarkShown DEF r, c
<1>6. ShownCalls' = ShownCalls
  BY <1>2, <1>5 DEF Model!SetCalls, ShownCalls
<1>7. Model!NativeFail(t)
  BY <1>1, <1>5, <1>6 DEF Model!NativeFail
<1>8. Model!NativeStep(t, c)
  BY <1>7 DEF Model!NativeStep
<1>9. ModelStep
  BY <1>1, <1>8, NativeModel DEF c
<1> QED BY <1>5, <1>9 DEF Shows

(* Native code has no blocks.                                              *)
LEMMA NativeHasNoBlock ==
  ASSUME NestInv, NEW t \in Thread, cstack[t] # <<>>, ~ BlockOpen(Current(t))
  PROVE  LET c == Active(t).co
         IN  ~ Model!Top(c).catch /\ ~ (Model!Blocks(c) > 1)
<1> DEFINE r == Current(t)
           c == Active(t).co
<1>1. Good(r) /\ Model!Top(c).catch = Caught(r) /\ Model!Blocks(c) = Len(LowBlocks(r)) + 1
  BY TopShown
<1> HIDE DEF c
<1>2. Len(LowBlocks(r)) = Len(r.blocks) - r.runtime.bcur /\ LowBlocks(r) \in Seq(ShownBlock)
  BY <1>1, ViewIs
<1>3. Len(r.blocks) = r.runtime.bcur /\ ~ Caught(r)
  BY DEF BlockOpen, Caught
<1>4. Len(r.blocks) \in Nat
  BY <1>1, CoroFields DEF Good
<1> HIDE DEF r
<1>5. Model!Blocks(c) = 1
  BY <1>1, <1>2, <1>3, <1>4
<1> QED BY <1>1, <1>3, <1>5 DEF c

(* NativeUnwind: the exception leaves the native function.                 *)
LEMMA NativeUnwindShown ==
  ASSUME NestInv, NEW t \in Thread, NativeUnwind(t)
  PROVE  Shows
<1> DEFINE a == Active(t)
           r == Current(t)
           c == Active(t).co
           s == cstack[t]
           s2 == Marked(Front(s), TRUE)
           p == LeaveFrame(r)
<1>1. /\ s # <<>> /\ a.native /\ a.failing
      /\ SetCoro(t, IF a.byCall THEN PopFrame(r) ELSE Restore(r, a))
      /\ cstack' = [cstack EXCEPT ![t] = s2] /\ start' = start /\ except' = except
  BY DEF NativeUnwind, Marked
<1>2. /\ CoroInv /\ c \in Coro /\ co[c] = r /\ Good(r) /\ r.alive /\ Tidy(r)
      /\ r.runtime.native /\ r.frames # <<>> /\ ShownCalls[c] = CallsOf(r)
      /\ Chain(s, co) /\ s \in Stacks /\ a = Last(s)
  BY <1>1, NativeShown
<1>3. s2 \in Stacks /\ LoopsOf(s2) = LoopsOf(s) /\ FailsAt(s2) /\ \A d : On(s2, d) <=> On(s, d)
  <2>1. TRUE \in BOOLEAN
    OBVIOUS
  <2> QED BY <1>1, <2>1, NativeBelow
<1>4. /\ GoesOn(p, r) /\ CallsOf(p) = Front(CallsOf(r)) /\ Front(CallsOf(r)) # <<>>
      /\ Last(Front(CallsOf(r))).native = p.runtime.native
      /\ (Depth(r) - 1 \in Natives(r) <=> p.runtime.native)
      /\ p.runtime.native => p = PopFrame(r)
  BY <1>2, CallLeaves
<1>5. Depth(r) - 1 \in Natives(r) <=> a.byCall
  BY <1>1, <1>2, NativeDepth
<1>6. FailsAt(s) /\ a.saved \in BOOLEAN
  <2>1. a \in Activation
    BY <1>1, <1>2, ActiveFacts
  <2> QED BY <1>1, <1>2, <2>1 DEF FailsAt, Activation
<1>7. /\ ShownExcept = except /\ ShownFailing = t
      /\ ShownExcept' = except' /\ ShownFailing' = t
  BY <1>1, <1>2, <1>3, <1>6, ExceptNow, ExceptNext
<1>8. ASSUME NEW q, GoesOn(q, r), SetCoro(t, q)
      PROVE  TidyInv' /\ ParamInv' /\ Model!SetCalls(c, CallsOf(q)) /\ Model!NoSwitch
  <2> HIDE DEF s2
  <2>1. /\ TidyInv' /\ ParamInv'
        /\ ShownCalls' = [ShownCalls EXCEPT ![c] = CallsOf(q)]
        /\ ShownFresh' = ShownFresh
        /\ ShownChain' = [ShownChain EXCEPT ![t] = LoopsOf(s2)]
    BY <1>1, <1>3, <1>8, Goes DEF GoesOn
  <2>2. ShownChain' = ShownChain
    BY <1>3, <2>1 DEF ShownChain
  <2> QED BY <1>1, <1>7, <2>1, <2>2 DEF Model!SetCalls, Model!NoSwitch
<1>9. CASE ~ a.byCall
  <2> DEFINE q == [r EXCEPT !.hasNative = a.saved]
  <2>1. SetCoro(t, q)
    BY <1>1, <1>9 DEF Restore
  <2>2. GoesOn(r, r)
    BY <1>2 DEF GoesOn
  <2> HIDE DEF r
  <2>3. GoesOn(q, r) /\ CallsOf(q) = CallsOf(r)
    BY <1>6, <2>2, SameFlags
  <2> HIDE DEF q
  <2>4. TidyInv' /\ ParamInv' /\ Model!SetCalls(c, CallsOf(q)) /\ Model!NoSwitch
    BY <1>8, <2>1, <2>3
  <2>5. ShownCalls' = ShownCalls
    BY <1>2, <2>3, <2>4 DEF Model!SetCalls, ShownCalls
  <2> QED BY <2>4, <2>5 DEF Shows, ModelStep, Model!vars, Model!NoSwitch
<1>10. CASE a.byCall
  <2>1. SetCoro(t, p)
    BY <1>1, <1>4, <1>5, <1>10
  <2>2. TidyInv' /\ ParamInv' /\ Model!SetCalls(c, CallsOf(p)) /\ Model!NoSwitch
    BY <1>4, <1>8, <2>1
  <2>3. ~ Model!Top(c).catch /\ ~ (Model!Blocks(c) > 1)
    <3>1. ~ BlockOpen(r)
      BY <1>2, GoodFacts
    <3> QED BY <1>1, <3>1, NativeHasNoBlock
  <2>4. Model!Inner(c).native
    BY <1>1, <1>2, TopShown
  <2>5. ~ Model!CallsBack(c)
    BY <2>4 DEF Model!CallsBack
  <2>6. Len(ShownCalls[c]) # 1
    <3>1. Len(CallsOf(r)) = Depth(r) /\ Depth(r) = Len(r.frames) + 1
      BY <1>2, ViewIs DEF Depth
    <3>2. Len(r.frames) \in Nat /\ r.frames \in Seq(FrameSet)
      BY <1>2, CoroFields DEF Good
    <3>3. Len(r.frames) # 0
      BY <1>2, <3>2, EmptySeq
    <3> HIDE DEF r
    <3> QED BY <1>2, <3>1, <3>2, <3>3
  <2>7. CallsOf(p) = Model!Front(ShownCalls[c])
    BY <1>2, <1>4, SameEnds
  <2> HIDE DEF p, r
  <2>8. Model!Unwind(t, c)
    BY <2>2, <2>3, <2>5, <2>6, <2>7 DEF Model!Unwind, Model!NoSwitch
  <2>9. ModelStep
    BY <1>1, <2>8, UnwindModel
  <2> QED BY <2>2, <2>9 DEF Shows
<1> QED BY <1>9, <1>10

(* A callback, before any of its instructions.                             *)
Callees(cs, kind, args) ==
  Append(cs, Model!Callee(kind, args))
    = Nest(cs, kind = "native", IF kind = "ink" THEN args ELSE <<>>, <<>>,
           IF kind = "ink" THEN <<>> ELSE args, FALSE)
(* The call that a callback shows, by the number of its arguments.         *)
LEMMA CalleeIs ==
  ASSUME NEW cs, NEW kind, NEW args
  PROVE  Callees(cs, kind, args)
<1>1. \A x : Append(<<>>, x) = <<x>>
  OBVIOUS
<1> QED BY <1>1 DEF Callees, Nest, Model!Callee, Model!Frame, Model!Block

CallOf(r, kind, args) ==
  LET s == Enter(r, kind, 0, 0, IF kind = "ink" /\ Len(args) = 2 THEN args ELSE <<>>)
  IN  CASE Len(args) = 0 -> Execute(s, Nil)
        [] Len(args) = 1 -> Execute(s, args[1])
        [] OTHER -> Execute(IF kind = "ink" THEN s ELSE PushAll(s, args), Nil)

(* A loop that is entered with no value shows what was there.              *)
LEMMA ExecuteNil ==
  ASSUME NEW p, Good(p)
  PROVE  CallsOf(Execute(p, Nil)) = CallsOf(p)
<1> DEFINE v == Nil
<1>1. v \in Values \cup {Nil}
  OBVIOUS
<1> HIDE DEF v
<1>2. CallsOf(Execute(p, v)) = IF v = Nil THEN CallsOf(p)
                               ELSE IF p.param = "no" THEN Model!PushOn(CallsOf(p), v)
                               ELSE IF p.param = "bind"
                               THEN Append(LowCalls(p), [Last(CallsOf(p)) EXCEPT !.args = <<v>>])
                               ELSE CallsOf(p)
  BY <1>1, ExecuteView
<1> QED BY <1>2 DEF v

(* A loop that is entered keeps the rest of the coroutine.                 *)
LEMMA ExecuteGoesOn ==
  ASSUME NEW r, NEW p, GoesOn(p, r), NEW v \in Values \cup {Nil}
  PROVE  GoesOn(Execute(p, v), r)
<1> DEFINE q == Execute(p, v)
<1>1. Good(q) /\ Alike(q, p)
  BY ExecuteGood DEF GoesOn
<1>2. (Tidy(p) => Tidy(q)) /\ q.param = IF v = Nil THEN p.param ELSE "no"
  BY ExecuteView DEF GoesOn
<1> HIDE DEF q
<1> QED BY <1>1, <1>2 DEF GoesOn, Alike, q

(* A callback is one call more.                                            *)
LEMMA CallView ==
  ASSUME NEW r, Good(r), r.alive, Tidy(r), NEW kind \in {"ink", "legacy"},
         NEW n \in 0..2, NEW args \in [1..n -> Values], n = 1 => kind = "legacy" /\ r.param = "no"
  PROVE  LET q == CallOf(r, kind, args)
         IN  GoesOn(q, r) /\ CallsOf(q) = Append(CallsOf(r), Model!Callee(kind, args))
<1> DEFINE given == IF kind = "ink" /\ Len(args) = 2 THEN args ELSE <<>>
           s == Enter(r, kind, 0, 0, given)
           cs == CallsOf(r)
           nat == kind = "native"
           q == CallOf(r, kind, args)
<1>1. /\ args \in Seq(Values) /\ Len(args) = n /\ (n = 0 \/ n = 1 \/ n = 2)
      /\ n = 0 => args = <<>>
      /\ n = 1 => args # <<>> /\ args[1] \in Values /\ args = Append(<<>>, args[1])
  BY ArgsAre
<1>2. given \in ArgLists /\ <<>> \in Seq(Values) /\ kind \in Kind /\ ~ nat /\ nat \in BOOLEAN
  BY <1>1 DEF ArgLists, Kind
<1>3. cs \in Seq(ShownCall)
  BY ViewIs
<1>4. \A x : Nil \in Values \cup {Nil} /\ (x \in Values => x \in Values \cup {Nil} /\ x # Nil)
  BY ValuesAreNotNil
<1> HIDE DEF given, cs, nat
<1>5. /\ GoesOn(s, r) /\ s.param = r.param
      /\ CallsOf(s) = Nest(cs, nat, given, <<>>, <<>>, FALSE)
  <2>1. /\ Good(s) /\ s.param = r.param /\ (Tidy(r) => Tidy(s))
        /\ CallsOf(s) = Nest(CallsOf(r), kind = "native", given, <<>>, <<>>, FALSE)
    BY <1>2, EnterEmpty
  <2>2. 0 + 0 <= Avail(r) /\ 0 \in Nat /\ 0 \in 0..2
    <3>1. Avail(r) \in 0..Len(r.mem)
      BY GoodFacts
    <3> QED BY <3>1
  <2>3. Alike(s, r)
    BY <1>2, <2>2, EnterGood
  <2> QED BY <2>1, <2>3 DEF GoesOn, Alike, cs, nat
<1> HIDE DEF s
<1>6. Append(cs, Model!Callee(kind, args))
        = Nest(cs, nat, IF kind = "ink" THEN args ELSE <<>>, <<>>,
               IF kind = "ink" THEN <<>> ELSE args, FALSE)
  <2>1. Callees(cs, kind, args)
    BY CalleeIs
  <2> QED BY <2>1 DEF nat, Callees
<1>7. CASE n = 0
  <2>1. Len(args) = 0 /\ args = <<>>
    BY <1>1, <1>7
  <2>2. q = Execute(s, Nil)
    BY <2>1 DEF CallOf, s, given
  <2>3. given = <<>>
    BY <2>1 DEF given
  <2>4. GoesOn(q, r)
    BY <1>4, <1>5, <2>2, ExecuteGoesOn
  <2>5. CallsOf(q) = CallsOf(s)
    BY <1>5, <2>2, ExecuteNil DEF GoesOn
  <2> HIDE DEF q
  <2> QED BY <1>5, <1>6, <2>1, <2>3, <2>4, <2>5 DEF q, cs
<1>8. CASE n = 1
  <2>1. Len(args) = 1 /\ kind = "legacy" /\ s.param = "no" /\ args[1] \in Values /\ args = Append(<<>>, args[1])
    BY <1>1, <1>5, <1>8
  <2>2. q = Execute(s, args[1])
    BY <2>1 DEF CallOf, s, given
  <2>3. given = <<>>
    BY <2>1 DEF given
  <2> DEFINE v == args[1]
  <2>4. v \in Values \cup {Nil} /\ v # Nil
    BY <1>4, <2>1
  <2> HIDE DEF v
  <2>5. GoesOn(q, r)
    BY <1>5, <2>2, <2>4, ExecuteGoesOn DEF v
  <2>6. CallsOf(q) = Model!PushOn(CallsOf(s), v)
    <3>1. CallsOf(Execute(s, v)) = IF v = Nil THEN CallsOf(s)
                                   ELSE IF s.param = "no" THEN Model!PushOn(CallsOf(s), v)
                                   ELSE IF s.param = "bind"
                                   THEN Append(LowCalls(s), [Last(CallsOf(s)) EXCEPT !.args = <<v>>])
                                   ELSE CallsOf(s)
      BY <1>5, <2>4, ExecuteView DEF GoesOn
    <3> QED BY <2>1, <2>2, <2>4, <3>1 DEF v
  <2> HIDE DEF q
  <2>7. Model!PushOn(Nest(cs, nat, <<>>, <<>>, <<>>, FALSE), v) = Nest(cs, nat, <<>>, <<>>, Append(<<>>, v), FALSE)
    <3>1. <<>> \in Seq(ShownBlock) /\ FALSE \in BOOLEAN
      OBVIOUS
    <3>2. Parts(Nest(cs, nat, <<>>, <<>>, <<>>, FALSE), cs, nat, <<>>, <<>>, <<>>, FALSE)
      BY <1>2, <1>3, <3>1, NestFacts
    <3> QED BY <3>2 DEF Parts
  <2>8. args = Append(<<>>, v)
    BY <2>1 DEF v
  <2>9. CallsOf(q) = Nest(cs, nat, <<>>, <<>>, args, FALSE)
    BY <1>5, <2>3, <2>6, <2>7, <2>8
  <2>10. Append(cs, Model!Callee(kind, args)) = Nest(cs, nat, <<>>, <<>>, args, FALSE)
    BY <1>6, <2>1
  <2> QED BY <2>5, <2>9, <2>10 DEF q, cs
<1>9. CASE n = 2
  <2>1. Len(args) = 2
    BY <1>1, <1>9
  <2> DEFINE p == IF kind = "ink" THEN s ELSE PushAll(s, args)
  <2>2. q = Execute(p, Nil)
    BY <2>1 DEF CallOf, s, given
  <2>3. /\ GoesOn(p, r)
        /\ CallsOf(p) = Nest(cs, nat, IF kind = "ink" THEN args ELSE <<>>, <<>>,
                             IF kind = "ink" THEN <<>> ELSE args, FALSE)
    <3>1. CASE kind = "ink"
      <4>1. given = args
        BY <2>1, <3>1 DEF given
      <4> QED BY <1>5, <3>1, <4>1
    <3>2. CASE kind # "ink"
      <4> DEFINE x == PushAll(s, args)
      <4>1. given = <<>>
        BY <3>2 DEF given
      <4>2. Good(s) /\ CallsOf(s) = Nest(cs, nat, <<>>, <<>>, <<>>, FALSE)
        BY <1>5, <4>1 DEF GoesOn
      <4>3. Good(x) /\ Steady(x, s) /\ CallsOf(x) = Nest(cs, nat, <<>>, <<>>, args, FALSE)
        BY <1>2, <1>3, <4>2, PushAllView
      <4>4. Alike(x, s)
        BY <4>2, PushAllGood
      <4>5. p = x
        BY <3>2
      <4> HIDE DEF x, p
      <4>6. GoesOn(x, s)
        BY <1>5, <4>3, <4>4, SteadyGoesOn DEF GoesOn
      <4>7. GoesOn(x, r)
        BY <1>5, <4>6, GoesOnTwice
      <4> QED BY <3>2, <4>3, <4>5, <4>7
    <3> QED BY <3>1, <3>2
  <2> HIDE DEF p
  <2>4. GoesOn(q, r)
    BY <1>4, <2>2, <2>3, ExecuteGoesOn
  <2>5. CallsOf(q) = CallsOf(p)
    BY <2>2, <2>3, ExecuteNil DEF GoesOn
  <2> HIDE DEF q
  <2> QED BY <1>6, <2>3, <2>4, <2>5 DEF q, cs
<1> QED BY <1>1, <1>7, <1>8, <1>9

(* No argument goes past the parameters it is for.                         *)
Matched == "callback" \notin Quirks /\ "spawn" \notin Quirks

(* NativeCall: a native function calls back.                               *)
LEMMA NativeCallShown ==
  ASSUME NestInv, NEW t \in Thread, NativeCall(t), Matched
  PROVE  Shows
<1> DEFINE r == Current(t)
           c == Active(t).co
           s == cstack[t]
<1>1. /\ Native(t) /\ s # <<>> /\ Active(t).native /\ NoneFailing /\ start' = start
  BY DEF NativeCall, Native
<1>2. PICK kind \in Kind, n \in 0..2 : \E args \in [1..n -> Arg] :
           IF kind = "native"
           THEN /\ SetCoro(t, PushAll(Enter(r, kind, 0, 0, <<>>), args))
                /\ cstack' = [cstack EXCEPT ![t] = Append(@, CFunction(c, FALSE, TRUE))]
           ELSE /\ n = 1 => /\ kind = "legacy" \/ "callback" \in Quirks
                            /\ r.spawned => r.param = "no" \/ "spawn" \in Quirks
                /\ \E trap \in {FALSE} \cup {kind = "ink" /\ n = 0} :
                     cstack' = [cstack EXCEPT ![t] = Append(@, Loop(c, trap))]
                /\ SetCoro(t, CallOf(r, kind, args))
  BY DEF NativeCall, CallOf
<1>3. PICK args \in [1..n -> Arg] :
           IF kind = "native"
           THEN /\ SetCoro(t, PushAll(Enter(r, kind, 0, 0, <<>>), args))
                /\ cstack' = [cstack EXCEPT ![t] = Append(@, CFunction(c, FALSE, TRUE))]
           ELSE /\ n = 1 => /\ kind = "legacy" \/ "callback" \in Quirks
                            /\ r.spawned => r.param = "no" \/ "spawn" \in Quirks
                /\ \E trap \in {FALSE} \cup {kind = "ink" /\ n = 0} :
                     cstack' = [cstack EXCEPT ![t] = Append(@, Loop(c, trap))]
                /\ SetCoro(t, CallOf(r, kind, args))
  BY <1>2
<1>4. /\ CoroInv /\ c \in Coro /\ co[c] = r /\ Good(r) /\ r.alive /\ Tidy(r)
      /\ ShownCalls[c] = CallsOf(r) /\ s \in Stacks
  BY <1>1, NativeShown
<1>5. OnStack(c) /\ On(s, c)
  BY <1>1, <1>4, ActiveFacts
<1>6. args \in [1..n -> Values]
  BY ArgValues
<1>7. ShownExcept = Nil /\ ShownFailing = Nil
  BY <1>1, <1>4, ExceptNow
<1>8. ASSUME NEW a \in Activation, a.co = c, ~ a.failing, cstack' = [cstack EXCEPT ![t] = Append(s, a)],
             NEW q, GoesOn(q, r), SetCoro(t, q), CallsOf(q) = Append(CallsOf(r), Model!Callee(kind, args)),
             NEW trap \in BOOLEAN,
             IF kind = "native" THEN a.native ELSE ~ a.native /\ Shown(a) = Model!Link(c, trap)
      PROVE  Shows
  <2> DEFINE s2 == Append(s, a)
  <2>1. cstack' = [cstack EXCEPT ![t] = s2]
    BY <1>8
  <2> HIDE DEF r, c, s
  <2>2. s2 \in Stacks /\ (\A e : On(s2, e) <=> On(s, e)) /\ ~ FailsAt(s2)
    <3>1. s2 \in Stacks
      BY <1>4, <1>8, OneMore
    <3>2. (\A e : On(s2, e) <=> On(s, e) \/ e = a.co) /\ (FailsAt(s2) <=> a.failing)
      BY <1>4, <1>8, AppendedOn
    <3> QED BY <1>5, <1>8, <3>1, <3>2
  <2>3. LoopsOf(s2) = IF a.native THEN LoopsOf(s) ELSE Append(LoopsOf(s), Shown(a))
    BY <1>4, <1>8, LoopsMore
  <2> HIDE DEF s2
  <2>4. /\ TidyInv' /\ ParamInv'
        /\ ShownCalls' = [ShownCalls EXCEPT ![c] = CallsOf(q)]
        /\ ShownFresh' = ShownFresh
        /\ ShownChain' = [ShownChain EXCEPT ![t] = LoopsOf(s2)]
    BY <1>1, <1>8, <2>1, <2>2, Goes DEF GoesOn, r, c, s
  <2>5. ShownExcept' = Nil /\ ShownFailing' = Nil
    BY <1>1, <1>4, <2>1, <2>2, ExceptNext
  <2>6. ShownChain[t] = LoopsOf(s)
    BY StateShown DEF s
  <2>7. ShownChain' = IF kind = "native" THEN ShownChain
                      ELSE [ShownChain EXCEPT ![t] = Append(@, Model!Link(c, trap))]
    <3>1. CASE kind = "native"
      BY <1>8, <2>3, <2>4, <2>6, <3>1 DEF ShownChain
    <3>2. CASE kind # "native"
      BY <1>8, <2>3, <2>4, <2>6, <3>2
    <3> QED BY <3>1, <3>2
  <2>8. ShownCalls' = [ShownCalls EXCEPT ![c] = Append(ShownCalls[c], Model!Callee(kind, args))]
    BY <1>4, <1>8, <2>4
  <2>9. Model!NativeCall(t, c, kind, args, trap)
    BY <1>1, <1>7, <2>4, <2>5, <2>7, <2>8 DEF Model!NativeCall, Model!SetCalls
  <2>10. Model!NativeStep(t, c)
    BY <2>9 DEF Model!NativeStep, Kind, Arg
  <2>11. ModelStep
    BY <1>1, <2>10, NativeModel DEF c
  <2> QED BY <2>4, <2>11 DEF Shows
<1>9. CASE kind = "native"
  <2> DEFINE a == CFunction(c, FALSE, TRUE)
             p == Enter(r, kind, 0, 0, <<>>)
             q == PushAll(p, args)
  <2>1. a \in Activation /\ a.native /\ a.co = c /\ ~ a.failing
    <3>1. FALSE \in BOOLEAN /\ TRUE \in BOOLEAN
      OBVIOUS
    <3> QED BY <1>4, <3>1, CFunctionIs
  <2>2. cstack' = [cstack EXCEPT ![t] = Append(s, a)] /\ SetCoro(t, q)
    BY <1>3, <1>9
  <2> HIDE DEF a, r
  <2>3. <<>> \in ArgLists /\ <<>> \in Seq(Values) /\ (kind = "native") \in BOOLEAN
    BY DEF ArgLists
  <2>4. /\ Good(p) /\ p.param = r.param /\ (Tidy(r) => Tidy(p))
        /\ CallsOf(p) = Nest(CallsOf(r), kind = "native", <<>>, <<>>, <<>>, FALSE)
    BY <1>4, <2>3, EnterEmpty
  <2>5. Alike(p, r)
    <3>1. 0 + 0 <= Avail(r) /\ 0 \in Nat /\ 0 \in 0..2
      <4>1. Avail(r) \in 0..Len(r.mem)
        BY <1>4, GoodFacts
      <4> QED BY <4>1
    <3> QED BY <1>4, <2>3, <3>1, EnterGood
  <2> HIDE DEF p
  <2>6. Good(q) /\ Steady(q, p) /\ CallsOf(q) = Nest(CallsOf(r), kind = "native", <<>>, <<>>, args, FALSE)
    <3>1. CallsOf(r) \in Seq(ShownCall)
      BY <1>4, ViewIs
    <3> DEFINE cs == CallsOf(r)
               nat == kind = "native"
    <3>2. cs \in Seq(ShownCall) /\ nat \in BOOLEAN /\ CallsOf(p) = Nest(cs, nat, <<>>, <<>>, <<>>, FALSE)
      BY <2>3, <2>4, <3>1
    <3> HIDE DEF cs, nat
    <3> DEFINE as == <<>>
    <3>3. as \in Seq(Values) /\ CallsOf(p) = Nest(cs, nat, as, <<>>, <<>>, FALSE)
      BY <3>2
    <3> HIDE DEF as
    <3>4. Good(p) /\ n \in 0..2 /\ args \in [1..n -> Values]
      BY <1>6, <2>4
    <3>5. Good(q) /\ Steady(q, p) /\ CallsOf(q) = Nest(cs, nat, as, <<>>, args, FALSE)
      BY <3>2, <3>3, <3>4, PushAllView
    <3> QED BY <3>5 DEF cs, nat, as
  <2>7. Alike(q, p)
    BY <1>6, <2>4, PushAllGood
  <2> HIDE DEF q
  <2>8. GoesOn(q, r)
    <3>1. Steady(q, r) /\ Alike(q, r)
      BY <2>4, <2>5, <2>6, <2>7 DEF Steady, Alike
    <3> QED BY <1>4, <2>6, <3>1, SteadyGoesOn
  <2>9. CallsOf(q) = Append(CallsOf(r), Model!Callee(kind, args))
    <3>1. kind # "ink"
      BY <1>9
    <3>2. Callees(CallsOf(r), kind, args)
      BY CalleeIs
    <3> QED BY <2>6, <3>1, <3>2 DEF Callees
  <2>10. FALSE \in BOOLEAN
    OBVIOUS
  <2> QED BY <1>8, <1>9, <2>1, <2>2, <2>8, <2>9, <2>10 DEF r
<1>10. CASE kind # "native"
  <2>1. /\ n = 1 => kind = "legacy" /\ (r.spawned => r.param = "no")
        /\ SetCoro(t, CallOf(r, kind, args))
        /\ \E trap \in {FALSE} \cup {kind = "ink" /\ n = 0} :
                     cstack' = [cstack EXCEPT ![t] = Append(@, Loop(c, trap))]
    BY <1>3, <1>10 DEF Matched
  <2>2. PICK trap \in BOOLEAN : cstack' = [cstack EXCEPT ![t] = Append(@, Loop(c, trap))]
    <3>1. {FALSE} \cup {kind = "ink" /\ n = 0} \subseteq BOOLEAN
      OBVIOUS
    <3> QED BY <2>1, <3>1
  <2> DEFINE a == Loop(c, trap)
             q == CallOf(r, kind, args)
  <2>3. a \in Activation /\ a.co = c /\ ~ a.native /\ ~ a.failing /\ Shown(a) = Model!Link(c, trap)
    BY <1>4, LoopShown
  <2>4. cstack' = [cstack EXCEPT ![t] = Append(s, a)] /\ SetCoro(t, q)
    BY <2>1, <2>2
  <2>5. n = 1 => kind = "legacy" /\ r.param = "no"
    BY <1>4, <1>5, <2>1 DEF NestInv, ParamInv
  <2>6. kind \in {"ink", "legacy"}
    BY <1>10 DEF Kind
  <2> HIDE DEF a, r
  <2>7. GoesOn(q, r) /\ CallsOf(q) = Append(CallsOf(r), Model!Callee(kind, args))
    BY <1>4, <1>6, <2>5, <2>6, CallView
  <2> HIDE DEF q
  <2> QED BY <1>8, <1>10, <2>2, <2>3, <2>4, <2>7 DEF r
<1> QED BY <1>9, <1>10

(* A function called by native code ends.                                  *)
LEMMA EndCallbackShown ==
  ASSUME NestInv, NEW t \in Thread, Interp(t), NEW q, GoesOn(q, Current(t)),
         Current(t).frames # <<>>, Depth(Current(t)) - 1 \in Natives(Current(t)),
         NEW v, EndsWith(t, v), End(t, q, v)
  PROVE  LET b == v = Nil /\ ~ Active(t).trap
         IN  /\ TidyInv' /\ ParamInv'
             /\ Model!SetCalls(Active(t).co, CallsOf(q))
             /\ ShownFresh' = ShownFresh /\ start' = start
             /\ ShownChain' = [ShownChain EXCEPT ![t] = Model!Front(@)]
             /\ b => ShownExcept' = ShownExcept /\ ShownFailing' = ShownFailing
             /\ ~ b => ShownExcept' = Nil /\ ShownFailing' = Nil
<1> DEFINE s == cstack[t]
           r == Current(t)
           c == Active(t).co
           m == Len(s) - 1
           f == Front(s)
           p == [q EXCEPT !.active = FALSE]
<1>1. s # <<>> /\ ~ Active(t).native /\ CoroInv
  BY DEF Interp, NestInv
<1>2. /\ Chain(s, co) /\ r = co[Last(s).co] /\ Active(t) = Last(s) /\ Good(r) /\ r.alive
      /\ s \in Stacks /\ Len(s) \in Nat \ {0} /\ Last(s) = s[Len(s)] /\ Last(s) \in Activation
  BY <1>1, ActiveFacts
<1>3. m \in 1..m /\ s[m].native /\ s[m].co = Last(s).co
  <2>1. s # <<>> /\ ~ Last(s).native /\ r.frames # <<>> /\ Depth(r) - 1 \in Natives(r) /\ Chain(s, co)
    BY <1>1, <1>2
  <2>2. r = co[Last(s).co]
    BY <1>2
  <2> HIDE DEF s, r
  <2> QED BY <2>1, <2>2, CallbackEnds DEF m
<1>4. m # 0
  <2> HIDE DEF m
  <2> QED BY <1>3
<1>5. \A j \in 1..Len(s) - 1 : ~ s[j].failing
  BY <1>1, NoneBelow
<1>6. f # <<>> /\ Last(f) = s[m] /\ Len(s) # 1 /\ f \in Stacks
  <2>1. m # 0 /\ s # <<>> /\ s \in Stacks
    BY <1>1, <1>2, <1>4
  <2>2. (m = 0 <=> f = <<>>) /\ (m # 0 => Last(f) = s[m]) /\ f \in Stacks
    BY <1>5, <2>1, FrontIs
  <2>3. Len(s) # 1
    BY <1>2, <1>4
  <2> QED BY <2>1, <2>2, <2>3
<1>7. PICK b \in BOOLEAN :
        /\ b <=> v = Nil /\ ~ Active(t).trap
        /\ cstack' = [cstack EXCEPT ![t] = Marked(f, b)]
        /\ SetCoro(t, p) /\ start' = start
        /\ except' = IF v = Nil /\ Active(t).trap THEN Nil ELSE except
  <2>1. /\ cstack' = [cstack EXCEPT ![t] = Marked(f, v = Nil /\ ~ (v = Nil /\ Active(t).trap))]
        /\ SetCoro(t, p) /\ start' = start
        /\ except' = IF v = Nil /\ Active(t).trap THEN Nil ELSE except
    BY <1>3, <1>6 DEF End, Popped, Marked, SetCoro
  <2>2. (v = Nil /\ ~ (v = Nil /\ Active(t).trap)) \in BOOLEAN
    OBVIOUS
  <2> QED BY <2>1, <2>2, Zenon
<1>8. GoesOn(p, r) /\ CallsOf(p) = CallsOf(q)
  <2>1. FALSE \in BOOLEAN
    OBVIOUS
  <2> HIDE DEF r
  <2> QED BY <2>1, SameFlags DEF r
<1> DEFINE s2 == Marked(f, b)
<1>9. s2 \in Stacks /\ (FailsAt(s2) <=> b) /\ \A d : On(s2, d) <=> On(s, d)
  BY <1>1, <1>2, <1>3, <1>5, <1>6, MarkedBelow
<1>10. LoopsOf(s2) = LoopsOf(f)
  BY <1>6, LoopsMarked
<1>11. ShownChain[t] = LoopsOf(s) /\ LoopsOf(f) = Model!Front(ShownChain[t])
  <2>1. LoopsOf(s) = Append(LoopsOf(f), Shown(Last(s)))
    BY <1>1, <1>2, LoopsTop
  <2>2. LoopsOf(f) \in Seq(LinkSet)
    BY <1>6, LoopsOn
  <2>3. Shown(Last(s)) \in LinkSet
    BY <1>2 DEF Shown, LinkSet, Activation
  <2>4. Front(Append(LoopsOf(f), Shown(Last(s)))) = LoopsOf(f)
    BY <2>2, <2>3, AppendEnds
  <2>5. ShownChain[t] = LoopsOf(s)
    BY StateShown
  <2> QED BY <2>1, <2>4, <2>5, SameEnds
<1> HIDE DEF s2, p, f
<1>12. /\ TidyInv' /\ ParamInv'
       /\ ShownCalls' = [ShownCalls EXCEPT ![c] = CallsOf(p)]
       /\ ShownFresh' = ShownFresh
       /\ ShownChain' = [ShownChain EXCEPT ![t] = LoopsOf(s2)]
  BY <1>1, <1>7, <1>8, <1>9, Goes DEF GoesOn, s2
<1>13. NoneFailing \/ FailsAt(s)
  BY <1>1 DEF EndsWith, FailsAt, Active
<1>14. (~ b => ShownExcept' = Nil /\ ShownFailing' = Nil) /\ (b => ShownExcept' = except' /\ ShownFailing' = t)
  BY <1>1, <1>7, <1>9, <1>13, ExceptNext DEF s2
<1>15. b => ShownExcept = except /\ ShownFailing = t /\ except' = except
  <2>1. b => FailsAt(s)
    BY <1>1, <1>7, ValuesAreNotNil DEF EndsWith, FailsAt, Active
  <2> QED BY <1>1, <1>7, <2>1, ExceptNow
<1>16. Model!SetCalls(c, CallsOf(q))
  BY <1>8, <1>12 DEF Model!SetCalls
<1>17. ShownChain' = [ShownChain EXCEPT ![t] = Model!Front(@)]
  BY <1>10, <1>11, <1>12
<1> QED BY <1>7, <1>12, <1>14, <1>15, <1>16, <1>17

(* A coroutine as it is when its loop has ended.                           *)
Leaves(q) == q \in CoroSet /\ (q.alive => Good(q) /\ Tidy(q) /\ q.param = "no")

(* The flags of a coroutine that leaves are not seen.                      *)
LEMMA LeavesFlags ==
  ASSUME NEW q, Leaves(q)
  PROVE  LET p == [q EXCEPT !.active = FALSE]  o == [p EXCEPT !.spawned = FALSE]
         IN  /\ Leaves(p) /\ View(p) = View(q) /\ Leaves(o) /\ View(o) = View(q)
             /\ p # Nil /\ o # Nil
<1> DEFINE p == [q EXCEPT !.active = FALSE]
           o == [p EXCEPT !.spawned = FALSE]
<1>1. q \in CoroSet /\ q # Nil
  BY NilAssumption DEF Leaves
<1>2. ASSUME NEW x \in CoroSet, x.bottom = q.bottom, x.size = q.size, x.mem = q.mem, x.runtime = q.runtime,
             x.frames = q.frames, x.blocks = q.blocks, x.alive = q.alive, x.param = q.param
      PROVE  Leaves(x) /\ View(x) = View(q) /\ x # Nil
  <2>1. x # Nil
    BY NilAssumption
  <2>2. q.alive => Good(x) /\ CallsOf(x) = CallsOf(q) /\ (Tidy(q) => Tidy(x))
    BY <1>1, <1>2, FlagsView DEF Leaves
  <2> QED BY <1>1, <1>2, <2>1, <2>2 DEF Leaves, View
<1>3. /\ p \in CoroSet /\ p.bottom = q.bottom /\ p.size = q.size /\ p.mem = q.mem /\ p.runtime = q.runtime
      /\ p.frames = q.frames /\ p.blocks = q.blocks /\ p.alive = q.alive /\ p.param = q.param
  BY <1>1 DEF CoroSet
<1>4. /\ o \in CoroSet /\ o.bottom = q.bottom /\ o.size = q.size /\ o.mem = q.mem /\ o.runtime = q.runtime
      /\ o.frames = q.frames /\ o.blocks = q.blocks /\ o.alive = q.alive /\ o.param = q.param
  BY <1>1 DEF CoroSet
<1> HIDE DEF p, o
<1>5. Leaves(p) /\ View(p) = View(q) /\ p # Nil
  BY <1>2, <1>3
<1>6. Leaves(o) /\ View(o) = View(q) /\ o # Nil
  BY <1>2, <1>4
<1> QED BY <1>5, <1>6 DEF p, o

(* Whoever is left on a C stack when the loop at its top has ended.        *)
LEMMA LeftBelow ==
  ASSUME NestInv, NEW t \in Thread, cstack[t] # <<>>, NEW f \in Stacks, cstack' = [cstack EXCEPT ![t] = f],
         \A d : On(cstack[t], d) <=> On(f, d) \/ d = Active(t).co, ~ On(f, Active(t).co),
         NEW o, Leaves(o), co'[Active(t).co] = o,
         \A d \in Coro : d # Active(t).co =>
           \/ co'[d] = co[d]
           \/ /\ On(f, d) /\ co[d] # Nil /\ co'[d] # Nil /\ Tidy(co'[d])
              /\ co'[d].param = co[d].param /\ co'[d].spawned = co[d].spawned
  PROVE  TidyInv' /\ ParamInv' /\ ShownFresh' = ShownFresh
<1> DEFINE c == Active(t).co
           s == cstack[t]
<1>1. CoroInv /\ c \in Coro /\ OnStack(c) /\ On(s, c)
  BY ActiveFacts DEF NestInv
<1>2. \A d : OnStack(d)' <=> On(f, d) \/ \E u \in Thread : u # t /\ On(cstack[u], d)
  BY <1>1, OnNext
<1>3. \A d : OnStack(d) <=> \E u \in Thread : On(cstack[u], d)
  BY <1>1, OnStackIs
<1>4. \A d : d = c => ~ OnStack(d)'
  <2>1. ASSUME NEW u \in Thread, u # t, On(cstack[u], c)
        PROVE  FALSE
    BY <1>1, <2>1 DEF CoroInv, Apart
  <2> QED BY <1>2, <2>1
<1>5. \A d : d # c => (OnStack(d)' <=> OnStack(d))
  BY <1>2, <1>3
<1>6. \A e \in Coro : Lives(co'[e]) => Tidy(co'[e])
  <2> SUFFICES ASSUME NEW e \in Coro, Lives(co'[e])
               PROVE  Tidy(co'[e])
    OBVIOUS
  <2>1. CASE e = c
    BY <2>1 DEF Leaves, Lives
  <2>2. CASE e # c
    BY <2>2 DEF NestInv, TidyInv
  <2> QED BY <2>1, <2>2
<1>7. \A e \in Coro : OnStack(e)' /\ ~ co'[e].spawned => co'[e].param = "no"
  <2> SUFFICES ASSUME NEW e \in Coro, OnStack(e)', ~ co'[e].spawned
               PROVE  co'[e].param = "no"
    OBVIOUS
  <2>1. e # c
    BY <1>4
  <2>2. OnStack(e)
    BY <1>5, <2>1
  <2>3. OnStack(e) /\ ~ co[e].spawned => co[e].param = "no"
    BY DEF NestInv, ParamInv
  <2> QED BY <2>1, <2>2, <2>3
<1>8. \A e \in Coro : FreshOf(co'[e], OnStack(e)') = FreshOf(co[e], OnStack(e))
  <2> SUFFICES ASSUME NEW e \in Coro
               PROVE  FreshOf(co'[e], OnStack(e)') = FreshOf(co[e], OnStack(e))
    OBVIOUS
  <2>1. CASE e = c
    BY <1>1, <1>4, <2>1 DEF FreshOf, Leaves
  <2>2. CASE e # c
    <3>1. OnStack(e)' <=> OnStack(e)
      BY <1>5, <2>2
    <3>2. co'[e] = co[e] \/ OnStack(e)
      BY <1>3, <2>2
    <3> QED BY <2>2, <3>1, <3>2 DEF FreshOf
  <2> QED BY <2>1, <2>2
<1>9. TidyInv' /\ ParamInv'
  BY <1>6, <1>7, InvNext
<1> QED BY <1>8, <1>9, StateShown

(* The loop that has begun a coroutine ends.                               *)
LEMMA LeaveShown ==
  ASSUME NestInv, NEW t \in Thread, Interp(t), Begins(cstack[t], Len(cstack[t])),
         NEW q, Leaves(q), NEW v, EndsWith(t, v), End(t, q, v)
  PROVE  /\ TidyInv' /\ ParamInv'
         /\ Model!Leave(t, Active(t).co, View(q), IF v = Nil THEN None ELSE v)
<1> DEFINE s == cstack[t]
           c == Active(t).co
           f == Front(s)
           m == Len(s) - 1
           p == [q EXCEPT !.active = FALSE]
           o == [p EXCEPT !.spawned = FALSE]
           w == IF v = Nil THEN None ELSE v
<1>1. s # <<>> /\ ~ Active(t).native /\ CoroInv
  BY DEF Interp, NestInv
<1>2. /\ Chain(s, co) /\ Current(t) = co[c] /\ Active(t) = Last(s) /\ c \in Coro
      /\ s \in Stacks /\ Len(s) \in Nat \ {0} /\ Len(s) \in 1..Len(s) /\ Last(s) = s[Len(s)]
      /\ On(s, c) /\ Last(s) \in Activation
  BY <1>1, ActiveFacts
<1>3. Active(t).trap /\ Rooted(s)
  <2>1. ShapeAt(s, Len(s)) /\ ShapeOK(s)
    BY <1>2 DEF Chain, ShapeOK
  <2> QED BY <1>2, <2>1, ShapeRooted DEF ShapeAt
<1>4. \A j \in 1..Len(s) - 1 : ~ s[j].failing
  BY <1>1, NoneBelow
<1>5. /\ f \in Stacks /\ Len(f) = m /\ (\A i \in 1..m : f[i] = s[i]) /\ ~ FailsAt(f)
      /\ m = 0 <=> f = <<>>
      /\ m # 0 => Last(f) = s[m] /\ m \in 1..m
  BY <1>1, <1>2, <1>4, FrontIs
<1>6. Leaves(p) /\ View(p) = View(q) /\ Leaves(o) /\ View(o) = View(q) /\ p # Nil /\ o # Nil
  BY LeavesFlags
<1>7. co \in [Coro -> CoroSet \cup {Nil}] /\ cstack \in [Thread -> Stacks]
  BY <1>1 DEF CoroInv, Types
<1>8. \A d : On(s, d) <=> On(f, d) \/ d = c
  <2>1. \A i \in 1..Len(s) : i \in 1..m \/ i = Len(s)
    BY <1>2
  <2>2. \A i \in 1..m : i \in 1..Len(s)
    BY <1>2
  <2> QED BY <1>2, <1>5, <2>1, <2>2 DEF On
<1>9. start' = start /\ (except' = Nil \/ NoneFailing)
  BY <1>3 DEF End, Popped, EndsWith
<1>10. NoneFailing \/ FailsAt(s)
  BY <1>1 DEF EndsWith, FailsAt, Active
<1>11. ShownChain[t] = LoopsOf(s) /\ Model!Front(ShownChain[t]) = LoopsOf(f)
  <2>1. LoopsOf(s) = Append(LoopsOf(f), Shown(Last(s)))
    BY <1>1, <1>2, LoopsTop
  <2>2. LoopsOf(f) \in Seq(LinkSet)
    BY <1>5, LoopsOn
  <2>3. Shown(Last(s)) \in LinkSet
    BY <1>2 DEF Shown, LinkSet, Activation
  <2>4. Front(Append(LoopsOf(f), Shown(Last(s)))) = LoopsOf(f)
    BY <2>2, <2>3, AppendEnds
  <2>5. ShownChain[t] = LoopsOf(s)
    BY StateShown
  <2> QED BY <2>1, <2>4, <2>5, SameEnds
<1>12. cstack' = [cstack EXCEPT ![t] = f]
       => ShownExcept' = Nil /\ ShownFailing' = Nil /\ ShownChain' = [ShownChain EXCEPT ![t] = LoopsOf(f)]
  <2> HIDE DEF f, s
  <2> SUFFICES ASSUME cstack' = [cstack EXCEPT ![t] = f]
               PROVE  ShownExcept' = Nil /\ ShownFailing' = Nil /\ ShownChain' = [ShownChain EXCEPT ![t] = LoopsOf(f)]
    OBVIOUS
  <2>1. ShownExcept' = Nil /\ ShownFailing' = Nil
    BY <1>1, <1>5, <1>10, ExceptNext DEF s
  <2>2. ShownChain' = [ShownChain EXCEPT ![t] = LoopsOf(f)]
    BY <1>7, StateShown
  <2> QED BY <2>1, <2>2
<1>13. CASE Len(s) = 1
  <2>1. f = <<>>
    BY <1>5, <1>13
  <2>2. /\ co' = [[co EXCEPT ![c] = p] EXCEPT ![c].spawned = FALSE]
        /\ cstack' = [cstack EXCEPT ![t] = f]
    BY <2>1 DEF End
  <2> HIDE DEF p, o, c, s, f
  <2>3. co' = [co EXCEPT ![c] = o]
    BY <1>2, <1>7, <2>2 DEF o
  <2>4. co'[c] = o /\ \A d \in Coro : d # c => co'[d] = co[d]
    BY <1>2, <1>7, <2>3
  <2>5. ~ On(f, c)
    BY <2>1 DEF On
  <2>6. TidyInv' /\ ParamInv' /\ ShownFresh' = ShownFresh
    BY <1>1, <1>5, <1>6, <1>8, <2>2, <2>4, <2>5, LeftBelow DEF s, c
  <2>7. ShownCalls' = [ShownCalls EXCEPT ![c] = View(q)]
    BY <1>2, <1>6, <2>4, StateShown
  <2>8. Model!Front(ShownChain[t]) = <<>>
    BY <1>11, <2>1, NoLoops
  <2>9. Model!Leave(t, c, View(q), w)
    BY <1>9, <1>11, <1>12, <2>2, <2>6, <2>7, <2>8 DEF Model!Leave
  <2> QED BY <2>6, <2>9 DEF c
<1>14. CASE Len(s) # 1
  <2> DEFINE e == s[m].co
             g == Push(Drop(co[e], 1), w)
  <2>1. Begins(s, Len(s)) /\ ~ Last(s).native
    BY <1>1, <1>2
  <2>2. /\ m \in 1..m /\ ~ s[m].native /\ e # c /\ Good(co[e]) /\ co[e].alive /\ Avail(co[e]) >= 1
        /\ \A j \in 1..m : s[j].co # c
    BY <1>1, <1>2, <1>14, <2>1, LoopEnds
  <2>3. m # 0 /\ Last(f) = s[m] /\ f # <<>>
    <3>1. m # 0
      BY <1>2, <1>14
    <3>2. (m = 0 <=> f = <<>>) /\ (m # 0 => Last(f) = s[m])
      BY <1>5
    <3> HIDE DEF f, s, m
    <3> QED BY <3>1, <3>2
  <2>4. /\ co' = [[co EXCEPT ![c] = p] EXCEPT ![e] = Push(Drop(@, 1), w)]
        /\ cstack' = [cstack EXCEPT ![t] = f]
    BY <2>2, <2>3 DEF End
  <2>5. On(f, e) /\ ~ On(f, c)
    BY <1>5, <2>2 DEF On
  <2>6. e \in Coro /\ On(s, e) /\ co[e] # Nil /\ Lives(co[e])
    <3>1. On(s, e)
      BY <1>8, <2>5
    <3>2. e \in Coro /\ Good(co[e]) /\ Lives(co[e])
      BY <1>1, <3>1, OnIsAlive
    <3> QED BY <3>1, <3>2 DEF Lives
  <2>7. w \in Values
    BY ValuesAreNotNil DEF EndsWith
  <2>8. LoopsOf(f) # <<>> /\ Last(LoopsOf(f)).co = e
    <3>1. Rooted(f)
      <4>1. \A i \in 1..m : i \in 1..Len(s) /\ (i > 1 => i - 1 \in 1..m)
        BY <1>2
      <4>2. \A i \in 1..m : s[i].native => i > 1 /\ s[i].co = s[i - 1].co
        BY <1>3, <4>1 DEF Rooted
      <4> HIDE DEF m, f, s
      <4> QED BY <1>5, <4>1, <4>2 DEF Rooted
    <3> QED BY <1>5, <2>3, <3>1, LoopsLast
  <2> HIDE DEF p, o, w, m, e
  <2>9. co' = [[co EXCEPT ![c] = p] EXCEPT ![e] = g]
    BY <1>2, <1>7, <2>2, <2>4, <2>6
  <2> DEFINE x == co[e]
             y == Drop(x, 1)
  <2>10. Tidy(x) /\ Good(x) /\ Avail(x) >= 1
    BY <2>2, <2>6 DEF NestInv, TidyInv
  <2>11. Good(x) /\ 1 \in 0..Avail(x) /\ Avail(x) \in Nat
    <3>1. Avail(x) \in Nat
      BY <2>10, TopOfView
    <3> HIDE DEF x
    <3> QED BY <2>10, <3>1
  <2> HIDE DEF x
  <2>12. /\ Good(y) /\ Steady(y, x)
         /\ CallsOf(y) = Model!WithVals(CallsOf(x), SubSeq(TopVals(x), 1, Avail(x) - 1))
    BY <2>11, DropView
  <2>13. Alike(y, x)
    BY <2>10, TakesOne
  <2> HIDE DEF y
  <2> DEFINE z == Push(y, w)
  <2>14. Good(z) /\ CallsOf(z) = Model!PushOn(CallsOf(y), w) /\ Steady(z, y) /\ Alike(z, y)
    BY <2>7, <2>12, PushView, PushGood
  <2>15. z = g
    BY DEF x, y
  <2> HIDE DEF z, g
  <2>16. /\ Good(g) /\ g # Nil /\ g.alive /\ Tidy(g) /\ g.param = x.param /\ g.spawned = x.spawned
         /\ CallsOf(g) = Model!PushOn(Model!WithVals(CallsOf(x), SubSeq(TopVals(x), 1, Avail(x) - 1)), w)
    <3>1. g # Nil
      BY <2>14, <2>15, NilAssumption DEF Good
    <3>2. x.alive
      BY <2>2 DEF x
    <3> QED BY <2>10, <2>12, <2>13, <2>14, <2>15, <3>1, <3>2 DEF Steady, Alike
  <2> HIDE DEF c, s, f
  <2>17. co'[c] = p /\ co'[e] = g /\ \A d \in Coro : d # c /\ d # e => co'[d] = co[d]
    BY <1>2, <1>7, <2>2, <2>6, <2>9
  <2>18. TidyInv' /\ ParamInv' /\ ShownFresh' = ShownFresh
    <3>1. \A d \in Coro : d # c =>
           \/ co'[d] = co[d]
           \/ /\ On(f, d) /\ co[d] # Nil /\ co'[d] # Nil /\ Tidy(co'[d])
              /\ co'[d].param = co[d].param /\ co'[d].spawned = co[d].spawned
      BY <2>5, <2>6, <2>16, <2>17 DEF x
    <3> QED BY <1>1, <1>5, <1>6, <1>8, <2>4, <2>5, <2>17, <3>1, LeftBelow DEF s, c
  <2>19. ShownCalls' = [ShownCalls EXCEPT ![c] = View(q), ![e] = CallsOf(g)]
    <3>1. View(g) = CallsOf(g)
      BY <2>16 DEF View
    <3> QED BY <1>2, <1>6, <2>2, <2>6, <2>17, <3>1, StateShown
  <2>20. ShownCalls[e] = CallsOf(x)
    BY <2>6, StateShown DEF View, Lives, x
  <2>21. Model!Vals(e) = TopVals(x) /\ Len(TopVals(x)) = Avail(x)
    <3>1. Parts(CallsOf(x), LowCalls(x), x.runtime.native, x.runtime.args, LowBlocks(x), TopVals(x), Caught(x))
      BY <2>10, ViewParts
    <3>2. Len(TopVals(x)) = Avail(x)
      BY <2>10, TopOfView
    <3>3. Last(Last(ShownCalls[e]).blocks).vals = TopVals(x)
      BY <2>20, <3>1 DEF Parts
    <3>4. Model!Vals(e) = TopVals(x)
      BY <3>3, SameEnds DEF Model!Vals, Model!Top, Model!Inner
    <3> QED BY <3>2, <3>4
  <2>22. Model!Keep(e, 1) = SubSeq(TopVals(x), 1, Avail(x) - 1)
    BY <2>21 DEF Model!Keep
  <2>23. Model!Front(ShownChain[t]) # <<>> /\ Model!Last(Model!Front(ShownChain[t])).co = e
    BY <1>11, <2>8, SameEnds
  <2>24. ShownCalls' = [ShownCalls EXCEPT ![c] = View(q),
                          ![Model!Last(Model!Front(ShownChain[t])).co] =
                            Model!PushOn(Model!WithVals(@, Model!Keep(Model!Last(Model!Front(ShownChain[t])).co, 1)), w)]
    BY <2>2, <2>16, <2>19, <2>20, <2>22, <2>23
  <2>25. Model!Leave(t, c, View(q), w)
    BY <1>9, <1>11, <1>12, <2>4, <2>18, <2>23, <2>24 DEF Model!Leave
  <2> QED BY <2>18, <2>25 DEF c, w
<1> QED BY <1>13, <1>14

(* A dead coroutine, and one that has yielded.                             *)
LEMMA DeadLeaves ==
  ASSUME NEW r, Good(r), r.frames = <<>>
  PROVE  LET q == [LeaveFrame(r) EXCEPT !.alive = FALSE]
         IN  Leaves(q) /\ View(q) = <<>>
<1> DEFINE q == [LeaveFrame(r) EXCEPT !.alive = FALSE]
<1>1. Off(q)
  BY DeadIsOff
<1>2. q \in CoroSet
  BY <1>1 DEF Off
<1>3. q # Nil
  BY <1>2, NilAssumption
<1>4. ~ q.alive
  BY LeaveRoot
<1> HIDE DEF q
<1> QED BY <1>2, <1>3, <1>4 DEF Leaves, View, q

(* Return, RETV.                                                           *)
LEMMA ReturnShown ==
  ASSUME NestInv, NEW t \in Thread, Return(t)
  PROVE  Shows
<1> DEFINE r == Current(t)
           c == Active(t).co
           v == IF Avail(r) = 0 THEN None ELSE TopOf(r)
           p == LeaveFrame(r)
           w == IF Model!Vals(c) = <<>> THEN None ELSE Model!Last(Model!Vals(c))
<1>1. Ink(t) /\ Returned(t, r, v) /\ Interp(t)
  BY DEF Return, Ink
<1>2. /\ CoroInv /\ cstack[t] # <<>> /\ NoneFailing /\ ~ Active(t).native /\ ~ r.runtime.native
      /\ c \in Coro /\ co[c] = r /\ Good(r) /\ r.alive /\ Tidy(r)
      /\ ShownCalls[c] = CallsOf(r)
      /\ Model!Vals(c) = TopVals(r) /\ Avail(r) \in Nat
      /\ (TopVals(r) = <<>> <=> Avail(r) = 0)
  BY <1>1, InkShown
<1>3. v \in Values /\ v = w /\ v # Nil
  <2>1. Avail(r) = 0 \/ Avail(r) >= 1
    BY <1>2
  <2>2. Avail(r) >= 1 => TopOf(r) = Last(TopVals(r)) /\ TopOf(r) \in Values
    BY <1>2, TopOfView
  <2> HIDE DEF r, c
  <2> QED BY <1>2, <2>1, <2>2, SameEnds, ValuesAreNotNil
<1>4. EndsWith(t, v)
  BY <1>2, <1>3 DEF EndsWith
<1>5. Model!Inner(c).native = r.runtime.native
  BY <1>2, TopShown
<1>6. Model!Returned(t, c, w) => Model!InkStep(t, c)
  BY DEF Model!InkStep, Model!Return
<1>7. ShownExcept = Nil /\ ShownFailing = Nil
  BY <1>1, <1>2, ExceptNow
<1> HIDE DEF v, w
<1>8. CASE r.frames = <<>>
  <2> DEFINE q == [p EXCEPT !.alive = FALSE]
  <2>1. End(t, q, v)
    BY <1>1, <1>8 DEF Returned
  <2>2. Leaves(q) /\ View(q) = <<>>
    BY <1>2, <1>8, DeadLeaves
  <2>3. Begins(cstack[t], Len(cstack[t]))
    BY <1>1, <1>2, <1>8, LoopFacts
  <2> HIDE DEF q
  <2>4. TidyInv' /\ ParamInv' /\ Model!Leave(t, c, View(q), IF v = Nil THEN None ELSE v)
    BY <1>1, <1>4, <2>1, <2>2, <2>3, LeaveShown
  <2>5. Model!Leave(t, c, <<>>, w)
    BY <1>3, <2>2, <2>4
  <2>6. Model!Front(ShownCalls[c]) = <<>>
    <3>1. Parts(CallsOf(r), LowCalls(r), r.runtime.native, r.runtime.args, LowBlocks(r), TopVals(r), Caught(r))
      BY <1>2, ViewParts
    <3>2. LowCalls(r) \in Seq(ShownCall) /\ Len(LowCalls(r)) = Len(r.frames)
      BY <1>2, ViewIs
    <3>3. LowCalls(r) = <<>>
      BY <1>8, <3>2, EmptySeq
    <3> QED BY <1>2, <3>1, <3>3, SameEnds DEF Parts
  <2>7. Model!Returned(t, c, w)
    BY <2>5, <2>6 DEF Model!Returned
  <2>8. ModelStep
    BY <1>1, <1>6, <2>7, InkModel
  <2> QED BY <2>4, <2>8 DEF Shows
<1>9. ASSUME r.frames # <<>>
      PROVE  /\ GoesOn(p, r) /\ CallsOf(p) = Front(CallsOf(r)) /\ Front(CallsOf(r)) # <<>>
             /\ Last(Front(CallsOf(r))).native = p.runtime.native
             /\ (Depth(r) - 1 \in Natives(r) <=> p.runtime.native)
  BY <1>2, <1>9, CallLeaves
<1>10. CASE r.frames # <<>> /\ p.runtime.native
  <2>1. End(t, p, v)
    BY <1>1, <1>10 DEF Returned
  <2> HIDE DEF p
  <2>2. /\ GoesOn(p, r) /\ CallsOf(p) = Front(CallsOf(r)) /\ Front(CallsOf(r)) # <<>>
        /\ Last(Front(CallsOf(r))).native /\ Depth(r) - 1 \in Natives(r)
    BY <1>9, <1>10
  <2>3. /\ TidyInv' /\ ParamInv'
        /\ Model!SetCalls(c, CallsOf(p))
        /\ ShownFresh' = ShownFresh /\ start' = start
        /\ ShownChain' = [ShownChain EXCEPT ![t] = Model!Front(@)]
        /\ ~ (v = Nil /\ ~ Active(t).trap) => ShownExcept' = Nil /\ ShownFailing' = Nil
    BY <1>1, <1>4, <1>10, <2>1, <2>2, EndCallbackShown
  <2>4. Model!Front(ShownCalls[c]) = Front(CallsOf(r)) /\ Model!Last(Front(CallsOf(r))).native
    BY <1>2, <2>2, SameEnds
  <2>5. Model!CallsBack(c)
    BY <1>2, <1>5, <2>4 DEF Model!CallsBack
  <2> HIDE DEF c, r
  <2>6. Model!Returned(t, c, w)
    BY <1>3, <1>7, <2>2, <2>3, <2>4, <2>5 DEF Model!Returned
  <2>7. ModelStep
    BY <1>1, <1>6, <2>6, InkModel DEF c
  <2> QED BY <2>3, <2>7 DEF Shows
<1>11. CASE r.frames # <<>> /\ ~ p.runtime.native
  <2> DEFINE q == Push(p, v)
  <2>1. Local(t, q)
    BY <1>1, <1>11 DEF Returned
  <2> HIDE DEF p
  <2>2. /\ GoesOn(p, r) /\ CallsOf(p) = Front(CallsOf(r)) /\ Front(CallsOf(r)) # <<>>
        /\ ~ Last(Front(CallsOf(r))).native
    BY <1>9, <1>11
  <2>3. Good(q) /\ CallsOf(q) = Model!PushOn(CallsOf(p), v) /\ Steady(q, p) /\ Alike(q, p)
    BY <1>3, <2>2, PushView, PushGood DEF GoesOn
  <2> HIDE DEF q
  <2>4. GoesOn(q, r)
    <3>1. GoesOn(q, p)
      BY <2>2, <2>3, SteadyGoesOn DEF GoesOn
    <3> QED BY <2>2, <3>1, GoesOnTwice
  <2>5. Model!Front(ShownCalls[c]) = Front(CallsOf(r)) /\ ~ Model!Last(Front(CallsOf(r))).native
    BY <1>2, <2>2, SameEnds
  <2>6. ~ Model!CallsBack(c)
    BY <2>5 DEF Model!CallsBack
  <2>7. Model!SetCalls(c, CallsOf(q)) /\ Model!NoSwitch => Model!Returned(t, c, w)
    BY <1>3, <2>2, <2>3, <2>5, <2>6 DEF Model!Returned, Model!NoSwitch
  <2>8. Model!SetCalls(c, CallsOf(q)) /\ Model!NoSwitch => Model!InkStep(t, c)
    BY <1>6, <2>7
  <2> QED BY <1>1, <2>1, <2>4, <2>8, LocalInk
<1> QED BY <1>8, <1>10, <1>11

(* YIELD.                                                                  *)
LEMMA YieldShown ==
  ASSUME NestInv, NEW t \in Thread, Yield(t), "spawn" \notin Quirks
  PROVE  Shows
<1> DEFINE r == Current(t)
           c == Active(t).co
           p == Drop(r, 1)
           v == TopOf(r)
<1>1. /\ Ink(t) /\ Avail(r) >= 1 /\ Interp(t)
      /\ r.hasNative => Raised(t, p, Exc)
      /\ ~ r.hasNative => (r.spawned => r.param = "no") /\ End(t, p, v)
  BY DEF Yield, YieldsFail, Ink
<1>2. /\ CoroInv /\ cstack[t] # <<>> /\ NoneFailing /\ ~ Active(t).native
      /\ c \in Coro /\ co[c] = r /\ Good(r) /\ r.alive
      /\ ShownCalls[c] = CallsOf(r)
  BY <1>1, InkShown
<1>3. CASE r.hasNative
  <2>1. 1 \in 1..2
    OBVIOUS
  <2> QED BY <1>1, <1>3, <2>1, ExcRaised
<1>4. CASE ~ r.hasNative
  <2>1. Begins(cstack[t], Len(cstack[t])) /\ Natives(r) = {}
    <3>1. ~ Active(t).failing
      BY <1>1, <1>2, InkFacts
    <3> QED BY <1>1, <1>2, <1>4, <3>1, LoopFacts
  <2>2. /\ Good(p) /\ GoesOn(p, r)
        /\ CallsOf(p) = Model!WithVals(ShownCalls[c], Model!Keep(c, 1))
        /\ v = Model!Last(Model!Vals(c)) /\ v \in Values /\ v # Nil
        /\ Model!Vals(c) # <<>>
    BY <1>1, TopTaken
  <2>3. r.param = "no"
    <3>1. OnStack(c)
      BY <1>1, <1>2, ActiveFacts
    <3> QED BY <1>1, <1>2, <1>4, <3>1 DEF NestInv, ParamInv
  <2>4. End(t, p, v) /\ EndsWith(t, v)
    BY <1>1, <1>2, <1>4, <2>2 DEF EndsWith
  <2> HIDE DEF p, v
  <2>5. Leaves(p)
    BY <2>2, <2>3 DEF Leaves, GoesOn, Good
  <2>6. View(p) = CallsOf(p)
    <3>1. p # Nil
      BY <2>2, NilAssumption DEF Good
    <3> QED BY <2>2, <3>1 DEF View, GoesOn
  <2>7. TidyInv' /\ ParamInv' /\ Model!Leave(t, c, View(p), IF v = Nil THEN None ELSE v)
    BY <1>1, <2>1, <2>4, <2>5, LeaveShown
  <2>8. \A i \in DOMAIN ShownCalls[c] : ~ ShownCalls[c][i].native
    <3>1. CallsOf(r) \in Seq(ShownCall) /\ Len(CallsOf(r)) = Depth(r)
      BY <1>2, ViewIs
    <3>2. \A i \in 1..Depth(r) : CallsOf(r)[i].native = CallAt(r, i).native
      BY <1>2, ViewIs
    <3>3. \A i \in 1..Depth(r) : ~ CallAt(r, i).native
      BY <2>1 DEF Natives
    <3>4. DOMAIN CallsOf(r) = 1..Depth(r)
      BY <3>1
    <3> QED BY <1>2, <3>2, <3>3, <3>4
  <2>9. Model!Yield(t, c)
    BY <2>2, <2>6, <2>7, <2>8 DEF Model!Yield
  <2>10. Model!InkStep(t, c)
    BY <2>9 DEF Model!InkStep
  <2>11. ModelStep
    BY <1>1, <2>10, InkModel
  <2> QED BY <2>7, <2>11 DEF Shows
<1> QED BY <1>3, <1>4

(* An exception leaves a block or a call, or is caught.                    *)
LEMMA UnwindShown ==
  ASSUME NestInv, NEW t \in Thread, Unwind(t)
  PROVE  Shows
<1> DEFINE r == Current(t)
           c == Active(t).co
           p == LeaveFrame(r)
<1>1. /\ Interp(t) /\ Active(t).failing /\ CoroInv /\ Active(t) = Last(cstack[t])
      /\ cstack[t] # <<>> /\ ~ Active(t).native
  BY DEF Unwind, Interp, NestInv, Active
<1>2. /\ c \in Coro /\ co[c] = r /\ Good(r) /\ r.alive /\ Tidy(r)
      /\ ShownCalls[c] = CallsOf(r)
      /\ Model!Inner(c) = Last(CallsOf(r)) /\ Model!Inner(c).native = r.runtime.native
      /\ Model!Top(c).catch = Caught(r)
      /\ Model!Blocks(c) = Len(LowBlocks(r)) + 1
  BY <1>1, TopShown
<1>3. EndsWith(t, Nil)
  BY <1>1 DEF EndsWith
<1>4. except \in Values /\ except # Nil /\ ShownExcept = except /\ ShownFailing = t
  <2>1. FailsAt(cstack[t])
    BY <1>1 DEF FailsAt
  <2> QED BY <1>1, <2>1, ExceptNow, ValuesAreNotNil DEF CoroInv, OneException, Types
<1>5. Model!Unwind(t, c) => ModelStep
  BY <1>1, UnwindModel
<1>6. /\ Parts(CallsOf(r), LowCalls(r), r.runtime.native, r.runtime.args, LowBlocks(r), TopVals(r), Caught(r))
      /\ Len(LowBlocks(r)) = Len(r.blocks) - r.runtime.bcur
      /\ LowBlocks(r) \in Seq(ShownBlock) /\ LowCalls(r) \in Seq(ShownCall) /\ Len(LowCalls(r)) = Len(r.frames)
  BY <1>2, ViewParts, ViewIs
<1>7. CASE Caught(r)
  <2> DEFINE q == Push(SetCatchOf(r, FALSE), except)
  <2>1. /\ SetCoro(t, q) /\ except' = Nil /\ start' = start
        /\ cstack' = [cstack EXCEPT ![t] = Marked(cstack[t], FALSE)]
    BY <1>7, Zenon DEF Unwind, Marked, Active
  <2>2. Good(q) /\ Alike(q, r) /\ Steady(q, r) /\ CallsOf(q) = Model!Caught(CallsOf(r), except)
    BY <1>2, <1>4, <1>7, CaughtView
  <2> HIDE DEF q
  <2>3. GoesOn(q, r) /\ FALSE \in BOOLEAN
    BY <1>2, <2>2, SteadyGoesOn
  <2>4. /\ TidyInv' /\ ParamInv'
        /\ Model!SetCalls(c, CallsOf(q))
        /\ ShownFresh' = ShownFresh /\ ShownChain' = ShownChain
        /\ ShownExcept' = (IF FALSE THEN except' ELSE Nil) /\ ShownFailing' = (IF FALSE THEN t ELSE Nil)
    BY <1>1, <2>1, <2>3, MarkShown
  <2> HIDE DEF r, c
  <2>5. Model!Unwind(t, c)
    BY <1>2, <1>4, <1>7, <2>1, <2>2, <2>4 DEF Model!Unwind
  <2> QED BY <1>5, <2>4, <2>5 DEF Shows, c
<1>8. CASE ~ Caught(r) /\ BlockOpen(r)
  <2> DEFINE q == LeaveBlock(r)
  <2>1. Local(t, q)
    BY <1>8 DEF Unwind
  <2>2. /\ Good(q) /\ Steady(q, r) /\ LowBlocks(r) # <<>>
        /\ CallsOf(q) = Append(LowCalls(r), [native |-> r.runtime.native, args |-> r.runtime.args,
                                             blocks |-> LowBlocks(r)])
    BY <1>2, <1>8, LeaveBlockView
  <2>3. Alike(q, r)
    BY <1>2, LeaveBlockGood
  <2> HIDE DEF q
  <2>4. GoesOn(q, r)
    BY <1>2, <2>2, <2>3, SteadyGoesOn
  <2>5. TidyInv' /\ ParamInv' /\ Model!SetCalls(c, CallsOf(q)) /\ Model!NoSwitch
    BY <1>1, <2>1, <2>4, LocalShown
  <2>6. Model!Front(Model!Inner(c).blocks) = LowBlocks(r)
    BY <1>2, <1>6, SameEnds DEF Parts
  <2>7. CallsOf(q) = Model!WithBlocks(ShownCalls[c], Model!Front(Model!Inner(c).blocks))
    BY <1>2, <1>6, <2>2, <2>6 DEF Parts
  <2>8. Model!Blocks(c) > 1
    <3>1. Len(LowBlocks(r)) \in Nat /\ Len(LowBlocks(r)) # 0
      BY <1>6, <2>2, EmptySeq
    <3> HIDE DEF c, r
    <3> QED BY <1>2, <3>1
  <2> HIDE DEF c, r
  <2>9. Model!Unwind(t, c)
    BY <1>2, <1>8, <2>5, <2>7, <2>8 DEF Model!Unwind
  <2> QED BY <1>5, <2>5, <2>9 DEF Shows, c
<1>9. ASSUME ~ BlockOpen(r)
      PROVE  ~ Model!Top(c).catch /\ ~ (Model!Blocks(c) > 1)
  BY <1>1, <1>9, NativeHasNoBlock
<1>10. Len(ShownCalls[c]) = Len(r.frames) + 1 /\ r.frames \in Seq(FrameSet) /\ Len(r.frames) \in Nat
  BY <1>2, ViewIs, CoroFields DEF Good, Depth
<1>11. CASE ~ Caught(r) /\ ~ BlockOpen(r) /\ r.frames = <<>>
  <2> DEFINE q == [p EXCEPT !.alive = FALSE]
  <2>1. End(t, q, Nil)
    BY <1>11 DEF Unwind
  <2>2. Leaves(q) /\ View(q) = <<>>
    BY <1>2, <1>11, DeadLeaves
  <2>3. Begins(cstack[t], Len(cstack[t]))
    BY <1>1, <1>11, LoopFacts
  <2> HIDE DEF q
  <2> DEFINE v == Nil
  <2>4. End(t, q, v) /\ EndsWith(t, v)
    BY <1>3, <2>1
  <2> HIDE DEF v
  <2>5. TidyInv' /\ ParamInv' /\ Model!Leave(t, c, View(q), IF v = Nil THEN None ELSE v)
    BY <1>1, <2>2, <2>3, <2>4, LeaveShown
  <2>6. Model!Leave(t, c, <<>>, None)
    BY <2>2, <2>5 DEF v
  <2>7. Len(ShownCalls[c]) = 1
    BY <1>10, <1>11, EmptySeq
  <2> HIDE DEF c, r
  <2>8. Model!Unwind(t, c)
    BY <1>9, <1>11, <2>6, <2>7 DEF Model!Unwind
  <2> QED BY <1>5, <2>5, <2>8 DEF Shows, c
<1>12. ASSUME r.frames # <<>>
       PROVE  /\ GoesOn(p, r) /\ CallsOf(p) = Front(CallsOf(r)) /\ Front(CallsOf(r)) # <<>>
              /\ Last(Front(CallsOf(r))).native = p.runtime.native
              /\ (Depth(r) - 1 \in Natives(r) <=> p.runtime.native)
              /\ Len(ShownCalls[c]) # 1
  <2>1. Len(r.frames) # 0
    BY <1>10, <1>12, EmptySeq
  <2>2. Len(ShownCalls[c]) # 1
    <3> HIDE DEF c, r
    <3> QED BY <1>10, <2>1
  <2> QED BY <1>2, <1>12, <2>2, CallLeaves
<1>13. CASE ~ Caught(r) /\ ~ BlockOpen(r) /\ r.frames # <<>> /\ p.runtime.native
  <2>1. End(t, p, Nil)
    BY <1>13 DEF Unwind
  <2> HIDE DEF p
  <2>2. /\ GoesOn(p, r) /\ CallsOf(p) = Front(CallsOf(r)) /\ Front(CallsOf(r)) # <<>>
        /\ Last(Front(CallsOf(r))).native /\ Depth(r) - 1 \in Natives(r) /\ Len(ShownCalls[c]) # 1
    BY <1>12, <1>13
  <2> DEFINE v == Nil
             b == v = Nil /\ ~ Active(t).trap
  <2>3. End(t, p, v) /\ EndsWith(t, v)
    BY <1>3, <2>1
  <2> HIDE DEF v
  <2>4. /\ TidyInv' /\ ParamInv'
        /\ Model!SetCalls(c, CallsOf(p))
        /\ ShownFresh' = ShownFresh /\ start' = start
        /\ ShownChain' = [ShownChain EXCEPT ![t] = Model!Front(@)]
        /\ b => ShownExcept' = ShownExcept /\ ShownFailing' = ShownFailing
        /\ ~ b => ShownExcept' = Nil /\ ShownFailing' = Nil
    BY <1>1, <1>13, <2>2, <2>3, EndCallbackShown
  <2>5. b <=> ~ Active(t).trap
    BY DEF v
  <2>6. Model!Front(ShownCalls[c]) = Front(CallsOf(r)) /\ Model!Last(Front(CallsOf(r))).native
    BY <1>2, <2>2, SameEnds
  <2>7. ~ r.runtime.native
    BY <1>1, <1>2, <2>2, LoopDepth, ActiveFacts
  <2>8. Model!CallsBack(c)
    BY <1>2, <2>6, <2>7 DEF Model!CallsBack
  <2>9. Model!Last(ShownChain[t]).trap = Active(t).trap
    <3> DEFINE s == cstack[t]
    <3>1. s \in Stacks /\ s # <<>> /\ Active(t) = Last(s)
      BY <1>1, ActiveFacts
    <3> HIDE DEF s
    <3>2. /\ Front(s) \in Stacks /\ Last(s) \in Activation
          /\ LoopsOf(s) = Append(LoopsOf(Front(s)), Shown(Last(s)))
      BY <1>1, <3>1, LoopsTop
    <3>3. LoopsOf(Front(s)) \in Seq(LinkSet) /\ Shown(Last(s)) \in LinkSet
      BY <3>2, LoopsOn DEF Shown, LinkSet, Activation
    <3>4. Last(Append(LoopsOf(Front(s)), Shown(Last(s)))) = Shown(Last(s))
      BY <3>3, AppendEnds
    <3>5. ShownChain[t] = LoopsOf(s)
      BY StateShown DEF s
    <3> QED BY <3>1, <3>2, <3>4, <3>5, SameEnds DEF Shown
  <2> HIDE DEF c, r, b
  <2>10. Model!Unwind(t, c)
    BY <1>9, <1>13, <2>2, <2>4, <2>5, <2>6, <2>8, <2>9 DEF Model!Unwind
  <2> QED BY <1>5, <2>4, <2>10 DEF Shows, c
<1>14. CASE ~ Caught(r) /\ ~ BlockOpen(r) /\ r.frames # <<>> /\ ~ p.runtime.native
  <2>1. Local(t, p)
    BY <1>14 DEF Unwind
  <2> HIDE DEF p
  <2>2. /\ GoesOn(p, r) /\ CallsOf(p) = Front(CallsOf(r))
        /\ ~ Last(Front(CallsOf(r))).native /\ Len(ShownCalls[c]) # 1
    BY <1>12, <1>14
  <2>3. TidyInv' /\ ParamInv' /\ Model!SetCalls(c, CallsOf(p)) /\ Model!NoSwitch
    BY <1>1, <2>1, <2>2, LocalShown
  <2>4. Model!Front(ShownCalls[c]) = Front(CallsOf(r)) /\ ~ Model!Last(Front(CallsOf(r))).native
    BY <1>2, <2>2, SameEnds
  <2>5. ~ Model!CallsBack(c)
    BY <2>4 DEF Model!CallsBack
  <2> HIDE DEF c, r
  <2>6. Model!Unwind(t, c)
    BY <1>9, <1>14, <2>2, <2>3, <2>4, <2>5 DEF Model!Unwind, Model!NoSwitch
  <2> QED BY <1>5, <2>3, <2>6 DEF Shows, c
<1> QED BY <1>7, <1>8, <1>11, <1>13, <1>14

(* The first state.                                                        *)
LEMMA InitShown == Init => NestInv /\ Model!Init
<1> SUFFICES ASSUME Init PROVE NestInv /\ Model!Init
  OBVIOUS
<1> DEFINE z == Root("no")
           q == [z EXCEPT !.active = TRUE]
           a == Loop(MainCoro, TRUE)
           s == <<a>>
<1>1. /\ co = [c \in Coro |-> IF c = MainCoro THEN q ELSE Nil]
      /\ cstack = [t \in Thread |-> IF t = MainThread THEN s ELSE <<>>]
      /\ start = [t \in Thread |-> Nil]
      /\ except = Nil
  BY DEF Init
<1>2. MainCoro \in Coro /\ MainThread \in Thread
  BY CoroAssumption
<1>3. Good(z) /\ z.param = "no" /\ Tidy(z) /\ CallsOf(z) = <<Model!Frame(FALSE, <<>>, <<>>)>> /\ z.alive
  <2>1. Good(Root("no")) /\ Root("no").alive
    BY RootGood
  <2> QED BY <2>1, RootView
<1> HIDE DEF z
<1>4. /\ Good(q) /\ q # Nil /\ q.alive /\ Tidy(q) /\ q.param = "no"
      /\ CallsOf(q) = <<Model!Frame(FALSE, <<>>, <<>>)>>
  <2>1. z \in CoroSet
    BY <1>3 DEF Good
  <2>2. /\ q \in CoroSet /\ q.bottom = z.bottom /\ q.size = z.size /\ q.mem = z.mem /\ q.runtime = z.runtime
        /\ q.frames = z.frames /\ q.blocks = z.blocks /\ q.alive = z.alive /\ q.param = z.param
    BY <2>1 DEF CoroSet
  <2> HIDE DEF q
  <2>3. Good(q) /\ CallsOf(q) = CallsOf(z) /\ (Tidy(z) => Tidy(q))
    BY <1>3, <2>2, FlagsView
  <2>4. q # Nil
    BY <2>2, NilAssumption
  <2> QED BY <1>3, <2>2, <2>3, <2>4
<1>5. a \in Activation /\ ~ a.native /\ ~ a.failing /\ Shown(a) = Model!Link(MainCoro, TRUE)
  <2>1. TRUE \in BOOLEAN
    OBVIOUS
  <2> QED BY <1>2, <2>1, LoopShown
<1> HIDE DEF q, a
<1>6. co[MainCoro] = q /\ \A c \in Coro : c # MainCoro => co[c] = Nil
  BY <1>1, <1>2
<1>7. cstack[MainThread] = s /\ \A t \in Thread : t # MainThread => cstack[t] = <<>>
  BY <1>1, <1>2
<1>8. CoroInv
  BY InitOK
<1>9. TidyInv
  BY <1>4, <1>6 DEF TidyInv, Lives
<1>10. ParamInv
  <2> SUFFICES ASSUME NEW c \in Coro, OnStack(c)
               PROVE  co[c].param = "no"
    BY DEF ParamInv
  <2>1. PICK t \in Thread : On(cstack[t], c)
    BY <1>8, OnStackIs
  <2>2. co[c] # Nil
    BY <1>8, <2>1, OnIsAlive DEF Lives
  <2> QED BY <1>4, <1>6, <2>2
<1>11. ShownCalls = [c \in Coro |-> IF c = MainCoro THEN <<Model!Frame(FALSE, <<>>, <<>>)>> ELSE Nil]
  BY <1>4, <1>6, StateShown DEF View
<1>12. ShownFresh = [c \in Coro |-> "no"]
  BY <1>4, <1>6, StateShown DEF FreshOf
<1>13. ShownChain = [t \in Thread |-> IF t = MainThread THEN <<Model!Link(MainCoro, TRUE)>> ELSE <<>>]
  <2>1. <<>> \in Stacks
    BY DEF Stacks
  <2>2. LoopsOf(Append(<<>>, a)) = Append(LoopsOf(<<>>), Shown(a))
    BY <1>5, <2>1, LoopsMore
  <2>3. s = Append(<<>>, a) /\ \A x : Append(<<>>, x) = <<x>>
    OBVIOUS
  <2>4. LoopsOf(s) = <<Model!Link(MainCoro, TRUE)>>
    BY <1>5, <2>2, <2>3, NoLoops
  <2> QED BY <1>7, <2>4, NoLoops, StateShown
<1>14. ShownExcept = Nil /\ ShownFailing = Nil
  <2>1. \A t \in Thread : ~ FailsAt(cstack[t])
    BY <1>5, <1>7 DEF FailsAt, Last
  <2> QED BY <2>1, Quiet
<1>15. Model!Init
  BY <1>1, <1>11, <1>12, <1>13, <1>14 DEF Model!Init
<1> QED BY <1>8, <1>9, <1>10, <1>15 DEF NestInv

(* Every step of a thread.                                                 *)
LEMMA StepShown ==
  ASSUME NestInv, "reenter" \notin Quirks, "callback" \notin Quirks, "spawn" \notin Quirks,
         NEW t \in Thread, Step(t)
  PROVE  Shows
<1>1. CASE PushValue(t) \/ PopValue(t) \/ PushBlock(t) \/ PopBlock(t) \/ PopBlockSave(t)
  BY <1>1, PushValueShown, PopValueShown, PushBlockShown, PopBlockShown, PopBlockSaveShown
<1>2. CASE SetCatch(t) \/ Invoke(t) \/ Return(t) \/ Yield(t) \/ Raise(t) \/ Fault(t)
  BY <1>2, SetCatchShown, InvokeShown, ReturnShown, YieldShown, RaiseShown, FaultShown
<1>3. CASE Fork(t) \/ Resume(t) \/ Unwind(t)
  BY <1>3, ForkShown, ResumeShown, UnwindShown
<1>4. CASE NativeReturn(t) \/ NativeFail(t) \/ NativeUnwind(t) \/ NativeCall(t) \/ Spawn(t)
  BY <1>4, NativeReturnShown, NativeFailShown, NativeUnwindShown, NativeCallShown, SpawnShown DEF Matched
<1>5. CASE ThreadStart(t)
  BY <1>5, ThreadStartShown
<1> QED BY <1>1, <1>2, <1>3, <1>4, <1>5 DEF Step

(* Every step.                                                             *)
LEMMA NextShown ==
  ASSUME NestInv, "reenter" \notin Quirks, "callback" \notin Quirks, "spawn" \notin Quirks, [Next]_vars
  PROVE  NestInv' /\ ModelStep
<1>1. Shows
  <2>1. CASE Next
    BY <2>1, StepShown DEF Next
  <2>2. CASE UNCHANGED vars
    BY <2>2, Stutters
  <2> QED BY <2>1, <2>2
<1>2. CoroInv'
  BY CoroNext DEF NestInv
<1> QED BY <1>1, <1>2 DEF Shows, NestInv

(* One flat stack with saved pointers, block counts and has_native flags   *)
(* implements nested calls and blocks: every instruction, callback, yield, *)
(* resume and exception does to the stacks what it does to the nest.       *)
THEOREM CoroImplementsCalls ==
  ASSUME "reenter" \notin Quirks, "callback" \notin Quirks, "spawn" \notin Quirks
  PROVE  Spec => Nests
<1>1. Init => NestInv /\ Model!Init
  BY InitShown
<1>2. NestInv /\ [Next]_vars => NestInv' /\ [Model!Next]_(Model!vars)
  BY NextShown DEF ModelStep
<1> QED BY <1>1, <1>2, PTL DEF Spec, Nests, Model!Spec
=============================================================================
