------------------------------- MODULE MCInk -------------------------------
(***************************************************************************)
(* Programs for InkMachine, with every kind of tree of the language.       *)
(***************************************************************************)
EXTENDS InkMachine

Shape == INSTANCE InkTree

Branching == <<
  "if a && f() || !b: g() elif d: 2 else 3",
  "x = if a || b && c: { f(); 1 } elif d && e: 2 else none",
  "r = (a && b) || c; s = a ? b : { d }, 4",
  "x = while a && (b || c): if d: break elif e: cont else { g(); h() }\n x",
  "if !(a && b): { f() } else: if a: 1 elif b: 2 else 3",
  "while f(): while a || g(): if b: break else cont\n 7" >>

Loops == <<
  "for x in l: if x: break elif f(x): cont else { g(x) }",
  "y = for [a, b] in l: for c in a: { if c: break else b = c }",
  "[ f(x, y) for x in l if x for y in x if y != a ]",
  "[ [ y for y in x ] for x in [1, *l, 2] ]",
  "fn l: for x in l: for y in x: if y: ret x else cont",
  "while a: { for x in l: { if x: break else cont } a = f() }" >>

Exceptions == <<
  "try f() catch e: g(e) final: h()",
  "x = try f() catch: 1; y = try: a.b catch [p, q]: p final: 5",
  "fn x: { try { ret f(x) } catch e: raise e\n 3 }",
  "fn: { try raise f() final: g() }",
  "try { try f() catch e.x: g() } catch e: h(e)",
  "for x in l: { try { for y in x: f(y) } catch e: g(e) }",
  "try { while a: [p, *q, z] = r } catch e: e.x",
  "try { while a: if b: break else cont } catch: f(); try f(* { while a: break\n l }) catch: 1",
  "for x in l: try { if x: break elif f(): cont else a } catch: g()",
  "try f(1, try g() catch: 2) catch: assert h()" >>

Patterns == <<
  "[a, [b, c.d], {x: y, .proto: z, +: p, [i]: q[i]}] = v",
  "[*a, b] = [p, *q, s] = v; x.y = z[] = w[1, 2] = a = none",
  "del a; del o.x; x = del [p, q[i]]; del l[1]",
  "loc.x = top.y; top.z = loc; loc = o; x = top",
  "a += 1; o.x -= f(); l[1] *= m = 3; o.+ = none; p.proto = o.proto",
  "r = ref a.b; deref r = deref r + 1",
  "x = { a: 1, proto: f(), .b: g(), -@: c, [1, d]: 2 }" >>

Operators == <<
  "a + b * c - d % e << g >> h >>> i & j | k ^ l == m != n",
  "a < b is c; a >= b; x = -a + ~b, a > b <= !c",
  "o.m(1, p[2], f(,x)) +++ o.+(a); --- o; a *** b +++ c",
  "f(_, a, _); x = o.m(_, *l); o.+(*l, 1, *k)",
  "f(a) { b }; g { x, y -> x + y }; o a b",
  "\"a#{b + \\\"c\\\"}d#{e}\"; x = \"#{f(1)}\"" >>

Functions == <<
  "fn a, b = f(a), *c: { g(a, b) }; fn: ret; h = fn x = 1: ret x",
  "import a; import b.c; import d.e.f; x = import g",
  "c = fork: { x = yield 1; yield }; resume c: 2; y = resume fork f",
  "assert a; x = assert f() && a",
  "fn x: fn y: x + y",
  "1; 2.5; none; \"s\"; a; fn: 1; {}; x = { f(); }" >>

(* A loop is left, or goes on, after a try in it has ended.                *)
AfterTry == <<
  "for x in l: { try f(x) catch: g(); if x: break else cont }" >>

AllPrograms == Branching \o Loops \o Exceptions \o Patterns \o Operators \o Functions
(* They compile, and their trees are what the code generator expects.      *)
ASSUME ProgramsAssumption ==
  \A p \in DOMAIN Programs :
    Units[p] # <<>> /\ Shape!WellFormed(Source!Parser!parseSource(Programs[p]), "exprs")
=============================================================================
