----------------------------- MODULE MCModules ------------------------------
(***************************************************************************)
(* Programs and files for Modules.                                         *)
(***************************************************************************)
EXTENDS Modules, Compiler

Source(base, suffix, text) == [base |-> base, suffix |-> suffix, text |-> text]

(* The program imports a, which joins and fails, d/b, and a again.  b is a *)
(* cache file that imports c next to it and then raises; c imports b again *)
(* and a module that does not exist.  A thread imports c, which is another *)
(* file in its directory, and then d/b.                                    *)
TheFiles ==
     "p/main.ink" :> Source("p", ".ink",
       "try import a catch: none\n import d.b; fn: { import c\n import d.b }\n import a")
  @@ "p/a.ink"    :> Source("p", ".ink", "import d.b\n join()\n raise 1")
  @@ "p/c/init.ink" :> Source("p/c", ".ink", "import e")
  @@ "lib/e.so"   :> Source("lib", ".so", "")
  @@ "p/d/b.ivc"  :> Source("p/d", ".ivc", "(fn x: { import c\n raise x })(1)")
  @@ "p/d/c.ink"  :> Source("p/d", ".ink", "try import b catch: none\n try import z catch: none")


(* A cache file holds what its source compiles to, up to where the         *)
(* compiler has come.                                                      *)
CompiledUnit(id) == IF TheFiles[id].suffix = ".so" THEN NoUnit ELSE Compile(TheFiles[id].text)
LoadedAt(file) == [n \in 0 .. Len(file) |-> Executable(decodeCache(SubSeq(file, 1, n)))]
TheDisk ==
  LET Whole(id) == Executable(CompiledUnit(id))
      At(id)    == IF TheFiles[id].suffix = ".ivc" THEN LoadedAt(encodeCache(CompiledUnit(id))) ELSE 0 :> Whole(id)
  IN [id \in DOMAIN TheFiles |-> [whole |-> Whole(id), at |-> At(id)]]
ThePaths == <<"lib">>
Threads  == {"main", "u"}
Joiners  == {"main"}
Functions == [t \in Threads |-> IF t = "main" THEN 1 ELSE 2]
=============================================================================
