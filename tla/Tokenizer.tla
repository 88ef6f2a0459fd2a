----------------------------- MODULE Tokenizer -----------------------------
(***************************************************************************)
(* The tokenizer of util/parser.h, shared by the ink and the ias front     *)
(* end: a table gives each state its entries, tried in order; an entry has *)
(* the characters it matches, the next state, the token it completes (or   *)
(* "") and its flags:                                                      *)
(*   ign  forget what was read          exc  do not take the character     *)
(*   ext  take it into the token        msg  give up with an error         *)
(* Source positions are left out, and characters are ASCII.                *)
(***************************************************************************)
EXTENDS Integers, Sequences

Ch(s, i) == SubSeq(s, i, i)
Chars(s) == {Ch(s, i) : i \in 1 .. Len(s)}
EOS      == "end of source"     \* the '\0' after the text
AnyChar  == {"any"}             \* "."

Letters == Chars("abcdefghijklmnopqrstuvwxyzABCDEFGHIJKLMNOPQRSTUVWXYZ")
Digits  == Chars("0123456789")

Entry(match, to, save, flags) == [match |-> match, to |-> to, save |-> save, flags |-> flags]
To(match, to)         == Entry(match, to, "", {})
Save(match, to, save) == Entry(match, to, save, {})
Ign(match, to)        == Entry(match, to, "", {"ign"})

(* _is_match                                                               *)
Matches(c, match) == match = AnyChar \/ c \in match

(* The first entry that matches, or the one of an unexpected character.    *)
FindEntry(entries, c) ==
  LET hits == {i \in DOMAIN entries : Matches(c, entries[i].match)} IN
  IF hits = {} THEN Entry(AnyChar, "UNEXP", "", {"unexp"})
  ELSE entries[CHOOSE i \in hits : \A j \in hits : i <= j]

Lexeme(id, val) == [id |-> id, val |-> val, order |-> 0]

(***************************************************************************)
(* One turn of the loop.  `c` is the position of the character, `from` and *)
(* `len` the token that is being read, `exc` that the character was seen.  *)
(***************************************************************************)
Turn(table, text, s) ==
  LET cur  == IF s.c > Len(text) THEN EOS ELSE Ch(text, s.c)
      e    == FindEntry(table[s.st], cur)
      same == e.to = s.st
      has(f) == f \in e.flags
      next == [s EXCEPT !.st = e.to, !.end = cur = EOS, !.exc = FALSE, !.c = @ + 1]
      last == s.from + s.len - (IF has("ext") \/ same THEN 0 ELSE 1)
  IN CASE has("msg")   -> [s EXCEPT !.failed = TRUE, !.end = TRUE]
       [] has("unexp") -> [next EXCEPT !.c = s.c]
       [] has("ign")   -> LET c == IF has("exc") THEN s.c ELSE s.c + 1
                          IN  [next EXCEPT !.c = c, !.from = c, !.len = 0]
       [] e.save # ""  ->
            LET taken == has("exc") \/ same
                c     == IF taken THEN s.c + 1 ELSE s.c
            IN [next EXCEPT !.c = c, !.from = c, !.len = 0, !.exc = ~taken, !.end = @ /\ taken,
                            !.toks = Append(@, Lexeme(e.save, IF cur = EOS /\ same THEN "" ELSE SubSeq(text, s.from, last)))]
       [] OTHER        -> IF has("exc") THEN [next EXCEPT !.c = s.c] ELSE [next EXCEPT !.len = @ + 1]

(* At most n turns; each character takes at most two.                      *)
RECURSIVE Scan(_, _, _, _)
Scan(table, text, s, n) ==
  IF s.end THEN s
  ELSE IF n = 1 THEN Turn(table, text, s)
  ELSE LET half == Scan(table, text, s, n \div 2) IN Scan(table, text, half, n - n \div 2)

NoTokens == <<Lexeme("FAILED", "")>>
Tokenize(table, text) ==
  IF text = "" THEN <<>>
  ELSE LET start == [st |-> "INIT", c |-> 1, from |-> 1, len |-> 0, toks |-> <<>>,
                     exc |-> FALSE, end |-> FALSE, failed |-> FALSE]
           s == Scan(table, text, start, 2 * (Len(text) + 2))
       IN  IF s.failed THEN NoTokens ELSE s.toks
=============================================================================
