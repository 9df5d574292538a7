----------------------------- MODULE KeyPattern -----------------------------
(***************************************************************************)
(* The patterns of the KEYS command: jk_str_match, and what a pattern is   *)
(* understood to stand for.  Names and patterns are sequences of           *)
(* characters; a name is not empty.                                        *)
(***************************************************************************)
EXTENDS Naturals, Sequences, FiniteSets

\* The characters in use, in the order of their codes.
Characters == <<"*", "-", "?", "[", "\\", "]", "^", "a", "b", "c">>

Upto(x, y) ==
  LET Code(c) == CHOOSE n \in DOMAIN Characters : Characters[n] = c
      Between(n, m) == {Characters[i] : i \in n .. m}
  IN  Between(Code(x), Code(y)) \cup Between(Code(y), Code(x))

CharAt(p, i) == IF i <= Len(p) THEN p[i] ELSE "end"

-----------------------------------------------------------------------------
(* The code *)

\* What stands between brackets, from i on: the characters listed, and where the
\* list ends.  One that is not closed ends with the pattern.
Bracket(p, first) ==
  LET list[i \in 1 .. Len(p) + 3] ==
        LET Then(chars, n) == [list[n] EXCEPT !.chars = @ \cup chars]
        IN  CASE CharAt(p, i) = "\\" -> Then({CharAt(p, i + 1)}, i + 2)
              [] CharAt(p, i) = "]" -> [chars |-> {}, last |-> i]
              [] i > Len(p) -> [chars |-> {}, last |-> Len(p)]
              [] CharAt(p, i) \notin {"\\", "]"} /\ CharAt(p, i + 1) = "-" /\ i + 2 <= Len(p) ->
                   Then(Upto(p[i], p[i + 2]), i + 3)
              [] OTHER -> Then({p[i]}, i + 1)
  IN  list[first]

\* When the name is used up stars may follow.
OnlyStars(p, i) == \A n \in i .. Len(p) : p[n] = "*"

\* jk_str_match: the turns of its loop, and the calls it makes of itself for a star.
StrMatch(p, name) ==
  LET match[i \in 1 .. Len(p) + 1, j \in 1 .. Len(name)] ==
        LET Rest(n) == IF j = Len(name) THEN OnlyStars(p, n) ELSE match[n, j + 1]
            negated == CharAt(p, i + 1) = "^"
            bracket == Bracket(p, IF negated THEN i + 2 ELSE i + 1)
            escaped == p[i] = "\\" /\ i < Len(p)
            literal == IF escaped THEN i + 1 ELSE i
        IN  IF i > Len(p) THEN FALSE
            ELSE CASE p[i] = "*" -> i = Len(p) \/ \E n \in j .. Len(name) : match[i + 1, n]
                   [] p[i] = "?" -> Rest(i + 1)
                   [] p[i] = "[" -> (name[j] \in bracket.chars) # negated /\ Rest(bracket.last + 1)
                   [] OTHER -> name[j] = p[literal] /\ Rest(literal + 1)
  IN  match[1, 1]

-----------------------------------------------------------------------------
(* What it is meant to compute *)

\* A pattern is a sequence of signs.  A sign is spelt in some way and stands for
\* one of some characters; a star stands for any number of any characters.
Sign(spelt, chars, star) == [spelt |-> spelt, chars |-> chars, star |-> star]

\* A name is a pattern's when its characters can be given to the signs, in order,
\* one to each sign that is no star.
Glob(signs, name) ==
  \E given \in [DOMAIN name -> DOMAIN signs] :
    /\ \A i \in DOMAIN name :
         /\ name[i] \in signs[given[i]].chars
         /\ i > 1 => given[i - 1] <= given[i]
    /\ \A n \in DOMAIN signs :
         signs[n].star \/ Cardinality({i \in DOMAIN name : given[i] = n}) = 1
=============================================================================
