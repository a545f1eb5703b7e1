--------------------------------- MODULE Glob ---------------------------------
(***************************************************************************)
(* The matching of a name with a QUERY_DIRECTORY pattern (files.rs):       *)
(* pattern_matches and glob_match, which backtracks and pays for every     *)
(* call from a budget, against what the wildcards mean.                    *)
(*                                                                         *)
(* glob_match calls itself on the rest of the pattern, in a loop at `*`    *)
(* and `<` only; every other call of it is its last step.  Its stack is    *)
(* therefore the loops that are under way.  Characters are values; Fold is *)
(* the ASCII lower case of one.                                            *)
(***************************************************************************)
EXTENDS Integers, Sequences, SequencesExt, FiniteSets

CONSTANTS
  Fold,       \* the characters of names, each with its lower case
  Patterns,   \* the patterns that are asked for
  Names,      \* the names of entries
  MAX_PATTERN, \* the longest pattern that is looked at
  REVISITS,   \* the calls a pair of places in pattern and name is allowed
  CEILING     \* the calls a name is allowed at most

ASSUME GlobAssumption ==
  /\ \A p \in Patterns : p \in Seq(ToSet(p))
  /\ \A n \in Names : n \in Seq(DOMAIN Fold)
  /\ MAX_PATTERN \in Nat /\ REVISITS \in Nat \ {0} /\ CEILING \in Nat

VARIABLES
  pattern, name, \* what is matched
  budget,        \* the calls that are left
  at_pattern,    \* how much of the pattern was behind the last call,
  at_name,       \* and how much of the name
  loops,         \* the loops that wait for a call, the innermost last
  matching       \* what comes next: a call, or a loop that goes on, or the answer
globVars == <<pattern, name, budget, at_pattern, at_name, loops, matching>>

GlobInit == /\ pattern = << >> /\ name = << >> /\ loops = << >>
            /\ budget = 0 /\ at_pattern = 0 /\ at_name = 0
            /\ matching = "idle"

Least2(a, b) == IF a < b THEN a ELSE b

\* The pairs of a place in the pattern and one in the name.
Pairs(p, n) == (Len(p) + 1) * (Len(n) + 1)

\* A mutant of match_budget: the place at the end is forgotten.
match_budget_short(p, n) == Least2(Len(p) * Len(n) * REVISITS, CEILING)

match_budget(p, n) == Least2(Pairs(p, n) * REVISITS, CEILING)

\* pattern_matches: what is known without looking, and the first call.
pattern_matches ==
  /\ matching = "idle"
  /\ \E p \in Patterns, n \in Names :
       /\ pattern' = p /\ name' = n
       /\ budget' = match_budget(p, n)
       /\ matching' = IF p \in {<< >>, << "*" >>} THEN "matched"
                      ELSE IF Len(p) > MAX_PATTERN THEN "failed" ELSE "call"
  /\ UNCHANGED <<at_pattern, at_name, loops>>

-----------------------------------------------------------------------------
(* glob_match.                                                             *)

\* False is returned to the innermost loop.
ReturnFalse ==
  /\ matching' = IF loops = << >> THEN "failed" ELSE "back"
  /\ UNCHANGED <<at_pattern, at_name, loops>>

\* The rest of the pattern is matched with the name from k on.
Rest(k) == /\ at_pattern' = at_pattern + 1 /\ at_name' = k
           /\ matching' = "call"
           /\ UNCHANGED loops

\* The same, for every k from here until the one given.
Try(until) ==
  /\ loops' = Append(loops, [pat |-> at_pattern + 1, at |-> at_name, until |-> until])
  /\ at_pattern' = at_pattern + 1
  /\ matching' = "call"
  /\ UNCHANGED at_name

\* The dots of n behind place i.
Dots(n, i) == {d \in i + 1 .. Len(n) : n[d] = "."}

\* Behind the last dot of what is left of the name, or the end.
PastLastDot ==
  LET dots == Dots(name, at_name)
  IN IF dots = {} THEN Len(name) ELSE CHOOSE d \in dots : \A e \in dots : e <= d

\* The pattern is at its end.
PatternEnds == IF at_name = Len(name)
           THEN matching' = "matched" /\ UNCHANGED <<at_pattern, at_name, loops>>
           ELSE ReturnFalse

\* One character of the pattern.
Character(c) ==
  LET ended == at_name = Len(name)
      dot   == ~ended /\ name[at_name + 1] = "."
  IN CASE c = "*" -> Try(Len(name))
       [] c = "<" -> Try(PastLastDot)
       [] c = ">" -> Rest(IF ended \/ dot THEN at_name ELSE at_name + 1)
       [] c = "dot" -> IF ended THEN Rest(at_name)
                       ELSE IF dot THEN Rest(at_name + 1) ELSE ReturnFalse
       [] c = "?" -> IF ended THEN ReturnFalse ELSE Rest(at_name + 1)
       [] OTHER -> IF ~ended /\ Fold[c] = Fold[name[at_name + 1]]
                     THEN Rest(at_name + 1) ELSE ReturnFalse

\* A call of glob_match.
glob_match ==
  /\ matching = "call"
  /\ IF budget = 0 THEN ReturnFalse
     ELSE IF at_pattern = Len(pattern) THEN PatternEnds
     ELSE Character(pattern[at_pattern + 1])
  /\ budget' = IF budget = 0 THEN 0 ELSE budget - 1
  /\ UNCHANGED <<pattern, name>>

\* The innermost loop goes on, or returns false to the one about it.
GoOn ==
  LET loop == Last(loops)
      more == loop.at # loop.until /\ budget # 0
  IN /\ matching = "back"
     /\ IF more
          THEN /\ loops' = [loops EXCEPT ![Len(loops)].at = @ + 1]
               /\ at_pattern' = loop.pat /\ at_name' = loop.at + 1
               /\ matching' = "call"
          ELSE /\ loops' = Front(loops)
               /\ matching' = IF Len(loops) = 1 THEN "failed" ELSE "back"
               /\ UNCHANGED <<at_pattern, at_name>>
     /\ UNCHANGED <<pattern, name, budget>>

GlobNext == pattern_matches \/ glob_match \/ GoOn

GlobSpec == GlobInit /\ [][GlobNext]_globVars

-----------------------------------------------------------------------------
(* What the wildcards mean.                                                *)

\* The places in n that a character of a pattern leads to from place i.
Leads(c, n, i) ==
  LET ended == i = Len(n)
      dot   == ~ended /\ n[i + 1] = "."
  IN CASE c = "*" -> i .. Len(n)
       [] c = "<" -> {k \in i .. Len(n) : Dots(n, i) = {} \/ \E d \in Dots(n, i) : k <= d}
       [] c = ">" -> {IF ended \/ dot THEN i ELSE i + 1}
       [] c = "dot" -> IF ended THEN {i} ELSE {k \in {i + 1} : dot}
       [] c = "?" -> {k \in {i + 1} : ~ended}
       [] OTHER -> {k \in {i + 1} : ~ended /\ Fold[c] = Fold[n[k]]}

\* The characters of p lead from the beginning of n to its end.
Means(p, n) ==
  \/ p = << >>
  \/ \E place \in [0 .. Len(p) -> 0 .. Len(n)] :
       /\ place[0] = 0 /\ place[Len(p)] = Len(n)
       /\ \A i \in 1 .. Len(p) : place[i] \in Leads(p[i], n, place[i - 1])

\* The characters of p that make a loop.
Loops(p) == {i \in 1 .. Len(p) : p[i] \in {"*", "<"}}

\* pattern_matches, glob_match: the backtracking answers what the wildcards mean,
\* except that it may miss a match of a pattern that is too long, or one of two
\* `*` and `<` after as many calls as the budget allows; with one of them no budget
\* runs out that the ceiling has not cut.
GlobMeans ==
  /\ matching = "matched" => Means(pattern, name)
  /\ matching = "failed" /\ Means(pattern, name) /\ Len(pattern) <= MAX_PATTERN =>
       /\ match_budget(pattern, name) - budget >=
            Least2(Pairs(pattern, name) * REVISITS, CEILING)
       /\ Cardinality(Loops(pattern)) > 1 \/ Pairs(pattern, name) > CEILING
=============================================================================
