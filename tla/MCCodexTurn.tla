----------------------------- MODULE MCCodexTurn -----------------------------
(* Two children, three items.  What the root's thread and turn announce is  *)
(* kept in variables of its own, which no handler reads together with those *)
(* of the children: it is combined with them up to the first spawn only,    *)
(* and the usage of the root with states in which no item is open.          *)
EXTENDS CodexTurn, TLC

RootApart ==
  /\ announcedThread # "none" \/ announcedTurn # "none" =>
       pending = {} /\ terminal = {} /\ items = {}
  /\ rootUsage => pending = {} /\ items = {}

Symmetry == Permutations(Children) \cup Permutations(Turns) \cup Permutations(Items)
=============================================================================
