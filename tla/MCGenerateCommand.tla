------------------------- MODULE MCGenerateCommand -------------------------
(* A small instance of GenerateCommand for TLC: a suite of two cases, and  *)
(* candidates that change, add, remove and reorder them.                   *)
EXTENDS GenerateCommand

Case(c, v) == [id |-> c, value |-> v]

MCBaseline == <<Case("a", 1), Case("b", 1)>>

MCCandidates == {<<Case("b", 2), Case("a", 1)>>,
                 <<Case("c", 1), Case("a", 2)>>,
                 <<Case("c", 1), Case("b", 1), Case("d", 1)>>}
=============================================================================
