--------------------------- MODULE MCEvaluatorDag ---------------------------
(* A small graph for EvaluatorDag: storage reaches pressure directly and      *)
(* through density, density also depends on a field driven by the clock, and *)
(* both are differentiable.                                                  *)
EXTENDS EvaluatorDag

MCPrimary == {"pressure"}
MCIndependent == {"temperature"}

ChainSecondary == {"density", "storage"}
ChainDeps == [k \in ChainSecondary |->
                IF k = "density" THEN {"pressure", "temperature"}
                                 ELSE {"pressure", "density"}]
ChainRank == [k \in MCPrimary \cup MCIndependent \cup ChainSecondary |->
                CASE k = "density" -> 1 [] k = "storage" -> 2 [] OTHER -> 0]

\* Alphabetical, as std::string compares.
MCPosition == [k \in Keys |->
                 CASE k = "density" -> 1 [] k = "pressure" -> 2
                   [] k = "storage" -> 3 [] k = "temperature" -> 4]
=============================================================================
