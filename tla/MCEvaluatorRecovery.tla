------------------------ MODULE MCEvaluatorRecovery ------------------------
(* A chain with a derivative, above the primary fields of two PKs: a restored *)
(* pressure does not reach density, a restored saturation does.               *)
EXTENDS EvaluatorRecovery

TwoPrimaries == {"pressure", "saturation"}
MCIndependent == {"temperature"}
ChainSecondary == {"density", "storage"}
ChainDeps == [k \in ChainSecondary |->
                IF k = "density" THEN {"saturation", "temperature"} ELSE {"pressure", "density"}]
ChainRank == [k \in TwoPrimaries \cup MCIndependent \cup ChainSecondary |->
                CASE k = "density" -> 1 [] k = "storage" -> 2 [] OTHER -> 0]

\* Alphabetical, as std::string compares.
MCPosition == [k \in Keys |->
                 CASE k = "density" -> 1 [] k = "pressure" -> 2
                   [] k = "saturation" -> 3 [] k = "storage" -> 4
                   [] k = "temperature" -> 5]
=============================================================================
