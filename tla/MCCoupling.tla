----------------------------- MODULE MCCoupling -----------------------------
(* All couplers, and those of one finding each.                              *)
EXTENDS Coupling

AllButPlain == Couplers \ {"subcycled"}
Iterated == {"mechanics_flow"}
Plain == {"subcycled"}
=============================================================================
