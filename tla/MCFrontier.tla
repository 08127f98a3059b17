----------------------------- MODULE MCFrontier -----------------------------
(* Frontier with three ranks and two phases.  Every rank may push every    *)
(* message, its own ones too; rank 2 can get two in one exchange, from one *)
(* rank or from two, and rank 1 never gets any.                            *)
EXTENDS Frontier

MCDest == 1 :> 0 @@ 2 :> 2 @@ 3 :> 2
=============================================================================
