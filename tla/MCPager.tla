------------------------------ MODULE MCPager ------------------------------
(* Bounds for model-checking Pager.                                        *)
EXTENDS Pager, TLC

CONSTANTS c1, w1, w2

MCWorkers == {w1, w2}

(* Two experts of three per token, and one route that is the other's with  *)
(* its order turned and an expert changed.                                 *)
MCRoutes == {<<0, 1>>, <<2, 0>>}
=============================================================================
