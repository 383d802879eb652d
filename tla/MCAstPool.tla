------------------------------ MODULE MCAstPool ------------------------------
(* Three chunks of three nodes: programs of up to six statements that fit, *)
(* that fill the last slot exactly, and that run out in every place a node *)
(* is allocated; two compiles in a row.                                    *)
EXTENDS AstPool

MCChunkMax == 3
MCPerChunk == 3
MCMaxLines == 6
MCMaxCompiles == 2
=============================================================================
