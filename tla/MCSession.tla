----------------------------- MODULE MCSession ------------------------------
(* Session for TLC.                                                        *)
EXTENDS Session

MCUsages == [prompt: {1, 2}, completion: {1}]
=============================================================================
