----------------------------- MODULE MCSession -----------------------------
(* Two requests, the first sent twice, one delivery and one other call, in *)
(* a window of three messages.                                             *)
EXTENDS Session
CONSTANTS r1, r2, c1, c1again, c2, d1, o1
MCRequestOf == (c1 :> r1) @@ (c1again :> r1) @@ (c2 :> r2)
=============================================================================
