------------------------------- MODULE MCFiles -------------------------------
(***************************************************************************)
(* A small instance of Files: two exports to one output, and two key       *)
(* generations whose paths coincide, overlap, are exchanged or are one.    *)
(***************************************************************************)
EXTENDS Files, TLC

CONSTANTS e1, e2, g1, g2, temp1, temp2, a, b, c

MCTemp == e1 :> temp1 @@ e2 :> temp2

MCTogether == {{e1, e2}, {g1, g2}, {e1, g1}}

MCArchive ==
    {<< >>, <<"good">>, <<"good", "good", "good">>, <<"good", "bad", "good">>}

MCKeyPaths ==
    {[private |-> a, public |-> b], [private |-> c, public |-> b], [private |-> b, public |-> a],
     [private |-> a, public |-> a]}

=============================================================================
