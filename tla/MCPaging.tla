------------------------------ MODULE MCPaging ------------------------------
(***************************************************************************)
(* A small instance of Paging: a page of three bytes; an empty text, one   *)
(* that leaves room, and one of characters of one and two bytes that takes *)
(* two pages or more.                                                      *)
(***************************************************************************)
EXTENDS Paging

MCEventText ==
    {[size |-> 0, cuts |-> {0}],
     [size |-> 2, cuts |-> {0, 2}],
     [size |-> 5, cuts |-> {0, 1, 3, 5}]}

=============================================================================
