------------------------------ MODULE MCStoreTx ------------------------------
(***************************************************************************)
(* A small instance of StoreTx: two servers and an administrator at one    *)
(* session, whose file has three versions.                                 *)
(***************************************************************************)
EXTENDS StoreTx

CONSTANTS t1, d1

Rec(kind, id, at, text) == [kind |-> kind, id |-> id, at |-> at, text |-> text]

Meta == Rec("session_meta", 1, 0, Blank)
Meta2 == Rec("session_meta", 1, 1, Blank)
Hello == Rec("user_message", NoId, 1, t1)
Quiet == Rec("tool_call", NoId, 0, Blank)

MCSession == {1}
MCTime == 0 .. 1
MCText == {t1, Blank}

Slice(v, i, j) ==
    [start |-> i, end |-> j, plain |-> SubSeq(v, i + 1, j), prefix |-> SubSeq(v, 1, j)]

(* A version in two chunks, one in one chunk, and the end of one that      *)
(* opens with another record.                                              *)
MCUpload ==
    {Slice(<<Meta, Hello>>, 0, 1), Slice(<<Meta, Hello>>, 1, 2),
     Slice(<<Meta, Quiet>>, 0, 2), Slice(<<Meta2, Quiet>>, 1, 2)}

=============================================================================
