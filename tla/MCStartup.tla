------------------------------ MODULE MCStartup ------------------------------
(***************************************************************************)
(* A small instance of Startup: two servers and two sessions.  One session *)
(* of the old database is sound and lies in two chunks; of the other there *)
(* is a sound form, which takes an older server key as well, and forms     *)
(* with a gap, with a lost end and with a chunk that fails its check.      *)
(***************************************************************************)
EXTENDS Startup

CONSTANTS d1, k1, k2

MCSession == {1, 2}
MCTime == {0}
MCText == {Blank}

Rec(kind, id) == [kind |-> kind, id |-> id, at |-> 0, text |-> Blank]

File(s) == <<Rec("session_meta", s), Rec("other", NoId), Rec("other", NoId)>>

Chunk(s, i, j) == [start |-> i, end |-> j, plain |-> SubSeq(File(s), i + 1, j)]

(* The metadata of an old row lacks what the present version extracts.     *)
Row(s, next, hash) ==
    [id |-> s, next |-> next, hash |-> hash, activity |-> 0, meta |-> Rec("other", NoId)]

Old(row, cs, keys) == [row |-> row, chunks |-> cs, seal |-> keys]

Absent == Old(NoRow, {}, {})

MCOldSession ==
    [k \in Key |->
        IF k[2] = 1
        THEN {Old(Row(1, 2, << >>), {Chunk(1, 0, 1), Chunk(1, 1, 2)}, {k1}),
              Old(Row(1, 1, SubSeq(File(1), 1, 1)), {Chunk(1, 0, 1)}, {k1})}
        ELSE {Absent,
              Old(Row(2, 2, << >>), {Chunk(2, 0, 1), Chunk(2, 1, 2)}, {k1, k2}),
              Old(Row(2, 3, << >>), {Chunk(2, 0, 1), Chunk(2, 2, 3)}, {k1}),
              Old(Row(2, 2, << >>), {Chunk(2, 0, 1)}, {k1}),
              Old(Row(2, 1, << >>), {Chunk(2, 0, 1)}, {Spoilt})}]

MCUpload ==
    UNION {{[start |-> i, end |-> j, plain |-> SubSeq(File(s), i + 1, j), prefix |-> SubSeq(File(s), 1, j)] :
               i \in 0 .. 2, j \in 1 .. 3} : s \in MCSession}

=============================================================================
