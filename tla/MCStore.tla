------------------------------- MODULE MCStore -------------------------------
(***************************************************************************)
(* A small instance of Store: one device, two sessions whose transcripts   *)
(* have two versions each, and every chunk of every version, with the      *)
(* prefix of its own version, of the other version, and with a wrong end.  *)
(* A reader searches by text, by time, or for all sessions, one at a time. *)
(***************************************************************************)
EXTENDS Search

CONSTANTS t1, t2, d1

MCSession == {1, 2}
MCTime == 0 .. 2
MCText == {t1, t2, Blank}

Rec(kind, id, at, text) == [kind |-> kind, id |-> id, at |-> at, text |-> text]

Meta(s) == Rec("session_meta", s, 1, Blank)
Hello == Rec("user_message", NoId, 2, t1)
Answer == Rec("tool_output", NoId, 1, t2)
Quiet == Rec("tool_call", NoId, 0, Blank)
Broken == Rec("invalid", NoId, 0, Blank)

(* Versions of the file of a session: an event, an event without text, a   *)
(* line that is not valid, in different places.                            *)
Versions(s) ==
    {<<Meta(s), Hello, Answer>>, <<Meta(s), Quiet, Answer>>, <<Meta(s), Broken, Hello>>}

(* The records of v from i to j, sent with the prefix of p and the end e.  *)
Slice(v, i, j, p, e) ==
    [start |-> i, end |-> e, plain |-> SubSeq(v, i + 1, j), prefix |-> SubSeq(p, 1, j)]

MCUpload ==
    UNION {{Slice(v, i, j, p, e) :
                v \in Versions(n), p \in Versions(n),
                i \in 0 .. 2, j \in 1 .. 3, e \in 2 .. 3} : n \in MCSession}

MCFilter ==
    {[text |-> t1, from |-> 0, until |-> 0],
     [text |-> AnyText, from |-> 2, until |-> 0],
     [text |-> AnyText, from |-> 1, until |-> 2]}

=============================================================================
