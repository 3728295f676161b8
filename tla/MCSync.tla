------------------------------- MODULE MCSync -------------------------------
(***************************************************************************)
(* Small instances of Sync.                                                *)
(***************************************************************************)
EXTENDS Sync, TLC

CONSTANTS t1, t2

Rec(kind, id, at, text) == [kind |-> kind, id |-> id, at |-> at, text |-> text]

Meta(s) == Rec("session_meta", s, 0, Blank)
A == Rec("user_message", NoId, 0, t1)
B == Rec("agent_message", NoId, 0, t2)

MCTime == {0}
MCText == {t1, t2, Blank}
MCNewRecord == {A}

OneSession == {1}
TwoSessions == {1, 2}

MCFirstFile == [s \in Session |-> {<<Meta(s), A, A>>}]
MCNewFile == [s \in Session |-> {<<Meta(s), B>>}]
Symmetric == Permutations(Run)

MixedNewFile == [s \in Session |-> {<<Meta(s), B, B>>}]
ShortFirstFile == [s \in Session |-> {<<Meta(s)>>}]
=============================================================================
