----------------------------- MODULE Transcript -----------------------------
(***************************************************************************)
(* The content of a Codex session file and what the server extracts from a *)
(* run of its records: internal/codex/codex.go, ParseChunk and the         *)
(* functions it calls.                                                     *)
(*                                                                         *)
(* A record is one JSONL line.  A session file is a sequence of records    *)
(* and an offset counts records: module Chunker shows, over bytes, that    *)
(* every offset the client and the server exchange is a record boundary.   *)
(***************************************************************************)
EXTENDS Integers, Sequences

CONSTANTS
    Session,   \* session ids (UUIDs)
    NoId,      \* the id of a record that is not a session_meta
    Time,      \* timestamps, ordered as their RFC3339 text; 0 is the empty one
    Text,      \* what search sees of a record: message, tool name and status
    Blank      \* the text that strings.TrimSpace leaves empty

ASSUME NoIdAssumption == NoId \notin Session

ASSUME BlankAssumption == Blank \in Text

(* Time is finite: a nonempty set of timestamps has a latest one.          *)
ASSUME TimeAssumption ==
    /\ Time \subseteq Nat
    /\ 0 \in Time
    /\ \A S \in SUBSET Time : S # {} => \E t \in S : \A u \in S : u <= t

(***************************************************************************)
(* Records.  "other" stands for the well-formed lines that yield no event, *)
(* "invalid" for the lines json.Unmarshal rejects.                         *)
(***************************************************************************)
EventKind == {"user_message", "agent_message", "tool_call", "tool_output"}

Kind == EventKind \cup {"session_meta", "other", "invalid"}

Record == [kind : Kind, id : Session \cup {NoId}, at : Time, text : Text]

Valid(r) == r.kind # "invalid"

IsEvent(r) == r.kind \in EventKind

(* strings.TrimSpace(text + tool name + tool status) is not empty.         *)
Searchable(r) == IsEvent(r) /\ r.text # Blank

(***************************************************************************)
(* ParseChunk accepts a nonempty run of whole, valid records; the run at   *)
(* offset 0 starts with the session_meta record of the expected session.   *)
(***************************************************************************)
OpensSession(plain, sid) ==
    /\ plain[1].kind = "session_meta"
    /\ plain[1].id = sid

Parses(plain, base, sid) ==
    /\ plain # << >>
    /\ \A i \in DOMAIN plain : Valid(plain[i])
    /\ base = 0 => OpensSession(plain, sid)

(* Mutant of EventPositions: every record becomes an event.                *)
EveryPosition(plain) == DOMAIN plain

(* The positions in plain of the records that become rows of events.       *)
EventPositions(plain) == {i \in DOMAIN plain : IsEvent(plain[i])}

(* The latest timestamp of the run: the empty one unless a record has one. *)
Latest(S) == CHOOSE t \in S : \A u \in S : u <= t

LastActivity(plain) == Latest({0} \cup {plain[i].at : i \in DOMAIN plain})

=============================================================================
