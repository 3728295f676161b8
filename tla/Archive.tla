------------------------------- MODULE Archive -------------------------------
(***************************************************************************)
(* What the server promises of the transcripts it keeps (README: encrypted *)
(* chunks are the source of truth).  For every session of every device it  *)
(* holds one transcript, which only grows at its end until an              *)
(* administrator deletes it whole.                                         *)
(***************************************************************************)
EXTENDS Transcript

CONSTANT Device

VARIABLE content     \* the shared transcript of each key, << >> when there is none

Key == Device \X Session

SessionOf(k) == k[2]

Starts(s, t) == Len(s) <= Len(t) /\ SubSeq(t, 1, Len(s)) = s

(* A transcript somebody shared: it opens with the metadata of its own     *)
(* session and every record of it can be read back.                        *)
WellFormed(k, t) ==
    /\ t \in Seq(Record)
    /\ Parses(t, 0, SessionOf(k))

OthersKept(k) == \A j \in Key \ {k} : content'[j] = content[j]

Init == content = [k \in Key |-> << >>]

(* New records are appended to the transcript of one session.              *)
Share(k) ==
    /\ content' \in [Key -> Seq(Record)]
    /\ Len(content[k]) < Len(content'[k])
    /\ Starts(content[k], content'[k])
    /\ WellFormed(k, content'[k])
    /\ OthersKept(k)

(* The transcript of one session is deleted whole.                         *)
Forget(k) ==
    /\ content[k] # << >>
    /\ content' = [content EXCEPT ![k] = << >>]

Next == \E k \in Key : Share(k) \/ Forget(k)

Spec == Init /\ [][Next]_content

=============================================================================
