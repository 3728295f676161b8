-------------------------------- MODULE Search --------------------------------
(***************************************************************************)
(* A reader who pages through the sessions a filter selects while chunks   *)
(* arrive and sessions are deleted: SearchSessions of                      *)
(* internal/store/store.go, handleSearch of internal/server/server.go and  *)
(* the cursor a client hands back.                                         *)
(*                                                                         *)
(* A filter selects by text and by the time of the last activity, which    *)
(* may change while the reader pages.  The device, the repository and the  *)
(* directory of a row are fixed when it is created and are left out.       *)
(***************************************************************************)
EXTENDS Store, FiniteSets

CONSTANTS
    AnyText,   \* the text of a filter that does not look for one
    Filter,    \* the filters readers use
    PageSize   \* the most sessions of a page

ASSUME FilterAssumption ==
    /\ Filter \subseteq [text : Text \cup {AnyText}, from : Time, until : Time]
    /\ PageSize \in Nat \ {0}

VARIABLES
    pc,       \* "idle", "paging" or "done"
    filter,   \* the filter of the search
    after,    \* its cursor, the id of the last session given
    found,    \* the ids of the sessions given so far
    kept      \* the ids that the filter selected all the time: history

readerVars == <<pc, filter, after, found, kept>>

searchVars == <<vars, readerVars>>

(* The empty timestamp 0 sets no bound.                                    *)
Selects(f, k) ==
    /\ Known(k)
    /\ f.text # AnyText => k \in FoundBy(f.text)
    /\ sessions[k].activity >= f.from
    /\ f.until # 0 => sessions[k].activity < f.until

SelectedIds(f) == {sessions[k].id : k \in {k \in Key : Selects(f, k)}}

Behind(f, id) == {i \in SelectedIds(f) : i > id}

(* The ids of one page: ORDER BY id, LIMIT.                                *)
PageOf(f, id) ==
    {i \in Behind(f, id) : Cardinality({j \in Behind(f, id) : j <= i}) <= PageSize}

NoFilter == [text |-> AnyText, from |-> 0, until |-> 0]

SearchInit ==
    /\ Init
    /\ pc = "idle" /\ after = 0 /\ found = {} /\ kept = {}
    /\ filter = NoFilter

Begin(f) ==
    /\ pc = "idle"
    /\ pc' = "paging"
    /\ filter' = f
    /\ kept' = SelectedIds(f)
    /\ UNCHANGED <<vars, after, found>>

(* One page.  The handler answers an empty page with the cursor 0, which   *)
(* ends the search.                                                        *)
TurnPage ==
    LET page == PageOf(filter, after)
    IN  /\ pc = "paging"
        /\ found' = found \cup page
        /\ after' = Latest({0} \cup page)
        /\ pc' = IF page = {} THEN "done" ELSE "paging"
        /\ UNCHANGED <<vars, filter, kept>>

End ==
    /\ pc = "done"
    /\ pc' = "idle" /\ filter' = NoFilter /\ found' = {} /\ kept' = {}
    /\ UNCHANGED <<vars, after>>

(* A change of the database: a row is kept that was selected before, or    *)
(* that is new, and is selected still.                                     *)
Change ==
    /\ Next
    /\ UNCHANGED <<pc, filter, after, found>>
    /\ kept' = IF pc = "paging" THEN {i \in SelectedIds(filter)' : i \in kept \/ i \notin Ids}
                                ELSE kept

SearchNext ==
    \/ \E f \in Filter : Begin(f)
    \/ TurnPage
    \/ End
    \/ Change

SearchSpec == SearchInit /\ [][SearchNext]_searchVars

-----------------------------------------------------------------------------
(***************************************************************************)
(* A search that was paged to its end has found every session that the     *)
(* filter selected from its beginning, or from its creation since, to its  *)
(* end, whatever was shared, deleted and shared again between the pages.   *)
(***************************************************************************)
SearchMissesNothing == pc = "done" => kept \subseteq found

=============================================================================
