---------------------------- MODULE ValueIndex ----------------------------
(***************************************************************************)
(* What an exact index promises its callers in core/storage/table.rs: a    *)
(* map from the hash of a value to the rows that hold it, and a file that  *)
(* is either missing (the table then builds the index anew) or exactly the *)
(* map that was saved last.  ExactIndex implements this with a memory map, *)
(* a delta, an LRU cache and four file formats.                            *)
(***************************************************************************)
EXTENDS Naturals, FiniteSets

CONSTANTS
    Hash,     \* hashes of values
    Seg,      \* segment ids
    RowId     \* row numbers within a segment

VARIABLES
    open,     \* a handle exists
    idx,      \* the rows of every hash, as the handle answers
    saved,    \* the map saved last
    present,  \* the file is there
    got       \* the last answer

vars == <<open, idx, saved, present, got>>

Posting == Seg \X RowId
Map == [Hash -> SUBSET Posting]
Empty == [h \in Hash |-> {}]

-----------------------------------------------------------------------------

Init ==
    /\ open = FALSE /\ idx = Empty /\ got = {}
    /\ present \in BOOLEAN
    /\ saved \in Map

Open ==
    /\ ~open
    /\ open' = TRUE /\ idx' = IF present THEN saved ELSE Empty
    /\ UNCHANGED <<saved, present, got>>

Get(h) ==
    /\ open
    /\ got' = idx[h]
    /\ UNCHANGED <<open, idx, saved, present>>

\* The rows of one segment are added.
Merge(s, rows) ==
    /\ open
    /\ idx' = [h \in Hash |-> idx[h] \cup ({s} \X rows[h])]
    /\ UNCHANGED <<open, saved, present, got>>

\* The rows of segments that no longer exist are dropped.
Purge(gone) ==
    /\ open
    /\ idx' = [h \in Hash |-> {p \in idx[h] : p[1] \notin gone}]
    /\ UNCHANGED <<open, saved, present, got>>

Save ==
    /\ open
    /\ saved' = idx /\ present' = TRUE
    /\ UNCHANGED <<open, idx, got>>

\* A save that fails leaves the file alone, and may cost the handle its map.
FailedSave ==
    /\ open
    /\ idx' \in {idx, Empty}
    /\ UNCHANGED <<open, saved, present, got>>

Leave ==
    /\ open
    /\ open' = FALSE /\ idx' = Empty
    /\ UNCHANGED <<saved, present, got>>

\* A migration takes the file away for a while; it never changes the map.
Hide ==
    /\ ~open /\ present
    /\ present' = FALSE
    /\ UNCHANGED <<open, idx, saved, got>>

Restore ==
    /\ ~open /\ ~present
    /\ present' = TRUE
    /\ UNCHANGED <<open, idx, saved, got>>

Next ==
    \/ Open \/ Save \/ FailedSave \/ Leave \/ Hide \/ Restore
    \/ \E h \in Hash : Get(h)
    \/ \E s \in Seg, rows \in [Hash -> SUBSET RowId] : Merge(s, rows)
    \/ \E gone \in SUBSET Seg : Purge(gone)

Spec == Init /\ [][Next]_vars
=============================================================================
