----------------------------- MODULE EventTable -----------------------------
(***************************************************************************)
(* The events table of the store: its primary key is seq, and every read   *)
(* is ORDER BY seq, so its contents are a sequence of rows.                *)
(***************************************************************************)
EXTENDS Integers, Sequences, FiniteSets

HasSeq(rows, seq) == \E i \in 1..Len(rows) : rows[i].seq = seq

(* The number of rows with a seq of at most `last'.                        *)
CountUpTo(rows, last) ==
    Cardinality({i \in 1..Len(rows) : rows[i].seq <= last})

(* events_since: the rows with seq > last.                                 *)
EventsSince(rows, last) == SubSeq(rows, CountUpTo(rows, last) + 1, Len(rows))

(* INSERT INTO events, once the primary key has accepted the row.          *)
InsertRow(rows, e) ==
    IF \A i \in 1..Len(rows) : rows[i].seq < e.seq
    THEN Append(rows, e)
    ELSE SubSeq(rows, 1, CountUpTo(rows, e.seq)) \o <<e>>
            \o EventsSince(rows, e.seq)
=============================================================================
