------------------------------ MODULE RowLocks ------------------------------
(***************************************************************************)
(* The row locks of PostgreSQL as far as the transactions of the server    *)
(* rely on them.  A lock is a pair of a row and a mode: "share" is taken   *)
(* on the referenced row by an insert with a foreign key (KEY SHARE),      *)
(* "nokey" by an UPDATE of columns that are not keys (NO KEY UPDATE), and  *)
(* "update" by SELECT ... FOR UPDATE.  holds gives the locks each          *)
(* transaction keeps until it ends.                                        *)
(***************************************************************************)
EXTENDS FiniteSets

Modes == {"share", "nokey", "update"}

\* Two transactions may hold these modes on one row.
Compatible(m, n) == "share" \in {m, n} /\ "update" \notin {m, n}

\* Nobody but r holds a lock on row that keeps r from taking it in this mode.
Free(holds, r, row, mode) ==
    \A q \in DOMAIN holds \ {r} :
        \A l \in holds[q] : l[1] = row => Compatible(l[2], mode)

\* The rows on which q holds a lock.
LockedBy(holds, q) == {l[1] : l \in holds[q]}
=============================================================================
