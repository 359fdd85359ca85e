------------------------------- MODULE Paging -------------------------------
(***************************************************************************)
(* The page of a listing that T1 (topics) and G1 (groups) answer with, in  *)
(* the arithmetic of Go's int.  The page number is 1 or more (the schema   *)
(* sees to it); the size is any number that is not above the ceiling.      *)
(***************************************************************************)
EXTENDS Integers, Sequences

CONSTANT IntMax   \* the largest int

ASSUME PagingAssumption == IntMax \in Nat \ {0}

AsInt(n) == ((n + IntMax + 1) % (2 * IntMax + 2)) - (IntMax + 1)

PageStart(page, size) == AsInt((page - 1) * size)

PageEnd(page, size, total) ==
    LET next == AsInt(PageStart(page, size) + size) IN IF next < total THEN next ELSE total

IsPage(page, size, total) == PageStart(page, size) >= 0 /\ PageStart(page, size) < total

(* A negative size makes a slice of negative length: the handler panics    *)
(* and net/http closes the connection without an answer.                   *)
Panics(page, size, total) ==
    IsPage(page, size, total) /\ PageEnd(page, size, total) < PageStart(page, size)

PageOf(rows, page, size) ==
    IF IsPage(page, size, Len(rows))
    THEN SubSeq(rows, PageStart(page, size) + 1, PageEnd(page, size, Len(rows)))
    ELSE <<>>
=============================================================================
