------------------------------- MODULE Paging -------------------------------
(***************************************************************************)
(* The arithmetic of a page, as every list RPC of the service does it: the *)
(* request's page and size are uint64, (page - 1) * size wraps, and the    *)
(* product and the size are converted to int for OFFSET and LIMIT.  Rows   *)
(* are told apart by their position in the ORDER BY only.                  *)
(***************************************************************************)
EXTENDS Integers

CONSTANT MaxInt   \* the largest int, 2^63 - 1 in the program

ASSUME IntAssumption == MaxInt \in Nat \ {0}

UInt == 0 .. 2 * MaxInt + 1

(* int(u): the upper half of uint64 becomes negative. *)
ToInt(u) == IF u > MaxInt THEN u - (2 * MaxInt + 2) ELSE u

Skip_FromZero(page, size) == ToInt((page * size) % (2 * MaxInt + 2))

(* int((page - 1) * size); page 0 yields minus the size. *)
Skip(page, size) == ToInt(((page - 1) * size) % (2 * MaxInt + 2))

(* PostgreSQL refuses a negative OFFSET or LIMIT. *)
Refused(page, size) == Skip(page, size) < 0 \/ ToInt(size) < 0

OnPage_Inclusive(pos, page, size) ==
    /\ pos >= Skip(page, size)
    /\ size # 0 => pos <= Skip(page, size) + ToInt(size)

(* Whether a row with pos rows before it is on the page.  ent writes no    *)
(* LIMIT for 0, so a page of size 0 has every row.                         *)
OnPage(pos, page, size) ==
    /\ pos >= Skip(page, size)
    /\ size # 0 => pos < Skip(page, size) + ToInt(size)
=============================================================================
