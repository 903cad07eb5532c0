------------------------------ MODULE PagedList ------------------------------
(***************************************************************************)
(* A listing read to its end (frontend api/http.ts getAllPages): page by   *)
(* page, from as far as the rows read so far reach, until as many are held *)
(* as the server says there are.  The server answers each page from the    *)
(* listing as it then stands: what changes between two pages may be missed *)
(* or be read twice.                                                       *)
(***************************************************************************)
EXTENDS Naturals, Sequences

CONSTANT PageSize   \* LIST_DEFAULT_LIMIT

\* A walk that begins.
Walk == [got |-> <<>>, ended |-> FALSE]

\* The walk w after its next page, of a listing that is now all.
Onward(w, all) ==
  LET offset == Len(w.got)
      page == SubSeq(all, offset + 1,
                     IF offset + PageSize < Len(all) THEN offset + PageSize ELSE Len(all)) IN
  [got   |-> w.got \o page,
   ended |-> page = <<>> \/ Len(w.got \o page) >= Len(all)]

=============================================================================
