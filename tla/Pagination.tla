----------------------------- MODULE Pagination -----------------------------
(***************************************************************************)
(* The pages of list_tables, find_table and find_column (tools.rs of the   *)
(* MCP server): paginate, and a client that follows has_more from whatever *)
(* offset it starts at.  Offsets, limits and lengths are usize, here of    *)
(* Width bits.  The list is the same for every request of the client: what *)
(* a replacement of the snapshot does to pages is in CacheReaders.         *)
(***************************************************************************)
EXTENDS Naturals, Sequences

CONSTANTS
    Width,          \* bits of a usize
    MAX_PAGE_LIMIT  \* 500 in the code

ASSUME PaginationAssumption ==
    /\ Width \in Nat \ {0}
    /\ MAX_PAGE_LIMIT \in 1 .. 2 ^ Width - 1

Usize == 0 .. 2 ^ Width - 1

VARIABLES
    total,      \* the length of the list; its items are 1 .. total
    begin,      \* the offset the client starts at
    offset,     \* the offset of the next request
    limit,      \* the limit of every request
    seen,       \* the items the client has been given
    reply       \* the last reply

pageVars == <<total, begin, offset, limit, seen, reply>>

(* Variant: the sum wraps around.                                          *)
WrappingAdd(a, b) == (a + b) % 2 ^ Width

SaturatingAdd(a, b) == IF a + b \in Usize THEN a + b ELSE 2 ^ Width - 1

Lesser(a, b) == IF a < b THEN a ELSE b

(* items.skip(offset).take(limit). *)
SkipTake(from, n) ==
    [i \in 1 .. Lesser(n, IF from < total THEN total - from ELSE 0) |->
        from + i]

PageInit ==
    /\ total \in Usize
    /\ begin \in Usize
    /\ limit \in Usize
    /\ offset = begin
    /\ seen = <<>>
    /\ reply = "none"

(* paginate refuses a limit of zero.                                       *)
RefuseLimit ==
    /\ reply = "none"
    /\ limit = 0
    /\ reply' = "refused"
    /\ UNCHANGED <<total, begin, offset, limit, seen>>

(* A page, and the client's next offset, past the limit that was applied.  *)
Paginate ==
    LET applied == Lesser(limit, MAX_PAGE_LIMIT)
    IN /\ reply \in {"none", "more"}
       /\ limit > 0
       /\ seen' = seen \o SkipTake(offset, applied)
       /\ reply' = IF SaturatingAdd(offset, applied) < total
                   THEN "more" ELSE "last"
       /\ offset' = SaturatingAdd(offset, applied)
       /\ UNCHANGED <<total, begin, limit>>

PageNext == RefuseLimit \/ Paginate

PageSpec == PageInit /\ [][PageNext]_pageVars

-----------------------------------------------------------------------------
(* A client that follows has_more has been given the items after its first *)
(* offset in order, each once; the last page leaves none out, and has_more *)
(* is said only while there is more, also when offset and limit add up to  *)
(* more than a usize holds.                                                *)
PagesAreExact ==
    /\ \A i \in 1 .. Len(seen) : seen[i] = begin + i /\ seen[i] <= total
    /\ reply = "more" => begin + Len(seen) < total
    /\ reply = "last" => begin + Len(seen) >= total
=============================================================================
