-------------------------- MODULE PaginationProofs --------------------------
(***************************************************************************)
(* Proofs about Pagination, for every width of a usize and every           *)
(* MAX_PAGE_LIMIT.                                                         *)
(***************************************************************************)
EXTENDS Pagination, SequenceTheorems, TLAPS

(* What the client holds between two requests: the next offset is past the *)
(* items it has been given, and no request follows the last page.          *)
PageIInv ==
    /\ total \in Usize
    /\ begin \in Usize
    /\ limit \in Usize
    /\ offset \in Usize
    /\ seen \in Seq(Nat)
    /\ \A i \in 1 .. Len(seen) : seen[i] = begin + i /\ seen[i] <= total
    /\ reply \in {"none", "more", "last", "refused"}
    /\ reply \in {"none", "refused"} => seen = <<>> /\ offset = begin
    /\ reply = "more" => offset < total /\ offset = begin + Len(seen)
    /\ reply = "last" => begin + Len(seen) >= total

(* A usize is a natural number.                                            *)
LEMMA UsizeIsNat == 2 ^ Width \in Nat /\ Usize \subseteq Nat
  <1>1. 2 ^ Width \in Nat
    BY PaginationAssumption
  <1> QED
    BY <1>1 DEF Usize

(* SkipTake gives consecutive items of the list, as many as were asked for *)
(* or as there are left.                                                   *)
LEMMA SkipTakeItems ==
    ASSUME NEW from \in Nat, NEW n \in Nat, total \in Nat
    PROVE  /\ SkipTake(from, n) \in Seq(Nat)
           /\ from <= total => Len(SkipTake(from, n)) <= total - from
           /\ from + n < total => Len(SkipTake(from, n)) = n
           /\ from < total /\ from + n >= total
                => Len(SkipTake(from, n)) = total - from
           /\ from >= total => SkipTake(from, n) = <<>>
           /\ \A i \in 1 .. Len(SkipTake(from, n)) :
                 SkipTake(from, n)[i] = from + i
  <1> DEFINE left == IF from < total THEN total - from ELSE 0
             k == Lesser(n, left)
  <1>1. left \in Nat /\ k \in Nat
    BY DEF Lesser
  <1>2. SkipTake(from, n) = [i \in 1 .. k |-> from + i]
    BY DEF SkipTake
  <1>3. SkipTake(from, n) \in Seq(Nat) /\ Len(SkipTake(from, n)) = k
    BY <1>1, <1>2
  <1>4. from >= total => k = 0
    BY DEF Lesser
  <1>5. from >= total => SkipTake(from, n) = <<>>
    BY <1>3, <1>4, EmptySeq
  <1>6. \A i \in 1 .. k : SkipTake(from, n)[i] = from + i
    BY <1>1, <1>2
  <1> QED
    BY <1>1, <1>3, <1>5, <1>6 DEF Lesser

(* The first request starts where the client does.                         *)
LEMMA InitPageIInv == PageInit => PageIInv
  BY DEF PageInit, PageIInv

(* A page continues where the one before it ended.                         *)
LEMMA NextPageIInv == PageIInv /\ [PageNext]_pageVars => PageIInv'
  <1> SUFFICES ASSUME PageIInv, [PageNext]_pageVars PROVE PageIInv'
    OBVIOUS
  <1>1. CASE RefuseLimit
    BY <1>1 DEF PageIInv, RefuseLimit
  <1>2. CASE Paginate
    <2> DEFINE applied == Lesser(limit, MAX_PAGE_LIMIT)
               page == SkipTake(offset, applied)
               next == SaturatingAdd(offset, applied)
    <2>1. /\ total \in Nat /\ begin \in Nat /\ offset \in Nat
          /\ applied \in Nat /\ applied > 0
          /\ total <= 2 ^ Width - 1 /\ 2 ^ Width \in Nat
      BY <1>2, UsizeIsNat, PaginationAssumption
      DEF PageIInv, Paginate, Lesser, Usize
    <2>2. /\ next \in Usize
          /\ next < total => next = offset + applied
          /\ next >= total => offset + applied >= total
      BY <2>1 DEF SaturatingAdd, Usize
    <2>3. /\ page \in Seq(Nat)
          /\ offset <= total => Len(page) <= total - offset
          /\ offset + applied < total => Len(page) = applied
          /\ offset < total /\ offset + applied >= total
               => Len(page) = total - offset
          /\ offset >= total => page = <<>>
          /\ \A i \in 1 .. Len(page) : page[i] = offset + i
      BY <2>1, SkipTakeItems
    <2>4. /\ seen' = seen \o page /\ offset' = next
          /\ total' = total /\ begin' = begin /\ limit' = limit
      BY <1>2 DEF Paginate
    <2>5. offset = begin + Len(seen)
      BY <1>2, <2>1 DEF PageIInv, Paginate
    <2>6. /\ reply' = "more" => next < total
          /\ reply' = "last" => next >= total
          /\ reply' \in {"more", "last"}
      <3>1. reply' = IF next < total THEN "more" ELSE "last"
        BY <1>2 DEF Paginate
      <3>2. next \in Nat
        BY <2>2, UsizeIsNat
      <3> HIDE DEF next
      <3> QED
        BY <3>1, <3>2, <2>1
    <2> HIDE DEF applied, page, next
    <2>7. /\ seen' \in Seq(Nat)
          /\ Len(seen') = Len(seen) + Len(page)
          /\ \A i \in 1 .. Len(seen) : seen'[i] = seen[i]
          /\ \A i \in 1 .. Len(page) : seen'[Len(seen) + i] = page[i]
      BY <2>3, <2>4 DEF PageIInv
    <2>8. Len(seen) \in Nat /\ Len(page) \in Nat
      BY <2>3, LenProperties DEF PageIInv
    <2>9. ASSUME NEW i \in 1 .. Len(seen')
          PROVE  seen'[i] = begin + i /\ seen'[i] <= total
      <3>1. CASE i <= Len(seen)
        <4>1. i \in 1 .. Len(seen)
          BY <3>1, <2>7, <2>8
        <4> QED
          BY <4>1, <2>7 DEF PageIInv
      <3>2. CASE i > Len(seen)
        <4> DEFINE j == i - Len(seen)
        <4>1. j \in 1 .. Len(page) /\ i = Len(seen) + j
          BY <3>2, <2>7, <2>8
        <4> HIDE DEF j
        <4>2. seen'[i] = offset + j
          BY <4>1, <2>3, <2>7
        <4>3. offset <= total /\ Len(page) <= total - offset
          BY <4>1, <2>1, <2>3, EmptySeq
        <4> QED
          BY <4>1, <4>2, <4>3, <2>1, <2>5, <2>8
      <3> QED
        BY <3>1, <3>2, <2>7, <2>8
    <2>10. Len(seen') = Len(seen) + Len(page)
      BY <2>7
    <2>11. reply' = "more" => next < total /\ next = begin + Len(seen')
      BY <2>1, <2>2, <2>3, <2>5, <2>6, <2>8, <2>10
    <2>12. reply' = "last" => begin + Len(seen') >= total
      <3>1. CASE offset >= total
        BY <3>1, <2>1, <2>5, <2>8, <2>10
      <3>2. CASE reply' = "last" /\ offset < total
        BY <3>2, <2>1, <2>2, <2>3, <2>5, <2>6, <2>8, <2>10
      <3> QED
        BY <3>1, <3>2, <2>1
    <2> QED
      BY <2>2, <2>4, <2>6, <2>7, <2>9, <2>11, <2>12 DEF PageIInv
  <1>3. CASE UNCHANGED pageVars
    BY <1>3 DEF PageIInv, pageVars
  <1> QED
    BY <1>1, <1>2, <1>3 DEF PageNext

(* A client that follows has_more sees every item from its first offset    *)
(* on, in order and once, whatever the width of usize, the offset and the  *)
(* limit: the saturating sum in paginate never repeats, skips or promises  *)
(* an item.                                                                *)
THEOREM PagesExact == PageSpec => []PagesAreExact
  <1>1. PageIInv => PagesAreExact
    <2> SUFFICES ASSUME PageIInv PROVE PagesAreExact
      OBVIOUS
    <2>1. reply = "more" => begin + Len(seen) < total
      BY DEF PageIInv
    <2> QED
      BY <2>1 DEF PageIInv, PagesAreExact
  <1> QED
    BY <1>1, InitPageIInv, NextPageIInv, PTL DEF PageSpec
=============================================================================
