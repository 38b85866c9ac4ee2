------------------------------ MODULE Listing ------------------------------
(***************************************************************************)
(* The paginated list queries of the API, as operators                     *)
(* (apps/api/src/utils/pagination.utils.ts, with the list of users as its  *)
(* caller): which items a page holds and what the pager is told.           *)
(***************************************************************************)
EXTENDS Integers, Sequences, FiniteSets

\* PAGINATION_CONSTANTS.
DEFAULT_PAGE == 1
DEFAULT_LIMIT == 10
MAX_LIMIT == 100

\* A parameter that is missing, or no number, is 0 here: `Number(x) || default`
\* takes 0 for it too.
OrDefault(x, default) == IF x = 0 THEN default ELSE x

AtLeastOne(x) == IF x < 1 THEN 1 ELSE x
AtMost(x, max) == IF x > max THEN max ELSE x

\* validatePaginationParams.
PageOf(x) == AtLeastOne(OrDefault(x, DEFAULT_PAGE))
LimitOf(x) == AtMost(AtLeastOne(OrDefault(x, DEFAULT_LIMIT)), MAX_LIMIT)

\* Mutant: skip counts the pages from 0.
SkipFromZero(page, limit) == page * limit

Skip(page, limit) == (page - 1) * limit

\* The items of a collection that match, in its order.
Selected(collection, Matching) ==
    LET at == {i \in DOMAIN collection : collection[i] \in Matching}
        Nth(n) == CHOOSE i \in at : Cardinality({j \in at : j <= i}) = n
    IN  [n \in 1..Cardinality(at) |-> collection[Nth(n)]]

\* Mutant: the limit not passed on.
FindUnlimited(collection, Matching, page, limit) ==
    LET hits == Selected(collection, Matching)
    IN  SubSeq(hits, Skip(page, limit) + 1, Len(hits))

\* find: the matching items, from skip on.
Find(collection, Matching, page, limit) ==
    LET hits == Selected(collection, Matching)
    IN  SubSeq(hits, Skip(page, limit) + 1,
                     AtMost(Skip(page, limit) + limit, Len(hits)))

\* countDocuments: all the matching items.
Count(collection, Matching) == Len(Selected(collection, Matching))

\* Math.ceil(total / limit).
TotalPages(total, limit) == (total + limit - 1) \div limit

HasNextPage(page, limit, total) == page < TotalPages(total, limit)
HasPreviousPage(page) == page > 1
=============================================================================
