------------------------------ MODULE SqlLists ------------------------------
(***************************************************************************)
(* The pages and totals of every list of the API: getQueryParams,          *)
(* selectAndCountQuery and unionSelectAndCountQuery of sql-utils.ts, with  *)
(* the page and limit that BaseQueryFilter lets through.                   *)
(***************************************************************************)
EXTENDS Integers, Sequences, FiniteSets

CONSTANT DefaultLimit  \* DEFAULT_PAGE_SIZE

ASSUME DefaultLimitAssumption == DefaultLimit \in Nat \ {0}

\* The setters of the filter: a negative page is the first, a limit below one the default.
PageNumber(page) == IF page < 1 THEN 1 ELSE page
Limit(limit) == IF limit < 1 THEN DefaultLimit ELSE limit

\* ORDER BY, when the order is total: the place of a row is one behind those of the
\* rows that come before it.
Ordered(rows, Before(_, _)) ==
  [n \in 1 .. Cardinality(rows) |->
     CHOOSE r \in rows : Cardinality({s \in rows : Before(s, r)}) = n - 1]

\* Pages counted from zero
SkippedOffset(page, limit) == PageNumber(page) * Limit(limit)

Offset(page, limit) == (PageNumber(page) - 1) * Limit(limit)

\* LIMIT and OFFSET of a list
PageOf(list, page, limit) ==
  LET last == Offset(page, limit) + Limit(limit)
  IN  SubSeq(list, Offset(page, limit) + 1, IF last < Len(list) THEN last ELSE Len(list))

\* What selectAndCountQuery counts: the groups of the rows, HAVING left out.
GroupTotal(rows, group) == Cardinality({group[r] : r \in rows})

\* What unionSelectAndCountQuery counts: UNION keeps one of the ids of all tables.
UnionTotal(tables) == Cardinality(UNION tables)

\* The pages a client asks for when it is told the total
Pages(total, limit) == 1 .. ((total + Limit(limit) - 1) \div Limit(limit))

Reached(list, total, limit) ==
  UNION {{PageOf(list, page, limit)[i] : i \in DOMAIN PageOf(list, page, limit)}
         : page \in Pages(total, limit)}
=============================================================================
