---------------------------------- MODULE Paging ----------------------------------
(***************************************************************************)
(* The lists of the API, applications, users and the audit log, and a      *)
(* reader who goes through one page by page as the list page of the portal *)
(* does, while rows are added, enter the filter of the list and leave it.  *)
(* The three handlers differ in the filter and in the stamp they order by. *)
(***************************************************************************)
EXTENDS FiniteSetsExt, SequencesExt

CONSTANTS Limits,      \* how many rows a reader may ask for
          OldRows,     \* bound: rows that are there before the reader comes
          MaxRows,     \* bound: rows of the table
          MaxStamp,    \* bound: moments at which rows are made
          MaxChanges,  \* bound: rows entering and leaving the filter
          MaxDepth     \* bound: how far the reader goes

ASSUME PagingAssumption ==
  /\ Limits \subseteq Nat \ {0}
  /\ {OldRows, MaxRows, MaxStamp, MaxChanges, MaxDepth} \subseteq Nat
  /\ OldRows <= MaxRows

VARIABLES
  list,     \* "applications" (or accounts: their rows change), or "audit"
  limit,    \* the rows of a page
  table,    \* the rows in the order of their commits, with their stamp
            \*   and whether the reader's filter lets them through
  stack,    \* cursorStack of ApplicationsListPage
  cache,    \* cache[c]: the page that is cached for cursor c; the reader comes
            \*   back before it is collected (a bound)
  steady,   \* history: in the filter ever since the reader's first page came
  changes   \* history: rows that entered or left the filter

vars == <<list, limit, table, stack, cache, steady, changes>>

--------------------------------------------------------------------------------
NoCursor == 0
Cursor   == 0 .. MaxRows

NoPage == [there |-> FALSE]

Stamp(x)     == table[x].stamp
InFilter     == {x \in DOMAIN table : table[x].shown}
ActiveCursor == IF stack = << >> THEN NoCursor ELSE Last(stack)
Data         == cache[ActiveCursor]

\* orderBy the stamp, descending, take n: of equal stamps any may come first.
Take(n, rows) ==
  {top \in kSubset(IF n < Cardinality(rows) THEN n ELSE Cardinality(rows), rows) :
     \A x \in top, y \in rows \ top : Stamp(x) >= Stamp(y)}

Lowest(rows) == {x \in rows : \A y \in rows : Stamp(x) <= Stamp(y)}

\* Faulty form: the row of the cursor is not skipped.
After_NoSkip(c) ==
  IF c = NoCursor THEN {InFilter}
  ELSE {{x \in InFilter : Stamp(x) <= Stamp(c)}}

\* cursor: { id }, skip: 1.  What comes after a row among rows of its own stamp,
\* or after a row that the filter does not let through, the code leaves to
\* Prisma: some of the former; of the latter nothing, or what is older.
After(c) ==
  IF c = NoCursor THEN {InFilter}
  ELSE LET older == {x \in InFilter : Stamp(x) < Stamp(c)}
           equal == {x \in InFilter : Stamp(x) = Stamp(c)} \ {c}
       IN {older \cup some : some \in SUBSET equal}
            \cup IF c \in InFilter THEN {} ELSE {{}}

\* Faulty form: no row more than the page has.
Fetched_NoExtra(c) == UNION {Take(limit, rows) : rows \in After(c)}

Fetched(c) == UNION {Take(limit + 1, rows) : rows \in After(c)}

\* Faulty form: off by one.
HasMore_OffByOne(fetched) == Cardinality(fetched) >= limit

HasMore(fetched) == Cardinality(fetched) > limit

Page(c, items, next) ==
  [there |-> TRUE, items |-> items, nextCursor |-> next,
   lost |-> c # NoCursor /\ c \notin InFilter]

\* list and paginate: the row too many says that there is a next page, and the
\* last row that is left is its cursor.  "lost" is history.
Answer(c) ==
  UNION {IF HasMore(fetched)
         THEN UNION {{Page(c, items, last) : last \in Lowest(items)} :
                       items \in Take(limit, fetched)}
         ELSE {Page(c, fetched, NoCursor)} : fetched \in Fetched(c)}

--------------------------------------------------------------------------------
\* Rows that stay out of the filter for good are left out.
RowOf(l) == [stamp : 1 .. MaxStamp, shown : IF l = "audit" THEN {TRUE} ELSE BOOLEAN]

Init ==
  /\ list \in {"applications", "audit"} /\ limit \in Limits
  /\ table \in [1 .. OldRows -> RowOf(list)]
  /\ \A x, y \in DOMAIN table : x < y => Stamp(x) <= Stamp(y)
  /\ stack = << >>
  /\ cache = [c \in Cursor |-> NoPage]
  /\ steady = {} /\ changes = 0

\* A row is stamped when its transaction starts and is there when it commits: it
\* may be older than a row that is there already.
Insert ==
  /\ Len(table) < MaxRows
  /\ \E row \in RowOf(list) : table' = Append(table, row)
  /\ UNCHANGED <<list, limit, stack, cache, steady, changes>>

\* A transition moves an application into or out of a queue, a change of role an
\* account; an entry of the audit log stays what it is.
Change ==
  /\ list # "audit" /\ changes < MaxChanges
  /\ \E x \in DOMAIN table :
       /\ table' = [table EXCEPT ![x].shown = ~@]
       /\ steady' = steady \ {x}
  /\ changes' = changes + 1
  /\ UNCHANGED <<list, limit, stack, cache>>

\* The page shown is fetched: because it is not cached, stale, or invalidated.
Fetch ==
  /\ \E page \in Answer(ActiveCursor) :
       cache' = [cache EXCEPT ![ActiveCursor] = page]
  /\ steady' = IF cache[NoCursor].there THEN steady ELSE InFilter
  /\ UNCHANGED <<list, limit, table, stack, changes>>

\* The table and the buttons below it are drawn for a page that has rows.
Drawn == Data.there /\ Data.items # {}

HasNext == Drawn /\ Data.nextCursor # NoCursor

NextPage ==
  /\ HasNext /\ Len(stack) < MaxDepth
  /\ stack' = Append(stack, Data.nextCursor)
  /\ UNCHANGED <<list, limit, table, cache, steady, changes>>

Previous ==
  /\ Drawn /\ stack # << >>
  /\ stack' = Front(stack)
  /\ UNCHANGED <<list, limit, table, cache, steady, changes>>

\* The reader leaves the list and comes back.
Return ==
  /\ stack # << >>
  /\ stack' = << >>
  /\ UNCHANGED <<list, limit, table, cache, steady, changes>>

Next == Insert \/ Change \/ Fetch \/ NextPage \/ Previous \/ Return

Spec == Init /\ [][Next]_vars

--------------------------------------------------------------------------------
\* The pages the reader has gone through, each as it was when he left it.
Levels == [i \in 0 .. Len(stack) |-> cache[IF i = 0 THEN NoCursor ELSE stack[i]]]

Ties == \E x, y \in DOMAIN table : x # y /\ Stamp(x) = Stamp(y)

(* "Cursor also doesn't shift on new inserts": who has come to the last    *)
(* page has seen every row that was in the list all the while since his    *)
(* first page came; unless two rows have one stamp, or a cursor had left   *)
(* the list when the page after it was fetched.                            *)
ReadingIsComplete ==
  \/ Ties
  \/ \E i \in DOMAIN Levels : ~Levels[i].there \/ Levels[i].lost
  \/ Data.nextCursor # NoCursor
  \/ steady \subseteq UNION {Levels[i].items : i \in DOMAIN Levels}

(* No row is on two of the pages the reader has gone through, whatever was *)
(* added, left or came back meanwhile, unless two rows have one stamp.     *)
NothingIsShownTwice ==
  \/ Ties
  \/ \A i, j \in DOMAIN Levels : i # j /\ Levels[i].there /\ Levels[j].there
       => Levels[i].items \cap Levels[j].items = {}

(* "The extra row tells us if there's a next page": the page behind the    *)
(* button has rows, unless one has left the list since the reader came, or *)
(* two have one stamp.                                                     *)
NextPageHasRows ==
  stack # << >> /\ Data.there /\ changes = 0 /\ ~Ties => Data.items # {}
===================================================================================
