------------------------------ MODULE PagingProofs ------------------------------
(***************************************************************************)
(* The properties of Paging for tables, pages and readers of any size.     *)
(*                                                                         *)
(* The cursors of the stack descend: each is the last row of the page      *)
(* before it, and what is on a page lies below its own cursor and not      *)
(* below the next one.  A page that was answered while its cursor was in   *)
(* the filter has every steady row between the two.  None of this survives *)
(* two rows of one stamp, which once there are there for ever.             *)
(***************************************************************************)
EXTENDS Paging, FiniteSetTheorems, TLAPS

Row      == [stamp : Nat, shown : BOOLEAN]
PageType == [there : BOOLEAN, items : SUBSET Cursor, nextCursor : Cursor, lost : BOOLEAN]

PTypeInv ==
  /\ limit \in Nat \ {0}
  /\ table \in Seq(Row) /\ Len(table) <= MaxRows
  /\ stack \in Seq(Cursor)
  /\ cache \in [Cursor -> {NoPage} \cup PageType]
  /\ steady \subseteq InFilter
  /\ changes \in Nat

\* The page i steps from the first.
LevelCursor(i) == IF i = 0 THEN NoCursor ELSE stack[i]
Level(i)       == cache[LevelCursor(i)]

\* The stack is the trail of next cursors of the pages that led to it.  The first
\* page is the first that is cached.
StackInv ==
  /\ \A i \in 1 .. Len(stack) :
       /\ stack[i] \in DOMAIN table
       /\ Level(i - 1).there /\ Level(i - 1).nextCursor = stack[i]
  /\ \A i, j \in 1 .. Len(stack) : i < j => Stamp(stack[j]) < Stamp(stack[i])
  /\ \A c \in Cursor : cache[c].there =>
       cache[NoCursor].there /\ (c # NoCursor => c \in DOMAIN table)

\* There is more behind row c.
MoreBelow(c) == \E y \in InFilter : Stamp(y) < Stamp(c)

\* What is on page p lies between its cursor and the next one.
Between(p, c) ==
  /\ p.items \subseteq DOMAIN table
  /\ c # NoCursor => \A x \in p.items : Stamp(x) < Stamp(c)
  /\ p.nextCursor # NoCursor =>
       p.nextCursor \in p.items /\ \A x \in p.items : Stamp(p.nextCursor) <= Stamp(x)

\* While nothing has changed, what p says is still so.
Current(p, c) ==
  changes = 0 =>
    /\ p.items \subseteq InFilter
    /\ p.nextCursor # NoCursor => MoreBelow(p.nextCursor)
    /\ c # NoCursor => p.items # {}

\* Those of the rows that lie below its cursor are on page p or on a later one.
Complete(p, c, rows) ==
  p.lost \/ \A x \in rows : (c # NoCursor => Stamp(x) < Stamp(c)) =>
              \/ x \in p.items
              \/ p.nextCursor # NoCursor /\ Stamp(x) < Stamp(p.nextCursor)

PagesInv ==
  \A c \in Cursor : cache[c].there =>
    Between(cache[c], c) /\ Current(cache[c], c) /\ Complete(cache[c], c, steady)

\* Each steady row was passed, or is still ahead of the reader.
SeenInv ==
  \A i \in 1 .. Len(stack), x \in steady :
    \/ \E j \in 0 .. i - 1 : Level(j).lost \/ x \in Level(j).items
    \/ Stamp(x) < Stamp(stack[i])

PagingInv == PTypeInv /\ (Ties \/ (StackInv /\ PagesInv /\ SeenInv))

--------------------------------------------------------------------------------
(* A sequence without its last element. *)
LEMMA FrontFacts ==
  ASSUME NEW S, NEW s \in Seq(S), s # << >>
  PROVE  /\ Front(s) \in Seq(S) /\ Len(s) > 0 /\ Len(Front(s)) = Len(s) - 1
         /\ \A k \in 1 .. Len(s) - 1 : Front(s)[k] = s[k]
<1> DEFINE m == Len(s) - 1
<1>1. Len(s) \in Nat /\ Len(s) > 0 /\ m \in Nat /\ m < Len(s)
  OBVIOUS
<1>2. Front(s) = SubSeq(s, 1, m)
  BY DEF Front
<1> HIDE DEF m
<1>3. Len(SubSeq(s, 1, m)) = m /\ \A k \in 1 .. m : SubSeq(s, 1, m)[k] = s[k]
  BY <1>1
<1>4. SubSeq(s, 1, m) \in Seq(S)
  BY <1>1
<1> QED BY <1>1, <1>2, <1>3, <1>4 DEF m

(* The rows are numbers of the table, with a stamp each. *)
LEMMA RowFacts ==
  ASSUME PTypeInv
  PROVE  /\ DOMAIN table = 1 .. Len(table) /\ DOMAIN table \subseteq Cursor \ {NoCursor}
         /\ \A x \in DOMAIN table : Stamp(x) \in Nat
         /\ InFilter \subseteq DOMAIN table /\ IsFiniteSet(InFilter)
<1>1. DOMAIN table = 1 .. Len(table) /\ Len(table) \in Nat /\ Len(table) <= MaxRows
  BY DEF PTypeInv
<1>2. \A x \in DOMAIN table : table[x] \in Row
  BY <1>1 DEF PTypeInv
<1>3. InFilter \subseteq DOMAIN table
  BY DEF InFilter
<1>4. IsFiniteSet(1 .. Len(table))
  BY <1>1, FS_Interval
<1>5. IsFiniteSet(InFilter)
  BY <1>1, <1>3, <1>4, FS_Subset
<1>6. DOMAIN table \subseteq Cursor \ {NoCursor}
  BY <1>1, PagingAssumption DEF Cursor, NoCursor
<1> QED BY <1>1, <1>2, <1>3, <1>5, <1>6 DEF Row, Stamp

(* What LIMIT leaves of some rows: all of them, or as many as were asked   *)
(* for, none of which comes after one that is left out.                    *)
LEMMA TakeFacts ==
  ASSUME NEW rows, IsFiniteSet(rows), NEW n \in Nat, NEW top \in Take(n, rows)
  PROVE  /\ top \subseteq rows /\ IsFiniteSet(top)
         /\ \A x \in top, y \in rows \ top : Stamp(x) >= Stamp(y)
         /\ top = rows \/ Cardinality(top) = n
         /\ rows # {} /\ n > 0 => top # {}
<1>1. /\ top \subseteq rows
      /\ Cardinality(top) = IF n < Cardinality(rows) THEN n ELSE Cardinality(rows)
      /\ \A x \in top, y \in rows \ top : Stamp(x) >= Stamp(y)
  BY DEF Take, kSubset
<1>2. IsFiniteSet(top) /\ (Cardinality(top) = Cardinality(rows) => top = rows)
  BY <1>1, FS_Subset
<1>3. Cardinality({}) = 0
  BY FS_EmptySet
<1> QED BY <1>1, <1>2, <1>3

(* The rows behind a cursor that is in the filter, without equal stamps. *)
LEMMA AfterFacts ==
  ASSUME PTypeInv, ~Ties, NEW c \in {NoCursor} \cup DOMAIN table, NEW rows \in After(c)
  PROVE  /\ rows \subseteq InFilter /\ IsFiniteSet(rows)
         /\ c # NoCursor => \A x \in rows : Stamp(x) < Stamp(c)
         /\ c = NoCursor \/ c \in InFilter =>
              \A x \in InFilter : (c # NoCursor => Stamp(x) < Stamp(c)) => x \in rows
<1>1. rows \subseteq InFilter
  BY DEF After
<1>2. IsFiniteSet(rows)
  BY <1>1, RowFacts, FS_Subset
<1>3. CASE c = NoCursor
  BY <1>1, <1>2, <1>3 DEF After
<1>4. CASE c # NoCursor
  <2> DEFINE older == {x \in InFilter : Stamp(x) < Stamp(c)}
             equal == {x \in InFilter : Stamp(x) = Stamp(c)} \ {c}
  <2>1. equal = {}
    BY <1>4, RowFacts DEF Ties
  <2>2. rows = older \/ (c \notin InFilter /\ rows = {})
    <3>1. rows \in {older \cup some : some \in SUBSET equal}
                     \cup IF c \in InFilter THEN {} ELSE {{}}
      BY <1>4 DEF After
    <3> HIDE DEF older, equal
    <3>2. CASE rows \in {older \cup some : some \in SUBSET equal}
      BY <3>2, <2>1
    <3>3. CASE rows \notin {older \cup some : some \in SUBSET equal}
      BY <3>1, <3>3
    <3> QED BY <3>2, <3>3
  <2> QED BY <1>1, <1>2, <1>4, <2>2
<1> QED BY <1>3, <1>4

(* The fields of a page. *)
LEMMA PageFields ==
  ASSUME NEW c, NEW items, NEW next
  PROVE  LET p == Page(c, items, next)
         IN  /\ p.there /\ p.items = items /\ p.nextCursor = next
             /\ p.lost <=> c # NoCursor /\ c \notin InFilter
             /\ items \subseteq Cursor /\ next \in Cursor => p \in PageType
<1> DEFINE lost == c # NoCursor /\ c \notin InFilter
           yes  == TRUE
           p    == [there |-> yes, items |-> items, nextCursor |-> next, lost |-> lost]
<1>1. lost \in BOOLEAN /\ yes \in BOOLEAN
  OBVIOUS
<1>2. Page(c, items, next) = p
  BY DEF Page
<1>3. p.lost <=> c # NoCursor /\ c \notin InFilter
  <2>1. p.lost = lost
    OBVIOUS
  <2> QED BY <2>1
<1>6. p.there
  <2>1. p.there = yes
    OBVIOUS
  <2> QED BY <2>1
<1> HIDE DEF lost, yes
<1>4. p.items = items /\ p.nextCursor = next
  OBVIOUS
<1>5. items \subseteq Cursor /\ next \in Cursor => p \in PageType
  BY <1>1 DEF PageType
<1> QED BY <1>2, <1>3, <1>4, <1>5, <1>6

(* What a list answers: the rows it fetched, or all but the one too many,  *)
(* with the last of them as the cursor.                                    *)
LEMMA AnswerShape ==
  ASSUME NEW c, NEW p \in Answer(c)
  PROVE  \E fetched \in Fetched(c) : \E items, next :
           /\ p = Page(c, items, next)
           /\ \/ HasMore(fetched) /\ items \in Take(limit, fetched) /\ next \in Lowest(items)
              \/ ~HasMore(fetched) /\ items = fetched /\ next = NoCursor
<1>1. PICK fetched \in Fetched(c) :
        p \in IF HasMore(fetched)
              THEN UNION {{Page(c, items, last) : last \in Lowest(items)} :
                            items \in Take(limit, fetched)}
              ELSE {Page(c, fetched, NoCursor)}
  BY DEF Answer
<1>2. CASE HasMore(fetched)
  <2>1. PICK items \in Take(limit, fetched) :
          p \in {Page(c, items, last) : last \in Lowest(items)}
    BY <1>1, <1>2
  <2>2. PICK last \in Lowest(items) : p = Page(c, items, last)
    BY <2>1
  <2> QED BY <1>2, <2>1, <2>2
<1>3. CASE ~HasMore(fetched)
  <2>1. p = Page(c, fetched, NoCursor)
    BY <1>1, <1>3
  <2> QED BY <1>3, <2>1
<1> QED BY <1>2, <1>3

(* The parts of an answer, as sets of rows. *)
LEMMA AnswerParts ==
  ASSUME PTypeInv, NEW c, NEW p \in Answer(c)
  PROVE  \E rows \in After(c) : \E fetched \in Take(limit + 1, rows) :
           /\ rows \subseteq InFilter /\ IsFiniteSet(rows)
           /\ p \in PageType /\ p.there
           /\ p.lost <=> c # NoCursor /\ c \notin InFilter
           /\ \/ /\ p.nextCursor \in p.items /\ p.items \subseteq fetched
                 /\ p.items # fetched
                 /\ \A x \in p.items : Stamp(p.nextCursor) <= Stamp(x)
                 /\ \A x \in p.items, y \in fetched \ p.items : Stamp(x) >= Stamp(y)
              \/ p.nextCursor = NoCursor /\ p.items = fetched /\ fetched = rows
<1>1. PICK fetched \in Fetched(c) : \E items, next :
           /\ p = Page(c, items, next)
           /\ \/ HasMore(fetched) /\ items \in Take(limit, fetched) /\ next \in Lowest(items)
              \/ ~HasMore(fetched) /\ items = fetched /\ next = NoCursor
  BY AnswerShape
<1>2. PICK items, next :
           /\ p = Page(c, items, next)
           /\ \/ HasMore(fetched) /\ items \in Take(limit, fetched) /\ next \in Lowest(items)
              \/ ~HasMore(fetched) /\ items = fetched /\ next = NoCursor
  BY <1>1
<1>3. PICK rows \in After(c) : fetched \in Take(limit + 1, rows)
  BY DEF Fetched
<1>4. rows \subseteq InFilter
  BY <1>3 DEF After
<1>5. IsFiniteSet(rows) /\ rows \subseteq Cursor \ {NoCursor}
  BY <1>4, RowFacts, FS_Subset
<1>6. limit \in Nat /\ limit > 0 /\ limit + 1 \in Nat
  BY DEF PTypeInv
<1>7. /\ fetched \subseteq rows /\ IsFiniteSet(fetched)
      /\ fetched = rows \/ Cardinality(fetched) = limit + 1
  BY <1>3, <1>5, <1>6, TakeFacts
<1>8. NoCursor \in Cursor
  BY PagingAssumption DEF Cursor, NoCursor
<1>9. CASE HasMore(fetched)
  <2>1. items \in Take(limit, fetched) /\ next \in Lowest(items)
    BY <1>2, <1>9
  <2>2. /\ items \subseteq fetched /\ IsFiniteSet(items)
        /\ \A x \in items, y \in fetched \ items : Stamp(x) >= Stamp(y)
    BY <1>6, <1>7, <2>1, TakeFacts
  <2>3. Cardinality(items) = limit
    <3>1. limit < Cardinality(fetched)
      BY <1>6, <1>7, <1>9, FS_CardinalityType DEF HasMore
    <3> QED BY <3>1, <2>1 DEF Take, kSubset
  <2>4. items # fetched
    BY <1>6, <1>9, <2>3 DEF HasMore
  <2>5. next \in items /\ \A x \in items : Stamp(next) <= Stamp(x)
    BY <2>1 DEF Lowest
  <2>6. p \in PageType /\ p.there
    BY <1>2, <1>5, <1>7, <2>2, <2>5, PageFields
  <2>7. p.items = items /\ p.nextCursor = next /\ (p.lost <=> c # NoCursor /\ c \notin InFilter)
    BY <1>2, PageFields
  <2> QED BY <1>3, <1>4, <1>5, <2>2, <2>4, <2>5, <2>6, <2>7
<1>10. CASE ~HasMore(fetched)
  <2>1. items = fetched /\ next = NoCursor
    BY <1>2, <1>10
  <2>2. fetched = rows
    BY <1>6, <1>7, <1>10 DEF HasMore
  <2>3. p \in PageType /\ p.there
    BY <1>2, <1>5, <1>7, <1>8, <2>1, PageFields
  <2>4. p.items = items /\ p.nextCursor = next /\ (p.lost <=> c # NoCursor /\ c \notin InFilter)
    BY <1>2, PageFields
  <2> QED BY <1>3, <1>4, <1>5, <2>1, <2>2, <2>3, <2>4
<1> QED BY <1>9, <1>10

(* A page that is answered fits between the cursors, is current and has    *)
(* every row of the filter that belongs on it, if no stamps are equal.     *)
LEMMA AnswerFits ==
  ASSUME PTypeInv, ~Ties, NEW c \in {NoCursor} \cup DOMAIN table, NEW p \in Answer(c),
         changes = 0 /\ c # NoCursor => c \in InFilter /\ MoreBelow(c)
  PROVE  Between(p, c) /\ Current(p, c) /\ Complete(p, c, InFilter)
<1>1. PICK rows \in After(c) : \E fetched \in Take(limit + 1, rows) :
           /\ rows \subseteq InFilter /\ IsFiniteSet(rows)
           /\ p \in PageType /\ p.there
           /\ p.lost <=> c # NoCursor /\ c \notin InFilter
           /\ \/ /\ p.nextCursor \in p.items /\ p.items \subseteq fetched
                 /\ p.items # fetched
                 /\ \A x \in p.items : Stamp(p.nextCursor) <= Stamp(x)
                 /\ \A x \in p.items, y \in fetched \ p.items : Stamp(x) >= Stamp(y)
              \/ p.nextCursor = NoCursor /\ p.items = fetched /\ fetched = rows
  BY AnswerParts
<1>2. PICK fetched \in Take(limit + 1, rows) :
           /\ rows \subseteq InFilter /\ IsFiniteSet(rows)
           /\ p.lost <=> c # NoCursor /\ c \notin InFilter
           /\ \/ /\ p.nextCursor \in p.items /\ p.items \subseteq fetched
                 /\ p.items # fetched
                 /\ \A x \in p.items : Stamp(p.nextCursor) <= Stamp(x)
                 /\ \A x \in p.items, y \in fetched \ p.items : Stamp(x) >= Stamp(y)
              \/ p.nextCursor = NoCursor /\ p.items = fetched /\ fetched = rows
  BY <1>1
<1>3. /\ fetched \subseteq rows
      /\ \A x \in fetched, y \in rows \ fetched : Stamp(x) >= Stamp(y)
  <2>1. limit + 1 \in Nat
    BY DEF PTypeInv
  <2> QED BY <1>2, <2>1, TakeFacts
<1>4. /\ c # NoCursor => \A x \in rows : Stamp(x) < Stamp(c)
      /\ c = NoCursor \/ c \in InFilter =>
           \A x \in InFilter : (c # NoCursor => Stamp(x) < Stamp(c)) => x \in rows
  BY AfterFacts
<1>5. /\ \A x \in DOMAIN table : Stamp(x) \in Nat
      /\ InFilter \subseteq DOMAIN table /\ NoCursor \notin DOMAIN table
  BY RowFacts
<1>6. \A x, y \in DOMAIN table : x # y => Stamp(x) # Stamp(y)
  BY DEF Ties
<1>7. CASE p.nextCursor = NoCursor /\ p.items = fetched /\ fetched = rows
  <2>1. Between(p, c)
    BY <1>2, <1>4, <1>5, <1>7 DEF Between
  <2>2. Current(p, c)
    <3> SUFFICES ASSUME changes = 0 PROVE p.items \subseteq InFilter /\ (c # NoCursor => p.items # {})
      BY <1>7 DEF Current
    <3>1. ASSUME c # NoCursor PROVE p.items # {}
      BY <3>1, <1>4, <1>7 DEF MoreBelow
    <3> QED BY <1>2, <1>7, <3>1
  <2>3. Complete(p, c, InFilter)
    BY <1>2, <1>4, <1>7 DEF Complete
  <2> QED BY <2>1, <2>2, <2>3
<1>8. CASE /\ p.nextCursor \in p.items /\ p.items \subseteq fetched
           /\ p.items # fetched
           /\ \A x \in p.items : Stamp(p.nextCursor) <= Stamp(x)
           /\ \A x \in p.items, y \in fetched \ p.items : Stamp(x) >= Stamp(y)
  <2>1. p.nextCursor \in DOMAIN table /\ p.items \subseteq DOMAIN table
    BY <1>2, <1>3, <1>5, <1>8
  <2>2. \A y \in InFilter : y \in rows /\ y \notin p.items => Stamp(y) < Stamp(p.nextCursor)
    <3> SUFFICES ASSUME NEW y \in InFilter, y \in rows, y \notin p.items
                 PROVE  Stamp(y) < Stamp(p.nextCursor)
      OBVIOUS
    <3>1. Stamp(p.nextCursor) >= Stamp(y)
      BY <1>3, <1>8
    <3>2. Stamp(p.nextCursor) # Stamp(y)
      BY <1>5, <1>6, <1>8, <2>1
    <3> QED BY <3>1, <3>2, <1>5, <2>1
  <2>3. Between(p, c)
    BY <1>2, <1>3, <1>4, <1>8, <2>1 DEF Between
  <2>4. Current(p, c)
    <3>1. PICK y \in fetched : y \notin p.items
      BY <1>8
    <3>2. MoreBelow(p.nextCursor)
      BY <1>2, <1>3, <2>2, <3>1 DEF MoreBelow
    <3> QED BY <1>2, <1>3, <1>8, <3>2 DEF Current
  <2>5. Complete(p, c, InFilter)
    BY <1>2, <1>4, <1>5, <2>1, <2>2 DEF Complete
  <2> QED BY <2>3, <2>4, <2>5
<1> QED BY <1>2, <1>7, <1>8

(* A page is on the stack, or the first. *)
LEMMA LevelFacts ==
  ASSUME PTypeInv
  PROVE  /\ Len(stack) \in Nat /\ NoCursor \in Cursor
         /\ \A i \in 0 .. Len(stack) : LevelCursor(i) \in Cursor
         /\ ActiveCursor = LevelCursor(Len(stack)) /\ Data = Level(Len(stack))
         /\ \A c \in Cursor : cache[c].there => cache[c] \in PageType
<1>1. stack \in Seq(Cursor) /\ Len(stack) \in Nat
  BY DEF PTypeInv
<1>2. NoCursor \in Cursor
  BY PagingAssumption DEF Cursor, NoCursor
<1>3. stack = << >> <=> Len(stack) = 0
  BY <1>1
<1>4. ActiveCursor = LevelCursor(Len(stack)) /\ Data = Level(Len(stack))
  BY <1>3 DEF ActiveCursor, LevelCursor, Level, Data, Last
<1>5. \A i \in 0 .. Len(stack) : LevelCursor(i) \in Cursor
  BY <1>1, <1>2 DEF LevelCursor
<1>6. NoPage.there = FALSE
  BY DEF NoPage
<1>7. \A c \in Cursor : cache[c].there => cache[c] \in PageType
  BY <1>6 DEF PTypeInv
<1> QED BY <1>1, <1>2, <1>4, <1>5, <1>7

(* Different pages of the way have different cursors. *)
LEMMA LevelsDiffer ==
  ASSUME PTypeInv, StackInv
  PROVE  \A i, j \in 0 .. Len(stack) : i # j => LevelCursor(i) # LevelCursor(j)
<1>1. \A i \in 1 .. Len(stack) : stack[i] \in DOMAIN table /\ stack[i] # NoCursor
  BY RowFacts DEF StackInv
<1>2. \A i, j \in 1 .. Len(stack) : i < j => stack[i] # stack[j]
  BY <1>1, RowFacts DEF StackInv
<1>3. Len(stack) \in Nat
  BY LevelFacts
<1> QED BY <1>1, <1>2, <1>3 DEF LevelCursor

--------------------------------------------------------------------------------
(* The rows of each list are rows: the bound of the stamps is left out.    *)
LEMMA RowsOfLists ==
  ASSUME NEW l
  PROVE  RowOf(l) \subseteq Row
<1> DEFINE filter == IF l = "audit" THEN {TRUE} ELSE BOOLEAN
<1>1. filter \subseteq BOOLEAN
  OBVIOUS
<1>2. 1 .. MaxStamp \subseteq Nat
  BY PagingAssumption
<1>3. RowOf(l) = [stamp : 1 .. MaxStamp, shown : filter]
  BY DEF RowOf
<1> HIDE DEF filter
<1>4. [stamp : 1 .. MaxStamp, shown : filter] \subseteq [stamp : Nat, shown : BOOLEAN]
  BY <1>1, <1>2
<1> QED BY <1>3, <1>4 DEF Row

(* The table only grows, and what is stamped stays so; the filter loses    *)
(* only rows that are counted as changes and forgotten as steady.          *)
LEMMA TableGrows ==
  ASSUME PTypeInv, [Next]_vars
  PROVE  /\ table' \in Seq(Row) /\ Len(table') <= MaxRows
         /\ DOMAIN table \subseteq DOMAIN table'
         /\ \A x \in DOMAIN table : table'[x].stamp = table[x].stamp
         /\ changes' \in Nat
         /\ changes' = 0 => changes = 0 /\ InFilter \subseteq InFilter'
         /\ \A x \in InFilter : x \in InFilter' \/ (x \notin steady' /\ Change)
<1>1. /\ table \in Seq(Row) /\ Len(table) \in Nat /\ Len(table) <= MaxRows
      /\ DOMAIN table = 1 .. Len(table)
      /\ changes \in Nat
  BY DEF PTypeInv
<1>2. CASE Insert
  <2>1. PICK row \in RowOf(list) : table' = Append(table, row)
    BY <1>2 DEF Insert
  <2>2. row \in Row
    BY RowsOfLists
  <2>3. /\ table' \in Seq(Row) /\ Len(table') = Len(table) + 1
        /\ \A x \in DOMAIN table : table'[x] = table[x]
    BY <1>1, <2>1, <2>2
  <2>4. DOMAIN table \subseteq DOMAIN table' /\ InFilter \subseteq InFilter'
    BY <1>1, <2>3 DEF InFilter
  <2>5. Len(table') <= MaxRows /\ changes' = changes
    BY <1>1, <1>2, <2>3, PagingAssumption DEF Insert
  <2> QED BY <1>1, <2>3, <2>4, <2>5
<1>3. CASE Change
  <2>1. PICK z \in DOMAIN table :
          table' = [table EXCEPT ![z].shown = ~@] /\ steady' = steady \ {z}
    BY <1>3 DEF Change
  <2>2. changes' = changes + 1
    BY <1>3 DEF Change
  <2> DEFINE row == [table[z] EXCEPT !.shown = ~@]
  <2>3. row \in Row /\ row.stamp = table[z].stamp
    <3>1. table[z] \in Row
      BY <1>1
    <3> QED BY <3>1 DEF Row
  <2>4. table' = [table EXCEPT ![z] = row]
    BY <2>1
  <2> HIDE DEF row
  <2>5. /\ table' \in Seq(Row) /\ Len(table') = Len(table) /\ DOMAIN table' = DOMAIN table
        /\ \A x \in DOMAIN table : table'[x] = IF x = z THEN row ELSE table[x]
    BY <1>1, <2>3, <2>4
  <2>6. \A x \in InFilter : x \in InFilter' \/ x \notin steady'
    BY <2>1, <2>5 DEF InFilter
  <2> QED BY <1>1, <1>3, <2>2, <2>3, <2>5, <2>6
<1>4. CASE table' = table /\ changes' = changes
  BY <1>1, <1>4 DEF InFilter
<1>5. QED
  BY <1>2, <1>3, <1>4 DEF Next, vars, Fetch, NextPage, Previous, Return

(* Two rows of one stamp keep it.                                          *)
LEMMA TiesStay ==
  ASSUME PTypeInv, [Next]_vars, Ties
  PROVE  Ties'
BY TableGrows DEF Ties, Stamp

(* Nothing is fetched at first.                                            *)
LEMMA PInitial ==
  ASSUME Init
  PROVE  PagingInv
<1>1. /\ table \in [1 .. OldRows -> Row] /\ OldRows \in Nat /\ OldRows <= MaxRows
  BY PagingAssumption, RowsOfLists DEF Init
<1>2. table \in Seq(Row) /\ Len(table) <= MaxRows
  BY <1>1
<1>3. NoPage.there = FALSE
  BY DEF NoPage
<1>4. PTypeInv
  BY <1>2, PagingAssumption DEF Init, PTypeInv
<1>5. stack = << >> /\ Len(stack) = 0 /\ \A c \in Cursor : ~cache[c].there
  BY <1>3 DEF Init
<1>6. StackInv /\ PagesInv /\ SeenInv
  BY <1>5 DEF StackInv, PagesInv, SeenInv
<1> QED BY <1>4, <1>6 DEF PagingInv

(* The types are kept, whether stamps are equal or not.                    *)
LEMMA PTypesStep ==
  ASSUME PTypeInv, [Next]_vars
  PROVE  PTypeInv'
<1>1. /\ limit \in Nat \ {0} /\ stack \in Seq(Cursor) /\ steady \subseteq InFilter
      /\ cache \in [Cursor -> {NoPage} \cup PageType]
  BY DEF PTypeInv
<1>2. table' \in Seq(Row) /\ Len(table') <= MaxRows /\ changes' \in Nat
  BY TableGrows
<1>3. limit' = limit
  BY DEF Next, vars, Insert, Change, Fetch, NextPage, Previous, Return
<1>4. steady' \subseteq InFilter'
  <2>1. CASE Fetch
    BY <1>1, <2>1 DEF Fetch, InFilter
  <2>2. CASE ~Fetch
    <3>1. steady' \subseteq steady
      BY <2>2 DEF Next, vars, Insert, Change, NextPage, Previous, Return
    <3> QED BY <1>1, <3>1, TableGrows DEF Change, InFilter
  <2> QED BY <2>1, <2>2
<1>5. stack' \in Seq(Cursor)
  <2>1. CASE NextPage
    <3>1. Data.there /\ stack' = Append(stack, Data.nextCursor)
      BY <2>1 DEF NextPage, HasNext, Drawn
    <3>2. Data \in PageType
      BY <3>1, LevelFacts DEF Data
    <3> QED BY <1>1, <3>1, <3>2 DEF PageType
  <2>2. CASE Previous
    BY <1>1, <2>2, FrontFacts DEF Previous
  <2>3. CASE Return
    BY <2>3 DEF Return
  <2>4. CASE stack' = stack
    BY <1>1, <2>4
  <2> QED BY <2>1, <2>2, <2>3, <2>4 DEF Next, vars, Insert, Change, Fetch
<1>6. cache' \in [Cursor -> {NoPage} \cup PageType]
  <2>1. CASE Fetch
    <3>1. PICK page \in Answer(ActiveCursor) : cache' = [cache EXCEPT ![ActiveCursor] = page]
      BY <2>1 DEF Fetch
    <3>2. page \in PageType
      BY AnswerParts
    <3> QED BY <1>1, <3>1, <3>2
  <2>2. CASE cache' = cache
    BY <1>1, <2>2
  <2> QED BY <2>1, <2>2 DEF Next, vars, Insert, Change, NextPage, Previous, Return
<1> QED BY <1>1, <1>2, <1>3, <1>4, <1>5, <1>6 DEF PTypeInv

--------------------------------------------------------------------------------
(* A fetch changes the page that is shown and leaves the others. *)
LEMMA FetchFacts ==
  ASSUME PTypeInv, Fetch
  PROVE  /\ table' = table /\ stack' = stack /\ changes' = changes
         /\ cache'[ActiveCursor] \in Answer(ActiveCursor) /\ cache'[ActiveCursor].there
         /\ \A c \in Cursor \ {ActiveCursor} : cache'[c] = cache[c]
         /\ steady' = IF cache[NoCursor].there THEN steady ELSE InFilter
<1>1. PICK page \in Answer(ActiveCursor) : cache' = [cache EXCEPT ![ActiveCursor] = page]
  BY DEF Fetch
<1>2. ActiveCursor \in Cursor
  BY LevelFacts
<1>3. DOMAIN cache = Cursor
  BY DEF PTypeInv
<1>4. page.there
  BY AnswerParts
<1> QED BY <1>1, <1>2, <1>3, <1>4 DEF Fetch

(* The other steps answer nothing. *)
LEMMA NoAnswer ==
  ASSUME [Next]_vars, ~Fetch
  PROVE  cache' = cache /\ steady' \subseteq steady
BY DEF Next, vars, Insert, Change, NextPage, Previous, Return

(* When page c is fetched, what it was called for is still so. *)
LEMMA ActiveFacts ==
  ASSUME PTypeInv, StackInv, PagesInv
  PROVE  /\ ActiveCursor \in {NoCursor} \cup DOMAIN table
         /\ changes = 0 /\ ActiveCursor # NoCursor =>
              ActiveCursor \in InFilter /\ MoreBelow(ActiveCursor)
<1> DEFINE n == Len(stack)
<1>1. n \in Nat /\ ActiveCursor = LevelCursor(n)
  BY LevelFacts
<1>2. CASE n = 0
  BY <1>1, <1>2 DEF LevelCursor
<1>3. CASE n # 0
  <2>1. n \in 1 .. Len(stack) /\ ActiveCursor = stack[n]
    BY <1>1, <1>3 DEF LevelCursor
  <2>2. /\ stack[n] \in DOMAIN table /\ stack[n] # NoCursor
        /\ Level(n - 1).there /\ Level(n - 1).nextCursor = stack[n]
    BY <2>1, RowFacts DEF StackInv
  <2>3. LevelCursor(n - 1) \in Cursor
    BY <1>1, <1>3, LevelFacts
  <2>4. Between(Level(n - 1), LevelCursor(n - 1)) /\ Current(Level(n - 1), LevelCursor(n - 1))
    BY <2>2, <2>3 DEF PagesInv, Level
  <2> QED BY <2>1, <2>2, <2>4 DEF Between, Current
<1> QED BY <1>2, <1>3

(* What stays cached still fits while the table grows, and what is fetched *)
(* fits by AnswerFits.                                                     *)
LEMMA PagesStep ==
  ASSUME PTypeInv, StackInv, PagesInv, ~Ties, [Next]_vars
  PROVE  PagesInv'
<1> SUFFICES ASSUME NEW c \in Cursor, cache'[c].there
             PROVE  /\ Between(cache[c], c)' /\ Current(cache[c], c)'
                    /\ Complete(cache[c], c, steady)'
  BY DEF PagesInv
<1>1. CASE Fetch /\ c = ActiveCursor
  <2>1. cache'[c] \in Answer(c)
    BY <1>1, FetchFacts
  <2>2. /\ Between(cache'[c], c) /\ Current(cache'[c], c)
        /\ Complete(cache'[c], c, InFilter)
    BY <1>1, <2>1, ActiveFacts, AnswerFits
  <2>3. table' = table /\ changes' = changes /\ steady' \subseteq InFilter
    BY <1>1, FetchFacts DEF PTypeInv
  <2>4. Between(cache[c], c)'
    BY <2>2, <2>3 DEF Between, Stamp
  <2>5. Current(cache[c], c)'
    BY <2>2, <2>3 DEF Current, MoreBelow, InFilter, Stamp
  <2>6. Complete(cache[c], c, steady)'
    BY <2>2, <2>3 DEF Complete, Stamp
  <2> QED BY <2>4, <2>5, <2>6
<1>2. CASE ~(Fetch /\ c = ActiveCursor)
  <2>1. cache'[c] = cache[c] /\ cache[c].there
    BY <1>2, FetchFacts, NoAnswer
  <2>2. Between(cache[c], c) /\ Current(cache[c], c) /\ Complete(cache[c], c, steady)
    BY <2>1 DEF PagesInv
  <2>3. c # NoCursor => c \in DOMAIN table
    BY <2>1 DEF StackInv
  <2>4. steady' \subseteq steady
    <3>1. CASE Fetch
      <4>1. cache[NoCursor].there
        BY <2>1 DEF StackInv
      <4> QED BY <3>1, <4>1, FetchFacts
    <3>2. CASE ~Fetch
      BY <3>2, NoAnswer
    <3> QED BY <3>1, <3>2
  <2>5. cache[c] \in PageType
    BY <2>1, LevelFacts
  <2>6. /\ DOMAIN table \subseteq DOMAIN table'
        /\ \A x \in DOMAIN table : Stamp(x)' = Stamp(x)
        /\ changes' = 0 => changes = 0 /\ InFilter \subseteq InFilter'
    BY TableGrows DEF Stamp
  <2>7. steady \subseteq DOMAIN table /\ InFilter \subseteq DOMAIN table
    BY RowFacts DEF PTypeInv
  <2>8. Between(cache[c], c)'
    BY <2>1, <2>2, <2>3, <2>6 DEF Between, Stamp
  <2>9. Current(cache[c], c)'
    <3> SUFFICES ASSUME changes' = 0
                 PROVE  /\ cache[c].items \subseteq InFilter'
                        /\ cache[c].nextCursor # NoCursor => MoreBelow(cache[c].nextCursor)'
                        /\ c # NoCursor => cache[c].items # {}
      BY <2>1 DEF Current, MoreBelow, Stamp
    <3>1. /\ cache[c].items \subseteq InFilter
          /\ cache[c].nextCursor # NoCursor => MoreBelow(cache[c].nextCursor)
          /\ c # NoCursor => cache[c].items # {}
      BY <2>2, <2>6 DEF Current
    <3>2. ASSUME cache[c].nextCursor # NoCursor PROVE MoreBelow(cache[c].nextCursor)'
      <4>1. PICK y \in InFilter : Stamp(y) < Stamp(cache[c].nextCursor)
        BY <3>1, <3>2 DEF MoreBelow
      <4>2. cache[c].nextCursor \in DOMAIN table
        BY <2>2, <3>2 DEF Between
      <4> QED BY <2>1, <2>6, <2>7, <4>1, <4>2 DEF MoreBelow, Stamp
    <3> QED BY <2>6, <3>1, <3>2
  <2>10. Complete(cache[c], c, steady)'
    <3>1. cache[c].nextCursor # NoCursor => cache[c].nextCursor \in DOMAIN table
      BY <2>2 DEF Between
    <3> QED BY <2>1, <2>2, <2>3, <2>4, <2>6, <2>7, <3>1 DEF Complete, Stamp
  <2> QED BY <2>8, <2>9, <2>10
<1> QED BY <1>1, <1>2

(* How the stack changes. *)
LEMMA StackMoves ==
  ASSUME PTypeInv, [Next]_vars
  PROVE  \/ /\ NextPage /\ Len(stack') = Len(stack) + 1
            /\ \A i \in 1 .. Len(stack) : stack'[i] = stack[i]
            /\ stack'[Len(stack) + 1] = Data.nextCursor
            /\ Data.there /\ Data.nextCursor # NoCursor
         \/ /\ Previous /\ Len(stack) > 0 /\ Len(stack') = Len(stack) - 1
            /\ \A i \in 1 .. Len(stack') : stack'[i] = stack[i]
         \/ stack' = << >>
         \/ stack' = stack
<1>1. stack \in Seq(Cursor) /\ Len(stack) \in Nat
  BY DEF PTypeInv
<1>2. CASE NextPage
  <2>1. stack' = Append(stack, Data.nextCursor) /\ Data.there /\ Data.nextCursor # NoCursor
    BY <1>2 DEF NextPage, HasNext, Drawn
  <2>2. Data.nextCursor \in Cursor
    BY <2>1, LevelFacts DEF Data, PageType
  <2> QED BY <1>1, <1>2, <2>1, <2>2
<1>3. CASE Previous
  BY <1>1, <1>3, FrontFacts DEF Previous
<1> QED BY <1>2, <1>3 DEF Next, vars, Insert, Change, Fetch, Return

(* The pages that stay on the way are as they were, but for the last. *)
LEMMA LevelsStay ==
  ASSUME PTypeInv, StackInv, [Next]_vars
  PROVE  /\ \A i \in 0 .. Len(stack') : i <= Len(stack) => LevelCursor(i)' = LevelCursor(i)
         /\ \A i \in 0 .. Len(stack') : i < Len(stack) => Level(i)' = Level(i)
         /\ \A i \in 0 .. Len(stack) : NextPage => Level(i)' = Level(i)
<1>1. Len(stack) \in Nat /\ DOMAIN cache = Cursor
  BY DEF PTypeInv
<1>2. \A i \in 0 .. Len(stack') : i <= Len(stack) => LevelCursor(i)' = LevelCursor(i)
  BY <1>1, StackMoves DEF LevelCursor
<1>3. ASSUME NEW i \in 0 .. Len(stack'), i < Len(stack)
      PROVE  Level(i)' = Level(i)
  <2>1. LevelCursor(i)' = LevelCursor(i) /\ LevelCursor(i) \in Cursor
    BY <1>1, <1>2, <1>3, LevelFacts
  <2>2. LevelCursor(i) # ActiveCursor
    BY <1>1, <1>3, LevelFacts, LevelsDiffer
  <2>3. CASE Fetch
    BY <2>1, <2>2, <2>3, FetchFacts DEF Level
  <2>4. CASE cache' = cache
    BY <2>1, <2>4 DEF Level
  <2> QED BY <2>3, <2>4, NoAnswer
<1>4. ASSUME NextPage, NEW i \in 0 .. Len(stack)
      PROVE  Level(i)' = Level(i)
  <2>1. cache' = cache
    BY <1>4 DEF NextPage
  <2>2. Data \in PageType /\ stack' = Append(stack, Data.nextCursor)
    BY <1>4, LevelFacts DEF NextPage, HasNext, Drawn, Data
  <2>3. i \in 0 .. Len(stack') /\ i <= Len(stack)
    BY <1>1, <1>4, <2>2 DEF PTypeInv, PageType
  <2> QED BY <1>2, <2>1, <2>3 DEF Level
<1> QED BY <1>2, <1>3, <1>4

(* A new cursor comes from the page before it and lies below its own.      *)
LEMMA StackStep ==
  ASSUME PTypeInv, StackInv, PagesInv, ~Ties, [Next]_vars
  PROVE  StackInv'
<1> DEFINE n == Len(stack)
<1>1. n \in Nat /\ stack \in Seq(Cursor)
  BY DEF PTypeInv
<1>2. /\ DOMAIN table \subseteq DOMAIN table'
      /\ \A x \in DOMAIN table : Stamp(x)' = Stamp(x) /\ Stamp(x) \in Nat
  BY TableGrows, RowFacts DEF Stamp
<1>3. /\ \A i \in 0 .. Len(stack') : i < n => Level(i)' = Level(i)
      /\ \A i \in 0 .. n : NextPage => Level(i)' = Level(i)
  BY LevelsStay
<1>4. \A i \in 1 .. n : stack[i] \in DOMAIN table
  BY DEF StackInv
<1>5. Len(stack') \in Nat
  BY PTypesStep DEF PTypeInv
\* A new cursor is the last row of a page that lies below its own.
<1>6. ASSUME NextPage
      PROVE  /\ Data.nextCursor \in DOMAIN table
             /\ \A i \in 1 .. n : Stamp(Data.nextCursor) < Stamp(stack[i])
  <2>1. Data = Level(n) /\ LevelCursor(n) \in Cursor /\ Data.there /\ Data.nextCursor # NoCursor
    BY <1>1, <1>6, StackMoves, LevelFacts DEF NextPage, HasNext, Drawn
  <2>2. Between(Data, LevelCursor(n))
    BY <2>1 DEF PagesInv, Level
  <2>3. /\ Data.nextCursor \in DOMAIN table
        /\ n # 0 => Stamp(Data.nextCursor) < Stamp(stack[n])
    <3>1. Data.nextCursor \in Data.items /\ Data.items \subseteq DOMAIN table
      BY <2>1, <2>2 DEF Between
    <3>2. ASSUME n # 0 PROVE Stamp(Data.nextCursor) < Stamp(stack[n])
      <4>1. LevelCursor(n) = stack[n] /\ stack[n] # NoCursor
        BY <1>1, <1>4, <3>2, RowFacts DEF LevelCursor
      <4> QED BY <2>2, <3>1, <4>1 DEF Between
    <3> QED BY <3>1, <3>2
  <2>4. \A i \in 1 .. n : i = n \/ Stamp(stack[n]) < Stamp(stack[i])
    BY <1>1 DEF StackInv
  <2>5. \A i \in 1 .. n : Stamp(stack[i]) \in Nat
    BY <1>4, <1>2
  <2>6. Stamp(Data.nextCursor) \in Nat
    BY <1>2, <2>3
  <2>7. ASSUME NEW i \in 1 .. n PROVE Stamp(Data.nextCursor) < Stamp(stack[i])
    <3>1. n \in 1 .. n /\ Stamp(Data.nextCursor) < Stamp(stack[n])
      BY <1>1, <2>3, <2>7
    <3> QED BY <2>4, <2>5, <2>6, <2>7, <3>1
  <2> QED BY <2>3, <2>7
<1>7. ASSUME NEW i \in 1 .. Len(stack')
      PROVE  /\ stack'[i] \in DOMAIN table'
             /\ Level(i - 1)'.there /\ Level(i - 1)'.nextCursor = stack'[i]
  <2>1. CASE i \in 1 .. n
    <3>1. i - 1 \in 0 .. Len(stack') /\ i - 1 < n
      BY <1>1, <1>5, <1>7, <2>1
    <3>2. Level(i - 1)' = Level(i - 1)
      BY <1>3, <3>1
    <3>3. stack'[i] = stack[i]
      BY <1>1, <1>7, <2>1, StackMoves
    <3> QED BY <1>2, <1>4, <2>1, <3>2, <3>3 DEF StackInv
  <2>2. CASE i \notin 1 .. n
    <3>1. i = n + 1 /\ NextPage /\ stack'[i] = Data.nextCursor /\ Data.there
      BY <1>1, <1>7, <2>2, StackMoves
    <3>2. Level(i - 1)' = Level(i - 1) /\ Level(i - 1) = Data
      BY <1>1, <1>3, <3>1, LevelFacts
    <3> QED BY <1>2, <1>6, <3>1, <3>2
  <2> QED BY <2>1, <2>2
<1>8. ASSUME NEW i \in 1 .. Len(stack'), NEW j \in 1 .. Len(stack'), i < j
      PROVE  Stamp(stack[j])' < Stamp(stack[i])'
  <2>1. i \in 1 .. n /\ stack'[i] = stack[i]
    BY <1>1, <1>8, StackMoves
  <2>2. CASE j \in 1 .. n
    <3>1. stack'[j] = stack[j]
      BY <1>1, <1>8, <2>2, StackMoves
    <3>2. Stamp(stack[j]) < Stamp(stack[i])
      BY <1>8, <2>1, <2>2 DEF StackInv
    <3> QED BY <1>2, <1>4, <2>1, <2>2, <3>1, <3>2 DEF Stamp
  <2>3. CASE j \notin 1 .. n
    <3>1. NextPage /\ stack'[j] = Data.nextCursor
      BY <1>1, <1>8, <2>3, StackMoves
    <3> QED BY <1>2, <1>4, <1>6, <2>1, <3>1 DEF Stamp
  <2> QED BY <2>2, <2>3
<1>9. ASSUME NEW c \in Cursor, cache'[c].there
      PROVE  cache'[NoCursor].there /\ (c # NoCursor => c \in DOMAIN table')
  <2>1. CASE Fetch /\ c = ActiveCursor
    <3>1. c # NoCursor => c \in DOMAIN table
      BY <2>1, ActiveFacts
    <3>2. CASE c # NoCursor
      <4>1. n # 0
        BY <1>1, <2>1, <3>2, LevelFacts DEF LevelCursor
      <4>2. 1 \in 1 .. n
        BY <1>1, <4>1
      <4>3. Level(1 - 1).there /\ LevelCursor(0) = NoCursor
        BY <4>2 DEF StackInv, LevelCursor
      <4>4. cache[NoCursor].there /\ NoCursor \in Cursor
        BY <4>3, LevelFacts DEF Level
      <4> QED BY <1>2, <2>1, <3>1, <3>2, <4>4, FetchFacts
    <3> QED BY <1>9, <3>2
  <2>2. CASE ~(Fetch /\ c = ActiveCursor)
    <3>1. cache'[c] = cache[c] /\ cache[c].there
      BY <1>9, <2>2, FetchFacts, NoAnswer
    <3>2. cache[NoCursor].there /\ (c # NoCursor => c \in DOMAIN table) /\ NoCursor \in Cursor
      BY <3>1, LevelFacts DEF StackInv
    <3>3. cache'[NoCursor].there
      <4>1. CASE Fetch
        BY <3>2, <4>1, FetchFacts
      <4> QED BY <3>2, <4>1, NoAnswer
    <3> QED BY <1>2, <3>2, <3>3
  <2> QED BY <2>1, <2>2
<1> QED BY <1>7, <1>8, <1>9 DEF StackInv

(* Going on to the next page passes what is on this one.                   *)
LEMMA SeenStep ==
  ASSUME PTypeInv, StackInv, PagesInv, SeenInv, ~Ties, [Next]_vars
  PROVE  SeenInv'
<1> DEFINE n == Len(stack)
<1>1. n \in Nat /\ Len(stack') \in Nat
  BY PTypesStep DEF PTypeInv
<1> SUFFICES ASSUME NEW i \in 1 .. Len(stack'), NEW x \in steady'
             PROVE  \/ \E j \in 0 .. i - 1 : Level(j)'.lost \/ x \in Level(j)'.items
                    \/ Stamp(x)' < Stamp(stack[i])'
  BY DEF SeenInv
<1>2. steady' \subseteq steady
  <2>1. CASE Fetch
    <3>1. 1 \in 1 .. n
      BY <1>1, <2>1, FetchFacts
    <3>2. Level(1 - 1).there /\ LevelCursor(0) = NoCursor
      BY <3>1 DEF StackInv, LevelCursor
    <3> QED BY <2>1, <3>2, FetchFacts DEF Level
  <2>2. CASE ~Fetch
    BY <2>2, NoAnswer
  <2> QED BY <2>1, <2>2
<1>3. x \in steady /\ x \in DOMAIN table
  BY <1>2, RowFacts DEF PTypeInv
<1>4. \A y \in DOMAIN table : Stamp(y)' = Stamp(y)
  BY TableGrows DEF Stamp
<1>5. CASE i \in 1 .. n
  <2>1. stack'[i] = stack[i] /\ stack[i] \in DOMAIN table
    BY <1>1, <1>5, StackMoves DEF StackInv
  <2>2. \A j \in 0 .. i - 1 : Level(j)' = Level(j)
    BY <1>1, <1>5, LevelsStay
  <2>3. \/ \E j \in 0 .. i - 1 : Level(j).lost \/ x \in Level(j).items
        \/ Stamp(x) < Stamp(stack[i])
    BY <1>3, <1>5 DEF SeenInv
  <2> QED BY <1>3, <1>4, <2>1, <2>2, <2>3 DEF Stamp
<1>6. CASE i \notin 1 .. n
  <2>1. /\ i = n + 1 /\ NextPage /\ stack'[i] = Data.nextCursor
        /\ Data.there /\ Data.nextCursor # NoCursor
    BY <1>1, <1>6, StackMoves
  <2>2. Data = Level(n) /\ LevelCursor(n) \in Cursor
    BY <1>1, LevelFacts
  <2>3. \A j \in 0 .. i - 1 : Level(j)' = Level(j)
    BY <1>1, <2>1, LevelsStay
  <2>4. /\ Complete(Level(n), LevelCursor(n), steady) /\ Between(Level(n), LevelCursor(n))
    BY <2>1, <2>2 DEF PagesInv, Level
  <2>5. Data.nextCursor \in DOMAIN table
    BY <2>1, <2>2, <2>4 DEF Between
  <2>6. CASE n = 0 \/ Stamp(x) < Stamp(stack[n])
    <3>1. LevelCursor(n) # NoCursor => Stamp(x) < Stamp(LevelCursor(n))
      BY <1>1, <2>6 DEF LevelCursor
    <3>2. \/ Level(n).lost \/ x \in Level(n).items
          \/ Stamp(x) < Stamp(Data.nextCursor)
      BY <1>3, <2>2, <2>4, <3>1 DEF Complete
    <3>3. n \in 0 .. i - 1
      BY <1>1, <2>1
    <3> QED BY <1>3, <1>4, <2>1, <2>3, <2>5, <3>2, <3>3 DEF Stamp
  <2>7. CASE ~(n = 0 \/ Stamp(x) < Stamp(stack[n]))
    <3>1. n \in 1 .. n
      BY <1>1, <2>7
    <3>2. \E j \in 0 .. n - 1 : Level(j).lost \/ x \in Level(j).items
      BY <1>3, <2>7, <3>1 DEF SeenInv
    <3> QED BY <1>1, <2>1, <2>3, <3>2
  <2> QED BY <2>6, <2>7
<1> QED BY <1>5, <1>6

--------------------------------------------------------------------------------
(* The inductive invariant of a reader: types, and while all stamps differ *)
(* the way he came, what his pages have, and what he has seen.             *)
THEOREM ReadersKeepTheirPlace == Spec => []PagingInv
<1>1. Init => PagingInv
  BY PInitial
<1>2. PagingInv /\ [Next]_vars => PagingInv'
  <2> SUFFICES ASSUME PagingInv, [Next]_vars PROVE PagingInv'
    OBVIOUS
  <2>1. PTypeInv'
    BY PTypesStep DEF PagingInv
  <2>2. CASE Ties
    BY <2>1, <2>2, TiesStay DEF PagingInv
  <2>3. CASE ~Ties
    BY <2>1, <2>3, StackStep, PagesStep, SeenStep DEF PagingInv
  <2> QED BY <2>2, <2>3
<1> QED BY <1>1, <1>2, PTL DEF Spec

(* The pages of the properties are those of the invariant.                 *)
LEMMA LevelsAreLevels ==
  ASSUME PTypeInv
  PROVE  /\ DOMAIN Levels = 0 .. Len(stack) /\ Len(stack) \in Nat
         /\ \A i \in 0 .. Len(stack) : Levels[i] = Level(i) /\ LevelCursor(i) \in Cursor
BY LevelFacts DEF Levels, Level, LevelCursor

(* ReadingIsComplete: of the rows that were in the list all the while, one *)
(* that the reader has not passed is ahead of him, and on the last page    *)
(* there is no ahead (ApplicationsService.list, AuditController.paginate). *)
THEOREM ReadingComesToTheEnd == Spec => []ReadingIsComplete
<1>1. PagingInv => ReadingIsComplete
  <2> SUFFICES ASSUME PTypeInv, StackInv, PagesInv, SeenInv, Data.nextCursor = NoCursor,
                      \A i \in DOMAIN Levels : Levels[i].there /\ ~Levels[i].lost,
                      NEW x \in steady
               PROVE  \E i \in DOMAIN Levels : x \in Levels[i].items
    BY DEF PagingInv, ReadingIsComplete
  <2> DEFINE n == Len(stack)
  <2>1. /\ n \in Nat /\ DOMAIN Levels = 0 .. n
        /\ \A i \in 0 .. n : Levels[i] = Level(i) /\ LevelCursor(i) \in Cursor
    BY LevelsAreLevels
  <2>2. Data = Level(n) /\ Level(n).there /\ ~Level(n).lost
    BY <2>1, LevelFacts
  <2>3. CASE n = 0 \/ Stamp(x) < Stamp(stack[n])
    <3>1. LevelCursor(n) # NoCursor => Stamp(x) < Stamp(LevelCursor(n))
      BY <2>1, <2>3 DEF LevelCursor
    <3>2. Complete(Level(n), LevelCursor(n), steady)
      BY <2>1, <2>2 DEF PagesInv, Level
    <3>3. x \in Level(n).items
      BY <2>2, <3>1, <3>2 DEF Complete
    <3> QED BY <2>1, <3>3
  <2>4. CASE ~(n = 0 \/ Stamp(x) < Stamp(stack[n]))
    <3>1. n \in 1 .. n
      BY <2>1, <2>4
    <3>2. \E j \in 0 .. n - 1 : Level(j).lost \/ x \in Level(j).items
      BY <2>4, <3>1 DEF SeenInv
    <3> QED BY <2>1, <3>2
  <2> QED BY <2>3, <2>4
<1> QED BY <1>1, ReadersKeepTheirPlace, PTL

(* NothingIsShownTwice: a page ends at the cursor of the next, and what is *)
(* on a later page lies below it (UsersService.list: cursor and skip 1).   *)
THEOREM NoRowTwice == Spec => []NothingIsShownTwice
<1>1. PagingInv => NothingIsShownTwice
  <2> SUFFICES ASSUME PTypeInv, StackInv, PagesInv,
                      NEW i \in 0 .. Len(stack), NEW j \in 0 .. Len(stack), i < j,
                      Level(i).there, Level(j).there,
                      NEW x \in Level(i).items, x \in Level(j).items
               PROVE  FALSE
    <3> SUFFICES ASSUME PTypeInv, StackInv, PagesInv,
                        NEW i \in 0 .. Len(stack), NEW j \in 0 .. Len(stack), i # j,
                        Level(i).there, Level(j).there
                 PROVE  Level(i).items \cap Level(j).items = {}
      BY LevelsAreLevels DEF PagingInv, NothingIsShownTwice
    <3>1. Len(stack) \in Nat
      BY LevelFacts
    <3> QED BY <3>1
  <2>1. Len(stack) \in Nat /\ LevelCursor(i) \in Cursor /\ LevelCursor(j) \in Cursor
    BY LevelFacts
  <2>2. Between(Level(i), LevelCursor(i)) /\ Between(Level(j), LevelCursor(j))
    BY <2>1 DEF PagesInv, Level
  <2>3. /\ i + 1 \in 1 .. Len(stack) /\ j \in 1 .. Len(stack)
        /\ LevelCursor(j) = stack[j] /\ Level(i).nextCursor = stack[i + 1]
    <3>1. i + 1 \in 1 .. Len(stack) /\ j \in 1 .. Len(stack) /\ (i + 1) - 1 = i /\ j # 0
      BY <2>1
    <3> QED BY <3>1 DEF StackInv, LevelCursor
  <2>4. /\ stack[j] \in DOMAIN table /\ stack[j] # NoCursor
        /\ stack[i + 1] \in DOMAIN table /\ stack[i + 1] # NoCursor
    BY <2>3, RowFacts DEF StackInv
  <2>5. Stamp(stack[j]) <= Stamp(stack[i + 1])
    <3>1. i + 1 = j \/ i + 1 < j
      BY <2>1
    <3> QED BY <2>3, <2>4, <3>1, RowFacts DEF StackInv
  <2>6. Stamp(x) < Stamp(stack[j]) /\ Stamp(stack[i + 1]) <= Stamp(x) /\ x \in DOMAIN table
    BY <2>2, <2>3, <2>4 DEF Between
  <2> QED BY <2>4, <2>5, <2>6, RowFacts
<1> QED BY <1>1, ReadersKeepTheirPlace, PTL

(* NextPageHasRows: the row too many is on the next page, as long as none  *)
(* leaves the list (ApplicationsService.list).                             *)
THEOREM OfferedPagesHaveRows == Spec => []NextPageHasRows
<1>1. PagingInv => NextPageHasRows
  <2> SUFFICES ASSUME PTypeInv, StackInv, PagesInv, stack # << >>, Data.there, changes = 0
               PROVE  Data.items # {}
    BY DEF PagingInv, NextPageHasRows
  <2>1. ActiveCursor \in Cursor /\ Data = cache[ActiveCursor]
    BY LevelFacts DEF Data
  <2>2. ActiveCursor # NoCursor
    <3>1. ActiveCursor = stack[Len(stack)] /\ Len(stack) \in 1 .. Len(stack)
      BY DEF ActiveCursor, Last, PTypeInv
    <3> QED BY <3>1, RowFacts DEF StackInv
  <2> QED BY <2>1, <2>2 DEF PagesInv, Current
<1> QED BY <1>1, ReadersKeepTheirPlace, PTL
===================================================================================
