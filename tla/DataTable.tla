----------------------------- MODULE DataTable -----------------------------
(***************************************************************************)
(* The table component of the console (data-table.tsx): a filter, pages,   *)
(* a selection that its parent keeps, and columns that can be hidden.  The *)
(* rows come from the parent and change at any time.  After a change of    *)
(* the rows or of the filter the table first shows the page number it had  *)
(* and only then, in an effect, goes back to the first page.  A search     *)
(* function is made at every render of the parent, and with a filter on    *)
(* that too is a change of the rows.                                       *)
(***************************************************************************)
EXTENDS Integers, FiniteSets

CONSTANTS Rows,      \* the rows, numbered in the order of the table
          Queries,   \* filters other than the empty one
          Matches,   \* Matches[q] are the rows that the filter finds
          Sizes,     \* page sizes the menu offers
          Columns    \* the columns that may be hidden

(* What the values of the constants satisfy. *)
ConstantsOK ==
  /\ Rows \subseteq Nat /\ IsFiniteSet(Rows) /\ Sizes \subseteq Nat \ {0} /\ Sizes # {}
  /\ "" \notin Queries /\ Matches \in [Queries -> SUBSET Rows] /\ Columns # {} /\ IsFiniteSet(Columns)

VARIABLES
  data,       \* the rows of the parent
  query, pageIndex, pageSize,
  selected,   \* selectedIDs of the parent
  hidden,     \* columns that are not shown
  pending     \* an effect will go back to the first page

vars == <<data, query, pageIndex, pageSize, selected, hidden, pending>>

TypeOK ==
  /\ data \subseteq Rows /\ query \in Queries \cup {""} /\ pageIndex \in 0 .. Cardinality(Rows) /\ pageSize \in Sizes
  /\ selected \subseteq Rows /\ hidden \subseteq Columns /\ pending \in BOOLEAN

(***************************************************************************)
(* What is shown                                                           *)
(***************************************************************************)

(* filteredData *)
Filtered == IF query = "" THEN data ELSE data \cap Matches[query]

(* The place of a row among the filtered ones, from 0. *)
Place(r) == Cardinality({s \in Filtered : s < r})

(* The row model of the page. *)
Shown == {r \in Filtered : pageIndex * pageSize <= Place(r) /\ Place(r) < (pageIndex + 1) * pageSize}

PageCount == (Cardinality(Filtered) + pageSize - 1) \div pageSize

(* The text under the table. *)
FirstRow == IF Filtered = {} THEN 0 ELSE pageIndex * pageSize + 1
LastRow == IF Cardinality(Filtered) < (pageIndex + 1) * pageSize THEN Cardinality(Filtered) ELSE (pageIndex + 1) * pageSize

Init ==
  /\ data \in SUBSET Rows /\ query = "" /\ pageIndex = 0 /\ pageSize \in Sizes
  /\ selected = {} /\ hidden = {} /\ pending = FALSE

(***************************************************************************)
(* Changes of the rows and of the filter                                   *)
(***************************************************************************)

(* The parent has loaded its rows again; it keeps the selected ones that   *)
(* are left.                                                               *)
DataChanges(d) ==
  /\ d # data /\ data' = d /\ selected' = selected \cap d /\ pending' = TRUE
  /\ UNCHANGED <<query, pageIndex, pageSize, hidden>>

(* The search field and its reset button. *)
SetQuery(q) ==
  /\ data # {} /\ q # query /\ query' = q /\ pending' = TRUE
  /\ UNCHANGED <<data, pageIndex, pageSize, selected, hidden>>

PageAfter == 0

(* The effect, and the table's own reset when its rows are new. *)
Settle ==
  /\ pending /\ pending' = FALSE /\ pageIndex' = PageAfter
  /\ UNCHANGED <<data, query, pageSize, selected, hidden>>

(***************************************************************************)
(* Pages                                                                   *)
(***************************************************************************)

(* Mutant: one page too many. *)
CanNextPageMore == pageIndex < PageCount

CanNextPage == pageIndex + 1 < PageCount

NextPage ==
  /\ Filtered # {} /\ CanNextPage /\ pageIndex' = pageIndex + 1
  /\ UNCHANGED <<data, query, pageSize, selected, hidden, pending>>

(* Mutant: the button is never disabled. *)
CanPreviousPageAlways == TRUE

CanPreviousPage == pageIndex > 0

PreviousPage ==
  /\ Filtered # {} /\ CanPreviousPage /\ pageIndex' = pageIndex - 1
  /\ UNCHANGED <<data, query, pageSize, selected, hidden, pending>>

(* Mutant: the page number is kept over a change of the size. *)
PageForSizeKept(size) == pageIndex

(* The page of the new size with the row that was first. *)
PageForSize(size) == (pageIndex * pageSize) \div size

SetPageSize(size) ==
  /\ Filtered # {} /\ size # pageSize /\ pageSize' = size /\ pageIndex' = PageForSize(size)
  /\ UNCHANGED <<data, query, selected, hidden, pending>>

(***************************************************************************)
(* Selection: a change renders the parent                                  *)
(***************************************************************************)

Selects(s) ==
  /\ selected' = s /\ pending' = (pending \/ query # "")
  /\ UNCHANGED <<data, query, pageIndex, pageSize, hidden>>

ToggleRow(r) == r \in Shown /\ Selects(IF r \in selected THEN selected \ {r} ELSE selected \cup {r})

(* Mutant: the box of the page selects what the filter finds. *)
ToggledAll == Filtered

Toggled == Shown

(* The box in the header is ticked when all rows of the page are. *)
ToggleAllPageRows ==
  Shown # {} /\ Selects(IF Shown \subseteq selected THEN selected \ Toggled ELSE selected \cup Toggled)

ClearSelection == data # {} /\ selected # {} /\ Selects({})

(***************************************************************************)
(* Columns                                                                 *)
(***************************************************************************)

(* The last one that is visible may not be hidden. *)
CanToggle(c) == c \in hidden \/ Cardinality(Columns \ hidden) > 1

ToggleColumn(c) ==
  /\ data # {} /\ CanToggle(c) /\ hidden' = IF c \in hidden THEN hidden \ {c} ELSE hidden \cup {c}
  /\ UNCHANGED <<data, query, pageIndex, pageSize, selected, pending>>

ShowAllColumns ==
  /\ data # {} /\ hidden # {} /\ hidden' = {}
  /\ UNCHANGED <<data, query, pageIndex, pageSize, selected, pending>>

Next ==
  \/ \E d \in SUBSET Rows : DataChanges(d)
  \/ \E q \in Queries \cup {""} : SetQuery(q)
  \/ Settle \/ NextPage \/ PreviousPage
  \/ \E size \in Sizes : SetPageSize(size)
  \/ \E r \in Shown : ToggleRow(r)
  \/ ToggleAllPageRows \/ ClearSelection
  \/ \E c \in Columns : ToggleColumn(c)
  \/ ShowAllColumns

Spec == Init /\ [][Next]_vars

(***************************************************************************)
(* Properties                                                              *)
(***************************************************************************)

(* Once its effect has run the table shows a page with rows whenever the   *)
(* filter finds any, a column of them, and the text under it names just    *)
(* these rows: after every order of reloads, filters, pages and sizes.     *)
PageIsTrue ==
  ~pending /\ Filtered # {} =>
    /\ Shown # {} /\ {Place(r) + 1 : r \in Shown} = FirstRow .. LastRow
    /\ Columns \ hidden # {}

(* A click on a box changes rows that are on the page and no others; the   *)
(* parent's bulk actions rest on it.                                       *)
OnlyShownChange ==
  data' = data /\ selected' # {} =>
       \A r \in Rows \ Shown : (r \in selected) = (r \in selected')

(* A change of the page size keeps the first row of the page in view. *)
FirstRowStays ==
  (pageSize' # pageSize /\ ~pending) => (\E r \in Shown \cap Shown' : \A s \in Shown : r <= s)

=============================================================================
