-------------------------- MODULE TableProperties ---------------------------
(***************************************************************************)
(* What must hold of a table file.                                         *)
(***************************************************************************)
EXTENDS Table, Bags

(* The slot array of a heap page never runs into its records, the records   *)
(* do not share bytes, and the recorded free space is never more than there *)
(* is: whatever statements failed or were cut short                         *)
(* (page_has_space, compact_page, recalc_free_space).                       *)
SpaceAccounted ==
  \A p \in DOMAIN pages :
    LET page == pages[p]
    IN  page.type = "heap" /\ page # Blank =>
          /\ page.used + SlotSize * Len(page.slots) + page.free <= Room
          /\ Taken(page.slots) <= page.used

(* Every entry of an index leads to a live row with that key, even if       *)
(* INSERT and DELETE statements were cut short between any two writes:      *)
(* insertRow enters a key after it wrote the row, executeDelete removes it  *)
(* before.                                                                  *)
EntriesLead ==
  events \subseteq {"insert", "delete"} =>
    \A c \in Indexed : \A k \in DOMAIN Entries(Now, c) :
      LET rid == Entries(Now, c)[k]
      IN  rid \in Live /\ RowOf(rid)[c] = k

(* Each index holds exactly the keys of the live rows and leads to them,    *)
(* through all compactions, moves of rows and changes of keys, as long as   *)
(* every statement ended well or changed nothing, and no UPDATE did one of  *)
(* the two things that break an index unnoticed: set a key to or from null  *)
(* ("nulled", applyAssignments), or move a row to the page it came from and *)
(* write the old copy of that page over it ("lost", relocate_record).       *)
IndexesAgree ==
  events = {} =>
    \A c \in Indexed :
      {<<k, Entries(Now, c)[k]>> : k \in DOMAIN Entries(Now, c)}
        = {<<RowOf(rid)[c], rid>> : rid \in {r \in Live : RowOf(r)[c] # Null}}

(* The conditions SELECT is asked about: each operator on each column.      *)
Questions ==
  LET operands == UNION {{row[c] : row \in Inserts} : c \in Columns}
  IN  {Comparison(c, op, v) : c \in Columns, v \in operands,
                              op \in {"=", "!=", "<", ">", "<=", ">="}}
      \cup {Between(c, lo, hi) : c \in Columns, lo, hi \in operands}
      \cup Deletes

(* Whichever way executeSelect looks for rows, by one key, a range, the     *)
(* whole index or the heap, it returns each row that satisfies the          *)
(* condition once and no other.                                             *)
SelectAgrees ==
  events = {} =>
    \A cond \in Questions :
      LET found == Select(cond)
      IN  /\ {f[2] : f \in found} = {rid \in Live : Matches(RowOf(rid), cond)}
          /\ Cardinality({f[2] : f \in found}) = Cardinality(found)

-----------------------------------------------------------------------------
LiveRows ==
  [r \in {RowOf(rid) : rid \in Live} |->
     Cardinality({rid \in Live : RowOf(rid) = r})]

Rows == INSTANCE KeyedRows WITH
  rows <- IF exists THEN LiveRows ELSE EmptyBag,
  sound <- exists => events = {}

(* The pages, slots and indexes implement a bag of rows with unique keys on *)
(* which each statement has its exact effect; a statement that goes wrong   *)
(* harms only rows it was about, unless its process had the file's page     *)
(* count from before the file was extended.                                 *)
ImplementsRows == Rows!Spec

-----------------------------------------------------------------------------
(* Whatever page count a process goes by, and wherever its statement fails  *)
(* or is cut short: on the pages the process knew when it opened the file,  *)
(* every row the statement is not about stays where it is.  What it may     *)
(* destroy is on the pages added since (Pager::Pager reads the page count,  *)
(* Pager::allocate_page numbers new pages from it).                         *)
About(row, statement) ==
  statement[1] # "insert" /\ Rows!Hit(row, statement[2])

KnownPagesKeepRows ==
  [][ \A p \in Processes :
        events = {} /\ opened[p] # 0 /\ opened'[p] = 0 =>
          \A rid \in Live :
            rid[1] < opened[p] /\ ~About(RowOf(rid), last'.statement) =>
              RowAt(pages'[rid[1]], rid[2]) = RowOf(rid)
    ]_vars

=============================================================================
