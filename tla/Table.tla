------------------------------- MODULE Table --------------------------------
(***************************************************************************)
(* One table file and the statements on it: TableManager_Mutations.cpp and *)
(* TableManager_Queries.cpp over the slotted pages of RecordManager.cpp    *)
(* and the pager of Pager.cpp.                                             *)
(*                                                                         *)
(* Page 0, the header, is roots: the root page of each column's index, 0   *)
(* for none.  pages[p] is page p: a heap page has slots, a record being a  *)
(* row and its length, and counts the bytes used from its end; an index    *)
(* page is the single leaf of an index (the tree itself is BPlusTree).     *)
(* Lengths are in units, of which a page has Room besides its own header.  *)
(*                                                                         *)
(* What is left out is what an index does when its leaf splits or merges:  *)
(* the further pages it takes, which are numbered from the cached page     *)
(* count like any other new page, and the moments between the writes.      *)
(*                                                                         *)
(* A process opens the file, which caches its page count, then takes the   *)
(* file's lock and executes one statement.  The lock makes the execution   *)
(* one action, but an execution may stop at any page write: by a crash, or *)
(* by an error of the disk, which leaves the file the same way.            *)
(***************************************************************************)
EXTENDS Conditions, FiniteSets, SequencesExt

CONSTANTS
  Processes,           \* the worker processes
  Columns,             \* 1 .. n; a row is a sequence of n values
  Indexed, NotNull,    \* columns declared so; INDEXED implies NOT NULL in SQL
  Width,               \* Width[c][v]: units that value v takes in column c
  Room, SlotSize,      \* units of a page, and of an entry of its slot array
  Inserts,             \* the rows that may be inserted
  Deletes,             \* the conditions of DELETE statements
  Updates,             \* <<condition, assignments>> of UPDATE statements
  Stops,               \* the numbers of page writes an execution may stop after
  MaxPages,            \* bound: the pages of the file besides the header
  Accepted             \* bound: the events after which the table is used on

ASSUME TableAssumption ==
  /\ IsFiniteSet(Columns) /\ Columns # {} /\ Columns = 1 .. Cardinality(Columns)
  /\ Indexed \subseteq Columns /\ NotNull \subseteq Columns
  /\ Room \in Nat /\ SlotSize \in Nat \ {0} /\ MaxPages \in Nat
  /\ Stops \subseteq Nat

ASSUME WidthAssumption ==
  /\ DOMAIN Width = Columns
  /\ \A c \in Columns : /\ DOMAIN Width[c] \subseteq Int \cup {Null}
                        /\ Width[c] \in [DOMAIN Width[c] -> Nat]

(* The rows of the table's schema.                                          *)
RowSet ==
  { row \in [Columns -> UNION {DOMAIN Width[c] : c \in Columns}] :
      \A c \in Columns : row[c] \in DOMAIN Width[c] }

(* A literal of a predicate is a value.                                     *)
Literals(cond) ==
  CASE cond.kind = "comparison" -> {cond.value}
    [] cond.kind = "between"    -> {cond.low, cond.high}
    [] OTHER                    -> {}

ASSUME StatementsAssumption ==
  /\ \A cond \in Deletes : Literals(cond) \subseteq Int \cup {Null}
  /\ \A row \in Inserts : row \in RowSet
  /\ \A u \in Updates :
       /\ u[2] \in Seq(Columns \X (Int \cup {Null}))
       /\ \A i \in 1 .. Len(u[2]) : u[2][i][2] \in DOMAIN Width[u[2][i][1]]

VARIABLES
  exists,   \* there is such a file
  pages, roots,
  opened,   \* per process the page count its Pager read, 0 when not open
  events,   \* history: what has happened that can leave the file damaged
  last      \* history: the last statement, how it ended, and whether its
            \* process had an outdated page count

vars == <<exists, pages, roots, opened, events, last>>
file == <<exists, pages, roots, opened, events>>

-----------------------------------------------------------------------------
(* Slotted pages.                                                           *)

Gone  == [row |-> <<>>, len |-> 0]
Blank == [type |-> "heap", slots |-> <<>>, used |-> Room, free |-> 0]
Clean == [type |-> "heap", slots |-> <<>>, used |-> 0, free |-> Room]
Index(entries) == [type |-> "index", entries |-> entries]

(* calculateSize: one unit of bitmap and the values that are not null.      *)
Size(row) == 1 + FoldLeftDomain(LAMBDA n, c : n + Width[c][row[c]], 0, row)

(* What findAvailableSlot takes for granted and nothing checks: a row fits  *)
(* into an empty page.                                                      *)
RowsFit == \A row \in RowSet : Size(row) + SlotSize <= Room

(* recalc_free_space.                                                       *)
Recalc(page) ==
  LET slotsEnd == SlotSize * Len(page.slots)
  IN  [page EXCEPT !.free =
         IF Room - page.used > slotsEnd THEN Room - page.used - slotsEnd ELSE 0]

(* page_has_space.                                                          *)
Fits(page, size)    == page.free >= size + SlotSize

(* write_record_to_page.                                                    *)
AppendRecord(page, row) ==
  Recalc([page EXCEPT !.slots = Append(@, [row |-> row, len |-> Size(row)]),
                      !.used = @ + Size(row)])

(* The length of all records together.                                      *)
Taken(slots) == FoldLeft(LAMBDA n, slot : n + slot.len, 0, slots)

(* compact_page: the slots keep their numbers.  Bug variant: they do not.   *)
BugCompact(page) ==
  LET kept == SelectSeq(page.slots, LAMBDA slot : slot.len > 0)
  IN  Recalc([page EXCEPT !.slots = kept, !.used = Taken(kept)])
Compact(page) == Recalc([page EXCEPT !.used = Taken(page.slots)])

(* getRowFromSlot: <<>> for no row.                                         *)
RowAt(page, i) ==
  IF i \in DOMAIN page.slots /\ page.slots[i].len > 0
  THEN page.slots[i].row ELSE <<>>

-----------------------------------------------------------------------------
(* An execution in progress: the file (pages, disk for its header), the     *)
(* header in memory (roots), the page count the process knows, how many     *)
(* more writes succeed, and out, how it ends.  at is the page that          *)
(* FindAvailableSlot returns, buf a page and row a row being changed.       *)

Start(p, writes) ==
  [pages |-> pages, disk |-> roots, roots |-> roots, count |-> opened[p],
   writes |-> writes, out |-> "ok", events |-> {},
   at |-> 0, buf |-> Blank, row |-> <<>>, dirty |-> FALSE]

Then(x, Op(_)) == IF x.out = "ok" THEN Op(x) ELSE x
Throw(x) == [x EXCEPT !.out = "error"]
OutOfBounds(x) == [x EXCEPT !.out = "io error"]

(* What any write does first.                                               *)
Writing(x) ==
  IF x.writes = 0 THEN [x EXCEPT !.out = "stopped"]
  ELSE [x EXCEPT !.writes = @ - 1]

WritePage(x, p, page) ==
  IF p >= x.count THEN OutOfBounds(x)
  ELSE Then(Writing(x), LAMBDA y : [y EXCEPT !.pages[p] = page])

WriteHeader(x) == Then(Writing(x), LAMBDA y : [y EXCEPT !.disk = y.roots])

(* allocate_page appends a zero page, and returns the number it has         *)
(* according to the cached page count.                                      *)
AllocatePage(x) ==
  Then(Writing(x), LAMBDA y :
    [y EXCEPT !.pages = Append(@, Blank), !.at = y.count, !.count = @ + 1,
              !.events = IF y.count = Len(y.pages) + 1 THEN @
                         ELSE @ \cup {"stale"}])

(* findAvailableSlot: the first page with room, if need be after            *)
(* compaction; otherwise a new one.  Bug variant: the clean page is written *)
(* over page 1.                                                             *)
BugFindAvailableSlot(x, size) ==
  LET usable == {p \in 1 .. x.count - 1 :
                   x.pages[p].type = "heap" /\ Fits(Compact(x.pages[p]), size)}
  IN  IF usable = {}
      THEN Then(AllocatePage(x), LAMBDA y :
             WritePage(WritePage(y, 1, Clean), y.at, Clean))
      ELSE WritePage([x EXCEPT !.at = Min(usable)], Min(usable),
                     Compact(x.pages[Min(usable)]))
FindAvailableSlot(x, size) ==
  LET usable == {p \in 1 .. x.count - 1 :
                   /\ x.pages[p].type = "heap"
                   /\ \/ Fits(x.pages[p], size)
                      \/ Fits(Compact(x.pages[p]), size)}
      first  == Min(usable)
  IN  IF usable = {}
      THEN Then(AllocatePage(x), LAMBDA y : WritePage(y, y.at, Clean))
      ELSE IF Fits(x.pages[first], size) THEN [x EXCEPT !.at = first]
      ELSE WritePage([x EXCEPT !.at = first], first, Compact(x.pages[first]))

-----------------------------------------------------------------------------
(* The indexes.  A null value has the key of a zero-initialised one; of     *)
(* strings, whose keys are cut to 255 bytes, only such as differ before.    *)
Key(v) == IF v = Null THEN 0 ELSE v

Entries(x, c) ==
  IF x.roots[c] = 0 THEN <<>> ELSE x.pages[x.roots[c]].entries

(* A root page beyond the cached page count cannot be read.                 *)
Readable(x, c) == x.roots[c] < x.count

Put(entries, k, rid) ==
  [j \in DOMAIN entries \cup {k} |-> IF j = k THEN rid ELSE entries[j]]

(* The leaf does not split, so only the first entry takes a page.           *)
IndexInsert(x, c, k, rid) ==
  IF ~Readable(x, c) THEN OutOfBounds(x)
  ELSE IF k \in DOMAIN Entries(x, c) THEN Throw(x)
  ELSE IF x.roots[c] = 0
  THEN Then(AllocatePage(x), LAMBDA y :
         WritePage([y EXCEPT !.roots[c] = y.at], y.at, Index(Put(<<>>, k, rid))))
  ELSE WritePage(x, x.roots[c], Index(Put(Entries(x, c), k, rid)))

IndexErase(x, c, k) ==
  IF ~Readable(x, c) THEN OutOfBounds(x)
  ELSE IF k \notin DOMAIN Entries(x, c) THEN Throw(x)
  ELSE WritePage(x, x.roots[c],
         Index(Restrict(Entries(x, c), DOMAIN Entries(x, c) \ {k})))

(* The columns where a row has a key in an index.                           *)
Keyed(row, c) == c \in Indexed /\ row[c] # Null

(* checkUniqueConstraints.                                                  *)
Unique(x, row) ==
  \A c \in Indexed : Key(row[c]) \notin DOMAIN Entries(x, c)

(* updateIndices.  Bug variant: the header, with a new root, is not written.*)
BugUpdateIndices(x, row, rid) ==
  FoldLeftDomain(LAMBDA y, c :
                   IF Keyed(row, c)
                   THEN Then(y, LAMBDA z : IndexInsert(z, c, row[c], rid)) ELSE y,
                 x, row)
UpdateIndices(x, row, rid) ==
  LET insert(y, c) ==
        IF Keyed(row, c)
        THEN Then(y, LAMBDA z : IndexInsert(z, c, row[c], rid)) ELSE y
      y == FoldLeftDomain(insert, x, row)
  IN  IF \E c \in DOMAIN row : Keyed(row, c) THEN Then(y, WriteHeader) ELSE y

(* clearIndicesForRow.                                                      *)
ClearIndices(x, row) ==
  LET erase(y, c) ==
        IF Keyed(row, c) /\ y.roots[c] # 0
        THEN Then(y, LAMBDA z : IndexErase(z, c, row[c])) ELSE y
  IN  FoldLeftDomain(erase, x, row)

-----------------------------------------------------------------------------
(* INSERT.                                                                  *)

(* Storing a row in the file, and then in the indexes.                      *)
Store(x, row) ==
  Then(FindAvailableSlot(x, Size(row)), LAMBDA y :
    WritePage(y, y.at, AppendRecord(y.pages[y.at], row)))

Rid(x) == <<x.at, Len(x.pages[x.at].slots)>>

InsertRow(x, row) ==
  IF \E c \in NotNull : row[c] = Null THEN Throw(x)
  ELSE IF \E c \in Indexed : ~Readable(x, c) THEN OutOfBounds(x)
  ELSE IF ~Unique(x, row) THEN Throw(x)
  ELSE Then(Then(Store(x, row), WriteHeader),
            LAMBDA y : UpdateIndices(y, row, Rid(y)))

-----------------------------------------------------------------------------
(* Finding rows through an index.                                           *)

(* getRIDFromIndex.                                                         *)
Equality(cond) == cond.kind = "comparison" /\ cond.op = "="

Lookup(x, cond) ==
  IF ~Equality(cond) THEN "not found"
  ELSE LET c == cond.column
           k == Key(cond.value)
       IN  IF c \notin Indexed THEN "no column"
           ELSE IF ~Readable(x, c) THEN "io error"
           ELSE IF k \in DOMAIN Entries(x, c) THEN "found" ELSE "not found"

Target(x, cond) == Entries(x, cond.column)[Key(cond.value)]

-----------------------------------------------------------------------------
(* UPDATE.                                                                  *)

(* applyAssignments: each assignment to an indexed column takes the old key *)
(* out of the index and puts the new one in before the next is looked at,   *)
(* null included, whose key may be another row's.                           *)
ApplyAssignments(x, set, rid) ==
  LET assign(y, a) ==
        LET c == a[1]
            v == a[2]
            keyed == IndexErase(y, c, Key(y.row[c]))
            done(z) == [z EXCEPT !.row[c] = v]
        IN  IF c \notin Indexed THEN done(y)
            ELSE Then(Then(keyed, done), LAMBDA z :
                   IndexInsert([z EXCEPT !.events =
                                  IF Null \in {v, y.row[c]}
                                  THEN @ \cup {"nulled"} ELSE @],
                               c, Key(v), rid))
  IN  FoldLeft(LAMBDA y, a : Then(y, LAMBDA z : assign(z, a)), x, set)

(* relocate_record: buf is the compacted page of the old record, which is   *)
(* written to its page later.  When the row was stored on that very page,   *)
(* as it is in the file, it is lost then.                                   *)
Relocate(x, rid, old) ==
  LET cleared == ClearIndices(x, old)
      stored  == Then(cleared, LAMBDA y :
                   Store([y EXCEPT !.buf =
                            Recalc([@ EXCEPT !.slots[rid[2]] = Gone])], y.row))
      noted(y) == [y EXCEPT !.events =
                     IF y.at = rid[1] THEN @ \cup {"lost"} ELSE @]
  IN  Then(stored, LAMBDA y : UpdateIndices(noted(y), y.row, Rid(y)))

(* handleRecordUpdate: in place, at the free end of the compacted page, or  *)
(* on another page.  In the second case the free space recorded is that of  *)
(* a page with one slot more.  Bug variant: the length is not checked.      *)
BugHandleRecordUpdate(x, rid, old) ==
  [x EXCEPT !.buf.slots[rid[2]] = [row |-> x.row, len |-> Size(x.row)]]
HandleRecordUpdate(x, rid, old) ==
  LET i      == rid[2]
      size   == Size(x.row)
      packed == Compact(x.buf)
      record == [row |-> x.row, len |-> size]
  IN  IF size <= x.buf.slots[i].len
      THEN [x EXCEPT !.buf.slots[i] = record]
      ELSE IF Fits(packed, size)
      THEN [x EXCEPT !.buf = [packed EXCEPT !.slots[i] = record,
                                            !.used = @ + size,
                                            !.free = @ - size - SlotSize]]
      ELSE Relocate([x EXCEPT !.buf = packed], rid, old)

(* One row of an UPDATE, whose page is in buf.                              *)
UpdateRow(x, set, rid) ==
  LET old == RowAt(x.buf, rid[2])
      assigned == ApplyAssignments([x EXCEPT !.row = old], set, rid)
  IN  Then(assigned, LAMBDA y : HandleRecordUpdate(y, rid, old))

SetsKey(set) == \E i \in DOMAIN set : set[i][1] \in Indexed

UpdateFound(x, rid, set) ==
  IF rid[1] >= x.count THEN OutOfBounds(x)
  ELSE LET read == [x EXCEPT !.buf = x.pages[rid[1]]]
           done == Then(UpdateRow(read, set, rid),
                        LAMBDA y : WritePage(y, rid[1], y.buf))
       IN  IF RowAt(read.buf, rid[2]) = <<>> THEN x
           ELSE IF SetsKey(set) THEN Then(done, WriteHeader) ELSE done

(* A loop over the heap pages, up to the page count as it is by then, and   *)
(* over the slots a page had when it was read.  A page with a changed row   *)
(* is written from buf at the end.  ChangeRow(x, rid) changes one row.      *)
ScanPages(x0, cond, ChangeRow(_, _)) ==
  LET row(x, rid) ==
        IF /\ RowAt(x.buf, rid[2]) # <<>>
           /\ Matches(RowAt(x.buf, rid[2]), cond)
        THEN [ChangeRow(x, rid) EXCEPT !.dirty = TRUE] ELSE x
      slots(x, p) ==
        FoldLeftDomain(
          LAMBDA y, i : Then(y, LAMBDA z : row(z, <<p, i>>)),
          [x EXCEPT !.buf = x.pages[p], !.dirty = FALSE], x.pages[p].slots)
      page(x, p) ==
        IF p >= x.count \/ x.pages[p].type = "index" THEN x
        ELSE Then(slots(x, p), LAMBDA y :
               IF y.dirty THEN WritePage(y, p, Recalc(y.buf)) ELSE y)
  IN  FoldLeft(LAMBDA x, p : Then(x, LAMBDA y : page(y, p)),
               x0, [p \in 1 .. MaxPages + 1 |-> p])

FullScanUpdate(x, cond, set) ==
  Then(ScanPages(x, cond, LAMBDA y, rid : UpdateRow(y, set, rid)), WriteHeader)

(* executeUpdate: what an index does not find is not looked for elsewhere,  *)
(* and a condition that is no equality finds nothing.  Bug variant: the     *)
(* table is scanned then.                                                   *)
BugExecuteUpdate(x, cond, set) ==
  IF Lookup(x, cond) = "found" THEN UpdateFound(x, Target(x, cond), set)
  ELSE FullScanUpdate(x, cond, set)
ExecuteUpdate(x, cond, set) ==
  LET result == Lookup(x, cond)
  IN  CASE result = "found"     -> UpdateFound(x, Target(x, cond), set)
        [] result = "not found" -> x
        [] OTHER                -> FullScanUpdate(x, cond, set)

-----------------------------------------------------------------------------
(* DELETE.                                                                  *)

(* One row, whose page is in buf: first out of the indexes.                 *)
DeleteRow(x, rid) ==
  Then(ClearIndices(x, RowAt(x.buf, rid[2])),
       LAMBDA y : [y EXCEPT !.buf.slots[rid[2]] = Gone])

(* Bug variant: the record is written before its keys are cleared.          *)
BugDeleteFound(x, rid) ==
  LET old == RowAt(x.pages[rid[1]], rid[2])
      written == WritePage(x, rid[1],
                   Recalc([x.pages[rid[1]] EXCEPT !.slots[rid[2]] = Gone]))
  IN  Then(Then(written, LAMBDA y : ClearIndices(y, old)), WriteHeader)
DeleteFound(x, rid) ==
  IF rid[1] >= x.count THEN OutOfBounds(x)
  ELSE LET read == [x EXCEPT !.buf = x.pages[rid[1]]]
           done == Then(DeleteRow(read, rid),
                        LAMBDA y : WritePage(y, rid[1], Recalc(y.buf)))
       IN  IF RowAt(read.buf, rid[2]) = <<>> THEN x
           ELSE Then(done, WriteHeader)

FullScanDelete(x, cond) ==
  LET scanned == ScanPages(x, cond, DeleteRow)
  IN  IF scanned.pages = x.pages THEN scanned ELSE Then(scanned, WriteHeader)

(* executeDelete: refused when the condition compares for equality with a   *)
(* column that has no index.                                                *)
ExecuteDelete(x, cond) ==
  LET result == Lookup(x, cond)
  IN  CASE result = "found"     -> DeleteFound(x, Target(x, cond))
        [] result = "not found" -> FullScanDelete(x, cond)
        [] result = "no column" -> Throw(x)
        [] OTHER                -> OutOfBounds(x)

-----------------------------------------------------------------------------
(* SELECT: the records it returns, each with the key that led there.        *)

(* The file as a process sees it that opened it just now.                   *)
Now == [pages |-> pages, roots |-> roots, count |-> Len(pages) + 1]

HeapRids == {<<p, i>> : p \in {q \in DOMAIN pages : pages[q].type = "heap"},
                        i \in 1 .. Room}
RowOf(rid) == RowAt(pages[rid[1]], rid[2])
Live == {rid \in HeapRids : RowOf(rid) # <<>>}

(* The entries of column c's index whose keys are from lo on and below hi.  *)
Through(c, lo, hi) ==
  {<<k, Entries(Now, c)[k]>> : k \in {n \in DOMAIN Entries(Now, c) :
                                        n >= lo /\ n < hi}}

(* Those whose keys are from lo on, and all of them.                        *)
From(c, lo) ==
  {<<k, Entries(Now, c)[k]>> : k \in {n \in DOMAIN Entries(Now, c) : n >= lo}}
Whole(c) == {<<k, Entries(Now, c)[k]>> : k \in DOMAIN Entries(Now, c)}

(* findIndexForColumn.                                                      *)
OnIndexed(cond) ==
  cond.kind \in {"comparison", "between"} /\ cond.column \in Indexed
HasTree(cond) == OnIndexed(cond) /\ roots[cond.column] # 0

(* executePointQuery.                                                       *)
IsPointQuery(cond) == Equality(cond) /\ OnIndexed(cond)
PointQuery(cond) ==
  Through(cond.column, Key(cond.value), Key(cond.value) + 1)

(* executeRangeScan: from the key above that of >, or from that of >=, or   *)
(* between two.  Bug variant: the range stops one key early.                *)
IsRange(cond) ==
  HasTree(cond) /\ (cond.kind = "comparison" => cond.op \in {">", ">="})
BugRangeScan(cond) ==
  IF cond.kind = "between"
  THEN Through(cond.column, Key(cond.low), Key(cond.high) - 1)
  ELSE From(cond.column, Key(cond.value))
RangeScan(cond) ==
  IF cond.kind = "between"
  THEN Through(cond.column, Key(cond.low), Key(cond.high))
  ELSE From(cond.column, Key(cond.value) + (IF cond.op = ">" THEN 1 ELSE 0))

(* fullScanSelect.                                                          *)
FullScanSelect == {<<0, rid>> : rid \in Live}

(* executeTreeScan: the rows of the column's index, if there is one.        *)
TreeScan(cond) ==
  IF HasTree(cond) THEN Whole(cond.column) ELSE FullScanSelect

(* executeSelect.                                                           *)
Candidates(cond) ==
  CASE IsPointQuery(cond) -> PointQuery(cond)
    [] IsRange(cond) /\ ~IsPointQuery(cond) -> RangeScan(cond)
    [] OTHER -> TreeScan(cond)

(* processRow: the condition is evaluated again on every row found.         *)
Select(cond) ==
  {found \in Candidates(cond) :
     found[2] \in Live /\ Matches(RowOf(found[2]), cond)}

-----------------------------------------------------------------------------
Init ==
  /\ exists = TRUE
  /\ pages = <<>> /\ roots = [c \in Indexed |-> 0]
  /\ opened = [p \in Processes |-> 0]
  /\ events = {}
  /\ last = [statement |-> <<>>, out |-> "ok", outdated |-> FALSE]

(* The Pager's constructor.                                                 *)
Open(p) ==
  /\ exists /\ opened[p] = 0 /\ events \subseteq Accepted
  /\ opened' = [opened EXCEPT ![p] = Len(pages) + 1]
  /\ UNCHANGED <<exists, pages, roots, events, last>>

(* Its page count is from before other processes added pages.               *)
Outdated(p) == opened[p] # Len(pages) + 1

(* A statement ends as x: what was written stays.                           *)
End(p, statement, x) ==
  /\ Len(x.pages) <= MaxPages
  /\ pages' = x.pages
  /\ roots' = x.disk
  /\ opened' = [opened EXCEPT ![p] = 0]
  /\ events' = events \cup x.events \cup
       (IF x.out # "ok" /\ <<x.pages, x.disk>> # <<pages, roots>>
        THEN {statement[1]} ELSE {})
  /\ last' = [statement |-> statement, out |-> x.out, outdated |-> Outdated(p)]
  /\ UNCHANGED exists

Insert(p) ==
  /\ opened[p] # 0
  /\ \E row \in Inserts, n \in Stops :
       End(p, <<"insert", row>>, InsertRow(Start(p, n), row))

Update(p) ==
  /\ opened[p] # 0
  /\ \E u \in Updates, n \in Stops :
       End(p, <<"update", u[1], u[2]>>, ExecuteUpdate(Start(p, n), u[1], u[2]))

Delete(p) ==
  /\ opened[p] # 0
  /\ \E cond \in Deletes, n \in Stops :
       End(p, <<"delete", cond>>, ExecuteDelete(Start(p, n), cond))

(* DROP TABLE and CREATE TABLE: no other process uses a user's table, and   *)
(* the system's tables are not dropped.                                     *)
DropTable ==
  /\ exists /\ \A p \in Processes : opened[p] = 0
  /\ exists' = FALSE
  /\ UNCHANGED <<pages, roots, opened, events, last>>

CreateTable ==
  /\ ~exists
  /\ exists' = TRUE
  /\ pages' = <<>> /\ roots' = [c \in Indexed |-> 0] /\ events' = {}
  /\ UNCHANGED <<opened, last>>

Next ==
  \/ \E p \in Processes : Open(p) \/ Insert(p) \/ Update(p) \/ Delete(p)
  \/ DropTable \/ CreateTable

Spec == Init /\ [][Next]_vars
=============================================================================
