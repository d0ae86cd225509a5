--------------------------------- MODULE Paging ---------------------------------
(***************************************************************************)
(* A list endpoint read to its end, page by page, as the dashboard's loaders *)
(* do, while rows are added, leave the list and return between the pages.     *)
(*                                                                          *)
(* A row is [at, id]. A list by "key" is sorted by a unique key, `at`; one by *)
(* "version" by a version number, newest first; one by "stamp" by the time of *)
(* creation, newest first, then by id. The database keeps microseconds, of     *)
(* which a Date and so a cursor carries the millisecond alone; here Tick of   *)
(* them make one.                                                            *)
(*                                                                          *)
(* A definition whose name ends in _Mutant is the definition after it with   *)
(* one plausible bug; no action uses it.                                     *)
(***************************************************************************)
EXTENDS Naturals, Sequences, SequencesExt, FiniteSets

CONSTANTS
  Lists,    (* The lists that occur, of those below.                        *)
  Places,   (* The values of `at`.                                          *)
  Ids,      (* The ids of rows; bounds how many there ever are.             *)
  Limit,    (* The size of a page.                                          *)
  Tick,     (* Microseconds in a millisecond.                               *)
  Start     (* No cursor.                                                   *)

ASSUME ListsKnown == Lists \subseteq
  [by : {"key", "version", "stamp"}, leave : BOOLEAN, return : BOOLEAN]
ASSUME PagesHoldRows == Limit \in Nat \ {0} /\ Tick \in Nat \ {0}
ASSUME PlacesAndIds == Places \subseteq Nat /\ Ids \subseteq Nat
ASSUME StartIsNoRow == Start \notin [at : Nat, id : Nat]

VARIABLES
  list,       (* The list that is read.                                      *)
  rows,       (* Its rows.                                                  *)
  gone,       (* The rows its filter hides: archived, renamed, decided.      *)
  cursor,     (* What the next page starts after; Start for the first one.   *)
  collected,  (* The rows the loader has, in their order.                    *)
  kept,       (* The rows that were there at the start and ever since.       *)
  loader      (* "reading", "done" or "failed".                              *)

reader == <<cursor, collected, loader>>
pagingVars == <<list, rows, gone, cursor, collected, kept, loader>>

--------------------------------------------------------------------------------
(* The lists: what each is sorted by, and whether its filter may come to hide a *)
(* row, or to show one again that it hid. A search matches names, which change. *)

FlagList          == [by |-> "key", leave |-> TRUE, return |-> TRUE]
WorkspaceFlagList == [by |-> "key", leave |-> TRUE, return |-> TRUE]
SegmentList       == [by |-> "key", leave |-> TRUE, return |-> TRUE]
EnvironmentList   == [by |-> "key", leave |-> TRUE, return |-> TRUE]
ApiKeyList        == [by |-> "key", leave |-> TRUE, return |-> FALSE]
FlagVersionList   == [by |-> "version", leave |-> FALSE, return |-> FALSE]
ChangeRequestList == [by |-> "stamp", leave |-> TRUE, return |-> FALSE]
AuditLogList      == [by |-> "stamp", leave |-> FALSE, return |-> FALSE]

KeyedLists == {FlagList, WorkspaceFlagList, SegmentList, EnvironmentList, ApiKeyList,
               FlagVersionList}
StampedLists == {ChangeRequestList, AuditLogList}

Newer(a, b) == a.at > b.at \/ (a.at = b.at /\ a.id > b.id)
Precedes(a, b) == IF list.by = "key" THEN a.at < b.at ELSE Newer(a, b)

(* No two rows share a key or a version number; creation times may agree.     *)
Distinct(S) == \A a, b \in S : a # b => a.id # b.id /\ (list.by # "stamp" => a.at # b.at)

--------------------------------------------------------------------------------
PagingInit ==
  /\ list \in Lists
  /\ rows \in {S \in SUBSET [at : Places, id : Ids] : IsFiniteSet(S) /\ Distinct(S)}
  /\ gone = {}
  /\ cursor = Start /\ collected = <<>> /\ kept = rows /\ loader = "reading"

(* A segment, a flag, a key is created, or a version published. A row's time is *)
(* when its transaction began, so it may appear behind a later one.          *)
Insert ==
  /\ \E row \in [at : Places, id : Ids] \ (rows \cup gone) :
       /\ Distinct(rows \cup gone \cup {row})
       /\ list.by = "version" => \A other \in rows : row.at > other.at
       /\ rows' = rows \cup {row}
  /\ UNCHANGED <<list, gone, kept, reader>>

(* Archived, revoked, decided, or renamed to what the search does not match.  *)
Archive ==
  /\ list.leave
  /\ \E row \in rows : rows' = rows \ {row} /\ gone' = gone \cup {row} /\ kept' = kept \ {row}
  /\ UNCHANGED <<list, reader>>

Unarchive ==
  /\ list.return
  /\ \E row \in gone : rows' = rows \cup {row} /\ gone' = gone \ {row}
  /\ UNCHANGED <<list, kept, reader>>

(* The cursor that resumes after a row: its key, its version number, or its    *)
(* creation time as an ISO string beside its id.                             *)
CursorOf(row) == IF list.by = "stamp" THEN [row EXCEPT !.at = (@ \div Tick) * Tick] ELSE row

After(row) == cursor = Start \/ Precedes(cursor, row)

(* A row's place in a list: how many of its rows precede it.                  *)
Place(row, S) == Cardinality({other \in S : Precedes(other, row)})

(* In order, the rows after the cursor, at most one more than a page holds.    *)
Fetched == LET S == {row \in rows : After(row)}
           IN  [n \in 1..(IF Cardinality(S) <= Limit THEN Cardinality(S) ELSE Limit + 1) |->
                  CHOOSE row \in S : Place(row, S) = n - 1]

toPage_Mutant(fetched) ==  \* the extra row is the cursor
  LET hasMore == Len(fetched) > Limit
      data == IF hasMore THEN SubSeq(fetched, 1, Limit) ELSE fetched
  IN  [data |-> data, nextCursor |-> IF hasMore THEN CursorOf(Last(fetched)) ELSE Start]

toPage(fetched) ==
  LET hasMore == Len(fetched) > Limit
      data == IF hasMore THEN SubSeq(fetched, 1, Limit) ELSE fetched
  IN  [data |-> data, nextCursor |-> IF hasMore THEN CursorOf(Last(data)) ELSE Start]

(* One statement, which sees what is committed.                              *)
ReadPage ==
  LET page == toPage(Fetched)
  IN  /\ loader = "reading"
      /\ collected' = collected \o page.data
      /\ cursor' = page.nextCursor
      /\ loader' = IF page.nextCursor = Start THEN "done" ELSE "reading"
      /\ UNCHANGED <<list, rows, gone, kept>>

(* A page that fails takes the whole list with it: no loader tries again.      *)
FailPage ==
  /\ loader = "reading"
  /\ loader' = "failed"
  /\ UNCHANGED <<list, rows, gone, cursor, collected, kept>>

PagingNext == Insert \/ Archive \/ Unarchive \/ ReadPage \/ FailPage

PagingSpec == PagingInit /\ [][PagingNext]_pagingVars

--------------------------------------------------------------------------------
(* Properties *)

(* "pages without repeating or skipping a row" (the test of the audit log's    *)
(* pages): a list read to its end has every row that was there all along,     *)
(* whatever came, left and returned meanwhile; and no row is ever read twice,   *)
(* so that a loader comes to an end.                                         *)
NoRowSkippedOrRepeated ==
  /\ loader = "done" => kept \subseteq ToSet(collected)
  /\ IsInjective(collected)
================================================================================
