-------------------------------- MODULE Lists --------------------------------
(***************************************************************************)
(* The lists of the API: workers, leave requests, a worker's attendance,   *)
(* payslips, audit logs, incidents and one's notifications.  All are read  *)
(* in pages, counted from the newest row, while rows are written; nothing  *)
(* deletes rows.  Page and total are two statements.  The clients are not  *)
(* part of the repository: here one reads page after page until a page is  *)
(* not full, or until it has seen as many pages as the answer says.        *)
(***************************************************************************)
EXTENDS Integers, FiniteSets, SequencesExt

CONSTANTS ListedRows,   \* ids of the rows of a list
          FirstRows,    \* those that are there from the beginning
          Moments,      \* values of the column by which a list is ordered
          Limits,       \* sizes of a page
          Unset,        \* null
          Bustles       \* sets of what may go on while a client reads

ASSUME ListsAssumption ==
  /\ IsFiniteSet(ListedRows)
  /\ FirstRows \subseteq ListedRows
  /\ Moments \subseteq Nat
  /\ Limits \subseteq Nat \ {0}
  /\ Bustles \subseteq SUBSET {"inserts", "updates", "ties"}
  /\ Unset \notin Nat
  /\ \A page \in SUBSET ListedRows : Unset # page

VARIABLES list,      \* which list is read,
          bustle,    \* what may go on: inserts, updates, rows of one moment,
          given,     \* which of its optional parameters the client gives,
          trusting,  \*   and whether it trusts totalPages: never change
          table,     \* table[r]: the row
          reader     \* where the client is and what it has been told

listVars == <<list, bustle, given, trusting, table, reader>>

(* Of each list: the conditions on rows that its query has always, beside  *)
(* that on the tenant; those that come with a parameter; and those of both *)
(* that a row may begin or cease to meet.                                  *)

ListWorkers ==
  [always |-> {}, optional |-> {"factoryId", "departmentId", "status", "search"},
   changing |-> {"departmentId", "status", "search"}]

GetLeaveRequests ==
  [always |-> {}, optional |-> {"workerId", "status"}, changing |-> {"status"}]

GetWorkerAttendance ==
  [always |-> {"workerId", "clockInTime"}, optional |-> {}, changing |-> {"clockInTime"}]

ListPayslips ==
  [always |-> {}, optional |-> {"workerId", "periodId"}, changing |-> {}]

AuditLogs ==
  [always |-> {}, optional |-> {"userId", "action", "resource", "createdAt"}, changing |-> {}]

ListIncidents ==
  [always |-> {}, optional |-> {"factoryId", "status", "severity"}, changing |-> {"status"}]

ListNotifications ==
  [always |-> {"recipientId"}, optional |-> {}, changing |-> {}]

Queries ==
  [workers |-> ListWorkers, leaveRequests |-> GetLeaveRequests,
   attendance |-> GetWorkerAttendance, payslips |-> ListPayslips,
   auditLogs |-> AuditLogs, incidents |-> ListIncidents,
   notifications |-> ListNotifications]

Lists == DOMAIN Queries

ASSUME ConditionsAssumption ==
  \A l \in Lists : Unset \notin Queries[l].always \cup Queries[l].optional

(* Attendance is ordered by clock-in time, which may lie in the past and   *)
(* be corrected; all else by createdAt.                                    *)
ByCreation == list # "attendance"

Conditions == Queries[list].always \cup given

(* fails: the one condition of the query, if any, that the row fails. *)
NoRow == [at |-> Unset, fails |-> Unset]
Present == {r \in ListedRows : table[r] # NoRow}
Where == {r \in Present : table[r].fails \notin Conditions}

(* A row may appear anywhere: createdAt is taken before the row is seen. *)
Fresh(at) == \A r \in Present : "ties" \in bustle \/ table[r].at # at

NotReading ==
  [step |-> "start", page |-> 0, limit |-> 0, items |-> Unset, total |-> Unset,
   seen |-> {}, due |-> {}]

ListsInit ==
  /\ list \in Lists
  /\ bustle \in Bustles
  /\ given \in SUBSET Queries[list].optional
  /\ trusting \in BOOLEAN
  /\ table \in [ListedRows -> [at : Moments, fails : Conditions \cup {Unset}] \cup {NoRow}]
  /\ Present = FirstRows
  /\ \A r, s \in FirstRows : r # s => "ties" \in bustle \/ table[r].at # table[s].at
  /\ reader = NotReading

-----------------------------------------------------------------------------
(* The API's other requests.                                               *)

InsertRow(r, at, fails) ==
  /\ "inserts" \in bustle
  /\ table[r] = NoRow
  /\ Fresh(at)
  /\ table' = [table EXCEPT ![r] = [at |-> at, fails |-> fails]]
  /\ UNCHANGED <<list, bustle, given, trusting, reader>>

(* Also the correction of a clock-in time, which may take the record to    *)
(* another place of the list or out of the days that the client asks for.  *)
UpdateRow(r, at, fails) ==
  /\ "updates" \in bustle
  /\ r \in Present
  /\ {table[r].fails, fails} \subseteq Queries[list].changing \cup {Unset}
  /\ IF ByCreation THEN at = table[r].at
     ELSE \A s \in Present \ {r} : "ties" \in bustle \/ table[s].at # at
  /\ table' = [table EXCEPT ![r] = [at |-> at, fails |-> fails]]
  /\ UNCHANGED <<list, bustle, given, trusting, reader>>

-----------------------------------------------------------------------------
(* Reading.  seen: the rows of the pages read so far.  due: the rows that  *)
(* the query would have found when the client began.                       *)

StartReading(limit) ==
  /\ reader.step = "start"
  /\ reader' = [NotReading EXCEPT !.step = "page", !.page = 1, !.limit = limit, !.due = Where]
  /\ UNCHANGED <<list, bustle, given, trusting, table>>

(* Newest first; the order of rows of one moment is the database's choice. *)
IsOrdered(rows) ==
  \A i, j \in 1 .. Len(rows) : i < j => table[rows[i]].at >= table[rows[j]].at
Orders == {rows \in SetToSeqs(Where) : IsOrdered(rows)}

SkipOneMore(page, limit) == page * limit - 1   \* mutant: pages from 0, or from 1?

Skip(page, limit) == (page - 1) * limit

FindPage ==
  /\ reader.step = "page"
  /\ reader.items = Unset
  /\ \E rows \in Orders :
       LET skip == Skip(reader.page, reader.limit)
       IN  reader' = [reader EXCEPT !.items =
             {rows[i] : i \in DOMAIN rows \cap (skip + 1 .. skip + reader.limit)}]
  /\ UNCHANGED <<list, bustle, given, trusting, table>>

CountRows ==
  /\ reader.step = "page"
  /\ reader.total = Unset
  /\ reader' = [reader EXCEPT !.total = Cardinality(Where)]
  /\ UNCHANGED <<list, bustle, given, trusting, table>>

TotalPages == (reader.total + reader.limit - 1) \div reader.limit   \* Math.ceil

IsLastPage ==
  IF trusting THEN reader.page >= TotalPages ELSE Cardinality(reader.items) < reader.limit

(* Both statements have answered. *)
Answer ==
  /\ reader.step = "page"
  /\ reader.items # Unset /\ reader.total # Unset
  /\ reader' = [reader EXCEPT
       !.step = IF IsLastPage THEN "done" ELSE "page",
       !.page = @ + 1, !.items = Unset, !.total = Unset,
       !.seen = @ \cup reader.items]
  /\ UNCHANGED <<list, bustle, given, trusting, table>>

Reading == FindPage \/ CountRows \/ Answer

ListsNext ==
  \/ Reading
  \/ \E limit \in Limits : StartReading(limit)
  \/ \E r \in ListedRows, at \in Moments, fails \in Conditions \cup {Unset} :
       InsertRow(r, at, fails) \/ UpdateRow(r, at, fails)

ListsSpec == ListsInit /\ [][ListsNext]_listVars

-----------------------------------------------------------------------------
ListsTypeOK ==
  /\ list \in Lists /\ bustle \in Bustles /\ trusting \in BOOLEAN
  /\ given \subseteq Queries[list].optional
  /\ table \in [ListedRows -> [at : Moments, fails : Conditions \cup {Unset}] \cup {NoRow}]
  /\ reader.step \in {"start", "page", "done"}
  /\ reader.page \in 0 .. Cardinality(ListedRows) + 2
  /\ reader.items = Unset \/ reader.items \subseteq ListedRows
  /\ reader.total = Unset \/ reader.total \in 0 .. Cardinality(ListedRows)
  /\ reader.seen \subseteq ListedRows /\ reader.due \subseteq ListedRows

(* A client that has read a list to its end has seen every row that was in *)
(* the list when it began, although rows appear meanwhile and shift others *)
(* to later pages.  This needs rows that stay in the list, so that no      *)
(* condition of the query may change under it, rows of different moments,  *)
(* and a client that stops at a page which is not full: totalPages is      *)
(* counted beside the page, and may be too low if a row appears between    *)
(* the two.                                                                *)
NothingIsMissed ==
  /\ reader.step = "done"
  /\ "updates" \in bustle => Conditions \cap Queries[list].changing = {}
  /\ "ties" \notin bustle
  /\ trusting => "inserts" \notin bustle
  => reader.due \subseteq reader.seen

=============================================================================
