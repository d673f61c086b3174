----------------------------- MODULE KeysetPages ----------------------------
(***************************************************************************)
(* The lists of the management API: tenants, devices, telemetry and        *)
(* commands, page by page, while other clients add and change rows.        *)
(*                                                                         *)
(* A page is one SELECT (postgres_store.go), so one step, which also reads *)
(* the cursor (pagination.go, list_filters.go) and fills the page within   *)
(* its budget (page_budget.go).  One client follows one list; lists do not *)
(* interact.  What tenant, device, type, status and time range can select  *)
(* by is the class of a row; a request has a scope, the classes its        *)
(* parameters select.                                                      *)
(***************************************************************************)
EXTENDS Integers, FiniteSets, Folds

CONSTANTS
    RowIds,           \* row ids, in the order of the id column
    Clock,            \* times as a process reads them
    Unit,             \* ticks of Clock in the finest time a table keeps
    Classes,          \* what rows are selected by
    NoClass,          \* the class of an id that has no row yet
    Scopes,           \* the scopes of requests, sets of classes
    RowBytes,         \* per list, sizes a row can have in a response
    Budget,           \* listContentBytes
    PageSizes,        \* page sizes clients ask for; 0 is none given
    DefaultPageSize,
    MaxPageSize

Timed == {"telemetry", "commands"}
Kinds == {"tenants", "devices"} \cup Timed

ASSUME PagesAssumption ==
    /\ IsFiniteSet(RowIds) /\ RowIds \subseteq Int
    /\ Clock \subseteq Int
    /\ Unit \in Nat \ {0}
    /\ NoClass \notin Classes
    /\ Scopes \subseteq SUBSET Classes
    /\ RowBytes \in [Kinds -> SUBSET Nat]
    /\ Budget \in Nat
    /\ PageSizes \subseteq Nat
    /\ MaxPageSize \in Nat \ {0}
    /\ DefaultPageSize \in 1..MaxPageSize

VARIABLES
    kind,             \* which of the four lists
    rows,             \* the table: class, sort time and size per id
    asked,            \* scope and direction of the list being followed
    phase,            \* "start", "more" (there is a nextCursor) or "end"
    cursor,           \* the latest nextCursor
    earlier,          \* rows of the pages before the latest
    page,             \* rows of the latest page
    answer,           \* the latest answer
    foreign,          \* the latest request was not one of this list
    steady            \* rows that were in the list from its start until now

listVars == <<asked, phase, cursor, earlier, page, answer, foreign, steady>>
pageVars == <<kind, rows, listVars>>

Directions == {"asc", "desc"}

Absent == [class |-> NoClass, at |-> 0, bytes |-> 0]
Present(i) == rows[i].class # NoClass

-----------------------------------------------------------------------------
(* Requests, keys and cursors                                              *)

\* Devices and tenants take no sort parameter.
Requests ==
    [scope : Scopes, size : PageSizes,
     sort : IF kind \in Timed THEN Directions \cup {"default", "wrong"} ELSE {"default"}]

\* NormalizePageRequest: 0 stands for a page size that is refused.
PageSize(r) ==
    IF r.size = 0 THEN DefaultPageSize
    ELSE IF r.size <= MaxPageSize THEN r.size ELSE 0

\* Times first, newest first unless the request says otherwise; devices and
\* tenants by id.
Direction(r) ==
    IF kind \notin Timed THEN "asc"
    ELSE IF r.sort = "default" THEN "desc" ELSE r.sort

NormalizeListRequest(r) == PageSize(r) # 0 /\ r.sort # "wrong"

\* Time bounds belong to the scope.
listPageFromRPC(r) == NormalizeListRequest(r)

\* The handlers look at the page size before they ask iot-core.
pageFromRequest(r) == PageSize(r) # 0

KeyOf(i) == [at |-> IF kind \in Timed THEN rows[i].at ELSE 0, id |-> i]

KeyBefore(a, b) == a.at < b.at \/ (a.at = b.at /\ a.id < b.id)

Precedes(direction, a, b) ==
    IF direction = "asc" THEN KeyBefore(a, b) ELSE KeyBefore(b, a)

\* encodePageCursor and encodeDeviceCursor: the last row of the page and what
\* the cursor is bound to.
CursorAt(r, i) ==
    [scope |-> r.scope, sort |-> Direction(r), key |-> KeyOf(i)]

\* decodePageCursor; a time finer than the table keeps is refused as well.
ScopedCursor(r) ==
    /\ cursor.scope = r.scope
    /\ cursor.sort = Direction(r)
    /\ cursor.key.at % Unit = 0

\* decodeDeviceCursor and the comparison of tenants.
DeviceCursor(r) == cursor.scope = r.scope

-----------------------------------------------------------------------------
(* One page                                                                *)

\* The row comparison of the WHERE clauses; the first page has no cursor.
After(r, follow, i) == follow => Precedes(Direction(r), cursor.key, KeyOf(i))

InScope(r, follow) == {i \in RowIds : rows[i].class \in r.scope /\ After(r, follow, i)}

\* The rows of S up to row i, in the order of the list.
UpTo(r, S, i) == {j \in S : ~Precedes(Direction(r), KeyOf(i), KeyOf(j))}

\* ORDER BY ... LIMIT pageSize + 1.
Fetched(r, S) == {i \in S : Cardinality(UpTo(r, S, i)) <= PageSize(r) + 1}

\* What the rows of P have used of the budget.
Used(P) ==
    MapThenFoldSet(+, 0, LAMBDA i : rows[i].bytes, LAMBDA s : CHOOSE i \in s : TRUE, P)

\* Seeded fault: off by one in the comparison with what is left.
FitsBelow(r, P) == Cardinality(P) <= PageSize(r) /\ Used(P) < Budget

\* responsePageBudget.accept, for all rows of P in turn.
Fits(r, P) == Cardinality(P) <= PageSize(r) /\ Used(P) <= Budget

\* The loop over the rows ends at the first one that is not accepted.
Filled(r, W) == {i \in W : \A j \in UpTo(r, W, i) : Fits(r, UpTo(r, W, j))}

\* The rows of a page leave the server, with a cursor if a row is left.
Deliver(r, P, more) ==
    /\ answer' = "page"
    /\ page' = P
    /\ IF more
       THEN phase' = "more" /\ \E i \in P : UpTo(r, P, i) = P /\ cursor' = CursorAt(r, i)
       ELSE phase' = "end" /\ UNCHANGED cursor

\* ErrListItemTooLarge when not even the first row fits; the client keeps what
\* it has.
Serve(r, S) ==
    LET W == Fetched(r, S)
        P == Filled(r, W)
    IN IF P = {} /\ W # {}
       THEN answer' = "too_large" /\ UNCHANGED <<page, phase, cursor>>
       ELSE Deliver(r, P, P # W)

Refuse(reason) == answer' = reason /\ UNCHANGED <<page, phase, cursor>>

\* The store: the cursor, then the query.
ListTenantsPage(r, follow) ==
    Serve(r, {i \in RowIds : Present(i) /\ After(r, follow, i)})

ListDevicesPage(r, follow) ==
    IF follow => DeviceCursor(r) THEN Serve(r, InScope(r, follow)) ELSE Refuse("invalid")

ListTelemetryPage(r, follow) ==
    IF follow => ScopedCursor(r) THEN Serve(r, InScope(r, follow)) ELSE Refuse("invalid")

ListCommandsPage(r, follow) ==
    IF follow => ScopedCursor(r) THEN Serve(r, InScope(r, follow)) ELSE Refuse("invalid")

\* The service: the rest of the request.
ListTenants(r, follow) ==
    IF PageSize(r) # 0 THEN ListTenantsPage(r, follow) ELSE Refuse("refused")

ListDevices(r, follow) ==
    IF NormalizeListRequest(r) THEN ListDevicesPage(r, follow) ELSE Refuse("refused")

ListTelemetry(r, follow) ==
    IF listPageFromRPC(r) THEN ListTelemetryPage(r, follow) ELSE Refuse("refused")

ListCommands(r, follow) ==
    IF listPageFromRPC(r) THEN ListCommandsPage(r, follow) ELSE Refuse("refused")

listTenantsHandler(r, follow) ==
    /\ kind = "tenants"
    /\ IF pageFromRequest(r) THEN ListTenants(r, follow) ELSE Refuse("refused")

listDevicesHandler(r, follow) ==
    /\ kind = "devices"
    /\ IF pageFromRequest(r) THEN ListDevices(r, follow) ELSE Refuse("refused")

listTelemetryHandler(r, follow) ==
    /\ kind = "telemetry"
    /\ IF pageFromRequest(r) THEN ListTelemetry(r, follow) ELSE Refuse("refused")

listCommandsHandler(r, follow) ==
    /\ kind = "commands"
    /\ IF pageFromRequest(r) THEN ListCommands(r, follow) ELSE Refuse("refused")

List(r, follow) ==
    \/ listTenantsHandler(r, follow) \/ listDevicesHandler(r, follow)
    \/ listTelemetryHandler(r, follow) \/ listCommandsHandler(r, follow)

-----------------------------------------------------------------------------
(* The client                                                              *)

NoList == [scope |-> {}, sort |-> "asc"]
NoCursor == [scope |-> {}, sort |-> "asc", key |-> [at |-> 0, id |-> 0]]

PagesInit ==
    /\ kind \in Kinds
    /\ rows = [i \in RowIds |-> Absent]
    /\ asked = NoList /\ phase = "start" /\ cursor = NoCursor
    /\ earlier = {} /\ page = {} /\ steady = {}
    /\ answer = "none" /\ foreign = FALSE

InList(scope, i) == IF kind = "tenants" THEN Present(i) ELSE rows[i].class \in scope

Foreign(r) ==
    kind # "tenants" /\ (r.scope # asked.scope \/ Direction(r) # asked.sort)

FirstPage(r) ==
    /\ phase = "start"
    /\ List(r, FALSE)
    /\ IF answer' = "refused" THEN UNCHANGED <<asked, steady>>
       ELSE /\ asked' = [scope |-> r.scope, sort |-> Direction(r)]
            /\ steady' = {i \in RowIds : InList(r.scope, i)}
    /\ foreign' = FALSE
    /\ UNCHANGED <<kind, rows, earlier>>

\* The page size may differ from call to call, and the cursor may come with the
\* parameters of another list.
NextPage(r) ==
    /\ phase = "more"
    /\ List(r, TRUE)
    /\ earlier' = IF answer' = "page" THEN earlier \cup page ELSE earlier
    /\ foreign' = Foreign(r)
    /\ UNCHANGED <<kind, rows, asked, steady>>

\* The client is done, or gives up on an oversized row.
StartOver ==
    /\ phase = "end" \/ answer = "too_large"
    /\ asked' = NoList /\ phase' = "start" /\ cursor' = NoCursor
    /\ earlier' = {} /\ page' = {} /\ steady' = {}
    /\ answer' = "none" /\ foreign' = FALSE
    /\ UNCHANGED <<kind, rows>>

-----------------------------------------------------------------------------
(* The other clients of the tables.  Rows are never deleted, and neither id   *)
(* nor sort time of a row ever changes.                                       *)

Add(i, class, at, bytes) ==
    /\ ~Present(i)
    /\ rows' = [rows EXCEPT ![i] = [class |-> class, at |-> at, bytes |-> bytes]]
    /\ UNCHANGED <<kind, listVars>>

\* Seeded fault: the time of the process is kept as it is, which is what the
\* in-memory store does.
StoredAsRead(t) == t

\* A timestamptz has microseconds.
StoredTime(t) == t - (t % Unit)

CreateTenantRow(i, class, bytes) == kind = "tenants" /\ Add(i, class, 0, bytes)

CreateDeviceRow(i, class, bytes) == kind = "devices" /\ Add(i, class, 0, bytes)

\* ts is an integer of milliseconds, and any integer: devices choose it.
RecordTelemetry(i, class, t, bytes) ==
    /\ kind = "telemetry"
    /\ t % Unit = 0
    /\ Add(i, class, t, bytes)

\* created_at is read before the transaction commits, so a row may appear
\* behind later ones.
CreateCommand(i, class, t, bytes) ==
    kind = "commands" /\ Add(i, class, StoredTime(t), bytes)

\* A statement of CommandStore: status and result are part of a listed command.
UpdateCommand(i, class, bytes) ==
    /\ kind = "commands"
    /\ Present(i)
    /\ rows' = [rows EXCEPT ![i].class = class, ![i].bytes = bytes]
    /\ steady' = IF class \in asked.scope THEN steady ELSE steady \ {i}
    /\ UNCHANGED <<kind, asked, phase, cursor, earlier, page, answer, foreign>>

Write ==
    \E i \in RowIds, class \in Classes, bytes \in RowBytes[kind] :
        \/ CreateTenantRow(i, class, bytes) \/ CreateDeviceRow(i, class, bytes)
        \/ UpdateCommand(i, class, bytes)
        \/ \E t \in Clock :
              RecordTelemetry(i, class, t, bytes) \/ CreateCommand(i, class, t, bytes)

PagesNext ==
    \/ \E r \in Requests : FirstPage(r) \/ NextPage(r)
    \/ StartOver
    \/ Write

PagesSpec == PagesInit /\ [][PagesNext]_pageVars

-----------------------------------------------------------------------------
(* Properties                                                              *)

\* Type invariant.  No page is longer than the largest page size.
PagesTypeOK ==
    /\ kind \in Kinds
    /\ rows \in [RowIds -> [class : Classes \cup {NoClass}, at : Int, bytes : Nat]]
    /\ asked \in [scope : SUBSET Classes, sort : Directions]
    /\ phase \in {"start", "more", "end"}
    /\ cursor \in [scope : SUBSET Classes, sort : Directions,
                   key : [at : Int, id : Int]]
    /\ earlier \subseteq RowIds
    /\ page \subseteq RowIds
    /\ answer \in {"none", "page", "refused", "invalid", "too_large"}
    /\ foreign \in BOOLEAN
    /\ steady \subseteq RowIds
    /\ Cardinality(page) <= MaxPageSize

\* The client of a list can rely on its pages, however many rows are added or
\* changed between two of them and wherever page size, page limit and byte
\* budget cut them: they are in order and repeat nothing; an empty nextCursor
\* means that every row that was in the list all along was returned; a page
\* that promises more is not empty and its cursor is the furthest row returned,
\* so that following the list ends; and decodePageCursor refuses a cursor with
\* the parameters of another list, and never with its own.
PagesAreWhole ==
    /\ PagesTypeOK
    /\ \A i \in earlier, j \in page : Precedes(asked.sort, KeyOf(i), KeyOf(j))
    /\ phase = "end" => steady \subseteq earlier \cup page
    /\ phase = "more" =>
          /\ page # {}
          /\ \A i \in earlier \cup page :
                KeyOf(i) = cursor.key \/ Precedes(asked.sort, KeyOf(i), cursor.key)
    /\ answer \in {"page", "too_large", "invalid"} => (answer = "invalid") = foreign

\* accept: a list is only given up for a row that no page can hold.
TooLargeIsTrue ==
    [][(answer' = "too_large" /\ answer # "too_large")
          => \E i \in RowIds : rows[i].bytes > Budget]_pageVars

=============================================================================
