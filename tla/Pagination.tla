----------------------------- MODULE Pagination -----------------------------
(***************************************************************************)
(* The cursor pagination of nz-common: a client walks through a table page *)
(* by page, handing back the cursor of the last page, while other requests *)
(* insert and delete rows.  The server keeps nothing between two pages.    *)
(* Each page is one SELECT ... ORDER BY id LIMIT limit+1, made by code     *)
(* outside the package, from which NewResult cuts the page.                *)
(***************************************************************************)
EXTENDS Integers, FiniteSets

CONSTANTS
    Id,                 \* values of the integer id column
    Limits,             \* values of the limit parameter clients send
    NoLimit,            \* the empty limit parameter
    NoCursor,           \* the empty cursor
    defaultPageSize,    \* 20 in the code
    maxPageSize         \* 100 in the code

Cursor == [key : Id]

ASSUME PaginationAssumption ==
    /\ Id \subseteq Int
    /\ IsFiniteSet(Id)
    /\ Limits \subseteq Int \cup {NoLimit}
    /\ NoLimit \notin Int
    /\ NoCursor \notin Cursor
    /\ defaultPageSize \in 1..maxPageSize
    /\ maxPageSize \in Nat

VARIABLES
    rows,       \* the ids in the table
    pc,         \* the client: "idle", "walking" or "done"
    after,      \* the cursor the client sends next
    limit,      \* the decoded page size of the walk
    returned,   \* history: how often the walk returned each id
    stayed      \* history: the rows that were there all through the walk

vars == <<rows, pc, after, limit, returned, stayed>>

TypeOK ==
    /\ rows \in SUBSET Id
    /\ pc \in {"idle", "walking", "done"}
    /\ after \in Cursor \cup {NoCursor}
    /\ limit \in 1..maxPageSize
    /\ returned \in [Id -> Nat]
    /\ stayed \in SUBSET Id

Init ==
    /\ rows \in SUBSET Id
    /\ pc = "idle"
    /\ after = NoCursor
    /\ limit = defaultPageSize
    /\ returned = [r \in Id |-> 0]
    /\ stayed = {}

-----------------------------------------------------------------------------
\* Mutant: zero is accepted.
ValidLimit_Zero(n) == n # NoLimit => n >= 0

(* What PageFromQuery refuses is answered with an error. *)
ValidLimit(n) == n # NoLimit => n >= 1

\* Mutant: the limit is not capped.
PageFromQuery_Uncapped(n) == IF n = NoLimit THEN defaultPageSize ELSE n

(* The page size it decodes. *)
PageFromQuery(n) ==
    IF n = NoLimit THEN defaultPageSize
    ELSE IF n > maxPageSize THEN maxPageSize ELSE n

(* base64 of the sort key: the client cannot tell it from another string. *)
EncodeCursor(id) == [key |-> id]

(* The rows that satisfy "AND id > $N"; no clause without a cursor. *)
IDCursorSQL(table, cursor) ==
    IF cursor = NoCursor THEN table ELSE {r \in table : r > cursor.key}

(* ORDER BY id LIMIT n *)
List(n, S) == {r \in S : Cardinality({q \in S : q < r}) < n}

Last(items, id) == id \in items /\ \A q \in items : q <= id

(***************************************************************************)
(* NewResult cuts the extra row off and makes the cursor from the last row *)
(* it keeps.                                                               *)
(***************************************************************************)
HasMore(found, n) == Cardinality(found) > n

Items(found, n) == IF HasMore(found, n) THEN List(n, found) ELSE found

\* Mutant: the cursor is made from the extra row.
NextCursor_OfExtra(found, n, cursor) ==
    IF HasMore(found, n)
    THEN \E id \in Id : Last(found, id) /\ cursor = EncodeCursor(id)
    ELSE cursor = NoCursor

NextCursor(found, n, cursor) ==
    IF HasMore(found, n) /\ Items(found, n) # {}
    THEN \E id \in Id : Last(Items(found, n), id) /\ cursor = EncodeCursor(id)
    ELSE cursor = NoCursor

-----------------------------------------------------------------------------
(* The client begins a walk. *)
Start ==
    /\ pc # "walking"
    /\ \E n \in Limits :
        /\ ValidLimit(n)
        /\ limit' = PageFromQuery(n)
    /\ pc' = "walking"
    /\ after' = NoCursor
    /\ returned' = [r \in Id |-> 0]
    /\ stayed' = rows
    /\ UNCHANGED rows

(* The client gets a page and goes on while has_more says so. *)
Fetch ==
    LET found == List(limit + 1, IDCursorSQL(rows, after)) IN
    /\ pc = "walking"
    /\ returned' = [r \in Id |->
            IF r \in Items(found, limit) THEN returned[r] + 1 ELSE returned[r]]
    /\ \E cursor \in Cursor \cup {NoCursor} :
        /\ NextCursor(found, limit, cursor)
        /\ after' = cursor
    /\ pc' = IF HasMore(found, limit) THEN "walking" ELSE "done"
    /\ UNCHANGED <<rows, limit, stayed>>

Insert ==
    /\ \E r \in Id \ rows : rows' = rows \cup {r}
    /\ UNCHANGED <<pc, after, limit, returned, stayed>>

Delete ==
    /\ \E r \in rows : rows' = rows \ {r} /\ stayed' = stayed \ {r}
    /\ UNCHANGED <<pc, after, limit, returned>>

Next == Start \/ Fetch \/ Insert \/ Delete

Spec == Init /\ [][Next]_vars

(* A client that walks asks for the next page. *)
FairSpec == Spec /\ WF_vars(Fetch)

-----------------------------------------------------------------------------
(***************************************************************************)
(* Cursor pagination "remains stable as rows are inserted/deleted": no row *)
(* is returned twice, and a walk that ends has returned every row that was *)
(* in the table all the time.                                              *)
(***************************************************************************)
StableWalk ==
    /\ \A r \in Id : returned[r] <= 1
    /\ pc = "done" => \A r \in stayed : returned[r] = 1

(* What a walk under way has returned: the rows up to its cursor. *)
Passed(r) == after # NoCursor /\ r <= after.key

(***************************************************************************)
(* The inductive invariant behind it: the walk is past exactly the rows up *)
(* to its cursor, whatever was inserted or deleted on either side.         *)
(***************************************************************************)
WalkInv ==
    /\ TypeOK
    /\ StableWalk
    /\ stayed \subseteq rows
    /\ pc = "walking" =>
        \A r \in Id : /\ ~Passed(r) => returned[r] = 0
                      /\ Passed(r) /\ r \in stayed => returned[r] = 1

(***************************************************************************)
(* A walk comes to an end, although rows appear ahead of it (finitely many *)
(* ids): every page but the last moves the cursor.                         *)
(***************************************************************************)
WalkEnds == pc = "walking" ~> pc = "done"
=============================================================================
