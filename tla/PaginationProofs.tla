--------------------------- MODULE PaginationProofs ---------------------------
(***************************************************************************)
(* Proofs about cursor pagination, for any finite table of ids and any     *)
(* page sizes: a walk returns no row twice, leaves out none that stayed in *)
(* the table, and moves on with every page.  The heart is what             *)
(* ORDER BY id LIMIT n yields: a part of the table that is closed          *)
(* downwards, not empty when the table is not, and all of the table when   *)
(* fewer than n rows came back.                                            *)
(***************************************************************************)
EXTENDS Pagination, FiniteSetTheorems, WellFoundedInduction, TLAPS

(* The rows of S before r, which List counts. *)
Below(S, r) == {q \in S : q < r}

(* Every set of rows that is not empty has a first row. *)
LEMMA FirstRow ==
  ASSUME NEW S \in SUBSET Id, S # {}
  PROVE  \E r \in S : \A q \in S : r <= q
  <1> DEFINE T == {Below(S, r) : r \in S}
  <1> DEFINE R == StrictSubsetOrdering(S)
  <1>1. IsFiniteSet(S)
    BY FS_Subset, PaginationAssumption
  <1>2. ASSUME NEW t \in T
        PROVE  t \in FiniteSubsetsOf(S)
    BY <1>1, FS_Subset DEF FiniteSubsetsOf, Below
  <1>3. T # {}
    OBVIOUS
  <1>4. PICK x \in T : \A y \in T : ~(<<y, x>> \in R)
    BY <1>2, <1>3, FS_StrictSubsetOrderingWellFounded, WFMin
  <1>5. PICK r \in S : x = Below(S, r)
    OBVIOUS
  <1>6. ASSUME NEW q \in S, ~(r <= q)
        PROVE  FALSE
    <2>1. q \in Int /\ r \in Int /\ q < r
      BY <1>6, PaginationAssumption
    <2>2. Below(S, q) \subseteq Below(S, r)
      <3>1. ASSUME NEW z \in S, z < q
            PROVE  z < r
        BY <2>1, <3>1, PaginationAssumption
      <3> QED
        BY <3>1 DEF Below
    <2>3. q \in Below(S, r) /\ q \notin Below(S, q)
      BY <2>1 DEF Below
    <2>4. <<Below(S, q), Below(S, r)>> \in R
      BY <2>2, <2>3 DEF StrictSubsetOrdering, Below
    <2> QED
      BY <1>4, <1>5, <2>4
  <1> QED
    BY <1>6

(* The rows before a row are finitely many. *)
LEMMA BelowFinite ==
  ASSUME NEW S \in SUBSET Id, NEW r
  PROVE  IsFiniteSet(Below(S, r)) /\ Cardinality(Below(S, r)) \in Nat
  BY FS_Subset, FS_CardinalityType, PaginationAssumption DEF Below

(* ORDER BY id LIMIT n keeps every row before one that it keeps. *)
LEMMA ListDownward ==
  ASSUME NEW S \in SUBSET Id, NEW n \in Nat, NEW r \in List(n, S),
         NEW q \in S, q <= r
  PROVE  q \in List(n, S)
  <1>1. q \in Int /\ r \in Int /\ r \in S
    BY PaginationAssumption DEF List
  <1>2. ASSUME NEW z \in Below(S, q)
        PROVE  z \in Below(S, r)
    BY <1>1, PaginationAssumption DEF Below
  <1>3. Below(S, q) \in SUBSET Below(S, r)
    BY <1>2
  <1>4. Cardinality(Below(S, q)) <= Cardinality(Below(S, r))
    BY <1>3, BelowFinite, FS_Subset
  <1>5. Cardinality(Below(S, r)) < n
    BY DEF List, Below
  <1> QED
    BY <1>1, <1>4, <1>5, BelowFinite DEF List, Below

(* A positive LIMIT returns a row when there is one. *)
LEMMA ListNonEmpty ==
  ASSUME NEW S \in SUBSET Id, S # {}, NEW n \in Nat \ {0}
  PROVE  List(n, S) # {}
  <1>1. PICK r \in S : \A q \in S : r <= q
    BY FirstRow
  <1>2. ASSUME NEW q \in Below(S, r)
        PROVE  FALSE
    <2>1. q \in S /\ q < r /\ q \in Int /\ r \in Int
      BY PaginationAssumption DEF Below
    <2> QED
      BY <1>1, <2>1
  <1>3. Cardinality(Below(S, r)) < n
    BY <1>2, FS_EmptySet
  <1> QED
    BY <1>3 DEF List, Below

(* Fewer rows than the LIMIT are all the rows. *)
LEMMA ListAll ==
  ASSUME NEW S \in SUBSET Id, NEW n \in Nat,
         ~HasMore(List(n + 1, S), n)
  PROVE  List(n + 1, S) = S
  <1> DEFINE L == List(n + 1, S)
  <1>1. L \subseteq S
    BY DEF List
  <1>2. SUFFICES ASSUME S \ L # {} PROVE FALSE
    BY <1>1
  <1>3. PICK r \in S \ L : \A q \in S \ L : r <= q
    BY <1>2, FirstRow
  <1>4. Below(S, r) \in SUBSET L
    <2>1. ASSUME NEW q \in Below(S, r), q \notin L
          PROVE  FALSE
      BY <1>3, <2>1, PaginationAssumption DEF Below
    <2> QED
      BY <2>1 DEF Below
  <1>5. ~(Cardinality(Below(S, r)) < n + 1)
    BY <1>3 DEF List, Below
  <1>6. IsFiniteSet(L) /\ Cardinality(L) \in Nat
    BY <1>1, FS_Subset, FS_CardinalityType, PaginationAssumption
  <1>7. Cardinality(Below(S, r)) <= Cardinality(L)
    BY <1>4, <1>6, FS_Subset
  <1> QED
    BY <1>5, <1>6, <1>7, BelowFinite DEF HasMore

-----------------------------------------------------------------------------
(* What PageFromQuery accepts and decodes is a page size within the cap. *)
LEMMA PageSize ==
  ASSUME NEW n \in Limits, ValidLimit(n)
  PROVE  PageFromQuery(n) \in 1..maxPageSize
  BY PaginationAssumption DEF ValidLimit, PageFromQuery

(* The rows after the cursor. *)
LEMMA AheadOfCursor ==
  ASSUME TypeOK
  PROVE  /\ IDCursorSQL(rows, after) \in SUBSET rows
         /\ \A r \in rows : r \in IDCursorSQL(rows, after) <=> ~Passed(r)
  <1>1. CASE after = NoCursor
    BY <1>1 DEF IDCursorSQL, Passed
  <1>2. CASE after # NoCursor
    <2>1. after \in Cursor /\ after.key \in Id /\ after.key \in Int
      BY <1>2, PaginationAssumption DEF TypeOK, Cursor
    <2>2. ASSUME NEW r \in rows
          PROVE  r > after.key <=> ~(r <= after.key)
      BY <2>1, PaginationAssumption DEF TypeOK
    <2> QED
      BY <1>2, <2>2 DEF IDCursorSQL, Passed
  <1> QED
    BY <1>1, <1>2

(***************************************************************************)
(* What NewResult makes of the rows S that are left: with more to come, a  *)
(* page of the rows up to the new cursor; without, all of them.            *)
(***************************************************************************)
LEMMA MorePages ==
  ASSUME NEW S \in SUBSET Id, NEW n \in Nat \ {0},
         HasMore(List(n + 1, S), n),
         NEW cursor \in Cursor \cup {NoCursor},
         NextCursor(List(n + 1, S), n, cursor)
  PROVE  /\ cursor \in Cursor /\ cursor # NoCursor /\ cursor.key \in S
         /\ \A r \in S :
                r \in Items(List(n + 1, S), n) <=> r <= cursor.key
         /\ Items(List(n + 1, S), n) \subseteq S
  <1> DEFINE L == List(n + 1, S)
  <1>1. L \in SUBSET Id /\ L \subseteq S
    BY DEF List
  <1>2. IsFiniteSet(L) /\ Cardinality(L) \in Nat
    BY <1>1, FS_Subset, FS_CardinalityType, PaginationAssumption
  <1>3. L # {}
    BY <1>2, FS_EmptySet DEF HasMore
  <1>4. Items(L, n) = List(n, L)
    BY DEF Items
  <1>5. Items(L, n) # {}
    BY <1>1, <1>3, <1>4, ListNonEmpty
  <1>6. PICK id \in Id : Last(Items(L, n), id) /\ cursor = EncodeCursor(id)
    BY <1>5 DEF NextCursor
  <1>7. cursor \in Cursor /\ cursor # NoCursor /\ cursor.key = id
    BY <1>6, PaginationAssumption DEF EncodeCursor, Cursor
  <1>8. id \in List(n, L) /\ id \in L
    BY <1>4, <1>6 DEF Last, List
  <1>9. ASSUME NEW r \in S, r <= id
        PROVE  r \in Items(L, n)
    <2>1. r \in L
      BY <1>8, <1>9, ListDownward
    <2> QED
      BY <1>1, <1>4, <1>8, <1>9, <2>1, ListDownward
  <1>10. Items(L, n) \subseteq S
    BY <1>1, <1>4 DEF List
  <1> QED
    BY <1>1, <1>6, <1>7, <1>8, <1>9, <1>10 DEF Last

LEMMA LastPage ==
  ASSUME NEW S \in SUBSET Id, NEW n \in Nat \ {0},
         ~HasMore(List(n + 1, S), n)
  PROVE  Items(List(n + 1, S), n) = S
  BY ListAll DEF Items

-----------------------------------------------------------------------------
(* Every state the table can start in satisfies the invariant. *)
LEMMA InitWalk == Init => WalkInv
  BY PaginationAssumption DEF Init, WalkInv, TypeOK, StableWalk

(* A client begins a walk. *)
LEMMA StartWalk == WalkInv /\ Start => WalkInv'
  <1> SUFFICES ASSUME WalkInv, Start PROVE WalkInv'
    OBVIOUS
  <1>1. limit' \in 1..maxPageSize
    BY PageSize DEF Start
  <1>2. returned' \in [Id -> Nat] /\ \A r \in Id : returned'[r] = 0
    BY DEF Start
  <1>3. \A r \in Id : ~Passed(r)'
    BY DEF Start, Passed
  <1> QED
    BY <1>1, <1>2, <1>3 DEF WalkInv, TypeOK, StableWalk, Start

(* A client gets a page. *)
LEMMA FetchWalk == WalkInv /\ Fetch => WalkInv'
  <1> SUFFICES ASSUME WalkInv, Fetch PROVE WalkInv'
    OBVIOUS
  <1> DEFINE S == IDCursorSQL(rows, after)
             found == List(limit + 1, S)
             page == Items(found, limit)
  <1>1. TypeOK /\ limit \in Nat \ {0} /\ S \in SUBSET Id
    <2>1. TypeOK /\ rows \in SUBSET Id
      BY DEF WalkInv, TypeOK
    <2>2. limit \in Nat \ {0}
      BY <2>1, PaginationAssumption DEF TypeOK
    <2> QED
      BY <2>1, <2>2, AheadOfCursor
  <1>2. PICK cursor \in Cursor \cup {NoCursor} :
          NextCursor(found, limit, cursor) /\ after' = cursor
    BY DEF Fetch
  <1>3. /\ returned' \in [Id -> Nat]
        /\ \A r \in Id : returned'[r] = IF r \in page THEN returned[r] + 1
                                                      ELSE returned[r]
    BY DEF Fetch, WalkInv, TypeOK
  <1>4. \A r \in Id : ~Passed(r) => returned[r] = 0
    BY DEF Fetch, WalkInv
  <1>5. \A r \in stayed : r \in Id /\ r \in rows
                            /\ (Passed(r) => returned[r] = 1)
    BY DEF Fetch, WalkInv, TypeOK
  <1>6. \A r \in rows : r \in S <=> ~Passed(r)
    BY <1>1, AheadOfCursor
  <1>7. S \subseteq rows
    BY <1>1, AheadOfCursor
  <1>8. page \subseteq S
    BY <1>1, <1>2, MorePages, LastPage
  <1>9. \A r \in Id : returned'[r] <= 1
    BY <1>1, <1>3, <1>4, <1>6, <1>7, <1>8 DEF WalkInv, StableWalk, TypeOK
  <1>10. TypeOK'
    BY <1>2, <1>3 DEF WalkInv, TypeOK, Fetch
  <1>11. stayed' \subseteq rows'
    BY DEF WalkInv, Fetch
  <1>12. CASE HasMore(found, limit)
    <2>1. /\ cursor \in Cursor /\ cursor # NoCursor /\ cursor.key \in S
          /\ \A r \in S : r \in page <=> r <= cursor.key
      BY <1>1, <1>2, <1>12, MorePages
    <2>2. pc' = "walking"
      BY <1>12 DEF Fetch
    <2>3. ASSUME NEW r \in Id, ~Passed(r)'
          PROVE  returned'[r] = 0
      <3>1. ~(r <= cursor.key)
        BY <1>2, <2>1, <2>3 DEF Passed
      <3>2. r \notin page
        BY <1>8, <2>1, <3>1
      <3>3. ~Passed(r)
        <4>1. SUFFICES ASSUME after # NoCursor, r <= after.key PROVE FALSE
          BY DEF Passed
        <4>2. ~Passed(cursor.key)
          BY <1>6, <1>7, <2>1
        <4>3. /\ after.key \in Int /\ cursor.key \in Int /\ r \in Int
          BY <1>1, <2>1, <4>1, PaginationAssumption DEF TypeOK, Cursor
        <4> QED
          BY <3>1, <4>1, <4>2, <4>3 DEF Passed
      <3> QED
        BY <1>3, <1>4, <3>2, <3>3
    <2>4. ASSUME NEW r \in Id, Passed(r)', r \in stayed'
          PROVE  returned'[r] = 1
      <3>1. r \in stayed /\ r <= cursor.key
        BY <1>2, <2>4 DEF Fetch, Passed
      <3>2. CASE r \in S
        BY <1>3, <1>4, <1>5, <1>6, <2>1, <3>1, <3>2
      <3>3. CASE r \notin S
        BY <1>3, <1>5, <1>6, <1>8, <3>1, <3>3
      <3> QED
        BY <3>2, <3>3
    <2> QED
      BY <1>9, <1>10, <1>11, <2>2, <2>3, <2>4 DEF WalkInv, StableWalk
  <1>13. CASE ~HasMore(found, limit)
    <2>1. page = S
      BY <1>1, <1>13, LastPage
    <2>2. pc' = "done"
      BY <1>13 DEF Fetch
    <2>3. ASSUME NEW r \in stayed'
          PROVE  returned'[r] = 1
      <3>1. r \in stayed
        BY <2>3 DEF Fetch
      <3> QED
        BY <1>3, <1>4, <1>5, <1>6, <2>1, <3>1
    <2> QED
      BY <1>9, <1>10, <1>11, <2>2, <2>3 DEF WalkInv, StableWalk
  <1> QED
    BY <1>12, <1>13

(* Rows come and go on either side of the cursor. *)
LEMMA TableChanges == WalkInv /\ (Insert \/ Delete) => WalkInv'
  <1> SUFFICES ASSUME WalkInv, Insert \/ Delete PROVE WalkInv'
    OBVIOUS
  <1>1. /\ rows' \in SUBSET Id /\ stayed' \subseteq rows'
        /\ stayed' \subseteq stayed
        /\ UNCHANGED <<pc, after, limit, returned>>
    BY DEF Insert, Delete, WalkInv, TypeOK
  <1> QED
    BY <1>1 DEF WalkInv, TypeOK, StableWalk, Passed

(***************************************************************************)
(* The invariant of a walk holds for every finite table and every page     *)
(* size: it is past exactly the rows up to its cursor.                     *)
(***************************************************************************)
THEOREM WalkInvariance == Spec => []WalkInv
  <1>1. WalkInv /\ [Next]_vars => WalkInv'
    <2>1. WalkInv /\ Next => WalkInv'
      BY StartWalk, FetchWalk, TableChanges DEF Next
    <2>2. WalkInv /\ UNCHANGED vars => WalkInv'
      BY DEF vars, WalkInv, TypeOK, StableWalk, Passed
    <2> QED
      BY <2>1, <2>2
  <1> QED
    BY InitWalk, <1>1, PTL DEF Spec

(***************************************************************************)
(* No row is returned twice, and a walk that ends has returned every row   *)
(* that was in the table all the time, whatever was inserted or deleted.   *)
(***************************************************************************)
THEOREM WalkStable == Spec => []StableWalk
  <1>1. WalkInv => StableWalk
    BY DEF WalkInv
  <1> QED
    BY WalkInvariance, <1>1, PTL
-----------------------------------------------------------------------------
(***************************************************************************)
(* The safety half of "a walk comes to an end": every page but the last    *)
(* passes an id it had not passed and goes back over none, and nothing     *)
(* else moves a walk.  With finitely many ids only finitely many pages can *)
(* say has_more, and fairness of the client does the rest.                 *)
(***************************************************************************)
WalkAdvances ==
  [][pc = "walking" =>
        \/ /\ Fetch
           /\ \/ pc' = "done"
              \/ /\ \A r \in Id : Passed(r) => Passed(r)'
                 /\ \E r \in Id : ~Passed(r) /\ Passed(r)'
        \/ UNCHANGED <<pc, after>>]_vars

(* A page that is not the last moves the cursor forward. *)
LEMMA PageAdvances ==
  ASSUME WalkInv, Fetch, pc' # "done"
  PROVE  /\ \A r \in Id : Passed(r) => Passed(r)'
         /\ \E r \in Id : ~Passed(r) /\ Passed(r)'
  <1> DEFINE S == IDCursorSQL(rows, after)
             found == List(limit + 1, S)
  <1>1. TypeOK /\ rows \in SUBSET Id
    BY DEF WalkInv, TypeOK
  <1>2. limit \in Nat \ {0} /\ S \in SUBSET rows /\ S \in SUBSET Id
    <2>1. limit \in Nat \ {0}
      BY <1>1, PaginationAssumption DEF TypeOK
    <2> QED
      BY <1>1, <2>1, AheadOfCursor
  <1>3. PICK cursor \in Cursor \cup {NoCursor} :
          NextCursor(found, limit, cursor) /\ after' = cursor
    BY DEF Fetch
  <1>4. HasMore(found, limit)
    BY DEF Fetch
  <1>5. cursor \in Cursor /\ cursor # NoCursor /\ cursor.key \in S
    BY <1>2, <1>3, <1>4, MorePages
  <1>6. cursor.key \in Id /\ cursor.key \in Int /\ ~Passed(cursor.key)
    BY <1>1, <1>2, <1>5, AheadOfCursor, PaginationAssumption
  <1>7. ASSUME NEW r \in Id
        PROVE  Passed(r)' <=> r <= cursor.key
    BY <1>3, <1>5 DEF Passed
  <1>8. ASSUME NEW r \in Id, Passed(r)
        PROVE  r <= cursor.key
    <2>1. after # NoCursor /\ r <= after.key /\ after.key \in Int /\ r \in Int
      BY <1>1, <1>8, PaginationAssumption DEF Passed, TypeOK, Cursor
    <2>2. ~(cursor.key <= after.key)
      BY <1>6, <2>1 DEF Passed
    <2> QED
      BY <1>6, <2>1, <2>2
  <1> QED
    BY <1>6, <1>7, <1>8

(***************************************************************************)
(* Every page but the last moves the walk forward, for every table, page   *)
(* size and order of inserts and deletes; nothing but a page moves it.     *)
(***************************************************************************)
THEOREM WalkProgress == Spec => WalkAdvances
  <1>1. WalkInv /\ [Next]_vars =>
          [pc = "walking" =>
             \/ /\ Fetch
                /\ \/ pc' = "done"
                   \/ /\ \A r \in Id : Passed(r) => Passed(r)'
                      /\ \E r \in Id : ~Passed(r) /\ Passed(r)'
             \/ UNCHANGED <<pc, after>>]_vars
    <2> SUFFICES ASSUME WalkInv, Next, pc = "walking"
                 PROVE  \/ /\ Fetch
                           /\ \/ pc' = "done"
                              \/ /\ \A r \in Id : Passed(r) => Passed(r)'
                                 /\ \E r \in Id : ~Passed(r) /\ Passed(r)'
                        \/ UNCHANGED <<pc, after>>
      OBVIOUS
    <2>1. CASE Start
      BY <2>1 DEF Start
    <2>2. CASE Fetch
      BY <2>2, PageAdvances
    <2>3. CASE Insert
      BY <2>3 DEF Insert
    <2>4. CASE Delete
      BY <2>4 DEF Delete
    <2> QED
      BY <2>1, <2>2, <2>3, <2>4 DEF Next
  <1> QED
    BY WalkInvariance, <1>1, PTL DEF Spec, WalkAdvances
===============================================================================
