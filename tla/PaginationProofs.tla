--------------------------- MODULE PaginationProofs ---------------------------
(***************************************************************************)
(* Walks deliver every row once, for every number of ids and all page      *)
(* sizes.  The argument: the ids below the cursor that the walk delivered  *)
(* and those ahead of it never meet, because a page is a downward closed   *)
(* part of what lies ahead and the token is its greatest id.               *)
(***************************************************************************)
EXTENDS Pagination, FiniteSetTheorems, WellFoundedInduction, TLAPS

-----------------------------------------------------------------------------
(* Finite sets of ids.                                                     *)

Before(S, id) == {j \in S : j < id}

After(S, id) == {j \in S : j > id}

\* Every set of ids is finite, with a cardinality.
LEMMA IdsAreFinite ==
    ASSUME NEW S \in SUBSET Ids
    PROVE  IsFiniteSet(S) /\ Cardinality(S) \in Nat
<1>1. IsFiniteSet(Ids)
  <2>1. MaxId \in Int
    BY PaginationAssumption
  <2> QED
    BY <2>1, FS_Interval DEF Ids
<1>2. IsFiniteSet(S)
  BY <1>1, FS_Subset
<1> QED
  BY <1>2, FS_CardinalityType

\* A set of ids that is not empty has a least id: one with the fewest below it.
LEMMA LeastExists ==
    ASSUME NEW S \in SUBSET Ids, S # {}
    PROVE  \E id \in S : \A j \in S : id <= j
<1> DEFINE T == {Before(S, id) : id \in S}
<1>1. T \subseteq FiniteSubsetsOf(Ids) /\ T # {}
  BY IdsAreFinite DEF FiniteSubsetsOf, Before
<1>2. PICK B \in T : \A C \in T : ~ (<<C, B>> \in StrictSubsetOrdering(Ids))
  <2> HIDE DEF T
  <2> QED
    BY <1>1, FS_StrictSubsetOrderingWellFounded, WFMin
<1>3. PICK id \in S : B = Before(S, id)
  OBVIOUS
<1>4. ASSUME NEW j \in S, j < id
      PROVE  FALSE
  <2>1. Before(S, j) \subseteq B /\ j \in B /\ j \notin Before(S, j)
    <3>1. \A i \in S : i \in Nat
      BY PaginationAssumption DEF Ids
    <3>2. \A i \in S : i < j => i < id
      BY <1>4, <3>1
    <3>3. Before(S, j) \subseteq B
      BY <1>3, <3>2 DEF Before
    <3>4. j \in B
      BY <1>3, <1>4 DEF Before
    <3>5. ~ (j < j)
      BY <3>1
    <3> QED
      BY <3>3, <3>4, <3>5 DEF Before
  <2>2. Before(S, j) \in T /\ Before(S, j) \in SUBSET Ids /\ B \in SUBSET Ids
    BY DEF Before
  <2>3. <<Before(S, j), B>> \in StrictSubsetOrdering(Ids)
    BY <2>1, <2>2 DEF StrictSubsetOrdering
  <2> QED
    BY <1>2, <2>2, <2>3
<1> QED
  BY <1>4 DEF Ids

\* Last is the greatest id of a set that is not empty.
LEMMA LastIsGreatest ==
    ASSUME NEW S \in SUBSET Ids, S # {}
    PROVE  Last(S) \in S /\ \A j \in S : j <= Last(S)
<1> DEFINE T == {After(S, id) : id \in S}
<1>1. T \subseteq FiniteSubsetsOf(Ids) /\ T # {}
  BY IdsAreFinite DEF FiniteSubsetsOf, After
<1>2. PICK B \in T : \A C \in T : ~ (<<C, B>> \in StrictSubsetOrdering(Ids))
  <2> HIDE DEF T
  <2> QED
    BY <1>1, FS_StrictSubsetOrderingWellFounded, WFMin
<1>3. PICK id \in S : B = After(S, id)
  OBVIOUS
<1>4. ASSUME NEW j \in S, j > id
      PROVE  FALSE
  <2>1. After(S, j) \subseteq B /\ j \in B /\ j \notin After(S, j)
    <3>1. \A i \in S : i \in Nat
      BY PaginationAssumption DEF Ids
    <3>2. \A i \in S : i > j => i > id
      BY <1>4, <3>1
    <3>3. After(S, j) \subseteq B
      BY <1>3, <3>2 DEF After
    <3>4. j \in B
      BY <1>3, <1>4 DEF After
    <3>5. ~ (j > j)
      BY <3>1
    <3> QED
      BY <3>3, <3>4, <3>5 DEF After
  <2>2. After(S, j) \in T /\ After(S, j) \in SUBSET Ids /\ B \in SUBSET Ids
    BY DEF After
  <2>3. <<After(S, j), B>> \in StrictSubsetOrdering(Ids)
    BY <2>1, <2>2 DEF StrictSubsetOrdering
  <2> QED
    BY <1>2, <2>2, <2>3
<1>5. \A j \in S : j <= id
  BY <1>4 DEF Ids
<1> QED
  BY <1>5 DEF Last

\* What lies below an id is a set of ids without it.
LEMMA BelowIsIds ==
    ASSUME NEW S \in SUBSET Ids, NEW id \in S
    PROVE  Before(S, id) \in SUBSET Ids /\ id \notin Before(S, id)
<1>1. Before(S, id) \in SUBSET Ids
  BY DEF Before
<1>2. id \in Nat
  BY PaginationAssumption DEF Ids
<1>3. id \notin Before(S, id)
  BY <1>2 DEF Before
<1> QED
  BY <1>1, <1>3

\* LIMIT keeps the lowest ids: what lies below a kept id is kept.
LEMMA LimitIsClosed ==
    ASSUME NEW S \in SUBSET Ids, NEW n \in Nat, NEW id \in Limit(S, n),
           NEW j \in S, j <= id
    PROVE  j \in Limit(S, n)
<1>1. Before(S, j) \in SUBSET Before(S, id) /\ Before(S, id) \in SUBSET Ids
  <2>1. id \in Ids /\ j \in Ids
    BY DEF Limit
  <2>2. \A i \in S : i < j => i < id
    BY <2>1, PaginationAssumption DEF Ids
  <2> QED
    BY <2>2 DEF Before
<1>2. Cardinality(Before(S, j)) <= Cardinality(Before(S, id))
  BY <1>1, IdsAreFinite, FS_Subset
<1>3. Cardinality(Before(S, j)) \in Nat /\ Cardinality(Before(S, id)) \in Nat
  BY <1>1, IdsAreFinite
<1>4. Cardinality(Before(S, id)) < n
  BY DEF Limit, Before
<1> QED
  BY <1>2, <1>3, <1>4 DEF Limit, Before

\* LIMIT n returns at most n rows.
LEMMA LimitIsBounded ==
    ASSUME NEW S \in SUBSET Ids, NEW n \in Nat
    PROVE  Cardinality(Limit(S, n)) <= n
<1>1. CASE Limit(S, n) = {}
  BY <1>1, FS_EmptySet
<1>2. CASE Limit(S, n) # {}
  <2>1. Limit(S, n) \in SUBSET Ids
    BY DEF Limit
  <2>2. PICK m \in Limit(S, n) : \A j \in Limit(S, n) : j <= m
    BY <1>2, <2>1, LastIsGreatest
  <2>3. Limit(S, n) = Before(S, m) \cup {m}
    <3>1. ASSUME NEW j \in Before(S, m)
          PROVE  j \in Limit(S, n)
      <4>1. j \in S /\ j <= m
        BY <2>1 DEF Before, Ids
      <4> QED
        BY <4>1, LimitIsClosed
    <3>2. ASSUME NEW j \in Limit(S, n), j # m
          PROVE  j \in Before(S, m)
      BY <2>1, <2>2, <3>2 DEF Before, Limit, Ids
    <3> QED
      BY <3>1, <3>2
  <2>4. Before(S, m) \in SUBSET Ids /\ m \notin Before(S, m)
    BY BelowIsIds DEF Limit
  <2>5. Cardinality(Before(S, m)) < n /\ Cardinality(Before(S, m)) \in Nat
    BY <2>4, IdsAreFinite DEF Limit, Before
  <2>6. Cardinality(Limit(S, n)) = Cardinality(Before(S, m)) + 1
    BY <2>3, <2>4, IdsAreFinite, FS_AddElement
  <2> QED
    BY <2>5, <2>6
<1> QED
  BY <1>1, <1>2

\* A result with less rows than the LIMIT is the whole table.
LEMMA ShortIsWhole ==
    ASSUME NEW S \in SUBSET Ids, NEW n \in Nat,
           Cardinality(Limit(S, n + 1)) <= n
    PROVE  Limit(S, n + 1) = S
<1> DEFINE L == Limit(S, n + 1)
<1> SUFFICES ASSUME S \ L # {}
             PROVE  FALSE
  BY DEF Limit
<1>1. L \in SUBSET Ids /\ S \ L \in SUBSET Ids
  BY DEF Limit
<1>2. PICK id \in S \ L : \A j \in S \ L : id <= j
  BY <1>1, LeastExists
<1>3. Before(S, id) \in SUBSET L
  BY <1>1, <1>2 DEF Before, Ids
<1>4. Cardinality(Before(S, id)) <= n
  <2>1. Cardinality(Before(S, id)) <= Cardinality(L)
    BY <1>1, <1>3, IdsAreFinite, FS_Subset
  <2>2. Cardinality(Before(S, id)) \in Nat /\ Cardinality(L) \in Nat
    BY <1>1, <1>3, IdsAreFinite
  <2> QED
    BY <2>1, <2>2
<1>5. ~ (Cardinality(Before(S, id)) < n + 1)
  BY <1>2 DEF Limit, Before
<1>6. Cardinality(Before(S, id)) \in Nat
  BY <1>1, <1>3, IdsAreFinite
<1> QED
  BY <1>4, <1>5, <1>6

\* A set that fits the page is the page.
LEMMA PageOfShort ==
    ASSUME NEW S \in SUBSET Ids, NEW n \in Nat, Cardinality(S) <= n
    PROVE  Limit(S, n) = S
<1> SUFFICES ASSUME NEW id \in S
             PROVE  Cardinality(Before(S, id)) < n
  BY DEF Limit, Before
<1>1. Before(S, id) \in SUBSET Ids /\ id \notin Before(S, id)
  BY BelowIsIds
<1>2. Before(S, id) \cup {id} \in SUBSET S
  BY DEF Before
<1>3. Cardinality(Before(S, id) \cup {id}) = Cardinality(Before(S, id)) + 1
  BY <1>1, IdsAreFinite, FS_AddElement
<1>4. Cardinality(Before(S, id) \cup {id}) <= Cardinality(S)
  BY <1>2, IdsAreFinite, FS_Subset
<1>5. Cardinality(Before(S, id)) \in Nat /\ Cardinality(S) \in Nat
  BY <1>1, IdsAreFinite
<1> QED
  BY <1>3, <1>4, <1>5

-----------------------------------------------------------------------------
(* The walk.                                                               *)

\* Nothing beyond the cursor has been delivered yet.
AheadIsNew == token # Done => \A id \in Ids : id > token => got[id] = 0

WalkInv == TypeOK /\ DeliveredOnce /\ NothingSkipped /\ AheadIsNew

\* What one List delivers: rows above the cursor, and every one of them up to
\* the token, if there is one, or all of them.
LEMMA PageIsComplete ==
    ASSUME NEW S \in SUBSET Ids, NEW n \in Nat \ {0}
    PROVE  LET read == Limit(S, n + 1)
               page == Limit(read, n)
               next == NextToken(read, n)
           IN \/ next = Done /\ page = S
              \/ /\ next \in page
                 /\ \A id \in page : id <= next
                 /\ \A id \in S : id <= next => id \in page
                 /\ \E id \in S : id > next
<1> DEFINE read == Limit(S, n + 1)
           page == Limit(read, n)
<1>0. n \in Nat /\ n + 1 \in Nat /\ 0 < n
  OBVIOUS
<1>1. read \in SUBSET S /\ page \in SUBSET read
  BY DEF Limit
<1>2. read \in SUBSET Ids /\ page \in SUBSET Ids
  BY <1>1
<1>3. Cardinality(read) \in Nat
  BY <1>2, IdsAreFinite
<1>4. CASE Cardinality(read) <= n
  <2>1. read = S
    BY <1>0, <1>4, ShortIsWhole
  <2>2. page = read
    BY <1>0, <1>2, <1>4, PageOfShort
  <2>3. NextToken(read, n) = Done
    BY <1>0, <1>3, <1>4 DEF NextToken
  <2> QED
    BY <2>1, <2>2, <2>3
<1>5. CASE Cardinality(read) > n
  <2>1. read \ page # {}
    <3>1. Cardinality(page) <= n /\ Cardinality(page) \in Nat
      BY <1>0, <1>2, LimitIsBounded, IdsAreFinite
    <3>2. page # read
      BY <1>0, <1>3, <1>5, <3>1
    <3> QED
      BY <1>1, <3>2
  <2>2. page # {}
    <3>1. read # {}
      BY <2>1
    <3>2. PICK low \in read : \A j \in read : low <= j
      BY <1>2, <3>1, LeastExists
    <3>3. Before(read, low) = {}
      <4>1. \A j \in read : j \in Nat /\ low \in Nat
        BY <1>2, <3>2, PaginationAssumption DEF Ids
      <4>2. \A j \in read : ~ (j < low)
        BY <3>2, <4>1
      <4> QED
        BY <4>2 DEF Before
    <3>4. low \in page
      BY <1>0, <3>2, <3>3, FS_EmptySet DEF Limit, Before
    <3> QED
      BY <3>4
  <2>3. NextToken(read, n) = Last(page)
    BY <1>5 DEF NextToken
  <2>4. Last(page) \in page /\ \A id \in page : id <= Last(page)
    BY <1>2, <2>2, LastIsGreatest
  <2>5. ASSUME NEW id \in S, id <= Last(page)
        PROVE  id \in page
    <3>1. id \in read
      BY <1>0, <1>1, <2>4, <2>5, LimitIsClosed
    <3> QED
      BY <1>0, <1>2, <2>4, <2>5, <3>1, LimitIsClosed
  <2>6. PICK extra \in read : extra \notin page
    BY <2>1
  <2>7. extra > Last(page)
    <3>1. ~ (extra <= Last(page))
      BY <1>1, <2>5, <2>6
    <3>2. extra \in Ids /\ Last(page) \in Ids
      BY <1>2, <2>4, <2>6
    <3>3. extra \in Nat /\ Last(page) \in Nat
      BY <3>2, PaginationAssumption DEF Ids
    <3> QED
      BY <3>1, <3>3
  <2> QED
    BY <1>1, <2>3, <2>4, <2>5, <2>6, <2>7
<1>6. Cardinality(read) <= n \/ Cardinality(read) > n
  BY <1>0, <1>3
<1> QED
  BY <1>4, <1>5, <1>6

\* One page keeps the invariant, and its token promises another row.
LEMMA ListKeepsWalk ==
    ASSUME WalkInv, NEW size \in Sizes, List(size)
    PROVE  WalkInv' /\ (token' \in Ids => \E id \in rows : id > token')
<1> DEFINE S == Above(rows, token)
           read == Limit(S, PageSize(size) + 1)
           page == Limit(read, PageSize(size))
<1>1. S \in SUBSET Ids /\ PageSize(size) \in Nat \ {0}
  BY PaginationAssumption DEF WalkInv, TypeOK, Above, PageSize
<1>2. /\ token \in 0 .. MaxId
      /\ rows \subseteq Ids /\ kept \subseteq rows
      /\ got \in [Ids -> 0 .. 2]
      /\ MaxId \in Nat
  BY PaginationAssumption DEF WalkInv, TypeOK, List, Ids, First, Done
<1>3. /\ token' = NextToken(read, PageSize(size))
      /\ got' = [id \in Ids |-> IF id \in page THEN Again(got[id]) ELSE got[id]]
      /\ rows' = rows /\ kept' = kept /\ code' = "OK"
  BY DEF List
<1>4. page \in SUBSET S
  BY DEF Limit
<1>5. \A id \in page : id \in Ids /\ id > token /\ got[id] = 0
  BY <1>1, <1>4 DEF WalkInv, AheadIsNew, Above, List
<1>6. \A id \in Ids : got'[id] = IF id \in page THEN 1 ELSE got[id]
  BY <1>3, <1>5 DEF Again
<1>7. \A id \in kept : id > token => id \in S
  BY <1>2 DEF Above
<1>8. \/ token' = Done /\ page = S
      \/ /\ token' \in page
         /\ \A id \in page : id <= token'
         /\ \A id \in S : id <= token' => id \in page
         /\ \E id \in S : id > token'
  BY <1>1, <1>3, PageIsComplete
<1> HIDE DEF page, read, S
<1>9. TypeOK'
  <2>1. got' \in [Ids -> 0 .. 2]
    BY <1>2, <1>3, <1>6
  <2>2. token' \in Ids \cup {First, Done}
    BY <1>5, <1>8
  <2> QED
    BY <1>2, <1>3, <2>1, <2>2 DEF TypeOK
<1>10. DeliveredOnce'
  BY <1>2, <1>6 DEF DeliveredOnce, WalkInv
<1>11. NothingSkipped'
  <2> SUFFICES ASSUME NEW id \in kept
               PROVE  got'[id] > 0 \/ (token' # Done /\ id > token')
    BY <1>3 DEF NothingSkipped
  <2>1. id \in Ids /\ id \in Nat
    BY <1>2 DEF Ids
  <2>2. CASE got[id] > 0
    BY <1>2, <1>6, <2>1, <2>2
  <2>3. CASE ~ (got[id] > 0)
    <3>1. id > token /\ id \in S
      BY <1>7, <2>3 DEF WalkInv, NothingSkipped
    <3>2. CASE id \in page
      BY <1>6, <2>1, <3>2
    <3>3. CASE id \notin page
      <4>1. token' \in page /\ ~ (id <= token')
        BY <1>8, <3>1, <3>3
      <4>2. token' \in Nat /\ token' # Done
        BY <1>2, <1>5, <4>1 DEF Ids, Done
      <4> QED
        BY <2>1, <4>1, <4>2
    <3> QED
      BY <3>2, <3>3
  <2> QED
    BY <2>2, <2>3
<1>12. AheadIsNew'
  <2> SUFFICES ASSUME token' # Done, NEW id \in Ids, id > token'
               PROVE  got'[id] = 0
    BY DEF AheadIsNew
  <2>1. token' \in page /\ token' \in Ids /\ token' > token /\ token # Done
    BY <1>5, <1>8 DEF List
  <2>2. id \notin page
    <3>1. id \in Nat /\ token' \in Nat
      BY <1>2, <2>1 DEF Ids
    <3> QED
      BY <1>8, <2>1, <3>1
  <2>3. id > token
    BY <1>2, <2>1 DEF Ids
  <2> QED
    BY <1>6, <2>1, <2>2, <2>3 DEF WalkInv, AheadIsNew
<1>13. token' \in Ids => \E id \in rows : id > token'
  BY <1>2, <1>8 DEF S, Above, Done, Ids
<1> QED
  BY <1>9, <1>10, <1>11, <1>12, <1>13 DEF WalkInv

\* Every step keeps the invariant.
LEMMA StepKeepsWalk ==
    ASSUME WalkInv, [Next]_vars
    PROVE  WalkInv'
<1> USE DEF WalkInv
<1>1. ASSUME NEW size \in Sizes, List(size)
      PROVE  WalkInv'
  BY <1>1, ListKeepsWalk
<1>2. ASSUME NEW size \in Sizes, NEW tok, ListRefused(size, tok)
      PROVE  WalkInv'
  BY <1>2 DEF ListRefused, TypeOK, DeliveredOnce, NothingSkipped, AheadIsNew
<1>3. CASE BeginWalk
  <2>1. \A id \in Ids : id > First
    BY DEF Ids, First
  <2>2. First # Done
    BY PaginationAssumption DEF First, Done
  <2> QED
    BY <1>3, <2>1, <2>2
    DEF BeginWalk, TypeOK, DeliveredOnce, NothingSkipped, AheadIsNew
<1>4. ASSUME NEW id \in Ids, Insert(id)
      PROVE  WalkInv'
  BY <1>4 DEF Insert, TypeOK, DeliveredOnce, NothingSkipped, AheadIsNew
<1>5. ASSUME NEW id \in Ids, Delete(id)
      PROVE  WalkInv'
  BY <1>5 DEF Delete, TypeOK, DeliveredOnce, NothingSkipped, AheadIsNew
<1>6. CASE UNCHANGED vars
  BY <1>6 DEF vars, TypeOK, DeliveredOnce, NothingSkipped, AheadIsNew
<1> QED
  BY <1>1, <1>2, <1>3, <1>4, <1>5, <1>6 DEF Next, NextPage

\* The invariant of a walk: the delivered rows lie below the cursor, the kept
\* rows not delivered lie above it.
THEOREM WalkInvariant == Spec => []WalkInv
<1>1. Init => WalkInv
  <2>1. \A id \in Ids : id > First
    BY DEF Ids, First
  <2>2. First # Done
    BY PaginationAssumption DEF First, Done
  <2> QED
    BY <2>1, <2>2
    DEF Init, WalkInv, TypeOK, DeliveredOnce, NothingSkipped, AheadIsNew
<1>2. WalkInv /\ [Next]_vars => WalkInv'
  BY StepKeepsWalk
<1> QED
  BY <1>1, <1>2, PTL DEF Spec

\* List never hands out a row twice in one walk.
THEOREM NoDuplicates == Spec => []DeliveredOnce
<1>1. WalkInv => DeliveredOnce
  BY DEF WalkInv
<1> QED
  BY <1>1, WalkInvariant, PTL

\* List never skips a row that was there throughout the walk.
THEOREM NoGaps == Spec => []NothingSkipped
<1>1. WalkInv => NothingSkipped
  BY DEF WalkInv
<1> QED
  BY <1>1, WalkInvariant, PTL

\* A token is only issued while a row lies beyond it.
THEOREM TokensAreHonest == Spec => TokenPromisesMore
<1>1. WalkInv /\ [Next]_vars =>
        [token' \in Ids /\ token' # token => \E id \in rows : id > token']_vars
  <2> SUFFICES ASSUME WalkInv, Next, token' \in Ids, token' # token
               PROVE  \E id \in rows : id > token'
    BY DEF vars
  <2>1. First \notin Ids
    BY DEF First, Ids
  <2>2. PICK size \in Sizes : List(size)
    BY <2>1 DEF Next, NextPage, ListRefused, BeginWalk, Insert, Delete
  <2> QED
    BY <2>2, ListKeepsWalk
<1> QED
  BY <1>1, WalkInvariant, PTL DEF Spec, TokenPromisesMore

\* Rows, cursor and what was delivered keep their types.
THEOREM TypeCorrect == Spec => []TypeOK
<1>1. WalkInv => TypeOK
  BY DEF WalkInv
<1> QED
  BY <1>1, WalkInvariant, PTL

-----------------------------------------------------------------------------
(* What makes a walk end and its pages a listing: the cursor only moves up. *)

\* A List that is answered moves the cursor up, at the last page beyond every id; nothing
\* else moves it within a walk.  MaxId + 1 steps end the walk, whatever others insert.
CursorAdvances ==
    [][/\ token # Done /\ token' # token => token' > token
       /\ NextPage => token' > token]_vars

\* Pages come in the order of the ids: no row that is handed out lies below one that was
\* handed out on an earlier page.
PagesAscend ==
    [][\A i, j \in Ids : got[i] > 0 /\ got[j] = 0 /\ got'[j] > 0 => i < j]_vars

\* A page holds at most page_size rows, and exactly that many unless it is the last.
PagesFit ==
    [][\A size \in Sizes : List(size) =>
          LET page == {id \in Ids : got'[id] # got[id]}
          IN  /\ Cardinality(page) <= PageSize(size)
              /\ token' # Done => Cardinality(page) = PageSize(size)]_vars

\* LIMIT n cuts a larger result to exactly n rows.
LEMMA LimitIsFull ==
    ASSUME NEW S \in SUBSET Ids, NEW n \in Nat \ {0}, Cardinality(S) > n
    PROVE  Cardinality(Limit(S, n)) = n
<1>1. n \in Nat /\ n - 1 \in Nat /\ (n - 1) + 1 = n
  OBVIOUS
<1>2. Limit(S, n) \in SUBSET Ids
  BY DEF Limit
<1>3. Cardinality(Limit(S, n)) \in Nat /\ Cardinality(S) \in Nat
  BY <1>2, IdsAreFinite
<1>4. Cardinality(Limit(S, n)) <= n
  BY <1>1, LimitIsBounded
<1>5. CASE Cardinality(Limit(S, n)) <= n - 1
  <2>1. Limit(S, n) = S
    BY <1>1, <1>5, ShortIsWhole
  <2> QED BY <1>1, <1>3, <1>4, <2>1
<1> QED BY <1>1, <1>3, <1>4, <1>5

\* What a List hands out: rows above the cursor, not handed out before.
LEMMA ListHandsOut ==
    ASSUME WalkInv, NEW size \in Sizes, List(size)
    PROVE  LET page == {id \in Ids : got'[id] # got[id]}
           IN  /\ \A id \in page : id > token
               /\ token' > token
               /\ Cardinality(page) <= PageSize(size)
               /\ token' # Done => Cardinality(page) = PageSize(size)
<1> DEFINE S == Above(rows, token)
           n == PageSize(size)
           read == Limit(S, n + 1)
           page == Limit(read, n)
<1>1. S \in SUBSET Ids /\ n \in Nat \ {0} /\ n + 1 \in Nat
  BY PaginationAssumption DEF WalkInv, TypeOK, Above, PageSize
<1>2. token \in 0 .. MaxId /\ MaxId \in Nat /\ got \in [Ids -> 0 .. 2]
  BY PaginationAssumption DEF WalkInv, TypeOK, List, Ids, First, Done
<1>3. /\ token' = NextToken(read, n)
      /\ got' = [id \in Ids |-> IF id \in page THEN Again(got[id]) ELSE got[id]]
  BY DEF List
<1>4. page \in SUBSET S /\ read \in SUBSET Ids /\ page \in SUBSET Ids
  BY <1>1 DEF Limit
<1>5. \A id \in page : id \in Ids /\ id > token /\ got[id] = 0
  BY <1>1, <1>4 DEF WalkInv, AheadIsNew, Above, List
<1>6. {id \in Ids : got'[id] # got[id]} = page
  BY <1>3, <1>4, <1>5 DEF Again
<1>7. token' > token
  <2>1. token' = Done \/ token' \in page
    BY <1>1, <1>3, PageIsComplete
  <2> HIDE DEF page
  <2> QED BY <1>2, <1>5, <2>1 DEF Done
<1>8. Cardinality(page) <= n
  BY <1>1, <1>4, LimitIsBounded
<1>9. ASSUME token' # Done
      PROVE  Cardinality(page) = n
  <2>1. Cardinality(read) > n
    BY <1>3, <1>9 DEF NextToken
  <2> QED BY <1>1, <1>4, <2>1, LimitIsFull
<1> HIDE DEF page
<1> QED BY <1>5, <1>6, <1>7, <1>8, <1>9

\* The cursor moves up with every page, so a walk has no more pages than there are ids.
THEOREM WalksAdvance == Spec => CursorAdvances
<1>1. WalkInv /\ [Next]_vars =>
        [/\ token # Done /\ token' # token => token' > token
         /\ NextPage => token' > token]_vars
  <2> SUFFICES ASSUME WalkInv, Next
               PROVE  /\ token # Done /\ token' # token => token' > token
                      /\ NextPage => token' > token
    OBVIOUS
  <2>1. NextPage => token' > token
    BY ListHandsOut DEF NextPage
  <2>2. ~NextPage /\ token # Done => token' = token
    BY DEF Next, ListRefused, BeginWalk, Insert, Delete
  <2> QED BY <2>1, <2>2
<1> QED BY <1>1, WalkInvariant, PTL DEF Spec, CursorAdvances

\* Pages are delivered in ascending order of ids, whatever is inserted between them.
THEOREM PagesInOrder == Spec => PagesAscend
<1>1. WalkInv /\ [Next]_vars =>
        [\A i, j \in Ids : got[i] > 0 /\ got[j] = 0 /\ got'[j] > 0 => i < j]_vars
  <2> SUFFICES ASSUME WalkInv, Next, NEW i \in Ids, NEW j \in Ids,
                      got[i] > 0, got[j] = 0, got'[j] > 0
               PROVE  i < j
    OBVIOUS
  <2>1. PICK size \in Sizes : List(size)
    BY DEF Next, NextPage, ListRefused, BeginWalk, Insert, Delete
  <2>2. j > token
    <3>1. \A id \in {k \in Ids : got'[k] # got[k]} : id > token
      BY <2>1, ListHandsOut
    <3>2. got'[j] # got[j]
      OBVIOUS
    <3> QED BY <3>1, <3>2
  <2>3. ~(i > token)
    BY <2>1 DEF WalkInv, AheadIsNew, List
  <2>4. i \in Nat /\ j \in Nat /\ token \in Nat
    BY <2>1, PaginationAssumption DEF WalkInv, TypeOK, List, Ids, First
  <2> QED BY <2>2, <2>3, <2>4
<1> QED BY <1>1, WalkInvariant, PTL DEF Spec, PagesAscend

\* No page is larger than asked for, and only the last one is smaller.
THEOREM PagesAreFull == Spec => PagesFit
<1>1. WalkInv /\ [Next]_vars =>
        [\A size \in Sizes : List(size) =>
            LET page == {id \in Ids : got'[id] # got[id]}
            IN  /\ Cardinality(page) <= PageSize(size)
                /\ token' # Done => Cardinality(page) = PageSize(size)]_vars
  BY ListHandsOut
<1> QED BY <1>1, WalkInvariant, PTL DEF Spec, PagesFit

=============================================================================
