------------------------------ MODULE Pagination ------------------------------
(***************************************************************************)
(* List of regions or zones, page by page, while other sessions write.     *)
(* The server keeps nothing between two pages: the page token is the last  *)
(* id delivered, and a page is one SELECT of the rows above it, in id      *)
(* order, of one row more than the page holds.                             *)
(*                                                                         *)
(* An id stands for its rank in the order of the id column; the base64 of  *)
(* a token is abstracted, the token is the id in it.  Region and Zone List *)
(* are the same code over two tables, so one table is modelled.            *)
(*                                                                         *)
(* The client walks: it asks for the first page, hands every token back,   *)
(* with any page size each time, and stops at a page without token.        *)
(***************************************************************************)
EXTENDS Naturals, FiniteSets

CONSTANTS
    MaxId,          \* ids are 1 .. MaxId
    MaxSize,        \* the largest page_size accepted
    DefaultSize,    \* what page_size 0 stands for
    Sizes           \* page sizes clients ask for

ASSUME PaginationAssumption ==
    /\ MaxId \in Nat /\ MaxSize \in Nat
    /\ DefaultSize \in 1 .. MaxSize
    /\ Sizes \subseteq Nat

Ids == 1 .. MaxId
First == 0          \* no token yet: below every id
Done == MaxId + 1   \* the last page had no token
Garbage == MaxId + 2

VARIABLES
    rows,       \* ids of the committed rows
    token,      \* the client's next page_token: First, an id, or Done
    got,        \* id -> how often the walk has delivered it (2: or more)
    kept,       \* ids whose row has been there ever since the walk began
    code        \* code of the last reply

vars == <<rows, token, got, kept, code>>

-----------------------------------------------------------------------------
(* The SELECT and the cut of its result.                                   *)

\* ORDER BY id ASC LIMIT n
Limit(S, n) == {id \in S : Cardinality({j \in S : j < id}) < n}

Last(S) == CHOOSE id \in S : \A j \in S : j <= id

\* Mutant: the cursor row is read again.
FromCursor(S, cursor) == {id \in S : id >= cursor}

\* WHERE id > cursor
Above(S, cursor) == {id \in S : id > cursor}

\* Mutant: the token names the extra row, which is not in the page.
TokenOfExtraRow(read, size) ==
    IF Cardinality(read) > size THEN Last(read) ELSE Done

\* Mutant: a full page always carries a token.
TokenOfFullPage(read, size) ==
    IF Cardinality(read) >= size THEN Last(Limit(read, size)) ELSE Done

\* Mutant: the first page is handed out again.
TokenFirst(read, size) ==
    IF Cardinality(read) > size THEN First ELSE Done

\* len(out) > pageSize: the token is the id of out[pageSize-1].
NextToken(read, size) ==
    IF Cardinality(read) > size THEN Last(Limit(read, size)) ELSE Done

\* validate.PageSize
PageSize(size) == IF size = 0 THEN DefaultSize ELSE size
Valid(size) == size <= MaxSize

-----------------------------------------------------------------------------
(* Requests.                                                               *)

\* Counting stops at 2, once too often.
Again(times) == IF times = 0 THEN 1 ELSE 2

List(size) ==
    /\ token # Done
    /\ Valid(size)
    /\ LET n == PageSize(size)
           read == Limit(Above(rows, token), n + 1)
           page == Limit(read, n)
       IN /\ token' = NextToken(read, n)
          /\ got' = [id \in Ids |-> IF id \in page THEN Again(got[id]) ELSE got[id]]
    /\ code' = "OK"
    /\ UNCHANGED <<rows, kept>>

\* Garbage tokens and page sizes out of range are refused, and the client's
\* walk goes on from where it was.
ListRefused(size, tok) ==
    /\ ~Valid(size) \/ tok = Garbage
    /\ code' = "InvalidArgument"
    /\ UNCHANGED <<rows, token, got, kept>>

BeginWalk ==
    /\ token = Done
    /\ token' = First
    /\ got' = [id \in Ids |-> 0]
    /\ kept' = rows
    /\ UNCHANGED <<rows, code>>

\* Committed writes of other sessions.
Insert(id) ==
    /\ id \notin rows
    /\ rows' = rows \cup {id}
    /\ UNCHANGED <<token, got, kept, code>>

Delete(id) ==
    /\ id \in rows
    /\ rows' = rows \ {id}
    /\ kept' = kept \ {id}
    /\ UNCHANGED <<token, got, code>>

Init ==
    /\ rows \in SUBSET Ids
    /\ token = First
    /\ got = [id \in Ids |-> 0]
    /\ kept = rows
    /\ code = "OK"

NextPage == \E size \in Sizes : List(size)

Next ==
    \/ NextPage
    \/ \E size \in Sizes, tok \in {token, Garbage} : ListRefused(size, tok)
    \/ BeginWalk
    \/ \E id \in Ids : Insert(id) \/ Delete(id)

\* The client keeps asking for the next page; writers may do as they like.
Spec == Init /\ [][Next]_vars /\ WF_vars(NextPage)

-----------------------------------------------------------------------------
(* Properties.                                                             *)

TypeOK ==
    /\ rows \in SUBSET Ids
    /\ token \in Ids \cup {First, Done}
    /\ got \in [Ids -> 0 .. 2]
    /\ kept \in SUBSET rows
    /\ code \in {"OK", "InvalidArgument"}

\* A walk delivers no row twice, whatever is written between its pages and
\* whatever page sizes it asks for (the strict comparison with the cursor in
\* RegionRepo.List and ZoneRepo.List).
DeliveredOnce == \A id \in Ids : got[id] <= 1

\* A row that has been there since the walk began has been delivered or still
\* lies ahead of the cursor; at the end of the walk none is missing.
NothingSkipped ==
    \A id \in kept : got[id] > 0 \/ (token # Done /\ id > token)

\* A token promises another page: when it is issued a row lies beyond it, so an
\* exactly full last page ends the walk instead of sending the client round
\* for an empty one.
TokenPromisesMore ==
    [][token' \in Ids /\ token' # token => \E id \in rows : id > token']_vars

\* A walk ends although others keep inserting and deleting rows.
WalkEnds == []<>(token = Done)
=============================================================================
