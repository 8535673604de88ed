----------------------------- MODULE Operations -----------------------------
(***************************************************************************)
(* The table `operations' and the statements the service runs on it: the   *)
(* LRO repository of kacho-corelib behind operations.Repo and              *)
(* operations.OwnedOperationRepo, as src/ uses it.  Every statement is one *)
(* atomic step.  A terminal write (MarkDone, MarkError, CancelOwned) is a  *)
(* compare-and-set on `done': it changes a row only while done is false.   *)
(*                                                                         *)
(* Abstracted: description, timestamps, account_id, the error's message;   *)
(* a principal is one value standing for (principal_type, principal_id).   *)
(***************************************************************************)
CONSTANTS
    Ops,            \* operation ids
    Principals,     \* trusted callers
    Metadata,       \* what an operation was asked to do
    Answers,        \* payloads of Operation.response
    Absent,         \* no row
    Unset           \* an empty column

VARIABLE operations     \* id -> row or Absent

ErrorCodes == {"Canceled", "AlreadyExists", "NotFound", "FailedPrecondition",
               "Internal", "Interrupted"}

OperationRow == [owner : Principals, metadata : Metadata, done : BOOLEAN,
                 error : ErrorCodes \cup {Unset},
                 response : Answers \cup {Unset}]

ASSUME OperationsAssumption ==
    /\ Absent \notin OperationRow
    /\ Unset \notin ErrorCodes \cup Answers

Exists(o) == operations[o] # Absent
Running(o) == Exists(o) /\ ~operations[o].done
Settled(o) == Exists(o) /\ operations[o].done
Succeeded(o) == Settled(o) /\ operations[o].response # Unset

ownerMatches(o, p) == Exists(o) /\ operations[o].owner = p

-----------------------------------------------------------------------------
(* Statements.                                                             *)

\* INSERT of a fresh id, done = false, the caller recorded as its owner.
CreateOp(o, p, m) ==
    /\ ~Exists(o)
    /\ operations' = [operations EXCEPT
          ![o] = [owner |-> p, metadata |-> m, done |-> FALSE,
                  error |-> Unset, response |-> Unset]]

\* Mutant: MarkDone and MarkError without the compare on `done'.
SettleAnyway(o, error, response) ==
    IF Exists(o)
    THEN operations' = [operations EXCEPT
            ![o].done = TRUE,
            ![o].error = IF error = Unset THEN @ ELSE error,
            ![o].response = IF response = Unset THEN @ ELSE response]
    ELSE UNCHANGED operations

\* MarkDone(o, response) = Settle(o, Unset, response);
\* MarkError(o, error) = Settle(o, error, Unset).  Losing the race changes
\* nothing: the caller gets ErrAlreadyDone.
Settle(o, error, response) ==
    IF Running(o)
    THEN operations' = [operations EXCEPT ![o].done = TRUE, ![o].error = error,
                                          ![o].response = response]
    ELSE UNCHANGED operations

\* Mutant: the UPDATE of CancelOwned without its owner predicate.
CancellableByAnyone(o, p) == Running(o)

\* The UPDATE of CancelOwned matches: the row is the caller's and not done.
Cancellable(o, p) == ownerMatches(o, p) /\ Running(o)

CancelRow(o, p) ==
    /\ Cancellable(o, p)
    /\ operations' = [operations EXCEPT ![o].done = TRUE, ![o].error = "Canceled"]

OperationsInit == operations = [o \in Ops |-> Absent]

\* The table as its users leave it: accepted, settled with one outcome, cancelled by
\* its owner, each at any moment and in any order.
TableNext ==
    \E o \in Ops :
        \/ \E p \in Principals : CancelRow(o, p) \/ \E m \in Metadata : CreateOp(o, p, m)
        \/ \E answer \in Answers : Settle(o, Unset, answer)
        \/ \E error \in ErrorCodes : Settle(o, error, Unset)

TableSpec == OperationsInit /\ [][TableNext]_operations

-----------------------------------------------------------------------------
(* Properties of the table, whoever runs the statements.                   *)

OperationsTypeOK == operations \in [Ops -> OperationRow \cup {Absent}]

\* Operation.result is a oneof: nothing before done, and exactly one of error
\* and response after it, whatever raced to settle the operation.
ExactlyOneResult ==
    \A o \in Ops : Exists(o) =>
        LET row == operations[o] IN
        IF row.done THEN (row.error = Unset) # (row.response = Unset)
                    ELSE row.error = Unset /\ row.response = Unset

\* A settled row never changes again, and no row is ever deleted or handed to
\* another owner.
SettledForever ==
    [][\A o \in Ops :
          /\ Exists(o) => operations'[o] # Absent
          /\ Settled(o) => operations'[o] = operations[o]
          /\ Exists(o) => /\ operations'[o].owner = operations[o].owner
                          /\ operations'[o].metadata = operations[o].metadata]_operations
=============================================================================
