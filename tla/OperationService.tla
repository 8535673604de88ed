-------------------------- MODULE OperationService --------------------------
(***************************************************************************)
(* OperationService.Get and Cancel (internal/handler/operation_handler.go) *)
(* over the operations table, while workers and the reconciler settle      *)
(* operations at any moment with any outcome.  What a worker computes is   *)
(* in GeoService; here it is arbitrary, and the question is what callers   *)
(* see.                                                                    *)
(***************************************************************************)
EXTENDS Operations, Integers

VARIABLES
    reply,          \* principal -> the last reply it got from the service
    acknowledged    \* history: principal -> operations whose Cancel it had acknowledged

serviceVars == <<operations, reply, acknowledged>>

\* An operation_id of a request: an operation's, or the empty string.
ASSUME EmptyIdAssumption == Unset \notin Ops
Ids == Ops \cup {Unset}

View == [done : BOOLEAN, error : ErrorCodes \cup {Unset},
         response : Answers \cup {Unset}]

NoView == [done |-> FALSE, error |-> Unset, response |-> Unset]

\* operationToProto: the oneof holds the error if there is one, otherwise the
\* response.
operationToProto(row) ==
    [done |-> row.done, error |-> row.error,
     response |-> IF row.error # Unset THEN Unset ELSE row.response]

\* `parity' tells one reply from the next when they are alike.
Reply == [call : {"none", "Get", "Cancel"}, op : Ids,
          code : {"none", "OK", "InvalidArgument", "NotFound", "FailedPrecondition",
                  "Internal"},
          view : View, parity : 0..1]

Answer(p, call, o, code, view) ==
    /\ reply' = [reply EXCEPT ![p] = [call |-> call, op |-> o, code |-> code,
                                      view |-> view,
                                      parity |-> 1 - reply[p].parity]]
    /\ acknowledged' = IF call = "Cancel" /\ code = "OK"
                       THEN [acknowledged EXCEPT ![p] = @ \cup {o}]
                       ELSE acknowledged

\* mapOpErr: ErrNotFound is NotFound, whether the row is missing or someone else's;
\* any other error of the store is INTERNAL.
NotFound(p, call, o) == Answer(p, call, o, "NotFound", NoView)
StoreFailed(p, call, o) == Answer(p, call, o, "Internal", NoView)

EmptyId(p, call, id) == id = Unset /\ Answer(p, call, id, "InvalidArgument", NoView)

Get(p, id) ==
    /\ \/ EmptyId(p, "Get", id)
       \/ /\ id \in Ops
          /\ \/ /\ ownerMatches(id, p)
                /\ Answer(p, "Get", id, "OK", operationToProto(operations[id]))
             \/ ~ownerMatches(id, p) /\ NotFound(p, "Get", id)
             \/ StoreFailed(p, "Get", id)
    /\ UNCHANGED operations

\* Mutant: CancelOwned without its branch for a row already cancelled.
NeverAlreadyCancelled(o, p) == FALSE

\* The row CancelOwned finds already cancelled, which it returns as it is.
AlreadyCancelled(o, p) ==
    ownerMatches(o, p) /\ Settled(o) /\ operations[o].error = "Canceled"

\* Mutant: telling a stranger that the operation is completed.
CancelRefusedLeaking(p, o) ==
    \/ ~Exists(o) /\ NotFound(p, "Cancel", o)
    \/ /\ Exists(o) /\ ~Cancellable(o, p) /\ ~AlreadyCancelled(o, p)
       /\ Answer(p, "Cancel", o, "FailedPrecondition", NoView)

CancelRefused(p, o) ==
    \/ ~ownerMatches(o, p) /\ NotFound(p, "Cancel", o)
    \/ /\ ownerMatches(o, p) /\ Settled(o) /\ ~AlreadyCancelled(o, p)
       /\ Answer(p, "Cancel", o, "FailedPrecondition", NoView)

\* CancelOwned is one UPDATE: when the store fails it may have been applied.
CancelFailed(p, o) ==
    /\ StoreFailed(p, "Cancel", o)
    /\ CancelRow(o, p) \/ UNCHANGED operations

Cancel(p, id) ==
    \/ EmptyId(p, "Cancel", id) /\ UNCHANGED operations
    \/ /\ id \in Ops
       /\ \/ /\ CancelRow(id, p)
             /\ Answer(p, "Cancel", id, "OK", operationToProto(operations'[id]))
          \/ /\ AlreadyCancelled(id, p)
             /\ Answer(p, "Cancel", id, "OK", operationToProto(operations[id]))
             /\ UNCHANGED operations
          \/ CancelRefused(p, id) /\ UNCHANGED operations
          \/ CancelFailed(p, id)

\* A mutation RPC stores the row; the reply of that RPC is not a Get.
Accept(o, p) ==
    (\E m \in Metadata : CreateOp(o, p, m)) /\ UNCHANGED <<reply, acknowledged>>

\* A worker or the reconciler settles an operation.
Finish(o) ==
    /\ \/ \E a \in Answers : Settle(o, Unset, a)
       \/ \E e \in ErrorCodes : Settle(o, e, Unset)
    /\ UNCHANGED <<reply, acknowledged>>

NoReply == [call |-> "none", op |-> Unset, code |-> "none", view |-> NoView,
            parity |-> 0]

ServiceInit ==
    /\ OperationsInit
    /\ reply = [p \in Principals |-> NoReply]
    /\ acknowledged = [p \in Principals |-> {}]

ServiceNext ==
    \/ \E o \in Ops : Finish(o) \/ \E p \in Principals : Accept(o, p)
    \/ \E p \in Principals, id \in Ids : Get(p, id) \/ Cancel(p, id)

ServiceSpec == ServiceInit /\ [][ServiceNext]_serviceVars

-----------------------------------------------------------------------------
(* Properties.                                                             *)

ServiceTypeOK ==
    /\ OperationsTypeOK
    /\ reply \in [Principals -> Reply]
    /\ acknowledged \in [Principals -> SUBSET Ops]

\* Get and Cancel are no oracle: about an operation that is not the caller's, whatever
\* its state was, they say what they say about an id that was never given out, NotFound
\* or (the store failing) INTERNAL, with nothing of the row.
StrangersLearnNothing ==
    \A p \in Principals :
        LET r == reply[p] IN
        r.op \in Ops /\ ~ownerMatches(r.op, p) =>
            r.code \in {"NotFound", "Internal"} /\ r.view = NoView

\* What a caller was told about a finished operation stays true: a later Get
\* gives the same answer, and an acknowledged Cancel never turns into success.
ToldStaysTrue ==
    \A p \in Principals :
        LET r == reply[p] IN
        r.code = "OK" /\ r.view.done => operationToProto(operations[r.op]) = r.view

CancelAnswered(p, o) ==
    reply'[p] # reply[p] /\ reply'[p].call = "Cancel" /\ reply'[p].op = o

\* Unless the store fails, an owner's Cancel is refused with FailedPrecondition when,
\* and only when, the operation had already ended otherwise than cancelled, and is
\* acknowledged when, and only when, it leaves the operation cancelled.
RefusedWhenFinished ==
    [][\A p \in Principals, o \in Ops :
          CancelAnswered(p, o) /\ ownerMatches(o, p) /\ reply'[p].code # "Internal" =>
              /\ reply'[p].code = "FailedPrecondition"
                    <=> Settled(o) /\ operations[o].error # "Canceled"
              /\ reply'[p].code = "OK" <=> operations'[o].error = "Canceled"]_serviceVars

\* Knowing the id of somebody else's operation is no way to stop it: a step that answers
\* p, be the answer INTERNAL, changes no row but p's own.
CallsTouchOwnRows ==
    [][\A p \in Principals : reply'[p] # reply[p] =>
          \A o \in Ops : operations'[o] # operations[o] =>
              Exists(o) /\ operations[o].owner = p]_serviceVars

\* docs-site/docs/api/operations.mdx: a repeated Cancel of a done operation gives
\* FAILED_PRECONDITION.  False of one whose first Cancel was acknowledged: it is
\* returned again.
RepeatedCancelRefused ==
    [][\A p \in Principals, o \in Ops :
          CancelAnswered(p, o) /\ o \in acknowledged[p] /\ reply'[p].code # "Internal" =>
              reply'[p].code = "FailedPrecondition"]_serviceVars
=============================================================================
