------------------------ MODULE OperationServiceProofs ------------------------
(***************************************************************************)
(* What callers of OperationService are told is theirs to know and stays   *)
(* true, for every set of operations, callers, requests and answers.       *)
(***************************************************************************)
EXTENDS OperationService, TLAPS

\* Nothing is acknowledged about the empty id.
OkNamesAnOperation == \A p \in Principals : reply[p].code = "OK" => reply[p].op \in Ops

\* The invariant is the conjunction of the module's own: what was told about a
\* row relies on the row having one result, and on its owner.
ServiceInv ==
    /\ ServiceTypeOK
    /\ ExactlyOneResult
    /\ OkNamesAnOperation
    /\ StrangersLearnNothing
    /\ ToldStaysTrue

\* What one step may do to one row: create it, settle it, or nothing.
Evolves(o) ==
    \/ operations'[o] = operations[o]
    \/ ~Exists(o) /\ operations'[o] \in OperationRow
       /\ ~operations'[o].done
       /\ operations'[o].error = Unset /\ operations'[o].response = Unset
    \/ /\ Running(o)
       /\ operations'[o] \in OperationRow
       /\ operations'[o].done
       /\ operations'[o].owner = operations[o].owner
       /\ operations'[o].metadata = operations[o].metadata
       /\ (operations'[o].error = Unset) # (operations'[o].response = Unset)

\* A row that is there has the fields of a row.
LEMMA RowsHaveFields ==
    ASSUME OperationsTypeOK, NEW o \in Ops, Exists(o)
    PROVE  operations[o] \in OperationRow
BY DEF OperationsTypeOK, Exists

\* INSERT of an operation.
LEMMA CreateEvolves ==
    ASSUME OperationsTypeOK, NEW o \in Ops, NEW p \in Principals, NEW m \in Metadata,
           CreateOp(o, p, m)
    PROVE  \A q \in Ops : Evolves(q)
<1>1. [owner |-> p, metadata |-> m, done |-> FALSE, error |-> Unset,
       response |-> Unset] \in OperationRow
  BY DEF OperationRow
<1> QED
  BY <1>1 DEF CreateOp, Evolves, OperationsTypeOK

\* MarkDone and MarkError.
LEMMA SettleEvolves ==
    ASSUME OperationsTypeOK, ExactlyOneResult, NEW o \in Ops,
           NEW e \in ErrorCodes \cup {Unset}, NEW a \in Answers \cup {Unset},
           (e = Unset) # (a = Unset), Settle(o, e, a)
    PROVE  \A q \in Ops : Evolves(q)
<1>1. CASE Running(o)
  <2>1. operations[o] \in OperationRow
    BY <1>1, RowsHaveFields DEF Running
  <2> DEFINE row == [operations[o] EXCEPT !.done = TRUE, !.error = e, !.response = a]
  <2>2. /\ row \in OperationRow
        /\ row.done /\ row.error = e /\ row.response = a
        /\ row.owner = operations[o].owner /\ row.metadata = operations[o].metadata
    BY <2>1 DEF OperationRow
  <2>3. operations' = [operations EXCEPT ![o] = row]
    BY <1>1 DEF Settle
  <2> HIDE DEF row
  <2> QED
    BY <1>1, <2>2, <2>3 DEF Evolves, OperationsTypeOK
<1>2. CASE ~Running(o)
  BY <1>2 DEF Settle, Evolves
<1> QED
  BY <1>1, <1>2

\* CancelOwned: a running row has no result yet, so the error is its only one.
LEMMA CancelEvolves ==
    ASSUME OperationsTypeOK, ExactlyOneResult, NEW o \in Ops, NEW p \in Principals,
           CancelRow(o, p)
    PROVE  \A q \in Ops : Evolves(q)
<1>1. Running(o) /\ operations[o] \in OperationRow
  BY RowsHaveFields DEF CancelRow, Cancellable, Running
<1>2. operations[o].error = Unset /\ operations[o].response = Unset
  BY <1>1 DEF ExactlyOneResult, Running
<1>3. "Canceled" \in ErrorCodes /\ "Canceled" # Unset
  BY OperationsAssumption DEF ErrorCodes
<1> DEFINE row == [operations[o] EXCEPT !.done = TRUE, !.error = "Canceled"]
<1>4. /\ row \in OperationRow
      /\ row.done /\ row.error = "Canceled" /\ row.response = Unset
      /\ row.owner = operations[o].owner /\ row.metadata = operations[o].metadata
  BY <1>1, <1>2, <1>3 DEF OperationRow
<1>5. operations' = [operations EXCEPT ![o] = row]
  BY DEF CancelRow
<1> HIDE DEF row
<1> QED
  BY <1>1, <1>3, <1>4, <1>5 DEF Evolves, OperationsTypeOK

\* However a row evolves, the table keeps its type and its rows their one result;
\* settled rows and the owners of rows stay.
LEMMA EvolvingIsSound ==
    ASSUME OperationsTypeOK, ExactlyOneResult, \A o \in Ops : Evolves(o),
           operations' = [o \in Ops |-> operations'[o]]
    PROVE  /\ OperationsTypeOK' /\ ExactlyOneResult'
           /\ \A o \in Ops :
                /\ Exists(o) => /\ Exists(o)'
                                /\ operations'[o].owner = operations[o].owner
                                /\ operations'[o].metadata = operations[o].metadata
                /\ Settled(o) => operations'[o] = operations[o]
<1>1. \A o \in Ops : operations'[o] \in OperationRow \cup {Absent}
  BY DEF Evolves, OperationsTypeOK
<1>2. \A o \in Ops : Exists(o) => Exists(o)'
  BY OperationsAssumption DEF Evolves, Exists, Running
<1>3. ExactlyOneResult'
  BY <1>1, OperationsAssumption DEF Evolves, ExactlyOneResult, Exists, Running
<1>4. \A o \in Ops : Settled(o) => operations'[o] = operations[o]
  BY DEF Evolves, Settled, Running, Exists
<1>5. \A o \in Ops : Exists(o) => /\ operations'[o].owner = operations[o].owner
                                  /\ operations'[o].metadata = operations[o].metadata
  BY DEF Evolves, Exists
<1> QED
  BY <1>1, <1>2, <1>3, <1>4, <1>5 DEF OperationsTypeOK

-----------------------------------------------------------------------------
(* Steps of the service.                                                   *)

\* What must be true of the table for a reply r to p to be honest: the properties
\* about replies, for one of them.
Honest(p, r) ==
    /\ r.code = "OK" => r.op \in Ops
    /\ r.op \in Ops /\ ~ownerMatches(r.op, p) =>
           r.code \in {"NotFound", "Internal"} /\ r.view = NoView
    /\ r.code = "OK" /\ r.view.done => operationToProto(operations[r.op]) = r.view

\* The invariant, caller by caller.
LEMMA HonestReplies ==
    (\A p \in Principals : Honest(p, reply[p]))
        <=> OkNamesAnOperation /\ StrangersLearnNothing /\ ToldStaysTrue
BY DEF Honest, OkNamesAnOperation, StrangersLearnNothing, ToldStaysTrue

\* A reply stays honest whatever happens to the table.
LEMMA HonestStaysHonest ==
    ASSUME OperationsTypeOK, ExactlyOneResult, \A o \in Ops : Evolves(o),
           operations' = [o \in Ops |-> operations'[o]],
           NEW p \in Principals, NEW r \in Reply, Honest(p, r)
    PROVE  Honest(p, r)'
<1>1. \A o \in Ops : /\ Exists(o) => Exists(o)' /\ operations'[o].owner = operations[o].owner
                     /\ Settled(o) => operations'[o] = operations[o]
  BY EvolvingIsSound
<1>2. \A o \in Ops : ownerMatches(o, p) => ownerMatches(o, p)'
  BY <1>1 DEF ownerMatches, Exists
<1>3. ASSUME r.code = "OK", r.view.done
      PROVE  operations'[r.op] = operations[r.op]
  <2>1. r.op \in Ops /\ ownerMatches(r.op, p)
    BY <1>3 DEF Honest
  <2>2. operationToProto(operations[r.op]) = r.view
    BY <1>3 DEF Honest
  <2>3. operations[r.op].done
    BY <1>3, <2>2 DEF operationToProto
  <2> QED
    BY <1>1, <2>1, <2>3 DEF Settled, ownerMatches
<1>4. r.code = "OK" => r.op \in Ops
  BY DEF Honest
<1>5. r.op \in Ops /\ ~ownerMatches(r.op, p)' =>
          r.code \in {"NotFound", "Internal"} /\ r.view = NoView
  BY <1>2 DEF Honest
<1>6. r.code = "OK" /\ r.view.done => operationToProto(operations'[r.op]) = r.view
  BY <1>3 DEF Honest
<1> QED
  BY <1>4, <1>5, <1>6 DEF Honest, ownerMatches, Exists, operationToProto, NoView

\* The answers of Get and Cancel are honest when given.
LEMMA AnswersAreHonest ==
    ASSUME ServiceTypeOK, ExactlyOneResult,
           NEW id \in Ids, NEW p \in Principals, Get(p, id) \/ Cancel(p, id)
    PROVE  /\ \E r \in Reply : Honest(p, r)' /\ reply' = [reply EXCEPT ![p] = r]
           /\ acknowledged' \in [Principals -> SUBSET Ops]
<1> USE DEF ServiceTypeOK
<1>1. /\ NoView \in View
      /\ \A row \in OperationRow : operationToProto(row) \in View
  BY DEF NoView, View, operationToProto, OperationRow
<1> DEFINE Good == /\ \E r \in Reply : Honest(p, r)' /\ reply' = [reply EXCEPT ![p] = r]
                   /\ acknowledged' \in [Principals -> SUBSET Ops]
<1>2. ASSUME NEW call \in {"Get", "Cancel"},
             NEW code \in {"OK", "InvalidArgument", "NotFound", "FailedPrecondition",
                           "Internal"},
             NEW view \in View,
             Answer(p, call, id, code, view),
             code = "OK" => id \in Ops /\ operationToProto(operations'[id]) = view,
             id \in Ops => \/ code \in {"NotFound", "Internal"} /\ view = NoView
                           \/ Exists(id)' /\ operations'[id].owner = p
      PROVE  Good
  <2>1. PICK r \in Reply : r = [call |-> call, op |-> id, code |-> code, view |-> view,
                                parity |-> 1 - reply[p].parity]
    <3>1. 1 - reply[p].parity \in 0..1
      BY DEF Reply
    <3> QED
      BY <3>1 DEF Reply
  <2>2. r.op = id /\ r.code = code /\ r.view = view
    BY <2>1
  <2>3. /\ reply' = [reply EXCEPT ![p] = r]
        /\ acknowledged' \in [Principals -> SUBSET Ops]
    <3>1. reply' = [reply EXCEPT ![p] = r]
      BY <1>2, <2>1 DEF Answer
    <3>2. CASE call = "Cancel" /\ code = "OK"
      BY <1>2, <3>1, <3>2 DEF Answer, Ids
    <3>3. CASE ~(call = "Cancel" /\ code = "OK")
      BY <1>2, <3>1, <3>3 DEF Answer
    <3> QED
      BY <3>1, <3>2, <3>3
  <2>4. r.code = "OK" => r.op \in Ops /\ operationToProto(operations'[r.op]) = r.view
    BY <1>2, <2>2
  <2>5. r.op \in Ops => \/ r.code \in {"NotFound", "Internal"} /\ r.view = NoView
                        \/ Exists(r.op)' /\ operations'[r.op].owner = p
    BY <1>2, <2>2
  <2>6. Honest(p, r)'
    BY <2>4, <2>5 DEF Honest, NoView, operationToProto, ownerMatches, Exists
  <2> QED
    BY <2>3, <2>6
<1>3. ASSUME NEW call \in {"Get", "Cancel"}, EmptyId(p, call, id)
      PROVE  Good
  BY <1>1, <1>2, <1>3, EmptyIdAssumption DEF EmptyId
<1>4. ASSUME NEW call \in {"Get", "Cancel"}, NotFound(p, call, id) \/ StoreFailed(p, call, id)
      PROVE  Good
  BY <1>1, <1>2, <1>4 DEF NotFound, StoreFailed
<1>5. CASE /\ id \in Ops /\ ownerMatches(id, p) /\ UNCHANGED operations
           /\ Answer(p, "Get", id, "OK", operationToProto(operations[id]))
  BY <1>1, <1>2, <1>5, RowsHaveFields DEF ownerMatches, Exists
<1>6. CASE /\ id \in Ops /\ CancelRow(id, p)
           /\ Answer(p, "Cancel", id, "OK", operationToProto(operations'[id]))
  <2>1. Exists(id) /\ operations[id].owner = p
    BY <1>6 DEF CancelRow, Cancellable, ownerMatches
  <2>2. Exists(id)' /\ operations'[id].owner = p /\ operations'[id] \in OperationRow
    <3>1. \A q \in Ops : Evolves(q)
      BY <1>6, CancelEvolves
    <3>2. operations' = [q \in Ops |-> operations'[q]]
      BY <1>6 DEF CancelRow, OperationsTypeOK
    <3>3. OperationsTypeOK' /\ Exists(id)' /\ operations'[id].owner = p
      BY <1>6, <2>1, <3>1, <3>2, EvolvingIsSound
    <3> QED
      BY <1>6, <3>3 DEF OperationsTypeOK, Exists
  <2> QED
    BY <1>1, <1>2, <1>6, <2>2
<1>7. CASE /\ id \in Ops /\ AlreadyCancelled(id, p) /\ UNCHANGED operations
           /\ Answer(p, "Cancel", id, "OK", operationToProto(operations[id]))
  <2>1. Exists(id) /\ operations[id].owner = p /\ operations[id] \in OperationRow
    BY <1>7, RowsHaveFields DEF AlreadyCancelled, ownerMatches
  <2> QED
    BY <1>1, <1>2, <1>7, <2>1 DEF Exists
<1>8. CASE /\ id \in Ops /\ ownerMatches(id, p) /\ UNCHANGED operations
           /\ Answer(p, "Cancel", id, "FailedPrecondition", NoView)
  <2>1. Exists(id)' /\ operations'[id].owner = p
    BY <1>8 DEF ownerMatches, Exists
  <2> QED
    BY <1>1, <1>2, <1>8, <2>1
<1>9. CASE Get(p, id)
  BY <1>3, <1>4, <1>5, <1>9 DEF Get
<1>10. CASE Cancel(p, id)
  BY <1>3, <1>4, <1>6, <1>7, <1>8, <1>10 DEF Cancel, CancelRefused, CancelFailed
<1> QED
  BY <1>9, <1>10

\* Every step of the service lets every row evolve.
LEMMA StepEvolves ==
    ASSUME ServiceInv, [ServiceNext]_serviceVars
    PROVE  /\ \A q \in Ops : Evolves(q)
           /\ operations' = [q \in Ops |-> operations'[q]]
<1> USE DEF ServiceInv, ServiceTypeOK
<1>1. ASSUME UNCHANGED operations
      PROVE  /\ \A q \in Ops : Evolves(q)
             /\ operations' = [q \in Ops |-> operations'[q]]
  BY <1>1 DEF Evolves, OperationsTypeOK
<1>2. ASSUME NEW o \in Ops, Finish(o)
      PROVE  /\ \A q \in Ops : Evolves(q)
             /\ operations' = [q \in Ops |-> operations'[q]]
  <2>1. PICK e \in ErrorCodes \cup {Unset}, a \in Answers \cup {Unset} :
          (e = Unset) # (a = Unset) /\ Settle(o, e, a)
    BY <1>2, OperationsAssumption DEF Finish
  <2>2. operations' = [q \in Ops |-> operations'[q]]
    BY <2>1 DEF Settle, OperationsTypeOK
  <2> QED
    BY <2>1, <2>2, SettleEvolves
<1>3. ASSUME NEW o \in Ops, NEW p \in Principals, Accept(o, p)
      PROVE  /\ \A q \in Ops : Evolves(q)
             /\ operations' = [q \in Ops |-> operations'[q]]
  BY <1>3, CreateEvolves DEF Accept, CreateOp, OperationsTypeOK
<1>4. ASSUME NEW id \in Ids, NEW p \in Principals, Cancel(p, id)
      PROVE  /\ \A q \in Ops : Evolves(q)
             /\ operations' = [q \in Ops |-> operations'[q]]
  <2>1. CASE id \in Ops /\ CancelRow(id, p)
    BY <2>1, CancelEvolves DEF CancelRow, OperationsTypeOK
  <2> QED
    BY <1>1, <1>4, <2>1 DEF Cancel, CancelFailed
<1>5. ASSUME NEW id \in Ids, NEW p \in Principals, Get(p, id)
      PROVE  UNCHANGED operations
  BY <1>5 DEF Get
<1> QED
  BY <1>1, <1>2, <1>3, <1>4, <1>5 DEF ServiceNext, serviceVars

\* One step keeps the invariant.
LEMMA ServiceStep == ServiceInv /\ [ServiceNext]_serviceVars => ServiceInv'
<1> SUFFICES ASSUME ServiceInv, [ServiceNext]_serviceVars
             PROVE  ServiceInv'
  OBVIOUS
<1>1. /\ \A q \in Ops : Evolves(q)
      /\ operations' = [q \in Ops |-> operations'[q]]
  BY StepEvolves
<1>2. /\ OperationsTypeOK /\ ExactlyOneResult /\ reply \in [Principals -> Reply]
      /\ acknowledged \in [Principals -> SUBSET Ops]
  BY DEF ServiceInv, ServiceTypeOK
<1>3. OperationsTypeOK' /\ ExactlyOneResult'
  BY <1>1, <1>2, EvolvingIsSound
<1>4. \A p \in Principals : Honest(p, reply[p])
  BY HonestReplies DEF ServiceInv
<1>5. \A p \in Principals, r \in Reply : Honest(p, r) => Honest(p, r)'
  BY <1>1, <1>2, HonestStaysHonest
<1>6. CASE UNCHANGED <<reply, acknowledged>>
  <2>1. \A p \in Principals : \E r \in Reply : r = reply[p] /\ r = reply'[p] /\ Honest(p, r)'
    BY <1>2, <1>4, <1>5, <1>6
  <2>2. \A p \in Principals : Honest(p, reply[p])'
    BY <2>1 DEF Honest
  <2>3. (OkNamesAnOperation /\ StrangersLearnNothing /\ ToldStaysTrue)'
    BY <2>2 DEF Honest, OkNamesAnOperation, StrangersLearnNothing, ToldStaysTrue, ownerMatches, Exists,
           operationToProto, NoView
  <2> QED
    BY <1>2, <1>3, <1>6, <2>3 DEF ServiceInv, ServiceTypeOK
<1>7. ASSUME NEW id \in Ids, NEW q \in Principals, Get(q, id) \/ Cancel(q, id)
      PROVE  ServiceInv'
  <2>0. acknowledged' \in [Principals -> SUBSET Ops]
    BY <1>2, <1>7, AnswersAreHonest DEF ServiceTypeOK
  <2>1. PICK new \in Reply : Honest(q, new)' /\ reply' = [reply EXCEPT ![q] = new]
    BY <1>2, <1>7, AnswersAreHonest DEF ServiceTypeOK
  <2>2. reply' \in [Principals -> Reply]
    BY <1>2, <2>1
  <2>3. \A p \in Principals : \E r \in Reply : r = reply'[p] /\ Honest(p, r)'
    BY <1>2, <1>4, <1>5, <2>1
  <2>4. \A p \in Principals : Honest(p, reply[p])'
    BY <2>3 DEF Honest
  <2>5. (OkNamesAnOperation /\ StrangersLearnNothing /\ ToldStaysTrue)'
    BY <2>4 DEF Honest, OkNamesAnOperation, StrangersLearnNothing, ToldStaysTrue, ownerMatches, Exists,
           operationToProto, NoView
  <2> QED
    BY <1>3, <2>0, <2>2, <2>5 DEF ServiceInv, ServiceTypeOK
<1> QED
  BY <1>6, <1>7 DEF ServiceNext, serviceVars, Finish, Accept

\* The invariant holds before the first call.
LEMMA ServiceInitially == ServiceInit => ServiceInv
<1> SUFFICES ASSUME ServiceInit
             PROVE  ServiceInv
  OBVIOUS
<1>1. \A o \in Ops : ~Exists(o)
  BY DEF ServiceInit, OperationsInit, Exists
<1>2. OperationsTypeOK /\ ExactlyOneResult
  BY <1>1 DEF ServiceInit, OperationsInit, OperationsTypeOK, ExactlyOneResult
<1>3. NoReply \in Reply /\ NoReply.op \notin Ops /\ NoReply.code = "none"
  BY EmptyIdAssumption DEF NoReply, Reply, NoView, View, Ids
<1>4. \A p \in Principals : reply[p] = NoReply
  BY DEF ServiceInit
<1>5. ServiceTypeOK
  BY <1>2, <1>3 DEF ServiceInit, ServiceTypeOK
<1> HIDE DEF NoReply
<1>6. OkNamesAnOperation /\ StrangersLearnNothing /\ ToldStaysTrue
  BY <1>3, <1>4 DEF OkNamesAnOperation, StrangersLearnNothing, ToldStaysTrue
<1> QED
  BY <1>2, <1>5, <1>6 DEF ServiceInv

-----------------------------------------------------------------------------
(* Theorems.                                                               *)

\* The conjunction of the invariants is inductive.
THEOREM ServiceInvariant == ServiceSpec => []ServiceInv
BY ServiceInitially, ServiceStep, PTL DEF ServiceSpec

\* Operation.result is a oneof: exactly one of error and response once done.
THEOREM ResultsAreUnique == ServiceSpec => []ExactlyOneResult
<1>1. ServiceInv => ExactlyOneResult
  BY DEF ServiceInv
<1> QED
  BY <1>1, ServiceInvariant, PTL

\* Get and Cancel tell a stranger what they tell of an id that does not exist: NotFound
\* or, the store failing, INTERNAL, and nothing of the row.
THEOREM NoOracle == ServiceSpec => []StrangersLearnNothing
<1>1. ServiceInv => StrangersLearnNothing
  BY DEF ServiceInv
<1> QED
  BY <1>1, ServiceInvariant, PTL

\* What a caller was told of a finished operation is never taken back.
THEOREM ToldForGood == ServiceSpec => []ToldStaysTrue
<1>1. ServiceInv => ToldStaysTrue
  BY DEF ServiceInv
<1> QED
  BY <1>1, ServiceInvariant, PTL

\* A terminal write is the last write of a row, and rows keep their owner.
THEOREM SettledIsFinal == ServiceSpec => SettledForever
<1> DEFINE Kept == \A o \in Ops :
              /\ Exists(o) => operations'[o] # Absent
              /\ Settled(o) => operations'[o] = operations[o]
              /\ Exists(o) => /\ operations'[o].owner = operations[o].owner
                              /\ operations'[o].metadata = operations[o].metadata
<1>1. ServiceInv /\ [ServiceNext]_serviceVars => [Kept]_operations
  <2> SUFFICES ASSUME ServiceInv, [ServiceNext]_serviceVars
               PROVE  Kept
    OBVIOUS
  <2>1. /\ \A q \in Ops : Evolves(q)
        /\ operations' = [q \in Ops |-> operations'[q]]
    BY StepEvolves
  <2>2. OperationsTypeOK /\ ExactlyOneResult
    BY DEF ServiceInv, ServiceTypeOK
  <2> QED
    BY <2>1, <2>2, EvolvingIsSound DEF Exists
<1> QED
  BY <1>1, ServiceInvariant, PTL DEF ServiceSpec, SettledForever

\* Rows and replies keep their types.
THEOREM ServiceTypeCorrect == ServiceSpec => []ServiceTypeOK
<1>1. ServiceInv => ServiceTypeOK
  BY DEF ServiceInv
<1> QED
  BY <1>1, ServiceInvariant, PTL

\* The store answering, an owner's Cancel is refused exactly when the operation had ended
\* otherwise than cancelled, and acknowledged exactly when it leaves it cancelled.
THEOREM RefusedCancels == ServiceSpec => RefusedWhenFinished
<1> DEFINE Told(p, o) ==
        CancelAnswered(p, o) /\ ownerMatches(o, p) /\ reply'[p].code # "Internal" =>
            /\ reply'[p].code = "FailedPrecondition"
                  <=> Settled(o) /\ operations[o].error # "Canceled"
            /\ reply'[p].code = "OK" <=> operations'[o].error = "Canceled"
<1>1. ServiceInv /\ [ServiceNext]_serviceVars =>
        [\A p \in Principals, o \in Ops : Told(p, o)]_serviceVars
  <2> SUFFICES ASSUME ServiceInv, ServiceNext, NEW p \in Principals, NEW o \in Ops,
                      CancelAnswered(p, o), ownerMatches(o, p),
                      reply'[p].code # "Internal"
               PROVE  /\ reply'[p].code = "FailedPrecondition"
                            <=> Settled(o) /\ operations[o].error # "Canceled"
                      /\ reply'[p].code = "OK" <=> operations'[o].error = "Canceled"
    OBVIOUS
  <2>1. reply \in [Principals -> Reply] /\ OperationsTypeOK /\ ExactlyOneResult
    BY DEF ServiceInv, ServiceTypeOK
  <2>2. reply'[p] # reply[p] /\ reply'[p].call = "Cancel" /\ reply'[p].op = o
    BY DEF CancelAnswered
  <2>3. PICK q \in Principals, id \in Ids : Get(q, id) \/ Cancel(q, id)
    BY <2>2 DEF ServiceNext, Finish, Accept
  <2>4. \A call, code, view : Answer(q, call, id, code, view) =>
            q = p /\ call = "Cancel" /\ id = o /\ code = reply'[p].code
    BY <2>1, <2>2 DEF Answer
  <2>5. Cancel(p, o)
    <3>1. CASE Get(q, id)
      BY <2>4, <3>1 DEF Get, EmptyId, NotFound, StoreFailed
    <3>2. CASE Cancel(q, id)
      <4>1. \E call, code, view : Answer(q, call, id, code, view)
        BY <3>2 DEF Cancel, CancelRefused, CancelFailed, EmptyId, NotFound, StoreFailed
      <4> QED
        BY <2>4, <3>2, <4>1
    <3> QED
      BY <2>3, <3>1, <3>2
  <2>6. \A call, code, view : Answer(p, call, o, code, view) => code = reply'[p].code
    BY <2>1 DEF Answer
  <2>7. Exists(o) /\ operations[o] \in OperationRow /\ o # Unset
    BY <2>1, RowsHaveFields, EmptyIdAssumption DEF ownerMatches
  <2>8. CASE CancelRow(o, p) /\ Answer(p, "Cancel", o, "OK", operationToProto(operations'[o]))
    <3>1. reply'[p].code = "OK"
      BY <2>6, <2>8
    <3>2. ~Settled(o)
      BY <2>8 DEF CancelRow, Cancellable, Running, Settled
    <3>3. operations'[o].error = "Canceled"
      BY <2>1, <2>7, <2>8 DEF CancelRow, OperationsTypeOK, OperationRow
    <3> QED
      BY <3>1, <3>2, <3>3
  <2>9. CASE /\ AlreadyCancelled(o, p) /\ UNCHANGED operations
             /\ Answer(p, "Cancel", o, "OK", operationToProto(operations[o]))
    <3>1. reply'[p].code = "OK"
      BY <2>6, <2>9
    <3> QED
      BY <2>9, <3>1 DEF AlreadyCancelled
  <2>10. CASE CancelRefused(p, o) /\ UNCHANGED operations
    <3>1. /\ Settled(o) /\ ~AlreadyCancelled(o, p)
          /\ Answer(p, "Cancel", o, "FailedPrecondition", NoView)
      BY <2>10 DEF CancelRefused
    <3>2. reply'[p].code = "FailedPrecondition"
      BY <2>6, <3>1
    <3> QED
      BY <2>10, <3>1, <3>2 DEF AlreadyCancelled
  <2>11. ~CancelFailed(p, o)
    BY <2>6 DEF CancelFailed, StoreFailed
  <2> QED
    BY <2>5, <2>7, <2>8, <2>9, <2>10, <2>11 DEF Cancel, EmptyId
<1> QED
  BY <1>1, ServiceInvariant, PTL DEF ServiceSpec, RefusedWhenFinished

\* A Get changes no row, and a Cancel only a row of its caller.
THEOREM OnlyOwnRows == ServiceSpec => CallsTouchOwnRows
<1>1. ServiceInv /\ [ServiceNext]_serviceVars =>
        [\A p \in Principals : reply'[p] # reply[p] =>
            \A o \in Ops : operations'[o] # operations[o] =>
                Exists(o) /\ operations[o].owner = p]_serviceVars
  <2> SUFFICES ASSUME ServiceInv, ServiceNext, NEW p \in Principals, reply'[p] # reply[p],
                      NEW o \in Ops, operations'[o] # operations[o]
               PROVE  Exists(o) /\ operations[o].owner = p
    OBVIOUS
  <2>1. /\ reply \in [Principals -> Reply] /\ OperationsTypeOK
    BY DEF ServiceInv, ServiceTypeOK
  <2>2. PICK q \in Ids, r \in Principals : Get(r, q) \/ Cancel(r, q)
    BY DEF ServiceNext, Finish, Accept
  <2>3. UNCHANGED operations \/ (q \in Ops /\ CancelRow(q, r))
    BY <2>2 DEF Get, Cancel, CancelFailed
  <2>4. q \in Ops /\ CancelRow(q, r)
    BY <2>3
  <2>5. o = q
    BY <2>1, <2>4 DEF CancelRow, OperationsTypeOK
  <2>6. p = r
    BY <2>1, <2>2
    DEF Get, Cancel, CancelRefused, CancelFailed, EmptyId, NotFound, StoreFailed, Answer
  <2> QED BY <2>4, <2>5, <2>6 DEF CancelRow, Cancellable, ownerMatches
<1> QED
  BY <1>1, ServiceInvariant, PTL DEF ServiceSpec, CallsTouchOwnRows

\* Get and Cancel over arbitrary settlements are statements on the operations table, the
\* same the use cases, workers and reconciler make: the two specifications share TableSpec.
THEOREM ServiceIsATable == ServiceSpec => TableSpec
<1>1. [ServiceNext]_serviceVars => [TableNext]_operations
  <2>1. ASSUME NEW o \in Ops, NEW p \in Principals, Accept(o, p)
        PROVE  TableNext
    BY <2>1 DEF Accept, TableNext
  <2>2. ASSUME NEW o \in Ops, Finish(o)
        PROVE  TableNext
    BY <2>2 DEF Finish, TableNext
  <2>3. ASSUME NEW o \in Ids, NEW p \in Principals, Get(p, o) \/ Cancel(p, o)
        PROVE  TableNext \/ UNCHANGED operations
    BY <2>3 DEF Get, Cancel, CancelFailed, TableNext
  <2> QED BY <2>1, <2>2, <2>3 DEF ServiceNext, serviceVars
<1>2. ServiceInit => OperationsInit
  BY DEF ServiceInit
<1> QED BY <1>1, <1>2, PTL DEF ServiceSpec, TableSpec

=============================================================================
