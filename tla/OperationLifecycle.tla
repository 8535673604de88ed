------------------------- MODULE OperationLifecycle -------------------------
(***************************************************************************)
(* What an asynchronous mutation promises to the administrator who sent    *)
(* it, whatever crashes, cancels and retries happen behind it:             *)
(*   - an operation is accepted once and settles once, for good;           *)
(*   - it changes the catalog at most once;                                *)
(*   - an operation refused by the catalog (AlreadyExists, NotFound,       *)
(*     FailedPrecondition) has changed nothing and never will.             *)
(* What it does not promise is as much part of it: a cancelled, interrupted*)
(* or internally failed operation may have changed the catalog, or may     *)
(* still do so, and a success may have been inferred from the catalog by   *)
(* the reconciler.                                                         *)
(***************************************************************************)
CONSTANT Ops

VARIABLES
    phase,      \* operation -> how far it is
    applied     \* operations whose change of the catalog is committed

lifecycleVars == <<phase, applied>>

Outcome == {"succeeded", "refused", "uncertain", "cancelled"}
Phase == {"none", "running"} \cup Outcome

LifecycleInit ==
    /\ phase = [o \in Ops |-> "none"]
    /\ applied = {}

AcceptOp(o) ==
    /\ phase[o] = "none"
    /\ phase' = [phase EXCEPT ![o] = "running"]
    /\ UNCHANGED applied

ApplyOp(o) ==
    /\ phase[o] \notin {"none", "refused"} /\ o \notin applied
    /\ applied' = applied \cup {o}
    /\ UNCHANGED phase

SettleOp(o, p) ==
    /\ phase[o] = "running"
    /\ p = "refused" => o \notin applied
    /\ phase' = [phase EXCEPT ![o] = p]
    /\ UNCHANGED applied

LifecycleNext ==
    \E o \in Ops : \/ AcceptOp(o)
                   \/ ApplyOp(o)
                   \/ \E p \in Outcome : SettleOp(o, p)

Spec == LifecycleInit /\ [][LifecycleNext]_lifecycleVars
=============================================================================
