------------------------------ MODULE Admission ------------------------------
(***************************************************************************)
(* What a call goes through before its handler runs, on either listener:   *)
(* recovery, the principal interceptors, the authz interceptor             *)
(* (assembleUnaryChain and registerServices in serve.go, internal/check),  *)
(* while kacho-iam grants and revokes, answers late or not at all, and any *)
(* interceptor or handler may panic.                                       *)
(*                                                                         *)
(* The interceptors themselves and kacho-iam are not in src/: they do what *)
(* src/ and its tests say of them.  Time is relative: every deadline is a  *)
(* number of ticks left, every age a number of ticks capped by Forgotten.  *)
(***************************************************************************)
EXTENDS Config, Naturals, Sequences

CONSTANTS
    Configurations,     \* the configurations of this instance
    Calls,              \* calls in flight at a time
    Users,              \* principals of end users
    TTL,                \* ticks an allowed Check stays in the cache: 5 s
    CheckTimeout        \* ticks a Check may take: 2 s

ASSUME AdmissionAssumption ==
    /\ \A c \in Configurations : c \in Settings /\ Accepted(c)
    /\ TTL \in Nat \ {0} /\ CheckTimeout \in Nat \ {0}
    /\ {"nobody", "bootstrap"} \cap Users = {}

VARIABLES
    cfg,        \* the configuration the process was started with
    call,       \* Calls -> the call
    cache,      \* pair -> ticks its allowed Check is good for, 0 if not cached
    age,        \* pair -> ticks since kacho-iam last granted it, 0 while it does
    owners,     \* the principals that own operations
    up          \* the process is alive

vars == <<cfg, call, cache, age, owners, up>>

Listeners == {"public", "internal"}
Methods == {"read", "mutate", "poll"}
Relations == {"viewer", "system_admin"}
Pairs == Users \X Relations

\* No answer given so long ago is still in use.
Forgotten == TTL + CheckTimeout + 1

Nobody == "nobody"
Claims == Users \cup {Nobody}

\* A peer without a client certificate.
NoCert == EmptySAN

-----------------------------------------------------------------------------
(* The tables and the chain the process is put together from.              *)

\* Get and List on the public listener, Internal* on the internal one, operations
\* on both.
Registered(listener) ==
    {"poll", IF listener = "public" THEN "read" ELSE "mutate"}

\* Mutant: an RPC map without the operation service.
RelationsWithoutPolls(method) ==
    CASE method = "read" -> "viewer" [] method = "mutate" -> "system_admin"
      [] OTHER -> "unmapped"

\* The relation an RPC needs on the cluster; polls are exempt.
PermissionMap(method) ==
    CASE method = "read" -> "viewer" [] method = "mutate" -> "system_admin"
      [] OTHER -> "exempt"

\* Mutant: recovery is appended like the others.
RecoveryLast == <<"principal", "authz", "recovery", "handler">>

\* Outermost first.
assembleUnaryChain == <<"recovery", "principal", "authz", "handler">>

\* Under breakglass a listener may be plaintext.
TLS(listener) == IF listener = "public" THEN cfg.publicTLS ELSE cfg.internalTLS

\* Mutant: every peer with a certificate is believed.
TrustVerified(listener, peer, claim) == claim

\* Whom a call speaks for: with TLS only a trusted forwarder's claim counts.
TrustedPrincipal(listener, peer, claim) ==
    IF TLS(listener) /\ ~TrustedForwarder(cfg, peer) THEN Nobody ELSE claim

\* operations.PrincipalFromContext: a context without principal is the bootstrap's.
PrincipalFromContext(principal) ==
    IF principal = Nobody THEN "bootstrap" ELSE principal

-----------------------------------------------------------------------------
Outcomes == {"none", "ok", "failed", "denied", "unavailable", "panicked"}

NoCall == [at |-> 0, listener |-> "public", method |-> "read", peer |-> EmptySAN,
           claim |-> Nobody, principal |-> Nobody, verdict |-> "none", left |-> 0,
           lacked |-> FALSE, outcome |-> "none"]

CallRecord ==
    [at : 0 .. 4,               \* place in the chain; 0: answered, or none yet
     listener : Listeners, method : Methods, peer : SANs \cup {NoCert},
     claim : Claims,            \* the principal its metadata names
     principal : Claims,        \* the principal put into its context
     verdict : {"none", "pending", "yes", "no"},    \* of its Check
     left : 0 .. CheckTimeout,
     lacked : BOOLEAN,          \* history: without the relation at some moment
     outcome : Outcomes]

Init ==
    /\ cfg \in Configurations
    /\ call = [c \in Calls |-> NoCall]
    /\ cache = [p \in Pairs |-> 0]
    /\ age \in [Pairs -> {0, Forgotten}]
    /\ owners = {}
    /\ up = TRUE

At(c, step) == up /\ call[c].at > 0 /\ assembleUnaryChain[call[c].at] = step

\* The pair the Check of a call asks for.
Pair(r) == <<r.principal, PermissionMap(r.method)>>

\* What the user a call names must be granted, if the call needs anything.
Needs(r) == <<r.claim, PermissionMap(r.method)>>
Lacks(r) == Needs(r) \in Pairs /\ age[Needs(r)] > 0

\* A call as it comes in.
Incoming(listener, method, peer, claim) ==
    LET new == [NoCall EXCEPT !.at = 1, !.listener = listener, !.method = method,
                              !.peer = peer, !.claim = claim]
    IN  [new EXCEPT !.lacked = Lacks(new)]

\* Any peer that the listener lets connect sends a call.
Arrive(c) ==
    /\ up /\ call[c].at = 0
    /\ \E listener \in Listeners, peer \in SANs \cup {NoCert}, claim \in Claims :
       \E method \in Registered(listener) :
          /\ (peer = NoCert) <=> ~TLS(listener)
          /\ call' = [call EXCEPT ![c] = Incoming(listener, method, peer, claim)]
    /\ UNCHANGED <<cfg, cache, age, owners, up>>

\* The next link of the chain is called.
PassOn(c) == call' = [call EXCEPT ![c].at = @ + 1]

Answer(c, outcome) == call' = [call EXCEPT ![c] = [NoCall EXCEPT !.outcome = outcome]]

Recover(c) ==
    /\ At(c, "recovery") /\ PassOn(c)
    /\ UNCHANGED <<cfg, cache, age, owners, up>>

ExtractPrincipal(c) ==
    /\ At(c, "principal")
    /\ call' = [call EXCEPT ![c].at = @ + 1,
                   ![c].principal = TrustedPrincipal(call[c].listener, call[c].peer,
                                                     call[c].claim)]
    /\ UNCHANGED <<cfg, cache, age, owners, up>>

-----------------------------------------------------------------------------
(* The authz interceptor.                                                  *)

\* Breakglass and exempt RPCs pass; an allowed answer is good until it expires.
Pass(c) ==
    /\ At(c, "authz") /\ call[c].verdict = "none"
    /\ \/ cfg.breakglass
       \/ PermissionMap(call[c].method) = "exempt"
       \/ Pair(call[c]) \in Pairs /\ cache[Pair(call[c])] > 0
    /\ PassOn(c)
    /\ UNCHANGED <<cfg, cache, age, owners, up>>

\* Mutant: a caller without a principal is a system principal, and allowed.
DenyUnmapped(c) ==
    /\ At(c, "authz") /\ call[c].verdict = "none" /\ ~cfg.breakglass
    /\ IF PermissionMap(call[c].method) = "unmapped"
       THEN Answer(c, "denied")
       ELSE call[c].principal = Nobody /\ PassOn(c)
    /\ UNCHANGED <<cfg, cache, age, owners, up>>

\* RPCs that are not in the map, and callers without a principal.
Deny(c) ==
    /\ At(c, "authz") /\ call[c].verdict = "none" /\ ~cfg.breakglass
    /\ \/ PermissionMap(call[c].method) = "unmapped"
       \/ PermissionMap(call[c].method) \in Relations /\ call[c].principal = Nobody
    /\ Answer(c, "denied")
    /\ UNCHANGED <<cfg, cache, age, owners, up>>

\* IAMCheckClient.Check leaves, with a deadline.
Check(c) ==
    /\ At(c, "authz") /\ call[c].verdict = "none" /\ ~cfg.breakglass
    /\ Pair(call[c]) \in Pairs /\ cache[Pair(call[c])] = 0
    /\ call' = [call EXCEPT ![c].verdict = "pending", ![c].left = CheckTimeout]
    /\ UNCHANGED <<cfg, cache, age, owners, up>>

\* kacho-iam evaluates the request; its answer is under way.
Evaluate(c) ==
    /\ At(c, "authz") /\ call[c].verdict = "pending"
    /\ call' = [call EXCEPT ![c].verdict =
                   IF age[Pair(call[c])] = 0 THEN "yes" ELSE "no"]
    /\ UNCHANGED <<cfg, cache, age, owners, up>>

\* Mutant: cached under the subject, whatever the relation.
RememberSubject(pair) ==
    [p \in Pairs |-> IF p[1] = pair[1] THEN TTL ELSE cache[p]]

\* Only positive answers are remembered.
Remember(pair) == [cache EXCEPT ![pair] = TTL]

Allowed(c) ==
    /\ At(c, "authz") /\ call[c].verdict = "yes"
    /\ PassOn(c)
    /\ cache' = Remember(Pair(call[c]))
    /\ UNCHANGED <<cfg, age, owners, up>>

Denied(c) ==
    /\ At(c, "authz") /\ call[c].verdict = "no"
    /\ Answer(c, "denied")
    /\ UNCHANGED <<cfg, cache, age, owners, up>>

\* Mutant: a Check without deadline fails only once kacho-iam has decided.
CheckUnbounded(c) ==
    /\ At(c, "authz") /\ call[c].verdict \in {"yes", "no"}
    /\ Answer(c, "unavailable")
    /\ UNCHANGED <<cfg, cache, age, owners, up>>

\* The Check errs, or its deadline passes, whatever kacho-iam has decided.
CheckFails(c) ==
    /\ At(c, "authz") /\ call[c].verdict # "none"
    /\ Answer(c, "unavailable")
    /\ UNCHANGED <<cfg, cache, age, owners, up>>

-----------------------------------------------------------------------------
(* Handlers.                                                               *)

\* A mutation stores an operation that its principal owns; a poll finds one.
Handle(c) ==
    /\ At(c, "handler")
    /\ LET me == PrincipalFromContext(call[c].principal) IN
       \/ Answer(c, "failed") /\ UNCHANGED owners
       \/ call[c].method = "read" /\ Answer(c, "ok") /\ UNCHANGED owners
       \/ call[c].method = "mutate" /\ Answer(c, "ok") /\ owners' = owners \cup {me}
       \/ /\ call[c].method = "poll" /\ me \in owners
          /\ Answer(c, "ok") /\ UNCHANGED owners
    /\ UNCHANGED <<cfg, cache, age, up>>

\* A link of the chain panics.  The recovery interceptor answers for those inside it;
\* from any other the panic takes the process down.
Panic(c) ==
    /\ up /\ call[c].at > 0 /\ ~At(c, "recovery")
    /\ IF \E i \in 1 .. call[c].at - 1 : assembleUnaryChain[i] = "recovery"
       THEN Answer(c, "panicked") /\ up' = TRUE
       ELSE up' = FALSE /\ UNCHANGED call
    /\ UNCHANGED <<cfg, cache, age, owners>>

-----------------------------------------------------------------------------
(* kacho-iam, and time.                                                    *)

Grant(pair) ==
    /\ age[pair] > 0
    /\ age' = [age EXCEPT ![pair] = 0]
    /\ UNCHANGED <<cfg, call, cache, owners, up>>

Revoke(pair) ==
    /\ age[pair] = 0
    /\ age' = [age EXCEPT ![pair] = 1]
    /\ call' = [c \in Calls |->
                   [call[c] EXCEPT !.lacked = @ \/ (call[c].at > 0 /\ Needs(call[c]) = pair)]]
    /\ UNCHANGED <<cfg, cache, owners, up>>

Down(n) == IF n > 0 THEN n - 1 ELSE 0

\* A tick passes, but for a Check whose deadline has come.
Tick ==
    /\ \A c \in Calls : At(c, "authz") /\ call[c].verdict # "none" => call[c].left > 0
    /\ cache' = [p \in Pairs |-> Down(cache[p])]
    /\ call' = [c \in Calls |-> [call[c] EXCEPT !.left = Down(@)]]
    /\ age' = [p \in Pairs |-> IF age[p] \in {0, Forgotten} THEN age[p] ELSE age[p] + 1]
    /\ UNCHANGED <<cfg, owners, up>>

Proceed(c) ==
    \/ Recover(c) \/ ExtractPrincipal(c)
    \/ Pass(c) \/ Deny(c) \/ Check(c) \/ Allowed(c) \/ Denied(c)
    \/ Handle(c)

\* The deadline of a Check is enforced.
TimesOut(c) == call[c].left = 0 /\ CheckFails(c)

Next ==
    \/ \E c \in Calls : Arrive(c) \/ Proceed(c) \/ Evaluate(c) \/ CheckFails(c) \/ Panic(c)
    \/ \E p \in Pairs : Grant(p) \/ Revoke(p)
    \/ Tick

Spec == Init /\ [][Next]_vars

\* grpc-go runs the chain and handlers return; deadlines are kept and time passes.
\* kacho-iam need not answer, and nobody need call.
Fairness ==
    /\ \A c \in Calls : WF_vars(Proceed(c)) /\ WF_vars(TimesOut(c))
    /\ WF_vars(Tick)

FairSpec == Spec /\ Fairness

-----------------------------------------------------------------------------
(* Properties.                                                             *)

TypeOK ==
    /\ cfg \in Configurations
    /\ call \in [Calls -> CallRecord]
    /\ cache \in [Pairs -> 0 .. TTL]
    /\ age \in [Pairs -> 0 .. Forgotten]
    /\ owners \subseteq Users \cup {"bootstrap"}
    /\ up \in BOOLEAN

\* Call c reaches its handler in this step.
Enters(c) == ~At(c, "handler") /\ At(c, "handler")'

\* A handler that needs a relation runs for a user to whom kacho-iam had granted this
\* relation not longer ago than the life of a cached answer and the time of a Check
\* together: no other relation, user or older answer lets a call through.
EntryIsWarranted ==
    [][\A c \in Calls :
          Enters(c) /\ ~cfg.breakglass /\ PermissionMap(call[c].method) # "exempt"
              => /\ Pair(call[c]) \in Pairs
                 /\ age[Pair(call[c])] <= TTL + CheckTimeout]_vars

\* In production a call speaks for a user only through a forwarder the configuration
\* names: no other service with a certificate of its own is taken for a user.
UsersSpeakThroughForwarders ==
    cfg.mode \in Production =>
        \A c \in Calls : call[c].principal \in Users =>
            call[c].peer \in cfg.forwarders \ {EmptySAN}

\* No operation belongs to the principal that a caller without one is taken for.
\* Polls are exempt from the Check, so it would be everybody's.
BootstrapOwnsNothing == cfg.breakglass \/ "bootstrap" \notin owners

\* A caller is denied only if it lacked the relation at some moment of its call, or
\* named nobody whom the listener believes: no denial is remembered, and polls of
\* those who may not mutate any more are not denied.
DeniedForCause ==
    [][\A c \in Calls : call'[c].outcome = "denied" /\ call[c].at > 0 =>
          call[c].lacked \/ call[c].principal = Nobody]_vars

\* A panic in an interceptor or a handler ends one call and not the process.
PanicsContained == up

\* Every call is answered, even if kacho-iam never answers.
CallsAnswered == \A c \in Calls : call[c].at > 0 ~> call[c].at = 0

==============================================================================
