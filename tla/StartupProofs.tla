---------------------------- MODULE StartupProofs ----------------------------
(***************************************************************************)
(* Proofs about Startup, for every set of configurations: what the steps   *)
(* of a start have established when the next one is taken.                 *)
(***************************************************************************)
EXTENDS Startup, TLAPS

\* The steps at which the configuration has been checked, kacho-iam dialled if there
\* is one, and the interceptor built.
Dialled == {"interceptor", "creds", "listen", "listen_internal", "diagnostics", "serving"}
Checked == {"pool", "worker", "recovery", "dial"} \cup Dialled
Built == Dialled \ {"interceptor"}

\* From each of these steps on the process holds the pool, a port, the other port.
Pooled == Checked \ {"pool"}
Bound == {"listen_internal", "diagnostics", "serving"}
BoundTwice == Bound \ {"listen_internal"}

\* What is open, step by step.
OpenInOrder ==
    /\ at = "refused" => open \subseteq {"dispatcher"}
    /\ "iam" \in open => at \in Dialled
    /\ "public" \in open => at \in Bound
    /\ "internal" \in open => at \in BoundTwice
    /\ "diagnostics" \in open => at = "serving"

\* What has been made sure of, step by step.
SureInOrder ==
    /\ at \in {"auth_mode", "security"} \cup Checked => Load(cfg)
    /\ at \in {"security"} \cup Checked => validateAuthMode(cfg)
    /\ at \in Checked => validateSecurityConfig(cfg)
    /\ at \in Pooled => "pool" \in open
    /\ at \in Bound => "public" \in open
    /\ at \in BoundTwice => "internal" \in open
    /\ at = "serving" => (cfg.metrics <=> "diagnostics" \in open)

StartInv ==
    /\ TypeOK
    /\ SureInOrder
    /\ at \in Dialled => (cfg.iam <=> "iam" \in open)
    /\ at \in Built => check = IF cfg.breakglass THEN "bypass" ELSE "check"
    /\ OpenInOrder
    /\ DefensiveBranchUnused

LEMMA StartInit == Init => StartInv
  BY StartupAssumption DEF Init, StartInv, TypeOK, Checked, Dialled, Built, OpenInOrder,
     SureInOrder, Pooled, Bound, BoundTwice, DefensiveBranchUnused, Steps, Resources, Reasons

LEMMA StartStep == StartInv /\ [Next]_vars => StartInv'
  <1> SUFFICES ASSUME StartInv, [Next]_vars PROVE StartInv'
    OBVIOUS
  <1> cfg \in Settings
    BY StartupAssumption DEF StartInv, TypeOK
  <1> USE DEF StartInv, TypeOK, Checked, Dialled, Built, OpenInOrder, DefensiveBranchUnused,
              SureInOrder, Pooled, Bound, BoundTwice,
              Steps, Resources, Reasons, Proceed, GoOn, Acquire, Refuse, RefuseAfter, Deferred
  <1>0. at \in {"load", "auth_mode", "security"} =>
            open \subseteq {"pool", "dispatcher"} /\ open \ {"pool", "iam"} \subseteq {"dispatcher"}
    OBVIOUS
  <1>1. CASE LoadConfig
    BY <1>0, <1>1 DEF LoadConfig
  <1>2. CASE CheckAuthMode
    BY <1>0, <1>2 DEF CheckAuthMode
  <1>3. CASE CheckSecurity
    BY <1>0, <1>3 DEF CheckSecurity
  <1>4. CASE NewPool
    BY <1>4 DEF NewPool
  <1>5. CASE startLROWorker
    BY <1>5 DEF startLROWorker
  <1>6. CASE startLRORecovery
    BY <1>6 DEF startLRORecovery
  <1>7. CASE DialIAM
    BY <1>7 DEF DialIAM
  <1>8. CASE BuildInterceptor
    <2>1. cfg.breakglass \/ "iam" \in open
      BY <1>8 DEF BuildInterceptor, validateSecurityConfig
    <2> QED BY <1>8, <2>1 DEF BuildInterceptor
  <1>9. CASE BuildServers
    BY <1>9 DEF BuildServers
  <1>10. CASE Listen
    BY <1>10 DEF Listen
  <1>11. CASE ListenInternal
    BY <1>11 DEF ListenInternal
  <1>12. CASE startDiagnosticListener
    <2>1. CASE Proceed("serving")
      BY <1>12, <2>1 DEF startDiagnosticListener
    <2>2. CASE Acquire("diagnostics", "serving")
      BY <1>12, <2>2 DEF startDiagnosticListener
    <2>3. CASE RefuseAfter({"public", "internal"}, "diagnostics")
      <3>1. (open \ {"pool", "iam"}) \ {"public", "internal"} \subseteq {"dispatcher"}
        BY <1>12 DEF startDiagnosticListener
      <3> QED BY <1>12, <2>3, <3>1 DEF startDiagnosticListener
    <2> QED BY <1>12, <2>1, <2>2, <2>3 DEF startDiagnosticListener
  <1>13. CASE UNCHANGED vars
    BY <1>13 DEF vars
  <1> QED BY <1>1, <1>2, <1>3, <1>4, <1>5, <1>6, <1>7, <1>8, <1>9, <1>10, <1>11, <1>12,
             <1>13 DEF Next

LEMMA StartAlways == Spec => []StartInv
  BY StartInit, StartStep, PTL DEF Spec

\* Type correctness; a start returns an error if and only if it is refused.
THEOREM TypeCorrect == Spec => []TypeOK
  <1>1. StartInv => TypeOK
    BY DEF StartInv
  <1> QED BY <1>1, StartAlways, PTL

\* Whatever the configuration, a process that serves authorises every call and knows
\* its peers, or was told not to, outside production.
THEOREM GuardedWhenServing == Spec => []ServesGuarded
  <1>1. StartInv => ServesGuarded
    <2> SUFFICES ASSUME StartInv, at = "serving", ~cfg.breakglass
                 PROVE  /\ check = "check" /\ "iam" \in open
                        /\ cfg.publicTLS /\ cfg.internalTLS
                        /\ \/ ForwardersPinned(cfg)
                           \/ cfg.trustAny /\ cfg.mode \notin Production
      BY DEF ServesGuarded, StartInv, SureInOrder, Checked, Dialled, validateSecurityConfig
    <2>1. validateSecurityConfig(cfg) /\ cfg.iam /\ "iam" \in open /\ check = "check"
      BY DEF StartInv, SureInOrder, Checked, Dialled, Built, validateSecurityConfig
    <2>2. NonEmpty(cfg) # {} => ForwardersPinned(cfg)
      BY DEF NonEmpty, ForwardersPinned, TrustedForwarder
    <2> QED BY <2>1, <2>2 DEF validateSecurityConfig
  <1> QED BY <1>1, StartAlways, PTL

\* What Admission and Shutdown take for granted of a process that serves: Admission that
\* its configuration is an accepted one, Shutdown that it has a pool, both API listeners
\* and a diagnostic one if and only if it is configured.
ServesAsAssumed ==
    at = "serving" =>
        /\ Accepted(cfg)
        /\ {"pool", "public", "internal"} \subseteq open
        /\ "diagnostics" \in open <=> cfg.metrics
        /\ "iam" \in open <=> cfg.iam
        /\ check = IF cfg.breakglass THEN "bypass" ELSE "check"

\* runServe reaches the serving loop only with what the loop relies on.
THEOREM ReadyWhenServing == Spec => []ServesAsAssumed
  <1>1. StartInv => ServesAsAssumed
    BY DEF StartInv, SureInOrder, ServesAsAssumed, Accepted, Checked, Pooled, Bound,
       BoundTwice, Dialled, Built
  <1> QED BY <1>1, StartAlways, PTL

\* The defensive branch of runServe is dead code, as its comment says.
THEOREM DeadBranch == Spec => []DefensiveBranchUnused
  <1>1. StartInv => DefensiveBranchUnused
    BY DEF StartInv
  <1> QED BY <1>1, StartAlways, PTL

\* A start that fails gives back everything it had taken but the dispatcher, which only
\* ends with the process.
THEOREM CleanRefusal == Spec => []NothingLeftOpen
  <1>1. StartInv => NothingLeftOpen
    BY DEF StartInv, OpenInOrder, NothingLeftOpen
  <1> QED BY <1>1, StartAlways, PTL
==============================================================================
