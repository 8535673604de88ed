------------------------------- MODULE Startup -------------------------------
(***************************************************************************)
(* The start of the process: main, config.Load and runServe up to the      *)
(* point where the listeners serve (cmd/kacho-geo/main.go, serve.go).      *)
(* Shutdown goes on from there.  The steps are sequential; what varies is  *)
(* the configuration, which resource cannot be had, and how the startup    *)
(* recovery ends, which a signal cuts short.                               *)
(***************************************************************************)
EXTENDS Config

CONSTANT Configurations     \* the configurations of this instance

ASSUME StartupAssumption == Configurations \subseteq Settings

VARIABLES
    cfg,        \* the configuration, as loaded
    at,         \* the step runServe is about to take, or how it ended
    open,       \* resources the process holds
    check,      \* what the authz interceptor does: "none", "bypass", "check"
    swept,      \* whether the startup recovery got through
    reason      \* why runServe returned an error

vars == <<cfg, at, open, check, swept, reason>>

Steps == {"load", "auth_mode", "security", "pool", "worker", "recovery", "dial",
          "interceptor", "creds", "listen", "listen_internal", "diagnostics"}
Resources == {"pool", "dispatcher", "iam", "public", "internal", "diagnostics"}
Reasons == Steps \cup {"no reason", "authz_not_configured"}

TypeOK ==
    /\ cfg \in Configurations
    /\ at \in Steps \cup {"serving", "refused"}
    /\ open \in SUBSET Resources
    /\ check \in {"none", "bypass", "check"}
    /\ swept \in BOOLEAN
    /\ reason \in Reasons
    /\ (reason = "no reason") <=> (at # "refused")

Init ==
    /\ cfg \in Configurations
    /\ at = "load"
    /\ open = {}
    /\ check = "none"
    /\ swept = FALSE
    /\ reason = "no reason"

\* A return with an error runs the deferred pool.Close and authzConn.Close.
Deferred == {"pool", "iam"}

\* runServe returns an error, having closed `closed' itself.
RefuseAfter(closed, why) ==
    /\ at' = "refused"
    /\ reason' = why
    /\ open' = (open \ Deferred) \ closed
    /\ UNCHANGED <<cfg, check, swept>>

Refuse(why) == RefuseAfter({}, why)

GoOn(next) == at' = next /\ UNCHANGED <<cfg, reason>>

Proceed(next) == GoOn(next) /\ UNCHANGED <<open, check, swept>>

Acquire(resource, next) ==
    GoOn(next) /\ open' = open \cup {resource} /\ UNCHANGED <<check, swept>>

LoadConfig ==
    /\ at = "load"
    /\ IF Load(cfg) THEN Proceed("auth_mode") ELSE Refuse("load")

CheckAuthMode ==
    /\ at = "auth_mode"
    /\ IF validateAuthMode(cfg)
       THEN Proceed("security")
       ELSE Refuse("auth_mode")

CheckSecurity ==
    /\ at = "security"
    /\ IF validateSecurityConfig(cfg)
       THEN Proceed("pool")
       ELSE Refuse("security")

NewPool ==
    /\ at = "pool"
    /\ \/ Acquire("pool", "worker")
       \/ Refuse("pool")

\* The dispatcher of package operations: no call of the source stops it.
startLROWorker ==
    /\ at = "worker"
    /\ \/ Acquire("dispatcher", "recovery")
       \/ Refuse("worker")

\* RecoverAll may fail, on an error or because a signal has cancelled its context:
\* that is logged, and the periodic sweep will try again.
startLRORecovery ==
    /\ at = "recovery"
    /\ GoOn("dial") /\ swept' \in BOOLEAN /\ UNCHANGED <<open, check>>

DialIAM ==
    /\ at = "dial"
    /\ \/ ~cfg.iam /\ Proceed("interceptor")
       \/ /\ cfg.iam
          /\ \/ Acquire("iam", "interceptor")
             \/ Refuse("dial")

\* NewInterceptor: a bypass under breakglass, else a client on the connection to
\* kacho-iam, else ErrIAMConnNotConfigured.
BuildInterceptor ==
    /\ at = "interceptor"
    /\ IF cfg.breakglass \/ "iam" \in open
       THEN /\ GoOn("creds")
            /\ check' = IF cfg.breakglass THEN "bypass" ELSE "check"
            /\ UNCHANGED <<open, swept>>
       ELSE Refuse("authz_not_configured")

\* The certificates of a listener with mTLS may be missing.
BuildServers ==
    /\ at = "creds"
    /\ \/ Proceed("listen")
       \/ (cfg.publicTLS \/ cfg.internalTLS) /\ Refuse("creds")

Listen ==
    /\ at = "listen"
    /\ \/ Acquire("public", "listen_internal")
       \/ Refuse("listen")

\* Mutant: the error of the second net.Listen is returned at once.
ListenInternalAtOnce ==
    /\ at = "listen_internal"
    /\ \/ Acquire("internal", "diagnostics")
       \/ Refuse("listen_internal")

ListenInternal ==
    /\ at = "listen_internal"
    /\ \/ Acquire("internal", "diagnostics")
       \/ RefuseAfter({"public"}, "listen_internal")

startDiagnosticListener ==
    /\ at = "diagnostics"
    /\ \/ ~cfg.metrics /\ Proceed("serving")
       \/ /\ cfg.metrics
          /\ \/ Acquire("diagnostics", "serving")
             \/ RefuseAfter({"public", "internal"}, "diagnostics")

Next ==
    \/ LoadConfig \/ CheckAuthMode \/ CheckSecurity \/ NewPool \/ startLROWorker
    \/ startLRORecovery \/ DialIAM \/ BuildInterceptor \/ BuildServers \/ Listen
    \/ ListenInternal \/ startDiagnosticListener

Spec == Init /\ [][Next]_vars

-----------------------------------------------------------------------------
(* Properties.                                                             *)

\* Only the peers the allow-list names are believed about who the user is.
ForwardersPinned(c) == \A san \in SANs : TrustedForwarder(c, san) => san \in c.forwarders

\* Whatever combination of flags the process was given, once it serves every call is
\* authorised by kacho-iam and both listeners know their peers; production pins who
\* may speak for a user, elsewhere trusting any peer was asked for.  The exception is
\* breakglass, which was asked for, outside production.
ServesGuarded ==
    at = "serving" =>
        \/ cfg.breakglass /\ cfg.mode \notin Production
        \/ /\ check = "check" /\ "iam" \in open
           /\ cfg.publicTLS /\ cfg.internalTLS
           /\ \/ ForwardersPinned(cfg)
              \/ cfg.trustAny /\ cfg.mode \notin Production

\* The branch of ErrIAMConnNotConfigured is as unreachable as its comment says: the
\* checks of the configuration, the condition of the dial and that of NewInterceptor
\* agree with one another.
DefensiveBranchUnused == reason # "authz_not_configured"

\* A start that fails leaves no listener, pool or connection behind, whichever step
\* failed; the dispatcher, once started, ends with the process.
NothingLeftOpen == at = "refused" => open \subseteq {"dispatcher"}

==============================================================================
