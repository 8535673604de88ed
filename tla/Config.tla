-------------------------------- MODULE Config --------------------------------
(***************************************************************************)
(* The configuration (internal/apps/kacho/config) and the checks of it the *)
(* process makes before it starts anything: validateAuthMode and           *)
(* validateSecurityConfig of cmd/kacho-geo/serve.go.                       *)
(*                                                                         *)
(* Abstracted: hosts, ports, users and names.  The allow-list of           *)
(* forwarders is the set of its entries, the empty string among them.      *)
(***************************************************************************)
CONSTANTS
    SANs,           \* identities of client certificates
    EmptySAN        \* the empty string: an entry that names nobody

ASSUME ConfigAssumption == EmptySAN \notin SANs

Production == {"production", "production-strict"}
AuthModes == {"dev", "other"} \cup Production
EncryptedSSL == {"require", "verify-ca", "verify-full"}
SSLModes == {"", "disable", "allow", "prefer"} \cup EncryptedSSL

Settings ==
    [password   : BOOLEAN,      \* KACHO_GEO_DB_PASSWORD is set
     sslmode    : SSLModes,
     mode       : AuthModes,
     iam        : BOOLEAN,      \* KACHO_GEO_AUTHZ_IAM_GRPC_ADDR is not empty
     breakglass : BOOLEAN,
     forwarders : SUBSET (SANs \cup {EmptySAN}),
     trustAny   : BOOLEAN,
     publicTLS  : BOOLEAN,      \* PUBLIC_SERVER_MTLS_ENABLE
     internalTLS : BOOLEAN,
     metrics    : BOOLEAN]      \* KACHO_GEO_METRICS_ADDR is not empty

\* What a process runs with when nothing but the password is set.
Defaults ==
    [password |-> TRUE, sslmode |-> "disable", mode |-> "production", iam |-> FALSE,
     breakglass |-> FALSE, forwarders |-> {}, trustAny |-> FALSE,
     publicTLS |-> FALSE, internalTLS |-> FALSE, metrics |-> TRUE]

Load(c) == c.password

validateAuthMode(c) ==
    \/ c.mode = "dev"
    \/ c.mode = "production" /\ c.sslmode \notin {"", "disable"}
    \/ c.mode = "production-strict" /\ c.sslmode \in EncryptedSSL

\* Mutant: the allow-list is asked for its length.
ListedForwarders(c) == c.forwarders

\* The entries of the allow-list that name somebody; WithTrustedForwarders drops
\* the others too.
NonEmpty(c) == c.forwarders \ {EmptySAN}

\* What a start without breakglass needs.
validateSecurityConfig(c) ==
    IF c.breakglass
    THEN c.mode \notin Production
    ELSE /\ c.iam
         /\ c.publicTLS /\ c.internalTLS
         /\ NonEmpty(c) = {} => c.mode \notin Production /\ c.trustAny

Accepted(c) == Load(c) /\ validateAuthMode(c) /\ validateSecurityConfig(c)

\* Whom a listener lets speak for a user, among the peers with a certificate: an
\* empty list trusts them all.
TrustedForwarder(c, san) ==
    LET pinned == c.forwarders \ {EmptySAN} IN pinned = {} \/ san \in pinned

===============================================================================
