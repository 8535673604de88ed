------------------------------ MODULE MCStartup ------------------------------
(* Instance of Startup: every configuration over one SAN.                      *)
EXTENDS Startup

CONSTANTS gateway, other, noSAN

MCSANs == {gateway, other}

\* Every setting; of the SSL modes that are always treated alike, one.
AllConfigurations ==
    {c \in Settings : /\ c.sslmode \notin {"verify-ca", "verify-full"}
                    /\ c.forwarders \in {{}, {noSAN}, {gateway}, {gateway, noSAN}}
                    /\ ~c.password => c = [Defaults EXCEPT !.password = FALSE]}
==============================================================================
