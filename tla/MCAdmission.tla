----------------------------- MODULE MCAdmission -----------------------------
(* Instance of Admission: a gateway and another service as peers, one user,  *)
(* and the kinds of configuration that are accepted.                         *)
EXTENDS Admission

CONSTANTS gateway, other, noSAN, alice, c1, c2

MCSANs == {gateway, other}

Pinned == [Defaults EXCEPT !.sslmode = "require", !.iam = TRUE, !.publicTLS = TRUE,
                           !.internalTLS = TRUE, !.forwarders = {gateway, noSAN}]
Local == [Pinned EXCEPT !.mode = "dev", !.forwarders = {}, !.trustAny = TRUE]
Emergency == [Defaults EXCEPT !.mode = "dev", !.breakglass = TRUE, !.internalTLS = TRUE]

AllKinds == {Pinned, Local, Emergency}
OneUser == {alice}
TwoCalls == {c1, c2}

\* The second call is one of alice's through the gateway, and reads.
Reads(r) ==
    r.at > 0 => r.method = "read" /\ r.claim = alice /\ r.peer \in {gateway, NoCert}

MCSpec == Init /\ [][Next /\ Reads(call'[c2])]_vars /\ Fairness
==============================================================================
