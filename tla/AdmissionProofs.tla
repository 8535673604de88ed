--------------------------- MODULE AdmissionProofs ---------------------------
(***************************************************************************)
(* Proofs about Admission, for every number of calls and users, every      *)
(* TTL and every deadline.  What lets a call through is an answer of       *)
(* kacho-iam, and every answer in use ages with the grant it was given     *)
(* for: an answer under way and a cached one bound each other's age.       *)
(***************************************************************************)
EXTENDS Admission, TLAPS

\* A call has no outcome yet, speaks for its own claim or for nobody, and what it
\* has not got it lacks.
CallInv(r) ==
    /\ r.at > 0 => r.outcome = "none"
    /\ r.at < 3 => r.principal = Nobody /\ r.verdict = "none"
    /\ r.principal \in {Nobody, r.claim}
    /\ r.at > 0 /\ Lacks(r) => r.lacked

\* The Check of a call, and the answer under way.
CheckInv(r) ==
    /\ r.verdict # "none" => r.at > 0 /\ Pair(r) \in Pairs
    /\ r.verdict = "yes" /\ r.at = 3 => age[Pair(r)] <= CheckTimeout - r.left + 1
    /\ r.verdict = "no" => r.lacked

\* Whom a call speaks for.
ForwardedInv(r) ==
    r.principal \in Users /\ TLS(r.listener) => TrustedForwarder(cfg, r.peer)

\* A mutation reaches its handler with a principal.
AuthorInv(r) ==
    r.at = 4 /\ r.method = "mutate" /\ ~cfg.breakglass => r.principal # Nobody

Good(r) ==
    r \in CallRecord /\ CallInv(r) /\ CheckInv(r) /\ ForwardedInv(r) /\ AuthorInv(r)

\* A cached answer.
CacheInv == \A p \in Pairs : cache[p] > 0 => age[p] <= TTL - cache[p] + CheckTimeout + 1

AdmissionInv ==
    /\ TypeOK
    /\ PanicsContained
    /\ \A c \in Calls : Good(call[c])
    /\ CacheInv
    /\ BootstrapOwnsNothing

-----------------------------------------------------------------------------
\* The places of the chain.
LEMMA Places ==
  \A c : /\ At(c, "recovery") => call[c].at # 4
         /\ call[c].at \in 0 .. 4 =>
              /\ At(c, "recovery") <=> up /\ call[c].at = 1
              /\ At(c, "principal") <=> up /\ call[c].at = 2
              /\ At(c, "authz") <=> up /\ call[c].at = 3
              /\ At(c, "handler") <=> up /\ call[c].at = 4
  BY DEF At, assembleUnaryChain

LEMMA Bounds == TTL \in Nat /\ TTL > 0 /\ CheckTimeout \in Nat /\ CheckTimeout > 0
                /\ Forgotten \in Nat /\ Forgotten = TTL + CheckTimeout + 1
  BY AdmissionAssumption DEF Forgotten

LEMMA NoCallTyped == NoCall \in CallRecord
  <1>1. 0 \in 0 .. 4 /\ 0 \in 0 .. CheckTimeout
    BY Bounds
  <1> QED BY <1>1 DEF NoCall, CallRecord, Listeners, Methods, NoCert, Claims, Outcomes

LEMMA NoCallGood == \A outcome \in Outcomes : Good([NoCall EXCEPT !.outcome = outcome])
  <1> SUFFICES ASSUME NEW outcome \in Outcomes
               PROVE  Good([NoCall EXCEPT !.outcome = outcome])
    OBVIOUS
  <1> DEFINE r == [NoCall EXCEPT !.outcome = outcome]
  <1>1. r \in CallRecord
    BY NoCallTyped DEF CallRecord
  <1>2. /\ r.at = 0 /\ r.principal = Nobody /\ r.claim = Nobody /\ r.verdict = "none"
        /\ Nobody \notin Users
    BY AdmissionAssumption DEF NoCall, Nobody
  <1> HIDE DEF r
  <1>3. CallInv(r)
    BY <1>2 DEF CallInv
  <1>4. CheckInv(r)
    BY <1>2 DEF CheckInv
  <1>5. ForwardedInv(r)
    BY <1>2 DEF ForwardedInv
  <1>6. AuthorInv(r)
    BY <1>2 DEF AuthorInv
  <1> QED BY <1>1, <1>3, <1>4, <1>5, <1>6 DEF Good, r

\* A step of one call needs to keep that call good.
LEMMA OneCall ==
  ASSUME AdmissionInv, NEW c \in Calls, NEW r,
         call' = [call EXCEPT ![c] = r], Good(r), UNCHANGED <<cfg, age>>
  PROVE  \A d \in Calls : Good(call[d])'
  <1>1. \A d \in Calls : Good(call'[d])
    BY DEF AdmissionInv, TypeOK
  <1> QED
    BY <1>1 DEF Good, CallInv, CheckInv, ForwardedInv, AuthorInv, Lacks, Needs, TLS

LEMMA CallsTyped ==
  ASSUME AdmissionInv, NEW c \in Calls, NEW r \in CallRecord,
         call' = [call EXCEPT ![c] = r]
  PROVE  call' \in [Calls -> CallRecord]
  BY DEF AdmissionInv, TypeOK

LEMMA CallStep ==
  ASSUME AdmissionInv, NEW c \in Calls, NEW r,
         call' = [call EXCEPT ![c] = r], Good(r),
         UNCHANGED <<cfg, age, cache, owners, up>>
  PROVE  AdmissionInv'
  <1>1. \A d \in Calls : Good(call[d])'
    BY OneCall
  <1>2. call' \in [Calls -> CallRecord]
    BY CallsTyped DEF Good
  <1>3. TypeOK'
    BY <1>2 DEF AdmissionInv, TypeOK
  <1>4. PanicsContained' /\ CacheInv' /\ BootstrapOwnsNothing'
    BY DEF AdmissionInv, PanicsContained, CacheInv, BootstrapOwnsNothing
  <1> QED BY <1>1, <1>3, <1>4 DEF AdmissionInv

LEMMA AnswerStep ==
  ASSUME AdmissionInv, NEW c \in Calls, NEW outcome \in Outcomes, Answer(c, outcome),
         UNCHANGED <<cfg, age, cache, owners, up>>
  PROVE  AdmissionInv'
  BY NoCallGood, CallStep DEF Answer

-----------------------------------------------------------------------------
\* A call that the interceptor lets through.
LEMMA ToHandler ==
  ASSUME AdmissionInv, NEW c \in Calls, call[c].at = 3,
         \/ cfg.breakglass
         \/ PermissionMap(call[c].method) = "exempt"
         \/ Pair(call[c]) \in Pairs
  PROVE  Good([call[c] EXCEPT !.at = @ + 1])
  <1> DEFINE old == call[c]
             r == [old EXCEPT !.at = 4]
  <1>1. Good(old) /\ old \in CallRecord
    BY DEF AdmissionInv, Good
  <1>2. r \in CallRecord
    BY <1>1 DEF CallRecord
  <1>3. /\ r.at = 4 /\ old.at = 3
        /\ r.principal = old.principal /\ r.verdict = old.verdict
        /\ r.claim = old.claim /\ r.method = old.method /\ r.lacked = old.lacked
        /\ r.listener = old.listener /\ r.peer = old.peer /\ r.outcome = old.outcome
    BY <1>1 DEF CallRecord
  <1>4. [call[c] EXCEPT !.at = @ + 1] = r
    OBVIOUS
  <1>5. \/ cfg.breakglass
        \/ PermissionMap(old.method) = "exempt"
        \/ Pair(old) \in Pairs
    OBVIOUS
  <1> HIDE DEF r, old
  <1>6. CallInv(r)
    BY <1>1, <1>3 DEF Good, CallInv, Lacks, Needs
  <1>7. CheckInv(r)
    BY <1>1, <1>3 DEF Good, CheckInv, Pair
  <1>8. ForwardedInv(r)
    BY <1>1, <1>3 DEF Good, ForwardedInv
  <1>9. AuthorInv(r)
    <2>1. Nobody \notin Users
      BY AdmissionAssumption DEF Nobody
    <2> QED BY <2>1, <1>3, <1>5 DEF AuthorInv, PermissionMap, Pair, Pairs
  <1> QED BY <1>2, <1>4, <1>6, <1>7, <1>8, <1>9 DEF Good

LEMMA ArriveStep ==
  ASSUME AdmissionInv, NEW c \in Calls, Arrive(c)
  PROVE  AdmissionInv'
  <1>1. PICK listener \in Listeners, peer \in SANs \cup {NoCert}, claim \in Claims :
        \E method \in Registered(listener) :
           call' = [call EXCEPT ![c] = Incoming(listener, method, peer, claim)]
    BY DEF Arrive
  <1>2. PICK method \in Registered(listener) :
           call' = [call EXCEPT ![c] = Incoming(listener, method, peer, claim)]
    BY <1>1
  <1> DEFINE new == [NoCall EXCEPT !.at = 1, !.listener = listener,
                             !.method = method, !.peer = peer, !.claim = claim]
             r == [new EXCEPT !.lacked = Lacks(new)]
  <1>3. call' = [call EXCEPT ![c] = r]
    BY <1>2 DEF Incoming
  <1>4. r \in CallRecord
    <2>1. method \in Methods /\ 1 \in 0 .. 4
      BY DEF Registered, Methods
    <2>2. Lacks(new) \in BOOLEAN
      BY DEF Lacks
    <2>3. new \in CallRecord
      BY <2>1, NoCallTyped DEF CallRecord
    <2> HIDE DEF new
    <2> QED BY <2>2, <2>3 DEF CallRecord
  <1>5. /\ new.claim = claim /\ new.method = method
        /\ r.at = 1 /\ r.principal = Nobody /\ r.verdict = "none"
        /\ r.outcome = "none"
        /\ r.claim = claim /\ r.method = method /\ r.lacked = Lacks(new)
        /\ Nobody \notin Users
    BY AdmissionAssumption DEF NoCall, Nobody
  <1> HIDE DEF r, new
  <1>6. CallInv(r)
    BY <1>5 DEF CallInv, Lacks, Needs
  <1>7. CheckInv(r)
    BY <1>5 DEF CheckInv
  <1>8. ForwardedInv(r)
    BY <1>5 DEF ForwardedInv
  <1>9. AuthorInv(r)
    BY <1>5 DEF AuthorInv
  <1>10. Good(r)
    BY <1>4, <1>6, <1>7, <1>8, <1>9 DEF Good
  <1> QED BY <1>3, <1>10, CallStep DEF Arrive

LEMMA RecoverStep ==
  ASSUME AdmissionInv, NEW c \in Calls, Recover(c)
  PROVE  AdmissionInv'
  <1> DEFINE old == call[c]
             r == [old EXCEPT !.at = @ + 1]
  <1>1. Good(old) /\ old \in CallRecord
    BY DEF AdmissionInv, Good
  <1>2. old.at = 1
    BY <1>1, Places DEF Recover, CallRecord
  <1>3. r \in CallRecord
    BY <1>1, <1>2 DEF CallRecord
  <1>4. /\ r.at = 2
        /\ r.principal = old.principal /\ r.verdict = old.verdict
        /\ r.claim = old.claim /\ r.method = old.method /\ r.lacked = old.lacked
        /\ r.listener = old.listener /\ r.peer = old.peer /\ r.outcome = old.outcome
    BY <1>1, <1>2 DEF CallRecord
  <1>5. call' = [call EXCEPT ![c] = r]
    BY DEF Recover, PassOn
  <1> HIDE DEF r, old
  <1>6. CallInv(r)
    BY <1>1, <1>2, <1>4 DEF Good, CallInv, Lacks, Needs
  <1>7. CheckInv(r)
    BY <1>1, <1>2, <1>4 DEF Good, CheckInv, Pair
  <1>8. ForwardedInv(r)
    BY <1>1, <1>4 DEF Good, ForwardedInv
  <1>9. AuthorInv(r)
    BY <1>4 DEF AuthorInv
  <1>10. Good(r)
    BY <1>3, <1>6, <1>7, <1>8, <1>9 DEF Good
  <1> QED BY <1>5, <1>10, CallStep DEF Recover

LEMMA PrincipalStep ==
  ASSUME AdmissionInv, NEW c \in Calls, ExtractPrincipal(c)
  PROVE  AdmissionInv'
  <1> DEFINE old == call[c]
             me == TrustedPrincipal(old.listener, old.peer, old.claim)
             r == [old EXCEPT !.at = 3, !.principal = me]
  <1>1. Good(old) /\ old \in CallRecord
    BY DEF AdmissionInv, Good
  <1>2. old.at = 2
    BY <1>1, Places DEF ExtractPrincipal, CallRecord
  <1>3. me \in {Nobody, old.claim} /\ me \in Claims /\ Nobody \notin Users
    BY <1>1, AdmissionAssumption DEF TrustedPrincipal, Claims, CallRecord, Nobody
  <1>4. me \in Users /\ TLS(old.listener) => TrustedForwarder(cfg, old.peer)
    BY <1>3 DEF TrustedPrincipal
  <1>5. call' = [call EXCEPT ![c] = r]
    <2>1. call' = [call EXCEPT ![c] = [old EXCEPT !.at = @ + 1, !.principal = me]]
      BY DEF ExtractPrincipal
    <2> HIDE DEF me
    <2> QED BY <1>2, <2>1
  <1> HIDE DEF me, old
  <1>6. r \in CallRecord
    <2>1. 3 \in 0 .. 4 /\ [old EXCEPT !.at = 3] \in CallRecord
      BY <1>1 DEF CallRecord
    <2>2. r = [[old EXCEPT !.at = 3] EXCEPT !.principal = me]
      BY <1>1 DEF CallRecord
    <2>3. \A s \in CallRecord : [s EXCEPT !.principal = me] \in CallRecord
      BY <1>3 DEF CallRecord
    <2> QED BY <2>1, <2>2, <2>3
  <1>7. /\ r.at = 3 /\ r.principal = me /\ r.verdict = old.verdict
        /\ r.claim = old.claim /\ r.method = old.method /\ r.lacked = old.lacked
        /\ r.listener = old.listener /\ r.peer = old.peer /\ r.outcome = old.outcome
    BY <1>1, <1>2 DEF CallRecord
  <1> HIDE DEF r
  <1>8. CallInv(r)
    BY <1>1, <1>2, <1>3, <1>7 DEF Good, CallInv, Lacks, Needs
  <1>9. CheckInv(r)
    BY <1>1, <1>2, <1>7 DEF Good, CallInv, CheckInv
  <1>10. ForwardedInv(r)
    BY <1>4, <1>7 DEF ForwardedInv
  <1>11. AuthorInv(r)
    BY <1>7 DEF AuthorInv
  <1>12. Good(r)
    BY <1>6, <1>8, <1>9, <1>10, <1>11 DEF Good
  <1> QED BY <1>5, <1>12, CallStep DEF ExtractPrincipal

LEMMA PassStep ==
  ASSUME AdmissionInv, NEW c \in Calls, Pass(c)
  PROVE  AdmissionInv'
  <1>1. call[c].at = 3
    BY Places DEF Pass, AdmissionInv, Good, CallRecord
  <1>2. Good([call[c] EXCEPT !.at = @ + 1])
    BY <1>1, ToHandler DEF Pass
  <1>3. call' = [call EXCEPT ![c] = [call[c] EXCEPT !.at = @ + 1]]
    BY DEF Pass, PassOn
  <1> QED BY <1>2, <1>3, CallStep DEF Pass

LEMMA AnswersStep ==
  ASSUME AdmissionInv, NEW c \in Calls, Deny(c) \/ Denied(c) \/ CheckFails(c)
  PROVE  AdmissionInv'
  <1>1. "denied" \in Outcomes /\ "unavailable" \in Outcomes
    BY DEF Outcomes
  <1> QED BY <1>1, AnswerStep DEF Deny, Denied, CheckFails

\* The Check is sent, or kacho-iam evaluates it: the call stays where it is.
LEMMA VerdictStep ==
  ASSUME AdmissionInv, NEW c \in Calls, Check(c) \/ Evaluate(c)
  PROVE  AdmissionInv'
  <1> DEFINE old == call[c]
  <1>1. Good(old) /\ old \in CallRecord
    BY DEF AdmissionInv, Good
  <1>2. old.at = 3
    BY <1>1, Places DEF Check, Evaluate, CallRecord
  <1>3. Pair(old) \in Pairs
    BY <1>1 DEF Check, Evaluate, Good, CheckInv
  <1>4. ASSUME NEW verdict \in {"pending", "yes", "no"}, NEW left \in 0 .. CheckTimeout,
               verdict = "yes" => age[Pair(old)] = 0,
               verdict = "no" => age[Pair(old)] > 0,
               call' = [call EXCEPT ![c] = [old EXCEPT !.verdict = verdict, !.left = left]],
               UNCHANGED <<cfg, cache, age, owners, up>>
        PROVE  AdmissionInv'
    <2> DEFINE r == [old EXCEPT !.verdict = verdict, !.left = left]
    <2> HIDE DEF old
    <2>1. r \in CallRecord
      <3>1. r = [[old EXCEPT !.verdict = verdict] EXCEPT !.left = left]
        BY <1>1 DEF CallRecord
      <3>2. [old EXCEPT !.verdict = verdict] \in CallRecord
        BY <1>1 DEF CallRecord
      <3>3. \A s \in CallRecord : [s EXCEPT !.left = left] \in CallRecord
        BY DEF CallRecord
      <3> QED BY <3>1, <3>2, <3>3
    <2>2. /\ r.at = 3 /\ r.verdict = verdict /\ r.left = left
          /\ r.principal = old.principal
          /\ r.claim = old.claim /\ r.method = old.method /\ r.lacked = old.lacked
          /\ r.listener = old.listener /\ r.peer = old.peer /\ r.outcome = old.outcome
      BY <1>1, <1>2 DEF CallRecord
    <2> HIDE DEF r
    <2>3. CallInv(r)
      BY <1>1, <1>2, <2>2 DEF Good, CallInv, Lacks, Needs
    <2>4. CheckInv(r)
      <3>1. Pair(r) = Pair(old)
        BY <2>2 DEF Pair
      <3>2. verdict = "yes" => age[Pair(r)] <= CheckTimeout - left + 1
        BY <1>4, <3>1, Bounds
      <3>3. verdict = "no" => r.lacked
        <4>1. old.principal \in Users /\ old.principal # Nobody
          BY <1>3, AdmissionAssumption DEF Pair, Pairs, Nobody
        <4>2. Needs(r) = Pair(old) /\ Needs(r) \in Pairs
          BY <1>1, <1>3, <2>2, <4>1 DEF Good, CallInv, Needs, Pair
        <4> QED BY <1>4, <2>2, <2>3, <4>2 DEF CallInv, Lacks
      <3> QED BY <1>3, <2>2, <3>1, <3>2, <3>3 DEF CheckInv
    <2>5. ForwardedInv(r)
      BY <1>1, <2>2 DEF Good, ForwardedInv
    <2>6. AuthorInv(r)
      BY <2>2 DEF AuthorInv
    <2>7. Good(r)
      BY <2>1, <2>3, <2>4, <2>5, <2>6 DEF Good
    <2>8. call' = [call EXCEPT ![c] = r] /\ UNCHANGED <<cfg, cache, age, owners, up>>
      BY <1>4 DEF r
    <2> QED BY <2>7, <2>8, CallStep
  <1>5. CASE Check(c)
    <2>1. CheckTimeout \in 0 .. CheckTimeout
      BY Bounds
    <2> QED BY <1>4, <1>5, <2>1 DEF Check
  <1>6. CASE Evaluate(c)
    <2> DEFINE verdict == IF age[Pair(old)] = 0 THEN "yes" ELSE "no"
    <2>1. call' = [call EXCEPT ![c] = [old EXCEPT !.verdict = verdict, !.left = old.left]]
      BY <1>1, <1>6 DEF Evaluate, CallRecord
    <2>2. age[Pair(old)] \in Nat /\ old.left \in 0 .. CheckTimeout
      BY <1>1, <1>3, Bounds DEF AdmissionInv, TypeOK, CallRecord
    <2>3. age[Pair(old)] = 0 \/ age[Pair(old)] > 0
      BY <2>2
    <2>4. UNCHANGED <<cfg, cache, age, owners, up>>
      BY <1>6 DEF Evaluate
    <2> HIDE DEF old
    <2> QED BY <1>4, <2>1, <2>2, <2>3, <2>4
  <1> QED BY <1>5, <1>6

LEMMA AllowedStep ==
  ASSUME AdmissionInv, NEW c \in Calls, Allowed(c)
  PROVE  AdmissionInv'
  <1> DEFINE pair == Pair(call[c])
             r == [call[c] EXCEPT !.at = @ + 1]
  <1>1. /\ call[c] \in CallRecord /\ CheckInv(call[c])
        /\ call[c].at = 3 /\ call[c].verdict = "yes"
    BY Places DEF Allowed, AdmissionInv, Good, CallRecord
  <1>2. pair \in Pairs /\ age[pair] <= CheckTimeout - call[c].left + 1
    BY <1>1 DEF CheckInv
  <1>3. Good(r)
    BY <1>1, <1>2, ToHandler
  <1>4. call' = [call EXCEPT ![c] = r]
    BY DEF Allowed, PassOn
  <1>5. call[c].left \in 0 .. CheckTimeout
    BY <1>1 DEF CallRecord
  <1> HIDE DEF r, pair
  <1>6. UNCHANGED <<cfg, age, owners, up>> /\ cache' = [cache EXCEPT ![pair] = TTL]
    BY DEF Allowed, Remember, pair
  <1>7. \A d \in Calls : Good(call[d])'
    BY <1>3, <1>4, <1>6, OneCall
  <1>8. call' \in [Calls -> CallRecord]
    BY <1>3, <1>4, CallsTyped DEF Good
  <1>9. cache' \in [Pairs -> 0 .. TTL]
    BY <1>2, <1>6, Bounds DEF AdmissionInv, TypeOK
  <1>10. CacheInv'
    <2> SUFFICES ASSUME NEW p \in Pairs, cache'[p] > 0
                 PROVE  age[p] <= TTL - cache'[p] + CheckTimeout + 1
      BY <1>6 DEF CacheInv
    <2>1. age[p] \in Nat /\ cache[p] \in Nat
      BY Bounds DEF AdmissionInv, TypeOK
    <2>2. CASE p = pair
      BY <1>2, <1>5, <1>6, <2>1, <2>2, Bounds DEF AdmissionInv, TypeOK
    <2>3. CASE p # pair
      BY <1>6, <2>3 DEF AdmissionInv, TypeOK, CacheInv
    <2> QED BY <2>2, <2>3
  <1>11. TypeOK'
    BY <1>6, <1>8, <1>9 DEF AdmissionInv, TypeOK
  <1>12. PanicsContained' /\ BootstrapOwnsNothing'
    BY <1>6 DEF AdmissionInv, PanicsContained, BootstrapOwnsNothing
  <1> QED BY <1>7, <1>10, <1>11, <1>12 DEF AdmissionInv

LEMMA HandleStep ==
  ASSUME AdmissionInv, NEW c \in Calls, Handle(c)
  PROVE  AdmissionInv'
  <1> DEFINE me == PrincipalFromContext(call[c].principal)
  <1>1. /\ call[c] \in CallRecord /\ AuthorInv(call[c]) /\ call[c].at = 4
    BY Places DEF Handle, AdmissionInv, Good, CallRecord
  <1>2. /\ Answer(c, "ok") \/ Answer(c, "failed")
        /\ \/ owners' = owners
           \/ call[c].method = "mutate" /\ owners' = owners \cup {me}
    BY Zenon DEF Handle
  <1> PICK outcome \in {"ok", "failed"} : Answer(c, outcome)
    BY <1>2
  <1>3. UNCHANGED <<cfg, age, cache, up>> /\ outcome \in Outcomes
    BY DEF Handle, Outcomes
  <1>4. Good([NoCall EXCEPT !.outcome = outcome])
    BY <1>3, NoCallGood
  <1>5. \A d \in Calls : Good(call[d])'
    BY <1>2, <1>3, <1>4, OneCall DEF Answer
  <1>6. call' \in [Calls -> CallRecord]
    BY <1>2, <1>4, CallsTyped DEF Answer, Good
  <1>7. me \in Users \cup {"bootstrap"}
    BY <1>1 DEF PrincipalFromContext, CallRecord, Claims
  <1>8. call[c].method = "mutate" /\ ~cfg.breakglass => me \in Users
    BY <1>1 DEF AuthorInv, PrincipalFromContext, CallRecord, Claims
  <1>9. "bootstrap" \notin Users
    BY AdmissionAssumption
  <1> HIDE DEF me
  <1>10. TypeOK'
    BY <1>2, <1>3, <1>6, <1>7 DEF AdmissionInv, TypeOK
  <1>11. BootstrapOwnsNothing'
    BY <1>2, <1>3, <1>8, <1>9 DEF AdmissionInv, BootstrapOwnsNothing
  <1>12. PanicsContained' /\ CacheInv'
    BY <1>3 DEF AdmissionInv, PanicsContained, CacheInv
  <1> QED BY <1>5, <1>10, <1>11, <1>12 DEF AdmissionInv

\* Whatever panics is inside the recovery interceptor.
LEMMA PanicStep ==
  ASSUME AdmissionInv, NEW c \in Calls, Panic(c)
  PROVE  AdmissionInv'
  <1>1. call[c].at \in 2 .. 4
    BY Places DEF Panic, AdmissionInv, PanicsContained, Good, CallRecord
  <1>2. 1 \in 1 .. call[c].at - 1 /\ assembleUnaryChain[1] = "recovery"
    BY <1>1 DEF assembleUnaryChain
  <1>3. Answer(c, "panicked") /\ up' = TRUE
    BY <1>2 DEF Panic
  <1>4. up = TRUE /\ "panicked" \in Outcomes
    BY DEF AdmissionInv, TypeOK, PanicsContained, Outcomes
  <1> QED BY <1>3, <1>4, AnswerStep DEF Panic

LEMMA GrantStep ==
  ASSUME AdmissionInv, NEW pair \in Pairs, Grant(pair)
  PROVE  AdmissionInv'
  <1>1. age' = [age EXCEPT ![pair] = 0] /\ UNCHANGED <<cfg, call, cache, owners, up>>
    BY DEF Grant
  <1>2. \A p \in Pairs : /\ age[p] \in Nat /\ cache[p] \in 0 .. TTL
                         /\ age'[p] \in {0, age[p]}
    BY <1>1, Bounds DEF AdmissionInv, TypeOK
  <1>3. TypeOK'
    <2>1. 0 \in 0 .. Forgotten
      BY Bounds
    <2> QED BY <1>1, <2>1 DEF AdmissionInv, TypeOK
  <1>4. \A p \in Pairs : cache[p] > 0 => age'[p] <= TTL - cache[p] + CheckTimeout + 1
    BY <1>2, Bounds DEF AdmissionInv, CacheInv
  <1>5. CacheInv'
    BY <1>1, <1>4 DEF CacheInv
  <1>6. ASSUME NEW r, Good(r)
        PROVE  Good(r)'
    <2>1. r.left \in 0 .. CheckTimeout
      BY <1>6 DEF Good, CallRecord
    <2>2. CallInv(r)'
      BY <1>2, <1>6 DEF Good, CallInv, Lacks, Needs
    <2>3. CheckInv(r)'
      BY <1>2, <1>6, <2>1, Bounds DEF Good, CheckInv, Pair
    <2> QED BY <1>1, <1>6, <2>2, <2>3 DEF Good, ForwardedInv, AuthorInv, TLS
  <1>7. PanicsContained' /\ BootstrapOwnsNothing'
    BY <1>1 DEF AdmissionInv, PanicsContained, BootstrapOwnsNothing
  <1>8. \A c \in Calls : Good(call[c])'
    BY <1>1, <1>6 DEF AdmissionInv
  <1> QED BY <1>3, <1>5, <1>7, <1>8 DEF AdmissionInv

\* The grant is one tick old at once, and the calls that need it lack it.
LEMMA RevokeStep ==
  ASSUME AdmissionInv, NEW pair \in Pairs, Revoke(pair)
  PROVE  AdmissionInv'
  <1> DEFINE Mark(r) == r.lacked \/ (r.at > 0 /\ Needs(r) = pair)
             Marked(r) == [r EXCEPT !.lacked = Mark(r)]
  <1>1. /\ age' = [age EXCEPT ![pair] = 1]
        /\ call' = [c \in Calls |-> Marked(call[c])]
        /\ UNCHANGED <<cfg, cache, owners, up>>
    BY DEF Revoke
  <1>2. \A p \in Pairs : /\ age[p] \in Nat /\ cache[p] \in 0 .. TTL
                         /\ age'[p] = IF p = pair THEN 1 ELSE age[p]
    BY <1>1, Bounds DEF AdmissionInv, TypeOK
  <1>3. ASSUME NEW r, Good(r), NEW q, q = Marked(r)
        PROVE  Good(q)'
    <2> DEFINE s == Marked(r)
    <2>1. r \in CallRecord /\ Mark(r) \in BOOLEAN
      BY <1>3 DEF Good, CallRecord
    <2>2. s \in CallRecord
      <3> HIDE DEF Mark
      <3> QED BY <2>1 DEF CallRecord
    <2>3. /\ s.at = r.at /\ s.verdict = r.verdict /\ s.left = r.left
          /\ s.principal = r.principal /\ s.lacked = Mark(r)
          /\ s.claim = r.claim /\ s.method = r.method
          /\ s.listener = r.listener /\ s.peer = r.peer /\ s.outcome = r.outcome
      <3> HIDE DEF Mark
      <3> QED BY <2>1 DEF CallRecord
    <2>4. r.left \in 0 .. CheckTimeout
      BY <2>1 DEF CallRecord
    <2>5. r.at > 0 /\ Needs(r) = pair => s.lacked
      BY <2>3
    <2>6. r.lacked => s.lacked
      BY <2>3
    <2> HIDE DEF Mark, s
    <2>7. q = s
      BY <1>3 DEF s
    <2>8. CallInv(q)'
      <3>1. Needs(q) = Needs(r)
        BY <2>3, <2>7 DEF Needs
      <3>2. Needs(q)' = Needs(q)
        BY DEF Needs
      <3>3. q.at > 0 /\ Lacks(q)' => q.lacked
        BY <1>2, <1>3, <2>3, <2>5, <2>6, <2>7, <3>1, <3>2 DEF Good, CallInv, Lacks
      <3> QED BY <1>3, <2>3, <2>7, <3>3 DEF Good, CallInv
    <2>9. CheckInv(q)'
      <3>1. Pair(q) = Pair(r) /\ Pair(q)' = Pair(q)
        BY <2>3, <2>7 DEF Pair
      <3>2. q.verdict = "yes" /\ q.at = 3 => age'[Pair(q)] <= CheckTimeout - q.left + 1
        BY <1>2, <1>3, <2>3, <2>4, <2>7, <3>1, Bounds DEF Good, CheckInv
      <3>3. q.verdict # "none" => q.at > 0 /\ Pair(q) \in Pairs
        BY <1>3, <2>3, <2>7, <3>1 DEF Good, CheckInv
      <3>4. q.verdict = "no" => q.lacked
        BY <1>3, <2>3, <2>6, <2>7 DEF Good, CheckInv
      <3> QED BY <3>1, <3>2, <3>3, <3>4 DEF CheckInv
    <2>10. ForwardedInv(q)'
      BY <1>1, <1>3, <2>3, <2>7 DEF Good, ForwardedInv, TLS
    <2>11. AuthorInv(q)'
      BY <1>1, <1>3, <2>3, <2>7 DEF Good, AuthorInv
    <2> QED BY <2>2, <2>7, <2>8, <2>9, <2>10, <2>11 DEF Good
  <1> HIDE DEF Marked
  <1>4. \A c \in Calls : Good(call[c])'
    BY <1>1, <1>3 DEF AdmissionInv
  <1>5. call' \in [Calls -> CallRecord]
    <2>1. \A c \in Calls : call'[c] \in CallRecord
      BY <1>4 DEF Good
    <2> QED BY <1>1, <2>1
  <1>6. TypeOK'
    <2>1. 1 \in 0 .. Forgotten
      BY Bounds
    <2> QED BY <1>1, <1>5, <2>1 DEF AdmissionInv, TypeOK
  <1>7. \A p \in Pairs : cache[p] > 0 => age'[p] <= TTL - cache[p] + CheckTimeout + 1
    BY <1>2, Bounds DEF AdmissionInv, CacheInv
  <1>8. CacheInv' /\ PanicsContained' /\ BootstrapOwnsNothing'
    BY <1>1, <1>7 DEF AdmissionInv, CacheInv, PanicsContained, BootstrapOwnsNothing
  <1> QED BY <1>4, <1>6, <1>8 DEF AdmissionInv

\* A tick ages every grant, and takes one from the time every answer in use has left.
LEMMA TickStep ==
  ASSUME AdmissionInv, Tick
  PROVE  AdmissionInv'
  <1> DEFINE Older(r) == [r EXCEPT !.left = Down(@)]
  <1>1. /\ cache' = [p \in Pairs |-> Down(cache[p])]
        /\ call' = [c \in Calls |-> Older(call[c])]
        /\ age' = [p \in Pairs |-> IF age[p] \in {0, Forgotten} THEN age[p] ELSE age[p] + 1]
        /\ UNCHANGED <<cfg, owners, up>>
    BY DEF Tick
  <1>2. \A p \in Pairs : /\ age[p] \in 0 .. Forgotten /\ cache[p] \in 0 .. TTL
                         /\ age'[p] \in 0 .. Forgotten
                         /\ age'[p] \in {age[p], age[p] + 1}
                         /\ age'[p] = 0 <=> age[p] = 0
                         /\ cache'[p] \in 0 .. TTL
                         /\ cache'[p] = Down(cache[p])
    <2> SUFFICES ASSUME NEW p \in Pairs
                 PROVE  /\ age[p] \in 0 .. Forgotten /\ cache[p] \in 0 .. TTL
                        /\ age'[p] \in 0 .. Forgotten
                        /\ age'[p] \in {age[p], age[p] + 1}
                        /\ age'[p] = 0 <=> age[p] = 0
                        /\ cache'[p] \in 0 .. TTL
                        /\ cache'[p] = Down(cache[p])
      OBVIOUS
    <2>1. age[p] \in 0 .. Forgotten /\ cache[p] \in 0 .. TTL
      BY DEF AdmissionInv, TypeOK
    <2>2. age'[p] = IF age[p] \in {0, Forgotten} THEN age[p] ELSE age[p] + 1
      BY <1>1
    <2>3. cache'[p] = Down(cache[p])
      BY <1>1
    <2> QED BY <2>1, <2>2, <2>3, Bounds DEF Down
  <1>3. ASSUME NEW r, Good(r), r.verdict # "none" /\ r.at = 3 => r.left > 0,
               NEW q, q = Older(r)
        PROVE  Good(q)'
    <2>1. r \in CallRecord /\ r.left \in 0 .. CheckTimeout
      BY <1>3 DEF Good, CallRecord
    <2>2. Down(r.left) \in 0 .. CheckTimeout
      BY <2>1, Bounds DEF Down
    <2>3. q \in CallRecord
      BY <1>3, <2>1, <2>2 DEF CallRecord
    <2>4. /\ q.at = r.at /\ q.verdict = r.verdict /\ q.left = Down(r.left)
          /\ q.principal = r.principal /\ q.lacked = r.lacked
          /\ q.claim = r.claim /\ q.method = r.method
          /\ q.listener = r.listener /\ q.peer = r.peer /\ q.outcome = r.outcome
      BY <1>3, <2>1 DEF CallRecord
    <2>5. CallInv(q)'
      <3>1. Needs(q) = Needs(r) /\ Needs(q)' = Needs(q)
        BY <2>4 DEF Needs
      <3>2. Needs(q) \in Pairs => (age'[Needs(q)] > 0 <=> age[Needs(q)] > 0)
        BY <1>2, Bounds
      <3> QED BY <1>3, <2>4, <3>1, <3>2 DEF Good, CallInv, Lacks
    <2>6. CheckInv(q)'
      <3>1. Pair(q) = Pair(r) /\ Pair(q)' = Pair(q)
        BY <2>4 DEF Pair
      <3>2. q.verdict # "none" => q.at > 0 /\ Pair(q) \in Pairs
        BY <1>3, <2>4, <3>1 DEF Good, CheckInv
      <3>3. ASSUME q.verdict = "yes", q.at = 3
            PROVE  age'[Pair(q)] <= CheckTimeout - q.left + 1
        <4>1. age[Pair(q)] <= CheckTimeout - r.left + 1 /\ r.left > 0
          BY <1>3, <2>4, <3>1, <3>3 DEF Good, CheckInv
        <4>2. q.left = r.left - 1
          BY <2>1, <2>4, <4>1 DEF Down
        <4> QED BY <1>2, <2>1, <3>2, <3>3, <4>1, <4>2, Bounds
      <3>4. q.verdict = "no" => q.lacked
        BY <1>3, <2>4 DEF Good, CheckInv
      <3> QED BY <3>1, <3>2, <3>3, <3>4 DEF CheckInv
    <2>7. ForwardedInv(q)'
      BY <1>1, <1>3, <2>4 DEF Good, ForwardedInv, TLS
    <2>8. AuthorInv(q)'
      BY <1>1, <1>3, <2>4 DEF Good, AuthorInv
    <2> QED BY <2>3, <2>5, <2>6, <2>7, <2>8 DEF Good
  <1> HIDE DEF Older
  <1>4. \A c \in Calls : call[c].verdict # "none" /\ call[c].at = 3 => call[c].left > 0
    BY Places DEF AdmissionInv, TypeOK, PanicsContained, Tick, CallRecord
  <1>5. \A c \in Calls : Good(call[c])'
    BY <1>1, <1>3, <1>4 DEF AdmissionInv
  <1>6. call' \in [Calls -> CallRecord]
    <2>1. \A c \in Calls : call'[c] \in CallRecord
      BY <1>5 DEF Good
    <2> QED BY <1>1, <2>1
  <1>7. TypeOK'
    <2>1. cache' \in [Pairs -> 0 .. TTL] /\ age' \in [Pairs -> 0 .. Forgotten]
      BY <1>1, <1>2
    <2> QED BY <1>1, <1>6, <2>1 DEF AdmissionInv, TypeOK
  <1>8. \A p \in Pairs : cache'[p] > 0 => age'[p] <= TTL - cache'[p] + CheckTimeout + 1
    <2> SUFFICES ASSUME NEW p \in Pairs, cache'[p] > 0
                 PROVE  age'[p] <= TTL - cache'[p] + CheckTimeout + 1
      OBVIOUS
    <2>1. cache[p] > 0 /\ cache'[p] = cache[p] - 1
      BY <1>2 DEF Down
    <2>2. age[p] <= TTL - cache[p] + CheckTimeout + 1
      BY <2>1 DEF AdmissionInv, CacheInv
    <2>3. age'[p] <= age[p] + 1 /\ age[p] \in Nat /\ age'[p] \in Nat /\ cache[p] \in Nat
      BY <1>2, Bounds
    <2> QED BY <2>1, <2>2, <2>3, Bounds
  <1>9. CacheInv'
    BY <1>8 DEF CacheInv
  <1>10. PanicsContained' /\ BootstrapOwnsNothing'
    BY <1>1 DEF AdmissionInv, PanicsContained, BootstrapOwnsNothing
  <1> QED BY <1>5, <1>7, <1>9, <1>10 DEF AdmissionInv

-----------------------------------------------------------------------------
LEMMA AdmissionStart == Init => AdmissionInv
  <1> SUFFICES ASSUME Init PROVE AdmissionInv
    OBVIOUS
  <1>1. \A c \in Calls : Good(call[c])
    <2>1. "none" \in Outcomes /\ NoCall.outcome = "none"
      BY DEF NoCall, Outcomes
    <2>2. [NoCall EXCEPT !.outcome = "none"] = NoCall
      <3>1. \A r \in CallRecord : [r EXCEPT !.outcome = r.outcome] = r
        BY DEF CallRecord
      <3> QED BY <2>1, <3>1, NoCallTyped
    <2>3. Good(NoCall)
      BY <2>1, <2>2, NoCallGood
    <2> QED BY <2>3 DEF Init
  <1>2. TypeOK
    <2>1. call \in [Calls -> CallRecord]
      BY <1>1 DEF Good, Init
    <2>2. 0 \in 0 .. TTL /\ 0 \in 0 .. Forgotten /\ Forgotten \in 0 .. Forgotten
      BY Bounds
    <2> QED BY <2>1, <2>2 DEF Init, TypeOK
  <1>3. CacheInv
    BY DEF Init, CacheInv
  <1>4. PanicsContained /\ BootstrapOwnsNothing
    BY DEF Init, PanicsContained, BootstrapOwnsNothing
  <1> QED BY <1>1, <1>2, <1>3, <1>4 DEF AdmissionInv

LEMMA AdmissionStep == AdmissionInv /\ [Next]_vars => AdmissionInv'
  <1> SUFFICES ASSUME AdmissionInv, [Next]_vars PROVE AdmissionInv'
    OBVIOUS
  <1>1. ASSUME NEW c \in Calls, Arrive(c) PROVE AdmissionInv'
    BY <1>1, ArriveStep
  <1>2. ASSUME NEW c \in Calls, Proceed(c) PROVE AdmissionInv'
    BY <1>2, RecoverStep, PrincipalStep, PassStep, AnswersStep, VerdictStep,
       AllowedStep, HandleStep DEF Proceed
  <1>3. ASSUME NEW c \in Calls, Evaluate(c) \/ CheckFails(c) \/ Panic(c)
        PROVE  AdmissionInv'
    BY <1>3, VerdictStep, AnswersStep, PanicStep
  <1>4. ASSUME NEW p \in Pairs, Grant(p) \/ Revoke(p) PROVE AdmissionInv'
    BY <1>4, GrantStep, RevokeStep
  <1>5. CASE Tick
    BY <1>5, TickStep
  <1>6. CASE UNCHANGED vars
    BY <1>6 DEF vars, AdmissionInv, TypeOK, PanicsContained, CacheInv,
       BootstrapOwnsNothing, Good, CallInv, CheckInv, ForwardedInv, AuthorInv,
       Lacks, Needs, Pair, TLS
  <1> QED BY <1>1, <1>2, <1>3, <1>4, <1>5, <1>6 DEF Next

LEMMA AdmissionAlways == Spec => []AdmissionInv
  BY AdmissionStart, AdmissionStep, PTL DEF Spec

\* What a step does to one call.
Stays(c) == call'[c].at = call[c].at /\ call'[c].outcome = call[c].outcome
Advances(c) == call'[c].at \in 1 .. 3 /\ call'[c].outcome = "none"
IsLetIn(c) == (Pass(c) \/ Allowed(c)) /\ call'[c].outcome = call[c].outcome
Ends(c) == call'[c].at = 0 /\ (call'[c].outcome = "denied" => Deny(c) \/ Denied(c))

LEMMA StepOfACall ==
  ASSUME AdmissionInv, Next, NEW c \in Calls
  PROVE  Stays(c) \/ Advances(c) \/ IsLetIn(c) \/ Ends(c)
  <1>1. /\ call \in [Calls -> CallRecord] /\ call[c] \in CallRecord
        /\ Good(call[c])
        /\ call[c].at > 0 => call[c].outcome = "none"
    BY DEF AdmissionInv, TypeOK, Good, CallInv
  <1>2. ASSUME NEW d \in Calls, d # c,
               Arrive(d) \/ Proceed(d) \/ Evaluate(d) \/ CheckFails(d) \/ Panic(d)
        PROVE  Stays(c)
    BY <1>1, <1>2 DEF Stays, Arrive, Proceed, Evaluate, CheckFails, Panic, Recover,
       ExtractPrincipal, Pass, Deny, Check, Allowed, Denied, Handle, PassOn, Answer
  <1>3. ASSUME NEW outcome, Answer(c, outcome)
        PROVE  call'[c].at = 0 /\ call'[c].outcome = outcome
    BY <1>1, <1>3 DEF Answer, NoCall
  <1>4. ASSUME Arrive(c) PROVE Advances(c)
    <2>1. \A l, m, p, n : /\ Incoming(l, m, p, n).at = 1
                          /\ Incoming(l, m, p, n).outcome = "none"
      BY DEF Incoming, NoCall
    <2> QED BY <1>1, <1>4, <2>1 DEF Arrive, Advances
  <1>5. ASSUME Recover(c) \/ ExtractPrincipal(c) PROVE Advances(c)
    <2>1. call[c].at \in {1, 2}
      BY <1>1, <1>5, Places DEF Recover, ExtractPrincipal, CallRecord
    <2>2. call'[c].at = call[c].at + 1 /\ call'[c].outcome = call[c].outcome
      BY <1>1, <1>5 DEF Recover, ExtractPrincipal, PassOn, CallRecord
    <2> QED BY <1>1, <2>1, <2>2 DEF Advances
  <1>6. ASSUME Pass(c) \/ Allowed(c) PROVE IsLetIn(c)
    <2>1. call'[c].outcome = call[c].outcome
      BY <1>1, <1>6 DEF Pass, Allowed, PassOn, CallRecord
    <2> QED BY <1>6, <2>1 DEF IsLetIn
  <1>7. ASSUME Check(c) \/ Evaluate(c) PROVE Stays(c)
    BY <1>1, <1>7 DEF Check, Evaluate, Stays, CallRecord
  <1>8. ASSUME Deny(c) \/ Denied(c) PROVE Ends(c)
    BY <1>3, <1>8 DEF Deny, Denied, Ends
  <1>9. ASSUME CheckFails(c) \/ Handle(c) \/ Panic(c) PROVE Ends(c)
    <2>1. CASE CheckFails(c)
      BY <1>3, <2>1 DEF CheckFails, Ends
    <2>2. CASE Handle(c)
      <3>1. Answer(c, "ok") \/ Answer(c, "failed")
        BY <2>2, Zenon DEF Handle
      <3> QED BY <1>3, <3>1 DEF Ends
    <2>3. CASE Panic(c)
      <3>1. call[c].at \in 2 .. 4
        BY <1>1, <2>3, Places DEF Panic, AdmissionInv, PanicsContained, CallRecord
      <3>2. 1 \in 1 .. call[c].at - 1 /\ assembleUnaryChain[1] = "recovery"
        BY <3>1 DEF assembleUnaryChain
      <3>3. Answer(c, "panicked")
        BY <2>3, <3>2 DEF Panic
      <3> QED BY <1>3, <3>3 DEF Ends
    <2> QED BY <1>9, <2>1, <2>2, <2>3
  <1>10. ASSUME NEW p \in Pairs, Grant(p) \/ Revoke(p) PROVE Stays(c)
    BY <1>1, <1>10 DEF Grant, Revoke, Stays, CallRecord
  <1>11. ASSUME Tick PROVE Stays(c)
    BY <1>1, <1>11 DEF Tick, Stays, CallRecord
  <1> QED
    BY <1>2, <1>4, <1>5, <1>6, <1>7, <1>8, <1>9, <1>10, <1>11 DEF Next, Proceed

-----------------------------------------------------------------------------
\* Places, caches and ages keep their bounds whatever kacho-iam does.
THEOREM TypeCorrect == Spec => []TypeOK
  BY AdmissionAlways, PTL DEF AdmissionInv

\* The recovery interceptor is around every other link of assembleUnaryChain: no
\* panic takes the process down.
THEOREM OnePanicOneCall == Spec => []PanicsContained
  BY AdmissionAlways, PTL DEF AdmissionInv

\* No handler stores an operation for the bootstrap principal: a mutation needs a
\* relation, and the interceptor denies a caller without a principal.
THEOREM NobodysOperations == Spec => []BootstrapOwnsNothing
  BY AdmissionAlways, PTL DEF AdmissionInv

\* validateSecurityConfig leaves no production process with a plaintext listener or
\* an allow-list that names nobody, so newPrincipalInterceptors believes only those
\* that the list names.
THEOREM OnlyForwarders == Spec => []UsersSpeakThroughForwarders
  <1>1. AdmissionInv => UsersSpeakThroughForwarders
    <2> SUFFICES ASSUME AdmissionInv, cfg.mode \in Production,
                        NEW c \in Calls, call[c].principal \in Users
                 PROVE  call[c].peer \in cfg.forwarders \ {EmptySAN}
      BY DEF UsersSpeakThroughForwarders
    <2>1. cfg \in Configurations /\ Accepted(cfg)
      BY AdmissionAssumption DEF AdmissionInv, TypeOK
    <2>2. cfg.publicTLS /\ cfg.internalTLS /\ NonEmpty(cfg) # {}
      BY <2>1 DEF Accepted, validateSecurityConfig
    <2>3. TrustedForwarder(cfg, call[c].peer)
      BY <2>2 DEF AdmissionInv, Good, ForwardedInv, TLS
    <2> QED BY <2>2, <2>3 DEF TrustedForwarder, NonEmpty
  <1> QED BY <1>1, AdmissionAlways, PTL

\* The only ways into a handler that needs a relation are a cached answer and a Check
\* that has just been allowed; both are as young as the interceptor's TTL and
\* CheckTimeout say.
THEOREM WarrantedEntries == Spec => EntryIsWarranted
  <1>1. ASSUME AdmissionInv, [Next]_vars
        PROVE  [\A c \in Calls :
                   Enters(c) /\ ~cfg.breakglass /\ PermissionMap(call[c].method) # "exempt"
                      => /\ Pair(call[c]) \in Pairs
                         /\ age[Pair(call[c])] <= TTL + CheckTimeout]_vars
    <2> SUFFICES ASSUME Next, NEW c \in Calls, Enters(c), ~cfg.breakglass,
                        PermissionMap(call[c].method) # "exempt"
                 PROVE  /\ Pair(call[c]) \in Pairs
                        /\ age[Pair(call[c])] <= TTL + CheckTimeout
      BY <1>1
    <2>1. Good(call[c]) /\ call[c] \in CallRecord
      BY <1>1 DEF AdmissionInv, Good
    <2>2. call[c].at # 4 /\ call'[c].at = 4
      <3>1. AdmissionInv'
        BY <1>1, AdmissionStep
      <3>2. call'[c].at \in 0 .. 4
        BY <3>1 DEF AdmissionInv, TypeOK, CallRecord
      <3>3. up
        BY <1>1 DEF AdmissionInv, PanicsContained
      <3> QED BY <2>1, <3>2, <3>3 DEF Enters, At, assembleUnaryChain, CallRecord
    <2>3. Pass(c) \/ Allowed(c)
      BY <1>1, <2>2, StepOfACall DEF Stays, Advances, IsLetIn, Ends
    <2>4. CASE Pass(c)
      <3>1. Pair(call[c]) \in Pairs /\ cache[Pair(call[c])] > 0
        BY <2>4 DEF Pass
      <3>2. age[Pair(call[c])] <= TTL - cache[Pair(call[c])] + CheckTimeout + 1
        BY <1>1, <3>1 DEF AdmissionInv, CacheInv
      <3>3. /\ age[Pair(call[c])] \in Nat
            /\ cache[Pair(call[c])] \in 0 .. TTL
        BY <1>1, <3>1, Bounds DEF AdmissionInv, TypeOK
      <3> QED BY <3>1, <3>2, <3>3, Bounds
    <2>5. CASE Allowed(c)
      <3>1. call[c].verdict = "yes" /\ call[c].at = 3
        BY <2>1, <2>5, Places DEF Allowed, CallRecord
      <3>2. /\ Pair(call[c]) \in Pairs
            /\ age[Pair(call[c])] <= CheckTimeout - call[c].left + 1
        BY <2>1, <3>1 DEF Good, CheckInv
      <3>3. age[Pair(call[c])] \in Nat /\ call[c].left \in 0 .. CheckTimeout
        BY <1>1, <2>1, <3>2, Bounds DEF AdmissionInv, TypeOK, CallRecord
      <3> QED BY <3>2, <3>3, Bounds
    <2> QED BY <2>3, <2>4, <2>5
  <1> QED BY <1>1, AdmissionAlways, PTL DEF Spec, EntryIsWarranted

\* PermissionMap leaves no registered RPC out, so the interceptor denies only those
\* without a principal and those whose own Check said no.
THEOREM DenialsHaveACause == Spec => DeniedForCause
  <1>1. ASSUME AdmissionInv, [Next]_vars
        PROVE  [\A c \in Calls : call'[c].outcome = "denied" /\ call[c].at > 0 =>
                   call[c].lacked \/ call[c].principal = Nobody]_vars
    <2> SUFFICES ASSUME Next, NEW c \in Calls,
                        call'[c].outcome = "denied", call[c].at > 0
                 PROVE  call[c].lacked \/ call[c].principal = Nobody
      BY <1>1
    <2>1. Good(call[c]) /\ call[c].outcome = "none"
      BY <1>1 DEF AdmissionInv, Good, CallInv
    <2>2. Deny(c) \/ Denied(c)
      BY <1>1, <2>1, StepOfACall DEF Stays, Advances, IsLetIn, Ends
    <2>3. CASE Deny(c)
      <3>1. call[c].method \in Methods
        BY <2>1 DEF Good, CallRecord
      <3>2. PermissionMap(call[c].method) # "unmapped"
        BY <3>1 DEF PermissionMap, Methods
      <3> QED BY <2>3, <3>2 DEF Deny
    <2>4. CASE Denied(c)
      BY <2>1, <2>4 DEF Denied, Good, CheckInv
    <2> QED BY <2>2, <2>3, <2>4
  <1> QED BY <1>1, AdmissionAlways, PTL DEF Spec, DeniedForCause

-----------------------------------------------------------------------------
(* What CallsAnswered rests on: the interceptor has exactly one thing to   *)
(* do with every call, and a call only goes forward.                       *)

\* The guards of Pass, Deny and Check on a call at the interceptor.
MayPass(r) ==
    \/ cfg.breakglass
    \/ PermissionMap(r.method) = "exempt"
    \/ Pair(r) \in Pairs /\ cache[Pair(r)] > 0

MustBeDenied(r) ==
    /\ ~cfg.breakglass
    /\ \/ PermissionMap(r.method) = "unmapped"
       \/ PermissionMap(r.method) \in Relations /\ r.principal = Nobody

MustBeChecked(r) ==
    ~cfg.breakglass /\ Pair(r) \in Pairs /\ cache[Pair(r)] = 0

\* The authz interceptor passes, denies or checks every call, and never has a choice.
AuthzDecides ==
    \A c \in Calls : At(c, "authz") /\ call[c].verdict = "none" =>
        LET r == call[c]
        IN  /\ MayPass(r) \/ MustBeDenied(r) \/ MustBeChecked(r)
            /\ MayPass(r) => ~MustBeDenied(r) /\ ~MustBeChecked(r)
            /\ MustBeDenied(r) => ~MustBeChecked(r)

\* A call goes forward through the chain and its Check towards its deadline; and whom
\* and what the Check was about is whom and what the handler is called for.
CallsOnlyAdvance ==
    [][\A c \in Calls : call[c].at > 0 /\ call'[c].at > 0 =>
          /\ call'[c].at >= call[c].at
          /\ call'[c].method = call[c].method /\ call'[c].claim = call[c].claim
          /\ call[c].at >= 3 => call'[c].principal = call[c].principal
          /\ call[c].verdict # "none" =>
                call'[c].verdict # "none" /\ call'[c].left <= call[c].left]_vars

\* Every RPC is in the permission map, every relation it names is one kacho-iam is
\* asked for, and a principal that is nobody's is never asked about.
THEOREM OneDecision == Spec => []AuthzDecides
  <1>1. AdmissionInv => AuthzDecides
    <2> SUFFICES ASSUME AdmissionInv, NEW c \in Calls
                 PROVE  LET r == call[c]
                        IN  /\ MayPass(r) \/ MustBeDenied(r) \/ MustBeChecked(r)
                            /\ MayPass(r) => ~MustBeDenied(r) /\ ~MustBeChecked(r)
                            /\ MustBeDenied(r) => ~MustBeChecked(r)
      BY DEF AuthzDecides
    <2> DEFINE r == call[c]
               p == Pair(r)
    <2>1. r \in CallRecord /\ cfg \in Settings
      BY AdmissionAssumption DEF AdmissionInv, TypeOK
    <2>2. r.method \in Methods /\ r.principal \in Users \cup {Nobody}
      BY <2>1 DEF CallRecord, Claims
    <2>3. PermissionMap(r.method) \in Relations \cup {"exempt"}
      BY <2>2 DEF PermissionMap, Methods, Relations
    <2>4. PermissionMap(r.method) = "exempt" => PermissionMap(r.method) \notin Relations
      BY DEF Relations
    <2>5. p \in Pairs <=> r.principal \in Users /\ PermissionMap(r.method) \in Relations
      BY DEF Pair, Pairs
    <2>6. Nobody \notin Users
      BY AdmissionAssumption DEF Nobody
    <2>7. p \in Pairs => (cache[p] > 0 <=> cache[p] # 0)
      <3>1. p \in Pairs => cache[p] \in 0 .. TTL
        BY DEF AdmissionInv, TypeOK
      <3> QED BY <3>1, Bounds
    <2>8. PermissionMap(r.method) # "unmapped"
      BY <2>3 DEF Relations
    <2> QED
      BY <2>2, <2>3, <2>4, <2>5, <2>6, <2>7, <2>8 DEF MayPass, MustBeDenied, MustBeChecked
  <1> QED BY <1>1, AdmissionAlways, PTL

\* The interceptors of the chain neither run twice nor change a call behind its Check.
THEOREM CallsAdvance == Spec => CallsOnlyAdvance
  <1> DEFINE Forward(c) ==
                call[c].at > 0 /\ call'[c].at > 0 =>
                  /\ call'[c].at >= call[c].at
                  /\ call'[c].method = call[c].method /\ call'[c].claim = call[c].claim
                  /\ call[c].at >= 3 => call'[c].principal = call[c].principal
                  /\ call[c].verdict # "none" =>
                        call'[c].verdict # "none" /\ call'[c].left <= call[c].left
  <1>1. ASSUME AdmissionInv, [Next]_vars
        PROVE  [\A c \in Calls : Forward(c)]_vars
    <2> SUFFICES ASSUME Next, NEW c \in Calls PROVE Forward(c)
      BY <1>1
    <2>1. /\ call \in [Calls -> CallRecord] /\ call[c] \in CallRecord /\ Good(call[c])
          /\ call[c].at \in Nat /\ call[c].left \in Nat
      BY <1>1, Bounds DEF AdmissionInv, TypeOK, Good, CallRecord
    <2>2. ASSUME NEW d \in Calls, d # c,
                 Arrive(d) \/ Proceed(d) \/ Evaluate(d) \/ CheckFails(d) \/ Panic(d)
          PROVE  call'[c] = call[c]
      BY <2>1, <2>2 DEF Arrive, Proceed, Evaluate, CheckFails, Panic, Recover,
         ExtractPrincipal, Pass, Deny, Check, Allowed, Denied, Handle, PassOn, Answer
    <2>3. ASSUME call'[c] = call[c] PROVE Forward(c)
      BY <2>1, <2>3
    <2>4. ASSUME Arrive(c) PROVE Forward(c)
      BY <2>1, <2>4 DEF Arrive
    <2>5. ASSUME PassOn(c) PROVE Forward(c)
      BY <2>1, <2>5 DEF PassOn, CallRecord
    <2>6. ASSUME NEW outcome, Answer(c, outcome) PROVE Forward(c)
      BY <2>1, <2>6 DEF Answer, NoCall
    <2>7. ASSUME ExtractPrincipal(c) PROVE Forward(c)
      <3>1. call[c].at = 2
        BY <2>1, <2>7, Places DEF ExtractPrincipal, CallRecord
      <3>2. /\ call'[c].at = 3 /\ call'[c].method = call[c].method
            /\ call'[c].claim = call[c].claim /\ call'[c].verdict = call[c].verdict
            /\ call'[c].left = call[c].left
        BY <2>1, <2>7, <3>1 DEF ExtractPrincipal, CallRecord
      <3> QED BY <2>1, <3>1, <3>2
    <2>8. ASSUME Check(c) \/ Evaluate(c) PROVE Forward(c)
      <3>1. CASE Check(c)
        BY <2>1, <3>1 DEF Check, CallRecord
      <3>2. CASE Evaluate(c)
        BY <2>1, <3>2 DEF Evaluate, CallRecord
      <3> QED BY <2>8, <3>1, <3>2
    <2>9. ASSUME Handle(c) PROVE Forward(c)
      <3>1. Answer(c, "ok") \/ Answer(c, "failed")
        BY <2>9, Zenon DEF Handle
      <3> QED BY <2>6, <3>1
    <2>10. ASSUME Panic(c) PROVE Forward(c)
      <3>1. Answer(c, "panicked") \/ call' = call
        BY <2>10, Zenon DEF Panic
      <3> QED BY <2>3, <2>6, <3>1
    <2>11. ASSUME NEW p \in Pairs, Grant(p) \/ Revoke(p) PROVE Forward(c)
      <3>1. CASE Grant(p)
        BY <2>3, <3>1 DEF Grant
      <3>2. CASE Revoke(p)
        BY <2>1, <3>2 DEF Revoke, CallRecord
      <3> QED BY <2>11, <3>1, <3>2
    <2>12. ASSUME Tick PROVE Forward(c)
      <3>1. call'[c] = [call[c] EXCEPT !.left = Down(@)]
        BY <2>12 DEF Tick
      <3>2. Down(call[c].left) <= call[c].left
        BY <2>1 DEF Down
      <3> QED BY <2>1, <3>1, <3>2 DEF CallRecord
    <2>13. Recover(c) \/ Pass(c) \/ Allowed(c) => PassOn(c)
      BY DEF Recover, Pass, Allowed
    <2>14. Deny(c) \/ Denied(c) \/ CheckFails(c) => \E outcome : Answer(c, outcome)
      BY DEF Deny, Denied, CheckFails
    <2> HIDE DEF Forward
    <2>15. ASSUME NEW d \in Calls,
                  Arrive(d) \/ Proceed(d) \/ Evaluate(d) \/ CheckFails(d) \/ Panic(d)
           PROVE  Forward(c)
      <3>1. CASE d # c
        BY <2>2, <2>3, <2>15, <3>1
      <3>2. CASE d = c
        BY <2>4, <2>5, <2>6, <2>7, <2>8, <2>9, <2>10, <2>13, <2>14, <2>15, <3>2
           DEF Proceed
      <3> QED BY <3>1, <3>2
    <2> QED BY <2>11, <2>12, <2>15 DEF Next
  <1> QED BY <1>1, AdmissionAlways, PTL DEF Spec, CallsOnlyAdvance

==============================================================================
