------------------------ MODULE AuthenticationProofs ------------------------
(***************************************************************************)
(* Proofs about Authentication for all settings, credentials, documents,   *)
(* clocks and widths of the integers: IInv is inductive, and with it every *)
(* answer is the one the settings ask for.                                 *)
(***************************************************************************)
EXTENDS Authentication, WellFoundedInduction, TLAPS

-----------------------------------------------------------------------------
(* Arithmetic and the order of the checks.                                 *)

\* A set of naturals that is not empty has a least element.
LEMMA LeastExists ==
  ASSUME NEW S, S \subseteq Nat, S # {}
  PROVE  \E i \in S : \A j \in S : i <= j
<1>1. PICK i \in S : \A j \in S : ~(<<j, i>> \in OpToRel(<, Nat))
  BY NatLessThanWellFounded, WFMin, Zenon
<1>2. \A j \in S : ~(j < i)
  BY <1>1 DEF OpToRel
<1> QED BY <1>2

\* The saturating sum is exact for what a u64 can be compared with.
LEMMA AddCompares ==
  ASSUME NEW a \in Instants, NEW now \in Instants
  PROVE  a > Add(now, Skew) <=> a > now + Skew
BY TopAssumption, SkewAssumption DEF Add, Instants

\* Remainders of small numbers.
LEMMA SmallRemainder ==
  ASSUME NEW a \in Nat, NEW n \in Nat, a < n
  PROVE  a % n = a
OBVIOUS

\* The lifetime of a token that is issued before it expires does not wrap.
LEMMA SubExact ==
  ASSUME NEW a \in Instants, NEW b \in Instants, b <= a
  PROVE  Sub(a, b) = a - b
<1>1. a - b \in Nat /\ a - b < Top + 1 /\ Top + 1 \in Nat
  BY TopAssumption DEF Instants
<1> QED BY <1>1, SmallRemainder DEF Sub

\* The 22 names, in order.
LEMMA ChecksInOrder ==
  /\ DOMAIN Checks = 1..22
  /\ Checks[1] = "MissingCredential" /\ Checks[2] = "DuplicateCredential"
  /\ Checks[3] = "TokenTooLarge" /\ Checks[4] = "MalformedAuthorization"
  /\ Checks[5] = "MalformedToken" /\ Checks[6] = "InvalidHeader"
  /\ Checks[7] = "UnsupportedAlgorithm" /\ Checks[8] = "MissingKid"
  /\ Checks[9] = "TypeMismatch" /\ Checks[10] = "KeysUnavailable"
  /\ Checks[11] = "UnknownKey" /\ Checks[12] = "BadSignature"
  /\ Checks[13] = "InvalidClaims" /\ Checks[14] = "MissingClaim"
  /\ Checks[15] = "InvalidTimes" /\ Checks[16] = "Expired"
  /\ Checks[17] = "IssuedInFuture" /\ Checks[18] = "NotYetValid"
  /\ Checks[19] = "LifetimeTooLong" /\ Checks[20] = "WrongIssuer"
  /\ Checks[21] = "WrongAudience" /\ Checks[22] = "SubjectNotAllowed"
BY DEF Checks

-----------------------------------------------------------------------------
(* What it takes to pass the checks, in their three groups.                *)

PassesUnsigned(t) ==
  /\ t.flaw = None
  /\ t.alg = "ES256"
  /\ t.kid # None
  /\ policy.typ # None => t.typ = policy.typ

PassesKeys(t, keys) ==
  /\ keys # None
  /\ Under(keys, t.kid) # {}
  /\ t.signer = KeyOf(keys, t.kid)

PassesClaims(t, now) ==
  /\ t.readable
  /\ t.lacks = {} /\ t.sub # None
  /\ t.iat < t.exp
  /\ now < t.exp
  /\ t.iat <= now + Skew
  /\ t.nbf # None => t.nbf <= now + Skew
  /\ t.exp - t.iat <= policy.maxLifetime
  /\ policy.issuer # None => t.iss = policy.issuer
  /\ policy.audience \in t.aud
  /\ policy.subjects # None => t.sub \in policy.subjects

\* The first nine checks fail a token exactly if it does not pass unsigned.
LEMMA UnsignedChecks ==
  ASSUME NEW t \in Tokens
  PROVE  /\ (\A i \in 1..9 : ~FailsUnsigned(Checks[i], t)) => PassesUnsigned(t)
         /\ PassesUnsigned(t) => \A i \in DOMAIN Checks : ~FailsUnsigned(Checks[i], t)
<1>1. ASSUME \A i \in 1..9 : ~FailsUnsigned(Checks[i], t)
      PROVE  PassesUnsigned(t)
  <2>1. \A i \in 1..6 : Checks[i] # t.flaw
    BY <1>1 DEF FailsUnsigned
  <2>2. t.flaw = None
    BY <2>1, TokensAssumption DEF Flaws
  <2>3. /\ ~FailsUnsigned("UnsupportedAlgorithm", t) /\ ~FailsUnsigned("MissingKid", t)
        /\ ~FailsUnsigned("TypeMismatch", t)
    BY <1>1, ChecksInOrder
  <2> QED BY <2>2, <2>3 DEF FailsUnsigned, PassesUnsigned
<1>2. ASSUME PassesUnsigned(t), NEW i \in DOMAIN Checks
      PROVE  ~FailsUnsigned(Checks[i], t)
  <2>1. Checks[i] # t.flaw
    BY <1>2, TokensAssumption DEF PassesUnsigned
  <2> QED BY <1>2, <2>1 DEF FailsUnsigned, PassesUnsigned
<1> QED BY <1>1, <1>2

\* The next three fail it exactly if the keys do not have its signer.
LEMMA KeysChecks ==
  ASSUME NEW t, NEW keys
  PROVE  /\ (\A i \in 10..12 : ~FailsKeys(Checks[i], t, keys)) => PassesKeys(t, keys)
         /\ PassesKeys(t, keys) => \A i \in DOMAIN Checks : ~FailsKeys(Checks[i], t, keys)
<1>1. (\A i \in 10..12 : ~FailsKeys(Checks[i], t, keys)) =>
        /\ ~FailsKeys("KeysUnavailable", t, keys) /\ ~FailsKeys("UnknownKey", t, keys)
        /\ ~FailsKeys("BadSignature", t, keys)
  BY ChecksInOrder
<1> QED BY <1>1 DEF FailsKeys, PassesKeys

\* The last ten fail it exactly if its claims do not meet the policy.
LEMMA ClaimsChecks ==
  ASSUME NEW t \in Tokens, NEW now \in Instants, policy.maxLifetime \in Nat
  PROVE  (\A i \in DOMAIN Checks : ~FailsClaims(Checks[i], t, now)) <=> PassesClaims(t, now)
<1>1. t.iat \in Nat /\ t.exp \in Nat /\ now \in Nat /\ now + Skew \in Nat
  BY TokensAssumption, TopAssumption, SkewAssumption DEF Instants
<1>2. t.iat > Add(now, Skew) <=> t.iat > now + Skew
  BY AddCompares, TokensAssumption
<1>3. t.nbf # None => t.nbf \in Nat /\ (t.nbf > Add(now, Skew) <=> t.nbf > now + Skew)
  <2>1. t.nbf # None => t.nbf \in Instants
    BY TokensAssumption
  <2> QED BY <2>1, AddCompares, TopAssumption DEF Instants
<1>4. t.iat < t.exp => Sub(t.exp, t.iat) = t.exp - t.iat
  BY <1>1, SubExact, TokensAssumption
<1>5. ASSUME \A i \in DOMAIN Checks : ~FailsClaims(Checks[i], t, now)
      PROVE  PassesClaims(t, now)
  <2>1. \A r \in {"InvalidClaims", "MissingClaim", "InvalidTimes", "Expired", "IssuedInFuture",
                  "NotYetValid", "LifetimeTooLong", "WrongIssuer", "WrongAudience",
                  "SubjectNotAllowed"} : ~FailsClaims(r, t, now)
    BY <1>5, ChecksInOrder
  <2>2. /\ t.readable /\ t.lacks = {} /\ t.sub # None
        /\ policy.issuer # None => t.iss = policy.issuer
        /\ policy.audience \in t.aud
        /\ policy.subjects # None => t.sub \in policy.subjects
    BY <2>1 DEF FailsClaims
  <2>3. /\ ~(t.iat >= t.exp) /\ ~(t.exp <= now) /\ ~(t.iat > Add(now, Skew))
        /\ t.nbf # None => ~(t.nbf > Add(now, Skew))
        /\ ~(Sub(t.exp, t.iat) > policy.maxLifetime)
    BY <2>1 DEF FailsClaims, HasExpired
  <2>4. /\ t.iat < t.exp /\ now < t.exp /\ t.iat <= now + Skew
        /\ t.nbf # None => t.nbf <= now + Skew
        /\ t.exp - t.iat <= policy.maxLifetime
    BY <1>1, <1>2, <1>3, <1>4, <2>3
  <2> QED BY <2>2, <2>4 DEF PassesClaims
<1>6. ASSUME PassesClaims(t, now), NEW i \in DOMAIN Checks, FailsClaims(Checks[i], t, now)
      PROVE  FALSE
  <2>1. /\ ~(t.iat >= t.exp) /\ ~(t.exp <= now) /\ ~(t.iat > Add(now, Skew))
        /\ t.nbf # None => ~(t.nbf > Add(now, Skew))
        /\ ~(Sub(t.exp, t.iat) > policy.maxLifetime)
    BY <1>1, <1>2, <1>3, <1>4, <1>6 DEF PassesClaims
  <2> QED BY <1>6, <2>1 DEF FailsClaims, PassesClaims, HasExpired
<1> QED BY <1>5, <1>6

\* A token is accepted exactly if it passes all three groups.
LEMMA AcceptedPasses ==
  ASSUME NEW t \in Tokens, NEW keys, NEW now \in Instants, policy.maxLifetime \in Nat
  PROVE  Verdict(t, keys, now) = "accepted" <=>
           PassesUnsigned(t) /\ PassesKeys(t, keys) /\ PassesClaims(t, now)
<1>1. Failing(t, keys, now) = {} <=>
        PassesUnsigned(t) /\ PassesKeys(t, keys) /\ PassesClaims(t, now)
  <2>1. Failing(t, keys, now) = {} <=>
          \A i \in DOMAIN Checks : /\ ~FailsUnsigned(Checks[i], t)
                                   /\ ~FailsKeys(Checks[i], t, keys)
                                   /\ ~FailsClaims(Checks[i], t, now)
    BY DEF Failing
  <2> QED BY <2>1, ChecksInOrder, UnsignedChecks, KeysChecks, ClaimsChecks
<1>2. ASSUME Failing(t, keys, now) # {}
      PROVE  Verdict(t, keys, now) # "accepted"
  <2> DEFINE least == CHOOSE i \in Failing(t, keys, now) :
                        \A j \in Failing(t, keys, now) : i <= j
  <2>1. Failing(t, keys, now) \subseteq 1..22
    BY ChecksInOrder DEF Failing
  <2>2. least \in 1..22
    BY <1>2, <2>1, LeastExists
  <2>3. \A i \in 1..22 : Checks[i] # "accepted"
    BY ChecksInOrder
  <2>4. Verdict(t, keys, now) = Checks[least]
    BY <1>2 DEF Verdict
  <2> HIDE DEF least
  <2> QED BY <2>2, <2>3, <2>4
<1> QED BY <1>1, <1>2 DEF Verdict

\* A rejection that is not of the first twelve is of a token that passes those.
LEMMA LateRejection ==
  ASSUME NEW t \in Tokens, NEW keys, NEW now \in Instants,
         Verdict(t, keys, now) \notin BeforeClaims
  PROVE  PassesUnsigned(t) /\ PassesKeys(t, keys)
<1> DEFINE failing == Failing(t, keys, now)
           least == CHOOSE i \in failing : \A j \in failing : i <= j
<1>1. \A i \in 1..12 : i \notin failing
  <2> SUFFICES ASSUME NEW i \in 1..12, i \in failing PROVE FALSE
    OBVIOUS
  <2>1. failing \subseteq 1..22
    BY ChecksInOrder DEF Failing
  <2>2. least \in failing /\ least <= i
    BY <2>1, LeastExists
  <2>3. least \in 1..12
    BY <2>1, <2>2
  <2>4. Verdict(t, keys, now) = Checks[least]
    BY DEF Verdict
  <2> QED BY <2>3, <2>4 DEF BeforeClaims
<1>2. \A i \in 1..12 : ~FailsUnsigned(Checks[i], t) /\ ~FailsKeys(Checks[i], t, keys)
  BY <1>1, ChecksInOrder DEF Failing
<1> QED BY <1>2, UnsignedChecks, KeysChecks

-----------------------------------------------------------------------------
(* The keys.                                                               *)

\* Under distinct kids the key that is found is the only one there is.
LEMMA FoundKeyIsOnly ==
  ASSUME NEW keys, NEW t, DOMAIN keys \subseteq Nat, DistinctKids(keys)
  PROVE  Under(keys, t.kid) # {} /\ t.signer = KeyOf(keys, t.kid) <=>
           {keys[i].key : i \in Under(keys, t.kid)} = {t.signer}
<1>1. CASE Under(keys, t.kid) = {}
  BY <1>1
<1>2. ASSUME NEW i \in Under(keys, t.kid)
      PROVE  Under(keys, t.kid) = {i} /\ KeyOf(keys, t.kid) = keys[i].key
  <2>1. Under(keys, t.kid) = {i} /\ i \in Nat
    BY <1>2 DEF Under, DistinctKids
  <2>2. (CHOOSE j \in Under(keys, t.kid) : \A k \in Under(keys, t.kid) : j <= k) = i
    BY <2>1
  <2> QED BY <2>1, <2>2 DEF KeyOf
<1> QED BY <1>1, <1>2

\* A document that parses is a sound set of keys.
LEMMA ParsedIsSound ==
  ASSUME NEW d \in Documents, Parse(d) # None
  PROVE  /\ DOMAIN Parse(d) \subseteq Nat
         /\ DistinctKids(Parse(d))
         /\ \A i \in DOMAIN Parse(d) : Parse(d)[i].usable
BY DocumentsAssumption DEF Parse, Sound

-----------------------------------------------------------------------------
(* The invariant.                                                          *)

\* Settings with a key document that are not contradictory have a lifetime.
LEMMA LifetimeInLimits ==
  ASSUME NEW e, Jwks(e) # None, ~Contradictory(e)
  PROVE  /\ PolicyOf(e).maxLifetime \in Nat
         /\ PolicyOf(e).maxLifetime =
              IF e.maxLifetime = None THEN DefaultLifetime ELSE e.maxLifetime
BY LifetimeAssumption DEF Contradictory, IsSet, PolicyOf

\* Nothing is configured and nothing answered at first.
LEMMA InitEstablishes == Init => IInv
BY DEF Init, IInv, ModeFromSettings, KeysSound, AnswerIsVerdict, FirstWasTimely

\* A start that is not refused has settings that are neither unreadable nor
\* contradictory.
LEMMA StartStep ==
  ASSUME IInv, NEW e \in Settings, NEW d \in Documents, Start(e, d)
  PROVE  IInv'
<1> USE DEF Start
<1>1. answer = "none" /\ first = None /\ UNCHANGED <<token, answer, at, first>> /\ env' = e
  BY DEF IInv, ModeFromSettings
<1>2. ModeFromSettings'
  BY <1>1 DEF ModeFromSettings
<1>3. KeysSound'
  <2>1. CASE UNCHANGED loaded
    BY <2>1 DEF IInv, KeysSound, DistinctKids
  <2>2. CASE loaded' = Parse(d)
    BY <2>2, ParsedIsSound DEF KeysSound
  <2> QED BY <2>1, <2>2
<1>4. AnswerIsVerdict' /\ FirstWasTimely'
  BY <1>1 DEF AnswerIsVerdict, FirstWasTimely
<1> QED BY <1>2, <1>3, <1>4 DEF IInv

\* The answer to a request is the verdict under the keys of that moment, and
\* the first acceptance was of the token that is there still.
LEMMA RequestStep ==
  ASSUME IInv, NEW t \in Tokens, NEW now \in Instants, Request(t, now)
  PROVE  IInv'
<1>1. /\ mode \in {"open", "jwt"} /\ UNCHANGED <<mode, env, policy>>
      /\ token \in {None, t} /\ token' = t /\ at' = now
      /\ first' = IF first = None /\ answer' = "accepted" THEN now ELSE first
  BY DEF Request
<1>2. /\ mode = "open" => answer' = "accepted" /\ loaded' = loaded
      /\ mode = "jwt" => answer' = Verdict(t, loaded', now)
      /\ loaded' = loaded \/ Lookup
  BY DEF Request
<1>3. ModeFromSettings'
  BY <1>1 DEF IInv, ModeFromSettings
<1>4. KeysSound'
  <2>1. CASE loaded' = loaded
    BY <2>1 DEF IInv, KeysSound, DistinctKids
  <2>2. ASSUME NEW d \in Documents, loaded' = Parse(d)
        PROVE  KeysSound'
    BY <2>2, ParsedIsSound DEF KeysSound
  <2> QED BY <1>2, <2>1, <2>2 DEF Lookup, KeySets
<1>5. AnswerIsVerdict'
  <2>1. Verdict(t, loaded', now) = Verdict(token, loaded, at)'
    BY <1>1 DEF Verdict, Failing, FailsUnsigned, FailsKeys, FailsClaims
  <2> QED BY <1>1, <1>2, <2>1 DEF AnswerIsVerdict
<1>6. FirstWasTimely'
  <2>1. mode = "jwt" => policy.maxLifetime \in Nat
    BY LifetimeInLimits DEF IInv, ModeFromSettings
  <2>2. first # None => token = t
    BY <1>1, TokensAssumption DEF IInv, FirstWasTimely
  <2>3. mode = "jwt" /\ answer' = "accepted" => Timely(t, now)
    BY <1>2, <2>1, AcceptedPasses DEF PassesClaims, Timely
  <2>4. first' # None => first' \in Instants /\ (mode = "jwt" => Timely(t, first'))
    BY <1>1, <2>2, <2>3 DEF IInv, FirstWasTimely
  <2>5. answer' = "accepted" => first' # None
    BY <1>1, NoneAssumption
  <2> QED BY <1>1, <2>4, <2>5 DEF FirstWasTimely, Timely
<1> QED BY <1>3, <1>4, <1>5, <1>6 DEF IInv

\* IInv holds in every state of every execution.
THEOREM InductiveInvariant == Spec => []IInv
<1>1. IInv /\ [Next]_vars => IInv'
  <2> SUFFICES ASSUME IInv, [Next]_vars PROVE IInv'
    OBVIOUS
  <2>1. CASE Next
    BY <2>1, StartStep, RequestStep DEF Next
  <2>2. CASE UNCHANGED vars
    BY <2>2 DEF vars, IInv, ModeFromSettings, KeysSound, AnswerIsVerdict, FirstWasTimely,
                Verdict, Failing, FailsUnsigned, FailsKeys, FailsClaims, Timely
  <2> QED BY <2>1, <2>2
<1> QED BY InitEstablishes, <1>1, PTL DEF Spec

-----------------------------------------------------------------------------
(* The theorems.                                                           *)

\* Under sound keys a token passes the check of its key exactly if the one
\* listed key signed it.
LEMMA PassesKeysIsSigned ==
  ASSUME KeysSound
  PROVE  PassesKeys(token, loaded) <=> Signed
BY FoundKeyIsOnly DEF KeysSound, PassesKeys, Signed

\* A request is let through exactly if the settings of the start allow it.
THEOREM SettingsAlwaysEnforced == Spec => []SettingsEnforced
<1>1. ASSUME IInv, answer # "none"
      PROVE  answer = "accepted" <=> OnlyInsecure(env) \/ (Signed /\ Meets(env, token, at))
  <2>1. env \in Settings /\ mode \in {"open", "jwt"}
    BY <1>1 DEF IInv, ModeFromSettings
  <2>2. CASE mode = "open"
    <3>1. answer = "accepted"
      BY <1>1, <2>2 DEF IInv, AnswerIsVerdict
    <3>2. OnlyInsecure(env)
      BY <1>1, <2>1, <2>2, SettingsAssumption
      DEF IInv, ModeFromSettings, Contradictory, Stray, Jwks, IsSet, JwtSettings, OnlyInsecure
    <3> QED BY <3>1, <3>2
  <2>3. CASE mode = "jwt"
    <3>1. ~OnlyInsecure(env)
      BY <1>1, <2>1, <2>3, SettingsAssumption
      DEF IInv, ModeFromSettings, Jwks, IsSet, OnlyInsecure
    <3>2. policy = PolicyOf(env) /\ policy.maxLifetime \in Nat
          /\ policy.maxLifetime = IF env.maxLifetime = None THEN DefaultLifetime
                                  ELSE env.maxLifetime
      BY <1>1, <2>3, LifetimeInLimits DEF IInv, ModeFromSettings
    <3>3. token \in Tokens /\ at \in Instants /\ answer = Verdict(token, loaded, at)
      BY <1>1, <2>3 DEF IInv, AnswerIsVerdict
    <3>4. answer = "accepted" <=>
            PassesUnsigned(token) /\ PassesKeys(token, loaded) /\ PassesClaims(token, at)
      BY <3>2, <3>3, AcceptedPasses
    <3>5. PassesUnsigned(token) /\ PassesClaims(token, at) <=> Meets(env, token, at)
      <4>1. token.iat \in Nat /\ token.exp \in Nat
        BY <3>3, TokensAssumption, TopAssumption DEF Instants
      <4>2. token.exp - token.iat \in 1..policy.maxLifetime <=>
              token.iat < token.exp /\ token.exp - token.iat <= policy.maxLifetime
        BY <3>2, <4>1
      <4> QED BY <3>2, <4>2 DEF PassesUnsigned, PassesClaims, Meets, PolicyOf
    <3> QED BY <1>1, <3>1, <3>4, <3>5, PassesKeysIsSigned DEF IInv
  <2> QED BY <2>1, <2>2, <2>3
<1>2. IInv => SettingsEnforced
  BY <1>1 DEF SettingsEnforced
<1> QED BY <1>2, InductiveInvariant, PTL

\* Nothing unsigned is believed, whatever documents come and go.
THEOREM OnlySignedIsBelieved == Spec => []OnlySignedContent
<1>1. ASSUME IInv, mode = "jwt", answer \notin BeforeClaims \cup {"none"}
      PROVE  token.alg = "ES256" /\ Signed /\ \A i \in DOMAIN loaded : loaded[i].usable
  <2>1. token \in Tokens /\ at \in Instants /\ answer = Verdict(token, loaded, at)
    BY <1>1 DEF IInv, AnswerIsVerdict
  <2>2. PassesUnsigned(token) /\ PassesKeys(token, loaded)
    BY <1>1, <2>1, LateRejection
  <2>3. Signed
    BY <1>1, <2>2, PassesKeysIsSigned DEF IInv
  <2> QED BY <1>1, <2>2, <2>3 DEF PassesUnsigned, PassesKeys, IInv, KeysSound
<1>2. IInv => OnlySignedContent
  BY <1>1 DEF OnlySignedContent
<1> QED BY <1>2, InductiveInvariant, PTL

\* Two acceptances of one token are less than its lifetime and the skew apart.
THEOREM LifetimeAlwaysBounded == Spec => []LifetimeBounded
<1>1. ASSUME IInv, mode = "jwt", answer = "accepted"
      PROVE  (IF at > first THEN at - first ELSE first - at) < policy.maxLifetime + Skew
  <2>1. policy.maxLifetime \in Nat
    BY <1>1, LifetimeInLimits DEF IInv, ModeFromSettings
  <2>2. token \in Tokens /\ at \in Instants /\ Timely(token, at)
    BY <1>1, <2>1, AcceptedPasses DEF IInv, AnswerIsVerdict, PassesClaims, Timely
  <2>3. first \in Instants /\ Timely(token, first)
    BY <1>1 DEF IInv, FirstWasTimely
  <2>4. token.iat \in Nat /\ token.exp \in Nat /\ at \in Nat /\ first \in Nat
    BY <2>2, <2>3, TokensAssumption, TopAssumption DEF Instants
  <2> QED BY <2>1, <2>2, <2>3, <2>4, SkewAssumption DEF Timely
<1>2. IInv => LifetimeBounded
  BY <1>1 DEF LifetimeBounded
<1> QED BY <1>2, InductiveInvariant, PTL
=============================================================================
