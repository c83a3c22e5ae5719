----------------------------- MODULE Authentication -----------------------------
(***************************************************************************)
(* Who may call the agent: the settings read at the start (from_lookup of  *)
(* src/agent/src/auth/mod.rs), the key document they name (parse, open and *)
(* key of auth/jwks.rs) and the checks of a credential (bearer of          *)
(* auth/mod.rs, verify of auth/jwt.rs), behind the authenticate middleware *)
(* of src/agent/src/main.rs.                                               *)
(*                                                                         *)
(* A behaviour is one process and one caller, who presents the same        *)
(* credential any number of times, while the clock of the host is set at   *)
(* will and the key document is replaced at will.  When a cached document  *)
(* may still be used is the subject of KeyStore; here it always may.       *)
(*                                                                         *)
(* A signature is its signer: ring accepts a token under a key exactly if  *)
(* that key signed these bytes.                                            *)
(***************************************************************************)
EXTENDS Integers, Sequences, FiniteSets

CONSTANTS Settings,        \* environments of a start
          Tokens,          \* credentials a caller may hold
          Documents,       \* contents of the key file, Malformed if no JWKS
          Skew,            \* CLOCK_SKEW_SECS
          DefaultLifetime, \* DEFAULT_MAX_LIFETIME_SECS
          LifetimeLimit,   \* MAX_LIFETIME_LIMIT
          MaxKeys,         \* MAX_KEYS
          Top,             \* u64::MAX
          None,            \* a variable, member or claim that is not there
          Malformed        \* one that is there and cannot be read

ASSUME TopAssumption == Top \in Nat
ASSUME SkewAssumption == Skew \in Nat
ASSUME LifetimeAssumption == /\ LifetimeLimit \in Nat
                             /\ DefaultLifetime \in 1..LifetimeLimit

Instants == 0..Top
JwtSettings == {"audience", "issuer", "typ", "maxLifetime", "subjects"}

\* Every name is in an environment, if only as None; a document that can be
\* read is a list.
ASSUME SettingsAssumption ==
  \A e \in Settings :
    DOMAIN e = JwtSettings \cup {"retiredTokenFile", "jwksFile", "hngJwks", "insecure"}
ASSUME DocumentsAssumption ==
  \A d \in Documents \ {Malformed} : DOMAIN d \subseteq Nat
ASSUME NoneAssumption == None \notin Instants /\ None \notin {"1", Malformed}

VARIABLES mode,   \* the authenticator: "down", "refused", "open" or "jwt"
          env,    \* the settings of the start
          policy, \* the policy made of them
          loaded, \* the keys in the store's cache, None if there are none
          token,  \* what the caller holds, None before the first request
          answer, \* the latest answer: a rejection, "accepted" or "none"
          at,     \* the clock at that answer
          first   \* the clock at the first acceptance, None before

vars == <<mode, env, policy, loaded, token, answer, at, first>>

-----------------------------------------------------------------------------
(* Faulty variants of the definitions below.  The specification does not   *)
(* use them; each one is exchanged for its definition to show that a       *)
(* property notices.                                                       *)

NoSettingStray(e) == FALSE      \* settings that nothing reads are let pass
WrappingAdd(a, b) == (a + b) % (Top + 1)
SkewForExpiry(t, now) == IF now < Skew THEN FALSE ELSE t.exp <= now - Skew
AnyKids(document) == TRUE

-----------------------------------------------------------------------------
(* The settings.                                                           *)

IsSet(e, name) == e[name] # None

Jwks(e) == IF IsSet(e, "jwksFile") THEN e.jwksFile ELSE e.hngJwks

\* Settings of the JWT scheme without a key document to go with them.
Stray(e) == Jwks(e) = None /\ \E name \in JwtSettings : IsSet(e, name)

\* Unreadable values count only where from_lookup reads them: all of the JWT
\* settings once there is a key document.
Unreadable(e) ==
  Malformed \in {e[name] : name \in {"jwksFile", "hngJwks", "insecure"} \cup
                                    IF Jwks(e) = None THEN {} ELSE JwtSettings}

Contradictory(e) ==
  \/ IsSet(e, "retiredTokenFile")
  \/ IsSet(e, "jwksFile") /\ IsSet(e, "hngJwks") /\ e.jwksFile # e.hngJwks
  \/ Jwks(e) # None /\ IsSet(e, "insecure")
  \/ Jwks(e) = None /\ e.insecure # "1"
  \/ Stray(e)
  \/ Jwks(e) # None /\ ~IsSet(e, "audience")
  \/ IsSet(e, "maxLifetime") /\ e.maxLifetime \notin 1..LifetimeLimit

PolicyOf(e) ==
  [audience |-> e.audience, issuer |-> e.issuer, typ |-> e.typ, subjects |-> e.subjects,
   maxLifetime |-> IF IsSet(e, "maxLifetime") THEN e.maxLifetime ELSE DefaultLifetime]

-----------------------------------------------------------------------------
(* The keys.  An entry is usable if it is a public P-256 key on the curve  *)
(* with a kid, and neither its alg nor its use says otherwise.             *)

DistinctKids(document) ==
  \A i, j \in DOMAIN document : document[i].kid = document[j].kid => i = j

Sound(document) ==
  /\ document # Malformed
  /\ Len(document) <= MaxKeys
  /\ \A i \in DOMAIN document : document[i].usable
  /\ DistinctKids(document)

Parse(document) == IF Sound(document) THEN document ELSE None

\* What the file may give at a request.
KeySets == {Parse(document) : document \in Documents}

Under(keys, kid) == {i \in DOMAIN keys : keys[i].kid = kid}

\* The first entry under the kid.
KeyOf(keys, kid) ==
  keys[CHOOSE i \in Under(keys, kid) : \A j \in Under(keys, kid) : i <= j].key

-----------------------------------------------------------------------------
(* The checks, in the order in which they are made.  Times have the width  *)
(* of the source.                                                          *)

Add(a, b) == IF a + b > Top THEN Top ELSE a + b
Sub(a, b) == (a - b) % (Top + 1)

HasExpired(t, now) == t.exp <= now

Checks == <<"MissingCredential", "DuplicateCredential", "TokenTooLarge",
            "MalformedAuthorization", "MalformedToken", "InvalidHeader",
            "UnsupportedAlgorithm", "MissingKid", "TypeMismatch",
            "KeysUnavailable", "UnknownKey", "BadSignature",
            "InvalidClaims", "MissingClaim", "InvalidTimes", "Expired",
            "IssuedInFuture", "NotYetValid", "LifetimeTooLong",
            "WrongIssuer", "WrongAudience", "SubjectNotAllowed">>

\* What can be wrong with the form of a credential; the times of one are u64.
Flaws == {Checks[i] : i \in 1..6}

ASSUME TokensAssumption ==
  /\ None \notin Tokens /\ None \notin {Checks[i] : i \in DOMAIN Checks}
  /\ \A t \in Tokens : /\ t.flaw \in Flaws \cup {None}
                      /\ t.iat \in Instants /\ t.exp \in Instants
                      /\ t.nbf \in Instants \cup {None}

BeforeKeys == {Checks[i] : i \in 1..9}
BeforeClaims == {Checks[i] : i \in 1..12}

\* The checks that read the credential as it came.
FailsUnsigned(r, t) ==
  \/ r = t.flaw
  \/ r = "UnsupportedAlgorithm" /\ t.alg # "ES256"
  \/ r = "MissingKid" /\ t.kid = None
  \/ r = "TypeMismatch" /\ policy.typ # None /\ t.typ # policy.typ

FailsKeys(r, t, keys) ==
  \/ r = "KeysUnavailable" /\ keys = None
  \/ r = "UnknownKey" /\ keys # None /\ Under(keys, t.kid) = {}
  \/ /\ r = "BadSignature"
     /\ keys # None
     /\ Under(keys, t.kid) # {}
     /\ t.signer # KeyOf(keys, t.kid)

FailsClaims(r, t, now) ==
  \/ r = "InvalidClaims" /\ ~t.readable
  \/ r = "MissingClaim" /\ (t.lacks # {} \/ t.sub = None)
  \/ r = "InvalidTimes" /\ t.iat >= t.exp
  \/ r = "Expired" /\ HasExpired(t, now)
  \/ r = "IssuedInFuture" /\ t.iat > Add(now, Skew)
  \/ r = "NotYetValid" /\ t.nbf # None /\ t.nbf > Add(now, Skew)
  \/ r = "LifetimeTooLong" /\ Sub(t.exp, t.iat) > policy.maxLifetime
  \/ r = "WrongIssuer" /\ policy.issuer # None /\ t.iss # policy.issuer
  \/ r = "WrongAudience" /\ policy.audience \notin t.aud
  \/ r = "SubjectNotAllowed" /\ policy.subjects # None /\ t.sub \notin policy.subjects

Failing(t, keys, now) ==
  {i \in DOMAIN Checks : \/ FailsUnsigned(Checks[i], t)
                         \/ FailsKeys(Checks[i], t, keys)
                         \/ FailsClaims(Checks[i], t, now)}

Verdict(t, keys, now) ==
  LET failing == Failing(t, keys, now)
  IN IF failing = {} THEN "accepted"
     ELSE Checks[CHOOSE i \in failing : \A j \in failing : i <= j]

-----------------------------------------------------------------------------
Init ==
  /\ mode = "down"
  /\ env = None
  /\ policy = None
  /\ loaded = None
  /\ token = None
  /\ answer = "none"
  /\ at = 0
  /\ first = None

\* from_env: without a setting that decides it the agent does not start, and
\* a key document has to hold a key.
Start(e, document) ==
  /\ mode = "down"
  /\ env' = e
  /\ UNCHANGED <<token, answer, at, first>>
  /\ IF Unreadable(e) \/ Contradictory(e)
       THEN mode' = "refused" /\ UNCHANGED <<policy, loaded>>
       ELSE IF Jwks(e) = None
         THEN mode' = "open" /\ UNCHANGED <<policy, loaded>>
         ELSE /\ policy' = PolicyOf(e)
              /\ loaded' = Parse(document)
              /\ mode' = IF loaded' \in {None, <<>>} THEN "refused" ELSE "jwt"

\* The lookup of a key: from the cache, or from the file as it is then, which
\* empties the cache first.
Lookup == loaded' \in ({loaded} \ {None}) \cup KeySets

\* One request at the time now; a clock before the epoch counts as 0.
Request(t, now) ==
  /\ mode \in {"open", "jwt"}
  /\ token \in {None, t}
  /\ token' = t
  /\ at' = now
  /\ IF mode = "open"
       THEN answer' = "accepted" /\ UNCHANGED loaded
       ELSE /\ IF \E r \in BeforeKeys : FailsUnsigned(r, t) THEN UNCHANGED loaded ELSE Lookup
            /\ answer' = Verdict(t, loaded', now)
  /\ first' = IF first = None /\ answer' = "accepted" THEN now ELSE first
  /\ UNCHANGED <<mode, env, policy>>

Next == \/ \E e \in Settings, document \in Documents : Start(e, document)
        \/ \E t \in Tokens, now \in Instants : Request(t, now)

Spec == Init /\ [][Next]_vars

-----------------------------------------------------------------------------
(* Properties.                                                             *)

OnlyInsecure(e) == e.insecure = "1" /\ \A name \in DOMAIN e \ {"insecure"} : e[name] = None

\* What the settings demand of a credential, read off the environment and in
\* integers without a width.
Meets(e, t, now) ==
  /\ t.alg = "ES256" /\ t.readable /\ t.flaw = None
  /\ t.lacks = {} /\ t.sub # None /\ t.kid # None
  /\ now < t.exp
  /\ t.iat <= now + Skew
  /\ t.nbf # None => t.nbf <= now + Skew
  /\ t.exp - t.iat \in 1..(IF e.maxLifetime = None THEN DefaultLifetime ELSE e.maxLifetime)
  /\ e.audience \in t.aud
  /\ e.issuer # None => t.iss = e.issuer
  /\ e.typ # None => t.typ = e.typ
  /\ e.subjects # None => t.sub \in e.subjects

\* The only entry under the token's kid is the key that signed it.
Signed == /\ loaded # None
          /\ {loaded[i].key : i \in Under(loaded, token.kid)} = {token.signer}

\* No setting is ignored in silence and none demands more than it says: a
\* request is let through exactly if FFMPEG_AGENT_INSECURE_NO_AUTH=1 is the
\* only setting there is, or if the credential has a listed key's signature
\* and meets every setting of the environment (from_lookup, verify).
SettingsEnforced ==
  answer # "none" =>
    (answer = "accepted" <=> OnlyInsecure(env) \/ (Signed /\ Meets(env, token, at)))

\* Nothing in a token is believed, nor told about its claims, before its
\* signature was verified with the one key listed under its kid, whatever
\* happens to the key document between requests ("Only signed content is
\* parsed past this point", jwt.rs; "Kids are unique", jwks.rs).
OnlySignedContent ==
  mode = "jwt" /\ answer \notin BeforeClaims \cup {"none"} =>
    /\ token.alg = "ES256"
    /\ Signed
    /\ \A i \in DOMAIN loaded : loaded[i].usable

\* The span of time in which one token is good is bounded by the settings,
\* wherever the clock of the host moves: two acceptances are less than the
\* maximum lifetime and the skew apart (the time checks of verify).
LifetimeBounded ==
  mode = "jwt" /\ answer = "accepted" =>
    LET apart == IF at > first THEN at - first ELSE first - at
    IN apart < policy.maxLifetime + Skew

-----------------------------------------------------------------------------
(* Why they hold: an invariant that every step preserves and from which    *)
(* the three properties follow.                                            *)

\* A mode comes from the settings of the start, which stay as they were.
ModeFromSettings ==
  /\ mode \in {"down", "refused", "open", "jwt"}
  /\ mode \in {"down", "refused"} => answer = "none" /\ first = None
  /\ mode \in {"open", "jwt"} => env \in Settings /\ ~Unreadable(env) /\ ~Contradictory(env)
  /\ mode = "open" => Jwks(env) = None
  /\ mode = "jwt" => Jwks(env) # None /\ policy = PolicyOf(env)

\* Whatever documents came and went, the keys in use are a sound set.
KeysSound ==
  loaded # None => /\ DOMAIN loaded \subseteq Nat
                   /\ DistinctKids(loaded)
                   /\ \A i \in DOMAIN loaded : loaded[i].usable

\* An answer is the verdict on this token, at its time and under these keys.
AnswerIsVerdict ==
  answer # "none" =>
    /\ token \in Tokens /\ at \in Instants
    /\ answer = IF mode = "open" THEN "accepted" ELSE Verdict(token, loaded, at)

\* The first acceptance had the token within its times, as has every other.
Timely(t, now) ==
  /\ now < t.exp /\ t.iat <= now + Skew
  /\ t.exp - t.iat <= policy.maxLifetime

FirstWasTimely ==
  /\ answer = "accepted" => first # None
  /\ first # None =>
       /\ first \in Instants /\ token \in Tokens
       /\ mode = "jwt" => Timely(token, first)

IInv ==
  /\ ModeFromSettings
  /\ KeysSound
  /\ AnswerIsVerdict
  /\ FirstWasTimely
=============================================================================
