---------------------------- MODULE MCAuthentication ----------------------------
(* A small instance of Authentication: a full and an empty environment and *)
(* one good token, what differs from them in a member or two, and the good *)
(* token with all times of its claims, two of them at a time.              *)
EXTENDS Authentication

Good == [flaw |-> None, alg |-> "ES256", kid |-> "k", typ |-> "JWT", signer |-> "K",
         readable |-> TRUE, lacks |-> {}, sub |-> "s", iss |-> "i", aud |-> {"a"},
         iat |-> 2, exp |-> 4, nbf |-> None]

TokenChoices ==
  [flaw |-> {"MissingCredential", "DuplicateCredential", "TokenTooLarge",
             "MalformedAuthorization", "MalformedToken", "InvalidHeader"},
   alg |-> {"none"}, kid |-> {None, "l"}, typ |-> {None, "at"}, signer |-> {None, "L"},
   readable |-> {FALSE}, lacks |-> {{"exp"}, {"iat"}}, sub |-> {None, "u"},
   iss |-> {None, "j"}, aud |-> {{}, {"b"}, {"a", "b"}}]

\* r with one member exchanged, and with one or two.
Deviations(r, choices) ==
  UNION {{[r EXCEPT ![m] = v] : v \in choices[m]} : m \in DOMAIN choices}
UpToTwo(r, choices) ==
  LET one == {r} \cup Deviations(r, choices)
  IN one \cup UNION {Deviations(s, choices) : s \in one}

MCTokens ==
  UpToTwo(Good, [m \in {"kid", "signer"} |-> TokenChoices[m]])
  \cup Deviations(Good, TokenChoices)
  \cup {[Good EXCEPT !.iat = i, !.exp = e] : i, e \in Instants}
  \cup {[Good EXCEPT !.exp = e, !.nbf = n] : e \in {4, Top}, n \in Instants}

Full == [retiredTokenFile |-> None, jwksFile |-> "f", hngJwks |-> None, insecure |-> None,
         audience |-> "a", issuer |-> "i", typ |-> "JWT", maxLifetime |-> 3, subjects |-> {"s"}]

EnvChoices ==
  [retiredTokenFile |-> {"t"}, jwksFile |-> {None, Malformed},
   hngJwks |-> {"f", "g", Malformed}, insecure |-> {"0", "1", Malformed},
   audience |-> {None, Malformed, "b"}, issuer |-> {None, Malformed}, typ |-> {None, Malformed},
   maxLifetime |-> {None, Malformed, 0, LifetimeLimit + 1}, subjects |-> {None, Malformed, {"s", "u"}}]

Bare == [name \in DOMAIN Full |-> None]

MCSettings ==
  Deviations(Full, EnvChoices)
  \cup UpToTwo(Full, [m \in {"jwksFile", "hngJwks", "insecure"} |-> EnvChoices[m]])
  \cup UpToTwo(Bare, [EnvChoices EXCEPT !.jwksFile = {"f"}, !.audience = {"a"}, !.issuer = {"i"}])

Entry(kid, key) == [kid |-> kid, key |-> key, usable |-> TRUE]

MCDocuments ==
  {Malformed, <<>>, <<Entry("k", "K")>>,
   <<Entry("l", "L"), Entry("k", "K")>>,
   <<Entry("k", "L"), Entry("k", "K")>>,
   <<Entry("k", "K"), [Entry("l", "L") EXCEPT !.usable = FALSE]>>,
   <<Entry("k", "K"), Entry("l", "L"), Entry("m", "M")>>}
=============================================================================
