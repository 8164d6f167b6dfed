---------------------------- MODULE BearerTokens ----------------------------
(* A caller's bearer token: the OAuth2 gate that accepts or refuses it, and  *)
(* what of its claims reaches the policy engine.  A claim is a JSON string   *)
(* (its words), a JSON array of strings, or anything else; a signature is    *)
(* the algorithm and the secret used.                                        *)
EXTENDS CatalogValues

CONSTANT Now   \* the wall-clock time, as a claim string

(* The gate *)

Private(key) == [private |-> TRUE, key |-> key]
Public(key) == [private |-> FALSE, key |-> key]

determine_algorithm(jwk) ==
    IF jwk.alg # None
    THEN IF jwk.alg[1] \in {"RS256", "ES256", "ES384"} THEN jwk.alg ELSE None
    ELSE CASE jwk.kty = "RSA" -> Some("RS256")
           [] jwk.kty = "P-256" -> Some("ES256")
           [] jwk.kty = "P-384" -> Some("ES384")
           [] OTHER -> None

\* kid -> key, of the keys that can be used; a later one of the same kid
\* replaces an earlier one.
Usable(jwks) ==
    {i \in DOMAIN jwks : /\ jwks[i].kid # None /\ jwks[i].kty # "oct"
                         /\ determine_algorithm(jwks[i]) # None}
fetch(jwks) ==
    LET last(kid) == CHOOSE i \in Usable(jwks) :
                         /\ jwks[i].kid[1] = kid
                         /\ \A j \in Usable(jwks) : jwks[j].kid[1] = kid => j <= i
    IN [kid \in {jwks[i].kid[1] : i \in Usable(jwks)} |->
           [key |-> jwks[last(kid)].key,
            algorithm |-> determine_algorithm(jwks[last(kid)])[1]]]

\* What jsonwebtoken checks of a signature under one algorithm: with an HMAC
\* algorithm the verifying key itself is the secret.
SignatureValid(token, algorithm, key) ==
    /\ token.alg = algorithm
    /\ token.secret = IF algorithm = "HS256" THEN Public(key) ELSE Private(key)

\* A configured issuer or audience makes the claim required; scope must be a
\* string that holds the required one among its words.
ClaimsAccepted(token, gate) ==
    /\ token.exp = "future" /\ token.nbf # "future"
    /\ gate.issuer # None => token.iss = gate.issuer
    /\ gate.audience # None => token.aud = gate.audience

HasScope(claims, scope) ==
    /\ "scope" \in DOMAIN claims /\ claims["scope"].j = "str"
    /\ scope \in ToSet(claims["scope"].v[1])

\* Mutant: the signature is checked with the algorithm the token names.
VerifyWithHeaderAlg(gate, token) ==
    LET keys == fetch(gate.jwks)
        known == token.kid # None /\ token.kid[1] \in DOMAIN keys
        jwk == keys[token.kid[1]]
    IN IF ~ known THEN "UnknownKid"
       ELSE IF ~ SignatureValid(token, token.alg, jwk.key) \/ ~ ClaimsAccepted(token, gate)
       THEN "InvalidToken"
       ELSE IF gate.scope # None /\ ~ HasScope(token.claims, gate.scope[1])
       THEN "InsufficientScope"
       ELSE "verified"

verify(gate, token) ==
    LET keys == fetch(gate.jwks)
        known == token.kid # None /\ token.kid[1] \in DOMAIN keys
        jwk == keys[token.kid[1]]
    IN IF ~ known THEN "UnknownKid"
       ELSE IF ~ SignatureValid(token, jwk.algorithm, jwk.key) \/ ~ ClaimsAccepted(token, gate)
       THEN "InvalidToken"
       ELSE IF gate.scope # None /\ ~ HasScope(token.claims, gate.scope[1])
       THEN "InsufficientScope"
       ELSE "verified"

\* Some(token) for an Authorization header with the bearer scheme and a token.
bearer_token(header) ==
    IF header.scheme = "bearer" /\ ~ header.empty THEN Some(header) ELSE None

check_oauth2_bearer(gate, header) ==
    LET token == bearer_token(header)
        verdict == verify(gate[1], token[1])
    IN IF gate = None THEN 200
       ELSE IF token = None THEN 401
       ELSE CASE verdict = "verified" -> 200
              [] verdict = "InsufficientScope" -> 403
              [] OTHER -> 401

-----------------------------------------------------------------------------
(* The claims *)

ClaimString(words) == [j |-> "str", v |-> <<words>>]
ClaimArray(strings) == [j |-> "arr", v |-> strings]
ClaimOther == [j |-> "other", v |-> <<>>]

\* Claim name -> the strings the engine sees.  scope is split at white space; a
\* claim that is neither a string nor an array of strings is dropped.
jwt_claims_to_engine_claims(claims) ==
    [name \in {n \in DOMAIN claims : claims[n].j # "other"} |->
        IF name = "scope" /\ claims[name].j = "str"
        THEN {<<w>> : w \in ToSet(claims[name].v[1])}
        ELSE ToSet(claims[name].v)]

PER_TOKEN_CLAIMS == {"jti", "iat", "exp", "nbf"}

\* Mutant: a caller is its subject.
AllowListKeyOfSubject(claims) ==
    LET mapped == jwt_claims_to_engine_claims(claims)
    IN [name \in DOMAIN mapped \cap {"sub"} |-> mapped[name]]

allow_list_key(claims) ==
    LET mapped == jwt_claims_to_engine_claims(claims)
    IN [name \in DOMAIN mapped \ PER_TOKEN_CLAIMS |-> mapped[name]]

with_context_claims(claims) ==
    [name \in DOMAIN claims \cup {"dateTime"} |->
        IF name = "dateTime" THEN {<<Now>>} ELSE claims[name]]

engine_claims_from_bearer(claims) ==
    with_context_claims(jwt_claims_to_engine_claims(claims))
=============================================================================
