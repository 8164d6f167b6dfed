-------------------------- MODULE MCCatalogRequests --------------------------
(* Responses, settings and tokens for CatalogRequests.  Datasets do not      *)
(* interfere, so a response carries one dataset for each policy of a group.  *)
EXTENDS CatalogRequests

Object(k1, v1) == Obj(Key(k1) :> v1)
Id(name) == Key("@id") :> Str(Word("urn", name))

(* Constraints: on the claim role, of which "admin" holds for one token. *)
Check(op, value) ==
    Obj(Key("leftOperand") :> Str(Bare("role")) @@ Key("operator") :> Str(op)
        @@ Key("rightOperand") :> Str(Bare(value)))
IsAdmin == Check(Bare("eq"), "admin")
IsUser == Check(Word("odrl", "eq"), "user")
NotUser == Check(Bare("neq"), "user")
Unknown == Check(Bare("near"), "admin")
Partial == Obj(Key("leftOperand") :> Str(Bare("role")) @@ Key("operator") :> Str(Bare("eq")))
G(name, kids) == Object(name, Arr(kids))
Mixed == Obj(IsAdmin.obj @@ Key("or") :> Arr(<<IsUser>>))
TwoGroups == Obj(Key("or") :> Arr(<<IsUser>>) @@ Key("xone") :> Arr(<<IsAdmin>>))
TwoSpellings == Obj(Key("and") :> Arr(<<IsUser>>) @@ <<"odrl", "and">> :> Arr(<<IsAdmin>>))
TypedValue ==
    Obj(<<"odrl", "leftOperand">> :> Object("@id", Str(Word("odrl", "role")))
        @@ <<"iri", "operator">> :> Object("@id", Str(Word("odrl", "eq")))
        @@ Key("rightOperand") :> Object("@value", Str(Bare("user"))))

(* Rules and policies *)
Use == Key("action") :> Str(Bare("use"))
RuleOn(constraints) == Obj(Use @@ Key("constraint") :> Arr(constraints))
FreeUse == Obj(Use)
Permit(rule) == Obj(Id("p") @@ Key("permission") :> Arr(<<rule>>))
On(constraint) == Permit(RuleOn(<<constraint>>))

ByConstraint == <<
    On(IsUser), On(NotUser), On(Unknown), On(Partial), On(Mixed), On(TwoGroups),
    On(TwoSpellings), On(TypedValue), On(Str(Bare("role"))), On(Null),
    Permit(RuleOn(<<IsUser, Unknown>>))>>

ByGroup == <<
    On(G("and", <<IsUser, Unknown>>)), On(G("or", <<IsUser, Partial>>)),
    On(G("or", <<IsAdmin, NotUser>>)), On(G("xone", <<IsAdmin, NotUser>>)),
    On(G("and", <<>>)), On(G("or", <<>>)), On(G("or", <<G("and", <<IsUser>>)>>)),
    On(G("andSequence", <<NotUser, IsAdmin>>)),
    On(G("and", <<G("or", <<IsAdmin, IsUser>>)>>)),
    On(G("or", <<G("and", <<G("or", <<IsUser>>)>>)>>)),
    On(G("and", <<G("and", <<G("and", <<>>)>>)>>))>>

ByRule == <<
    Permit(FreeUse), Permit(Obj(Key("action") :> Str(Word("odrl", "use")))),
    Permit(Obj(Key("action") :> Str(Bare("read")))),
    Permit(Obj(Key("action") :> Obj(Key("value") :> Str(Bare("use"))
                                    @@ Key("refinement") :> Null))),
    Permit(Obj(Key("constraint") :> IsUser)),
    Permit(Obj(Use @@ <<"odrl", "action">> :> Str(Bare("read")))),
    Permit(Obj(Use @@ <<"odrl", "assignee">> :> Str(Bare("eve")))),
    Permit(Obj(Use @@ Key("duty") :> Arr(<<>>))),
    Permit(Str(Bare("use"))),
    Permit(Obj(Use @@ Key("constraint") :> Object("@list", Arr(<<IsUser, IsAdmin>>)))),
    Permit(Obj(Use @@ Key("constraint") :> IsUser
               @@ <<"odrl", "constraint">> :> Arr(<<IsAdmin>>)))>>

ByPolicy == <<
    Str(Bare("offer")), Obj(Id("p")), Obj(Id("p") @@ Key("permission") :> Arr(<<>>)),
    Obj(Key("permission") :> FreeUse @@ Key("assignee") :> Str(Bare("bob"))),
    Obj(Key("permission") :> FreeUse @@ Key("assignee") :> Arr(<<>>)),
    Obj(Key("permission") :> FreeUse @@ <<"odrl", "prohibition">> :> RuleOn(<<IsUser>>)),
    Obj(Key("permission") :> FreeUse @@ Key("prohibition") :> RuleOn(<<Unknown>>)),
    Obj(Key("permission") :> FreeUse @@ Key("obligation") :> RuleOn(<<Partial>>)),
    Obj(<<"odrl", "permission">> :> Object("@set", Arr(<<RuleOn(<<IsUser>>), FreeUse>>))),
    Obj(Key("prohibition") :> FreeUse @@ <<"iri", "prohibition">> :> Arr(<<>>)
        @@ Key("permission") :> Arr(<<RuleOn(<<IsAdmin>>), RuleOn(<<IsUser>>)>>)),
    Obj(Key("@type") :> Str(Bare("Offer")) @@ Key("assigner") :> Str(Word("urn", "x"))
        @@ Key("permission") :> FreeUse @@ <<"odrl", "permission">> :> RuleOn(<<Unknown>>))>>

(* Responses *)
Service(name) == Obj(Id(name) @@ Key("endpointURL") :> Str(Word("urn", "url")))
Via(access) == Arr(<<Obj(Key("format") :> Str(Bare("http")) @@ Key("accessService") :> access)>>)
DatasetOf(name, access, policies) ==
    Obj(Id(name) @@ Key("title") :> Str(Bare("t")) @@ Key("distribution") :> Via(access)
        @@ Key("hasPolicy") :> policies)
ServiceRef(name) == Str(Word("urn", name))
CatalogOf(name, datasets, services, nested) ==
    Obj(Id(name) @@ Key("dataset") :> Arr(datasets) @@ Key("service") :> Arr(services)
        @@ Key("catalog") :> Arr(nested))
Number == <<"a", "b", "c", "d", "e", "f", "g", "h", "i", "k", "l">>
\* One dataset for each policy; two are the only users of a service.
OnePolicyEach(policies) ==
    CatalogOf("cat1",
        [i \in DOMAIN policies |-> DatasetOf(Number[i], ServiceRef(IF i < 3 THEN "s1" ELSE "s2"),
                                             policies[i])],
        <<Service("s1"), Service("s2")>>, <<>>)
\* Alternatives, in both orders, also under two spellings of hasPolicy.
Alternatives ==
    LET p == Permit(FreeUse) q == On(Unknown) r == On(IsUser)
    IN CatalogOf("cat1", <<DatasetOf("a", ServiceRef("s1"), Arr(<<p, q>>)),
                           DatasetOf("b", ServiceRef("s1"), Arr(<<q, p>>)),
                           DatasetOf("c", ServiceRef("s1"), Arr(<<r, On(IsAdmin)>>)),
                           DatasetOf("d", ServiceRef("s1"), Arr(<<>>)),
                           Obj(Id("e") @@ Key("hasPolicy") :> q @@ <<"odrl", "hasPolicy">> :> r),
                           Obj(Id("f"))>>,
                 <<Service("s1")>>, <<>>)
\* A dataset and a service met twice, a nested catalog, a service only a
\* distribution describes, one nobody lists, one nobody uses, entries without id.
Structure ==
    CatalogOf("cat1",
        <<DatasetOf("a", Service("s1"), On(IsUser)),
          DatasetOf("b", ServiceRef("s9"), Permit(FreeUse)),
          Obj(Key("hasPolicy") :> Permit(FreeUse)), Null>>,
        <<Service("s2"), Object("endpointURL", Str(Bare("u")))>>,
        <<CatalogOf("cat3", <<DatasetOf("a", ServiceRef("s3"), Permit(FreeUse)),
                              DatasetOf("c", ServiceRef("s3"), On(IsAdmin))>>,
                    <<Service("s3"), Service("s1")>>,
                    <<CatalogOf("cat4", <<DatasetOf("c", Null, On(NotUser)),
                                          DatasetOf("d", Arr(<<>>), On(NotUser))>>, <<>>, <<>>)>>)>>)
Other == CatalogOf("cat2", <<DatasetOf("a", ServiceRef("s1"), On(IsAdmin))>>, <<Service("s1")>>, <<>>)
Anonymous == Object("dataset", Arr(<<DatasetOf("a", ServiceRef("s1"), On(IsUser))>>))

Pair(one, two) == [n \in Nodes |-> IF n = "n1" THEN one ELSE two]
MCResponses ==
    {Pair(OnePolicyEach(ps), Other) : ps \in {ByConstraint, ByGroup, ByRule, ByPolicy}}
    \cup {Pair(Alternatives, Anonymous), Pair(Structure, Other)}
HideResponses == {Pair(Alternatives, Other)}
IsToken == Obj(Key("leftOperand") :> Str(Bare("jti")) @@ Key("operator") :> Str(Bare("eq"))
               @@ Key("rightOperand") :> Str(Bare("t1")))
KeyResponses == {Pair(OnePolicyEach(<<On(IsToken), On(IsUser)>>), Other)}

(* Settings *)
Jwk(kid, kty, alg, key) == [kid |-> kid, kty |-> kty, alg |-> alg, key |-> key]
\* k1 is replaced by a later key of the same kid; oct and PS256 keys are skipped.
Jwks == <<Jwk(Some("k1"), "RSA", None, "old"), Jwk(Some("k1"), "RSA", Some("RS256"), "rsa"),
          Jwk(Some("k2"), "P-256", None, "ec"), Jwk(Some("k3"), "oct", Some("HS256"), "shared"),
          Jwk(Some("k4"), "RSA", Some("PS256"), "ps"), Jwk(None, "RSA", None, "anonymous")>>
Gate == [jwks |-> Jwks, issuer |-> Some("idp"), audience |-> None, scope |-> Some("read")]
OpenGate == [Gate EXCEPT !.issuer = None, !.audience = Some("broker"), !.scope = None]
Settings(oauth2, filter, unmappable, no_policy) ==
    [oauth2 |-> oauth2, filter_when_oauth2_disabled |-> filter,
     unmappable |-> unmappable, no_policy |-> no_policy]
MCConfigs ==
    {Settings(Some(Gate), FALSE, "drop_policy", "open"),
     Settings(Some(OpenGate), FALSE, "hide_dataset", "closed"),
     Settings(None, TRUE, "hide_dataset", "open"), Settings(None, FALSE, "skip", "open"),
     Settings(Some(Gate), FALSE, "skip", "closed")}
HideConfigs == {Settings(Some(Gate), FALSE, "hide_dataset", "open")}

(* Tokens *)
ClaimsOf(sub, role, jti) ==
    "sub" :> ClaimString(<<sub>>) @@ "role" :> ClaimArray(<<<<role>>>>)
    @@ "jti" :> ClaimString(<<jti>>) @@ "scope" :> ClaimString(<<"read", "x">>)
    @@ "exp" :> ClaimOther
Token(claims) ==
    [scheme |-> "bearer", empty |-> FALSE, kid |-> Some("k1"), alg |-> "RS256",
     secret |-> Private("rsa"), exp |-> "future", nbf |-> "none", iss |-> Some("idp"),
     aud |-> Some("broker"), claims |-> claims]
User == Token(ClaimsOf("bob", "user", "t1"))
UserAgain == Token(ClaimsOf("bob", "user", "t2"))
Admin == [Token(ClaimsOf("bob", "admin", "t3")) EXCEPT !.kid = Some("k2"),
              !.alg = "ES256", !.secret = Private("ec")]
MCTokens ==
    {User, UserAgain, Admin,
     [User EXCEPT !.scheme = "basic"], [User EXCEPT !.empty = TRUE],
     [User EXCEPT !.kid = None], [User EXCEPT !.secret = Private("old")],
     [User EXCEPT !.alg = "HS256", !.secret = Public("rsa")],
     [User EXCEPT !.kid = Some("k3"), !.alg = "HS256", !.secret = Public("shared")],
     [User EXCEPT !.kid = Some("k4"), !.secret = Private("ps")],
     [User EXCEPT !.exp = "past"], [User EXCEPT !.nbf = "future"], [User EXCEPT !.iss = None],
     [User EXCEPT !.aud = Some("other")],
     [User EXCEPT !.claims = [n \in DOMAIN User.claims \ {"scope"} |-> User.claims[n]]]}
KeyTokens == {User, UserAgain}

ById(name) == <<[operandLeft |-> "datasets.id", operator |-> "=",
                 operandRight |-> Word("urn", name)]>>
MCFilters == {<<>>, ById("a")}
MCNodes == {"n1", "n2"}
MCRank ==
    Bare("n1") :> 1 @@ Bare("n2") :> 2
        @@ Word("urn", "cat1") :> 3 @@ Word("urn", "cat2") :> 4 @@ FreshId :> 5
MCProviderDid == "n1" :> Some(Word("urn", "did1")) @@ "n2" :> None
=============================================================================
