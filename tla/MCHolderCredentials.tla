------------------------- MODULE MCHolderCredentials -------------------------
(* Config documents, near misses of them, and callbacks for HolderCredentials. *)
EXTENDS HolderCredentials, TLC

Url(scheme, host) == [scheme |-> scheme, host |-> host]
MCUrlOf ==
    "https://a" :> Url("https", "a") @@ "https://b" :> Url("https", "b")
    @@ "http://a" :> Url("http", "a") @@ "http://127.0.0.1" :> Url("http", "127.0.0.1")
    @@ "file:///vc" :> Url("file", "") @@ "ftp://a" :> Url("ftp", "a")
MCNotUrls == {"https://"}
MCLoopbackHosts == {"127.0.0.1"}
MCDids == {"did:web:a", "did:web:b", "did:key:c"}
MCDidHost == "did:web:a" :> "a" @@ "did:web:b" :> "127.0.0.1"
MCNumerals == "0" :> 0 @@ "7" :> 7
MCFiles == "vc" :> [segments |-> 3, alg |-> "ES256", credential |-> TRUE]
           @@ "file:///vc" :> [segments |-> 3, alg |-> "ES256", credential |-> TRUE]
           @@ "token" :> [segments |-> 3, alg |-> "ES256", credential |-> FALSE]

(* Documents *)
C == Iri("config")
H == Iri("holder")
P1 == Iri("p1")
P2 == Term("bnode", "p2")
X == Iri("stray")

Participant(s, id, url) ==
    {<<C, "participant", s>>, <<s, "type", Class("Participant")>>,
     <<s, "participantId", Lit(id)>>, <<s, "participantName", Lit(id)>>,
     <<s, "catalogRequestUrl", Iri(url)>>}
Dcp(s, id, url, did) ==
    Participant(s, id, url) \cup {<<s, "credentialProtocol", Lit("dcp")>>,
                                  <<s, "providerDid", Lit(did)>>}
Oid4Vp(s, id, url, uri) ==
    Participant(s, id, url) \cup {<<s, "credentialProtocol", Lit("oid4vp")>>,
                                  <<s, "oid4vpResponseUri", Lit(uri)>>}
Holder(file, insecure) ==
    {<<C, "holder", H>>, <<H, "type", Class("Holder")>>, <<H, "ownDidHost", Lit("h")>>,
     <<H, "requiredScope", Lit("read")>>, <<H, "credentialJwsFile", file>>,
     <<H, "insecureHttp", Lit(insecure)>>}
Config == {<<C, "type", Class("BrokerConfig")>>}

TwoDcp == Config \cup Holder(Lit("vc"), "false") \cup Dcp(P1, "one", "https://b", "did:web:a")
              \cup Dcp(P2, "two", "http://127.0.0.1", "did:web:b")
InsecureDcp == Config \cup Holder(Iri("file:///vc"), "1")
                  \cup Dcp(P1, "one", "https://a", "did:web:a")
                  \cup Dcp(P2, "two", "https://b", "did:key:c")
VpAndOpen == Config \cup Holder(Lit("vc"), "0") \cup Participant(P1, "one", "http://a")
                 \cup Oid4Vp(P2, "two", "https://b", "http://127.0.0.1")
                 \cup {<<C, "crawlIntervalSecs", Lit("7")>>,
                       <<C, "oauth2JwksUri", Lit("https://b")>>}

\* One triple missing, or one too many or of another value.
Additions == {
    <<X, "participantName", Lit("x")>>, <<X, "type", Class("Participant")>>,
    <<X, "type", Class("Server")>>, <<X, "label", Lit("x")>>, <<X, "type", Class("BrokerConfig")>>,
    <<C, "participant", X>>, <<C, "holder", X>>, <<C, "crawlIntervall", Lit("7")>>,
    <<C, "crawlTimeoutMs", Lit("0")>>, <<C, "sparqlMaxRows", Lit("7")>>,
    <<C, "oauth2Issuer", Term("bnode", "i")>>, <<C, "policyFilterNoPolicyVisibility", Lit("Open")>>,
    <<C, "policyFilterRunWhenOauth2Disabled", Lit("yes")>>,
    <<P1, "participantId", Lit("two")>>, <<P1, "insecureHttp", Lit("1")>>,
    <<P1, "oid4vpResponseUri", Lit("https://a")>>, <<H, "participantId", Lit("h")>>}
Edits == {
    <<<<P1, "participantId", Lit("one")>>, <<P1, "participantId", Lit("two")>>>>,
    <<<<P1, "participantName", Lit("one")>>, <<P1, "participantName", Lit(" ")>>>>,
    <<<<P1, "catalogRequestUrl", Iri("https://b")>>, <<P1, "catalogRequestUrl", Iri("http://a")>>>>,
    <<<<P1, "catalogRequestUrl", Iri("http://a")>>, <<P1, "catalogRequestUrl", Lit("ftp://a")>>>>,
    <<<<P1, "providerDid", Lit("did:web:a")>>, <<P1, "providerDid", Lit("web:a")>>>>,
    <<<<P1, "credentialProtocol", Lit("dcp")>>, <<P1, "credentialProtocol", Lit("DCP")>>>>,
    <<<<P2, "oid4vpResponseUri", Lit("http://127.0.0.1")>>, <<P2, "oid4vpResponseUri", Lit("http://a")>>>>,
    <<<<C, "oauth2JwksUri", Lit("https://b")>>, <<C, "oauth2JwksUri", Lit("http://a")>>>>,
    <<<<H, "credentialJwsFile", Lit("vc")>>, <<H, "credentialJwsFile", Lit("token")>>>>,
    <<<<H, "credentialJwsFile", Lit("vc")>>, <<H, "credentialJwsFile", Lit("https://b")>>>>,
    <<<<H, "insecureHttp", Lit("0")>>, <<H, "insecureHttp", Lit("no")>>>>}
NoHolder(g) == {q \in g : q[1] # H /\ q[3] # H}
NearMisses(g) ==
    {g \ {q} : q \in g} \cup {g \cup {q} : q \in Additions} \cup {NoHolder(g)}
    \cup {(g \ {e[1]}) \cup {e[2]} : e \in {e \in Edits : e[1] \in g}}

(* Environments.  The documents as they are get time, tokens and restarts; the *)
(* near misses and the other locations are crawled once.                       *)
NoRedirects == [u \in {} |-> ""]
At(env, documents, redirects) ==
    [env |-> env, documents |-> documents, redirects |-> redirects,
     time |-> 0, mints |-> 1, restarts |-> 0]
File(g) == At(Some("config.ttl"), "config.ttl" :> g, NoRedirects)
MCWorlds ==
    {[File(TwoDcp) EXCEPT !.time = 3, !.mints = 3, !.restarts = 1],
     [File(InsecureDcp) EXCEPT !.time = 1, !.mints = 1],
     [File(VpAndOpen) EXCEPT !.restarts = 1]}
    \cup {File(g) : g \in NearMisses(TwoDcp) \cup NearMisses(VpAndOpen)}
    \cup {At(None, [d \in {} |-> {}], NoRedirects), At(None, "default" :> VpAndOpen, NoRedirects)}
    \cup {At(Some(at), "https://b" :> VpAndOpen @@ "http://a" :> VpAndOpen, redirects) :
            at \in {"https://a", "https://b", "http://a", "https://", "ftp://a", "missing"},
            redirects \in {NoRedirects, "https://a" :> "https://b", "https://a" :> "http://a",
                           "https://a" :> "https://a"}}

(* Callbacks *)
T3(iss, kid, signer, aud, life) ==
    [iss |-> iss, kid |-> kid, signer |-> signer, aud |-> aud, life |-> life]
MCCallers ==
    {T3(d, d, d, "did:web:h", 2) : d \in MCDids}
    \cup {T3("did:web:a", "did:web:a", "did:web:b", "did:web:h", 2),
          T3("did:web:a", "did:web:b", "did:web:b", "did:web:h", 2),
          T3("did:web:b", "did:web:b", "did:web:b", "did:web:x", 2),
          T3("did:web:b", "did:web:b", "did:web:b", "did:web:h", 1)}
MCTargets == {"https://a", "http://a"}
=============================================================================
