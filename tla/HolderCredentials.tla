-------------------------- MODULE HolderCredentials --------------------------
(* The broker as a credential holder, from boot to callback: the config says *)
(* whom to crawl and with which protocol; a crawl mints tokens (DCP) or      *)
(* presents the credential (OID4VP); a DCP provider calls back and is given  *)
(* a presentation.  Signatures are who signed; time is a clock in ticks.     *)
EXTENDS BrokerConfig

CONSTANTS
    Worlds,             \* the environments the broker may start in; in each, bounds on
                        \* the time, the mints and the restarts that are explored
    Files,              \* the files that can be read -> what is in them
    DidHost,            \* the did:web DIDs -> their host
    OwnDid,             \* this holder's DID
    Targets,            \* URLs a participant may redirect to
    Callers,            \* shapes of callback tokens (T3)
    MAX_ISSUED_TOKENS,  \* 10_000 in dcp-core
    TokenLife,          \* 300 seconds there
    ResolutionTimeout   \* DID_RESOLUTION_TIMEOUT, 5 seconds

ASSUME HolderAssumption ==
    /\ {MAX_ISSUED_TOKENS, TokenLife, ResolutionTimeout} \subseteq Nat
    /\ Targets \subseteq DOMAIN UrlOf

VARIABLES
    world,      \* what the broker finds at start
    phase,      \* "starting", "up", or "refused": a panic on boot
    config,     \* what load returned
    holder,     \* the holder's config, an Option
    generation, \* the process: its key pair is the generation
    clock,
    crawl,      \* participant -> its request in flight: the URLs it went to
    unfit,      \* participant -> what its last crawl lacked to be made, "" if nothing
    issued,     \* this process's record of the tokens (T2) it minted
    held,       \* every T2 ever sent out
    resolved,   \* DIDs looked up over the network
    pending,    \* the callback that waits for its caller's DID document
    disclosed   \* the last presentation given out

vars == <<world, phase, config, holder, generation, clock, crawl, unfit, issued, held,
          resolved, pending, disclosed>>
boot == <<world, phase, config, holder, generation>>
crawls == <<crawl, unfit, issued, held>>
callbacks == <<resolved, pending, disclosed>>

Idle == [at |-> "idle", previous |-> <<>>, what |-> ""]
Nodes == UNION {UNION {{q[1] : q \in w.documents[d]} : d \in DOMAIN w.documents} : w \in Worlds}

Init ==
    /\ world \in Worlds
    /\ phase = "starting" /\ config = None /\ holder = None
    /\ generation = 1 /\ clock = 0
    /\ crawl = [s \in Nodes |-> Idle] /\ unfit = [s \in Nodes |-> ""]
    /\ issued = {} /\ held = {}
    /\ resolved = {} /\ pending = {} /\ disclosed = None

-----------------------------------------------------------------------------
(* Boot *)

\* A file is presented only if it holds a credential in compact JWS form.
check_compact_jws(content) ==
    content.segments = 3 /\ content.alg \notin {"", "none"} /\ content.credential
read_credential_jws(path) == path \in DOMAIN Files /\ check_compact_jws(Files[path])

\* The gate's keys are fetched before anything is served.
JwksAllowed(values) ==
    "oauth2JwksUri" \in DOMAIN values =>
        /\ values["oauth2JwksUri"] \in DOMAIN UrlOf
        /\ remote_allowed(UrlOf[values["oauth2JwksUri"]])

\* main up to the listener, with what load returned.  jwks: whether the fetch of
\* keys, where one is made, works.  Without participants there is no holder.
Start(loaded, jwks) ==
    LET settings == loaded[1].settings
        configured == IF settings.crawler = None THEN None ELSE settings.crawler[1].holder
        ok == /\ loaded # None
              /\ JwksAllowed(settings.values)
              /\ "oauth2JwksUri" \in DOMAIN settings.values => jwks
              /\ configured # None => read_credential_jws(configured[1].credential_jws_file)
    IN /\ phase' = IF ok THEN "up" ELSE "refused"
       /\ config' = IF ok THEN loaded ELSE None
       /\ holder' = IF ok THEN configured ELSE None

Boot(jwks) ==
    /\ phase = "starting"
    /\ Start(load(world), jwks)
    /\ UNCHANGED <<world, generation, clock, crawls, callbacks>>

\* A restart loses the tokens and, with them, the key pair.
Restart ==
    /\ phase = "up" /\ generation <= world.restarts
    /\ phase' = "starting" /\ generation' = generation + 1
    /\ config' = None /\ holder' = None
    /\ crawl' = [s \in Nodes |-> Idle] /\ issued' = {} /\ pending' = {}
    /\ UNCHANGED <<world, clock, unfit, held, resolved, disclosed>>

\* A DID document is waited for no longer than its timeout.
Tick ==
    /\ clock < world.time /\ phase = "up"
    /\ \A q \in pending : clock < q.arrived + ResolutionTimeout
    /\ clock' = clock + 1
    /\ UNCHANGED <<boot, crawls, callbacks>>

-----------------------------------------------------------------------------
(* Crawling *)

Participants == IF config = None \/ config[1].settings.crawler = None THEN <<>>
                ELSE config[1].settings.crawler[1].participants

Send(s, url, what) ==
    crawl' = [crawl EXCEPT ![s] =
                 [at |-> IF what = "vp_token" THEN "presenting" ELSE "requesting",
                  previous |-> <<url>>, what |-> what]]

Ends(s) == crawl' = [crawl EXCEPT ![s] = Idle]

Starts(s, protocol) ==
    /\ phase = "up" /\ s \in DOMAIN Participants /\ crawl[s] = Idle
    /\ Participants[s].credential_protocol = protocol

CrawlOpen(s) ==
    /\ Starts(s, "none")
    /\ Send(s, UrlOf[Participants[s].catalog_request_url], "placeholder")
    /\ UNCHANGED <<boot, clock, unfit, issued, held, callbacks>>

\* Mutant: at the cap the token just minted before goes.
RememberDroppingNewest(jti, did, exp) ==
    LET live == {e \in issued : e.exp > clock}
        newest == {e \in live : \A f \in live : e.jti >= f.jti}
        entry == [jti |-> jti, provider_did |-> did, exp |-> exp]
    IN IF Cardinality(live) >= MAX_ISSUED_TOKENS
       THEN {(live \ {e}) \cup {entry} : e \in newest} ELSE {live \cup {entry}}

\* The possible new records: among tokens that expire together any may go.
remember_issued_capped(jti, did, exp) ==
    LET live == {e \in issued : e.exp > clock}
        oldest == {e \in live : \A f \in live : e.exp <= f.exp}
        entry == [jti |-> jti, provider_did |-> did, exp |-> exp]
    IN IF Cardinality(live) >= MAX_ISSUED_TOKENS
       THEN {(live \ {e}) \cup {entry} : e \in oldest} ELSE {live \cup {entry}}

\* T1 goes to the participant with a T2 in it, minted for its DID.
mint_self_issued_token(did) ==
    LET jti == Cardinality(held) + 1
    IN /\ issued' \in remember_issued_capped(jti, did, clock + TokenLife)
       /\ held' = held \cup {[jti |-> jti, to |-> did, exp |-> clock + TokenLife,
                              signer |-> generation]}

CrawlDcp(s) ==
    LET p == Participants[s]
        why == CASE holder = None -> "no holder"
                 [] p.provider_did = None -> "no provider_did"
                 [] OTHER -> ""
    IN /\ Starts(s, "dcp") /\ Cardinality(held) < world.mints
       /\ unfit' = [unfit EXCEPT ![s] = why]
       /\ IF why # "" THEN UNCHANGED <<crawl, issued, held>>
          ELSE /\ mint_self_issued_token(p.provider_did[1])
               /\ Send(s, UrlOf[p.catalog_request_url], "self-issued token")
       /\ UNCHANGED <<boot, clock, callbacks>>

CrawlOid4Vp(s) ==
    LET p == Participants[s]
        why == CASE holder = None -> "no holder"
                 [] p.oid4vp_response_uri = None -> "no oid4vp_response_uri"
                 [] OTHER -> ""
    IN /\ Starts(s, "oid4vp")
       /\ unfit' = [unfit EXCEPT ![s] = why]
       /\ IF why # "" THEN UNCHANGED crawl
          ELSE Send(s, UrlOf[p.oid4vp_response_uri[1]], "vp_token")
       /\ UNCHANGED <<boot, clock, issued, held, callbacks>>

\* A redirect that is followed carries what the request carried; one that is not
\* fails the crawl.
Redirected(s, target) ==
    /\ crawl[s] # Idle
    /\ IF OutboundRedirect(crawl[s].previous, UrlOf[target])
       THEN crawl' = [crawl EXCEPT ![s].previous = Append(@, UrlOf[target])]
       ELSE Ends(s)
    /\ UNCHANGED <<boot, clock, unfit, issued, held, callbacks>>

\* The presentation was answered with an access token.
Presented(s) ==
    /\ crawl[s].at = "presenting"
    /\ Send(s, UrlOf[Participants[s].catalog_request_url], "access token")
    /\ UNCHANGED <<boot, clock, unfit, issued, held, callbacks>>

\* The catalog arrives, and what becomes of it is CatalogRequests' Crawl; or the
\* crawl fails: a transport error, a status, a body too large, malformed or
\* without a token, the participant's time limit.
CrawlEnds(s) ==
    /\ crawl[s] # Idle /\ Ends(s)
    /\ UNCHANGED <<boot, clock, unfit, issued, held, callbacks>>

-----------------------------------------------------------------------------
(* The Presentation API *)

did_web_to_url(did, insecure_http) ==
    IF did \in DOMAIN DidHost
    THEN Some([scheme |-> IF insecure_http THEN "http" ELSE "https", host |-> DidHost[did]])
    ELSE None
did_url_allowed(url) ==
    url.scheme = "https" \/ (url.scheme = "http" /\ url.host \in LoopbackHosts)

\* Mutant: a token is good as long as it is remembered.
IssuedToExpired(jti) == {e.provider_did : e \in {e \in issued : e.jti = jti}}

issued_to(jti) == {e.provider_did : e \in {e \in issued : e.jti = jti /\ e.exp > clock}}

\* Why a callback is refused before any network access; "" if it is not.
NestedRefused(t3, nested) ==
    CASE nested = None -> "no nested token"
      [] nested[1].jti = 0 -> "no jti"
      [] issued_to(nested[1].jti) = {} -> "not issued"
      [] t3.iss \notin issued_to(nested[1].jti) -> "another provider"
      [] nested[1].signer # generation -> "nested signature"
      [] OTHER -> ""

\* Mutant: the caller's DID is looked up first.
QueryRefusedLate(t3, nested) == IF nested # None /\ t3.iss \in DOMAIN DidHost THEN "" ELSE "DID"

QueryRefused(t3, nested) ==
    LET url == did_web_to_url(t3.iss, holder[1].insecure_http)
    IN IF NestedRefused(t3, nested) # "" THEN NestedRefused(t3, nested)
       ELSE IF url # None /\ did_url_allowed(url[1]) THEN "" ELSE "DID"

\* POST /dsp/holder/presentations/query.  A refusal (404 without a holder, else
\* 401) changes nothing.  Callbacks share only issued, which they read, so one
\* at a time stands for any number.
holder_presentation_query_route(t3, nested) ==
    /\ phase = "up" /\ pending = {}
    /\ IF holder # None /\ QueryRefused(t3, nested) = ""
       THEN /\ resolved' = resolved \cup {t3.iss}
            /\ pending' = {[t3 |-> t3, nested |-> nested[1], arrived |-> clock]}
       ELSE UNCHANGED <<resolved, pending>>
    /\ UNCHANGED <<boot, clock, crawls, disclosed>>

\* Why a caller whose DID document is there is refused.  kid and signer are
\* DIDs: whose key is named, and whose was used.
PresentationRefused(q) ==
    CASE q.t3.kid # q.t3.iss -> "no key"
      [] q.t3.signer # q.t3.kid -> "signature"
      [] q.t3.aud # OwnDid -> "audience"
      [] q.arrived + q.t3.life <= clock -> "expired"
      [] OTHER -> ""

\* The presentation is for the caller, with the nested token's jti as nonce.
DidResolved(q) ==
    /\ pending' = pending \ {q}
    /\ disclosed' = IF PresentationRefused(q) # "" THEN disclosed
                    ELSE Some([aud |-> q.t3.iss, signer |-> q.t3.signer,
                               nonce |-> q.nested.jti, at |-> clock, by |-> generation])
    /\ UNCHANGED <<boot, clock, crawls, resolved>>

\* No document: an error, a status, one too large or malformed, a timeout.
DidFailed(q) ==
    /\ pending' = pending \ {q}
    /\ UNCHANGED <<boot, clock, crawls, resolved, disclosed>>

Forged == [jti |-> 1, to |-> OwnDid, exp |-> TokenLife, signer |-> 0]
Nested == {None, Some(Forged), Some([Forged EXCEPT !.jti = 0])} \cup {Some(t) : t \in held}

Next ==
    \/ \E jwks \in BOOLEAN : Boot(jwks)
    \/ Restart \/ Tick
    \/ \E s \in Nodes :
           \/ CrawlOpen(s) \/ CrawlDcp(s) \/ CrawlOid4Vp(s) \/ Presented(s)
           \/ \E target \in Targets : Redirected(s, target)
           \/ CrawlEnds(s)
    \/ \E t3 \in Callers, nested \in Nested : holder_presentation_query_route(t3, nested)
    \/ \E q \in pending : DidResolved(q) \/ DidFailed(q)

Spec == Init /\ [][Next]_vars

-----------------------------------------------------------------------------
(* Properties *)

\* A configuration that was accepted is enough: crawl_one never fails for want
\* of a holder, a provider DID or a response URI.
ConfigSufficesForCrawls ==
    \A s \in Nodes : unfit[s] = ""

\* Nothing an operator wrote is passed over: with participants configured, a
\* wrong value in any broker triple of an accepted document would have changed
\* the settings or stopped the broker.
NoSettingIgnored ==
    (phase = "up" /\ clock = 0 /\ held = {} /\ Participants # <<>>) =>
        LET g == world.documents[config[1].chain[Len(config[1].chain)]]
            garbled(q) == (g \ {q}) \cup {<<q[1], q[2], Lit("?")>>}
        IN \A q \in g : q[2] # "label" => from_graph(garbled(q)) # from_graph(g)

\* Where the configuration says that a crawl's request goes.
Endpoint(s) ==
    UrlOf[IF crawl[s].at = "presenting" THEN Participants[s].oid4vp_response_uri[1]
          ELSE Participants[s].catalog_request_url]

\* What a crawl sends goes to the endpoint that the configuration names for it and,
\* through any number of redirects, to no other origin (scheme, host and port): a
\* token or presentation never reaches another host, even over https.  Where a
\* credential goes is https or this machine, and so is every location of the
\* document that says where.
CredentialsOnlyToAllowed ==
    /\ \A s \in Nodes : crawl[s] # Idle =>
           /\ \A i \in DOMAIN crawl[s].previous : crawl[s].previous[i] = Endpoint(s)
           /\ crawl[s].what # "placeholder" => remote_allowed(Endpoint(s))
    /\ config # None => \A i \in DOMAIN config[1].chain :
           LET at == config[1].chain[i]
           IN at \in DOMAIN UrlOf => UrlOf[at].scheme = "file" \/ remote_allowed(UrlOf[at])

\* A presentation is given only to the party that holds the key of the DID this
\* process minted the nested token for, and no later than one DID lookup after
\* that token expired, however calls, clock and restarts interleave.
PresentedOnlyToInvited ==
    disclosed # None =>
        LET d == disclosed[1]
        IN /\ d.signer = d.aud
           /\ \E t \in held : /\ t.jti = d.nonce /\ t.to = d.aud /\ t.signer = d.by
                             /\ d.at < t.exp + ResolutionTimeout

\* No DID is looked up but one a token was minted for.
NoLookupForStrangers == resolved \subseteq {t.to : t \in held}

\* A provider that calls back in time with the token it was sent is refused only
\* if its DID cannot be read, or MAX_ISSUED_TOKENS others that expire no sooner
\* were minted by this process: the cap never costs an outstanding token more.
GenuineCallbackAnswered ==
    LET genuine(t2) == [iss |-> t2.to, kid |-> t2.to, signer |-> t2.to, aud |-> OwnDid,
                        life |-> ResolutionTimeout + 1]
        others(t2) == {t \in held \ {t2} : t.exp >= t2.exp /\ t.signer = generation}
    IN /\ holder # None =>
             \A t2 \in held : (t2.signer = generation /\ clock < t2.exp) =>
                 \/ QueryRefused(genuine(t2), Some(t2)) \in {"", "DID"}
                 \/ Cardinality(others(t2)) >= MAX_ISSUED_TOKENS
       /\ \A q \in pending : q.t3 = genuine(q.nested) => PresentationRefused(q) = ""
=============================================================================
