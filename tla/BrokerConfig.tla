---------------------------- MODULE BrokerConfig ----------------------------
(* The broker's configuration: a Turtle document, read once, is a set of     *)
(* triples, and BrokerSettings::from_graph accepts or refuses it whole.      *)
(* Which error is reported is left out: a refusal is None.  A term is a      *)
(* literal, an IRI, a blank node or a class of the broker's vocabulary; what *)
(* parsing a string as a URL, a DID or a number gives comes from CONSTANTS.  *)
EXTENDS Naturals, FiniteSets, Sequences

CONSTANTS
    UrlOf,          \* the strings that parse as URLs -> their origin: [scheme, host]
    NotUrls,        \* strings with "://" that do not parse
    LoopbackHosts,  \* the hosts that are loopback IP literals
    Dids,           \* the strings that are DIDs
    Numerals,       \* numerals -> their values
    MaxRedirects    \* 10 in config.rs and in the crawler

\* The path of the default datadir is not a URL.
ASSUME ConfigAssumption == MaxRedirects \in Nat /\ "default" \notin DOMAIN UrlOf

None == <<>>
Some(x) == <<x>>
OrElse(option, default) == IF option = None THEN default ELSE option[1]

Term(t, v) == [t |-> t, v |-> v]
Lit(v) == Term("lit", v)
Iri(v) == Term("iri", v)
Class(v) == Term("class", v)

-----------------------------------------------------------------------------
(* URLs *)

remote_allowed(url) ==
    \/ url.scheme = "https"
    \/ url.scheme = "http" /\ url.host \in LoopbackHosts

\* Whether a client that has requested the URLs of previous, the last of which
\* redirected, goes on to target: the config's client, and the one that carries
\* credentials.
ConfigRedirect(previous, target) ==
    Len(previous) < MaxRedirects /\ remote_allowed(target)

\* Mutant: a redirect to anywhere a credential might be sent is followed.
RedirectToAllowed(previous, target) ==
    Len(previous) <= MaxRedirects /\ remote_allowed(target)

OutboundRedirect(previous, target) ==
    Len(previous) <= MaxRedirects /\ previous[Len(previous)] = target

(* Where CONFIG_STORE_PATH points *)

\* Some([remote, at]), or None for a URL that is refused.
parse(raw) ==
    IF raw \in NotUrls THEN None
    ELSE IF raw \notin DOMAIN UrlOf \/ UrlOf[raw].scheme = "file"
    THEN Some([remote |-> FALSE, at |-> raw])
    ELSE IF remote_allowed(UrlOf[raw]) THEN Some([remote |-> TRUE, at |-> raw])
    ELSE None

-----------------------------------------------------------------------------
(* Settings *)

parse_positive_integer(v) ==
    IF v \in DOMAIN Numerals /\ Numerals[v] > 0 THEN Some(Numerals[v]) ELSE None
parse_boolean(v) ==
    CASE v \in {"true", "1"} -> Some(TRUE)
      [] v \in {"false", "0"} -> Some(FALSE)
      [] OTHER -> None

PositiveIntegers == {"crawlIntervalSecs", "crawlTimeoutMs", "crawlConcurrency",
    "crawlMaxResponseBytes", "catalogMaxAgeSecs", "sparqlQueryTimeoutMs", "sparqlMaxRows",
    "sparqlMaxConcurrent", "shutdownDelaySecs"}
Texts == {"httpApiAddr", "oauth2JwksUri", "oauth2Issuer", "oauth2Audience",
    "oauth2RequiredScope"}
Booleans == {"policyFilterRunWhenOauth2Disabled"}
OneOf == [policyFilterUnmappableConstraintAction |-> {"skip", "drop_policy", "hide_dataset"},
          policyFilterNoPolicyVisibility |-> {"open", "closed"}]
ALL_SETTINGS == PositiveIntegers \cup Texts \cup Booleans \cup DOMAIN OneOf

check(property, v) ==
    /\ property \in PositiveIntegers => parse_positive_integer(v) # None
    /\ property \in Booleans => parse_boolean(v) # None
    /\ property \in DOMAIN OneOf => v \in OneOf[property]

-----------------------------------------------------------------------------
(* The config graph: triples <<subject, predicate, object>>.  Predicates but *)
(* type and label are the broker's.                                          *)

KNOWN_CLASSES == {"BrokerConfig", "Participant", "Holder"}
OfBroker(q) == q[2] \notin {"type", "label"}

Values(g, s, p) == {q[3] : q \in {q \in g : q[1] = s /\ q[2] = p}}
subjects_of_type(g, class) == {q[1] : q \in {q \in g : q[2] = "type" /\ q[3] = Class(class)}}
properties(g, s) == {q[2] : q \in {q \in g : q[1] = s /\ OfBroker(q)}}

UnknownClass(g) ==
    \E q \in g : q[2] = "type" /\ q[3].t = "class" /\ q[3].v \notin KNOWN_CLASSES

\* Mutant: a resource nothing refers to is passed over.
UnattachedNever(g, attached) == FALSE

Unattached(g, attached) ==
    \E q \in g : /\ OfBroker(q) \/ (q[2] = "type" /\ q[3].t = "class")
                 /\ q[1] \notin attached

Unlinked(g, links, class) == ~ subjects_of_type(g, class) \subseteq links
single_values(g, s, known) ==
    /\ properties(g, s) \subseteq known
    /\ \A p \in properties(g, s) : Cardinality(Values(g, s, p)) = 1
linked(g, s, class) == s.t \in {"iri", "bnode"} /\ s \in subjects_of_type(g, class)

-----------------------------------------------------------------------------
(* Participants and the holder *)

IRI_VALUED == {"catalogRequestUrl", "oid4vpResponseUri"}
Blank == {"", " "}
PARTICIPANT_PROPERTIES == {"participantId", "participantName", "catalogRequestUrl",
    "credentialProtocol", "providerDid", "oid4vpResponseUri"}
HOLDER_PROPERTIES == {"ownDidHost", "insecureHttp", "credentialJwsFile", "requiredScope"}

\* A single-valued property: its term, its string, and whether it reads as one.
The(g, s, p) ==
    IF Values(g, s, p) = {} THEN None ELSE Some(CHOOSE t \in Values(g, s, p) : TRUE)
optional(g, s, p) == IF The(g, s, p) = None THEN None ELSE Some(The(g, s, p)[1].v)
IsString(g, s, p) ==
    \A t \in Values(g, s, p) : t.t = "lit" \/ (t.t = "iri" /\ p \in IRI_VALUED)
non_empty(g, s, p) == optional(g, s, p) # None /\ optional(g, s, p)[1] \notin Blank

\* An endpoint that receives the credential is https, or loopback.
optional_endpoint_url(option, gated) ==
    option # None =>
        /\ option[1] \in DOMAIN UrlOf
        /\ UrlOf[option[1]].scheme \in {"http", "https"}
        /\ gated => remote_allowed(UrlOf[option[1]])

read_participant(g, s) ==
    LET text(p) == optional(g, s, p)
        protocol == OrElse(text("credentialProtocol"), "none")
    IN IF /\ single_values(g, s, PARTICIPANT_PROPERTIES)
          /\ \A p \in PARTICIPANT_PROPERTIES : IsString(g, s, p)
          /\ protocol \in {"none", "dcp", "oid4vp"}
          /\ non_empty(g, s, "participantId") /\ non_empty(g, s, "participantName")
          /\ text("catalogRequestUrl") # None
          /\ optional_endpoint_url(text("catalogRequestUrl"), protocol # "none")
          /\ text("providerDid") # None => text("providerDid")[1] \in Dids
          /\ text("providerDid") # None => protocol = "dcp"
          /\ optional_endpoint_url(text("oid4vpResponseUri"), TRUE)
          /\ text("oid4vpResponseUri") # None => protocol = "oid4vp"
       THEN Some([id |-> text("participantId")[1], name |-> text("participantName")[1],
                  catalog_request_url |-> text("catalogRequestUrl")[1],
                  credential_protocol |-> protocol, provider_did |-> text("providerDid"),
                  oid4vp_response_uri |-> text("oid4vpResponseUri")])
       ELSE None

\* A path, or a file: URL written as a string or an IRI.
credential_file(g, s) ==
    LET file == The(g, s, "credentialJwsFile")
        v == file[1].v
        isFileUrl == v \in DOMAIN UrlOf /\ UrlOf[v].scheme = "file"
    IN IF /\ file # None
          /\ \/ file[1].t = "lit" /\ v \notin Blank /\ (v \in DOMAIN UrlOf => isFileUrl)
             \/ file[1].t = "iri" /\ isFileUrl
       THEN Some(v) ELSE None

read_holder(g, s) ==
    LET insecure == OrElse(optional(g, s, "insecureHttp"), "false")
    IN IF /\ single_values(g, s, HOLDER_PROPERTIES)
          /\ \A p \in {"ownDidHost", "insecureHttp", "requiredScope"} : IsString(g, s, p)
          /\ parse_boolean(insecure) # None
          /\ credential_file(g, s) # None
          /\ optional(g, s, "ownDidHost") # None /\ optional(g, s, "requiredScope") # None
       THEN Some([own_did_host |-> optional(g, s, "ownDidHost")[1],
                  insecure_http |-> parse_boolean(insecure)[1],
                  credential_jws_file |-> credential_file(g, s)[1],
                  required_scope |-> optional(g, s, "requiredScope")[1]])
       ELSE None

\* Mutant: a gated participant is accepted without a holder.
ParticipantsWithoutHolder(participants, holder) ==
    /\ \A s, t \in DOMAIN participants : participants[s].id = participants[t].id => s = t
    /\ \A s \in DOMAIN participants :
           LET p == participants[s]
           IN /\ p.credential_protocol = "dcp" => p.provider_did # None
              /\ p.credential_protocol = "oid4vp" => p.oid4vp_response_uri # None

\* ParticipantsConfig::new: what the participants, by resource, must satisfy.
ParticipantsConfig(participants, holder) ==
    /\ \A s, t \in DOMAIN participants : participants[s].id = participants[t].id => s = t
    /\ \A s \in DOMAIN participants :
           LET p == participants[s]
           IN /\ p.credential_protocol = "dcp" => p.provider_did # None
              /\ p.credential_protocol = "oid4vp" => p.oid4vp_response_uri # None
              /\ p.credential_protocol # "none" => holder # None

\* Some(crawler), where crawler is None when no participant is listed, or None.
\* A holder is read, and may be refused, even when nobody is crawled.
read_crawler(g, values, participants, holders) ==
    LET holder == IF holders = {} THEN None ELSE read_holder(g, CHOOSE h \in holders : TRUE)
        entries == [s \in participants |-> read_participant(g, s)]
        read == [s \in participants |-> entries[s][1]]
    IN IF /\ ~ Unlinked(g, participants, "Participant") /\ ~ Unlinked(g, holders, "Holder")
          /\ Cardinality(holders) <= 1
          /\ \A h \in holders : linked(g, h, "Holder") /\ holder # None
          /\ \A s \in participants : linked(g, s, "Participant") /\ entries[s] # None
          /\ participants # {} => ParticipantsConfig(read, holder)
       THEN Some(IF participants = {} THEN None
                 ELSE Some([interval |-> IF "crawlIntervalSecs" \in DOMAIN values
                                         THEN parse_positive_integer(values["crawlIntervalSecs"])
                                         ELSE None,
                            participants |-> read, holder |-> holder]))
       ELSE None

NoSettings == [values |-> [p \in {} |-> ""], crawler |-> None]

\* Some(settings), or None when the broker refuses the graph.
from_graph(g) ==
    LET configs == subjects_of_type(g, "BrokerConfig")
        config == CHOOSE s \in configs : TRUE
        set == properties(g, config) \ {"participant", "holder"}
        values == [p \in set |-> The(g, config, p)[1].v]
        participants == Values(g, config, "participant")
        holders == Values(g, config, "holder")
        crawler == read_crawler(g, values, participants, holders)
        complete ==
            /\ set \subseteq ALL_SETTINGS
            /\ \A p \in set : Cardinality(Values(g, config, p)) = 1
            /\ \A p \in set : The(g, config, p)[1].t # "bnode" /\ check(p, values[p])
            /\ crawler # None
            /\ ~ Unattached(g, {config} \cup participants \cup holders)
    IN IF UnknownClass(g) \/ Cardinality(configs) > 1 THEN None
       ELSE IF configs = {}
       THEN IF Unattached(g, {}) THEN None ELSE Some(NoSettings)
       ELSE IF complete THEN Some([values |-> values, crawler |-> crawler[1]])
       ELSE None

\* What the world gives: the environment variable, whether the default
\* directory has a document, documents by location, redirects by URL.

\* Every URL of the chain but the last redirects to the next, and the client
\* goes there; the last answers with a document.
Followed(world, chain) ==
    /\ \A i \in 1..(Len(chain) - 1) :
           /\ chain[i] \in DOMAIN world.redirects
           /\ chain[i + 1] = world.redirects[chain[i]]
           /\ ConfigRedirect(SubSeq(chain, 1, i), UrlOf[chain[i + 1]])
    /\ chain[Len(chain)] \notin DOMAIN world.redirects

FetchConfig(world, at) ==
    LET chains == {c \in UNION {[1..k -> DOMAIN UrlOf] : k \in 1..(MaxRedirects + 1)} :
                      c[1] = at /\ Followed(world, c)}
    IN IF chains = {} THEN None ELSE Some(CHOOSE c \in chains : TRUE)

\* The URLs requested, the last of which is where the document is; a local
\* document is its own path.  None: the location is refused or a redirect is.
from_location(world, location) ==
    IF location.remote THEN FetchConfig(world, location.at) ELSE Some(<<location.at>>)

\* Some([chain, settings]), or None: the broker does not start.
load(world) ==
    LET location == IF world.env # None THEN parse(world.env[1])
                    ELSE Some([remote |-> FALSE, at |-> "default"])
        chain == from_location(world, location[1])
        at == chain[1][Len(chain[1])]
        graph == world.documents[at]
    IN IF world.env = None /\ "default" \notin DOMAIN world.documents
       THEN Some([chain |-> <<>>, settings |-> NoSettings])
       ELSE IF /\ location # None /\ chain # None
               /\ at \in DOMAIN world.documents /\ from_graph(graph) # None
            THEN Some([chain |-> chain[1], settings |-> from_graph(graph)[1]])
            ELSE None
=============================================================================
