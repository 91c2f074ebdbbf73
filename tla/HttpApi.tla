------------------------------- MODULE HttpApi -------------------------------
(***************************************************************************)
(* The HTTP API as a whole: a request is dispatched by its path, in the     *)
(* order of the server, to a handler; a handler answers at once, or accepts *)
(* a job and answers with the Location of its poll, or polls a job.         *)
(*                                                                          *)
(* What a job does is the subject of other modules; here it is queued and   *)
(* it ends.  A handler is the set of statuses it may answer with: where it  *)
(* depends on stored data (a dataset, a certificate, a credential) or on a  *)
(* check of other modules, each outcome is in the set.                      *)
(*                                                                          *)
(* A request is a record [path, method, message, bearer, checks]: bearer    *)
(* tells whether it carries a valid one, checks whether it passes what its  *)
(* manager asks beyond the parser (a controller's proof, an organization's  *)
(* key, a client and its code).                                             *)
(***************************************************************************)
EXTENDS Routes, RequestParsing, ApiDocument, FiniteSets

CONSTANTS
    Requests,               \* the requests clients send
    ControllerConfigured,   \* the controller's DID is configured
    MaxJobs,                \* bound on the jobs
    None                    \* no answer, or no job behind it

ASSUME HttpAssumption == ControllerConfigured \in BOOLEAN /\ MaxJobs \in Nat

\* A response is asked for by the name of an action, and a path that is compared
\* as it is has none.
ASSUME RequestsAssumption ==
    \A r \in Requests : /\ r.path.response \in BOOLEAN /\ r.path.rest \in Seq(STRING)
                        /\ r.path.response => r.path.action # "" /\ Len(r.path.rest) # 1

VARIABLES
    jobs,       \* the jobs of all stores
    answer      \* what the client is being told, or None
httpVars == <<jobs, answer>>

Statuses == {200, 202, 204, 400, 401, 404, 405, 415, 500, 501}
AsyncEndpoints == {"controllerExchange", "apiKey", "identity", "verify", "remove", "createDid",
                   "activate", "addEvidence", "delegation", "issue", "status", "revoke",
                   "search", "retrieve"}

\* The three families of backend authentication share a store.
StoreOf(endpoint) ==
    IF endpoint \in {"controllerExchange", "apiKey", "identity"} THEN "auth" ELSE endpoint
Stores == {StoreOf(e) : e \in AsyncEndpoints}

HttpTypeOK ==
    /\ Cardinality(jobs) <= MaxJobs
    /\ \A j \in jobs :
          /\ DOMAIN j = {"store", "thid", "context", "path", "status"}
          /\ j.store \in Stores /\ j.store = StoreOf(j.context.endpoint)
          /\ ~j.path.response
          /\ j.thid # NoId
          /\ j.status \in {"queued", "succeeded", "failed"}
    \* a thread id names one job of a store
    /\ \A i, j \in jobs : i.store = j.store /\ i.thid = j.thid => i = j
    /\ answer # None =>
          /\ DOMAIN answer = {"request", "status", "by"} /\ answer.status \in Statuses
          /\ answer.by # None => answer.request.path.response /\ ~answer.by.response

HttpInit == jobs = {} /\ answer = None

-----------------------------------------------------------------------------
(* Handlers of fixed paths, all of which only answer GET.                  *)

GetOnly(r, statuses) == IF r.method = "GET" THEN statuses ELSE {405}

HandleRoot(r) == GetOnly(r, {200})
HandleIcaConfiguration(r) == GetOnly(r, {200})
HandleOpenApi(r) == GetOnly(r, {200})
HandleDid(r) == GetOnly(r, {200})
HandleJwks(r) == GetOnly(r, {200})
HandleX509Der(r) == GetOnly(r, {200, 404})
HandleX509Pem(r) == GetOnly(r, {200, 404})
HandleOrganizationCa(r) == GetOnly(r, {200, 404})
HandleDspaceVersion(r) == GetOnly(r, {200})
HandleDiscoveryCatalog(r) == GetOnly(r, {200})
\* Of any tenant, jurisdiction and sector.
HandleMembersDiscover(r) == GetOnly(r, {200})
HandleMemberDid(r) == GetOnly(r, {200, 404})
HandleApiDocs(r) == GetOnly(r, {200})

\* The paths that are compared as they are (the did.json of a member is one
\* only where the controller's is configured), and members/_discover.
FixedPaths ==
    {"root", "ica-configuration", "openapi.json", "well-known-did", "did", "jwks", "x509.der",
     "x509.pem", "organization-ca.pem", "dspace-version", "discovery-catalog",
     "discovery-catalog-alias", "api-docs"}
    \cup (IF ControllerConfigured THEN {"member-did"} ELSE {})

IsFixed(p) == Len(p.rest) = 1 /\ p.rest[1] \in FixedPaths

IsMembersDiscover(p) == Matches(p, <<{"network"}, {"members"}>>, {"_discover"}) /\ ~p.response

-----------------------------------------------------------------------------
(* Submissions and polls.                                                  *)

JobsOf(store, thid) == {j \in jobs : j.store = store /\ j.thid = thid}

\* The poll of every response manager; own holds the jobs that pass its sameRoute.
Poll(r, c, own) ==
    LET thid == parsePollingThreadId(r.message)
        found == own \cap JobsOf(StoreOf(c.endpoint), thid)
    IN  IF thid = NoId THEN {400}
        ELSE IF found = {} THEN {404}
        ELSE IF \E j \in found : j.status = "queued" THEN {202}
        ELSE {200}

\* A refusal is the answer; otherwise the job is queued.
Submit(refusal) == IF refusal = Fine THEN {202} ELSE {refusal}

\* A parser's refusal comes before the manager's own.
SubmitChecked(r, refusal) ==
    IF refusal # Fine THEN {refusal} ELSE IF r.checks THEN {202} ELSE {400}

PostOnly(r, statuses) == IF r.method = "POST" THEN statuses ELSE {405}

\* The bearer is checked before the body is read; what the service refuses is
\* a 400, or a 401 where it is a matter of tokens and bindings.
SubmitBackendAuth(r, c) ==
    LET refusal == IF c.endpoint = "apiKey" THEN parseJsonBody(r.message)
                   ELSE parseDidcommPlainPayload(r.message)
    IN  IF ~r.bearer THEN {401}
        ELSE IF refusal # Fine THEN {refusal}
        ELSE IF r.checks THEN {202}
        ELSE {400, 401}

PollBackendAuth(r, c) == Poll(r, c, {j \in jobs : SameAuthRoute(j.context, c)})

HandleControllerExchange(r, c) ==
    PostOnly(r, IF c.response THEN PollBackendAuth(r, c) ELSE SubmitBackendAuth(r, c))
HandleApiKey(r, c) ==
    PostOnly(r, IF c.response THEN PollBackendAuth(r, c) ELSE SubmitBackendAuth(r, c))
HandleIdentity(r, c) ==
    PostOnly(r, IF c.response THEN PollBackendAuth(r, c) ELSE SubmitBackendAuth(r, c))

\* Outside the development networks the organization brings its key.
SubmitVerify(r, c) ==
    IF c.rest[1] \in {"test", "local-network"} THEN Submit(parseVerifySubmission(r.message))
    ELSE SubmitChecked(r, parseVerifySubmission(r.message))
PollVerify(r, c) == Poll(r, c, {j \in jobs : SameVerifyRoute(j.context, c)})
HandleVerify(r, c) ==
    PostOnly(r, IF c.response THEN PollVerify(r, c) ELSE SubmitVerify(r, c))

SubmitTermsRemove(r) == Submit(parseTermsRemoveSubmission(r.message))
PollTermsRemove(r, c) == Poll(r, c, {j \in jobs : SameRemoveRoute(j.context, c)})
HandleTermsRemove(r, c) ==
    PostOnly(r, IF c.response THEN PollTermsRemove(r, c) ELSE SubmitTermsRemove(r))

SubmitCreateDidDocument(r) == Submit(parseCreateDidDocumentSubmission(r.message))
PollCreateDidDocument(r, c) == Poll(r, c, {j \in jobs : SameScope(j.context, c)})
HandleCreateDidDocument(r, c) ==
    PostOnly(r, IF c.response THEN PollCreateDidDocument(r, c) ELSE SubmitCreateDidDocument(r))

SubmitActivate(r) == SubmitChecked(r, parseActivateSigningKeySubmission(r.message))
PollActivate(r, c) == Poll(r, c, {j \in jobs : SameScope(j.context, c)})
HandleActivate(r, c) ==
    PostOnly(r, IF c.response THEN PollActivate(r, c) ELSE SubmitActivate(r))

SubmitAddEvidence(r) == Submit(parseAddEvidenceSubmission(r.message))
PollAddEvidence(r, c) == Poll(r, c, {j \in jobs : SameNetworkRoute(j.context, c)})
HandleAddEvidence(r, c) ==
    PostOnly(r, IF c.response THEN PollAddEvidence(r, c) ELSE SubmitAddEvidence(r))

SubmitDelegation(r) == Submit(parseDelegationPolicySubmission(r.message))
PollDelegation(r, c) == Poll(r, c, {j \in jobs : SameScope(j.context, c)})
HandleDelegation(r, c) ==
    PostOnly(r, IF c.response THEN PollDelegation(r, c) ELSE SubmitDelegation(r))

SubmitIssue(r) == Submit(parseIssueCredentialSubmission(r.message))
PollIssue(r, c) == Poll(r, c, {j \in jobs : SameNetworkRoute(j.context, c)})
HandleIssue(r, c) ==
    PostOnly(r, IF c.response THEN PollIssue(r, c) ELSE SubmitIssue(r))

SubmitStatus(r) == Submit(parseCredentialStatusSubmission(r.message))
PollStatus(r, c) == Poll(r, c, {j \in jobs : SameNetworkRoute(j.context, c)})
HandleStatus(r, c) ==
    PostOnly(r, IF c.response THEN PollStatus(r, c) ELSE SubmitStatus(r))

SubmitRevoke(r) == Submit(parseCredentialRevokeSubmission(r.message))
PollRevoke(r, c) == Poll(r, c, {j \in jobs : SameNetworkRoute(j.context, c)})
HandleRevoke(r, c) ==
    PostOnly(r, IF c.response THEN PollRevoke(r, c) ELSE SubmitRevoke(r))

SubmitSearch(r) == Submit(parseCredentialSearchSubmission(r.message))
PollSearch(r, c) == Poll(r, c, {j \in jobs : SameNetworkRoute(j.context, c)})
HandleSearch(r, c) ==
    PostOnly(r, IF c.response THEN PollSearch(r, c) ELSE SubmitSearch(r))

\* checks: the version and the format the URL asks for are known.
SubmitRetrieve(r) ==
    IF ~r.checks THEN {400} ELSE Submit(parseCredentialSearchSubmission(r.message))

PollRetrieve(r, c) == Poll(r, c, {j \in jobs : SameNetworkRoute(j.context, c)})

\* A GET of _retrieve is answered at once.
retrieveDirect(r) == IF r.checks /\ r.message.params THEN {200, 400, 404} ELSE {400}

\* Altered: only POST is let through.
HandleRetrievePostOnly(r, c) ==
    PostOnly(r, IF c.response THEN PollRetrieve(r, c) ELSE SubmitRetrieve(r))

HandleRetrieve(r, c) ==
    IF ~c.response /\ r.method = "GET" THEN retrieveDirect(r)
    ELSE PostOnly(r, IF c.response THEN PollRetrieve(r, c) ELSE SubmitRetrieve(r))

\* Accepted without a job, and its poll is a stub.
HandleRotate(r, c) ==
    PostOnly(r, IF c.response THEN {501}
                ELSE SubmitChecked(r, parseRotateSubmission(r.message)))

-----------------------------------------------------------------------------
(* Handlers that answer at once.                                           *)

HandleSpaces(r, c) ==
    LET refusal == IF c.action = "_list" THEN parseSpacesListSubmission(r.message)
                   ELSE parseSpacesReplaceSubmission(r.message)
    IN  PostOnly(r, IF refusal = Fine THEN {200} ELSE {refusal})

FilterCatalog(r) ==
    LET refusal == parseJsonObjectBody(r.message)
    IN  PostOnly(r, IF refusal = Fine THEN {200} ELSE {refusal})

HandleCatalogRequest(r) == FilterCatalog(r)
HandleCatalogDataset(r) == GetOnly(r, {200, 404})
HandleDdoRequest(r) == FilterCatalog(r)
HandleDdoDataset(r) == GetOnly(r, {200, 404})

-----------------------------------------------------------------------------
(* Dispatch.                                                               *)

\* The endpoints with a parser, in the order the server asks them.
Order == <<"dcatRequest", "dcatDataset", "ddoRequest", "ddoDataset", "spaces",
           "controllerExchange", "apiKey", "identity", "verify", "remove", "createDid",
           "activate", "addEvidence", "delegation", "issue", "status", "revoke", "search",
           "retrieve", "rotate">>

ParsedBy(endpoint, p) ==
    CASE endpoint = "dcatRequest" -> parseDcatCatalogRequestRoute(p)
      [] endpoint = "dcatDataset" -> parseDcatCatalogDatasetRoute(p)
      [] endpoint = "ddoRequest" -> parseDcatCatalogDdoRequestRoute(p)
      [] endpoint = "ddoDataset" -> parseDcatCatalogDdoDatasetRoute(p)
      [] endpoint = "spaces" -> parseSpacesRoute(p)
      [] endpoint = "controllerExchange" -> parseControllerExchangeRoute(p)
      [] endpoint = "apiKey" -> parseApiKeyProvisioningRoute(p)
      [] endpoint = "identity" -> parseIdentityAuthRoute(p)
      [] endpoint = "verify" -> parseVerifyRoute(p)
      [] endpoint = "remove" -> parseTermsRemoveRoute(p)
      [] endpoint = "createDid" -> parseCreateDidDocumentRoute(p)
      [] endpoint = "activate" -> parseActivateRoute(p)
      [] endpoint = "addEvidence" -> parseAddEvidenceRoute(p)
      [] endpoint = "delegation" -> parseDelegationPolicyRoute(p)
      [] endpoint = "issue" -> parseIssueCredentialRoute(p)
      [] endpoint = "status" -> parseCredentialStatusRoute(p)
      [] endpoint = "revoke" -> parseCredentialRevokeRoute(p)
      [] endpoint = "search" -> parseCredentialSearchRoute(p)
      [] endpoint = "retrieve" -> parseCredentialRetrieveRoute(p)
      [] endpoint = "rotate" -> parseRotateRoute(p)

\* The first parser whose expression matches decides, also when it refuses.
Endpoint(p) ==
    LET matching == {i \in DOMAIN Order : ParsedBy(Order[i], p).kind # "none"}
    IN  IF IsFixed(p) THEN p.rest[1]
        ELSE IF IsMembersDiscover(p) THEN "members"
        ELSE IF matching = {} THEN "none"
        ELSE Order[CHOOSE i \in matching : \A j \in matching : i <= j]

HandleFixed(r, endpoint) ==
    CASE endpoint = "root" -> HandleRoot(r)
      [] endpoint = "ica-configuration" -> HandleIcaConfiguration(r)
      [] endpoint = "openapi.json" -> HandleOpenApi(r)
      [] endpoint \in {"well-known-did", "did"} -> HandleDid(r)
      [] endpoint = "jwks" -> HandleJwks(r)
      [] endpoint = "x509.der" -> HandleX509Der(r)
      [] endpoint = "x509.pem" -> HandleX509Pem(r)
      [] endpoint = "organization-ca.pem" -> HandleOrganizationCa(r)
      [] endpoint = "dspace-version" -> HandleDspaceVersion(r)
      [] endpoint \in {"discovery-catalog", "discovery-catalog-alias"} -> HandleDiscoveryCatalog(r)
      [] endpoint = "members" -> HandleMembersDiscover(r)
      [] endpoint = "member-did" -> HandleMemberDid(r)
      [] endpoint = "api-docs" -> HandleApiDocs(r)

HandleRoute(r, c) ==
    CASE c.endpoint = "dcatRequest" -> HandleCatalogRequest(r)
      [] c.endpoint = "dcatDataset" -> HandleCatalogDataset(r)
      [] c.endpoint = "ddoRequest" -> HandleDdoRequest(r)
      [] c.endpoint = "ddoDataset" -> HandleDdoDataset(r)
      [] c.endpoint = "spaces" -> HandleSpaces(r, c)
      [] c.endpoint = "controllerExchange" -> HandleControllerExchange(r, c)
      [] c.endpoint = "apiKey" -> HandleApiKey(r, c)
      [] c.endpoint = "identity" -> HandleIdentity(r, c)
      [] c.endpoint = "verify" -> HandleVerify(r, c)
      [] c.endpoint = "remove" -> HandleTermsRemove(r, c)
      [] c.endpoint = "createDid" -> HandleCreateDidDocument(r, c)
      [] c.endpoint = "activate" -> HandleActivate(r, c)
      [] c.endpoint = "addEvidence" -> HandleAddEvidence(r, c)
      [] c.endpoint = "delegation" -> HandleDelegation(r, c)
      [] c.endpoint = "issue" -> HandleIssue(r, c)
      [] c.endpoint = "status" -> HandleStatus(r, c)
      [] c.endpoint = "revoke" -> HandleRevoke(r, c)
      [] c.endpoint = "search" -> HandleSearch(r, c)
      [] c.endpoint = "retrieve" -> HandleRetrieve(r, c)
      [] c.endpoint = "rotate" -> HandleRotate(r, c)

\* The statuses a request may be answered with.
Handle(r) ==
    LET endpoint == Endpoint(r.path)
    IN  IF r.method = "OPTIONS" THEN {204}
        ELSE IF endpoint \in FixedPaths \cup {"members"} THEN HandleFixed(r, endpoint)
        ELSE IF endpoint = "none" THEN {404}
        ELSE LET parsed == ParsedBy(endpoint, r.path)
             IN  IF parsed.kind = "refused" THEN {400} ELSE HandleRoute(r, parsed.context)

-----------------------------------------------------------------------------
(* Jobs and their Locations.                                               *)

ThidOf(endpoint, m) ==
    CASE endpoint \in {"controllerExchange", "apiKey", "identity"} -> extractThreadId(m)
      [] endpoint \in {"search", "retrieve"} -> SearchThid(m)
      [] OTHER -> DidcommThid(m)

\* The others leave it to the client to know its thread id.
CarriesThid(endpoint) ==
    endpoint \in {"verify", "remove", "createDid", "controllerExchange", "apiKey", "identity"}

\* Altered: the status is the word of the answer.
NewJobAccepted(r, c) ==
    [store |-> StoreOf(c.endpoint), thid |-> ThidOf(c.endpoint, r.message),
     context |-> c, path |-> r.path, status |-> "accepted"]

NewJob(r, c) ==
    [store |-> StoreOf(c.endpoint), thid |-> ThidOf(c.endpoint, r.message),
     context |-> c, path |-> r.path, status |-> "queued"]

\* The job a poll's answer is about: that of a 202 or of a 200.
By(r, status) ==
    IF r.path.response /\ status \in {200, 202}
    THEN (CHOOSE j \in JobsOf(StoreOf(Endpoint(r.path)), parsePollingThreadId(r.message)) : TRUE).path
    ELSE None

IsSubmission(r) == r.method = "POST" /\ ~r.path.response /\ Endpoint(r.path) \in AsyncEndpoints

Serve(r) ==
    /\ answer = None
    /\ \E status \in Handle(r) :
          /\ ~(status = 202 /\ IsSubmission(r))
          /\ answer' = [request |-> r, status |-> status, by |-> By(r, status)]
    /\ UNCHANGED jobs

\* A thread id that is in use gets the new job.
Accept(r) ==
    /\ answer = None
    /\ IsSubmission(r) /\ 202 \in Handle(r)
    /\ LET job == NewJob(r, ParsedBy(Endpoint(r.path), r.path).context)
       IN  jobs' = (jobs \ JobsOf(job.store, job.thid)) \cup {job}
    /\ Cardinality(jobs') <= MaxJobs
    /\ answer' = [request |-> r, status |-> 202, by |-> None]

Take ==
    /\ answer # None
    /\ answer' = None
    /\ UNCHANGED jobs

End(j, status) ==
    /\ j.status = "queued" /\ answer = None
    /\ jobs' = (jobs \ {j}) \cup {[j EXCEPT !.status = status]}
    /\ UNCHANGED answer

\* The stores are in memory.
HttpRestart ==
    /\ jobs # {} /\ answer = None
    /\ jobs' = {}
    /\ UNCHANGED answer

\* The requests that are answered otherwise beside a job: the polls of its store
\* and the submissions to it.
PathsOf == [s \in Stores |-> {p \in {r.path : r \in Requests} : StoreOf(Endpoint(p)) = s}]
AboutStore == [s \in Stores |-> {r \in Requests : r.method = "POST" /\ r.path \in PathsOf[s]}]

\* Beside a job no others are followed.
Followed == IF jobs = {} THEN Requests ELSE UNION {AboutStore[j.store] : j \in jobs}

HttpNext ==
    \/ answer = None /\ \E r \in Followed : Serve(r) \/ Accept(r)
    \/ Take
    \/ \E j \in jobs, status \in {"succeeded", "failed"} : End(j, status)
    \/ HttpRestart

HttpSpec == HttpInit /\ [][HttpNext]_httpVars

-----------------------------------------------------------------------------
(* What the API promises to its clients.                                   *)

\* The parsers are asked one after the other and the first whose expression
\* matches answers, also with a refusal; yet a path that any of them accepts is
\* answered by that one (_activate and _rotate share an expression, the PDF and
\* the credential paths have a parameter where others have a name).
NoShadow ==
    answer # None =>
        \A i \in DOMAIN Order :
            ParsedBy(Order[i], answer.request.path).kind = "route" =>
                Endpoint(answer.request.path) = Order[i]

\* The poll at the Location of a job, by the thread id of the Location or, where
\* it has none, by the client's own.
Following(j) ==
    [path |-> ResponseLocation(j.context), method |-> "POST", bearer |-> FALSE, checks |-> FALSE,
     message |-> [media |-> "none", encoded |-> FALSE, text |-> "empty",
                  query |-> [thid |-> j.thid, id |-> NoId, jti |-> NoId]]]

\* An accepted job is there for its client: the poll at its Location comes to
\* the endpoint that accepted it, passes the same validation and is answered
\* about a job, however the submission's path was spelled (aliases of network
\* kinds, letter case) and wherever its thread id stood.  Except: a Location
\* without thread id, where the server made the thread id up, says nothing the
\* client could poll with.
AcceptedCanBePolled ==
    \A j \in jobs :
        CarriesThid(j.context.endpoint) \/ j.thid # Generated =>
            /\ Endpoint(Following(j).path) = j.context.endpoint
            /\ Handle(Following(j)) \subseteq {200, 202}

\* Paths that differ by -response alone, up to what the API documents as the
\* same: letter case of all but the tenant, and the network kind "terms".
PathsAgree(p, q) ==
    /\ p.tenant = q.tenant /\ ("tenant" \in p.upper <=> "tenant" \in q.upper)
    /\ p.jurisdiction = q.jurisdiction /\ p.sector = q.sector
    /\ p.action = q.action /\ Len(p.rest) = Len(q.rest)
    /\ \A i \in DOMAIN p.rest :
          \/ p.rest[i] = q.rest[i]
          \/ i = 1 /\ parseIcaNetworkKind(p.rest[1]) = parseIcaNetworkKind(q.rest[1])
          \/ i = 1 /\ p.action = "_remove" /\ p.rest[2] = "pdf"

\* A poll is told of a job only at the path the job was submitted to, although
\* three families share a store and every client chooses its own thread ids.
\* Except: the network kind of a _remove is not compared.
AnswersStayWithRoute ==
    answer # None /\ answer.by # None => PathsAgree(answer.request.path, answer.by)

\* The name of the operation at a path.
OperationAt(p, endpoint) ==
    IF endpoint # "rotate" THEN endpoint
    ELSE IF p.rest[3] = "credentials" THEN "rotate-credentials" ELSE "rotate-communications"

\* What the document leaves out of an operation: 415 where something is
\* submitted, refusals of backend authentication, a refused path where only a
\* lookup is documented, and the unknown job of _verify.
LeftOut(o) ==
    (IF o.media # {} /\ ~o.response THEN {415} ELSE {})
    \cup (IF o.endpoint \in {"controllerExchange", "apiKey", "identity"}
          THEN IF o.response THEN {400, 404} ELSE {400, 401, 415} ELSE {})
    \cup (IF o.endpoint \in {"dcatDataset", "ddoDataset"} \/ o.statuses = {501} THEN {400} ELSE {})
    \cup (IF o.endpoint = "verify" /\ o.response THEN {404} ELSE {})

\* A documented operation is served, and answers as the document says up to what
\* it leaves out; a media type the document names is never the reason of a 415
\* (but for the older transports of a search where they are off).
AnswersAsDocumented ==
    answer # None =>
        LET r == answer.request
            endpoint == Endpoint(r.path)
        IN  \A o \in Documented(OperationAt(r.path, endpoint), r.path.action, r.path.response, r.method) :
                /\ answer.status \in o.statuses \cup LeftOut(o)
                /\ answer.status = 415 =>
                      \/ r.message.encoded
                      \/ r.message.media \notin o.media
                      \/ r.message.media # "didcomm" /\ ~LegacySearch

=============================================================================
