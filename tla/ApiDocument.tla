----------------------------- MODULE ApiDocument -----------------------------
(***************************************************************************)
(* The OpenAPI document the API publishes of itself: every operation with   *)
(* the endpoint its path names, the media types of its request and the      *)
(* statuses of its answers.  An operation on a fixed path has no action.    *)
(***************************************************************************)

Operation(endpoint, action, response, method, media, statuses) ==
    [endpoint |-> endpoint, action |-> action, response |-> response, method |-> method,
     media |-> media, statuses |-> statuses]

Get(endpoint, action, statuses) == Operation(endpoint, action, FALSE, "GET", {}, statuses)

\* Answered at once, or with a Location.
Post(endpoint, action, media, statuses) ==
    Operation(endpoint, action, FALSE, "POST", media, statuses)

\* At that Location, "-response"; without media types where only the URL is documented.
PostResponse(endpoint, action, media, statuses) ==
    Operation(endpoint, action, TRUE, "POST", media, statuses)

-----------------------------------------------------------------------------
(* The ICA itself and its discovery.                                       *)

IcaConfigurationDoc == Get("ica-configuration", "", {200})

WellKnownDidDoc == Get("well-known-did", "", {200})

DidDoc == Get("did", "", {200})

JwksDoc == Get("jwks", "", {200})

X509PemDoc == Get("x509.pem", "", {200, 404})

X509DerDoc == Get("x509.der", "", {200, 404})

DspaceVersionDoc == Get("dspace-version", "", {200})

DiscoveryCatalogDoc == Get("discovery-catalog", "", {200})

MemberDidDoc == Get("member-did", "", {200, 404})

-----------------------------------------------------------------------------
(* Backend authentication.                                                   *)

ControllerExchangeDoc == Post("controllerExchange", "_exchange", {"didcomm"}, {202, 400, 401})

ControllerExchangeResponseDoc == PostResponse("controllerExchange", "_exchange", {"json"}, {202, 200})

ApiKeyCreateDoc == Post("apiKey", "_create", {"json"}, {202})

ApiKeyCreateResponseDoc == PostResponse("apiKey", "_create", {}, {202, 200})

ApiKeyDisableDoc == Post("apiKey", "_disable", {"json"}, {202})

ApiKeyDisableResponseDoc == PostResponse("apiKey", "_disable", {}, {202, 200})

ApiKeyRemoveDoc == Post("apiKey", "_remove", {"json"}, {202})

ApiKeyRemoveResponseDoc == PostResponse("apiKey", "_remove", {}, {202, 200})

ApiKeySearchDoc == Post("apiKey", "_search", {}, {202})

ApiKeySearchResponseDoc == PostResponse("apiKey", "_search", {}, {202, 200})

IdentityDcrDoc == Post("identity", "_dcr", {"didcomm"}, {202})

IdentityDcrResponseDoc == PostResponse("identity", "_dcr", {}, {202, 200})

IdentityCodeDoc == Post("identity", "_code", {"didcomm"}, {202})

IdentityCodeResponseDoc == PostResponse("identity", "_code", {}, {202, 200})

IdentityTokenDoc == Post("identity", "_token", {"didcomm"}, {202})

IdentityTokenResponseDoc == PostResponse("identity", "_token", {}, {202, 200})

IdentityExchangeDoc == Post("identity", "_exchange", {"didcomm"}, {202})

IdentityExchangeResponseDoc == PostResponse("identity", "_exchange", {}, {202, 200})

-----------------------------------------------------------------------------
(* Entity, network, catalog and signed PDFs.                                 *)

CreateDidDoc == Post("createDid", "_create", {"didcomm"}, {202, 400, 415})

CreateDidResponseDoc == PostResponse("createDid", "_create", {"json"}, {202, 200, 400, 404, 500})

CatalogRequestDoc == Post("dcatRequest", "", {"json"}, {200, 400, 415})

CatalogDatasetDoc == Get("dcatDataset", "", {200, 404})

DdoRequestDoc == Post("ddoRequest", "", {"json"}, {200, 400, 415})

DdoDatasetDoc == Get("ddoDataset", "", {200, 404})

ActivateDoc == Post("activate", "_activate", {"didcomm"}, {202, 400, 500})

AddEvidenceDoc == Post("addEvidence", "_add", {"didcomm"}, {202, 400, 500})

DelegationDoc == Post("delegation", "_upsert", {"didcomm"}, {202, 400, 500})

MembersDiscoverDoc == Get("members", "_discover", {200})

IssueDoc == Post("issue", "_issue", {"didcomm"}, {202, 400, 500})

StatusDoc == Post("status", "_status", {"didcomm"}, {202, 400, 500})

RevokeDoc == Post("revoke", "_revoke", {"didcomm"}, {202, 400, 500})

SearchDoc == Post("search", "_search", {"form", "didcomm"}, {202, 400, 500})

RetrieveDoc == Post("retrieve", "_retrieve", {"didcomm", "form", "json"}, {202, 400, 500})

RetrieveDirectDoc == Get("retrieve", "_retrieve", {200, 400, 404})

SpacesListDoc == Post("spaces", "_list", {"didcomm"}, {200, 400})

SpacesReplaceDoc == Post("spaces", "_replace", {"didcomm"}, {200, 400})

VerifyDoc == Post("verify", "_verify", {"didcomm"}, {202, 400, 500})

RemoveDoc == Post("remove", "_remove", {"didcomm"}, {202, 400, 500})

ActivateResponseDoc == PostResponse("activate", "_activate", {}, {202, 200, 400, 404, 500})

AddEvidenceResponseDoc == PostResponse("addEvidence", "_add", {}, {202, 200, 400, 404, 500})

DelegationResponseDoc == PostResponse("delegation", "_upsert", {}, {202, 200, 400, 404, 500})

IssueResponseDoc == PostResponse("issue", "_issue", {}, {202, 200, 400, 404, 500})

StatusResponseDoc == PostResponse("status", "_status", {}, {202, 200, 400, 404, 500})

RevokeResponseDoc == PostResponse("revoke", "_revoke", {}, {202, 200, 400, 404, 500})

RemoveResponseDoc == PostResponse("remove", "_remove", {}, {202, 200, 400, 404, 500})

SearchResponseDoc == PostResponse("search", "_search", {}, {202, 200, 400, 404, 500})

RetrieveResponseDoc == PostResponse("retrieve", "_retrieve", {}, {202, 200, 400, 404, 500})

RotateCredentialsDoc == Post("rotate-credentials", "_rotate", {"didcomm"}, {202, 400})

RotateCredentialsResponseDoc == PostResponse("rotate-credentials", "_rotate", {}, {501})

RotateCommunicationsDoc == Post("rotate-communications", "_rotate", {"didcomm"}, {202, 400})

RotateCommunicationsResponseDoc == PostResponse("rotate-communications", "_rotate", {}, {501})

VerifyResponseDoc == PostResponse("verify", "_verify", {"json"}, {202, 200, 400, 500})

-----------------------------------------------------------------------------
Operations ==
    {IcaConfigurationDoc, WellKnownDidDoc, DidDoc, JwksDoc, X509PemDoc,
     X509DerDoc, DspaceVersionDoc, DiscoveryCatalogDoc, MemberDidDoc,
     ControllerExchangeDoc, ControllerExchangeResponseDoc, ApiKeyCreateDoc,
     ApiKeyCreateResponseDoc, ApiKeyDisableDoc, ApiKeyDisableResponseDoc,
     ApiKeyRemoveDoc, ApiKeyRemoveResponseDoc, ApiKeySearchDoc,
     ApiKeySearchResponseDoc, IdentityDcrDoc, IdentityDcrResponseDoc,
     IdentityCodeDoc, IdentityCodeResponseDoc, IdentityTokenDoc,
     IdentityTokenResponseDoc, IdentityExchangeDoc,
     IdentityExchangeResponseDoc, CreateDidDoc, CreateDidResponseDoc,
     CatalogRequestDoc, CatalogDatasetDoc, DdoRequestDoc, DdoDatasetDoc,
     ActivateDoc, AddEvidenceDoc, DelegationDoc, MembersDiscoverDoc,
     IssueDoc, StatusDoc, RevokeDoc, SearchDoc, RetrieveDoc,
     RetrieveDirectDoc, SpacesListDoc, SpacesReplaceDoc, VerifyDoc,
     RemoveDoc, ActivateResponseDoc, AddEvidenceResponseDoc,
     DelegationResponseDoc, IssueResponseDoc, StatusResponseDoc,
     RevokeResponseDoc, RemoveResponseDoc, SearchResponseDoc,
     RetrieveResponseDoc, RotateCredentialsDoc, RotateCredentialsResponseDoc,
     RotateCommunicationsDoc, RotateCommunicationsResponseDoc,
     VerifyResponseDoc}

\* The operation of an endpoint, as a set of at most one.
Documented(endpoint, action, response, method) ==
    {o \in Operations : /\ o.endpoint = endpoint /\ o.action = action
                        /\ o.response = response /\ o.method = method}

=============================================================================
