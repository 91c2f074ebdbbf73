-------------------------------- MODULE Routes --------------------------------
(***************************************************************************)
(* The routes of the API: one parser per family of paths, each with its     *)
(* expression, its validation and the context it hands on, the builders of  *)
(* the Location a submission is answered with, and sameRoute, by which a    *)
(* poll decides whether a job is its own.                                   *)
(*                                                                          *)
(* A path /{tenant}/cds-{jurisdiction}/v1/{sector}/{rest}/{action} is a     *)
(* record; the expressions ignore letter case, so `upper` holds which of    *)
(* its parts are spelled in another case than the canonical one; response   *)
(* tells whether the action's name ends in -response.                       *)
(***************************************************************************)
EXTENDS Naturals, Sequences

CONSTANTS
    LocalTenant,            \* ICA_LOCAL_TENANT_ID, or AnyTenant
    AnyTenant,
    SupportedJurisdictions, \* ICA_SUPPORTED_JURISDICTIONS
    SupportedSectors,       \* ICA_SUPPORTED_SECTORS
    AnySector,              \* its wildcard
    VersionTokens,          \* well-formed resource types: "contract", a version
    TestTokens,             \* and versions with the prefix test-
    AllowTestPrefix,        \* ICA_ENABLE_TEST_TERMS_PREFIX
    ActiveResourceTypes     \* ICA_TERMS_ACTIVE_RESOURCE_TYPES; {} for all

ASSUME RoutesAssumption ==
    /\ AllowTestPrefix \in BOOLEAN
    /\ VersionTokens \cap TestTokens = {}

NotMine == [kind |-> "none"]
RefusedRoute == [kind |-> "refused"]
Parsed(context) == [kind |-> "route", context |-> context]

-----------------------------------------------------------------------------
(* What the parsers share.                                                 *)

\* pattern: for every segment of rest, the names it may be; Parameter for a parameter.
Parameter == {"*"}
Matches(p, pattern, actions) ==
    /\ Len(p.rest) = Len(pattern)
    /\ \A i \in DOMAIN pattern : pattern[i] = Parameter \/ p.rest[i] \in pattern[i]
    /\ p.action \in actions

\* Altered: the tenant is compared letter by letter.
ValidTenantStrict(p) ==
    LocalTenant = AnyTenant \/ (p.tenant = LocalTenant /\ "tenant" \notin p.upper)

\* Without regard to letter case.
ValidTenant(p) == LocalTenant = AnyTenant \/ p.tenant = LocalTenant

validateJurisdiction(p) == p.jurisdiction \in SupportedJurisdictions

\* AnySector in the list lets every sector pass.
isSupportedSector(sector) == AnySector \in SupportedSectors \/ sector \in SupportedSectors

\* The checks every parser makes, in each the same.
Valid(p) == ValidTenant(p) /\ validateJurisdiction(p) /\ isSupportedSector(p.sector)

\* The sector is lowered, and so are the segments in `folded`; the rest of the
\* spelling is kept.
Context(p, endpoint, folded) ==
    [endpoint |-> endpoint, tenant |-> p.tenant, jurisdiction |-> p.jurisdiction,
     sector |-> p.sector, rest |-> p.rest, action |-> p.action, response |-> p.response,
     upper |-> p.upper \ ({"sector"} \cup folded)]

Parse(p, endpoint, pattern, actions, folded) ==
    IF ~Matches(p, pattern, actions) THEN NotMine
    ELSE IF ~Valid(p) THEN RefusedRoute
    ELSE Parsed(Context(p, endpoint, folded))

-----------------------------------------------------------------------------
(* Signed PDFs: /{networkKind}/pdf/{resourceType}/_verify and _remove.      *)

PdfKinds == {"terms", "test", "local-network", "test-network", "network"}

\* "terms" is the old name of "test".
parseIcaNetworkKind(name) == IF name = "terms" THEN "test" ELSE name

\* contract, a version, or a version with test- where that is allowed.
parseResourceType(name) == name \in VersionTokens \/ (AllowTestPrefix /\ name \in TestTokens)

isActiveResourceType(name) == ActiveResourceTypes = {} \/ name \in ActiveResourceTypes

PdfContext(p, endpoint) ==
    [Context(p, endpoint, {"parameter"}) EXCEPT !.rest[1] = parseIcaNetworkKind(@)]

parseVerifyRoute(p) ==
    IF ~Matches(p, <<PdfKinds, {"pdf"}, Parameter>>, {"_verify"}) THEN NotMine
    ELSE IF Valid(p) /\ parseResourceType(p.rest[3]) /\ isActiveResourceType(p.rest[3])
         THEN Parsed(PdfContext(p, "verify"))
         ELSE RefusedRoute

parseTermsRemoveRoute(p) ==
    IF ~Matches(p, <<PdfKinds, {"pdf"}, Parameter>>, {"_remove"}) THEN NotMine
    ELSE IF Valid(p) /\ parseResourceType(p.rest[3])
         THEN Parsed(PdfContext(p, "remove"))
         ELSE RefusedRoute

-----------------------------------------------------------------------------
(* Keys and documents of the entity.                                       *)

\* The path of _activate and _rotate, which two parsers take apart.
parseEntityKeysRoute(p, endpoint) ==
    Parse(p, endpoint, <<{"entity"}, {"keys"}, {"credentials", "communications"}>>,
          {"_activate", "_rotate"}, {"parameter"})

\* Altered: whatever is not an _activate of credentials is refused here.
parseActivateRouteGreedy(p) ==
    LET parsed == parseEntityKeysRoute(p, "activate")
    IN  IF parsed.kind # "route" THEN parsed
        ELSE IF p.rest[3] = "credentials" /\ p.action = "_activate" THEN parsed
        ELSE RefusedRoute

\* A refusal of the path is an answer even where its action is _rotate.
parseActivateRoute(p) ==
    LET parsed == parseEntityKeysRoute(p, "activate")
    IN  IF parsed.kind # "route" THEN parsed
        ELSE IF p.action # "_activate" THEN NotMine
        ELSE IF p.rest[3] = "credentials" THEN parsed
        ELSE RefusedRoute

parseRotateRoute(p) ==
    LET parsed == parseEntityKeysRoute(p, "rotate")
    IN  IF parsed.kind = "route" /\ p.action # "_rotate" THEN NotMine ELSE parsed

parseCreateDidDocumentRoute(p) ==
    Parse(p, "createDid", <<{"entity"}, {"did"}, {"document"}>>, {"_create"}, {})

-----------------------------------------------------------------------------
(* The network section.                                                    *)

parseAddEvidenceRoute(p) ==
    Parse(p, "addEvidence", <<{"network"}, {"evidence"}, Parameter>>, {"_add"}, {"parameter"})

parseDelegationPolicyRoute(p) ==
    Parse(p, "delegation", <<{"network"}, {"policies"}, {"delegations"}>>, {"_upsert"}, {})

\* A credential type keeps its spelling.
Credentials == <<{"network"}, {"credentials"}, Parameter>>

parseIssueCredentialRoute(p) == Parse(p, "issue", Credentials, {"_issue"}, {})

parseCredentialStatusRoute(p) == Parse(p, "status", Credentials, {"_status"}, {})

parseCredentialRevokeRoute(p) == Parse(p, "revoke", Credentials, {"_revoke"}, {})

parseCredentialSearchRoute(p) == Parse(p, "search", Credentials, {"_search"}, {})

parseCredentialRetrieveRoute(p) == Parse(p, "retrieve", Credentials, {"_retrieve"}, {})

\* Answered at once: there is no -response.
parseSpacesRoute(p) ==
    IF p.response THEN NotMine
    ELSE Parse(p, "spaces", <<{"network"}, {"spaces"}>>, {"_list", "_replace"}, {})

-----------------------------------------------------------------------------
(* Backend authentication and the catalog.                                 *)

parseControllerExchangeRoute(p) ==
    Parse(p, "controllerExchange", <<{"organization"}, {"dataspace"}, {"auth"}>>, {"_exchange"}, {})

parseApiKeyProvisioningRoute(p) ==
    Parse(p, "apiKey", <<{"api-key"}, {"org.schema"}, {"action"}>>,
          {"_create", "_disable", "_remove", "_search"}, {})

parseIdentityAuthRoute(p) ==
    Parse(p, "identity", <<{"identity"}, {"auth"}>>, {"_dcr", "_code", "_token", "_exchange"}, {})

\* The catalog's paths end without an action.
parseDcatCatalogRequestRoute(p) ==
    Parse(p, "dcatRequest", <<{"dcat3"}, {"catalog"}, {"request"}>>, {""}, {})

parseDcatCatalogDatasetRoute(p) ==
    Parse(p, "dcatDataset", <<{"dcat3"}, {"catalog"}, {"datasets"}, Parameter>>, {""}, {})

parseDcatCatalogDdoRequestRoute(p) ==
    Parse(p, "ddoRequest", <<{"dcat3"}, {"catalog"}, {"ddo"}, {"request"}>>, {""}, {})

parseDcatCatalogDdoDatasetRoute(p) ==
    Parse(p, "ddoDataset", <<{"dcat3"}, {"catalog"}, {"ddo"}, {"datasets"}, Parameter>>, {""}, {})

-----------------------------------------------------------------------------
(* Locations, and whose job a poll finds.                                  *)

\* Altered: the Location of a PDF's job names the old alias.
ResponseLocationTerms(context) ==
    [tenant |-> context.tenant, jurisdiction |-> context.jurisdiction, sector |-> context.sector,
     rest |-> IF context.endpoint = "verify" THEN [context.rest EXCEPT ![1] = "network"]
              ELSE context.rest,
     action |-> context.action, response |-> TRUE, upper |-> context.upper]

\* build...ResponseLocation of every family.
ResponseLocation(context) ==
    [tenant |-> context.tenant, jurisdiction |-> context.jurisdiction, sector |-> context.sector,
     rest |-> context.rest, action |-> context.action, response |-> TRUE, upper |-> context.upper]

\* Tenants are compared letter by letter, jurisdictions are not; sectors are
\* lowered already.
SameScope(a, b) ==
    /\ a.tenant = b.tenant /\ ("tenant" \in a.upper <=> "tenant" \in b.upper)
    /\ a.jurisdiction = b.jurisdiction
    /\ a.sector = b.sector

SameVerifyRoute(a, b) == SameScope(a, b) /\ a.rest = b.rest

\* The network kind is not compared.
SameRemoveRoute(a, b) == SameScope(a, b) /\ a.rest[3] = b.rest[3]

\* The type of a credential or of an evidence, without regard to letter case.
SameNetworkRoute(a, b) == SameScope(a, b) /\ a.rest[3] = b.rest[3]

\* Altered: the action of the job is not asked for.
SameAuthRouteAnyAction(a, b) == SameScope(a, b) /\ a.endpoint = b.endpoint

\* The three families share a store: section and action are compared.
SameAuthRoute(a, b) == SameScope(a, b) /\ a.endpoint = b.endpoint /\ a.action = b.action

=============================================================================
