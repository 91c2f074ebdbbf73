---------------------------- MODULE HttpApi_proofs ----------------------------
(***************************************************************************)
(* TLAPS proofs about HttpApi, for any configuration of tenants,            *)
(* jurisdictions, sectors, resource types and media types, any requests and *)
(* any number of jobs.                                                      *)
(*                                                                          *)
(* First what the parsers of all paths match and hand on, and that a path   *)
(* which one of them accepts is asked for by no other (NoShadow).  Then     *)
(* what each handler answers with; the invariant HttpInv, that a job keeps  *)
(* what the parser of its path handed on; and from both that an accepted    *)
(* job can be polled, that a poll is told of jobs of its own path alone,    *)
(* and that the API answers as its document says.                           *)
(***************************************************************************)
EXTENDS HttpApi, FiniteSetTheorems, TLAPS

-----------------------------------------------------------------------------
(* The expressions of the parsers.                                         *)

Named(a, name) == a = Parameter \/ name \in a

LEMMA MatchesTwo ==
    ASSUME NEW p, NEW a, NEW b, NEW actions
    PROVE  Matches(p, <<a, b>>, actions) <=>
             /\ Len(p.rest) = 2 /\ p.action \in actions
             /\ Named(a, p.rest[1]) /\ Named(b, p.rest[2])
BY DEF Matches, Named

LEMMA MatchesThree ==
    ASSUME NEW p, NEW a, NEW b, NEW c, NEW actions
    PROVE  Matches(p, <<a, b, c>>, actions) <=>
             /\ Len(p.rest) = 3 /\ p.action \in actions
             /\ Named(a, p.rest[1]) /\ Named(b, p.rest[2]) /\ Named(c, p.rest[3])
BY DEF Matches, Named

LEMMA MatchesFour ==
    ASSUME NEW p, NEW a, NEW b, NEW c, NEW d, NEW actions
    PROVE  Matches(p, <<a, b, c, d>>, actions) <=>
             /\ Len(p.rest) = 4 /\ p.action \in actions
             /\ Named(a, p.rest[1]) /\ Named(b, p.rest[2]) /\ Named(c, p.rest[3])
             /\ Named(d, p.rest[4])
BY DEF Matches, Named

LEMMA MatchesFive ==
    ASSUME NEW p, NEW a, NEW b, NEW c, NEW d, NEW e, NEW actions
    PROVE  Matches(p, <<a, b, c, d, e>>, actions) <=>
             /\ Len(p.rest) = 5 /\ p.action \in actions
             /\ Named(a, p.rest[1]) /\ Named(b, p.rest[2]) /\ Named(c, p.rest[3])
             /\ Named(d, p.rest[4]) /\ Named(e, p.rest[5])
BY DEF Matches, Named

\* A name that is not the parameter's stands for itself.
LEMMA NamedItself ==
    ASSUME NEW x, x # "*", NEW name
    PROVE  Named({x}, name) <=> name = x
BY DEF Named, Parameter

LEMMA NamedTwo ==
    ASSUME NEW x, NEW y, x # "*", NEW name
    PROVE  Named({x, y}, name) <=> name \in {x, y}
BY DEF Named, Parameter

LEMMA NamedPdf == ASSUME NEW name PROVE Named(PdfKinds, name) <=> name \in PdfKinds
BY DEF Named, Parameter, PdfKinds

LEMMA NamedAny == ASSUME NEW name PROVE Named(Parameter, name)
BY DEF Named

LEMMA ParseKinds ==
    ASSUME NEW p, NEW e, NEW pattern, NEW actions, NEW folded
    PROVE  LET parsed == Parse(p, e, pattern, actions, folded)
           IN  /\ parsed.kind # "none" <=> Matches(p, pattern, actions)
               /\ parsed.kind = "route" <=> Matches(p, pattern, actions) /\ Valid(p)
               /\ parsed.kind = "route" => parsed = Parsed(Context(p, e, folded))
BY DEF Parse, NotMine, RefusedRoute, Parsed

\* What a path looks like that a parser takes for its own.
LEMMA DcatRequestShape ==
    ASSUME NEW p, parseDcatCatalogRequestRoute(p).kind # "none"
    PROVE  /\ Len(p.rest) = 3 /\ p.rest[1] = "dcat3" /\ p.rest[2] = "catalog"
           /\ p.rest[3] = "request" /\ p.action = ""
<1>1. Matches(p, <<{"dcat3"}, {"catalog"}, {"request"}>>, {""})
  BY DEF parseDcatCatalogRequestRoute, NotMine, Parse
<1>2. /\ Len(p.rest) = 3 /\ p.action \in {""}
      /\ Named({"dcat3"}, p.rest[1])
      /\ Named({"catalog"}, p.rest[2])
      /\ Named({"request"}, p.rest[3])
  BY <1>1, MatchesThree
<1>3. QED
  BY <1>2, NamedItself

LEMMA DcatDatasetShape ==
    ASSUME NEW p, parseDcatCatalogDatasetRoute(p).kind # "none"
    PROVE  /\ Len(p.rest) = 4 /\ p.rest[1] = "dcat3" /\ p.rest[2] = "catalog"
           /\ p.rest[3] = "datasets" /\ p.action = ""
<1>1. Matches(p, <<{"dcat3"}, {"catalog"}, {"datasets"}, Parameter>>, {""})
  BY DEF parseDcatCatalogDatasetRoute, NotMine, Parse
<1>2. /\ Len(p.rest) = 4 /\ p.action \in {""}
      /\ Named({"dcat3"}, p.rest[1])
      /\ Named({"catalog"}, p.rest[2])
      /\ Named({"datasets"}, p.rest[3])
      /\ Named(Parameter, p.rest[4])
  BY <1>1, MatchesFour
<1>3. QED
  BY <1>2, NamedItself

LEMMA DdoRequestShape ==
    ASSUME NEW p, parseDcatCatalogDdoRequestRoute(p).kind # "none"
    PROVE  /\ Len(p.rest) = 4 /\ p.rest[1] = "dcat3" /\ p.rest[2] = "catalog"
           /\ p.rest[3] = "ddo" /\ p.rest[4] = "request" /\ p.action = ""
<1>1. Matches(p, <<{"dcat3"}, {"catalog"}, {"ddo"}, {"request"}>>, {""})
  BY DEF parseDcatCatalogDdoRequestRoute, NotMine, Parse
<1>2. /\ Len(p.rest) = 4 /\ p.action \in {""}
      /\ Named({"dcat3"}, p.rest[1])
      /\ Named({"catalog"}, p.rest[2])
      /\ Named({"ddo"}, p.rest[3])
      /\ Named({"request"}, p.rest[4])
  BY <1>1, MatchesFour
<1>3. QED
  BY <1>2, NamedItself

LEMMA DdoDatasetShape ==
    ASSUME NEW p, parseDcatCatalogDdoDatasetRoute(p).kind # "none"
    PROVE  /\ Len(p.rest) = 5 /\ p.rest[1] = "dcat3" /\ p.rest[2] = "catalog"
           /\ p.rest[3] = "ddo" /\ p.rest[4] = "datasets" /\ p.action = ""
<1>1. Matches(p, <<{"dcat3"}, {"catalog"}, {"ddo"}, {"datasets"}, Parameter>>, {""})
  BY DEF parseDcatCatalogDdoDatasetRoute, NotMine, Parse
<1>2. /\ Len(p.rest) = 5 /\ p.action \in {""}
      /\ Named({"dcat3"}, p.rest[1])
      /\ Named({"catalog"}, p.rest[2])
      /\ Named({"ddo"}, p.rest[3])
      /\ Named({"datasets"}, p.rest[4])
      /\ Named(Parameter, p.rest[5])
  BY <1>1, MatchesFive
<1>3. QED
  BY <1>2, NamedItself

LEMMA SpacesShape ==
    ASSUME NEW p, parseSpacesRoute(p).kind # "none"
    PROVE  /\ Len(p.rest) = 2 /\ p.rest[1] = "network" /\ p.rest[2] = "spaces"
           /\ p.action \in {"_list", "_replace"}
<1>1. Matches(p, <<{"network"}, {"spaces"}>>, {"_list", "_replace"})
  BY DEF parseSpacesRoute, NotMine, Parse
<1>2. /\ Len(p.rest) = 2 /\ p.action \in {"_list", "_replace"}
      /\ Named({"network"}, p.rest[1])
      /\ Named({"spaces"}, p.rest[2])
  BY <1>1, MatchesTwo
<1>3. QED
  BY <1>2, NamedItself

LEMMA ControllerExchangeShape ==
    ASSUME NEW p, parseControllerExchangeRoute(p).kind # "none"
    PROVE  /\ Len(p.rest) = 3 /\ p.rest[1] = "organization" /\ p.rest[2] = "dataspace"
           /\ p.rest[3] = "auth" /\ p.action = "_exchange"
<1>1. Matches(p, <<{"organization"}, {"dataspace"}, {"auth"}>>, {"_exchange"})
  BY DEF parseControllerExchangeRoute, NotMine, Parse
<1>2. /\ Len(p.rest) = 3 /\ p.action \in {"_exchange"}
      /\ Named({"organization"}, p.rest[1])
      /\ Named({"dataspace"}, p.rest[2])
      /\ Named({"auth"}, p.rest[3])
  BY <1>1, MatchesThree
<1>3. QED
  BY <1>2, NamedItself

LEMMA ApiKeyShape ==
    ASSUME NEW p, parseApiKeyProvisioningRoute(p).kind # "none"
    PROVE  /\ Len(p.rest) = 3 /\ p.rest[1] = "api-key" /\ p.rest[2] = "org.schema"
           /\ p.rest[3] = "action"
           /\ p.action \in {"_create", "_disable", "_remove", "_search"}
<1>1. Matches(p, <<{"api-key"}, {"org.schema"}, {"action"}>>,
              {"_create", "_disable", "_remove", "_search"})
  BY DEF parseApiKeyProvisioningRoute, NotMine, Parse
<1>2. /\ Len(p.rest) = 3 /\ p.action \in {"_create", "_disable", "_remove", "_search"}
      /\ Named({"api-key"}, p.rest[1])
      /\ Named({"org.schema"}, p.rest[2])
      /\ Named({"action"}, p.rest[3])
  BY <1>1, MatchesThree
<1>3. QED
  BY <1>2, NamedItself

LEMMA IdentityShape ==
    ASSUME NEW p, parseIdentityAuthRoute(p).kind # "none"
    PROVE  /\ Len(p.rest) = 2 /\ p.rest[1] = "identity" /\ p.rest[2] = "auth"
           /\ p.action \in {"_dcr", "_code", "_token", "_exchange"}
<1>1. Matches(p, <<{"identity"}, {"auth"}>>, {"_dcr", "_code", "_token", "_exchange"})
  BY DEF parseIdentityAuthRoute, NotMine, Parse
<1>2. /\ Len(p.rest) = 2 /\ p.action \in {"_dcr", "_code", "_token", "_exchange"}
      /\ Named({"identity"}, p.rest[1])
      /\ Named({"auth"}, p.rest[2])
  BY <1>1, MatchesTwo
<1>3. QED
  BY <1>2, NamedItself

LEMMA VerifyShape ==
    ASSUME NEW p, parseVerifyRoute(p).kind # "none"
    PROVE  /\ Len(p.rest) = 3 /\ p.rest[1] \in PdfKinds /\ p.rest[2] = "pdf"
           /\ p.action = "_verify"
<1>1. Matches(p, <<PdfKinds, {"pdf"}, Parameter>>, {"_verify"})
  BY DEF parseVerifyRoute, NotMine
<1>2. /\ Len(p.rest) = 3 /\ p.action \in {"_verify"}
      /\ Named(PdfKinds, p.rest[1])
      /\ Named({"pdf"}, p.rest[2])
      /\ Named(Parameter, p.rest[3])
  BY <1>1, MatchesThree
<1>3. QED
  BY <1>2, NamedItself, NamedPdf

LEMMA RemoveShape ==
    ASSUME NEW p, parseTermsRemoveRoute(p).kind # "none"
    PROVE  /\ Len(p.rest) = 3 /\ p.rest[1] \in PdfKinds /\ p.rest[2] = "pdf"
           /\ p.action = "_remove"
<1>1. Matches(p, <<PdfKinds, {"pdf"}, Parameter>>, {"_remove"})
  BY DEF parseTermsRemoveRoute, NotMine
<1>2. /\ Len(p.rest) = 3 /\ p.action \in {"_remove"}
      /\ Named(PdfKinds, p.rest[1])
      /\ Named({"pdf"}, p.rest[2])
      /\ Named(Parameter, p.rest[3])
  BY <1>1, MatchesThree
<1>3. QED
  BY <1>2, NamedItself, NamedPdf

LEMMA CreateDidShape ==
    ASSUME NEW p, parseCreateDidDocumentRoute(p).kind # "none"
    PROVE  /\ Len(p.rest) = 3 /\ p.rest[1] = "entity" /\ p.rest[2] = "did"
           /\ p.rest[3] = "document" /\ p.action = "_create"
<1>1. Matches(p, <<{"entity"}, {"did"}, {"document"}>>, {"_create"})
  BY DEF parseCreateDidDocumentRoute, NotMine, Parse
<1>2. /\ Len(p.rest) = 3 /\ p.action \in {"_create"}
      /\ Named({"entity"}, p.rest[1])
      /\ Named({"did"}, p.rest[2])
      /\ Named({"document"}, p.rest[3])
  BY <1>1, MatchesThree
<1>3. QED
  BY <1>2, NamedItself

LEMMA ActivateShape ==
    ASSUME NEW p, parseActivateRoute(p).kind # "none"
    PROVE  /\ Len(p.rest) = 3 /\ p.rest[1] = "entity" /\ p.rest[2] = "keys"
           /\ p.rest[3] \in {"credentials", "communications"}
           /\ p.action \in {"_activate", "_rotate"}
<1>1. Matches(p, <<{"entity"}, {"keys"}, {"credentials", "communications"}>>,
              {"_activate", "_rotate"})
  BY DEF parseActivateRoute, NotMine, Parse, parseEntityKeysRoute
<1>2. /\ Len(p.rest) = 3 /\ p.action \in {"_activate", "_rotate"}
      /\ Named({"entity"}, p.rest[1])
      /\ Named({"keys"}, p.rest[2])
      /\ Named({"credentials", "communications"}, p.rest[3])
  BY <1>1, MatchesThree
<1>3. p.rest[3] \in {"credentials", "communications"}
  BY <1>2, NamedTwo
<1>4. QED
  BY <1>2, <1>3, NamedItself

LEMMA AddEvidenceShape ==
    ASSUME NEW p, parseAddEvidenceRoute(p).kind # "none"
    PROVE  /\ Len(p.rest) = 3 /\ p.rest[1] = "network" /\ p.rest[2] = "evidence"
           /\ p.action = "_add"
<1>1. Matches(p, <<{"network"}, {"evidence"}, Parameter>>, {"_add"})
  BY DEF parseAddEvidenceRoute, NotMine, Parse
<1>2. /\ Len(p.rest) = 3 /\ p.action \in {"_add"}
      /\ Named({"network"}, p.rest[1])
      /\ Named({"evidence"}, p.rest[2])
      /\ Named(Parameter, p.rest[3])
  BY <1>1, MatchesThree
<1>3. QED
  BY <1>2, NamedItself

LEMMA DelegationShape ==
    ASSUME NEW p, parseDelegationPolicyRoute(p).kind # "none"
    PROVE  /\ Len(p.rest) = 3 /\ p.rest[1] = "network" /\ p.rest[2] = "policies"
           /\ p.rest[3] = "delegations" /\ p.action = "_upsert"
<1>1. Matches(p, <<{"network"}, {"policies"}, {"delegations"}>>, {"_upsert"})
  BY DEF parseDelegationPolicyRoute, NotMine, Parse
<1>2. /\ Len(p.rest) = 3 /\ p.action \in {"_upsert"}
      /\ Named({"network"}, p.rest[1])
      /\ Named({"policies"}, p.rest[2])
      /\ Named({"delegations"}, p.rest[3])
  BY <1>1, MatchesThree
<1>3. QED
  BY <1>2, NamedItself

LEMMA IssueShape ==
    ASSUME NEW p, parseIssueCredentialRoute(p).kind # "none"
    PROVE  /\ Len(p.rest) = 3 /\ p.rest[1] = "network" /\ p.rest[2] = "credentials"
           /\ p.action = "_issue"
<1>1. Matches(p, <<{"network"}, {"credentials"}, Parameter>>, {"_issue"})
  BY DEF parseIssueCredentialRoute, NotMine, Parse, Credentials
<1>2. /\ Len(p.rest) = 3 /\ p.action \in {"_issue"}
      /\ Named({"network"}, p.rest[1])
      /\ Named({"credentials"}, p.rest[2])
      /\ Named(Parameter, p.rest[3])
  BY <1>1, MatchesThree
<1>3. QED
  BY <1>2, NamedItself

LEMMA StatusShape ==
    ASSUME NEW p, parseCredentialStatusRoute(p).kind # "none"
    PROVE  /\ Len(p.rest) = 3 /\ p.rest[1] = "network" /\ p.rest[2] = "credentials"
           /\ p.action = "_status"
<1>1. Matches(p, <<{"network"}, {"credentials"}, Parameter>>, {"_status"})
  BY DEF parseCredentialStatusRoute, NotMine, Parse, Credentials
<1>2. /\ Len(p.rest) = 3 /\ p.action \in {"_status"}
      /\ Named({"network"}, p.rest[1])
      /\ Named({"credentials"}, p.rest[2])
      /\ Named(Parameter, p.rest[3])
  BY <1>1, MatchesThree
<1>3. QED
  BY <1>2, NamedItself

LEMMA RevokeShape ==
    ASSUME NEW p, parseCredentialRevokeRoute(p).kind # "none"
    PROVE  /\ Len(p.rest) = 3 /\ p.rest[1] = "network" /\ p.rest[2] = "credentials"
           /\ p.action = "_revoke"
<1>1. Matches(p, <<{"network"}, {"credentials"}, Parameter>>, {"_revoke"})
  BY DEF parseCredentialRevokeRoute, NotMine, Parse, Credentials
<1>2. /\ Len(p.rest) = 3 /\ p.action \in {"_revoke"}
      /\ Named({"network"}, p.rest[1])
      /\ Named({"credentials"}, p.rest[2])
      /\ Named(Parameter, p.rest[3])
  BY <1>1, MatchesThree
<1>3. QED
  BY <1>2, NamedItself

LEMMA SearchShape ==
    ASSUME NEW p, parseCredentialSearchRoute(p).kind # "none"
    PROVE  /\ Len(p.rest) = 3 /\ p.rest[1] = "network" /\ p.rest[2] = "credentials"
           /\ p.action = "_search"
<1>1. Matches(p, <<{"network"}, {"credentials"}, Parameter>>, {"_search"})
  BY DEF parseCredentialSearchRoute, NotMine, Parse, Credentials
<1>2. /\ Len(p.rest) = 3 /\ p.action \in {"_search"}
      /\ Named({"network"}, p.rest[1])
      /\ Named({"credentials"}, p.rest[2])
      /\ Named(Parameter, p.rest[3])
  BY <1>1, MatchesThree
<1>3. QED
  BY <1>2, NamedItself

LEMMA RetrieveShape ==
    ASSUME NEW p, parseCredentialRetrieveRoute(p).kind # "none"
    PROVE  /\ Len(p.rest) = 3 /\ p.rest[1] = "network" /\ p.rest[2] = "credentials"
           /\ p.action = "_retrieve"
<1>1. Matches(p, <<{"network"}, {"credentials"}, Parameter>>, {"_retrieve"})
  BY DEF parseCredentialRetrieveRoute, NotMine, Parse, Credentials
<1>2. /\ Len(p.rest) = 3 /\ p.action \in {"_retrieve"}
      /\ Named({"network"}, p.rest[1])
      /\ Named({"credentials"}, p.rest[2])
      /\ Named(Parameter, p.rest[3])
  BY <1>1, MatchesThree
<1>3. QED
  BY <1>2, NamedItself

LEMMA RotateShape ==
    ASSUME NEW p, parseRotateRoute(p).kind # "none"
    PROVE  /\ Len(p.rest) = 3 /\ p.rest[1] = "entity" /\ p.rest[2] = "keys"
           /\ p.rest[3] \in {"credentials", "communications"}
           /\ p.action \in {"_activate", "_rotate"}
<1>1. Matches(p, <<{"entity"}, {"keys"}, {"credentials", "communications"}>>,
              {"_activate", "_rotate"})
  BY DEF parseRotateRoute, NotMine, Parse, parseEntityKeysRoute
<1>2. /\ Len(p.rest) = 3 /\ p.action \in {"_activate", "_rotate"}
      /\ Named({"entity"}, p.rest[1])
      /\ Named({"keys"}, p.rest[2])
      /\ Named({"credentials", "communications"}, p.rest[3])
  BY <1>1, MatchesThree
<1>3. p.rest[3] \in {"credentials", "communications"}
  BY <1>2, NamedTwo
<1>4. QED
  BY <1>2, <1>3, NamedItself

\* The endpoint a path's names and action belong to; _activate and _rotate have
\* theirs in common.
Family(p) ==
    IF Len(p.rest) = 2 THEN IF p.rest[2] = "spaces" THEN "spaces" ELSE "identity"
    ELSE IF Len(p.rest) = 4 THEN IF p.rest[3] = "ddo" THEN "ddoRequest" ELSE "dcatDataset"
    ELSE IF Len(p.rest) = 5 THEN "ddoDataset"
    ELSE IF p.rest[2] = "catalog" THEN "dcatRequest"
    ELSE IF p.rest[2] = "dataspace" THEN "controllerExchange"
    ELSE IF p.rest[2] = "org.schema" THEN "apiKey"
    ELSE IF p.rest[2] = "did" THEN "createDid"
    ELSE IF p.rest[2] = "keys" THEN "keys"
    ELSE IF p.rest[2] = "evidence" THEN "addEvidence"
    ELSE IF p.rest[2] = "policies" THEN "delegation"
    ELSE IF p.action = "_verify" THEN "verify"
    ELSE IF p.action = "_remove" THEN "remove"
    ELSE IF p.action = "_issue" THEN "issue"
    ELSE IF p.action = "_status" THEN "status"
    ELSE IF p.action = "_revoke" THEN "revoke"
    ELSE IF p.action = "_search" THEN "search"
    ELSE "retrieve"

FamilyOf(e) == IF e \in {"activate", "rotate"} THEN "keys" ELSE e

Parsers == {"dcatRequest", "dcatDataset", "ddoRequest", "ddoDataset", "spaces",
            "controllerExchange",
            "apiKey", "identity", "verify", "remove", "createDid", "activate",
            "addEvidence", "delegation", "issue", "status", "revoke", "search",
            "retrieve", "rotate"}

\* A parser that takes a path for its own, also to refuse it, is of the path's family.
LEMMA OwnFamily ==
    ASSUME NEW p, NEW e \in Parsers, ParsedBy(e, p).kind # "none"
    PROVE  Family(p) = FamilyOf(e) /\ Len(p.rest) # 1 /\ p.action # "_discover"
<1>1. CASE e = "dcatRequest"
  <2>1. ParsedBy(e, p) = parseDcatCatalogRequestRoute(p)
    BY <1>1, Zenon DEF ParsedBy
  <2>2. /\ Len(p.rest) = 3 /\ p.rest[1] = "dcat3" /\ p.rest[2] = "catalog"
        /\ p.rest[3] = "request"
    BY <1>1, <2>1, DcatRequestShape
  <2>3. p.action # "_discover"
    BY <2>1, DcatRequestShape, Zenon
  <2>4. QED
    BY <1>1, <2>2, <2>3 DEF Family, FamilyOf
<1>2. CASE e = "dcatDataset"
  <2>1. ParsedBy(e, p) = parseDcatCatalogDatasetRoute(p)
    BY <1>2, Zenon DEF ParsedBy
  <2>2. /\ Len(p.rest) = 4 /\ p.rest[1] = "dcat3" /\ p.rest[2] = "catalog"
        /\ p.rest[3] = "datasets"
    BY <1>2, <2>1, DcatDatasetShape
  <2>3. p.action # "_discover"
    BY <2>1, DcatDatasetShape, Zenon
  <2>4. QED
    BY <1>2, <2>2, <2>3 DEF Family, FamilyOf
<1>3. CASE e = "ddoRequest"
  <2>1. ParsedBy(e, p) = parseDcatCatalogDdoRequestRoute(p)
    BY <1>3, Zenon DEF ParsedBy
  <2>2. /\ Len(p.rest) = 4 /\ p.rest[1] = "dcat3" /\ p.rest[2] = "catalog"
        /\ p.rest[3] = "ddo" /\ p.rest[4] = "request"
    BY <1>3, <2>1, DdoRequestShape
  <2>3. p.action # "_discover"
    BY <2>1, DdoRequestShape, Zenon
  <2>4. QED
    BY <1>3, <2>2, <2>3 DEF Family, FamilyOf
<1>4. CASE e = "ddoDataset"
  <2>1. ParsedBy(e, p) = parseDcatCatalogDdoDatasetRoute(p)
    BY <1>4, Zenon DEF ParsedBy
  <2>2. /\ Len(p.rest) = 5 /\ p.rest[1] = "dcat3" /\ p.rest[2] = "catalog"
        /\ p.rest[3] = "ddo" /\ p.rest[4] = "datasets"
    BY <1>4, <2>1, DdoDatasetShape
  <2>3. p.action # "_discover"
    BY <2>1, DdoDatasetShape, Zenon
  <2>4. QED
    BY <1>4, <2>2, <2>3 DEF Family, FamilyOf
<1>5. CASE e = "spaces"
  <2>1. ParsedBy(e, p) = parseSpacesRoute(p)
    BY <1>5, Zenon DEF ParsedBy
  <2>2. /\ Len(p.rest) = 2 /\ p.rest[1] = "network" /\ p.rest[2] = "spaces"
        /\ p.action \in {"_list", "_replace"}
    BY <1>5, <2>1, SpacesShape
  <2>3. QED
    BY <1>5, <2>2 DEF Family, FamilyOf
<1>6. CASE e = "controllerExchange"
  <2>1. ParsedBy(e, p) = parseControllerExchangeRoute(p)
    BY <1>6, Zenon DEF ParsedBy
  <2>2. /\ Len(p.rest) = 3 /\ p.rest[1] = "organization" /\ p.rest[2] = "dataspace"
        /\ p.rest[3] = "auth" /\ p.action = "_exchange"
    BY <1>6, <2>1, ControllerExchangeShape
  <2>3. QED
    BY <1>6, <2>2 DEF Family, FamilyOf
<1>7. CASE e = "apiKey"
  <2>1. ParsedBy(e, p) = parseApiKeyProvisioningRoute(p)
    BY <1>7, Zenon DEF ParsedBy
  <2>2. /\ Len(p.rest) = 3 /\ p.rest[1] = "api-key" /\ p.rest[2] = "org.schema"
        /\ p.rest[3] = "action"
        /\ p.action \in {"_create", "_disable", "_remove", "_search"}
    BY <1>7, <2>1, ApiKeyShape
  <2>3. QED
    BY <1>7, <2>2 DEF Family, FamilyOf
<1>8. CASE e = "identity"
  <2>1. ParsedBy(e, p) = parseIdentityAuthRoute(p)
    BY <1>8, Zenon DEF ParsedBy
  <2>2. /\ Len(p.rest) = 2 /\ p.rest[1] = "identity" /\ p.rest[2] = "auth"
        /\ p.action \in {"_dcr", "_code", "_token", "_exchange"}
    BY <1>8, <2>1, IdentityShape
  <2>3. QED
    BY <1>8, <2>2 DEF Family, FamilyOf
<1>9. CASE e = "verify"
  <2>1. ParsedBy(e, p) = parseVerifyRoute(p)
    BY <1>9, Zenon DEF ParsedBy
  <2>2. /\ Len(p.rest) = 3 /\ p.rest[1] \in PdfKinds /\ p.rest[2] = "pdf"
        /\ p.action = "_verify"
    BY <1>9, <2>1, VerifyShape
  <2>3. QED
    BY <1>9, <2>2 DEF Family, FamilyOf, PdfKinds
<1>10. CASE e = "remove"
  <2>1. ParsedBy(e, p) = parseTermsRemoveRoute(p)
    BY <1>10, Zenon DEF ParsedBy
  <2>2. /\ Len(p.rest) = 3 /\ p.rest[1] \in PdfKinds /\ p.rest[2] = "pdf"
        /\ p.action = "_remove"
    BY <1>10, <2>1, RemoveShape
  <2>3. QED
    BY <1>10, <2>2 DEF Family, FamilyOf, PdfKinds
<1>11. CASE e = "createDid"
  <2>1. ParsedBy(e, p) = parseCreateDidDocumentRoute(p)
    BY <1>11, Zenon DEF ParsedBy
  <2>2. /\ Len(p.rest) = 3 /\ p.rest[1] = "entity" /\ p.rest[2] = "did"
        /\ p.rest[3] = "document" /\ p.action = "_create"
    BY <1>11, <2>1, CreateDidShape
  <2>3. QED
    BY <1>11, <2>2 DEF Family, FamilyOf
<1>12. CASE e = "activate"
  <2>1. ParsedBy(e, p) = parseActivateRoute(p)
    BY <1>12, Zenon DEF ParsedBy
  <2>2. /\ Len(p.rest) = 3 /\ p.rest[1] = "entity" /\ p.rest[2] = "keys"
        /\ p.rest[3] \in {"credentials", "communications"}
        /\ p.action \in {"_activate", "_rotate"}
    BY <1>12, <2>1, ActivateShape
  <2>3. QED
    BY <1>12, <2>2 DEF Family, FamilyOf
<1>13. CASE e = "addEvidence"
  <2>1. ParsedBy(e, p) = parseAddEvidenceRoute(p)
    BY <1>13, Zenon DEF ParsedBy
  <2>2. /\ Len(p.rest) = 3 /\ p.rest[1] = "network" /\ p.rest[2] = "evidence"
        /\ p.action = "_add"
    BY <1>13, <2>1, AddEvidenceShape
  <2>3. QED
    BY <1>13, <2>2 DEF Family, FamilyOf
<1>14. CASE e = "delegation"
  <2>1. ParsedBy(e, p) = parseDelegationPolicyRoute(p)
    BY <1>14, Zenon DEF ParsedBy
  <2>2. /\ Len(p.rest) = 3 /\ p.rest[1] = "network" /\ p.rest[2] = "policies"
        /\ p.rest[3] = "delegations" /\ p.action = "_upsert"
    BY <1>14, <2>1, DelegationShape
  <2>3. QED
    BY <1>14, <2>2 DEF Family, FamilyOf
<1>15. CASE e = "issue"
  <2>1. ParsedBy(e, p) = parseIssueCredentialRoute(p)
    BY <1>15, Zenon DEF ParsedBy
  <2>2. /\ Len(p.rest) = 3 /\ p.rest[1] = "network" /\ p.rest[2] = "credentials"
        /\ p.action = "_issue"
    BY <1>15, <2>1, IssueShape
  <2>3. QED
    BY <1>15, <2>2 DEF Family, FamilyOf
<1>16. CASE e = "status"
  <2>1. ParsedBy(e, p) = parseCredentialStatusRoute(p)
    BY <1>16, Zenon DEF ParsedBy
  <2>2. /\ Len(p.rest) = 3 /\ p.rest[1] = "network" /\ p.rest[2] = "credentials"
        /\ p.action = "_status"
    BY <1>16, <2>1, StatusShape
  <2>3. QED
    BY <1>16, <2>2 DEF Family, FamilyOf
<1>17. CASE e = "revoke"
  <2>1. ParsedBy(e, p) = parseCredentialRevokeRoute(p)
    BY <1>17, Zenon DEF ParsedBy
  <2>2. /\ Len(p.rest) = 3 /\ p.rest[1] = "network" /\ p.rest[2] = "credentials"
        /\ p.action = "_revoke"
    BY <1>17, <2>1, RevokeShape
  <2>3. QED
    BY <1>17, <2>2 DEF Family, FamilyOf
<1>18. CASE e = "search"
  <2>1. ParsedBy(e, p) = parseCredentialSearchRoute(p)
    BY <1>18, Zenon DEF ParsedBy
  <2>2. /\ Len(p.rest) = 3 /\ p.rest[1] = "network" /\ p.rest[2] = "credentials"
        /\ p.action = "_search"
    BY <1>18, <2>1, SearchShape
  <2>3. QED
    BY <1>18, <2>2 DEF Family, FamilyOf
<1>19. CASE e = "retrieve"
  <2>1. ParsedBy(e, p) = parseCredentialRetrieveRoute(p)
    BY <1>19, Zenon DEF ParsedBy
  <2>2. /\ Len(p.rest) = 3 /\ p.rest[1] = "network" /\ p.rest[2] = "credentials"
        /\ p.action = "_retrieve"
    BY <1>19, <2>1, RetrieveShape
  <2>3. QED
    BY <1>19, <2>2 DEF Family, FamilyOf
<1>20. CASE e = "rotate"
  <2>1. ParsedBy(e, p) = parseRotateRoute(p)
    BY <1>20, Zenon DEF ParsedBy
  <2>2. /\ Len(p.rest) = 3 /\ p.rest[1] = "entity" /\ p.rest[2] = "keys"
        /\ p.rest[3] \in {"credentials", "communications"}
        /\ p.action \in {"_activate", "_rotate"}
    BY <1>20, <2>1, RotateShape
  <2>3. QED
    BY <1>20, <2>2 DEF Family, FamilyOf
<1>21. QED
  BY <1>1, <1>2, <1>3, <1>4, <1>5, <1>6, <1>7, <1>8, <1>9, <1>10, <1>11, <1>12,
     <1>13, <1>14, <1>15, <1>16, <1>17, <1>18, <1>19, <1>20
     DEF Parsers

-----------------------------------------------------------------------------
(* Which parser decides.                                                   *)

LEMMA KeyRoutes ==
    ASSUME NEW p
    PROVE  /\ ParsedBy("activate", p).kind = "route" => Valid(p) /\ p.action = "_activate"
           /\ ParsedBy("rotate", p).kind = "route" => Valid(p) /\ p.action = "_rotate"
           /\ ParsedBy("activate", p).kind # "none" /\ Valid(p) => p.action = "_activate"
           /\ ParsedBy("rotate", p).kind # "none" /\ Valid(p) => p.action = "_rotate"
<1>1. ParsedBy("activate", p) = parseActivateRoute(p)
  BY Zenon DEF ParsedBy
<1>2. ParsedBy("rotate", p) = parseRotateRoute(p)
  BY Zenon DEF ParsedBy
<1>3. QED
  BY <1>1, <1>2 DEF parseActivateRoute, parseRotateRoute, parseEntityKeysRoute, Parse, NotMine,
     RefusedRoute, Parsed

\* A path that one parser accepts is not for any other, not even to refuse it.
LEMMA UniqueParser ==
    ASSUME NEW p, NEW e \in Parsers, NEW f \in Parsers,
           ParsedBy(e, p).kind = "route", ParsedBy(f, p).kind # "none"
    PROVE  e = f
<1>1. FamilyOf(e) = FamilyOf(f)
  BY OwnFamily
<1>2. CASE {e, f} \cap {"activate", "rotate"} = {}
  BY <1>1, <1>2 DEF FamilyOf
<1>3. CASE e \in {"activate", "rotate"} /\ f \in {"activate", "rotate"}
  BY <1>3, KeyRoutes
<1>4. CASE e \in {"activate", "rotate"} /\ f \notin {"activate", "rotate"}
  BY <1>1, <1>4 DEF FamilyOf, Parsers
<1>5. CASE e \notin {"activate", "rotate"} /\ f \in {"activate", "rotate"}
  BY <1>1, <1>5 DEF FamilyOf, Parsers
<1>6. QED
  BY <1>2, <1>3, <1>4, <1>5

LEMMA OrderDomain == DOMAIN Order = 1..20
BY DEF Order

LEMMA OrderListsParsers == \A i \in DOMAIN Order : Order[i] \in Parsers
BY DEF Order, Parsers

LEMMA OrderOnce == \A i, j \in DOMAIN Order : Order[i] = Order[j] => i = j
BY DEF Order

LEMMA OrderComplete == \A e \in Parsers : \E i \in DOMAIN Order : Order[i] = e
BY DEF Order, Parsers

\* At most _activate and _rotate ask for the same path.
LEMMA TwoParsers ==
    ASSUME NEW p, NEW i \in DOMAIN Order, NEW j \in DOMAIN Order, i # j,
           ParsedBy(Order[i], p).kind # "none", ParsedBy(Order[j], p).kind # "none"
    PROVE  Order[i] \in {"activate", "rotate"} /\ Order[j] \in {"activate", "rotate"}
<1>1. FamilyOf(Order[i]) = FamilyOf(Order[j])
  BY OwnFamily, OrderListsParsers
<1>2. Order[i] # Order[j] /\ Order[i] \in Parsers /\ Order[j] \in Parsers
  BY OrderOnce, OrderListsParsers
<1>3. QED
  BY <1>1, <1>2 DEF FamilyOf, Parsers

\* The parsers that take a path for their own, by their place.
Matching(p) == {i \in DOMAIN Order : ParsedBy(Order[i], p).kind # "none"}

LEMMA FirstParser ==
    ASSUME NEW p, Matching(p) # {}
    PROVE  \E i \in Matching(p) : \A j \in Matching(p) : i <= j
<1>1. PICK i \in Matching(p) : TRUE
  OBVIOUS
<1>2. CASE \A j \in Matching(p) : i <= j
  BY <1>2
<1>3. CASE \E j \in Matching(p) : ~(i <= j)
  <2>1. PICK j \in Matching(p) : ~(i <= j)
    BY <1>3
  <2>2. i \in 1..20 /\ j \in 1..20
    BY OrderDomain DEF Matching
  <2>3. \A k \in Matching(p) : j <= k
    <3>1. SUFFICES ASSUME NEW k \in Matching(p), ~(j <= k) PROVE FALSE
      OBVIOUS
    <3>2. k \in 1..20 /\ k # j /\ j # i /\ k # i
      BY <2>1, <2>2, <3>1, OrderDomain DEF Matching
    <3>3. Order[i] \in {"activate", "rotate"} /\ Order[j] \in {"activate", "rotate"}
      BY <3>2, TwoParsers DEF Matching
    <3>4. Order[k] \in {"activate", "rotate"}
      BY <3>2, TwoParsers DEF Matching
    <3>5. Order[i] # Order[j] /\ Order[j] # Order[k] /\ Order[k] # Order[i]
      BY <2>2, <3>2, OrderOnce, OrderDomain
    <3>6. QED
      BY <3>3, <3>4, <3>5
  <2>4. QED
    BY <2>3
<1>4. QED
  BY <1>2, <1>3

LEMMA EndpointByPlace ==
    ASSUME NEW p, ~IsFixed(p), ~IsMembersDiscover(p)
    PROVE  /\ Matching(p) = {} => Endpoint(p) = "none"
           /\ Matching(p) # {} => \E i \in Matching(p) : Endpoint(p) = Order[i]
<1>1. Matching(p) = {} => Endpoint(p) = "none"
  BY DEF Endpoint, Matching
<1>2. ASSUME Matching(p) # {} PROVE \E i \in Matching(p) : Endpoint(p) = Order[i]
  <2>1. Endpoint(p) = Order[CHOOSE i \in Matching(p) : \A j \in Matching(p) : i <= j]
    BY <1>2 DEF Endpoint, Matching
  <2>2. (CHOOSE i \in Matching(p) : \A j \in Matching(p) : i <= j) \in Matching(p)
    BY <1>2, FirstParser
  <2>3. QED
    BY <2>1, <2>2
<1>3. QED
  BY <1>1, <1>2

LEMMA FixedAreNotParsers == Parsers \cap (FixedPaths \cup {"members", "none"}) = {}
BY DEF Parsers, FixedPaths

\* The endpoint of a path that is neither compared as it is nor unknown is that
\* of a parser that takes the path for its own.
LEMMA ParserOfEndpoint ==
    ASSUME NEW p, Endpoint(p) \notin FixedPaths \cup {"members", "none"}
    PROVE  Endpoint(p) \in Parsers /\ ParsedBy(Endpoint(p), p).kind # "none"
<1>1. ~IsFixed(p) /\ ~IsMembersDiscover(p)
  BY DEF Endpoint, IsFixed
<1>2. PICK i \in Matching(p) : Endpoint(p) = Order[i]
  BY <1>1, EndpointByPlace
<1>3. QED
  BY <1>2, OrderListsParsers DEF Matching

\* A path that some parser accepts is answered by that one.
LEMMA RoutedEndpoint ==
    ASSUME NEW p, NEW e \in Parsers, ParsedBy(e, p).kind = "route"
    PROVE  Endpoint(p) = e
<1>1. Len(p.rest) # 1 /\ p.action # "_discover"
  BY OwnFamily
<1>2. ~IsFixed(p) /\ ~IsMembersDiscover(p)
  BY <1>1, Zenon DEF IsFixed, IsMembersDiscover, Matches
<1>3. PICK k \in DOMAIN Order : Order[k] = e
  BY OrderComplete
<1>4. \A i \in Matching(p) : Order[i] = e
  BY UniqueParser, OrderListsParsers DEF Matching
<1>5. k \in Matching(p)
  BY <1>3 DEF Matching
<1>6. QED
  BY <1>2, <1>4, <1>5, EndpointByPlace

-----------------------------------------------------------------------------
(* No parser hides a path from the one that accepts it.                    *)

\* The parsers are asked in one fixed order and the first whose expression
\* matches decides, also with a refusal (handleRequest); still every path that
\* any parser accepts is answered by that parser.
THEOREM NothingShadowed == HttpSpec => []NoShadow
<1>1. NoShadow
  <2>1. SUFFICES ASSUME NEW i \in DOMAIN Order,
                        ParsedBy(Order[i], answer.request.path).kind = "route"
                 PROVE  Endpoint(answer.request.path) = Order[i]
    BY DEF NoShadow
  <2>2. QED
    BY <2>1, RoutedEndpoint, OrderListsParsers
<1>2. QED
  BY <1>1, PTL

-----------------------------------------------------------------------------
(* What a parser hands on.                                                 *)

\* A parser that shares its checks with the others ends in one of three ways,
\* and hands on the path with some of its spelling lowered.
LEMMA ParseOutcome ==
    ASSUME NEW p, NEW e, NEW pattern, NEW actions, NEW folded,
           Parse(p, e, pattern, actions, folded).kind \notin {"none", "refused"}
    PROVE  Parse(p, e, pattern, actions, folded) = Parsed(Context(p, e, folded))
BY DEF Parse, NotMine, RefusedRoute

\* The context of a path: the path itself, but for its spelling.
ContextOf(c, e, p, rest) ==
    /\ c.endpoint = e /\ c.tenant = p.tenant /\ c.jurisdiction = p.jurisdiction
    /\ c.sector = p.sector /\ c.action = p.action /\ c.response = p.response
    /\ c.rest = rest /\ ("tenant" \in c.upper <=> "tenant" \in p.upper)

LEMMA ContextKeeps ==
    ASSUME NEW p, NEW e, NEW folded \in {{}, {"parameter"}}
    PROVE  ContextOf(Context(p, e, folded), e, p, p.rest)
BY DEF ContextOf, Context

\* The rest of a path as its parser hands it on: the alias of a PDF's network
\* kind is resolved.
RestOf(e, p) ==
    IF e \in {"verify", "remove"} THEN [p.rest EXCEPT ![1] = parseIcaNetworkKind(@)] ELSE p.rest

LEMMA PdfContextKeeps ==
    ASSUME NEW p, NEW e \in {"verify", "remove"}
    PROVE  ContextOf(PdfContext(p, e), e, p, RestOf(e, p))
BY DEF ContextOf, PdfContext, Context, RestOf

LEMMA PlainContext ==
    ASSUME NEW p, NEW e, NEW pattern, NEW actions, NEW folded \in {{}, {"parameter"}}, NEW parsed,
           parsed = Parse(p, e, pattern, actions, folded), parsed.kind \notin {"none", "refused"}
    PROVE  /\ parsed = Parsed(parsed.context) /\ parsed.kind = "route"
           /\ ContextOf(parsed.context, e, p, p.rest)
<1>1. parsed = Parsed(Context(p, e, folded))
  BY ParseOutcome
<1>2. parsed.context = Context(p, e, folded) /\ parsed.kind = "route"
  BY <1>1 DEF Parsed
<1>3. QED
  BY <1>1, <1>2, ContextKeeps

\* What a parser hands on is its path, under the parser's own name.
LEMMA RouteContext ==
    ASSUME NEW p, NEW e \in Parsers, ParsedBy(e, p).kind \notin {"none", "refused"}
    PROVE  LET parsed == ParsedBy(e, p)
           IN  /\ parsed = Parsed(parsed.context) /\ parsed.kind = "route"
               /\ ContextOf(parsed.context, e, p, RestOf(e, p))
<1>0. e \notin {"verify", "remove"} => RestOf(e, p) = p.rest
  BY DEF RestOf
<1>1. CASE e = "dcatRequest"
  <2>1. ParsedBy(e, p) = parseDcatCatalogRequestRoute(p)
    BY <1>1, Zenon DEF ParsedBy
  <2>2. ParsedBy(e, p) =
          Parse(p, "dcatRequest", <<{"dcat3"}, {"catalog"}, {"request"}>>, {""}, {})
    BY <2>1, Zenon DEF parseDcatCatalogRequestRoute
  <2>3. \E pattern, actions : ParsedBy(e, p) = Parse(p, e, pattern, actions, {})
    BY <1>1, <2>2, Zenon
  <2>4. QED
    BY <1>0, <1>1, <2>3, PlainContext
<1>2. CASE e = "dcatDataset"
  <2>1. ParsedBy(e, p) = parseDcatCatalogDatasetRoute(p)
    BY <1>2, Zenon DEF ParsedBy
  <2>2. ParsedBy(e, p) =
          Parse(p, "dcatDataset", <<{"dcat3"}, {"catalog"}, {"datasets"}, Parameter>>, {""}, {})
    BY <2>1, Zenon DEF parseDcatCatalogDatasetRoute
  <2>3. \E pattern, actions : ParsedBy(e, p) = Parse(p, e, pattern, actions, {})
    BY <1>2, <2>2, Zenon
  <2>4. QED
    BY <1>0, <1>2, <2>3, PlainContext
<1>3. CASE e = "ddoRequest"
  <2>1. ParsedBy(e, p) = parseDcatCatalogDdoRequestRoute(p)
    BY <1>3, Zenon DEF ParsedBy
  <2>2. ParsedBy(e, p) =
          Parse(p, "ddoRequest", <<{"dcat3"}, {"catalog"}, {"ddo"}, {"request"}>>, {""}, {})
    BY <2>1, Zenon DEF parseDcatCatalogDdoRequestRoute
  <2>3. \E pattern, actions : ParsedBy(e, p) = Parse(p, e, pattern, actions, {})
    BY <1>3, <2>2, Zenon
  <2>4. QED
    BY <1>0, <1>3, <2>3, PlainContext
<1>4. CASE e = "ddoDataset"
  <2>1. ParsedBy(e, p) = parseDcatCatalogDdoDatasetRoute(p)
    BY <1>4, Zenon DEF ParsedBy
  <2>2. ParsedBy(e, p) =
          Parse(p, "ddoDataset", <<{"dcat3"}, {"catalog"}, {"ddo"}, {"datasets"}, Parameter>>,
                {""}, {})
    BY <2>1, Zenon DEF parseDcatCatalogDdoDatasetRoute
  <2>3. \E pattern, actions : ParsedBy(e, p) = Parse(p, e, pattern, actions, {})
    BY <1>4, <2>2, Zenon
  <2>4. QED
    BY <1>0, <1>4, <2>3, PlainContext
<1>5. CASE e = "spaces"
  <2>1. ParsedBy(e, p) = parseSpacesRoute(p)
    BY <1>5, Zenon DEF ParsedBy
  <2>2. ParsedBy(e, p) =
          Parse(p, "spaces", <<{"network"}, {"spaces"}>>, {"_list", "_replace"}, {})
    BY <2>1 DEF parseSpacesRoute, NotMine
  <2>3. QED
    BY <1>0, <1>5, <2>2, PlainContext
<1>6. CASE e = "controllerExchange"
  <2>1. ParsedBy(e, p) = parseControllerExchangeRoute(p)
    BY <1>6, Zenon DEF ParsedBy
  <2>2. ParsedBy(e, p) =
          Parse(p, "controllerExchange", <<{"organization"}, {"dataspace"}, {"auth"}>>,
                {"_exchange"}, {})
    BY <2>1 DEF parseControllerExchangeRoute
  <2>3. QED
    BY <1>0, <1>6, <2>2, PlainContext
<1>7. CASE e = "apiKey"
  <2>1. ParsedBy(e, p) = parseApiKeyProvisioningRoute(p)
    BY <1>7, Zenon DEF ParsedBy
  <2>2. ParsedBy(e, p) =
          Parse(p, "apiKey", <<{"api-key"}, {"org.schema"}, {"action"}>>,
                {"_create", "_disable", "_remove", "_search"}, {})
    BY <2>1 DEF parseApiKeyProvisioningRoute
  <2>3. QED
    BY <1>0, <1>7, <2>2, PlainContext
<1>8. CASE e = "identity"
  <2>1. ParsedBy(e, p) = parseIdentityAuthRoute(p)
    BY <1>8, Zenon DEF ParsedBy
  <2>2. ParsedBy(e, p) =
          Parse(p, "identity", <<{"identity"}, {"auth"}>>,
                {"_dcr", "_code", "_token", "_exchange"}, {})
    BY <2>1 DEF parseIdentityAuthRoute
  <2>3. QED
    BY <1>0, <1>8, <2>2, PlainContext
<1>9. CASE e = "verify"
  <2>1. ParsedBy(e, p) = parseVerifyRoute(p)
    BY <1>9, Zenon DEF ParsedBy
  <2>2. parseVerifyRoute(p) = Parsed(PdfContext(p, e))
    BY <1>9, <2>1 DEF parseVerifyRoute, NotMine, RefusedRoute
  <2>3. ParsedBy(e, p).context = PdfContext(p, e)
    BY <2>1, <2>2 DEF Parsed
  <2>4. QED
    BY <1>9, <2>1, <2>2, <2>3, PdfContextKeeps DEF Parsed
<1>10. CASE e = "remove"
  <2>1. ParsedBy(e, p) = parseTermsRemoveRoute(p)
    BY <1>10, Zenon DEF ParsedBy
  <2>2. parseTermsRemoveRoute(p) = Parsed(PdfContext(p, e))
    BY <1>10, <2>1 DEF parseTermsRemoveRoute, NotMine, RefusedRoute
  <2>3. ParsedBy(e, p).context = PdfContext(p, e)
    BY <2>1, <2>2 DEF Parsed
  <2>4. QED
    BY <1>10, <2>1, <2>2, <2>3, PdfContextKeeps DEF Parsed
<1>11. CASE e = "createDid"
  <2>1. ParsedBy(e, p) = parseCreateDidDocumentRoute(p)
    BY <1>11, Zenon DEF ParsedBy
  <2>2. ParsedBy(e, p) =
          Parse(p, "createDid", <<{"entity"}, {"did"}, {"document"}>>, {"_create"}, {})
    BY <2>1 DEF parseCreateDidDocumentRoute
  <2>3. QED
    BY <1>0, <1>11, <2>2, PlainContext
<1>12. CASE e = "activate"
  <2>1. ParsedBy(e, p) = parseActivateRoute(p)
    BY <1>12, Zenon DEF ParsedBy
  <2>2. ParsedBy(e, p) =
          Parse(p, "activate", <<{"entity"}, {"keys"}, {"credentials", "communications"}>>,
                {"_activate", "_rotate"}, {"parameter"})
    BY <2>1 DEF parseActivateRoute, parseEntityKeysRoute, NotMine, RefusedRoute
  <2>3. QED
    BY <1>0, <1>12, <2>2, PlainContext
<1>13. CASE e = "addEvidence"
  <2>1. ParsedBy(e, p) = parseAddEvidenceRoute(p)
    BY <1>13, Zenon DEF ParsedBy
  <2>2. ParsedBy(e, p) =
          Parse(p, "addEvidence", <<{"network"}, {"evidence"}, Parameter>>,
                {"_add"}, {"parameter"})
    BY <2>1 DEF parseAddEvidenceRoute
  <2>3. QED
    BY <1>0, <1>13, <2>2, PlainContext
<1>14. CASE e = "delegation"
  <2>1. ParsedBy(e, p) = parseDelegationPolicyRoute(p)
    BY <1>14, Zenon DEF ParsedBy
  <2>2. ParsedBy(e, p) =
          Parse(p, "delegation", <<{"network"}, {"policies"}, {"delegations"}>>,
                {"_upsert"}, {})
    BY <2>1 DEF parseDelegationPolicyRoute
  <2>3. QED
    BY <1>0, <1>14, <2>2, PlainContext
<1>15. CASE e = "issue"
  <2>1. ParsedBy(e, p) = parseIssueCredentialRoute(p)
    BY <1>15, Zenon DEF ParsedBy
  <2>2. ParsedBy(e, p) = Parse(p, "issue", Credentials, {"_issue"}, {})
    BY <2>1 DEF parseIssueCredentialRoute
  <2>3. QED
    BY <1>0, <1>15, <2>2, PlainContext
<1>16. CASE e = "status"
  <2>1. ParsedBy(e, p) = parseCredentialStatusRoute(p)
    BY <1>16, Zenon DEF ParsedBy
  <2>2. ParsedBy(e, p) = Parse(p, "status", Credentials, {"_status"}, {})
    BY <2>1 DEF parseCredentialStatusRoute
  <2>3. QED
    BY <1>0, <1>16, <2>2, PlainContext
<1>17. CASE e = "revoke"
  <2>1. ParsedBy(e, p) = parseCredentialRevokeRoute(p)
    BY <1>17, Zenon DEF ParsedBy
  <2>2. ParsedBy(e, p) = Parse(p, "revoke", Credentials, {"_revoke"}, {})
    BY <2>1 DEF parseCredentialRevokeRoute
  <2>3. QED
    BY <1>0, <1>17, <2>2, PlainContext
<1>18. CASE e = "search"
  <2>1. ParsedBy(e, p) = parseCredentialSearchRoute(p)
    BY <1>18, Zenon DEF ParsedBy
  <2>2. ParsedBy(e, p) = Parse(p, "search", Credentials, {"_search"}, {})
    BY <2>1 DEF parseCredentialSearchRoute
  <2>3. QED
    BY <1>0, <1>18, <2>2, PlainContext
<1>19. CASE e = "retrieve"
  <2>1. ParsedBy(e, p) = parseCredentialRetrieveRoute(p)
    BY <1>19, Zenon DEF ParsedBy
  <2>2. ParsedBy(e, p) = Parse(p, "retrieve", Credentials, {"_retrieve"}, {})
    BY <2>1 DEF parseCredentialRetrieveRoute
  <2>3. QED
    BY <1>0, <1>19, <2>2, PlainContext
<1>20. CASE e = "rotate"
  <2>1. ParsedBy(e, p) = parseRotateRoute(p)
    BY <1>20, Zenon DEF ParsedBy
  <2>2. ParsedBy(e, p) =
          Parse(p, "rotate", <<{"entity"}, {"keys"}, {"credentials", "communications"}>>,
                {"_activate", "_rotate"}, {"parameter"})
    BY <2>1 DEF parseRotateRoute, parseEntityKeysRoute, NotMine, RefusedRoute
  <2>3. QED
    BY <1>0, <1>20, <2>2, PlainContext
<1>21. QED
  BY <1>1, <1>2, <1>3, <1>4, <1>5, <1>6, <1>7, <1>8, <1>9, <1>10, <1>11, <1>12,
     <1>13, <1>14, <1>15, <1>16, <1>17, <1>18, <1>19, <1>20
     DEF Parsers

-----------------------------------------------------------------------------
(* The Location of a job is parsed as the submission was.                  *)

\* Two paths of one scope, up to spelling.
SamePlace(p, q) ==
    /\ q.tenant = p.tenant /\ q.jurisdiction = p.jurisdiction
    /\ q.sector = p.sector /\ q.action = p.action

LEMMA ValidAgain ==
    ASSUME NEW p, NEW q, SamePlace(p, q), Valid(p)
    PROVE  Valid(q)
BY DEF SamePlace, Valid, ValidTenant, validateJurisdiction

LEMMA ParsedAgain ==
    ASSUME NEW p, NEW q, SamePlace(p, q), q.rest = p.rest,
           NEW e, NEW pattern, NEW actions, NEW folded,
           Parse(p, e, pattern, actions, folded).kind = "route"
    PROVE  Parse(q, e, pattern, actions, folded).kind = "route"
<1>1. Matches(p, pattern, actions) /\ Valid(p)
  BY ParseKinds
<1>2. Matches(q, pattern, actions)
  BY <1>1 DEF Matches, SamePlace
<1>3. QED
  BY <1>1, <1>2, ValidAgain, ParseKinds

\* The alias of a network kind stands for another of the kinds.
LEMMA PdfMatchesAgain ==
    ASSUME NEW p, NEW q, SamePlace(p, q), p.rest \in Seq(STRING),
           q.rest = [p.rest EXCEPT ![1] = parseIcaNetworkKind(@)], NEW actions,
           Matches(p, <<PdfKinds, {"pdf"}, Parameter>>, actions)
    PROVE  Matches(q, <<PdfKinds, {"pdf"}, Parameter>>, actions) /\ q.rest[3] = p.rest[3]
<1>1. /\ Len(p.rest) = 3 /\ p.action \in actions
      /\ Named(PdfKinds, p.rest[1]) /\ Named({"pdf"}, p.rest[2])
  BY MatchesThree
<1>2. /\ Len(q.rest) = 3 /\ q.rest[1] = parseIcaNetworkKind(p.rest[1])
      /\ q.rest[2] = p.rest[2] /\ q.rest[3] = p.rest[3]
  BY <1>1
<1>3. Named(PdfKinds, q.rest[1])
  BY <1>1, <1>2, NamedPdf DEF PdfKinds, parseIcaNetworkKind
<1>4. QED
  BY <1>1, <1>2, <1>3, NamedAny, MatchesThree DEF SamePlace

LEMMA LocationParsed ==
    ASSUME NEW p, NEW q, NEW e \in AsyncEndpoints, p.rest \in Seq(STRING),
           SamePlace(p, q), q.rest = RestOf(e, p), ParsedBy(e, p).kind = "route"
    PROVE  ParsedBy(e, q).kind = "route"
<1>0. e \notin {"verify", "remove"} => q.rest = p.rest
  BY DEF RestOf
<1>1. CASE e = "controllerExchange"
  <2>1. /\ ParsedBy(e, p) = parseControllerExchangeRoute(p)
        /\ ParsedBy(e, q) = parseControllerExchangeRoute(q)
    BY <1>1, Zenon DEF ParsedBy
  <2>2. QED
    BY <1>0, <1>1, <2>1, ParsedAgain DEF parseControllerExchangeRoute
<1>2. CASE e = "apiKey"
  <2>1. /\ ParsedBy(e, p) = parseApiKeyProvisioningRoute(p)
        /\ ParsedBy(e, q) = parseApiKeyProvisioningRoute(q)
    BY <1>2, Zenon DEF ParsedBy
  <2>2. QED
    BY <1>0, <1>2, <2>1, ParsedAgain DEF parseApiKeyProvisioningRoute
<1>3. CASE e = "identity"
  <2>1. ParsedBy(e, p) = parseIdentityAuthRoute(p) /\ ParsedBy(e, q) = parseIdentityAuthRoute(q)
    BY <1>3, Zenon DEF ParsedBy
  <2>2. QED
    BY <1>0, <1>3, <2>1, ParsedAgain DEF parseIdentityAuthRoute
<1>4. CASE e = "verify"
  <2>1. ParsedBy(e, p) = parseVerifyRoute(p) /\ ParsedBy(e, q) = parseVerifyRoute(q)
    BY <1>4, Zenon DEF ParsedBy
  <2>2. q.rest = [p.rest EXCEPT ![1] = parseIcaNetworkKind(@)]
    BY <1>4 DEF RestOf
  <2>3. /\ Matches(p, <<PdfKinds, {"pdf"}, Parameter>>, {"_verify"})
        /\ Valid(p) /\ parseResourceType(p.rest[3]) /\ isActiveResourceType(p.rest[3])
    BY <2>1 DEF parseVerifyRoute, NotMine, RefusedRoute
  <2>4. /\ Matches(q, <<PdfKinds, {"pdf"}, Parameter>>, {"_verify"})
        /\ Valid(q) /\ parseResourceType(q.rest[3]) /\ isActiveResourceType(q.rest[3])
    BY <2>2, <2>3, PdfMatchesAgain, ValidAgain
  <2>5. QED
    BY <2>1, <2>4 DEF parseVerifyRoute, Parsed
<1>5. CASE e = "remove"
  <2>1. ParsedBy(e, p) = parseTermsRemoveRoute(p) /\ ParsedBy(e, q) = parseTermsRemoveRoute(q)
    BY <1>5, Zenon DEF ParsedBy
  <2>2. q.rest = [p.rest EXCEPT ![1] = parseIcaNetworkKind(@)]
    BY <1>5 DEF RestOf
  <2>3. /\ Matches(p, <<PdfKinds, {"pdf"}, Parameter>>, {"_remove"})
        /\ Valid(p) /\ parseResourceType(p.rest[3])
    BY <2>1 DEF parseTermsRemoveRoute, NotMine, RefusedRoute
  <2>4. /\ Matches(q, <<PdfKinds, {"pdf"}, Parameter>>, {"_remove"})
        /\ Valid(q) /\ parseResourceType(q.rest[3])
    BY <2>2, <2>3, PdfMatchesAgain, ValidAgain
  <2>5. QED
    BY <2>1, <2>4 DEF parseTermsRemoveRoute, Parsed
<1>6. CASE e = "createDid"
  <2>1. /\ ParsedBy(e, p) = parseCreateDidDocumentRoute(p)
        /\ ParsedBy(e, q) = parseCreateDidDocumentRoute(q)
    BY <1>6, Zenon DEF ParsedBy
  <2>2. QED
    BY <1>0, <1>6, <2>1, ParsedAgain DEF parseCreateDidDocumentRoute
<1>7. CASE e = "activate"
  <2>1. ParsedBy(e, p) = parseActivateRoute(p) /\ ParsedBy(e, q) = parseActivateRoute(q)
    BY <1>7, Zenon DEF ParsedBy
  <2>2. parseEntityKeysRoute(p, "activate").kind = "route" /\ p.action = "_activate"
        /\ p.rest[3] = "credentials"
    BY <2>1 DEF parseActivateRoute, NotMine, RefusedRoute
  <2>3. parseEntityKeysRoute(q, "activate").kind = "route"
    BY <1>0, <1>7, <2>2, ParsedAgain DEF parseEntityKeysRoute
  <2>4. QED
    BY <1>0, <1>7, <2>1, <2>2, <2>3 DEF parseActivateRoute, SamePlace
<1>8. CASE e = "addEvidence"
  <2>1. ParsedBy(e, p) = parseAddEvidenceRoute(p) /\ ParsedBy(e, q) = parseAddEvidenceRoute(q)
    BY <1>8, Zenon DEF ParsedBy
  <2>2. QED
    BY <1>0, <1>8, <2>1, ParsedAgain DEF parseAddEvidenceRoute
<1>9. CASE e = "delegation"
  <2>1. /\ ParsedBy(e, p) = parseDelegationPolicyRoute(p)
        /\ ParsedBy(e, q) = parseDelegationPolicyRoute(q)
    BY <1>9, Zenon DEF ParsedBy
  <2>2. QED
    BY <1>0, <1>9, <2>1, ParsedAgain DEF parseDelegationPolicyRoute
<1>10. CASE e = "issue"
  <2>1. /\ ParsedBy(e, p) = parseIssueCredentialRoute(p)
        /\ ParsedBy(e, q) = parseIssueCredentialRoute(q)
    BY <1>10, Zenon DEF ParsedBy
  <2>2. QED
    BY <1>0, <1>10, <2>1, ParsedAgain DEF parseIssueCredentialRoute
<1>11. CASE e = "status"
  <2>1. /\ ParsedBy(e, p) = parseCredentialStatusRoute(p)
        /\ ParsedBy(e, q) = parseCredentialStatusRoute(q)
    BY <1>11, Zenon DEF ParsedBy
  <2>2. QED
    BY <1>0, <1>11, <2>1, ParsedAgain DEF parseCredentialStatusRoute
<1>12. CASE e = "revoke"
  <2>1. /\ ParsedBy(e, p) = parseCredentialRevokeRoute(p)
        /\ ParsedBy(e, q) = parseCredentialRevokeRoute(q)
    BY <1>12, Zenon DEF ParsedBy
  <2>2. QED
    BY <1>0, <1>12, <2>1, ParsedAgain DEF parseCredentialRevokeRoute
<1>13. CASE e = "search"
  <2>1. /\ ParsedBy(e, p) = parseCredentialSearchRoute(p)
        /\ ParsedBy(e, q) = parseCredentialSearchRoute(q)
    BY <1>13, Zenon DEF ParsedBy
  <2>2. QED
    BY <1>0, <1>13, <2>1, ParsedAgain DEF parseCredentialSearchRoute
<1>14. CASE e = "retrieve"
  <2>1. /\ ParsedBy(e, p) = parseCredentialRetrieveRoute(p)
        /\ ParsedBy(e, q) = parseCredentialRetrieveRoute(q)
    BY <1>14, Zenon DEF ParsedBy
  <2>2. QED
    BY <1>0, <1>14, <2>1, ParsedAgain DEF parseCredentialRetrieveRoute
<1>15. QED
  BY <1>1, <1>2, <1>3, <1>4, <1>5, <1>6, <1>7, <1>8, <1>9, <1>10, <1>11, <1>12,
     <1>13, <1>14
     DEF AsyncEndpoints

-----------------------------------------------------------------------------
(* Which handler answers.                                                  *)

LEMMA Handler ==
    ASSUME NEW r, NEW c
    PROVE  /\ c.endpoint = "dcatRequest" => HandleRoute(r, c) = HandleCatalogRequest(r)
           /\ c.endpoint = "dcatDataset" => HandleRoute(r, c) = HandleCatalogDataset(r)
           /\ c.endpoint = "ddoRequest" => HandleRoute(r, c) = HandleDdoRequest(r)
           /\ c.endpoint = "ddoDataset" => HandleRoute(r, c) = HandleDdoDataset(r)
           /\ c.endpoint = "spaces" => HandleRoute(r, c) = HandleSpaces(r, c)
           /\ c.endpoint = "controllerExchange" =>
                 HandleRoute(r, c) = HandleControllerExchange(r, c)
           /\ c.endpoint = "apiKey" => HandleRoute(r, c) = HandleApiKey(r, c)
           /\ c.endpoint = "identity" => HandleRoute(r, c) = HandleIdentity(r, c)
           /\ c.endpoint = "verify" => HandleRoute(r, c) = HandleVerify(r, c)
           /\ c.endpoint = "remove" => HandleRoute(r, c) = HandleTermsRemove(r, c)
           /\ c.endpoint = "createDid" => HandleRoute(r, c) = HandleCreateDidDocument(r, c)
           /\ c.endpoint = "activate" => HandleRoute(r, c) = HandleActivate(r, c)
           /\ c.endpoint = "addEvidence" => HandleRoute(r, c) = HandleAddEvidence(r, c)
           /\ c.endpoint = "delegation" => HandleRoute(r, c) = HandleDelegation(r, c)
           /\ c.endpoint = "issue" => HandleRoute(r, c) = HandleIssue(r, c)
           /\ c.endpoint = "status" => HandleRoute(r, c) = HandleStatus(r, c)
           /\ c.endpoint = "revoke" => HandleRoute(r, c) = HandleRevoke(r, c)
           /\ c.endpoint = "search" => HandleRoute(r, c) = HandleSearch(r, c)
           /\ c.endpoint = "retrieve" => HandleRoute(r, c) = HandleRetrieve(r, c)
           /\ c.endpoint = "rotate" => HandleRoute(r, c) = HandleRotate(r, c)
<1>1. ASSUME c.endpoint = "dcatRequest" PROVE HandleRoute(r, c) = HandleCatalogRequest(r)
  BY <1>1, Zenon DEF HandleRoute
<1>2. ASSUME c.endpoint = "dcatDataset" PROVE HandleRoute(r, c) = HandleCatalogDataset(r)
  BY <1>2, Zenon DEF HandleRoute
<1>3. ASSUME c.endpoint = "ddoRequest" PROVE HandleRoute(r, c) = HandleDdoRequest(r)
  BY <1>3, Zenon DEF HandleRoute
<1>4. ASSUME c.endpoint = "ddoDataset" PROVE HandleRoute(r, c) = HandleDdoDataset(r)
  BY <1>4, Zenon DEF HandleRoute
<1>5. ASSUME c.endpoint = "spaces" PROVE HandleRoute(r, c) = HandleSpaces(r, c)
  BY <1>5, Zenon DEF HandleRoute
<1>6. ASSUME c.endpoint = "controllerExchange"
      PROVE  HandleRoute(r, c) = HandleControllerExchange(r, c)
  BY <1>6, Zenon DEF HandleRoute
<1>7. ASSUME c.endpoint = "apiKey" PROVE HandleRoute(r, c) = HandleApiKey(r, c)
  BY <1>7, Zenon DEF HandleRoute
<1>8. ASSUME c.endpoint = "identity" PROVE HandleRoute(r, c) = HandleIdentity(r, c)
  BY <1>8, Zenon DEF HandleRoute
<1>9. ASSUME c.endpoint = "verify" PROVE HandleRoute(r, c) = HandleVerify(r, c)
  BY <1>9, Zenon DEF HandleRoute
<1>10. ASSUME c.endpoint = "remove" PROVE HandleRoute(r, c) = HandleTermsRemove(r, c)
  BY <1>10, Zenon DEF HandleRoute
<1>11. ASSUME c.endpoint = "createDid" PROVE HandleRoute(r, c) = HandleCreateDidDocument(r, c)
  BY <1>11, Zenon DEF HandleRoute
<1>12. ASSUME c.endpoint = "activate" PROVE HandleRoute(r, c) = HandleActivate(r, c)
  BY <1>12, Zenon DEF HandleRoute
<1>13. ASSUME c.endpoint = "addEvidence" PROVE HandleRoute(r, c) = HandleAddEvidence(r, c)
  BY <1>13, Zenon DEF HandleRoute
<1>14. ASSUME c.endpoint = "delegation" PROVE HandleRoute(r, c) = HandleDelegation(r, c)
  BY <1>14, Zenon DEF HandleRoute
<1>15. ASSUME c.endpoint = "issue" PROVE HandleRoute(r, c) = HandleIssue(r, c)
  BY <1>15, Zenon DEF HandleRoute
<1>16. ASSUME c.endpoint = "status" PROVE HandleRoute(r, c) = HandleStatus(r, c)
  BY <1>16, Zenon DEF HandleRoute
<1>17. ASSUME c.endpoint = "revoke" PROVE HandleRoute(r, c) = HandleRevoke(r, c)
  BY <1>17, Zenon DEF HandleRoute
<1>18. ASSUME c.endpoint = "search" PROVE HandleRoute(r, c) = HandleSearch(r, c)
  BY <1>18, Zenon DEF HandleRoute
<1>19. ASSUME c.endpoint = "retrieve" PROVE HandleRoute(r, c) = HandleRetrieve(r, c)
  BY <1>19, Zenon DEF HandleRoute
<1>20. ASSUME c.endpoint = "rotate" PROVE HandleRoute(r, c) = HandleRotate(r, c)
  BY <1>20, Zenon DEF HandleRoute
<1>21. QED
  BY <1>1, <1>2, <1>3, <1>4, <1>5, <1>6, <1>7, <1>8, <1>9, <1>10, <1>11, <1>12,
     <1>13, <1>14, <1>15, <1>16, <1>17, <1>18, <1>19, <1>20

\* sameRoute of every response manager.
SameJob(e, a, b) ==
    IF e \in {"controllerExchange", "apiKey", "identity"} THEN SameAuthRoute(a, b)
    ELSE IF e = "verify" THEN SameVerifyRoute(a, b)
    ELSE IF e = "remove" THEN SameRemoveRoute(a, b)
    ELSE IF e \in {"createDid", "activate", "delegation"} THEN SameScope(a, b)
    ELSE SameNetworkRoute(a, b)

OwnJobs(c) == {j \in jobs : SameJob(c.endpoint, j.context, c)}

\* A poll is answered by Poll, whatever the endpoint.
LEMMA PollHandler ==
    ASSUME NEW r, NEW c, c.endpoint \in AsyncEndpoints, c.response, r.method = "POST"
    PROVE  HandleRoute(r, c) = Poll(r, c, OwnJobs(c))
<1>1. CASE c.endpoint = "controllerExchange"
  <2>1. HandleRoute(r, c) = HandleControllerExchange(r, c)
    BY <1>1, Handler
  <2>2. HandleControllerExchange(r, c) = PollBackendAuth(r, c)
    BY DEF HandleControllerExchange, PostOnly
  <2>3. QED
    BY <1>1, <2>1, <2>2 DEF PollBackendAuth, OwnJobs, SameJob
<1>2. CASE c.endpoint = "apiKey"
  <2>1. HandleRoute(r, c) = HandleApiKey(r, c)
    BY <1>2, Handler
  <2>2. HandleApiKey(r, c) = PollBackendAuth(r, c)
    BY DEF HandleApiKey, PostOnly
  <2>3. QED
    BY <1>2, <2>1, <2>2 DEF PollBackendAuth, OwnJobs, SameJob
<1>3. CASE c.endpoint = "identity"
  <2>1. HandleRoute(r, c) = HandleIdentity(r, c)
    BY <1>3, Handler
  <2>2. HandleIdentity(r, c) = PollBackendAuth(r, c)
    BY DEF HandleIdentity, PostOnly
  <2>3. QED
    BY <1>3, <2>1, <2>2 DEF PollBackendAuth, OwnJobs, SameJob
<1>4. CASE c.endpoint = "verify"
  <2>1. HandleRoute(r, c) = HandleVerify(r, c)
    BY <1>4, Handler
  <2>2. HandleVerify(r, c) = PollVerify(r, c)
    BY DEF HandleVerify, PostOnly
  <2>3. QED
    BY <1>4, <2>1, <2>2 DEF PollVerify, OwnJobs, SameJob
<1>5. CASE c.endpoint = "remove"
  <2>1. HandleRoute(r, c) = HandleTermsRemove(r, c)
    BY <1>5, Handler
  <2>2. HandleTermsRemove(r, c) = PollTermsRemove(r, c)
    BY DEF HandleTermsRemove, PostOnly
  <2>3. QED
    BY <1>5, <2>1, <2>2 DEF PollTermsRemove, OwnJobs, SameJob
<1>6. CASE c.endpoint = "createDid"
  <2>1. HandleRoute(r, c) = HandleCreateDidDocument(r, c)
    BY <1>6, Handler
  <2>2. HandleCreateDidDocument(r, c) = PollCreateDidDocument(r, c)
    BY DEF HandleCreateDidDocument, PostOnly
  <2>3. QED
    BY <1>6, <2>1, <2>2 DEF PollCreateDidDocument, OwnJobs, SameJob
<1>7. CASE c.endpoint = "activate"
  <2>1. HandleRoute(r, c) = HandleActivate(r, c)
    BY <1>7, Handler
  <2>2. HandleActivate(r, c) = PollActivate(r, c)
    BY DEF HandleActivate, PostOnly
  <2>3. QED
    BY <1>7, <2>1, <2>2 DEF PollActivate, OwnJobs, SameJob
<1>8. CASE c.endpoint = "addEvidence"
  <2>1. HandleRoute(r, c) = HandleAddEvidence(r, c)
    BY <1>8, Handler
  <2>2. HandleAddEvidence(r, c) = PollAddEvidence(r, c)
    BY DEF HandleAddEvidence, PostOnly
  <2>3. QED
    BY <1>8, <2>1, <2>2 DEF PollAddEvidence, OwnJobs, SameJob
<1>9. CASE c.endpoint = "delegation"
  <2>1. HandleRoute(r, c) = HandleDelegation(r, c)
    BY <1>9, Handler
  <2>2. HandleDelegation(r, c) = PollDelegation(r, c)
    BY DEF HandleDelegation, PostOnly
  <2>3. QED
    BY <1>9, <2>1, <2>2 DEF PollDelegation, OwnJobs, SameJob
<1>10. CASE c.endpoint = "issue"
  <2>1. HandleRoute(r, c) = HandleIssue(r, c)
    BY <1>10, Handler
  <2>2. HandleIssue(r, c) = PollIssue(r, c)
    BY DEF HandleIssue, PostOnly
  <2>3. QED
    BY <1>10, <2>1, <2>2 DEF PollIssue, OwnJobs, SameJob
<1>11. CASE c.endpoint = "status"
  <2>1. HandleRoute(r, c) = HandleStatus(r, c)
    BY <1>11, Handler
  <2>2. HandleStatus(r, c) = PollStatus(r, c)
    BY DEF HandleStatus, PostOnly
  <2>3. QED
    BY <1>11, <2>1, <2>2 DEF PollStatus, OwnJobs, SameJob
<1>12. CASE c.endpoint = "revoke"
  <2>1. HandleRoute(r, c) = HandleRevoke(r, c)
    BY <1>12, Handler
  <2>2. HandleRevoke(r, c) = PollRevoke(r, c)
    BY DEF HandleRevoke, PostOnly
  <2>3. QED
    BY <1>12, <2>1, <2>2 DEF PollRevoke, OwnJobs, SameJob
<1>13. CASE c.endpoint = "search"
  <2>1. HandleRoute(r, c) = HandleSearch(r, c)
    BY <1>13, Handler
  <2>2. HandleSearch(r, c) = PollSearch(r, c)
    BY DEF HandleSearch, PostOnly
  <2>3. QED
    BY <1>13, <2>1, <2>2 DEF PollSearch, OwnJobs, SameJob
<1>14. CASE c.endpoint = "retrieve"
  <2>1. HandleRoute(r, c) = HandleRetrieve(r, c)
    BY <1>14, Handler
  <2>2. HandleRetrieve(r, c) = PollRetrieve(r, c)
    BY DEF HandleRetrieve, PostOnly
  <2>3. QED
    BY <1>14, <2>1, <2>2 DEF PollRetrieve, OwnJobs, SameJob
<1>15. QED
  BY <1>1, <1>2, <1>3, <1>4, <1>5, <1>6, <1>7, <1>8, <1>9, <1>10, <1>11, <1>12,
     <1>13, <1>14
     DEF AsyncEndpoints

\* The answers of a request: to OPTIONS, of a fixed path, of no endpoint, of a
\* parser's refusal, or of the handler of the parser that accepts the path.
LEMMA HandleCases ==
    ASSUME NEW r, NEW status \in Handle(r)
    PROVE  LET e == Endpoint(r.path)
               parsed == ParsedBy(e, r.path)
           IN  \/ r.method = "OPTIONS" /\ status = 204
               \/ /\ r.method # "OPTIONS"
                  /\ \/ e \in FixedPaths \cup {"members"} /\ status \in HandleFixed(r, e)
                     \/ e = "none" /\ status = 404
                     \/ /\ e \in Parsers
                        /\ \/ parsed.kind = "refused" /\ status = 400
                           \/ parsed.kind = "route" /\ status \in HandleRoute(r, parsed.context)
<1>1. CASE r.method = "OPTIONS"
  BY <1>1 DEF Handle
<1>2. CASE r.method # "OPTIONS" /\ Endpoint(r.path) \in FixedPaths \cup {"members"}
  BY <1>2 DEF Handle
<1>3. CASE r.method # "OPTIONS" /\ Endpoint(r.path) \notin FixedPaths \cup {"members"}
                              /\ Endpoint(r.path) = "none"
  BY <1>3 DEF Handle
<1>4. CASE r.method # "OPTIONS" /\ Endpoint(r.path) \notin FixedPaths \cup {"members", "none"}
  <2>1. Endpoint(r.path) \in Parsers
    BY <1>4, ParserOfEndpoint
  <2>2. status \in (IF ParsedBy(Endpoint(r.path), r.path).kind = "refused" THEN {400}
                     ELSE HandleRoute(r, ParsedBy(Endpoint(r.path), r.path).context))
    BY <1>4 DEF Handle
  <2>3. ParsedBy(Endpoint(r.path), r.path).kind \in {"refused", "route"}
    BY <1>4, <2>1, ParserOfEndpoint, RouteContext
  <2>4. QED
    BY <1>4, <2>1, <2>2, <2>3
<1>5. QED
  BY <1>1, <1>2, <1>3, <1>4

\* A path that a parser accepts is answered by that parser's handler.
LEMMA RoutedHandle ==
    ASSUME NEW r, NEW e \in Parsers, ParsedBy(e, r.path).kind = "route", r.method # "OPTIONS"
    PROVE  Handle(r) = HandleRoute(r, ParsedBy(e, r.path).context)
<1>1. Endpoint(r.path) = e
  BY RoutedEndpoint
<1>2. e \notin FixedPaths \cup {"members", "none"}
  BY FixedAreNotParsers
<1>3. QED
  BY <1>1, <1>2 DEF Handle

-----------------------------------------------------------------------------
(* What a message is refused with.                                         *)

\* A DIDComm message is refused for its type only if that is another, or its
\* text is encoded.
DidcommRefusal(s, m) ==
    s \in {Fine, 400, 415} /\ (s = 415 => m.encoded \/ m.media # "didcomm")

LEMMA RequiresRefusal ==
    ASSUME NEW m, NEW transport, NEW fulfilled, DidcommRefusal(transport, m)
    PROVE  DidcommRefusal(Requires(transport, fulfilled), m)
BY DEF DidcommRefusal, Requires, Fine

LEMMA PlainRefusal ==
    ASSUME NEW m
    PROVE  /\ DidcommRefusal(parseDidcommPlainObject(m), m)
           /\ DidcommRefusal(parseDidcommPlainPayload(m), m)
BY DEF DidcommRefusal, parseDidcommPlainObject, parseDidcommPlainPayload,
       isAcceptedDidcommPlainContentType, Fine

LEMMA DidcommRefusals ==
    ASSUME NEW m
    PROVE  /\ DidcommRefusal(parseVerifySubmission(m), m)
           /\ DidcommRefusal(parseTermsRemoveSubmission(m), m)
           /\ DidcommRefusal(parseCreateDidDocumentSubmission(m), m)
           /\ DidcommRefusal(parseActivateSigningKeySubmission(m), m)
           /\ DidcommRefusal(parseAddEvidenceSubmission(m), m)
           /\ DidcommRefusal(parseDelegationPolicySubmission(m), m)
           /\ DidcommRefusal(parseIssueCredentialSubmission(m), m)
           /\ DidcommRefusal(parseCredentialStatusSubmission(m), m)
           /\ DidcommRefusal(parseCredentialRevokeSubmission(m), m)
           /\ DidcommRefusal(parseRotateSubmission(m), m)
           /\ DidcommRefusal(parseSpacesListSubmission(m), m)
           /\ DidcommRefusal(parseSpacesReplaceSubmission(m), m)
<1>1. DidcommRefusal(parseVerifySubmission(m), m)
  BY PlainRefusal, RequiresRefusal DEF parseVerifySubmission
<1>2. DidcommRefusal(parseTermsRemoveSubmission(m), m)
  BY PlainRefusal, RequiresRefusal DEF parseTermsRemoveSubmission
<1>3. DidcommRefusal(parseCreateDidDocumentSubmission(m), m)
  BY PlainRefusal, RequiresRefusal DEF parseCreateDidDocumentSubmission
<1>4. DidcommRefusal(parseActivateSigningKeySubmission(m), m)
  BY PlainRefusal, RequiresRefusal DEF parseActivateSigningKeySubmission
<1>5. DidcommRefusal(parseAddEvidenceSubmission(m), m)
  BY PlainRefusal, RequiresRefusal DEF parseAddEvidenceSubmission
<1>6. DidcommRefusal(parseDelegationPolicySubmission(m), m)
  BY PlainRefusal, RequiresRefusal DEF parseDelegationPolicySubmission
<1>7. DidcommRefusal(parseIssueCredentialSubmission(m), m)
  BY PlainRefusal, RequiresRefusal DEF parseIssueCredentialSubmission
<1>8. DidcommRefusal(parseCredentialStatusSubmission(m), m)
  BY PlainRefusal, RequiresRefusal DEF parseCredentialStatusSubmission
<1>9. DidcommRefusal(parseCredentialRevokeSubmission(m), m)
  BY PlainRefusal, RequiresRefusal DEF parseCredentialRevokeSubmission
<1>10. DidcommRefusal(parseRotateSubmission(m), m)
  BY PlainRefusal, RequiresRefusal DEF parseRotateSubmission
<1>11. DidcommRefusal(parseSpacesListSubmission(m), m)
  BY PlainRefusal, RequiresRefusal DEF parseSpacesListSubmission
<1>12. DidcommRefusal(parseSpacesReplaceSubmission(m), m)
  BY PlainRefusal, RequiresRefusal DEF parseSpacesReplaceSubmission
<1>13. QED
  BY <1>1, <1>2, <1>3, <1>4, <1>5, <1>6, <1>7, <1>8, <1>9, <1>10, <1>11, <1>12

\* The older transports of a search are refused where they are off.
SearchRefusal(s, m) ==
    /\ s \in {Fine, 400, 415}
    /\ s = 415 => \/ m.encoded
                  \/ m.media # "didcomm"
                     /\ (~LegacySearch \/ m.media \notin {"none", "form", "json"})

LEMMA SearchRefusals ==
    ASSUME NEW m
    PROVE  SearchRefusal(parseCredentialSearchSubmission(m), m)
<1>1. CASE m.encoded
  BY <1>1 DEF parseCredentialSearchSubmission, SearchRefusal, Fine
<1>2. CASE ~m.encoded /\ isAcceptedDidcommPlainContentType(m.media)
  <2>1. parseDidcommPlainObject(m) \in {Fine, 400}
    BY <1>2 DEF parseDidcommPlainObject, Fine
  <2>2. Requires(parseDidcommPlainObject(m), WithBody(m)) \in {Fine, 400}
    BY <2>1 DEF Requires
  <2>3. QED
    BY <1>2, <2>2 DEF parseCredentialSearchSubmission, SearchRefusal, Fine
<1>3. CASE ~m.encoded /\ ~isAcceptedDidcommPlainContentType(m.media)
  BY <1>3 DEF parseCredentialSearchSubmission, SearchRefusal, Fine,
     isAcceptedDidcommPlainContentType
<1>4. QED
  BY <1>1, <1>2, <1>3

-----------------------------------------------------------------------------
(* What a submission and a poll are answered with.                         *)

PollStatuses == {200, 202, 400, 404}

\* A poll that is told of a job has found one of its own.
LEMMA PollAnswers ==
    ASSUME NEW r, NEW c, NEW own, NEW status \in Poll(r, c, own)
    PROVE  /\ status \in PollStatuses
           /\ status \in {200, 202} =>
                 \E j \in own : j \in JobsOf(StoreOf(c.endpoint), parsePollingThreadId(r.message))
BY DEF Poll, PollStatuses

DidcommSubmission(r, status) ==
    /\ status \in {202, 400, 415}
    /\ status = 415 => r.message.encoded \/ r.message.media # "didcomm"

LEMMA DidcommSubmissions ==
    ASSUME NEW r, NEW refusal, DidcommRefusal(refusal, r.message),
           NEW status \in Submit(refusal) \cup SubmitChecked(r, refusal)
    PROVE  DidcommSubmission(r, status)
BY DEF Submit, SubmitChecked, DidcommRefusal, DidcommSubmission, Fine

\* The endpoints that take DIDComm messages and nothing else.
DidcommEndpoints ==
    {"verify", "remove", "createDid", "activate", "addEvidence", "delegation",
     "issue", "status", "revoke"}

\* Anything but POST is refused; what is posted is a poll or a submission.
PostAnswer(r, c, status, Submission(_, _)) ==
    \/ r.method # "POST" /\ status = 405
    \/ r.method = "POST" /\ c.response /\ status \in PollStatuses
    \/ r.method = "POST" /\ ~c.response /\ Submission(r, status)

LEMMA DidcommAnswers ==
    ASSUME NEW r, NEW c, c.endpoint \in DidcommEndpoints, NEW status \in HandleRoute(r, c)
    PROVE  PostAnswer(r, c, status, DidcommSubmission)
<1>0. ASSUME r.method = "POST", c.response PROVE status \in PollStatuses
  BY <1>0, PollHandler, PollAnswers DEF DidcommEndpoints, AsyncEndpoints
<1>1. CASE c.endpoint = "verify"
  <2>1. HandleRoute(r, c) = PostOnly(r, IF c.response THEN PollVerify(r, c) ELSE SubmitVerify(r, c))
    BY <1>1, Handler DEF HandleVerify
  <2>2. ASSUME r.method = "POST", ~c.response PROVE DidcommSubmission(r, status)
    <3>1. status \in SubmitVerify(r, c)
      BY <2>1, <2>2 DEF PostOnly
    <3>2. QED
      BY <3>1, DidcommRefusals, DidcommSubmissions DEF SubmitVerify
  <2>3. QED
    BY <1>0, <2>1, <2>2 DEF PostOnly, PostAnswer
<1>2. CASE c.endpoint = "remove"
  <2>1. HandleRoute(r, c) =
            PostOnly(r, IF c.response THEN PollTermsRemove(r, c) ELSE SubmitTermsRemove(r))
    BY <1>2, Handler DEF HandleTermsRemove
  <2>2. ASSUME r.method = "POST", ~c.response PROVE DidcommSubmission(r, status)
    <3>1. status \in SubmitTermsRemove(r)
      BY <2>1, <2>2 DEF PostOnly
    <3>2. QED
      BY <3>1, DidcommRefusals, DidcommSubmissions DEF SubmitTermsRemove
  <2>3. QED
    BY <1>0, <2>1, <2>2 DEF PostOnly, PostAnswer
<1>3. CASE c.endpoint = "createDid"
  <2>1. HandleRoute(r, c) =
            PostOnly(r, IF c.response THEN PollCreateDidDocument(r, c)
                                      ELSE SubmitCreateDidDocument(r))
    BY <1>3, Handler DEF HandleCreateDidDocument
  <2>2. ASSUME r.method = "POST", ~c.response PROVE DidcommSubmission(r, status)
    <3>1. status \in SubmitCreateDidDocument(r)
      BY <2>1, <2>2 DEF PostOnly
    <3>2. QED
      BY <3>1, DidcommRefusals, DidcommSubmissions DEF SubmitCreateDidDocument
  <2>3. QED
    BY <1>0, <2>1, <2>2 DEF PostOnly, PostAnswer
<1>4. CASE c.endpoint = "activate"
  <2>1. HandleRoute(r, c) =
            PostOnly(r, IF c.response THEN PollActivate(r, c) ELSE SubmitActivate(r))
    BY <1>4, Handler DEF HandleActivate
  <2>2. ASSUME r.method = "POST", ~c.response PROVE DidcommSubmission(r, status)
    <3>1. status \in SubmitActivate(r)
      BY <2>1, <2>2 DEF PostOnly
    <3>2. QED
      BY <3>1, DidcommRefusals, DidcommSubmissions DEF SubmitActivate
  <2>3. QED
    BY <1>0, <2>1, <2>2 DEF PostOnly, PostAnswer
<1>5. CASE c.endpoint = "addEvidence"
  <2>1. HandleRoute(r, c) =
            PostOnly(r, IF c.response THEN PollAddEvidence(r, c) ELSE SubmitAddEvidence(r))
    BY <1>5, Handler DEF HandleAddEvidence
  <2>2. ASSUME r.method = "POST", ~c.response PROVE DidcommSubmission(r, status)
    <3>1. status \in SubmitAddEvidence(r)
      BY <2>1, <2>2 DEF PostOnly
    <3>2. QED
      BY <3>1, DidcommRefusals, DidcommSubmissions DEF SubmitAddEvidence
  <2>3. QED
    BY <1>0, <2>1, <2>2 DEF PostOnly, PostAnswer
<1>6. CASE c.endpoint = "delegation"
  <2>1. HandleRoute(r, c) =
            PostOnly(r, IF c.response THEN PollDelegation(r, c) ELSE SubmitDelegation(r))
    BY <1>6, Handler DEF HandleDelegation
  <2>2. ASSUME r.method = "POST", ~c.response PROVE DidcommSubmission(r, status)
    <3>1. status \in SubmitDelegation(r)
      BY <2>1, <2>2 DEF PostOnly
    <3>2. QED
      BY <3>1, DidcommRefusals, DidcommSubmissions DEF SubmitDelegation
  <2>3. QED
    BY <1>0, <2>1, <2>2 DEF PostOnly, PostAnswer
<1>7. CASE c.endpoint = "issue"
  <2>1. HandleRoute(r, c) = PostOnly(r, IF c.response THEN PollIssue(r, c) ELSE SubmitIssue(r))
    BY <1>7, Handler DEF HandleIssue
  <2>2. ASSUME r.method = "POST", ~c.response PROVE DidcommSubmission(r, status)
    <3>1. status \in SubmitIssue(r)
      BY <2>1, <2>2 DEF PostOnly
    <3>2. QED
      BY <3>1, DidcommRefusals, DidcommSubmissions DEF SubmitIssue
  <2>3. QED
    BY <1>0, <2>1, <2>2 DEF PostOnly, PostAnswer
<1>8. CASE c.endpoint = "status"
  <2>1. HandleRoute(r, c) = PostOnly(r, IF c.response THEN PollStatus(r, c) ELSE SubmitStatus(r))
    BY <1>8, Handler DEF HandleStatus
  <2>2. ASSUME r.method = "POST", ~c.response PROVE DidcommSubmission(r, status)
    <3>1. status \in SubmitStatus(r)
      BY <2>1, <2>2 DEF PostOnly
    <3>2. QED
      BY <3>1, DidcommRefusals, DidcommSubmissions DEF SubmitStatus
  <2>3. QED
    BY <1>0, <2>1, <2>2 DEF PostOnly, PostAnswer
<1>9. CASE c.endpoint = "revoke"
  <2>1. HandleRoute(r, c) = PostOnly(r, IF c.response THEN PollRevoke(r, c) ELSE SubmitRevoke(r))
    BY <1>9, Handler DEF HandleRevoke
  <2>2. ASSUME r.method = "POST", ~c.response PROVE DidcommSubmission(r, status)
    <3>1. status \in SubmitRevoke(r)
      BY <2>1, <2>2 DEF PostOnly
    <3>2. QED
      BY <3>1, DidcommRefusals, DidcommSubmissions DEF SubmitRevoke
  <2>3. QED
    BY <1>0, <2>1, <2>2 DEF PostOnly, PostAnswer
<1>10. QED
  BY <1>1, <1>2, <1>3, <1>4, <1>5, <1>6, <1>7, <1>8, <1>9 DEF DidcommEndpoints

SearchSubmission(r, status) ==
    /\ status \in {202, 400, 415}
    /\ status = 415 => SearchRefusal(415, r.message)

LEMMA SearchSubmissions ==
    ASSUME NEW r, NEW status \in SubmitSearch(r) \cup SubmitRetrieve(r)
    PROVE  SearchSubmission(r, status)
<1>1. SearchRefusal(parseCredentialSearchSubmission(r.message), r.message)
  BY SearchRefusals
<1>2. status \in {400} \cup Submit(parseCredentialSearchSubmission(r.message))
  BY DEF SubmitSearch, SubmitRetrieve
<1>3. QED
  BY <1>1, <1>2 DEF Submit, SearchSubmission, SearchRefusal, Fine

LEMMA SearchAnswers ==
    ASSUME NEW r, NEW c, c.endpoint = "search", NEW status \in HandleRoute(r, c)
    PROVE  PostAnswer(r, c, status, SearchSubmission)
<1>1. ASSUME r.method = "POST", c.response PROVE status \in PollStatuses
  BY <1>1, PollHandler, PollAnswers DEF AsyncEndpoints
<1>2. HandleRoute(r, c) = PostOnly(r, IF c.response THEN PollSearch(r, c) ELSE SubmitSearch(r))
  BY Handler DEF HandleSearch
<1>3. ASSUME r.method = "POST", ~c.response PROVE SearchSubmission(r, status)
  <2>1. status \in SubmitSearch(r)
    BY <1>2, <1>3 DEF PostOnly
  <2>2. QED
    BY <2>1, SearchSubmissions
<1>4. QED
  BY <1>1, <1>2, <1>3 DEF PostOnly, PostAnswer

\* A GET of _retrieve is answered at once.
LEMMA RetrieveAnswers ==
    ASSUME NEW r, NEW c, c.endpoint = "retrieve", NEW status \in HandleRoute(r, c)
    PROVE  \/ r.method = "GET" /\ ~c.response /\ status \in {200, 400, 404}
           \/ PostAnswer(r, c, status, SearchSubmission)
<1>1. HandleRoute(r, c) = HandleRetrieve(r, c)
  BY Handler
<1>2. CASE r.method = "GET" /\ ~c.response
  BY <1>1, <1>2 DEF HandleRetrieve, retrieveDirect
<1>3. CASE ~(r.method = "GET" /\ ~c.response)
  <2>1. ASSUME r.method = "POST", c.response PROVE status \in PollStatuses
    BY <2>1, PollHandler, PollAnswers DEF AsyncEndpoints
  <2>2. HandleRoute(r, c) =
            PostOnly(r, IF c.response THEN PollRetrieve(r, c) ELSE SubmitRetrieve(r))
    BY <1>1, <1>3 DEF HandleRetrieve
  <2>3. ASSUME r.method = "POST", ~c.response PROVE SearchSubmission(r, status)
    <3>1. status \in SubmitRetrieve(r)
      BY <2>2, <2>3 DEF PostOnly
    <3>2. QED
      BY <3>1, SearchSubmissions
  <2>4. QED
    BY <2>1, <2>2, <2>3 DEF PostOnly, PostAnswer
<1>4. QED
  BY <1>2, <1>3

AuthEndpoints == {"controllerExchange", "apiKey", "identity"}

AuthSubmission(r, status) ==
    /\ status \in {202, 400, 401, 415}
    /\ status = 415 => r.message.encoded \/ r.message.media # "didcomm"

LEMMA AuthAnswers ==
    ASSUME NEW r, NEW c, c.endpoint \in AuthEndpoints, NEW status \in HandleRoute(r, c)
    PROVE  PostAnswer(r, c, status, AuthSubmission)
<1>1. ASSUME r.method = "POST", c.response PROVE status \in PollStatuses
  BY <1>1, PollHandler, PollAnswers DEF AuthEndpoints, AsyncEndpoints
<1>2. HandleRoute(r, c) = PostOnly(r, IF c.response THEN PollBackendAuth(r, c)
                                      ELSE SubmitBackendAuth(r, c))
  BY Handler DEF AuthEndpoints, HandleControllerExchange, HandleApiKey, HandleIdentity
<1>3. ASSUME r.method = "POST", ~c.response PROVE AuthSubmission(r, status)
  <2>1. status \in SubmitBackendAuth(r, c)
    BY <1>2, <1>3 DEF PostOnly
  <2>2. DidcommRefusal(parseDidcommPlainPayload(r.message), r.message)
    BY PlainRefusal
  <2>3. parseJsonBody(r.message) \in {Fine, 400}
    BY DEF parseJsonBody
  <2>4. QED
    BY <2>1, <2>2, <2>3 DEF SubmitBackendAuth, AuthSubmission, DidcommRefusal, Fine
<1>4. QED
  BY <1>1, <1>2, <1>3 DEF PostOnly, PostAnswer

LEMMA RotateAnswers ==
    ASSUME NEW r, NEW c, c.endpoint = "rotate", NEW status \in HandleRoute(r, c)
    PROVE  \/ r.method # "POST" /\ status = 405
           \/ r.method = "POST" /\ c.response /\ status = 501
           \/ r.method = "POST" /\ ~c.response /\ DidcommSubmission(r, status)
<1>1. HandleRoute(r, c) = PostOnly(r, IF c.response THEN {501}
                                      ELSE SubmitChecked(r, parseRotateSubmission(r.message)))
  BY Handler DEF HandleRotate
<1>2. ASSUME r.method = "POST", ~c.response PROVE DidcommSubmission(r, status)
  <2>1. status \in SubmitChecked(r, parseRotateSubmission(r.message))
    BY <1>1, <1>2 DEF PostOnly
  <2>2. QED
    BY <2>1, DidcommRefusals, DidcommSubmissions
<1>3. QED
  BY <1>1, <1>2 DEF PostOnly

LEMMA SpacesAnswers ==
    ASSUME NEW r, NEW c, c.endpoint = "spaces", NEW status \in HandleRoute(r, c)
    PROVE  \/ r.method # "POST" /\ status = 405
           \/ /\ r.method = "POST" /\ status \in {200, 400, 415}
              /\ status = 415 => r.message.encoded \/ r.message.media # "didcomm"
<1>1. HandleRoute(r, c) = HandleSpaces(r, c)
  BY Handler
<1>2. /\ DidcommRefusal(parseSpacesListSubmission(r.message), r.message)
      /\ DidcommRefusal(parseSpacesReplaceSubmission(r.message), r.message)
  BY DidcommRefusals
<1>3. QED
  BY <1>1, <1>2 DEF HandleSpaces, PostOnly, DidcommRefusal, Fine

LEMMA FilterAnswers ==
    ASSUME NEW r, NEW c, c.endpoint \in {"dcatRequest", "ddoRequest"},
           NEW status \in HandleRoute(r, c)
    PROVE  \/ r.method # "POST" /\ status = 405
           \/ /\ r.method = "POST" /\ status \in {200, 400, 415}
              /\ status = 415 => r.message.media # "json"
<1>1. HandleRoute(r, c) = FilterCatalog(r)
  BY Handler DEF HandleCatalogRequest, HandleDdoRequest
<1>2. QED
  BY <1>1 DEF FilterCatalog, PostOnly, parseJsonObjectBody, Fine

LEMMA DatasetAnswers ==
    ASSUME NEW r, NEW c, c.endpoint \in {"dcatDataset", "ddoDataset"},
           NEW status \in HandleRoute(r, c)
    PROVE  IF r.method = "GET" THEN status \in {200, 404} ELSE status = 405
<1>1. HandleRoute(r, c) = GetOnly(r, {200, 404})
  BY Handler DEF HandleCatalogDataset, HandleDdoDataset
<1>2. QED
  BY <1>1 DEF GetOnly

\* What is answered at a fixed path.
LEMMA FixedAnswers ==
    ASSUME NEW r, NEW e \in FixedPaths \cup {"members"}, NEW status \in HandleFixed(r, e)
    PROVE  \/ r.method # "GET" /\ status = 405
           \/ r.method = "GET" /\ status = 200
           \/ /\ r.method = "GET" /\ status = 404
              /\ e \in {"x509.der", "x509.pem", "organization-ca.pem", "member-did"}
<1>1. CASE e = "root"
  <2>1. HandleFixed(r, e) = HandleRoot(r)
    BY <1>1, Zenon DEF HandleFixed
  <2>2. QED
    BY <1>1, <2>1 DEF HandleRoot, GetOnly
<1>2. CASE e = "ica-configuration"
  <2>1. HandleFixed(r, e) = HandleIcaConfiguration(r)
    BY <1>2, Zenon DEF HandleFixed
  <2>2. QED
    BY <1>2, <2>1 DEF HandleIcaConfiguration, GetOnly
<1>3. CASE e = "openapi.json"
  <2>1. HandleFixed(r, e) = HandleOpenApi(r)
    BY <1>3, Zenon DEF HandleFixed
  <2>2. QED
    BY <1>3, <2>1 DEF HandleOpenApi, GetOnly
<1>4. CASE e = "well-known-did"
  <2>1. HandleFixed(r, e) = HandleDid(r)
    BY <1>4, Zenon DEF HandleFixed
  <2>2. QED
    BY <1>4, <2>1 DEF HandleDid, GetOnly
<1>5. CASE e = "did"
  <2>1. HandleFixed(r, e) = HandleDid(r)
    BY <1>5, Zenon DEF HandleFixed
  <2>2. QED
    BY <1>5, <2>1 DEF HandleDid, GetOnly
<1>6. CASE e = "jwks"
  <2>1. HandleFixed(r, e) = HandleJwks(r)
    BY <1>6, Zenon DEF HandleFixed
  <2>2. QED
    BY <1>6, <2>1 DEF HandleJwks, GetOnly
<1>7. CASE e = "x509.der"
  <2>1. HandleFixed(r, e) = HandleX509Der(r)
    BY <1>7, Zenon DEF HandleFixed
  <2>2. QED
    BY <1>7, <2>1 DEF HandleX509Der, GetOnly
<1>8. CASE e = "x509.pem"
  <2>1. HandleFixed(r, e) = HandleX509Pem(r)
    BY <1>8, Zenon DEF HandleFixed
  <2>2. QED
    BY <1>8, <2>1 DEF HandleX509Pem, GetOnly
<1>9. CASE e = "organization-ca.pem"
  <2>1. HandleFixed(r, e) = HandleOrganizationCa(r)
    BY <1>9, Zenon DEF HandleFixed
  <2>2. QED
    BY <1>9, <2>1 DEF HandleOrganizationCa, GetOnly
<1>10. CASE e = "dspace-version"
  <2>1. HandleFixed(r, e) = HandleDspaceVersion(r)
    BY <1>10, Zenon DEF HandleFixed
  <2>2. QED
    BY <1>10, <2>1 DEF HandleDspaceVersion, GetOnly
<1>11. CASE e = "discovery-catalog"
  <2>1. HandleFixed(r, e) = HandleDiscoveryCatalog(r)
    BY <1>11, Zenon DEF HandleFixed
  <2>2. QED
    BY <1>11, <2>1 DEF HandleDiscoveryCatalog, GetOnly
<1>12. CASE e = "discovery-catalog-alias"
  <2>1. HandleFixed(r, e) = HandleDiscoveryCatalog(r)
    BY <1>12, Zenon DEF HandleFixed
  <2>2. QED
    BY <1>12, <2>1 DEF HandleDiscoveryCatalog, GetOnly
<1>13. CASE e = "members"
  <2>1. HandleFixed(r, e) = HandleMembersDiscover(r)
    BY <1>13, Zenon DEF HandleFixed
  <2>2. QED
    BY <1>13, <2>1 DEF HandleMembersDiscover, GetOnly
<1>14. CASE e = "member-did"
  <2>1. HandleFixed(r, e) = HandleMemberDid(r)
    BY <1>14, Zenon DEF HandleFixed
  <2>2. QED
    BY <1>14, <2>1 DEF HandleMemberDid, GetOnly
<1>15. CASE e = "api-docs"
  <2>1. HandleFixed(r, e) = HandleApiDocs(r)
    BY <1>15, Zenon DEF HandleFixed
  <2>2. QED
    BY <1>15, <2>1 DEF HandleApiDocs, GetOnly
<1>16. QED
  BY <1>1, <1>2, <1>3, <1>4, <1>5, <1>6, <1>7, <1>8, <1>9, <1>10, <1>11, <1>12,
     <1>13, <1>14, <1>15
     DEF FixedPaths

-----------------------------------------------------------------------------
(* The jobs.                                                               *)

LEMMA RequestPaths ==
    \A r \in Requests : /\ r.path.response \in BOOLEAN /\ r.path.rest \in Seq(STRING)
                        /\ r.path.response => Len(r.path.rest) # 1
BY RequestsAssumption, Zenon

\* The server makes a thread id up where a message has none.
LEMMA ExtractedThid == ASSUME NEW ids PROVE extractThid(ids) # NoId
BY ParsingAssumption DEF extractThid

LEMMA ThidGiven ==
    ASSUME NEW e \in AsyncEndpoints, NEW m
    PROVE  ThidOf(e, m) # NoId
<1>1. extractThreadId(m) # NoId
  BY ParsingAssumption DEF extractThreadId
<1>2. DidcommThid(m) # NoId
  BY ExtractedThid DEF DidcommThid
<1>3. SearchThid(m) # NoId
  <2>1. CASE m.media \in {"didcomm", "didcommLegacy"}
    <3>1. SearchThid(m) = DidcommThid(m)
      BY <2>1, Zenon DEF SearchThid
    <3>2. QED
      BY <1>2, <3>1
  <2>2. CASE m.media = "none"
    <3>1. SearchThid(m) = extractThid(m.query)
      BY <2>2, Zenon DEF SearchThid
    <3>2. QED
      BY <3>1, ExtractedThid
  <2>3. CASE m.media \notin {"didcomm", "didcommLegacy", "none"}
    <3>1. SearchThid(m) = extractThid(OrElse(m.top, m.query))
      BY <2>3, Zenon DEF SearchThid
    <3>2. QED
      BY <3>1, ExtractedThid
  <2>4. QED
    BY <2>1, <2>2, <2>3
<1>4. CASE e \in {"controllerExchange", "apiKey", "identity"}
  <2>1. ThidOf(e, m) = extractThreadId(m)
    BY <1>4, Zenon DEF ThidOf
  <2>2. QED
    BY <1>1, <2>1
<1>5. CASE e \in {"search", "retrieve"}
  <2>1. ThidOf(e, m) = SearchThid(m)
    BY <1>5, Zenon DEF ThidOf
  <2>2. QED
    BY <1>3, <2>1
<1>6. CASE e \notin {"controllerExchange", "apiKey", "identity", "search", "retrieve"}
  <2>1. ThidOf(e, m) = DidcommThid(m)
    BY <1>6, Zenon DEF ThidOf
  <2>2. QED
    BY <1>2, <2>1
<1>7. QED
  BY <1>4, <1>5, <1>6

LEMMA AsyncAreParsers == AsyncEndpoints \subseteq Parsers
BY DEF AsyncEndpoints, Parsers

\* A job is of the endpoint whose parser accepts the path it was submitted to,
\* and keeps what that parser handed on.
JobFits(j) ==
    /\ j.context.endpoint \in AsyncEndpoints
    /\ ParsedBy(j.context.endpoint, j.path).kind = "route"
    /\ j.context = ParsedBy(j.context.endpoint, j.path).context
    /\ j.path.rest \in Seq(STRING)

HttpInv ==
    /\ HttpTypeOK
    /\ IsFiniteSet(jobs)
    /\ \A j \in jobs : JobFits(j)

\* The poll of an accepted path's endpoint looks for jobs in a store of its own.
LEMMA SubmissionRouted ==
    ASSUME NEW r, IsSubmission(r), 202 \in Handle(r)
    PROVE  LET parsed == ParsedBy(Endpoint(r.path), r.path)
           IN  /\ parsed.kind = "route" /\ parsed.context.endpoint = Endpoint(r.path)
               /\ 202 \in HandleRoute(r, parsed.context)
<1>1. Endpoint(r.path) \in Parsers /\ r.method # "OPTIONS"
  BY AsyncAreParsers DEF IsSubmission
<1>2. Endpoint(r.path) \notin FixedPaths \cup {"members", "none"}
  BY <1>1, FixedAreNotParsers
<1>3. /\ ParsedBy(Endpoint(r.path), r.path).kind = "route"
      /\ 202 \in HandleRoute(r, ParsedBy(Endpoint(r.path), r.path).context)
  BY <1>1, <1>2, HandleCases
<1>4. QED
  BY <1>1, <1>3, RouteContext DEF ContextOf

\* The job of an accepted submission fits.
LEMMA NewJobFits ==
    ASSUME NEW r \in Requests, IsSubmission(r), 202 \in Handle(r),
           NEW j, j = NewJob(r, ParsedBy(Endpoint(r.path), r.path).context)
    PROVE  /\ JobFits(j) /\ DOMAIN j = {"store", "thid", "context", "path", "status"}
           /\ j.store \in Stores /\ j.store = StoreOf(j.context.endpoint)
           /\ ~j.path.response /\ j.thid # NoId /\ j.status = "queued"
<1>1. Endpoint(r.path) \in AsyncEndpoints /\ ~r.path.response
  BY DEF IsSubmission
<1>2. /\ ParsedBy(Endpoint(r.path), r.path).kind = "route"
      /\ ParsedBy(Endpoint(r.path), r.path).context.endpoint = Endpoint(r.path)
  BY SubmissionRouted
<1>3. ThidOf(Endpoint(r.path), r.message) # NoId
  BY <1>1, ThidGiven
<1>4. /\ DOMAIN j = {"store", "thid", "context", "path", "status"}
      /\ j.store = StoreOf(Endpoint(r.path)) /\ j.thid = ThidOf(Endpoint(r.path), r.message)
      /\ j.context = ParsedBy(Endpoint(r.path), r.path).context /\ j.path = r.path
      /\ j.status = "queued"
  BY <1>2 DEF NewJob
<1>5. r.path.rest \in Seq(STRING)
  BY RequestPaths
<1>6. QED
  BY <1>1, <1>2, <1>3, <1>4, <1>5 DEF JobFits, Stores

\* A job that ended is the job that was queued but for its status.
LEMMA EndedJobFits ==
    ASSUME NEW j, DOMAIN j = {"store", "thid", "context", "path", "status"}, JobFits(j),
           NEW status
    PROVE  LET k == [j EXCEPT !.status = status]
           IN  /\ JobFits(k) /\ DOMAIN k = DOMAIN j /\ k.store = j.store /\ k.thid = j.thid
               /\ k.context = j.context /\ k.path = j.path /\ k.status = status
BY DEF JobFits

-----------------------------------------------------------------------------
(* A poll that is told of a job.                                           *)

\* Fixed paths have no -response, and neither have the catalog's and the spaces'.
LEMMA ResponseEndpoint ==
    ASSUME NEW r \in Requests, r.path.response
    PROVE  /\ Endpoint(r.path) \notin FixedPaths \cup {"members"}
           /\ \A e \in {"dcatRequest", "dcatDataset", "ddoRequest", "ddoDataset", "spaces"} :
                 ParsedBy(e, r.path).kind = "none"
<1>1. ~IsFixed(r.path) /\ ~IsMembersDiscover(r.path)
  BY RequestPaths DEF IsFixed, IsMembersDiscover
<1>2. Endpoint(r.path) \notin FixedPaths \cup {"members"}
  <2>1. Endpoint(r.path) = "none" \/ \E i \in Matching(r.path) : Endpoint(r.path) = Order[i]
    BY <1>1, EndpointByPlace
  <2>2. Endpoint(r.path) \in Parsers \cup {"none"}
    BY <2>1, OrderListsParsers DEF Matching
  <2>3. CASE Endpoint(r.path) = "none"
    BY <2>3 DEF FixedPaths
  <2>4. CASE Endpoint(r.path) \in Parsers
    BY <2>4, FixedAreNotParsers
  <2>5. QED
    BY <2>2, <2>3, <2>4
<1>3. r.path.action # ""
  BY RequestsAssumption, Zenon
<1>4. ParsedBy("dcatRequest", r.path).kind = "none"
  <2>1. ParsedBy("dcatRequest", r.path) = parseDcatCatalogRequestRoute(r.path)
    BY Zenon DEF ParsedBy
  <2>2. QED
    BY <1>3, <2>1, DcatRequestShape, Zenon
<1>5. ParsedBy("dcatDataset", r.path).kind = "none"
  <2>1. ParsedBy("dcatDataset", r.path) = parseDcatCatalogDatasetRoute(r.path)
    BY Zenon DEF ParsedBy
  <2>2. QED
    BY <1>3, <2>1, DcatDatasetShape, Zenon
<1>6. ParsedBy("ddoRequest", r.path).kind = "none"
  <2>1. ParsedBy("ddoRequest", r.path) = parseDcatCatalogDdoRequestRoute(r.path)
    BY Zenon DEF ParsedBy
  <2>2. QED
    BY <1>3, <2>1, DdoRequestShape, Zenon
<1>7. ParsedBy("ddoDataset", r.path).kind = "none"
  <2>1. ParsedBy("ddoDataset", r.path) = parseDcatCatalogDdoDatasetRoute(r.path)
    BY Zenon DEF ParsedBy
  <2>2. QED
    BY <1>3, <2>1, DdoDatasetShape, Zenon
<1>8. ParsedBy("spaces", r.path).kind = "none"
  <2>1. ParsedBy("spaces", r.path) = parseSpacesRoute(r.path)
    BY Zenon DEF ParsedBy
  <2>2. QED
    BY <2>1 DEF parseSpacesRoute, NotMine
<1>9. QED
  BY <1>2, <1>4, <1>5, <1>6, <1>7, <1>8

LEMMA PolledByPost ==
    ASSUME NEW r, NEW c, c.endpoint \in AsyncEndpoints, c.response,
           NEW status \in HandleRoute(r, c), status # 405
    PROVE  r.method = "POST"
<1>1. CASE c.endpoint \in DidcommEndpoints
  BY <1>1, DidcommAnswers DEF PostAnswer
<1>2. CASE c.endpoint \in AuthEndpoints
  BY <1>2, AuthAnswers DEF PostAnswer
<1>3. CASE c.endpoint = "search"
  BY <1>3, SearchAnswers DEF PostAnswer
<1>4. CASE c.endpoint = "retrieve"
  BY <1>4, RetrieveAnswers DEF PostAnswer
<1>5. QED
  BY <1>1, <1>2, <1>3, <1>4 DEF AsyncEndpoints, DidcommEndpoints, AuthEndpoints

\* What a path of -response is told is of a job, of the store and the thread id
\* asked for, which passes sameRoute; there is only one of that name.
LEMMA ToldOfAJob ==
    ASSUME HttpInv, NEW r \in Requests, r.path.response,
           NEW status \in Handle(r), status \in {200, 202}
    PROVE  LET e == Endpoint(r.path)
               c == ParsedBy(e, r.path).context
           IN  /\ e \in AsyncEndpoints /\ ParsedBy(e, r.path).kind = "route" /\ c.endpoint = e
               /\ \E j \in jobs : /\ SameJob(e, j.context, c) /\ j.store = StoreOf(e)
                                  /\ By(r, status) = j.path
<1> DEFINE e == Endpoint(r.path)
           c == ParsedBy(e, r.path).context
<1>1. /\ e \in Parsers /\ ParsedBy(e, r.path).kind = "route"
      /\ status \in HandleRoute(r, c)
  BY HandleCases, ResponseEndpoint
<1>2. ContextOf(c, e, r.path, RestOf(e, r.path))
  BY <1>1, RouteContext
<1>3. c.endpoint = e /\ c.response
  BY <1>2 DEF ContextOf
<1>4. e # "rotate"
  BY <1>1, <1>3, RotateAnswers
<1>5. e \in AsyncEndpoints
  BY <1>1, <1>4, ResponseEndpoint DEF Parsers, AsyncEndpoints
<1>6. status \in Poll(r, c, OwnJobs(c))
  BY <1>1, <1>3, <1>5, PolledByPost, PollHandler
<1>7. PICK j \in OwnJobs(c) : j \in JobsOf(StoreOf(e), parsePollingThreadId(r.message))
  BY <1>3, <1>6, PollAnswers
<1>8. j \in jobs /\ SameJob(e, j.context, c) /\ j.store = StoreOf(e)
  BY <1>3, <1>7 DEF OwnJobs, JobsOf
<1>9. \A i \in JobsOf(StoreOf(e), parsePollingThreadId(r.message)) : i = j
  BY <1>7 DEF JobsOf, HttpInv, HttpTypeOK
<1>10. (CHOOSE i \in JobsOf(StoreOf(e), parsePollingThreadId(r.message)) : TRUE) = j
  BY <1>7, <1>9
<1>11. By(r, status) = j.path
  BY <1>10 DEF By
<1>12. QED
  BY <1>1, <1>3, <1>5, <1>8, <1>11

-----------------------------------------------------------------------------
(* The invariant.                                                          *)

LEMMA HandledStatuses ==
    ASSUME NEW r, NEW status \in Handle(r)
    PROVE  status \in Statuses
<1> DEFINE e == Endpoint(r.path)
           c == ParsedBy(e, r.path).context
<1>1. CASE r.method = "OPTIONS" \/ e = "none"
  BY <1>1, HandleCases, FixedAnswers, FixedAreNotParsers DEF Statuses, Handle
<1>2. CASE e \in FixedPaths \cup {"members"} /\ status \in HandleFixed(r, e)
  BY <1>2, FixedAnswers DEF Statuses
<1>3. CASE status = 400
  BY <1>3 DEF Statuses
<1>4. CASE e \in Parsers /\ ParsedBy(e, r.path).kind = "route" /\ status \in HandleRoute(r, c)
  <2>1. c.endpoint = e
    BY <1>4, RouteContext DEF ContextOf
  <2>2. CASE e \in DidcommEndpoints
    BY <1>4, <2>1, <2>2, DidcommAnswers DEF PostAnswer, DidcommSubmission, PollStatuses, Statuses
  <2>3. CASE e \in AuthEndpoints
    BY <1>4, <2>1, <2>3, AuthAnswers DEF PostAnswer, AuthSubmission, PollStatuses, Statuses
  <2>4. CASE e = "search"
    BY <1>4, <2>1, <2>4, SearchAnswers DEF PostAnswer, SearchSubmission, PollStatuses, Statuses
  <2>5. CASE e = "retrieve"
    BY <1>4, <2>1, <2>5, RetrieveAnswers DEF PostAnswer, SearchSubmission, PollStatuses, Statuses
  <2>6. CASE e = "rotate"
    BY <1>4, <2>1, <2>6, RotateAnswers DEF DidcommSubmission, Statuses
  <2>7. CASE e = "spaces"
    BY <1>4, <2>1, <2>7, SpacesAnswers DEF Statuses
  <2>8. CASE e \in {"dcatRequest", "ddoRequest"}
    BY <1>4, <2>1, <2>8, FilterAnswers DEF Statuses
  <2>9. CASE e \in {"dcatDataset", "ddoDataset"}
    BY <1>4, <2>1, <2>9, DatasetAnswers DEF Statuses
  <2>10. QED
    BY <1>4, <2>2, <2>3, <2>4, <2>5, <2>6, <2>7, <2>8, <2>9
       DEF Parsers, DidcommEndpoints, AuthEndpoints
<1>5. QED
  BY <1>1, <1>2, <1>3, <1>4, HandleCases

LEMMA HttpInitInv == HttpInit => HttpInv
<1>1. Cardinality({}) = 0 /\ IsFiniteSet({})
  BY FS_EmptySet
<1>2. QED
  BY <1>1, HttpAssumption DEF HttpInit, HttpInv, HttpTypeOK

LEMMA ServeInv ==
    ASSUME HttpInv, NEW r \in Requests, Serve(r)
    PROVE  HttpInv'
<1>1. PICK status \in Handle(r) : answer' = [request |-> r, status |-> status, by |-> By(r, status)]
  BY DEF Serve
<1>2. status \in Statuses
  BY HandledStatuses
<1>3. By(r, status) # None => r.path.response /\ ~By(r, status).response
  <2>1. ASSUME By(r, status) # None PROVE r.path.response /\ ~By(r, status).response
    <3>1. r.path.response /\ status \in {200, 202}
      BY <2>1 DEF By
    <3>2. PICK j \in jobs : By(r, status) = j.path
      BY <3>1, ToldOfAJob
    <3>3. ~j.path.response
      BY DEF HttpInv, HttpTypeOK
    <3>4. QED
      BY <3>1, <3>2, <3>3
  <2>2. QED
    BY <2>1
<1>4. jobs' = jobs
  BY DEF Serve
<1>5. (answer' # None =>
         /\ DOMAIN answer' = {"request", "status", "by"} /\ answer'.status \in Statuses
         /\ answer'.by # None => answer'.request.path.response /\ ~answer'.by.response)
  BY <1>1, <1>2, <1>3
<1>6. QED
  BY <1>4, <1>5 DEF HttpInv, HttpTypeOK, JobFits

LEMMA AcceptInv ==
    ASSUME HttpInv, NEW r \in Requests, Accept(r)
    PROVE  HttpInv'
<1> DEFINE job == NewJob(r, ParsedBy(Endpoint(r.path), r.path).context)
<1>1. /\ IsSubmission(r) /\ 202 \in Handle(r)
      /\ jobs' = (jobs \ JobsOf(job.store, job.thid)) \cup {job}
      /\ Cardinality(jobs') <= MaxJobs
      /\ answer' = [request |-> r, status |-> 202, by |-> None]
  BY DEF Accept
<1>2. /\ JobFits(job) /\ DOMAIN job = {"store", "thid", "context", "path", "status"}
      /\ job.store \in Stores /\ job.store = StoreOf(job.context.endpoint)
      /\ ~job.path.response /\ job.thid # NoId /\ job.status = "queued"
  BY <1>1, NewJobFits
<1> HIDE DEF job
<1>3. IsFiniteSet(jobs')
  <2>1. IsFiniteSet(jobs \ JobsOf(job.store, job.thid))
    BY FS_Difference DEF HttpInv
  <2>2. QED
    BY <1>1, <2>1, FS_AddElement
<1>4. \A j \in jobs' : j = job \/ (j \in jobs /\ ~(j.store = job.store /\ j.thid = job.thid))
  BY <1>1 DEF JobsOf
<1>5. \A j \in jobs' :
         /\ JobFits(j)
         /\ DOMAIN j = {"store", "thid", "context", "path", "status"}
         /\ j.store \in Stores /\ j.store = StoreOf(j.context.endpoint)
         /\ ~j.path.response
         /\ j.thid # NoId
         /\ j.status \in {"queued", "succeeded", "failed"}
  BY <1>2, <1>4 DEF HttpInv, HttpTypeOK
<1>6. \A i, j \in jobs' : i.store = j.store /\ i.thid = j.thid => i = j
  BY <1>4 DEF HttpInv, HttpTypeOK
<1>7. (answer' # None =>
         /\ DOMAIN answer' = {"request", "status", "by"} /\ answer'.status \in Statuses
         /\ answer'.by # None => answer'.request.path.response /\ ~answer'.by.response)
  BY <1>1 DEF Statuses
<1>8. QED
  BY <1>1, <1>3, <1>5, <1>6, <1>7 DEF HttpInv, HttpTypeOK, JobFits

LEMMA EndInv ==
    ASSUME HttpInv, NEW j \in jobs, NEW status \in {"succeeded", "failed"}, End(j, status)
    PROVE  HttpInv'
<1> DEFINE k == [j EXCEPT !.status = status]
<1>1. jobs' = (jobs \ {j}) \cup {k} /\ answer' = answer
  BY DEF End
<1>2. /\ JobFits(k) /\ DOMAIN k = DOMAIN j /\ k.store = j.store /\ k.thid = j.thid
      /\ k.context = j.context /\ k.path = j.path /\ k.status = status
  BY EndedJobFits DEF HttpInv, HttpTypeOK
<1> HIDE DEF k
<1>3. IsFiniteSet(jobs') /\ Cardinality(jobs') <= MaxJobs
  <2>1. /\ IsFiniteSet(jobs \ {j}) /\ Cardinality(jobs \ {j}) = Cardinality(jobs) - 1
        /\ Cardinality(jobs) \in Nat /\ Cardinality(jobs) <= MaxJobs
    BY FS_RemoveElement, FS_CardinalityType DEF HttpInv, HttpTypeOK
  <2>2. IsFiniteSet(jobs')
    BY <1>1, <2>1, FS_AddElement
  <2>3. Cardinality(jobs') \in {Cardinality(jobs \ {j}), Cardinality(jobs \ {j}) + 1}
    BY <1>1, <2>1, FS_AddElement
  <2>4. QED
    BY <2>1, <2>2, <2>3, HttpAssumption
<1>4. \A i \in jobs' : i = k \/ (i \in jobs /\ i # j)
  BY <1>1
<1>5. \A i \in jobs' :
         /\ JobFits(i)
         /\ DOMAIN i = {"store", "thid", "context", "path", "status"}
         /\ i.store \in Stores /\ i.store = StoreOf(i.context.endpoint)
         /\ ~i.path.response
         /\ i.thid # NoId
         /\ i.status \in {"queued", "succeeded", "failed"}
  BY <1>2, <1>4 DEF HttpInv, HttpTypeOK
<1>6. \A h, i \in jobs' : h.store = i.store /\ h.thid = i.thid => h = i
  BY <1>2, <1>4 DEF HttpInv, HttpTypeOK
<1>7. QED
  BY <1>1, <1>3, <1>5, <1>6 DEF HttpInv, HttpTypeOK, JobFits

LEMMA FollowedAreRequests == HttpInv => Followed \subseteq Requests
<1>1. \A s \in Stores : AboutStore[s] \subseteq Requests
  BY DEF AboutStore
<1>2. HttpInv => \A j \in jobs : j.store \in Stores
  BY DEF HttpInv, HttpTypeOK
<1>3. QED
  BY <1>1, <1>2 DEF Followed

LEMMA HttpNextInv == HttpInv /\ [HttpNext]_httpVars => HttpInv'
<1> SUFFICES ASSUME HttpInv, [HttpNext]_httpVars PROVE HttpInv'
  OBVIOUS
<1>1. ASSUME NEW r \in Followed, Serve(r) \/ Accept(r) PROVE HttpInv'
  BY <1>1, FollowedAreRequests, ServeInv, AcceptInv
<1>2. CASE Take
  BY <1>2 DEF Take, HttpInv, HttpTypeOK, JobFits
<1>3. ASSUME NEW j \in jobs, NEW status \in {"succeeded", "failed"}, End(j, status) PROVE HttpInv'
  BY <1>3, EndInv
<1>4. CASE HttpRestart
  <2>1. Cardinality({}) = 0 /\ IsFiniteSet({})
    BY FS_EmptySet
  <2>2. QED
    BY <1>4, <2>1, HttpAssumption DEF HttpRestart, HttpInv, HttpTypeOK
<1>5. CASE UNCHANGED httpVars
  BY <1>5 DEF httpVars, HttpInv, HttpTypeOK, JobFits
<1>6. QED
  BY <1>1, <1>2, <1>3, <1>4, <1>5 DEF HttpNext

\* A job is kept under the store, the endpoint and the thread id it was accepted
\* with, no two of a store share a thread id, and only a poll is told of one.
THEOREM HttpTypes == HttpSpec => []HttpTypeOK
<1>1. HttpInv => HttpTypeOK
  BY DEF HttpInv
<1>2. QED
  BY <1>1, HttpInitInv, HttpNextInv, PTL DEF HttpSpec

-----------------------------------------------------------------------------
(* An accepted job can be polled.                                          *)

LEMMA FollowingFields ==
    ASSUME NEW j, j.thid # NoId
    PROVE  /\ Following(j).path = ResponseLocation(j.context) /\ Following(j).method = "POST"
           /\ parsePollingThreadId(Following(j).message) = j.thid
BY DEF Following, parsePollingThreadId, FirstId

\* An alias is resolved once and for all.
LEMMA AliasOnce ==
    ASSUME NEW e, NEW p, NEW q, p.rest \in Seq(STRING), q.rest = RestOf(e, p)
    PROVE  RestOf(e, q) = q.rest
<1>1. CASE e \in {"verify", "remove"}
  <2>1. q.rest = [p.rest EXCEPT ![1] = parseIcaNetworkKind(@)]
    BY <1>1 DEF RestOf
  <2>2. parseIcaNetworkKind(parseIcaNetworkKind(p.rest[1])) = parseIcaNetworkKind(p.rest[1])
    BY DEF parseIcaNetworkKind
  <2>3. [q.rest EXCEPT ![1] = parseIcaNetworkKind(@)] = q.rest
    BY <2>1, <2>2
  <2>4. QED
    BY <1>1, <2>3 DEF RestOf
<1>2. CASE e \notin {"verify", "remove"}
  BY <1>2 DEF RestOf
<1>3. QED
  BY <1>1, <1>2

\* The poll of a job's Location is routed as its submission was, and sameRoute
\* holds between the two.
LEMMA LocationOfAJob ==
    ASSUME NEW j, JobFits(j)
    PROVE  LET e == j.context.endpoint
               q == ResponseLocation(j.context)
               c == ParsedBy(e, q).context
           IN  /\ ParsedBy(e, q).kind = "route" /\ c.endpoint = e /\ c.response
               /\ SameJob(e, j.context, c)
<1> DEFINE e == j.context.endpoint
           q == ResponseLocation(j.context)
           c == ParsedBy(e, q).context
<1>1. e \in AsyncEndpoints /\ e \in Parsers
  BY AsyncAreParsers DEF JobFits
<1>2. ContextOf(j.context, e, j.path, RestOf(e, j.path))
  BY <1>1, RouteContext DEF JobFits
<1>3. SamePlace(j.path, q) /\ q.rest = RestOf(e, j.path)
  BY <1>2 DEF ContextOf, SamePlace, ResponseLocation
<1>4. ParsedBy(e, q).kind = "route"
  BY <1>1, <1>3, LocationParsed DEF JobFits
<1>5. ContextOf(c, e, q, RestOf(e, q))
  BY <1>1, <1>4, RouteContext
<1>6. c.rest = j.context.rest
  BY <1>2, <1>3, <1>5, AliasOnce DEF ContextOf, JobFits
<1>7. SameScope(j.context, c) /\ j.context.endpoint = c.endpoint /\ j.context.action = c.action
  BY <1>2, <1>5 DEF ContextOf, SameScope, ResponseLocation
<1>8. SameJob(e, j.context, c)
  BY <1>6, <1>7 DEF SameJob, SameAuthRoute, SameVerifyRoute, SameRemoveRoute, SameNetworkRoute
<1>9. c.response
  BY <1>5 DEF ContextOf, ResponseLocation
<1>10. QED
  BY <1>4, <1>7, <1>8, <1>9

LEMMA AcceptedFound ==
    ASSUME HttpInv, NEW j \in jobs
    PROVE  /\ Endpoint(Following(j).path) = j.context.endpoint
           /\ Handle(Following(j)) \subseteq {200, 202}
<1> DEFINE e == j.context.endpoint
           r == Following(j)
           c == ParsedBy(e, r.path).context
<1>1. JobFits(j) /\ j.store = StoreOf(e) /\ j.thid # NoId
  BY DEF HttpInv, HttpTypeOK
<1>2. /\ r.path = ResponseLocation(j.context) /\ r.method = "POST"
      /\ parsePollingThreadId(r.message) = j.thid
  BY <1>1, FollowingFields
<1> HIDE DEF r
<1>3. ParsedBy(e, r.path).kind = "route" /\ c.endpoint = e /\ c.response /\ SameJob(e, j.context, c)
  BY <1>1, <1>2, LocationOfAJob
<1>4. e \in AsyncEndpoints /\ e \in Parsers
  BY <1>1, AsyncAreParsers DEF JobFits
<1>5. Endpoint(r.path) = e
  BY <1>3, <1>4, RoutedEndpoint
<1>6. Handle(r) = Poll(r, c, OwnJobs(c))
  BY <1>2, <1>3, <1>4, RoutedHandle, PollHandler
<1>7. j \in OwnJobs(c) \cap JobsOf(StoreOf(c.endpoint), parsePollingThreadId(r.message))
  BY <1>1, <1>2, <1>3 DEF OwnJobs, JobsOf
<1>8. Handle(r) \subseteq {200, 202}
  BY <1>1, <1>2, <1>6, <1>7 DEF Poll
<1>9. QED
  BY <1>5, <1>8 DEF r

\* The poll at the Location of an accepted job reaches the endpoint that accepted
\* it and is told of a job (build...ResponseLocation, sameRoute and the parsers of
\* every family), whatever the spelling of the submission's path.
THEOREM AcceptedIsPolled == HttpSpec => []AcceptedCanBePolled
<1>1. HttpInv => AcceptedCanBePolled
  BY AcceptedFound DEF AcceptedCanBePolled
<1>2. QED
  BY <1>1, HttpInitInv, HttpNextInv, PTL DEF HttpSpec

-----------------------------------------------------------------------------
(* A poll is told of jobs of its own path alone.                           *)

\* What a Same... relation of two contexts says of their paths.
LEMMA OwnPathsAgree ==
    ASSUME NEW e \in AsyncEndpoints, NEW p, NEW q, p.rest \in Seq(STRING), q.rest \in Seq(STRING),
           ParsedBy(e, p).kind = "route", ParsedBy(e, q).kind = "route",
           SameJob(e, ParsedBy(e, q).context, ParsedBy(e, p).context)
    PROVE  PathsAgree(p, q)
<1> DEFINE a == ParsedBy(e, p).context
           b == ParsedBy(e, q).context
<1>1. ContextOf(a, e, p, RestOf(e, p)) /\ ContextOf(b, e, q, RestOf(e, q))
  BY AsyncAreParsers, RouteContext
<1>2. SameScope(b, a) /\ SameJob(e, b, a)
  BY DEF SameJob, SameAuthRoute, SameVerifyRoute, SameRemoveRoute, SameNetworkRoute
<1>3. /\ p.tenant = q.tenant /\ ("tenant" \in p.upper <=> "tenant" \in q.upper)
      /\ p.jurisdiction = q.jurisdiction /\ p.sector = q.sector
  BY <1>1, <1>2 DEF ContextOf, SameScope
<1>4. e \in {"controllerExchange", "apiKey", "identity"} => p.action = q.action
  BY <1>1, <1>2 DEF ContextOf, SameJob, SameAuthRoute
<1>5. e \in {"addEvidence", "issue", "status", "revoke", "search", "retrieve"} =>
        p.rest[3] = q.rest[3]
  BY <1>1, <1>2 DEF ContextOf, SameJob, SameNetworkRoute, RestOf
<1> HIDE DEF a, b
<1>6. CASE e = "controllerExchange"
  <2>1. /\ ParsedBy(e, p) = parseControllerExchangeRoute(p)
        /\ ParsedBy(e, q) = parseControllerExchangeRoute(q)
    BY <1>6, Zenon DEF ParsedBy
  <2>2. /\ Len(p.rest) = 3 /\ p.rest[1] = "organization" /\ p.rest[2] = "dataspace"
        /\ p.rest[3] = "auth" /\ p.action = "_exchange"
    BY <2>1, ControllerExchangeShape
  <2>3. /\ Len(q.rest) = 3 /\ q.rest[1] = "organization" /\ q.rest[2] = "dataspace"
        /\ q.rest[3] = "auth" /\ q.action = "_exchange"
    BY <2>1, ControllerExchangeShape
  <2>4. DOMAIN p.rest = 1..3
    BY <2>2
  <2>5. QED
    BY <1>3, <1>4, <1>5, <1>6, <2>2, <2>3, <2>4 DEF PathsAgree
<1>7. CASE e = "apiKey"
  <2>1. /\ ParsedBy(e, p) = parseApiKeyProvisioningRoute(p)
        /\ ParsedBy(e, q) = parseApiKeyProvisioningRoute(q)
    BY <1>7, Zenon DEF ParsedBy
  <2>2. /\ Len(p.rest) = 3 /\ p.rest[1] = "api-key" /\ p.rest[2] = "org.schema"
        /\ p.rest[3] = "action"
        /\ p.action \in {"_create", "_disable", "_remove", "_search"}
    BY <2>1, ApiKeyShape
  <2>3. /\ Len(q.rest) = 3 /\ q.rest[1] = "api-key" /\ q.rest[2] = "org.schema"
        /\ q.rest[3] = "action"
        /\ q.action \in {"_create", "_disable", "_remove", "_search"}
    BY <2>1, ApiKeyShape
  <2>4. DOMAIN p.rest = 1..3
    BY <2>2
  <2>5. QED
    BY <1>3, <1>4, <1>5, <1>7, <2>2, <2>3, <2>4 DEF PathsAgree
<1>8. CASE e = "identity"
  <2>1. ParsedBy(e, p) = parseIdentityAuthRoute(p) /\ ParsedBy(e, q) = parseIdentityAuthRoute(q)
    BY <1>8, Zenon DEF ParsedBy
  <2>2. /\ Len(p.rest) = 2 /\ p.rest[1] = "identity" /\ p.rest[2] = "auth"
        /\ p.action \in {"_dcr", "_code", "_token", "_exchange"}
    BY <2>1, IdentityShape
  <2>3. /\ Len(q.rest) = 2 /\ q.rest[1] = "identity" /\ q.rest[2] = "auth"
        /\ q.action \in {"_dcr", "_code", "_token", "_exchange"}
    BY <2>1, IdentityShape
  <2>4. DOMAIN p.rest = 1..2
    BY <2>2
  <2>5. QED
    BY <1>3, <1>4, <1>5, <1>8, <2>2, <2>3, <2>4 DEF PathsAgree
<1>9. CASE e = "verify"
  <2>1. ParsedBy(e, p) = parseVerifyRoute(p) /\ ParsedBy(e, q) = parseVerifyRoute(q)
    BY <1>9, Zenon DEF ParsedBy
  <2>2. /\ Len(p.rest) = 3 /\ p.rest[1] \in PdfKinds /\ p.rest[2] = "pdf"
        /\ p.action = "_verify"
    BY <2>1, VerifyShape
  <2>3. /\ Len(q.rest) = 3 /\ q.rest[1] \in PdfKinds /\ q.rest[2] = "pdf"
        /\ q.action = "_verify"
    BY <2>1, VerifyShape
  <2>4. [p.rest EXCEPT ![1] = parseIcaNetworkKind(@)]
          = [q.rest EXCEPT ![1] = parseIcaNetworkKind(@)]
    BY <1>1, <1>2, <1>9 DEF ContextOf, SameJob, SameVerifyRoute, RestOf
  <2>5. /\ parseIcaNetworkKind(p.rest[1]) = parseIcaNetworkKind(q.rest[1])
        /\ p.rest[2] = q.rest[2] /\ p.rest[3] = q.rest[3]
    BY <2>2, <2>3, <2>4
  <2>6. DOMAIN p.rest = 1..3
    BY <2>2
  <2>7. QED
    BY <1>3, <2>2, <2>3, <2>5, <2>6 DEF PathsAgree
<1>10. CASE e = "remove"
  <2>1. ParsedBy(e, p) = parseTermsRemoveRoute(p) /\ ParsedBy(e, q) = parseTermsRemoveRoute(q)
    BY <1>10, Zenon DEF ParsedBy
  <2>2. /\ Len(p.rest) = 3 /\ p.rest[1] \in PdfKinds /\ p.rest[2] = "pdf"
        /\ p.action = "_remove"
    BY <2>1, RemoveShape
  <2>3. /\ Len(q.rest) = 3 /\ q.rest[1] \in PdfKinds /\ q.rest[2] = "pdf"
        /\ q.action = "_remove"
    BY <2>1, RemoveShape
  <2>4. p.rest[3] = q.rest[3]
    <3>1. [p.rest EXCEPT ![1] = parseIcaNetworkKind(@)][3]
            = [q.rest EXCEPT ![1] = parseIcaNetworkKind(@)][3]
      BY <1>1, <1>2, <1>10 DEF ContextOf, SameJob, SameRemoveRoute, RestOf
    <3>2. QED
      BY <2>2, <2>3, <3>1
  <2>5. DOMAIN p.rest = 1..3
    BY <2>2
  <2>6. QED
    BY <1>3, <2>2, <2>3, <2>4, <2>5 DEF PathsAgree
<1>11. CASE e = "createDid"
  <2>1. /\ ParsedBy(e, p) = parseCreateDidDocumentRoute(p)
        /\ ParsedBy(e, q) = parseCreateDidDocumentRoute(q)
    BY <1>11, Zenon DEF ParsedBy
  <2>2. /\ Len(p.rest) = 3 /\ p.rest[1] = "entity" /\ p.rest[2] = "did"
        /\ p.rest[3] = "document" /\ p.action = "_create"
    BY <2>1, CreateDidShape
  <2>3. /\ Len(q.rest) = 3 /\ q.rest[1] = "entity" /\ q.rest[2] = "did"
        /\ q.rest[3] = "document" /\ q.action = "_create"
    BY <2>1, CreateDidShape
  <2>4. DOMAIN p.rest = 1..3
    BY <2>2
  <2>5. QED
    BY <1>3, <1>4, <1>5, <1>11, <2>2, <2>3, <2>4 DEF PathsAgree
<1>12. CASE e = "activate"
  <2>1. ParsedBy(e, p) = parseActivateRoute(p) /\ ParsedBy(e, q) = parseActivateRoute(q)
    BY <1>12, Zenon DEF ParsedBy
  <2>2. /\ Len(p.rest) = 3 /\ p.rest[1] = "entity" /\ p.rest[2] = "keys"
        /\ p.rest[3] \in {"credentials", "communications"}
        /\ p.action \in {"_activate", "_rotate"}
    BY <2>1, ActivateShape
  <2>3. /\ Len(q.rest) = 3 /\ q.rest[1] = "entity" /\ q.rest[2] = "keys"
        /\ q.rest[3] \in {"credentials", "communications"}
        /\ q.action \in {"_activate", "_rotate"}
    BY <2>1, ActivateShape
  <2>4. /\ p.rest[3] = "credentials" /\ p.action = "_activate"
        /\ q.rest[3] = "credentials" /\ q.action = "_activate"
    BY <2>1 DEF parseActivateRoute, NotMine, RefusedRoute
  <2>5. DOMAIN p.rest = 1..3
    BY <2>2
  <2>6. QED
    BY <1>3, <2>2, <2>3, <2>4, <2>5 DEF PathsAgree
<1>13. CASE e = "addEvidence"
  <2>1. ParsedBy(e, p) = parseAddEvidenceRoute(p) /\ ParsedBy(e, q) = parseAddEvidenceRoute(q)
    BY <1>13, Zenon DEF ParsedBy
  <2>2. /\ Len(p.rest) = 3 /\ p.rest[1] = "network" /\ p.rest[2] = "evidence"
        /\ p.action = "_add"
    BY <2>1, AddEvidenceShape
  <2>3. /\ Len(q.rest) = 3 /\ q.rest[1] = "network" /\ q.rest[2] = "evidence"
        /\ q.action = "_add"
    BY <2>1, AddEvidenceShape
  <2>4. DOMAIN p.rest = 1..3
    BY <2>2
  <2>5. QED
    BY <1>3, <1>4, <1>5, <1>13, <2>2, <2>3, <2>4 DEF PathsAgree
<1>14. CASE e = "delegation"
  <2>1. /\ ParsedBy(e, p) = parseDelegationPolicyRoute(p)
        /\ ParsedBy(e, q) = parseDelegationPolicyRoute(q)
    BY <1>14, Zenon DEF ParsedBy
  <2>2. /\ Len(p.rest) = 3 /\ p.rest[1] = "network" /\ p.rest[2] = "policies"
        /\ p.rest[3] = "delegations" /\ p.action = "_upsert"
    BY <2>1, DelegationShape
  <2>3. /\ Len(q.rest) = 3 /\ q.rest[1] = "network" /\ q.rest[2] = "policies"
        /\ q.rest[3] = "delegations" /\ q.action = "_upsert"
    BY <2>1, DelegationShape
  <2>4. DOMAIN p.rest = 1..3
    BY <2>2
  <2>5. QED
    BY <1>3, <1>4, <1>5, <1>14, <2>2, <2>3, <2>4 DEF PathsAgree
<1>15. CASE e = "issue"
  <2>1. /\ ParsedBy(e, p) = parseIssueCredentialRoute(p)
        /\ ParsedBy(e, q) = parseIssueCredentialRoute(q)
    BY <1>15, Zenon DEF ParsedBy
  <2>2. /\ Len(p.rest) = 3 /\ p.rest[1] = "network" /\ p.rest[2] = "credentials"
        /\ p.action = "_issue"
    BY <2>1, IssueShape
  <2>3. /\ Len(q.rest) = 3 /\ q.rest[1] = "network" /\ q.rest[2] = "credentials"
        /\ q.action = "_issue"
    BY <2>1, IssueShape
  <2>4. DOMAIN p.rest = 1..3
    BY <2>2
  <2>5. QED
    BY <1>3, <1>4, <1>5, <1>15, <2>2, <2>3, <2>4 DEF PathsAgree
<1>16. CASE e = "status"
  <2>1. /\ ParsedBy(e, p) = parseCredentialStatusRoute(p)
        /\ ParsedBy(e, q) = parseCredentialStatusRoute(q)
    BY <1>16, Zenon DEF ParsedBy
  <2>2. /\ Len(p.rest) = 3 /\ p.rest[1] = "network" /\ p.rest[2] = "credentials"
        /\ p.action = "_status"
    BY <2>1, StatusShape
  <2>3. /\ Len(q.rest) = 3 /\ q.rest[1] = "network" /\ q.rest[2] = "credentials"
        /\ q.action = "_status"
    BY <2>1, StatusShape
  <2>4. DOMAIN p.rest = 1..3
    BY <2>2
  <2>5. QED
    BY <1>3, <1>4, <1>5, <1>16, <2>2, <2>3, <2>4 DEF PathsAgree
<1>17. CASE e = "revoke"
  <2>1. /\ ParsedBy(e, p) = parseCredentialRevokeRoute(p)
        /\ ParsedBy(e, q) = parseCredentialRevokeRoute(q)
    BY <1>17, Zenon DEF ParsedBy
  <2>2. /\ Len(p.rest) = 3 /\ p.rest[1] = "network" /\ p.rest[2] = "credentials"
        /\ p.action = "_revoke"
    BY <2>1, RevokeShape
  <2>3. /\ Len(q.rest) = 3 /\ q.rest[1] = "network" /\ q.rest[2] = "credentials"
        /\ q.action = "_revoke"
    BY <2>1, RevokeShape
  <2>4. DOMAIN p.rest = 1..3
    BY <2>2
  <2>5. QED
    BY <1>3, <1>4, <1>5, <1>17, <2>2, <2>3, <2>4 DEF PathsAgree
<1>18. CASE e = "search"
  <2>1. /\ ParsedBy(e, p) = parseCredentialSearchRoute(p)
        /\ ParsedBy(e, q) = parseCredentialSearchRoute(q)
    BY <1>18, Zenon DEF ParsedBy
  <2>2. /\ Len(p.rest) = 3 /\ p.rest[1] = "network" /\ p.rest[2] = "credentials"
        /\ p.action = "_search"
    BY <2>1, SearchShape
  <2>3. /\ Len(q.rest) = 3 /\ q.rest[1] = "network" /\ q.rest[2] = "credentials"
        /\ q.action = "_search"
    BY <2>1, SearchShape
  <2>4. DOMAIN p.rest = 1..3
    BY <2>2
  <2>5. QED
    BY <1>3, <1>4, <1>5, <1>18, <2>2, <2>3, <2>4 DEF PathsAgree
<1>19. CASE e = "retrieve"
  <2>1. /\ ParsedBy(e, p) = parseCredentialRetrieveRoute(p)
        /\ ParsedBy(e, q) = parseCredentialRetrieveRoute(q)
    BY <1>19, Zenon DEF ParsedBy
  <2>2. /\ Len(p.rest) = 3 /\ p.rest[1] = "network" /\ p.rest[2] = "credentials"
        /\ p.action = "_retrieve"
    BY <2>1, RetrieveShape
  <2>3. /\ Len(q.rest) = 3 /\ q.rest[1] = "network" /\ q.rest[2] = "credentials"
        /\ q.action = "_retrieve"
    BY <2>1, RetrieveShape
  <2>4. DOMAIN p.rest = 1..3
    BY <2>2
  <2>5. QED
    BY <1>3, <1>4, <1>5, <1>19, <2>2, <2>3, <2>4 DEF PathsAgree
<1>20. QED
  BY <1>6, <1>7, <1>8, <1>9, <1>10, <1>11, <1>12, <1>13, <1>14, <1>15, <1>16, <1>17,
     <1>18, <1>19
     DEF AsyncEndpoints

\* The stores of different endpoints differ, but for that of backend authentication,
\* whose jobs are told apart by their section.
LEMMA StoresApart ==
    ASSUME NEW e \in AsyncEndpoints, NEW f \in AsyncEndpoints, StoreOf(e) = StoreOf(f),
           NEW a, NEW b, a.endpoint = f, b.endpoint = e, SameJob(e, a, b)
    PROVE  e = f
<1>1. CASE e \in {"controllerExchange", "apiKey", "identity"}
  BY <1>1 DEF SameJob, SameAuthRoute
<1>2. CASE e \notin {"controllerExchange", "apiKey", "identity"}
  BY <1>2 DEF StoreOf, AsyncEndpoints
<1>3. QED
  BY <1>1, <1>2

LEMMA ServedWithRoute ==
    ASSUME HttpInv, NEW r \in Requests, Serve(r)
    PROVE  AnswersStayWithRoute'
<1>1. PICK status \in Handle(r) : answer' = [request |-> r, status |-> status, by |-> By(r, status)]
  BY DEF Serve
<1>2. ASSUME By(r, status) # None PROVE PathsAgree(r.path, By(r, status))
  <2> DEFINE e == Endpoint(r.path)
             c == ParsedBy(e, r.path).context
  <2>1. r.path.response /\ status \in {200, 202}
    BY <1>2 DEF By
  <2>2. /\ e \in AsyncEndpoints /\ ParsedBy(e, r.path).kind = "route" /\ c.endpoint = e
        /\ \E j \in jobs : /\ SameJob(e, j.context, c) /\ j.store = StoreOf(e)
                           /\ By(r, status) = j.path
    BY <2>1, ToldOfAJob
  <2>3. PICK j \in jobs : /\ SameJob(e, j.context, c) /\ j.store = StoreOf(e)
                         /\ By(r, status) = j.path
    BY <2>2
  <2>4. JobFits(j) /\ j.store = StoreOf(j.context.endpoint)
    BY DEF HttpInv, HttpTypeOK
  <2>5. j.context.endpoint = e
    BY <2>2, <2>3, <2>4, StoresApart DEF JobFits
  <2>6. r.path.rest \in Seq(STRING)
    BY RequestPaths
  <2>7. PathsAgree(r.path, j.path)
    BY <2>2, <2>3, <2>4, <2>5, <2>6, OwnPathsAgree DEF JobFits
  <2>8. QED
    BY <2>3, <2>7
<1>3. QED
  BY <1>1, <1>2 DEF AnswersStayWithRoute, PathsAgree

LEMMA StayInv ==
    HttpInv /\ AnswersStayWithRoute /\ [HttpNext]_httpVars => AnswersStayWithRoute'
<1> SUFFICES ASSUME HttpInv, AnswersStayWithRoute, [HttpNext]_httpVars PROVE AnswersStayWithRoute'
  OBVIOUS
<1>1. ASSUME NEW r \in Followed, Serve(r) PROVE AnswersStayWithRoute'
  BY <1>1, FollowedAreRequests, ServedWithRoute
<1>2. ASSUME NEW r \in Followed, Accept(r) PROVE AnswersStayWithRoute'
  BY <1>2 DEF Accept, AnswersStayWithRoute
<1>3. CASE Take
  BY <1>3 DEF Take, AnswersStayWithRoute
<1>4. CASE UNCHANGED answer
  BY <1>4 DEF AnswersStayWithRoute, PathsAgree
<1>5. QED
  BY <1>1, <1>2, <1>3, <1>4 DEF HttpNext, End, HttpRestart, httpVars

\* A poll is told of a job only at the path the job was submitted to (sameRoute
\* of every response manager), but for letter case and aliases.
THEOREM AnswersKeepToRoute == HttpSpec => []AnswersStayWithRoute
<1>1. HttpInit => AnswersStayWithRoute
  BY DEF HttpInit, AnswersStayWithRoute
<1>2. QED
  BY <1>1, HttpInitInv, HttpNextInv, StayInv, PTL DEF HttpSpec

-----------------------------------------------------------------------------
(* The API answers as it documents itself.                                 *)

\* What an operation may be answered with: what the document says of it, and
\* what it is known to leave out.
Said(o) == o.statuses \cup LeftOut(o)

\* The document has room for every answer of the operation's handler.
Covers(o) ==
    /\ o.endpoint # "none" /\ o.method \in {"GET", "POST"}
    /\ o.endpoint \in FixedPaths \cup {"members"} =>
          /\ o.method = "GET" /\ 200 \in Said(o)
          /\ o.endpoint \in {"x509.der", "x509.pem", "organization-ca.pem", "member-did"} =>
                404 \in Said(o)
    /\ o.endpoint \in Parsers \cup {"rotate-credentials", "rotate-communications"} =>
          400 \in Said(o)
    /\ o.endpoint \in DidcommEndpoints =>
          /\ o.method = "POST"
          /\ IF o.response THEN PollStatuses \subseteq Said(o)
             ELSE {202, 400, 415} \subseteq Said(o) /\ o.media = {"didcomm"}
    /\ o.endpoint \in {"search", "retrieve"} =>
          IF o.method = "GET" THEN ~o.response /\ {200, 400, 404} \subseteq Said(o)
          ELSE IF o.response THEN PollStatuses \subseteq Said(o)
          ELSE {202, 400, 415} \subseteq Said(o) /\ o.media \subseteq {"didcomm", "form", "json"}
    /\ o.endpoint = "search" => o.method = "POST"
    /\ o.endpoint \in AuthEndpoints =>
          /\ o.method = "POST"
          /\ IF o.response THEN PollStatuses \subseteq Said(o)
             ELSE /\ {202, 400, 401, 415} \subseteq Said(o)
                  /\ o.endpoint # "apiKey" => o.media = {"didcomm"}
    /\ o.endpoint \in {"rotate-credentials", "rotate-communications"} =>
          /\ o.method = "POST"
          /\ IF o.response THEN 501 \in Said(o)
             ELSE {202, 400, 415} \subseteq Said(o) /\ o.media = {"didcomm"}
    /\ o.endpoint = "spaces" =>
          o.method = "POST" /\ {200, 400, 415} \subseteq Said(o) /\ o.media = {"didcomm"}
    /\ o.endpoint \in {"dcatRequest", "ddoRequest"} =>
          o.method = "POST" /\ {200, 400, 415} \subseteq Said(o) /\ o.media = {"json"}
    /\ o.endpoint \in {"dcatDataset", "ddoDataset"} =>
          o.method = "GET" /\ {200, 404} \subseteq Said(o)

LEMMA NoActionCovers ==
    ASSUME NEW action
    PROVE  /\ Covers(Get("ica-configuration", action, {200}))
           /\ Covers(Get("well-known-did", action, {200}))
           /\ Covers(Get("did", action, {200}))
           /\ Covers(Get("jwks", action, {200}))
           /\ Covers(Get("x509.pem", action, {200, 404}))
           /\ Covers(Get("x509.der", action, {200, 404}))
           /\ Covers(Get("dspace-version", action, {200}))
           /\ Covers(Get("discovery-catalog", action, {200}))
           /\ Covers(Get("member-did", action, {200, 404}))
           /\ Covers(Post("dcatRequest", action, {"json"}, {200, 400, 415}))
           /\ Covers(Get("dcatDataset", action, {200, 404}))
           /\ Covers(Post("ddoRequest", action, {"json"}, {200, 400, 415}))
           /\ Covers(Get("ddoDataset", action, {200, 404}))
<1> USE DEF Covers, Said, LeftOut, FixedPaths, DidcommEndpoints, AuthEndpoints, PollStatuses,
        Parsers, Operation, Get, Post, PostResponse
<1>1. Covers(Get("ica-configuration", action, {200}))
  OBVIOUS
<1>2. Covers(Get("well-known-did", action, {200}))
  OBVIOUS
<1>3. Covers(Get("did", action, {200}))
  OBVIOUS
<1>4. Covers(Get("jwks", action, {200}))
  OBVIOUS
<1>5. Covers(Get("x509.pem", action, {200, 404}))
  OBVIOUS
<1>6. Covers(Get("x509.der", action, {200, 404}))
  OBVIOUS
<1>7. Covers(Get("dspace-version", action, {200}))
  OBVIOUS
<1>8. Covers(Get("discovery-catalog", action, {200}))
  OBVIOUS
<1>9. Covers(Get("member-did", action, {200, 404}))
  OBVIOUS
<1>10. Covers(Post("dcatRequest", action, {"json"}, {200, 400, 415}))
  OBVIOUS
<1>11. Covers(Get("dcatDataset", action, {200, 404}))
  OBVIOUS
<1>12. Covers(Post("ddoRequest", action, {"json"}, {200, 400, 415}))
  OBVIOUS
<1>13. Covers(Get("ddoDataset", action, {200, 404}))
  OBVIOUS
<1> HIDE DEF Covers, Said, LeftOut, FixedPaths, DidcommEndpoints, AuthEndpoints, PollStatuses,
        Parsers, Operation, Get, Post, PostResponse
<1> QED
  BY <1>1, <1>2, <1>3, <1>4, <1>5, <1>6, <1>7, <1>8, <1>9, <1>10, <1>11, <1>12,
     <1>13

LEMMA DocumentCovers == \A o \in Operations : Covers(o)
<1>1. Covers(IcaConfigurationDoc)
  <2>1. IcaConfigurationDoc = Get("ica-configuration", "", {200})
    BY Zenon DEF IcaConfigurationDoc
  <2>2. \A action : Covers(Get("ica-configuration", action, {200}))
    BY NoActionCovers
  <2>3. QED
    BY <2>1, <2>2, Zenon
<1>2. Covers(WellKnownDidDoc)
  <2>1. WellKnownDidDoc = Get("well-known-did", "", {200})
    BY Zenon DEF WellKnownDidDoc
  <2>2. \A action : Covers(Get("well-known-did", action, {200}))
    BY NoActionCovers
  <2>3. QED
    BY <2>1, <2>2, Zenon
<1>3. Covers(DidDoc)
  <2>1. DidDoc = Get("did", "", {200})
    BY Zenon DEF DidDoc
  <2>2. \A action : Covers(Get("did", action, {200}))
    BY NoActionCovers
  <2>3. QED
    BY <2>1, <2>2, Zenon
<1>4. Covers(JwksDoc)
  <2>1. JwksDoc = Get("jwks", "", {200})
    BY Zenon DEF JwksDoc
  <2>2. \A action : Covers(Get("jwks", action, {200}))
    BY NoActionCovers
  <2>3. QED
    BY <2>1, <2>2, Zenon
<1>5. Covers(X509PemDoc)
  <2>1. X509PemDoc = Get("x509.pem", "", {200, 404})
    BY Zenon DEF X509PemDoc
  <2>2. \A action : Covers(Get("x509.pem", action, {200, 404}))
    BY NoActionCovers
  <2>3. QED
    BY <2>1, <2>2, Zenon
<1>6. Covers(X509DerDoc)
  <2>1. X509DerDoc = Get("x509.der", "", {200, 404})
    BY Zenon DEF X509DerDoc
  <2>2. \A action : Covers(Get("x509.der", action, {200, 404}))
    BY NoActionCovers
  <2>3. QED
    BY <2>1, <2>2, Zenon
<1>7. Covers(DspaceVersionDoc)
  <2>1. DspaceVersionDoc = Get("dspace-version", "", {200})
    BY Zenon DEF DspaceVersionDoc
  <2>2. \A action : Covers(Get("dspace-version", action, {200}))
    BY NoActionCovers
  <2>3. QED
    BY <2>1, <2>2, Zenon
<1>8. Covers(DiscoveryCatalogDoc)
  <2>1. DiscoveryCatalogDoc = Get("discovery-catalog", "", {200})
    BY Zenon DEF DiscoveryCatalogDoc
  <2>2. \A action : Covers(Get("discovery-catalog", action, {200}))
    BY NoActionCovers
  <2>3. QED
    BY <2>1, <2>2, Zenon
<1>9. Covers(MemberDidDoc)
  <2>1. MemberDidDoc = Get("member-did", "", {200, 404})
    BY Zenon DEF MemberDidDoc
  <2>2. \A action : Covers(Get("member-did", action, {200, 404}))
    BY NoActionCovers
  <2>3. QED
    BY <2>1, <2>2, Zenon
<1>10. Covers(CatalogRequestDoc)
  <2>1. CatalogRequestDoc = Post("dcatRequest", "", {"json"}, {200, 400, 415})
    BY Zenon DEF CatalogRequestDoc
  <2>2. \A action : Covers(Post("dcatRequest", action, {"json"}, {200, 400, 415}))
    BY NoActionCovers
  <2>3. QED
    BY <2>1, <2>2, Zenon
<1>11. Covers(CatalogDatasetDoc)
  <2>1. CatalogDatasetDoc = Get("dcatDataset", "", {200, 404})
    BY Zenon DEF CatalogDatasetDoc
  <2>2. \A action : Covers(Get("dcatDataset", action, {200, 404}))
    BY NoActionCovers
  <2>3. QED
    BY <2>1, <2>2, Zenon
<1>12. Covers(DdoRequestDoc)
  <2>1. DdoRequestDoc = Post("ddoRequest", "", {"json"}, {200, 400, 415})
    BY Zenon DEF DdoRequestDoc
  <2>2. \A action : Covers(Post("ddoRequest", action, {"json"}, {200, 400, 415}))
    BY NoActionCovers
  <2>3. QED
    BY <2>1, <2>2, Zenon
<1>13. Covers(DdoDatasetDoc)
  <2>1. DdoDatasetDoc = Get("ddoDataset", "", {200, 404})
    BY Zenon DEF DdoDatasetDoc
  <2>2. \A action : Covers(Get("ddoDataset", action, {200, 404}))
    BY NoActionCovers
  <2>3. QED
    BY <2>1, <2>2, Zenon
<1> USE DEF Covers, Said, LeftOut, FixedPaths, DidcommEndpoints, AuthEndpoints, PollStatuses,
        Parsers, Operation, Get, Post, PostResponse
<1>14. Covers(ControllerExchangeDoc)
  BY DEF ControllerExchangeDoc
<1>15. Covers(ControllerExchangeResponseDoc)
  BY DEF ControllerExchangeResponseDoc
<1>16. Covers(ApiKeyCreateDoc)
  BY DEF ApiKeyCreateDoc
<1>17. Covers(ApiKeyCreateResponseDoc)
  BY DEF ApiKeyCreateResponseDoc
<1>18. Covers(ApiKeyDisableDoc)
  BY DEF ApiKeyDisableDoc
<1>19. Covers(ApiKeyDisableResponseDoc)
  BY DEF ApiKeyDisableResponseDoc
<1>20. Covers(ApiKeyRemoveDoc)
  BY DEF ApiKeyRemoveDoc
<1>21. Covers(ApiKeyRemoveResponseDoc)
  BY DEF ApiKeyRemoveResponseDoc
<1>22. Covers(ApiKeySearchDoc)
  BY DEF ApiKeySearchDoc
<1>23. Covers(ApiKeySearchResponseDoc)
  BY DEF ApiKeySearchResponseDoc
<1>24. Covers(IdentityDcrDoc)
  BY DEF IdentityDcrDoc
<1>25. Covers(IdentityDcrResponseDoc)
  BY DEF IdentityDcrResponseDoc
<1>26. Covers(IdentityCodeDoc)
  BY DEF IdentityCodeDoc
<1>27. Covers(IdentityCodeResponseDoc)
  BY DEF IdentityCodeResponseDoc
<1>28. Covers(IdentityTokenDoc)
  BY DEF IdentityTokenDoc
<1>29. Covers(IdentityTokenResponseDoc)
  BY DEF IdentityTokenResponseDoc
<1>30. Covers(IdentityExchangeDoc)
  BY DEF IdentityExchangeDoc
<1>31. Covers(IdentityExchangeResponseDoc)
  BY DEF IdentityExchangeResponseDoc
<1>32. Covers(CreateDidDoc)
  BY DEF CreateDidDoc
<1>33. Covers(CreateDidResponseDoc)
  BY DEF CreateDidResponseDoc
<1>34. Covers(ActivateDoc)
  BY DEF ActivateDoc
<1>35. Covers(AddEvidenceDoc)
  BY DEF AddEvidenceDoc
<1>36. Covers(DelegationDoc)
  BY DEF DelegationDoc
<1>37. Covers(MembersDiscoverDoc)
  BY DEF MembersDiscoverDoc
<1>38. Covers(IssueDoc)
  BY DEF IssueDoc
<1>39. Covers(StatusDoc)
  BY DEF StatusDoc
<1>40. Covers(RevokeDoc)
  BY DEF RevokeDoc
<1>41. Covers(SearchDoc)
  BY DEF SearchDoc
<1>42. Covers(RetrieveDoc)
  BY DEF RetrieveDoc
<1>43. Covers(RetrieveDirectDoc)
  BY DEF RetrieveDirectDoc
<1>44. Covers(SpacesListDoc)
  BY DEF SpacesListDoc
<1>45. Covers(SpacesReplaceDoc)
  BY DEF SpacesReplaceDoc
<1>46. Covers(VerifyDoc)
  BY DEF VerifyDoc
<1>47. Covers(RemoveDoc)
  BY DEF RemoveDoc
<1>48. Covers(ActivateResponseDoc)
  BY DEF ActivateResponseDoc
<1>49. Covers(AddEvidenceResponseDoc)
  BY DEF AddEvidenceResponseDoc
<1>50. Covers(DelegationResponseDoc)
  BY DEF DelegationResponseDoc
<1>51. Covers(IssueResponseDoc)
  BY DEF IssueResponseDoc
<1>52. Covers(StatusResponseDoc)
  BY DEF StatusResponseDoc
<1>53. Covers(RevokeResponseDoc)
  BY DEF RevokeResponseDoc
<1>54. Covers(RemoveResponseDoc)
  BY DEF RemoveResponseDoc
<1>55. Covers(SearchResponseDoc)
  BY DEF SearchResponseDoc
<1>56. Covers(RetrieveResponseDoc)
  BY DEF RetrieveResponseDoc
<1>57. Covers(RotateCredentialsDoc)
  BY DEF RotateCredentialsDoc
<1>58. Covers(RotateCredentialsResponseDoc)
  BY DEF RotateCredentialsResponseDoc
<1>59. Covers(RotateCommunicationsDoc)
  BY DEF RotateCommunicationsDoc
<1>60. Covers(RotateCommunicationsResponseDoc)
  BY DEF RotateCommunicationsResponseDoc
<1>61. Covers(VerifyResponseDoc)
  BY DEF VerifyResponseDoc
<1> HIDE DEF Covers, Said, LeftOut, FixedPaths, DidcommEndpoints, AuthEndpoints, PollStatuses,
        Parsers, Operation, Get, Post, PostResponse
<1> QED
  BY <1>1, <1>2, <1>3, <1>4, <1>5, <1>6, <1>7, <1>8, <1>9, <1>10, <1>11, <1>12,
     <1>13, <1>14, <1>15, <1>16, <1>17, <1>18, <1>19, <1>20, <1>21, <1>22, <1>23, <1>24,
     <1>25, <1>26, <1>27, <1>28, <1>29, <1>30, <1>31, <1>32, <1>33, <1>34, <1>35, <1>36,
     <1>37, <1>38, <1>39, <1>40, <1>41, <1>42, <1>43, <1>44, <1>45, <1>46, <1>47, <1>48,
     <1>49, <1>50, <1>51, <1>52, <1>53, <1>54, <1>55, <1>56, <1>57, <1>58, <1>59, <1>60,
     <1>61
     DEF Operations

\* An answer is as its operation is documented.
AsDocumented(o, r, status) ==
    /\ status \in Said(o)
    /\ status = 415 =>
          \/ r.message.encoded
          \/ r.message.media \notin o.media
          \/ r.message.media # "didcomm" /\ ~LegacySearch

\* An API key's submission has no type to be refused for.
LEMMA ApiKeyAnswers ==
    ASSUME NEW r, NEW c, c.endpoint = "apiKey", 415 \in HandleRoute(r, c)
    PROVE  FALSE
<1>1. HandleRoute(r, c) = PostOnly(r, IF c.response THEN PollBackendAuth(r, c)
                                      ELSE SubmitBackendAuth(r, c))
  BY Handler DEF HandleApiKey
<1>2. 415 \notin PollBackendAuth(r, c)
  BY PollAnswers DEF PollBackendAuth, PollStatuses
<1>3. 415 \notin SubmitBackendAuth(r, c)
  BY DEF SubmitBackendAuth, parseJsonBody, Fine
<1>4. QED
  BY <1>1, <1>2, <1>3 DEF PostOnly

LEMMA RoutedAsDocumented ==
    ASSUME NEW r, NEW c, NEW e \in Parsers, c.endpoint = e, NEW status \in HandleRoute(r, c),
           NEW o \in Operations, o.endpoint = OperationAt(r.path, e), o.response = c.response,
           o.method = r.method
    PROVE  AsDocumented(o, r, status)
<1>1. Covers(o)
  BY DocumentCovers
<1>2. e # "rotate" => o.endpoint = e
  BY DEF OperationAt
<1>3. CASE e \in DidcommEndpoints
  <2>1. PostAnswer(r, c, status, DidcommSubmission)
    BY <1>3, DidcommAnswers
  <2>2. /\ o.method = "POST"
        /\ IF o.response THEN PollStatuses \subseteq Said(o)
           ELSE {202, 400, 415} \subseteq Said(o) /\ o.media = {"didcomm"}
    BY <1>1, <1>2, <1>3 DEF Covers, DidcommEndpoints
  <2>3. QED
    BY <2>1, <2>2 DEF PostAnswer, DidcommSubmission, AsDocumented, PollStatuses
<1>4. CASE e = "search"
  <2>1. PostAnswer(r, c, status, SearchSubmission)
    BY <1>4, SearchAnswers
  <2>2. /\ o.method = "POST"
        /\ IF o.response THEN PollStatuses \subseteq Said(o)
           ELSE {202, 400, 415} \subseteq Said(o) /\ o.media \subseteq {"didcomm", "form", "json"}
    BY <1>1, <1>2, <1>4 DEF Covers
  <2>3. QED
    BY <2>1, <2>2 DEF PostAnswer, SearchSubmission, SearchRefusal, AsDocumented, PollStatuses
<1>5. CASE e = "retrieve"
  <2>1. \/ r.method = "GET" /\ ~c.response /\ status \in {200, 400, 404}
        \/ PostAnswer(r, c, status, SearchSubmission)
    BY <1>5, RetrieveAnswers
  <2>2. /\ o.method \in {"GET", "POST"}
        /\ IF o.method = "GET" THEN ~o.response /\ {200, 400, 404} \subseteq Said(o)
           ELSE IF o.response THEN PollStatuses \subseteq Said(o)
           ELSE {202, 400, 415} \subseteq Said(o) /\ o.media \subseteq {"didcomm", "form", "json"}
    BY <1>1, <1>2, <1>5 DEF Covers
  <2>3. CASE r.method = "GET" /\ ~c.response /\ status \in {200, 400, 404}
    BY <2>2, <2>3 DEF AsDocumented
  <2>4. CASE PostAnswer(r, c, status, SearchSubmission) /\ r.method = "POST"
    BY <2>2, <2>4 DEF PostAnswer, SearchSubmission, SearchRefusal, AsDocumented, PollStatuses
  <2>5. r.method = "GET" => status # 405
    BY <1>5, <2>2, Handler DEF HandleRetrieve, retrieveDirect
  <2>6. QED
    BY <2>1, <2>2, <2>3, <2>4, <2>5 DEF PostAnswer
<1>6. CASE e \in AuthEndpoints
  <2>1. PostAnswer(r, c, status, AuthSubmission)
    BY <1>6, AuthAnswers
  <2>2. /\ o.method = "POST"
        /\ IF o.response THEN PollStatuses \subseteq Said(o)
           ELSE /\ {202, 400, 401, 415} \subseteq Said(o)
                /\ e # "apiKey" => o.media = {"didcomm"}
    BY <1>1, <1>2, <1>6 DEF Covers, AuthEndpoints
  <2>3. e = "apiKey" => status # 415
    BY ApiKeyAnswers
  <2>4. QED
    BY <2>1, <2>2, <2>3 DEF PostAnswer, AuthSubmission, AsDocumented, PollStatuses
<1>7. CASE e = "rotate"
  <2>1. o.endpoint \in {"rotate-credentials", "rotate-communications"}
    BY <1>7 DEF OperationAt
  <2>2. /\ o.method = "POST"
        /\ IF o.response THEN 501 \in Said(o)
           ELSE {202, 400, 415} \subseteq Said(o) /\ o.media = {"didcomm"}
    BY <1>1, <2>1 DEF Covers
  <2>3. \/ r.method # "POST" /\ status = 405
        \/ r.method = "POST" /\ c.response /\ status = 501
        \/ r.method = "POST" /\ ~c.response /\ DidcommSubmission(r, status)
    BY <1>7, RotateAnswers
  <2>4. QED
    BY <2>2, <2>3 DEF DidcommSubmission, AsDocumented
<1>8. CASE e = "spaces"
  <2>1. o.method = "POST" /\ {200, 400, 415} \subseteq Said(o) /\ o.media = {"didcomm"}
    BY <1>1, <1>2, <1>8 DEF Covers
  <2>2. \/ r.method # "POST" /\ status = 405
        \/ /\ r.method = "POST" /\ status \in {200, 400, 415}
           /\ status = 415 => r.message.encoded \/ r.message.media # "didcomm"
    BY <1>8, SpacesAnswers
  <2>3. QED
    BY <2>1, <2>2 DEF AsDocumented
<1>9. CASE e \in {"dcatRequest", "ddoRequest"}
  <2>1. o.method = "POST" /\ {200, 400, 415} \subseteq Said(o) /\ o.media = {"json"}
    BY <1>1, <1>2, <1>9 DEF Covers
  <2>2. \/ r.method # "POST" /\ status = 405
        \/ /\ r.method = "POST" /\ status \in {200, 400, 415}
           /\ status = 415 => r.message.media # "json"
    BY <1>9, FilterAnswers
  <2>3. QED
    BY <2>1, <2>2 DEF AsDocumented
<1>10. CASE e \in {"dcatDataset", "ddoDataset"}
  <2>1. o.method = "GET" /\ {200, 404} \subseteq Said(o)
    BY <1>1, <1>2, <1>10 DEF Covers
  <2>2. IF r.method = "GET" THEN status \in {200, 404} ELSE status = 405
    BY <1>10, DatasetAnswers
  <2>3. QED
    BY <2>1, <2>2 DEF AsDocumented
<1>11. QED
  BY <1>3, <1>4, <1>5, <1>6, <1>7, <1>8, <1>9, <1>10 DEF Parsers, DidcommEndpoints, AuthEndpoints

LEMMA AnsweredAsDocumented ==
    ASSUME NEW r, NEW status \in Handle(r),
           NEW o \in Documented(OperationAt(r.path, Endpoint(r.path)), r.path.action,
                                r.path.response, r.method)
    PROVE  AsDocumented(o, r, status)
<1> DEFINE e == Endpoint(r.path)
           c == ParsedBy(e, r.path).context
<1>1. /\ o \in Operations /\ o.endpoint = OperationAt(r.path, e) /\ o.response = r.path.response
      /\ o.method = r.method
  BY DEF Documented
<1>2. Covers(o)
  BY <1>1, DocumentCovers
<1>3. o.endpoint # "none" /\ r.method \in {"GET", "POST"}
  BY <1>1, <1>2 DEF Covers
<1>4. CASE e = "none"
  BY <1>1, <1>3, <1>4 DEF OperationAt
<1>5. CASE e \in FixedPaths \cup {"members"} /\ status \in HandleFixed(r, e)
  <2>1. e # "rotate"
    BY <1>5, FixedAreNotParsers DEF Parsers
  <2>2. o.endpoint = e
    BY <1>1, <2>1 DEF OperationAt
  <2>3. /\ o.method = "GET" /\ 200 \in Said(o)
        /\ e \in {"x509.der", "x509.pem", "organization-ca.pem", "member-did"} => 404 \in Said(o)
    BY <1>2, <1>5, <2>2 DEF Covers
  <2>4. \/ r.method # "GET" /\ status = 405
        \/ r.method = "GET" /\ status = 200
        \/ /\ r.method = "GET" /\ status = 404
           /\ e \in {"x509.der", "x509.pem", "organization-ca.pem", "member-did"}
    BY <1>5, FixedAnswers
  <2>5. QED
    BY <1>1, <2>3, <2>4 DEF AsDocumented
<1>6. CASE e \in Parsers /\ status = 400
  <2>1. o.endpoint \in Parsers \cup {"rotate-credentials", "rotate-communications"}
    BY <1>1, <1>6 DEF OperationAt
  <2>2. QED
    BY <1>2, <1>6, <2>1 DEF Covers, AsDocumented
<1>7. CASE e \in Parsers /\ ParsedBy(e, r.path).kind = "route" /\ status \in HandleRoute(r, c)
  <2>1. c.endpoint = e /\ c.response = r.path.response
    BY <1>7, RouteContext DEF ContextOf
  <2>2. QED
    BY <1>1, <1>7, <2>1, RoutedAsDocumented
<1>8. QED
  BY <1>3, <1>4, <1>5, <1>6, <1>7, HandleCases

LEMMA DocumentInv ==
    HttpInv /\ AnswersAsDocumented /\ [HttpNext]_httpVars => AnswersAsDocumented'
<1> SUFFICES ASSUME HttpInv, AnswersAsDocumented, [HttpNext]_httpVars PROVE AnswersAsDocumented'
  OBVIOUS
<1>1. ASSUME NEW r, NEW status \in Handle(r),
             answer'.request = r, answer'.status = status
      PROVE  AnswersAsDocumented'
  BY <1>1, AnsweredAsDocumented DEF AnswersAsDocumented, AsDocumented, Said
<1>2. ASSUME NEW r \in Followed, Serve(r) PROVE AnswersAsDocumented'
  <2>1. PICK status \in Handle(r) :
            answer' = [request |-> r, status |-> status, by |-> By(r, status)]
    BY <1>2 DEF Serve
  <2>2. QED
    BY <1>1, <2>1
<1>3. ASSUME NEW r \in Followed, Accept(r) PROVE AnswersAsDocumented'
  <2>1. 202 \in Handle(r) /\ answer' = [request |-> r, status |-> 202, by |-> None]
    BY <1>3 DEF Accept
  <2>2. QED
    BY <1>1, <2>1
<1>4. CASE Take
  BY <1>4 DEF Take, AnswersAsDocumented
<1>5. CASE UNCHANGED answer
  BY <1>5 DEF AnswersAsDocumented
<1>6. QED
  BY <1>2, <1>3, <1>4, <1>5 DEF HttpNext, End, HttpRestart, httpVars

\* Every answer of an operation of the OpenAPI document (openapi.ts) is one the
\* document names, up to what LeftOut lists, and a media type the document names
\* is not the reason of a 415.
THEOREM DocumentIsKept == HttpSpec => []AnswersAsDocumented
<1>1. HttpInit => AnswersAsDocumented
  BY DEF HttpInit, AnswersAsDocumented
<1>2. QED
  BY <1>1, HttpInitInv, HttpNextInv, DocumentInv, PTL DEF HttpSpec

=============================================================================
