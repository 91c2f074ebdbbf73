------------------------------ MODULE MCHttpApi ------------------------------
(* The API on every path template, spelled in several ways, and on messages *)
(* that differ in what the parsers tell apart.                              *)
EXTENDS HttpApi, TLC

\* [rest, action], for every expression of a path; names that one family has
\* fixed stand where another has a parameter.
Templates ==
    {[rest |-> <<pdf[1], "pdf", pdf[2]>>, action |-> action] :
        pdf \in {<<"terms", "contract">>, <<"test", "contract">>, <<"network", "contract">>,
                 <<"test", "test-1">>, <<"network", "junk">>},
        action \in {"_verify", "_remove"}}
    \cup {[rest |-> <<"entity", "keys", name>>, action |-> action] :
            name \in {"credentials", "communications"}, action \in {"_activate", "_rotate"}}
    \cup {[rest |-> <<"entity", "did", "document">>, action |-> "_create"],
          [rest |-> <<"network", "policies", "delegations">>, action |-> "_upsert"],
          [rest |-> <<"organization", "dataspace", "auth">>, action |-> "_exchange"],
          [rest |-> <<"network", "pdf", "credentials">>, action |-> "_issue"],
          [rest |-> <<"network", "members">>, action |-> "_discover"]}
    \cup {[rest |-> <<"network", "evidence", type>>, action |-> "_add"] : type \in {"vc", "pdf"}}
    \cup {[rest |-> <<"network", "credentials", type>>, action |-> action] :
            type \in {"license", "delegations"},
            action \in {"_issue", "_status", "_revoke", "_search", "_retrieve"}}
    \cup {[rest |-> <<"network", "spaces">>, action |-> action] : action \in {"_list", "_replace"}}
    \cup {[rest |-> <<"api-key", "org.schema", "action">>, action |-> action] :
            action \in {"_create", "_disable", "_remove", "_search"}}
    \cup {[rest |-> <<"identity", "auth">>, action |-> action] :
            action \in {"_dcr", "_code", "_token", "_exchange"}}
    \cup {[rest |-> rest, action |-> ""] :
            rest \in {<<"dcat3", "catalog", "request">>, <<"dcat3", "catalog", "datasets", "request">>,
                      <<"dcat3", "catalog", "ddo", "request">>,
                      <<"dcat3", "catalog", "ddo", "datasets", "d1">>}}

Path(t, tenant, jurisdiction, sector, response, upper) ==
    [tenant |-> tenant, jurisdiction |-> jurisdiction, sector |-> sector, rest |-> t.rest,
     action |-> t.action, response |-> response, upper |-> upper]

Fixed ==
    {Path([rest |-> <<name>>, action |-> ""], "", "", "", FALSE, {}) :
        name \in FixedPaths \cup {"member-did", "nothing"}}

\* Only an action has a response.
Responses(t) == IF t.action = "" THEN {FALSE} ELSE BOOLEAN

Canonical ==
    UNION {{Path(t, "ica", "es", "health", response, {}) : response \in Responses(t)} : t \in Templates}

Spelled ==
    {[p EXCEPT !.upper = upper] : p \in Canonical,
        upper \in {{"tenant"}, {"jurisdiction", "sector", "parameter"},
                   {"tenant", "jurisdiction", "sector", "parameter"}}}

\* Another scope, supported or not.
Elsewhere ==
    {[p EXCEPT !.tenant = s[1], !.jurisdiction = s[2], !.sector = s[3]] : p \in Canonical,
        s \in {<<"ica", "fr", "health">>, <<"ica", "es", "energy">>, <<"other", "es", "health">>,
               <<"ica", "xx", "health">>, <<"ica", "es", "games">>}}

NoIds == [thid |-> NoId, id |-> NoId, jti |-> NoId]
T1 == [NoIds EXCEPT !.thid = "t1"]

Complete ==
    [media |-> "didcomm", encoded |-> FALSE, text |-> "object", top |-> T1, body |-> NoIds,
     query |-> NoIds, inner |-> "full", outer |-> "absent", direct |-> TRUE, params |-> TRUE,
     attached |-> "none"]

\* One difference at a time, and a few together.
Messages ==
    {[Complete EXCEPT !.media = x] :
        x \in {"didcommLegacy", "encrypted", "json", "form", "multipart", "none", "other"}}
    \cup {[Complete EXCEPT !.media = x, !.params = FALSE] : x \in {"json", "form", "none"}}
    \cup {[Complete EXCEPT !.media = x, !.text = "broken"] : x \in {"json", "didcomm"}}
    \cup {[Complete EXCEPT !.encoded = TRUE], [Complete EXCEPT !.text = "empty"],
          [Complete EXCEPT !.attached = "valid", !.inner = "absent", !.direct = FALSE],
          [Complete EXCEPT !.attached = "invalid"]}
    \cup {[Complete EXCEPT !.inner = x, !.outer = y, !.direct = z] :
            x \in {"absent", "empty", "bare"}, y \in {"absent", "full", "bare"}, z \in BOOLEAN}
    \cup {[Complete EXCEPT !.top = x, !.body = y, !.query = z] :
            x \in {NoIds, [NoIds EXCEPT !.thid = AutoId], [NoIds EXCEPT !.id = "t1", !.jti = "t2"],
                   [NoIds EXCEPT !.jti = AutoId]},
            y \in {NoIds, [NoIds EXCEPT !.thid = "t2"]},
            z \in {NoIds, [NoIds EXCEPT !.jti = "t1"]}}

\* What a poll looks at: its transport, and its ids but for those of the body.
Polls ==
    {m \in Messages : /\ m.inner = "full" /\ m.attached = "none" /\ m.params /\ ~m.encoded
                      /\ m.body = NoIds}

Request(path, method, message, bearer, checks) ==
    [path |-> path, method |-> method, message |-> message, bearer |-> bearer, checks |-> checks]

AllRequests ==
    {Request(p, method, Complete, TRUE, TRUE) :
        p \in Fixed \cup Canonical \cup Spelled \cup Elsewhere, method \in {"GET", "POST"}}
    \cup {Request(p, "POST", m, TRUE, TRUE) : p \in {q \in Canonical : ~q.response}, m \in Messages}
    \cup {Request(p, "POST", m, TRUE, TRUE) : p \in {q \in Canonical : q.response}, m \in Polls}
    \cup {Request(p, "POST", Complete, bearer, checks) :
            p \in {q \in Canonical : ~q.response}, bearer \in BOOLEAN, checks \in BOOLEAN}
    \cup {Request(p, "OPTIONS", Complete, FALSE, FALSE) : p \in Fixed}

=============================================================================
