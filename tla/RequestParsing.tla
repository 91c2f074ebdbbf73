---------------------------- MODULE RequestParsing ----------------------------
(***************************************************************************)
(* What the API reads out of a request: whether the transport is accepted,  *)
(* whether the message has what its action requires, and the thread id its  *)
(* job is kept under.  A parser is the status it refuses a message with, or *)
(* Fine.                                                                    *)
(*                                                                          *)
(* A message is a record:                                                   *)
(*   media, encoded    its Content-Type, and whether Content-Encoding names *)
(*                     another coding than identity                         *)
(*   text              "empty", "broken" (not JSON) or "object"             *)
(*   top, body, query  the thread id fields of the envelope, of its body    *)
(*                     and of the URL, each [thid, id, jti]                 *)
(*   inner, outer      data[] of the body and of the envelope: "absent",    *)
(*                     "empty", "full" (each entry is complete) or "bare"   *)
(*                     (an entry lacks what the action requires)            *)
(*   direct            the envelope or body itself holds what is required   *)
(*   params            the URL holds a search filter                        *)
(*   attached          the PDF or the vc+jwt attachments: "none", "valid"   *)
(*                     or "invalid"                                         *)
(***************************************************************************)
EXTENDS Naturals

CONSTANTS
    NoId,               \* a thread id field that is absent
    AutoId,             \* thid-auto and req-auto
    Generated,          \* a thread id made by the server
    LegacyDidcomm,      \* ICA_ALLOW_LEGACY_DIDCOMM_PLAINTEXT_MEDIA_TYPE
    LegacySearch        \* SECURITY_MODE is not strict and JSON_LEGACY is on

ASSUME ParsingAssumption ==
    /\ NoId # AutoId /\ NoId # Generated /\ AutoId # Generated
    /\ LegacyDidcomm \in BOOLEAN /\ LegacySearch \in BOOLEAN

Fine == 0

-----------------------------------------------------------------------------
(* Thread ids.                                                             *)

\* thid comes before id, and id before jti.
FirstId(ids) ==
    IF ids.thid # NoId THEN ids.thid ELSE IF ids.id # NoId THEN ids.id ELSE ids.jti

\* The field of the one, or else of the other.
OrElse(a, b) == [f \in {"thid", "id", "jti"} |-> IF a[f] # NoId THEN a[f] ELSE b[f]]

\* The auto tokens count in thid and in jti, not in id.
extractThid(ids) ==
    IF FirstId(ids) = NoId \/ ids.thid = AutoId \/ (ids.thid = NoId /\ ids.id = NoId /\ ids.jti = AutoId)
    THEN Generated
    ELSE FirstId(ids)

\* Every DIDComm parser: field by field, the envelope's or else the body's.
DidcommThid(m) == extractThid(OrElse(m.top, m.body))

\* The older transports of a search: field by field, the text's or the URL's.
SearchThid(m) ==
    CASE m.media \in {"didcomm", "didcommLegacy"} -> DidcommThid(m)
      [] m.media = "none" -> extractThid(m.query)
      [] OTHER -> extractThid(OrElse(m.top, m.query))

\* Backend authentication takes an auto token as it stands.
extractThreadId(m) ==
    LET ids == OrElse(m.top, m.body)
    IN  IF FirstId(ids) = NoId THEN Generated ELSE FirstId(ids)

\* A poll looks at the URL, and then at the top of the message only; an
\* auto token is a thread id like any other here.
parsePollingThreadId(m) ==
    IF FirstId(m.query) # NoId THEN FirstId(m.query)
    ELSE IF \/ m.media \in {"multipart", "form", "json", "didcomm", "none"}
            \/ m.media = "didcommLegacy" /\ LegacyDidcomm
         THEN IF m.text = "object" THEN FirstId(m.top) ELSE NoId
         ELSE NoId

-----------------------------------------------------------------------------
(* Transport.                                                              *)

isAcceptedDidcommPlainContentType(media) ==
    media = "didcomm" \/ (media = "didcommLegacy" /\ LegacyDidcomm)

\* parseDidcommPlainObject, and the same checks where _verify and _activate
\* make them themselves.
parseDidcommPlainObject(m) ==
    IF m.encoded THEN 415
    ELSE IF m.text = "empty" THEN 400
    ELSE IF ~isAcceptedDidcommPlainContentType(m.media) THEN 415
    ELSE IF m.text = "broken" THEN 400
    ELSE Fine

\* The same of backend authentication: the type before the length, and no
\* older media type.
parseDidcommPlainPayload(m) ==
    IF m.encoded \/ m.media # "didcomm" THEN 415
    ELSE IF m.text # "object" THEN 400
    ELSE Fine

\* API keys: any type, and an empty text is an empty object.
parseJsonBody(m) == IF m.text = "broken" THEN 400 ELSE Fine

\* The catalog's filters: no type or JSON, and an empty text is an empty object.
parseJsonObjectBody(m) ==
    IF m.media \notin {"none", "json"} THEN 415 ELSE IF m.text = "broken" THEN 400 ELSE Fine

-----------------------------------------------------------------------------
(* What an action requires.                                                *)

\* data[] of the body hides that of the envelope, also when it is empty.
Entries(m) ==
    IF m.inner # "absent" THEN m.inner ELSE IF m.outer # "absent" THEN m.outer ELSE "empty"

\* What an entry lacks is looked for in the envelope and the body.
WithFallback(m) == Entries(m) = "full" \/ (Entries(m) = "bare" /\ m.direct)

\* And without entries the body is the one entry.
WithBody(m) == Entries(m) = "full" \/ (Entries(m) \in {"empty", "bare"} /\ m.direct)

Requires(transport, fulfilled) ==
    IF transport # Fine THEN transport ELSE IF fulfilled THEN Fine ELSE 400

\* The first PDF among the attachments; without one, the evidence of a host.
\* The first entry's controller is read beside a PDF.
parseVerifySubmission(m) ==
    Requires(parseDidcommPlainObject(m),
             \/ m.attached = "valid"
             \/ m.attached = "none" /\ m.inner = "full")

\* The keys have to be in the body; what an entry lacks may be beside them.
parseActivateSigningKeySubmission(m) ==
    Requires(parseDidcommPlainObject(m),
             m.inner = "full" \/ (m.inner = "bare" /\ m.direct))

parseRotateSubmission(m) == parseDidcommPlainObject(m)

parseCreateDidDocumentSubmission(m) == Requires(parseDidcommPlainObject(m), WithFallback(m))

parseTermsRemoveSubmission(m) == Requires(parseDidcommPlainObject(m), WithBody(m))

\* Entries have to hold their evidence; the attachments add to them.
parseAddEvidenceSubmission(m) ==
    Requires(parseDidcommPlainObject(m),
             /\ m.attached # "invalid" /\ Entries(m) # "bare"
             /\ Entries(m) = "full" \/ m.direct \/ m.attached = "valid")

parseDelegationPolicySubmission(m) ==
    Requires(parseDidcommPlainObject(m), Entries(m) = "full")

parseIssueCredentialSubmission(m) == Requires(parseDidcommPlainObject(m), WithBody(m))

parseCredentialStatusSubmission(m) == Requires(parseDidcommPlainObject(m), WithBody(m))

parseCredentialRevokeSubmission(m) == Requires(parseDidcommPlainObject(m), WithBody(m))

\* _search and _retrieve: DIDComm, or the older transports where they are on.
parseCredentialSearchSubmission(m) ==
    IF m.encoded THEN 415
    ELSE IF isAcceptedDidcommPlainContentType(m.media)
         THEN Requires(parseDidcommPlainObject(m), WithBody(m))
    ELSE IF ~LegacySearch \/ m.media \notin {"none", "form", "json"} THEN 415
    ELSE IF m.media = "json" /\ m.text = "broken" THEN 400
    ELSE IF m.params \/ (m.media # "none" /\ m.text = "object" /\ m.direct) THEN Fine
    ELSE 400

parseSpacesListSubmission(m) == parseDidcommPlainObject(m)

parseSpacesReplaceSubmission(m) == Requires(parseDidcommPlainObject(m), Entries(m) = "full")

=============================================================================
