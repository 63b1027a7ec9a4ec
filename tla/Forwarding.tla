----------------------------- MODULE Forwarding -----------------------------
(***************************************************************************)
(* What proxy() passes on (proxy_app.py): the client's address, the        *)
(* request's path, query and body on their way to the inspection and to    *)
(* the protected site, and the redirect in its answer.  One exchange is    *)
(* followed, while an admin may activate another target at any moment.     *)
(* Blocking and logging are the subject of ProxyPipeline.                  *)
(*                                                                         *)
(* The client libraries are modelled from how proxy() uses them: requests  *)
(* builds the URL and the Host header, gzip and the site decode bodies.    *)
(***************************************************************************)
EXTENDS Normalize

CONSTANTS
    Requests,       \* what clients send: [client, forged, path, query, body]
    Origins,        \* spellings of a site: [scheme, host, port]; "" is no port
    Targets,        \* those a target or WEBSENTINEL_TARGET may be given in
    Fronts          \* deployments: is there a trusted reverse proxy in front,
                    \* with WEBSENTINEL_TRUST_PROXY set accordingly

ASSUME TargetsAreOrigins == Targets \subseteq Origins
ASSUME FrontsType == Fronts \subseteq BOOLEAN
ASSUME RequestsType ==
    \A r \in Requests :
        /\ r.forged \in Seq({r.forged[k] : k \in DOMAIN r.forged})
        /\ IsText(r.path) /\ IsText(r.body.text)
        /\ r.query \in Seq({r.query[k] : k \in DOMAIN r.query})
        /\ r.body.packed \in {"none", "gzip", "br"}
        /\ r.body.packed = "none" => r.body.fault = "ok"

VARIABLES
    target,         \* get_active_target_url()
    fronted,        \* the deployment; never changes
    ex              \* the exchange
vars == <<target, fronted, ex>>

Steps == {"idle", "inspected", "sent", "answered", "returned", "failed"}
Front == "front"    \* address of the trusted reverse proxy

Origin(scheme, host, port) == [scheme |-> scheme, host |-> host, port |-> port]
Relative == Origin("", "", "")              \* a Location without scheme and host
Proxy == Origin("http", "proxy", "")        \* where clients find WebSentinel itself

-----------------------------------------------------------------------------
(* The client's address.  A trusted reverse proxy appends it to            *)
(* X-Forwarded-For; the client may have sent entries of its own.           *)
Peer(r) == IF fronted THEN Front ELSE r.client
ForwardedFor(r) == IF fronted THEN Append(r.forged, r.client) ELSE r.forged

\* Mutant: the first entry is taken for the client's.
ClientIpFirst(r) ==
    IF fronted /\ ForwardedFor(r) # <<>> THEN Head(ForwardedFor(r)) ELSE Peer(r)

GetClientIp(r) ==
    IF fronted /\ ForwardedFor(r) # <<>> THEN ForwardedFor(r)[Len(ForwardedFor(r))] ELSE Peer(r)

-----------------------------------------------------------------------------
(* Bodies.  Bytes are a text, the Content-Encoding the client declares and *)
(* what is wrong with it: nothing ("ok"), no gzip header at all ("magic"), *)
(* an end that is missing ("truncated"), bits that do not inflate          *)
(* ("corrupt"), or more than MAX_BODY_BYTES when inflated ("large").       *)
Faults == {"ok", "magic", "truncated", "corrupt", "large"}
Bytes(text, packed, fault) == [text |-> text, packed |-> packed, fault |-> fault]
Unreadable == <<Plain("unreadable")>>

\* What a receiver reads that goes by the Content-Encoding it is told.
Read(bytes, encoding) ==
    IF encoding = bytes.packed /\ bytes.fault \in {"ok", "large"} THEN bytes.text ELSE Unreadable

(* get_request_body(): a gzip body is inflated; if that fails, or the      *)
(* result is too large, it stays as it is and keeps its Content-Encoding.  *)
(* zlib.error, which gzip raises for bits that do not inflate, is not      *)
(* caught.                                                                 *)
BodyRaises(body) == body.packed = "gzip" /\ body.fault = "corrupt"
\* Mutant: a body that stays compressed loses its Content-Encoding.
BodyStripped(body) ==
    IF body.packed # "gzip" THEN [bytes |-> body, encoding |-> "none"]
    ELSE IF body.fault = "ok"
         THEN [bytes |-> Bytes(body.text, "none", "ok"), encoding |-> "none"]
         ELSE [bytes |-> body, encoding |-> "none"]
GetRequestBody(body) ==
    IF body.packed # "gzip" THEN [bytes |-> body, encoding |-> "none"]
    ELSE IF body.fault = "ok"
         THEN [bytes |-> Bytes(body.text, "none", "ok"), encoding |-> "none"]
         ELSE [bytes |-> body, encoding |-> "gzip"]

-----------------------------------------------------------------------------
(* A path is a sequence of segments; "?" and "#" stand for segments that   *)
(* begin with that sign; empty segments and bytes that are no UTF-8, which *)
(* Flask replaces, are left out.  Flask decodes the path once, requests    *)
(* and urllib3 read it as part of a URL: a bare "?" or "#" ends it, bare dot *)
(* segments are removed, whatever else needs it is quoted, and an escape   *)
(* that is already there stays, until the site decodes it.                 *)
PathOf(text) == [k \in DOMAIN text |->
                    IF text[k].d > 0 THEN [text[k] EXCEPT !.d = @ - 1] ELSE text[k]]
Cut(text) ==
    LET marks == {k \in DOMAIN text : Is(text[k], "?") \/ Is(text[k], "#")}
    IN  IF marks = {} THEN text ELSE SubSeq(text, 1, First(marks) - 1)
Undotted(text) ==
    LET left[n \in 0..Len(text)] ==
            IF n = 0 THEN <<>>
            ELSE IF Is(text[n], ".") THEN left[n - 1]
            ELSE IF ~Is(text[n], "..") THEN Append(left[n - 1], text[n])
            ELSE SubSeq(left[n - 1], 1, Len(left[n - 1]) - 1)
        dots == {k \in DOMAIN text : Is(text[k], ".") \/ Is(text[k], "..")}
    IN  IF dots = {} THEN text ELSE left[Len(text)]
UpstreamPath(path) == PathOf(Undotted(Cut(PathOf(path))))

\* What follows a "?" that ends the path goes before the parameters.
Spilled(path) ==
    LET text == PathOf(path)
        end == Len(Cut(text)) + 1
    IN  IF end < Len(text) /\ Is(text[end], "?") THEN <<[key |-> "?", value |-> 0]>> ELSE <<>>
\* requests iterates over request.args: one value per key, the first, the keys
\* in the order in which they occur.
Parameters(query) ==
    ItemsAt(query, {k \in DOMAIN query : \A j \in 1..k - 1 : query[j].key # query[k].key})
UpstreamQuery(r) ==
    IF Spilled(r.path) = <<>> THEN Parameters(r.query)
    ELSE Spilled(r.path) \o Parameters(r.query)

-----------------------------------------------------------------------------
(* The site a URL names, however it is spelled.                            *)
DefaultPort(scheme) == IF scheme = "https" THEN "443" ELSE "80"
LowerHost(host) == IF host = "SITE" THEN "site" ELSE host
\* The Host header that requests sends, and the origin a site builds
\* redirects to itself from.
AsSeenBySite(o) ==
    [o EXCEPT !.host = LowerHost(@), !.port = IF @ = DefaultPort(o.scheme) THEN "" ELSE @]

(* normalize_target_url(): the host is lowered, the port stays. *)
NormalizeTarget(o) == [o EXCEPT !.host = LowerHost(@)]

(* rewrite_location_header() *)
RewriteLocation(location, served) == IF location = served THEN Proxy ELSE location

-----------------------------------------------------------------------------
Idle == [step |-> "idle"]
In(step) == ex.step = step
\* Stored targets are normalized, the environment's fallback is not.
Spellings == Targets \union {NormalizeTarget(o) : o \in Targets}

Init ==
    /\ target \in Spellings
    /\ fronted \in Fronts
    /\ ex = Idle

(* set_active_target() *)
Activate ==
    /\ target' \in Spellings
    /\ UNCHANGED <<fronted, ex>>

(* inspect_request() and get_active_target_url(); a request whose body     *)
(* makes get_request_body() raise ends with a 500.                         *)
Inspect(r) ==
    /\ In("idle")
    /\ ex' = IF BodyRaises(r.body) THEN [step |-> "failed", request |-> r]
             ELSE LET body == GetRequestBody(r.body)
                  IN  [step |-> "inspected", request |-> r, ip |-> GetClientIp(r),
                       judged |-> Normalize(Read(body.bytes, "none")), served |-> target]
    /\ UNCHANGED <<target, fronted>>

(* The request is forwarded: hop-by-hop headers, among them                *)
(* Content-Encoding, are dropped, the address headers rewritten.           *)
Send ==
    /\ In("inspected")
    /\ LET body == GetRequestBody(ex.request.body)
       IN  ex' = [step |-> "sent", request |-> ex.request, ip |-> ex.ip, judged |-> ex.judged,
                  served |-> ex.served,
                  upstream |-> [host |-> AsSeenBySite(ex.served), for |-> ex.ip,
                                path |-> UpstreamPath(ex.request.path),
                                query |-> UpstreamQuery(ex.request),
                                bytes |-> body.bytes, encoding |-> body.encoding]]
    /\ UNCHANGED <<target, fronted>>

(* The site answers, perhaps with a redirect: relative, to itself as it    *)
(* was addressed, or to any other URL.                                     *)
Answer ==
    /\ In("sent")
    /\ \E location \in {Relative, ex.upstream.host} \union Origins :
          ex' = [step |-> "answered", served |-> ex.served,
                 toSelf |-> location = ex.upstream.host, location |-> location]
    /\ UNCHANGED <<target, fronted>>

\* Mutant: compared with the target that is active by now.
ReturnCurrent ==
    /\ In("answered")
    /\ ex' = [ex EXCEPT !.step = "returned",
                        !.location = RewriteLocation(ex.location, target)]
    /\ UNCHANGED <<target, fronted>>

(* The answer is passed back with its Location rewritten.                  *)
Return ==
    /\ In("answered")
    /\ ex' = [ex EXCEPT !.step = "returned",
                        !.location = RewriteLocation(ex.location, ex.served)]
    /\ UNCHANGED <<target, fronted>>

(* The client has its answer, or the 500. *)
Close ==
    /\ ex.step \in {"returned", "failed"}
    /\ ex' = Idle
    /\ UNCHANGED <<target, fronted>>

Next ==
    \/ Activate
    \/ \E r \in Requests : Inspect(r)
    \/ Send \/ Answer \/ Return \/ Close

Spec == Init /\ [][Next]_vars
-----------------------------------------------------------------------------
(* Properties *)

\* Encoded no more often than normalize() decodes; "+" takes a round itself.
Decodable(text) ==
    \A k \in DOMAIN text : text[k].d + (IF text[k].c = "+" THEN 1 ELSE 0) <= MaxRounds
FullyDecoded(text) ==
    [k \in DOMAIN text |-> IF text[k].c = "+" THEN Space ELSE Plain(text[k].c)]
Inflatable(body) == body.packed = "none" \/ (body.packed = "gzip" /\ body.fault = "ok")

(* "Decodes and flattens request values so that double-URL-encoded or      *)
(* obfuscated payloads are caught" (normalize.py): however a client mixes  *)
(* encodings, up to three deep, and gzip, the detectors judge the same     *)
(* normal form as for the text sent in the clear.                          *)
DetectorsSeeTheText ==
    In("inspected") /\ Inflatable(ex.request.body) /\ Decodable(ex.request.body.text)
        => ex.judged = Normalize(FullyDecoded(ex.request.body.text))

(* "Must be idempotent [...] even on already-decoded input" (normalize()): *)
(* it is for texts that are decodable and have no line break; a comment    *)
(* over a line break is taken out by the second pass only.                 *)
NormalFormStable ==
    In("inspected") /\ Decodable(ex.request.body.text)
      /\ (\A k \in DOMAIN ex.request.body.text : ex.request.body.text[k].c # "\n")
        => Normalize(ex.judged) = ex.judged

(* The proxy is transparent: the site reads of the body what the client    *)
(* meant it to, although the body was inflated and Content-Encoding        *)
(* dropped on the way, also when it could not be inflated; and so with the *)
(* path and the query.  Not so with encodings other than gzip (their       *)
(* header is dropped all the same), with paths that have a double escape,  *)
(* an encoded "?" or "#" or dot segments, encoded or not, and with         *)
(* repeated parameters.                                                    *)
SimplePath(path) ==
    \A k \in DOMAIN path : path[k].d <= 1 /\ path[k].c \notin {"?", "#", ".", ".."}
RequestSurvives ==
    In("sent") => LET r == ex.request
                      u == ex.upstream IN
        /\ r.body.packed # "br" => Read(u.bytes, u.encoding) = Read(r.body, r.body.packed)
        /\ SimplePath(r.path) => u.path = PathOf(r.path)
        /\ SimplePath(r.path) /\ (\A j, k \in DOMAIN r.query :
                                      r.query[j].key = r.query[k].key => j = k)
              => u.query = r.query

(* The address that is judged, logged, blocked and told to the site is the *)
(* client's, whatever X-Forwarded-For it sends.                            *)
OneIdentity ==
    /\ In("inspected") => ex.ip = ex.request.client
    /\ In("sent") => ex.upstream.for = ex.request.client

(* "So the client's next request goes back through inspection rather than  *)
(* hitting the real backend directly" (rewrite_location_header()): a       *)
(* redirect of the site to itself leads back to the proxy, also when       *)
(* another target was activated meanwhile, provided the target is spelled  *)
(* the way the site knows itself: in lower case, without a default port.   *)
RedirectsStayBehindProxy ==
    In("returned") /\ ex.toSelf /\ AsSeenBySite(ex.served) = ex.served
        => ex.location = Proxy
=============================================================================
