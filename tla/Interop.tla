------------------------------ MODULE Interop ------------------------------
(***************************************************************************)
(* The two implementations against each other.  The Go modules (samplego)  *)
(* and their Python port (samplepython) share one wire contract; either    *)
(* client is meant to work with either server, and no test runs them       *)
(* together (README.md:103).  Here one message, the proof of one of the    *)
(* clients or what another program posts, reaches a server of each kind;   *)
(* both have the same configuration, and the token of one is presented to  *)
(* both.                                                                   *)
(*                                                                         *)
(* The port decides as the Go code does except where an operator below     *)
(* says otherwise: each one names what Python's libraries read differently.*)
(*                                                                         *)
(* A message is [env, quirks].  env is an envelope as in Inbound, with the *)
(* host of its URL as it is written and in it what the more lenient server *)
(* finds; quirks are the spellings one of the two reads differently:       *)
(*   "goJson"      JSON only Go's decoder takes: a member is absent or     *)
(*                 null, its name is in another case, text follows         *)
(*   "pyJson"      JSON only Python's takes: a NaN, a byte order mark      *)
(*   "wrapped"     the base64 text has line breaks                         *)
(*   "escaped"     a pair of the form has a ';' or a bad escape            *)
(*   "binary"      the form is not UTF-8                                   *)
(*   a field of the query: its last value is in such a pair                *)
(*   "loose"       the dates and the expiry are spelled as only strptime   *)
(*                 and int read them ("6_0")                               *)
(*   "fraction"    the dates are spelled as only time.Parse reads them (a  *)
(*                 fraction of a second, which is not kept here)           *)
(*   "unsendable"  a header is not ASCII or has white space around it      *)
(*   "repeated"    the caller signed a further header with several values  *)
(*   "joined"      he signed "a, b", and the envelope has two values       *)
(*   "spelled"     a further header has two spellings                      *)
(* Further headers are no part of env. Other unusual spellings are left    *)
(* out: URLs with user information, brackets, a colon without a port, text *)
(* after them, or characters that ought to be escaped; queries of their own*)
(* in endpoints; control characters; what is not ASCII in URLs and names;  *)
(* a Host that is none; JSON with one name twice, very deep or very long;  *)
(* regions that end in a line break; headers HTTP libraries act on         *)
(* themselves (Content-Length, Transfer-Encoding).                         *)
(*                                                                         *)
(* A presented token is [token, ascii]: ascii says that its payload and    *)
(* signature segments are ASCII text.                                      *)
(***************************************************************************)
EXTENDS ClientProof, Credential, FiniteSets

CONSTANTS
  Inputs,       (* command lines and environments, see ClientConfig        *)
  Foreign,      (* messages of other programs                              *)
  Servers,      (* configurations of the pair of servers                   *)
  Callers,      (* identities STS knows                                    *)
  LaxUrls,      (* URLs urlsplit takes and url.Parse does not ("#%zz")     *)
  BadPorts,     (* ports the port property of urlsplit raises for          *)
  LeadingZeros, (* ports such as "0443", each with the number it stands for*)
  Lowered,      (* hosts with capital letters, each with its lower case    *)
  Unsendable,   (* binding values httpx does not send                      *)
  Starts, Horizon,    (* readings of the clock, the first and the last     *)
  NoConfig, NoMessage, NoAnswer, NoGrant

Impl == {"go", "python"}

(* What the clock may show.                                                *)
Times == UNION {t..Horizon : t \in Starts}

VARIABLES
  now, server,
  client,       (* whose message it is: of Impl, or "other"                *)
  cfg,          (* what the client's load returned                         *)
  message,
  service,      (* how far each server has come with the message           *)
  checkedOn,    (* history: when it made its local checks                  *)
  answer,       (* its answer of /auth                                     *)
  granted,      (* [token, at], or NoGrant                                 *)
  verdict       (* [presented, answer]: a token presented to both now      *)

vars == <<now, server, client, cfg, message, service, checkedOn, answer, granted, verdict>>

clientVars == <<client, cfg, message>>
authVars   == <<service, checkedOn, answer, granted>>

---------------------------------------------------------------------------
(* urlsplit: leading white space is dropped, escapes and the port are not  *)
(* looked at.                                                              *)
Taken(u)    == [u EXCEPT !.parses = @ \/ u \in LaxUrls]
Unpadded(u) == [u EXCEPT !.padded = FALSE]
Split(u)    == Unpadded(Taken(u))

(* The port property is a number.                                          *)
Numbered(u) ==
  IF u.port \in DOMAIN LeadingZeros THEN [u EXCEPT !.port = LeadingZeros[@]] ELSE u

(* Where a host is looked at, it is in lower case.                         *)
Lower(u) ==
  IF u.host \in DOMAIN Lowered THEN [u EXCEPT !.host = Lowered[@]] ELSE u

(* An endpoint as the load of a client of kind i looks at it.              *)
ReadUrl(i, u) == IF i = "go" THEN Lower(u) ELSE Lower(Split(u))

Seen(i, e) == IF e = Unset THEN Unset ELSE ReadUrl(i, e)

(* load. A given endpoint stays as it was written.                         *)
ParseBy(i, in) ==
  LET seen == [in EXCEPT !.endpoint = [flag |-> Seen(i, @.flag), env |-> Seen(i, @.env)]]
  IN  [Parse(in) EXCEPT !.region = ChosenRegion(seen)]

ValidatesBy(i, c) == Validates([c EXCEPT !.endpoint = ReadUrl(i, @)])

---------------------------------------------------------------------------
(* Header form: the Host is the netloc of the endpoint, whatever botocore  *)
(* signed.                                                                 *)
PyEnvelopeFromRequest(c, s) ==
  [EnvelopeFromRequest(c, s) EXCEPT !.header[<<Host, 1>>] = <<HostPort(c.endpoint)>>]

(* Mutant: the endpoint goes out as it was written.                        *)
PyPresignedAsWritten(c, s) == PresignedEnvelope(c, s)

(* Presigned form: the URL is put together again from its parts.           *)
PyPresignedEnvelope(c, s) ==
  [PresignedEnvelope(c, s) EXCEPT !.url = Unpadded(@)]

(* botocore raises for a port that is none, or without a host name.        *)
PyBuilds(c) == c.endpoint.port \notin BadPorts /\ c.endpoint.host # <<"">>

(* botocore signs the Host in lower case, with the number of the port.     *)
PySigned(c) == [c EXCEPT !.endpoint = Numbered(Lower(@))]

PyBuild(c, t) ==
  IF c.form = "presigned"
  THEN PyPresignedEnvelope(c, PresignHTTP(PySigned(c), t))
  ELSE PyEnvelopeFromRequest(c, SignHTTP(PySigned(c), t))

BuildBy(i, c, t) == IF i = "go" THEN Build(c, t) ELSE PyBuild(c, t)

(* The binding is the one text a client of either kind puts in a header as *)
(* it is.                                                                  *)
QuirksOf(c) == IF c.binding \in Unsendable THEN {"unsendable"} ELSE {}

(* What a client of kind i posts under configuration c at time t.          *)
Post(i, c, t) == [env |-> BuildBy(i, c, t), quirks |-> QuirksOf(c)]

---------------------------------------------------------------------------
Unreadable(values) == [k \in DOMAIN values |-> Unparsable]

UnreadDates(h) == [k \in DOMAIN h |-> IF k[1] = AmzDate THEN Unreadable(h[k]) ELSE h[k]]

(* u.Query leaves out a pair with a ';' or a bad escape.                   *)
GoQuery(q, quirks) ==
  [f \in DOMAIN q |->
     IF f \notin quirks THEN q[f]
     ELSE IF f \in {"algorithm", "credential", "signature"} THEN q[f] - 1
     ELSE SubSeq(q[f], 1, Len(q[f]) - 1)]

(* What the Go server's adapter finds in a message. ParseQuery fails for a *)
(* whole form with such a pair, time.Parse and Atoi for loose numbers.     *)
GoReads(m) ==
  LET q     == GoQuery(m.env.query, m.quirks)
      loose == "loose" \in m.quirks
  IN  [m.env EXCEPT
         !.json   = IF @ = "ok" /\ "pyJson" \in m.quirks THEN "malformed" ELSE @,
         !.form   = IF "escaped" \in m.quirks THEN << >> ELSE @,
         !.header = IF loose THEN UnreadDates(@) ELSE @,
         !.query  = IF loose
                    THEN [q EXCEPT !.date = Unreadable(@), !.expires = Unreadable(@)]
                    ELSE q]

(* What the Python server's adapter finds in it. parse_qs keeps every pair;*)
(* what it cannot decode to text before has no Action.                     *)
PyReads(m) ==
  LET fraction == "fraction" \in m.quirks
  IN  [m.env EXCEPT
         !.json       = IF @ = "ok" /\ "goJson" \in m.quirks THEN "malformed" ELSE @,
         !.base64     = @ /\ "wrapped" \notin m.quirks,
         !.url        = Split(@),
         !.form       = IF "binary" \in m.quirks THEN << >> ELSE @,
         !.header     = IF fraction THEN UnreadDates(@) ELSE @,
         !.query.date = IF fraction THEN Unreadable(@) ELSE @]

Reads(i, m) == IF i = "go" THEN GoReads(m) ELSE PyReads(m)

(* Whether _normalize_endpoint of the Python server raises.                *)
NormalizeRaises(u) ==
  /\ Split(u).parses
  /\ u.scheme = "https"
  /\ TrimDot(u.host) # <<"">>
  /\ u.port \in BadPorts

(* How each server looks at an endpoint. The allow list of the port goes by*)
(* the number of the port.                                                 *)
AsGo(u) == Lower(u)
AsPy(u) == Lower(Numbered(Taken(u)))

GoDelegationError(urls, m) ==
  DelegationError({AsGo(u) : u \in urls}, [m.env EXCEPT !.url = AsGo(@)])

(* What _normalize_endpoint raises is no VerificationRejected. httpx cannot*)
(* send a request to a padded URL, nor every header.                       *)
PyDelegationError(urls, m) ==
  LET err == DelegationError({AsPy(u) : u \in urls}, [m.env EXCEPT !.url = AsPy(@)])
  IN  IF NormalizeRaises(m.env.url) \/ (err = "none" /\ "unsendable" \in m.quirks)
      THEN "infra"
      ELSE err

DelegationErrorBy(i, urls, m) ==
  IF i = "go" THEN GoDelegationError(urls, m) ELSE PyDelegationError(urls, m)

(* Mutant: httpx computes the Host from the URL.                           *)
PyHostOfUrl(env) == {HostPort(env.url)}

(* The Host of the last spelling of the header that has a value; without   *)
(* any, httpx computes it from the URL.                                    *)
PyForwardedHosts(env) ==
  LET keys == {k \in DOMAIN env.header : k[1] = Host /\ env.header[k] # << >>}
  IN  IF keys = {} THEN {SignedHost(Numbered(Lower(env.url)))}
      ELSE {env.header[k][1] : k \in {x \in keys : \A y \in keys : y[2] <= x[2]}}

(* Whether the further headers arrive as they were signed. Go sends each   *)
(* value in a line of its own and goes through a map; Python joins values  *)
(* with ", " and keeps the order of the spellings.                         *)
Intact(i, quirks) ==
  IF (IF i = "go" THEN "joined" ELSE "repeated") \in quirks THEN {FALSE}
  ELSE IF "spelled" \in quirks THEN BOOLEAN
  ELSE {TRUE}

(* What server i may send to STS.                                          *)
ForwardedBy(i, m) ==
  [ host   : IF i = "go" THEN ForwardedHosts(m.env) ELSE PyForwardedHosts(m.env),
    intact : Intact(i, m.quirks) ]

(* The answer of server i before it asks STS, or Accepted.                 *)
EarlyAnswer(i, m, t) ==
  LET e      == Reads(i, m)
      reason == LocalCheck(server, ExtractProof(e), t)
      err    == DelegationErrorBy(i, server.endpoints, m)
  IN  IF ExtractCheck(e) # Accepted THEN ExtractCheck(e)
      ELSE IF reason # "none" THEN Refusal(RejectionStatus(reason), reason)
      ELSE IF err # "none" THEN WriteAuthError(err)
      ELSE Accepted

(* STS recognises message m as a server sends it. It reads no unusual      *)
(* spelling of a date or a number.                                         *)
StsRecognises(m, sent) ==
  /\ AsSigned(m.env)
  /\ sent.intact
  /\ sent.host = m.env.signed.header[Host]
  /\ {"loose", "fraction"} \cap m.quirks = {}
  /\ m.env.signed.signer \in Callers
  /\ cfg # NoConfig => RegionForSTSHost(TrimDot(Lower(m.env.url).host)) \in {NoRegion, cfg.region}

---------------------------------------------------------------------------
(* Mutant: the port takes a token in the second it expires.                *)
VerifyByLate(i, p, t) ==
  LET outcome == VerifyToken(server, p.token, t)
  IN  WriteVerifyAnswer(IF i = "python" /\ outcome = "token_expired" /\ t = Instant(p.token.claims.exp)
                        THEN "valid" ELSE outcome)

(* The port answers 500 where a token that is not ASCII text makes the     *)
(* computation or the comparison of its signature raise.                   *)
VerifyBy(i, p, t) ==
  IF i = "python" /\ ~p.ascii /\ p.token.segments = 3 /\ p.token.header
  THEN Refusal(500, "internal_error")
  ELSE WriteVerifyAnswer(VerifyToken(server, p.token, t))

---------------------------------------------------------------------------
(* Mutant: the configuration is not validated.                             *)
RunUnchecked(i, in) ==
  /\ client = "none"
  /\ client' = i
  /\ cfg' = ParseBy(i, in)
  /\ message' = Post(i, ParseBy(i, in), now)
  /\ UNCHANGED <<now, server, authVars, verdict>>

(* A client of kind i loads its configuration, signs and posts; or it      *)
(* fails before that, and nothing happens.                                 *)
Run(i, in) ==
  /\ client = "none"
  /\ ValidatesBy(i, ParseBy(i, in))
  /\ i = "python" => PyBuilds(ParseBy(i, in))
  /\ client' = i
  /\ cfg' = ParseBy(i, in)
  /\ message' = Post(i, ParseBy(i, in), now)
  /\ UNCHANGED <<now, server, authVars, verdict>>

(* Another program posts something.                                        *)
PostForeign(m) ==
  /\ client = "none"
  /\ client' = "other"
  /\ message' = m
  /\ UNCHANGED <<now, server, cfg, authVars, verdict>>

(* The message reaches server i.                                           *)
Check(i) ==
  /\ message # NoMessage
  /\ service[i] = "idle"
  /\ checkedOn' = [checkedOn EXCEPT ![i] = now]
  /\ LET early == EarlyAnswer(i, message, now)
     IN  \/ /\ early # Accepted
            /\ service' = [service EXCEPT ![i] = "done"]
            /\ answer' = [answer EXCEPT ![i] = early]
         \/ /\ early = Accepted
            /\ service' = [service EXCEPT ![i] = "delegated"]
            /\ UNCHANGED answer
  /\ UNCHANGED <<now, server, clientVars, granted, verdict>>

(* STS answers server i.                                                   *)
Federate(i) ==
  /\ service[i] = "delegated"
  /\ service' = [service EXCEPT ![i] = "done"]
  /\ \E sent \in ForwardedBy(i, message) :
       LET signer == message.env.signed.signer
       IN  \/ /\ ~StsRecognises(message, sent)
              /\ answer' = [answer EXCEPT ![i] = WriteAuthError("rejected")]
              /\ UNCHANGED granted
           \/ /\ StsRecognises(message, sent)
              /\ signer \notin server.arns
              /\ answer' = [answer EXCEPT ![i] = Refusal(RejectionStatus("arn_not_allowed"), "arn_not_allowed")]
              /\ UNCHANGED granted
           \/ /\ StsRecognises(message, sent)
              /\ signer \in server.arns
              /\ answer' = [answer EXCEPT ![i] = Refusal(200, "none")]
              /\ granted' = [granted EXCEPT
                               ![i] = [token |-> IssueCredential(server, i, signer, now), at |-> now]]
  /\ UNCHANGED <<now, server, clientVars, checkedOn, verdict>>

(* STS fails server i.                                                     *)
FailFederation(i) ==
  /\ service[i] = "delegated"
  /\ service' = [service EXCEPT ![i] = "failed"]
  /\ answer' = [answer EXCEPT ![i] = WriteAuthError("infra")]
  /\ UNCHANGED <<now, server, clientVars, checkedOn, granted, verdict>>

(* A token with the signature of another secret.                           *)
Forged(tok) == [tok EXCEPT !.key = "other"]

(* What may be presented: a token as it was granted, a forged one, in ASCII*)
(* or not.                                                                 *)
Presented ==
  LET tokens == {granted[i].token : i \in {j \in Impl : granted[j] # NoGrant}}
  IN  {[token |-> t, ascii |-> TRUE] : t \in tokens}
      \cup {[token |-> Forged(t), ascii |-> a] : t \in tokens, a \in BOOLEAN}

(* A token is presented to both servers.                                   *)
Verify(p) ==
  /\ verdict' = [presented |-> p, answer |-> [i \in Impl |-> VerifyBy(i, p, now)]]
  /\ UNCHANGED <<now, server, clientVars, authVars>>

(* What was said about a token is not followed any longer than this.       *)
Tick ==
  /\ now < Horizon
  /\ now' = now + 1
  /\ verdict' = NoAnswer
  /\ UNCHANGED <<server, clientVars, authVars>>

---------------------------------------------------------------------------
(* The answers of /auth, and the shape of the messages. The date and the   *)
(* expiry are what is left of their texts.                                 *)
Answers ==
  [ status : {200}, error : {"none"} ] \cup
  [ status : {400}, error : {"invalid_body", "invalid_signature", "invalid_shape"} ] \cup
  [ status : {401}, error : {"stale", "verification_failed"} ] \cup
  [ status : {403}, error : {"binding_not_signed", "binding_mismatch", "arn_not_allowed"} ] \cup
  [ status : {413}, error : {"body_too_large"} ] \cup
  [ status : {502}, error : {"upstream_error"} ]

IsUrl(u) ==
  /\ DOMAIN u = {"parses", "padded", "scheme", "host", "port"}
  /\ {u.parses, u.padded} \subseteq BOOLEAN

IsEnvelope(e) ==
  /\ DOMAIN e = {"json", "base64", "method", "header", "form", "url", "query", "signed"}
  /\ e.base64 \in BOOLEAN
  /\ IsUrl(e.url)
  /\ DOMAIN e.query = {"algorithm", "credential", "signature", "names", "date", "expires", "action"}
  /\ {e.query.algorithm, e.query.credential, e.query.signature} \subseteq Nat
  /\ {e.query.date, e.query.expires} \subseteq Seq(Int \cup {Unparsable})
  /\ IsFiniteSet(DOMAIN e.header)
  /\ \A k \in DOMAIN e.header : k[2] \in Int

(* Inputs are as in ClientConfig, messages as above, and what stands for no*)
(* configuration, message, answer or grant is none. "other" is the secret  *)
(* of no server. With an allow list that makes _normalize_endpoint raise   *)
(* the port does not start (sts.py:142-144), so no pair of servers has one.*)
ASSUME InteropAssumption ==
  /\ Starts \subseteq Int /\ Horizon \in Int /\ \A t \in Starts : t <= Horizon
  /\ {"", "443"} \cap (BadPorts \cup DOMAIN LeadingZeros) = {}
  /\ \A p \in DOMAIN LeadingZeros : LeadingZeros[p] # ""
  /\ \A u \in LaxUrls : Unpadded(u) \in LaxUrls
  /\ \A host \in DOMAIN Lowered :
       /\ {host, Lowered[host]} \subseteq Seq(STRING)
       /\ <<"">> \notin {TrimDot(host), TrimDot(Lowered[host])}
  /\ \A s \in Servers :
       /\ s.secret # "other" /\ s.ttl \in Int
       /\ \A u \in s.endpoints :
            /\ IsUrl(u) /\ ~NormalizeRaises(u)
            /\ \A port \in {"443", Numbered(u).port} : NoEndpoint # <<TrimDot(Lower(u).host), port>>
  /\ \A in \in Inputs :
       /\ DOMAIN in = { "serverAddr", "binding", "region", "endpoint", "form", "expiry",
                        "verify", "timeout", "credentials", "caller" }
       /\ in.expiry \in Int \cup {Unparsable}
       /\ LET u == ChosenEndpoint(in) IN IsUrl(u) /\ u.host \in Seq(STRING)
  /\ \A m \in Foreign :
       /\ DOMAIN m = {"env", "quirks"} /\ IsEnvelope(m.env)
       /\ m.env.query.names \in Seq(SUBSET STRING) /\ m.env.query.action \in Seq(STRING)
       /\ \A f \in m.quirks \cap {"names", "date", "expires", "action"} : m.env.query[f] # << >>
  /\ NoMessage \notin Foreign
  /\ NoAnswer \notin Answers
  /\ \A i \in Impl, in \in Inputs :
       /\ ParseBy(i, in) # NoConfig
       /\ ValidatesBy(i, ParseBy(i, in)) =>
            \A t \in Times : NoMessage # Post(i, ParseBy(i, in), t)
  /\ \A s \in Servers, i \in Impl, who \in Callers, t \in Times :
       NoGrant # [token |-> IssueCredential(s, i, who, t), at |-> t]

---------------------------------------------------------------------------
Init ==
  /\ now \in Starts
  /\ server \in Servers
  /\ client = "none"
  /\ cfg = NoConfig
  /\ message = NoMessage
  /\ service = [i \in Impl |-> "idle"]
  /\ checkedOn = [i \in Impl |-> now]
  /\ answer = [i \in Impl |-> NoAnswer]
  /\ granted = [i \in Impl |-> NoGrant]
  /\ verdict = NoAnswer

Next ==
  \/ \E i \in Impl, in \in Inputs : Run(i, in)
  \/ \E m \in Foreign : PostForeign(m)
  \/ \E i \in Impl : Check(i)
  \/ \E i \in Impl : Federate(i)
  \/ \E i \in Impl : FailFederation(i)
  \/ \E p \in Presented : Verify(p)
  \/ Tick

Spec == Init /\ [][Next]_vars

---------------------------------------------------------------------------
(* Every variable has its type, and a client has posted only under a       *)
(* configuration its own load accepts.                                     *)
TypeOK ==
  /\ now \in Times
  /\ checkedOn \in [Impl -> Times]
  /\ server \in Servers
  /\ client \in {"none", "other"} \cup Impl
  /\ client \in Impl <=> cfg # NoConfig
  /\ client \in Impl => ValidatesBy(client, cfg) /\ message.quirks = QuirksOf(cfg)
  /\ client = "none" <=> message = NoMessage
  /\ service \in [Impl -> {"idle", "delegated", "done", "failed"}]
  /\ answer \in [Impl -> Answers \cup {NoAnswer}]
  /\ DOMAIN granted = Impl
  /\ \A i \in Impl : service[i] \in {"done", "failed"} <=> answer[i] # NoAnswer
  /\ \A i \in Impl : granted[i] # NoGrant <=> answer[i] = Refusal(200, "none")

(* The proof of either client passes either server, unless the two were    *)
(* configured for different bindings, endpoints or callers, it is stale, or*)
(* the way an endpoint or the binding is written gets in the way: the      *)
(* default port (not for a header form proof of the Go client), leading    *)
(* zeros and capital letters (Python client), white space before the URL   *)
(* (Python client, header form), a port out of range (Go client, Python    *)
(* server), an escape Go does not read (Python client, presigned, Go       *)
(* server), a binding httpx does not send (Python server) (README.md:103,  *)
(* proof.py:70 and 110, config.py:203-208, sts.py:127-183). Endpoints that *)
(* the head of this module leaves out are not spoken of.                   *)
ProofsCross ==
  \A i \in Impl :
    client \in Impl /\ service[i] = "done" =>
      \/ answer[i].error \in {"none", "stale"}
      \/ answer[i].error = "binding_mismatch" /\ cfg.binding # server.binding
      \/ answer[i].error = "arn_not_allowed" /\ cfg.caller \notin server.arns
      \/ /\ answer[i].error = "verification_failed"
         /\ \/ NormalizeEndpoint(Lower(cfg.endpoint)) \notin
                 AllowedEndpoints({Lower(u) : u \in server.endpoints})
            \/ RegionForSTSHost(Lower(cfg.endpoint).host) = NoRegion
            \/ cfg.caller \notin Callers
            \/ /\ client = "go" /\ cfg.form = "presigned"
               /\ SignedHost(cfg.endpoint) # HostPort(cfg.endpoint)
            \/ /\ client = "python"
               /\ SignedHost(Numbered(Lower(cfg.endpoint))) # HostPort(cfg.endpoint)
      \/ /\ answer[i].error = "upstream_error"
         /\ \/ client = "python" /\ cfg.form = "header" /\ cfg.endpoint.padded
            \/ client = "go" /\ i = "python" /\ cfg.endpoint.port \in BadPorts
            \/ i = "python" /\ cfg.binding \in Unsendable
      \/ /\ answer[i].error = "invalid_signature"
         /\ client = "python" /\ i = "go" /\ cfg.form = "presigned" /\ cfg.endpoint \in LaxUrls

(* Two servers that look at one message at one time give one answer, if    *)
(* STS answers both, or one of them gives the answer its library leads it  *)
(* to: about JSON, base64, numbers and dates, a padded presigned URL, loose*)
(* escapes, pairs of a query or form that Go drops, a form that is no text,*)
(* a header httpx does not send, a port that is no number, which the port  *)
(* blames the upstream for, a port with leading zeros, several values or   *)
(* spellings of a header, a Host the server has to compute itself          *)
(* (http_util.py:45-69, auth.py:94-434, sts.py:105-234). Messages that the *)
(* head of this module leaves out are not spoken of.                       *)
ServersAgree ==
  LET go     == answer["go"]
      py     == answer["python"]
      env    == message.env
      quirks == message.quirks
      hosts  == {k \in DOMAIN env.header : k[1] = Host}
  IN  /\ \A i \in Impl : service[i] = "done"
      /\ checkedOn["go"] = checkedOn["python"]
      =>
      \/ go = py
      \/ py.error = "invalid_body" /\ {"goJson", "wrapped"} \cap quirks # {}
      \/ go.error = "invalid_body" /\ "pyJson" \in quirks
      \/ go.error = "invalid_signature" /\ "loose" \in quirks
      \/ py.error = "invalid_signature" /\ "fraction" \in quirks
      \/ /\ ~IsHeaderForm(env)
         /\ \/ go.error = "invalid_signature" /\ (env.url.padded \/ env.url \in LaxUrls)
            \/ /\ DOMAIN env.query \cap quirks # {}
               /\ {go.error, py.error} \cap {"invalid_signature", "invalid_shape"} # {}
      \/ /\ IsHeaderForm(env)
         /\ \/ go.error = "invalid_shape" /\ "escaped" \in quirks
            \/ py.error = "invalid_shape" /\ "binary" \in quirks
      \/ py.error = "upstream_error" /\ "unsendable" \in quirks
      \/ /\ go.error = "verification_failed"
         /\ \/ py.error = "upstream_error" /\ env.url.port \in BadPorts
            \/ \E u \in server.endpoints \cup {env.url} :
                 /\ TrimDot(Lower(u).host) = TrimDot(Lower(env.url).host)
                 /\ u \in LaxUrls \/ u.port \in DOMAIN LeadingZeros
            \/ {"joined", "spelled"} \cap quirks # {}
      \/ py.error = "verification_failed" /\ {"repeated", "spelled"} \cap quirks # {}
      \/ /\ "verification_failed" \in {go.error, py.error}
         /\ \/ Cardinality(hosts) > 1
            \/ /\ \A k \in hosts : env.header[k] = << >>
               /\ SignedHost(Numbered(Lower(env.url))) # HostPort(env.url)

(* What one server granted passes at both until the whole second its ttl   *)
(* ends in, nothing else passes, and both give a token the same answer at  *)
(* the same time, but for one that is not ASCII text (issuer.py:192-245,   *)
(* verify_service.py:27-52).                                               *)
TokensCross ==
  verdict # NoAnswer =>
    LET p  == verdict.presented
        go == verdict.answer["go"]
        py == verdict.answer["python"]
    IN  /\ go.status = 200 <=>
             /\ p.ascii
             /\ \E i \in Impl : /\ granted[i] # NoGrant
                                /\ granted[i].token = p.token
                                /\ now < Instant(Seconds(granted[i].at + server.ttl))
        /\ go # py => ~p.ascii /\ py.error = "internal_error"
===========================================================================
