--------------------------- MODULE OperatorProofs --------------------------
(***************************************************************************)
(* Facts about the operators that the server's and the client's modules    *)
(* are built from.                                                         *)
(***************************************************************************)
EXTENDS ClientProof, Credential, TLAPS

---------------------------------------------------------------------------
(* Truncation to seconds: at most one second, never upwards.               *)
LEMMA Truncation ==
  ASSUME NEW t \in Int
  PROVE  /\ Seconds(t) \in Int
         /\ Instant(Seconds(t)) \in Int
         /\ Instant(Seconds(t)) <= t
         /\ t < Instant(Seconds(t)) + TicksPerSecond
BY WallClockAssumption DEF Seconds, Instant

(* A whole number of seconds loses nothing.                                *)
LEMMA WholeSeconds ==
  ASSUME NEW t \in Int, t % TicksPerSecond = 0
  PROVE  Instant(Seconds(t)) = t
BY WallClockAssumption DEF Seconds, Instant

(* Seconds are ordered as the instants they stand for.                     *)
LEMMA SecondsOrdered ==
  ASSUME NEW m \in Int, NEW n \in Int
  PROVE  Instant(m) <= Instant(n) <=> m <= n
BY WallClockAssumption DEF Instant

---------------------------------------------------------------------------
(* What STS recognises was signed by someone.                              *)
LEMMA SignedBySomeone ==
  ASSUME NEW e, Authentic(e)
  PROVE  e.signed # NoSignature
BY DEF Authentic, AsSigned

(* An envelope that passes extraction and that STS would recognise, but    *)
(* for its Host, is read as what its caller signed (auth.go:170-326).      *)
LEMMA FaithfulExtraction ==
  ASSUME NEW e, ExtractCheck(e) = Accepted, AsSigned(e)
  PROVE  ExtractProof(e) = Meaning(e.signed)
<1> DEFINE s == e.signed
<1>1. CASE IsHeaderForm(e)
  <2>1. HeaderFormCheck(e) = Accepted
    BY <1>1 DEF ExtractCheck, Accepted, Refusal, BindJSONBody
  <2>2. s.form = "header" /\ HeaderValue(e.header, Authorization) = s.names
    BY <1>1 DEF AsSigned, Carries
  <2>3. AmzDate \in s.names /\ Binding \in s.names
    BY <2>1, <2>2 DEF HeaderFormCheck, SignedBinding, SingleSignedValue, Accepted, Refusal
  <2>4. /\ HeaderValue(e.header, AmzDate) = s.header[AmzDate]
        /\ HeaderValue(e.header, Binding) = s.header[Binding]
    BY <2>3 DEF AsSigned, Carries, AmzDate, Binding, Host
  <2> QED
    BY <1>1, <2>2, <2>4 DEF ExtractProof, HeaderFormProof, Meaning, AsSigned
<1>2. CASE ~IsHeaderForm(e)
  <2>1. PresignedFormCheck(e) = Accepted
    BY <1>2 DEF ExtractCheck, Accepted, Refusal, BindJSONBody
  <2>2. s.form # "header" /\ e.query = s.query /\ s.query.names = <<s.names>>
    BY <1>2 DEF AsSigned, Carries, IsHeaderForm, Single
  <2>3. Binding \in s.names
    BY <2>1, <2>2 DEF PresignedFormCheck, SignedBinding, SingleSignedValue, Accepted, Refusal
  <2>4. HeaderValue(e.header, Binding) = s.header[Binding]
    BY <2>3 DEF AsSigned, Carries, Binding, Host
  <2> QED
    BY <1>2, <2>2, <2>4 DEF ExtractProof, PresignedFormProof, Meaning, AsSigned
<1> QED BY <1>1, <1>2

---------------------------------------------------------------------------
(* The results of the checks.                                              *)
LEMMA ExtractResults ==
  ASSUME NEW e
  PROVE  ExtractCheck(e) \in
           {Accepted, Refusal(413, "body_too_large"), Refusal(400, "invalid_body"),
            Refusal(400, "invalid_signature"), Refusal(403, "binding_not_signed")}
<1>1. BindJSONBody(e.json) \in
        {Accepted, Refusal(413, "body_too_large"), Refusal(400, "invalid_body")}
  BY Zenon DEF BindJSONBody
<1>2. /\ HeaderFormCheck(e) \in
           {Accepted, Refusal(400, "invalid_signature"), Refusal(403, "binding_not_signed")}
      /\ PresignedFormCheck(e) \in
           {Accepted, Refusal(400, "invalid_signature"), Refusal(403, "binding_not_signed")}
  BY Zenon DEF HeaderFormCheck, PresignedFormCheck, SignedBinding
<1>3. ExtractCheck(e) \in
        {BindJSONBody(e.json), Refusal(400, "invalid_body"),
         HeaderFormCheck(e), PresignedFormCheck(e)}
  BY Zenon DEF ExtractCheck
<1> QED BY <1>1, <1>2, <1>3

LEMMA LocalResults ==
  ASSUME NEW c, NEW p, NEW t
  PROVE  LocalCheck(c, p, t) \in {"none", "binding_mismatch", "invalid_shape", "stale"}
BY Zenon DEF LocalCheck

---------------------------------------------------------------------------
(* A header map with one spelling and one value per name.                  *)
IsHeaderMap(h, names, value) ==
  /\ DOMAIN h = {<<n, 1>> : n \in names}
  /\ \A n \in names : h[<<n, 1>>] = <<value[n]>>

LEMMA HeadersWritten ==
  ASSUME NEW names, NEW value
  PROVE  IsHeaderMap(Headers(names, value), names, value)
BY DEF Headers, IsHeaderMap

(* It is read back as it was written.                                      *)
LEMMA HeadersRead ==
  ASSUME NEW h, NEW names, NEW value, NEW n, IsHeaderMap(h, names, value)
  PROVE  /\ n \in names => /\ HeaderValues(h, n) = {<<<<n, 1>>, 1>>}
                           /\ Single(HeaderValues(h, n))
                           /\ HeaderValue(h, n) = value[n]
         /\ n \notin names => HeaderValues(h, n) = {}
<1>1. DOMAIN h = {<<m, 1>> : m \in names}
  BY DEF IsHeaderMap
<1>2. \A m \in names : h[<<m, 1>>] = <<value[m]>>
  BY DEF IsHeaderMap
<1>3. {key \in DOMAIN h : key[1] = n} = IF n \in names THEN {<<n, 1>>} ELSE {}
  BY <1>1
<1>4. ASSUME n \in names
      PROVE  HeaderValues(h, n) = {<<<<n, 1>>, 1>>} /\ HeaderValue(h, n) = value[n]
  <2>1. DOMAIN h[<<n, 1>>] = {1}
    BY <1>2, <1>4
  <2>2. HeaderValues(h, n) = {<<<<n, 1>>, 1>>}
    BY <1>3, <1>4, <2>1 DEF HeaderValues
  <2>3. HeaderValue(h, n) = h[<<n, 1>>][1]
    <3> DEFINE o == The(HeaderValues(h, n))
    <3>1. o = <<<<n, 1>>, 1>>
      BY <2>2 DEF The
    <3>2. HeaderValue(h, n) = h[o[1]][o[2]]
      BY DEF HeaderValue
    <3> HIDE DEF o
    <3> QED BY <3>1, <3>2
  <2> QED BY <1>2, <1>4, <2>2, <2>3
<1>5. ASSUME n \notin names PROVE HeaderValues(h, n) = {}
  BY <1>3, <1>5 DEF HeaderValues
<1> QED BY <1>4, <1>5 DEF Single

(* The Host that is forwarded is its one value.                            *)
LEMMA HostForwarded ==
  ASSUME NEW e, NEW names, NEW value, IsHeaderMap(e.header, names, value), Host \in names
  PROVE  ForwardedHosts(e) = {value[Host]}
<1> DEFINE h == e.header
           keys == {k \in DOMAIN h : k[1] = Host /\ h[k] # << >>}
<1>1. DOMAIN h = {<<n, 1>> : n \in names} /\ h[<<Host, 1>>] = <<value[Host]>>
  BY DEF IsHeaderMap
<1> HIDE DEF h
<1>2. keys = {<<Host, 1>>}
  BY <1>1
<1>3. ForwardedHosts(e) = {h[k][1] : k \in keys}
  BY <1>2 DEF ForwardedHosts, h
<1> QED BY <1>1, <1>2, <1>3

---------------------------------------------------------------------------
(* Envelope e carries what was signed as s; for its Host and its URL       *)
(* anything may stand.                                                     *)
Carried(e, s, value) ==
  /\ e.json = "ok" /\ e.base64 = TRUE /\ e.signed = s
  /\ e.method = s.method /\ e.form = s.action /\ e.query = s.query
  /\ IsHeaderMap(e.header, s.names \cup (IF s.form = "header" THEN {Authorization} ELSE {}), value)
  /\ s.form = "header" => value[Authorization] = s.names
  /\ \A n \in s.names \ {Host} : value[n] = s.header[n]

(* What a client signs in header form is read by the server, and is what   *)
(* STS would recognise (proof.go:90-130 against auth.go:105-221).          *)
LEMMA HeaderFormReadable ==
  ASSUME NEW c, NEW t \in Int, NEW e, NEW value, Carried(e, SignHTTP(c, t), value)
  PROVE  ExtractCheck(e) = Accepted /\ AsSigned(e) /\ IsHeaderForm(e)
<1> DEFINE s == SignHTTP(c, t)
           names == {Host, ContentType, AmzDate, Binding}
<1> USE DEF Host, ContentType, AmzDate, Binding, Authorization
<1>1. /\ s.names = names /\ s.form = "header"
      /\ s.header[AmzDate] = Seconds(t)
  BY DEF SignHTTP
<1> HIDE DEF s
<1>2. /\ e.json = "ok" /\ e.base64 = TRUE /\ e.method = s.method /\ e.form = s.action
      /\ e.query = s.query /\ e.signed = s
      /\ IsHeaderMap(e.header, names \cup {Authorization}, value)
      /\ value[Authorization] = names
      /\ \A n \in names \ {Host} : value[n] = s.header[n]
  BY <1>1 DEF Carried, s
<1>3. \A n \in names \cup {Authorization} :
        /\ HeaderValues(e.header, n) = {<<<<n, 1>>, 1>>}
        /\ Single(HeaderValues(e.header, n))
        /\ HeaderValue(e.header, n) = value[n]
  BY <1>2, HeadersRead
<1>4. IsHeaderForm(e)
  BY <1>3 DEF IsHeaderForm
<1>5. HeaderValue(e.header, AmzDate) # Unparsable
  <2>1. Seconds(t) \in Int BY Truncation
  <2> QED BY <1>1, <1>2, <1>3, <2>1, InboundAssumption
<1>6. ExtractCheck(e) = Accepted
  <2>1. HeaderFormCheck(e) = Accepted
    <3>1. HeaderValue(e.header, Authorization) = names
      BY <1>2, <1>3
    <3>2. SingleSignedValue(e.header, names, AmzDate) /\ SingleSignedValue(e.header, names, Binding)
      BY <1>3 DEF SingleSignedValue
    <3> QED BY <1>3, <1>5, <3>1, <3>2 DEF HeaderFormCheck, SignedBinding
  <2>2. BindJSONBody(e.json) = Accepted
    BY <1>2 DEF BindJSONBody
  <2> QED BY <1>2, <1>4, <2>1, <2>2, Zenon DEF ExtractCheck
<1>7. AsSigned(e)
  <2>1. \A n \in names \ {Host} : Carries(e, n, s.header[n])
    BY <1>2, <1>3 DEF Carries
  <2>2. Carries(e, Authorization, s.names)
    BY <1>1, <1>2, <1>3 DEF Carries
  <2>3. s # NoSignature
    BY <1>1 DEF NoSignature
  <2> QED BY <1>1, <1>2, <2>1, <2>2, <2>3 DEF AsSigned
<1> QED BY <1>4, <1>6, <1>7

(* The same for the presigned form, provided that the URL parses and the   *)
(* expiry is one that validate accepts (proof.go:132-169 against           *)
(* auth.go:223-326).                                                       *)
LEMMA PresignedFormReadable ==
  ASSUME NEW c, NEW t \in Int, NEW e, NEW value, Carried(e, PresignHTTP(c, t), value),
         c.expiry \in Int, ExpiryFits(c.expiry)
  PROVE  /\ ParsesUntrimmed(e.url) => ExtractCheck(e) = Accepted
         /\ ~ParsesUntrimmed(e.url) => ExtractCheck(e) = Refusal(400, "invalid_signature")
         /\ AsSigned(e) /\ ~IsHeaderForm(e)
<1> DEFINE s == PresignHTTP(c, t)
           names == {Host, Binding}
<1> USE DEF Host, Binding, Authorization
<1>1. /\ s.names = names /\ s.form = "presigned"
      /\ s.query.algorithm = 1 /\ s.query.credential = 1 /\ s.query.signature = 1
      /\ s.query.names = <<names>>
      /\ s.query.date = <<Seconds(t)>> /\ s.query.expires = <<Seconds(c.expiry)>>
  BY DEF PresignHTTP, PresignedNames
<1> HIDE DEF s
<1>2. /\ e.json = "ok" /\ e.base64 = TRUE /\ e.method = s.method /\ e.form = s.action
      /\ e.query = s.query /\ e.signed = s
      /\ IsHeaderMap(e.header, names, value)
      /\ \A n \in names \ {Host} : value[n] = s.header[n]
  <2>1. s.names \cup (IF s.form = "header" THEN {Authorization} ELSE {}) = names
    BY <1>1
  <2> QED BY <1>1, <2>1 DEF Carried, s
<1>3. /\ \A n \in names : /\ Single(HeaderValues(e.header, n))
                          /\ HeaderValue(e.header, n) = value[n]
      /\ HeaderValues(e.header, Authorization) = {}
  <2>1. IsHeaderMap(e.header, names, value) /\ Authorization \notin names
    BY <1>2
  <2> HIDE DEF names
  <2> QED BY <2>1, HeadersRead
<1>4. ~IsHeaderForm(e)
  BY <1>3 DEF IsHeaderForm
<1>5. Seconds(t) # Unparsable /\ ExpiresInRange(Seconds(c.expiry))
  <2>1. Seconds(t) \in Int /\ Seconds(c.expiry) \in Int
    BY Truncation
  <2>2. Instant(Seconds(c.expiry)) = c.expiry /\ Instant(0) = 0
    BY WholeSeconds, WallClockAssumption DEF ExpiryFits, Instant
  <2>3. Seconds(c.expiry) > 0 /\ Seconds(c.expiry) <= MaxPresignExpirySeconds
    BY <2>1, <2>2, SecondsOrdered, InboundAssumption DEF ExpiryFits
  <2> QED BY <2>1, <2>3, InboundAssumption DEF ExpiresInRange
<1>6. ExtractCheck(e) = PresignedFormCheck(e)
  <2>1. BindJSONBody(e.json) = Accepted
    BY <1>2 DEF BindJSONBody
  <2> QED BY <1>2, <1>4, <2>1, Zenon DEF ExtractCheck
<1>7. SignedBinding(e.header, names) = Accepted
  BY <1>3 DEF SignedBinding, SingleSignedValue
<1>8. ASSUME ParsesUntrimmed(e.url) PROVE PresignedFormCheck(e) = Accepted
  <2> DEFINE q == e.query
  <2>1. /\ q.algorithm = 1 /\ q.credential = 1 /\ q.signature = 1
        /\ Len(q.names) = 1 /\ q.names[1] = names /\ names # {}
        /\ Len(q.date) = 1 /\ q.date[1] = Seconds(t)
        /\ Len(q.expires) = 1 /\ q.expires[1] = Seconds(c.expiry)
    BY <1>1, <1>2
  <2>2. e.url.parses /\ ~e.url.padded
    BY <1>8 DEF ParsesUntrimmed
  <2> HIDE DEF q, names
  <2> QED BY Zenon, <1>5, <1>7, <2>1, <2>2 DEF PresignedFormCheck, q
<1>9. ASSUME ~ParsesUntrimmed(e.url) PROVE PresignedFormCheck(e) = Refusal(400, "invalid_signature")
  BY Zenon, <1>9 DEF PresignedFormCheck, ParsesUntrimmed
<1>10. AsSigned(e)
  <2>1. Carries(e, Binding, s.header[Binding])
    BY <1>2, <1>3 DEF Carries
  <2>2. s # NoSignature
    BY <1>1 DEF NoSignature
  <2> QED BY <1>1, <1>2, <1>4, <2>1, <2>2 DEF AsSigned
<1> QED BY <1>4, <1>6, <1>8, <1>9, <1>10

(* The envelopes of the Go client carry what it signed.                    *)
LEMMA BuiltCarries ==
  ASSUME NEW c, NEW t
  PROVE  /\ \E value :
              /\ Carried(BuildProof(c, t), SignHTTP(c, t), value)
              /\ value[Host] = SignedHost(c.endpoint)
         /\ \E value :
              /\ Carried(BuildPresignedProof(c, t), PresignHTTP(c, t), value)
              /\ value[Host] = HostPort(c.endpoint)
<1> USE DEF Host, ContentType, AmzDate, Binding, Authorization
<1>1. \E value : /\ Carried(BuildProof(c, t), SignHTTP(c, t), value)
                 /\ value[Host] = SignedHost(c.endpoint)
  <2> DEFINE s == SignHTTP(c, t)
             e == BuildProof(c, t)
             names == s.names \cup {Authorization}
             value == [n \in names |-> IF n = Authorization THEN s.names ELSE s.header[n]]
  <2>1. /\ s.names = {Host, ContentType, AmzDate, Binding} /\ s.form = "header"
        /\ s.header[Host] = SignedHost(c.endpoint)
    BY DEF SignHTTP
  <2> HIDE DEF s
  <2>2. /\ e.json = "ok" /\ e.base64 = TRUE /\ e.signed = s
        /\ e.method = s.method /\ e.form = s.action /\ e.query = s.query
        /\ e.header = Headers(names, value)
    BY DEF BuildProof, EnvelopeFromRequest, s
  <2>3. IsHeaderMap(e.header, names, value)
    BY <2>2, HeadersWritten
  <2>4. /\ value[Authorization] = s.names
        /\ \A n \in s.names : value[n] = s.header[n]
    BY <2>1
  <2>5. Carried(e, s, value) /\ value[Host] = SignedHost(c.endpoint)
    <3> HIDE DEF value, e
    <3> QED BY <2>1, <2>2, <2>3, <2>4 DEF Carried
  <2> QED BY <2>5 DEF s
<1>2. \E value : /\ Carried(BuildPresignedProof(c, t), PresignHTTP(c, t), value)
                 /\ value[Host] = HostPort(c.endpoint)
  <2> DEFINE s == PresignHTTP(c, t)
             e == BuildPresignedProof(c, t)
             names == {Host, Binding}
             value == [n \in names |-> IF n = Host THEN HostPort(c.endpoint) ELSE c.binding]
  <2>1. s.names = names /\ s.form = "presigned" /\ s.header[Binding] = c.binding
    BY DEF PresignHTTP, PresignedNames
  <2> HIDE DEF s
  <2>2. /\ e.json = "ok" /\ e.base64 = TRUE /\ e.signed = s
        /\ e.method = s.method /\ e.form = s.action /\ e.query = s.query
        /\ e.header = Headers(names, value)
    BY DEF BuildPresignedProof, PresignedEnvelope, s
  <2>3. IsHeaderMap(e.header, names, value)
    BY <2>2, HeadersWritten
  <2>4. \A n \in s.names \ {Host} : value[n] = s.header[n]
    BY <2>1
  <2>5. value[Host] = HostPort(c.endpoint)
    OBVIOUS
  <2>6. s.names \cup (IF s.form = "header" THEN {Authorization} ELSE {}) = names
    BY <2>1
  <2>7. Carried(e, s, value) /\ value[Host] = HostPort(c.endpoint)
    <3> HIDE DEF value, e, names
    <3> QED BY <2>1, <2>2, <2>3, <2>4, <2>5, <2>6 DEF Carried
  <2> QED BY <2>7 DEF s
<1> QED BY <1>1, <1>2

(* A signed request has the right shape.                                   *)
LEMMA SignedShape ==
  ASSUME NEW c, NEW t, NEW s \in {SignHTTP(c, t), PresignHTTP(c, t)}
  PROVE  /\ s.signer = c.caller
         /\ s.header[Host] = SignedHost(c.endpoint)
         /\ LET p == Meaning(s)
            IN  /\ p.binding = c.binding
                /\ p.method = ExpectedMethod(p)
                /\ p.action = GetCallerIdentity
<1> USE DEF AmzDate, Host, ContentType, Binding, SoleAction, ExpectedMethod, Meaning
<1>1. CASE s = SignHTTP(c, t)
  BY <1>1 DEF SignHTTP
<1>2. CASE s = PresignHTTP(c, t)
  BY <1>2 DEF PresignHTTP
<1> QED BY <1>1, <1>2

(* The signer and the envelope speak of the same Host.                     *)
Undisguised(c) == c.form = "presigned" => SignedHost(c.endpoint) = HostPort(c.endpoint)

LEMMA EnvelopeFields ==
  ASSUME NEW c, NEW t
  PROVE  /\ Build(c, t).url = c.endpoint
         /\ Build(c, t).signed.signer = c.caller
         /\ Build(c, t).signed =
              IF c.form = "presigned" THEN PresignHTTP(c, t) ELSE SignHTTP(c, t)
BY DEF Build, BuildProof, BuildPresignedProof, EnvelopeFromRequest, PresignedEnvelope,
       SignHTTP, PresignHTTP

(* Load only returns configurations from which a readable request is built *)
(* (config.go:207-268).                                                    *)
LEMMA Readable ==
  ASSUME NEW c, NEW t \in Int, Validates(c), c.expiry \in Int
  PROVE  /\ ExtractCheck(Build(c, t)) = Accepted
         /\ AsSigned(Build(c, t))
         /\ ForwardedHosts(Build(c, t)) =
              {IF c.form = "presigned" THEN HostPort(c.endpoint) ELSE SignedHost(c.endpoint)}
         /\ Undisguised(c) => Authentic(Build(c, t))
         /\ ExtractProof(Build(c, t)) = Meaning(Build(c, t).signed)
<1> DEFINE e == Build(c, t)
<1>1. e.url = c.endpoint /\ e.signed.header[Host] = SignedHost(c.endpoint)
  BY EnvelopeFields, SignedShape
<1>2. CASE c.form = "presigned"
  <2>1. e = BuildPresignedProof(c, t)
    BY <1>2 DEF Build
  <2>2. PICK value : Carried(e, PresignHTTP(c, t), value) /\ value[Host] = HostPort(c.endpoint)
    BY <2>1, BuiltCarries
  <2> HIDE DEF e
  <2>3. ExtractCheck(e) = Accepted /\ AsSigned(e)
    BY <1>1, <1>2, <2>2, PresignedFormReadable DEF Validates
  <2>4. IsHeaderMap(e.header, {Host, Binding}, value)
    BY <2>2 DEF Carried, PresignHTTP, PresignedNames
  <2>5. ForwardedHosts(e) = {HostPort(c.endpoint)}
    BY <2>2, <2>4, HostForwarded
  <2> QED BY <1>1, <1>2, <2>3, <2>5, FaithfulExtraction DEF Authentic, HostAsSigned, Undisguised, e
<1>3. CASE c.form = "header"
  <2>1. e = BuildProof(c, t)
    BY <1>3 DEF Build
  <2>2. PICK value : Carried(e, SignHTTP(c, t), value) /\ value[Host] = SignedHost(c.endpoint)
    BY <2>1, BuiltCarries
  <2> HIDE DEF e
  <2>3. ExtractCheck(e) = Accepted /\ AsSigned(e)
    BY <2>2, HeaderFormReadable
  <2>4. IsHeaderMap(e.header, {Host, ContentType, AmzDate, Binding} \cup {Authorization}, value)
    BY <2>2 DEF Carried, SignHTTP
  <2>5. ForwardedHosts(e) = {SignedHost(c.endpoint)}
    BY <2>2, <2>4, HostForwarded
  <2> QED BY <1>1, <1>3, <2>3, <2>5, FaithfulExtraction DEF Authentic, HostAsSigned, e
<1> QED BY <1>2, <1>3 DEF Validates

---------------------------------------------------------------------------
(* The name of a standard host does not end with a dot.                    *)
LEMMA StandardHostsUndotted ==
  ASSUME NEW h \in Seq(STRING), RegionForSTSHost(h) # NoRegion
  PROVE  TrimDot(h) = h
<1> DEFINE rest == SubSeq(h, 3, Len(h))
<1>1. CASE h = DefaultEndpoint.host
  BY <1>1 DEF DefaultEndpoint, Url, TrimDot
<1>2. CASE h # DefaultEndpoint.host
  <2>1. rest \in {<<"amazonaws", "com">>, <<"amazonaws", "com", "cn">>, <<"api", "aws">>}
    BY <1>2 DEF RegionForSTSHost
  <2>2. Len(rest) \in {2, 3} /\ rest[Len(rest)] # ""
    <3>1. ASSUME NEW a, NEW b, b # "" PROVE LET s == <<a, b>> IN Len(s) = 2 /\ s[Len(s)] # ""
      BY <3>1
    <3>2. ASSUME NEW a, NEW b, NEW d, d # "" PROVE LET s == <<a, b, d>> IN Len(s) = 3 /\ s[Len(s)] # ""
      BY <3>2
    <3> HIDE DEF rest
    <3>3. CASE rest = <<"amazonaws", "com">> BY <3>1, <3>3
    <3>4. CASE rest = <<"amazonaws", "com", "cn">> BY <3>2, <3>4
    <3>5. CASE rest = <<"api", "aws">> BY <3>1, <3>5
    <3> QED BY <2>1, <3>3, <3>4, <3>5
  <2>3. /\ Len(h) \in Nat
        /\ Len(h) < 3 => Len(rest) = 0
        /\ Len(h) >= 3 => Len(rest) = Len(h) - 2 /\ rest[Len(rest)] = h[Len(h)]
    OBVIOUS
  <2>4. Len(h) >= 3
    <3> DEFINE n == Len(h)
               l == Len(rest)
    <3>1. n \in Nat /\ l \in {2, 3} /\ (n < 3 => l = 0)
      BY <2>2, <2>3
    <3> HIDE DEF n, l
    <3>2. n >= 3
      BY <3>1
    <3> QED BY <3>2 DEF n
  <2> QED BY <2>2, <2>3, <2>4 DEF TrimDot
<1> QED BY <1>1, <1>2

---------------------------------------------------------------------------
(* The decision on a token of one configuration under another one          *)
(* (verify_service.go:27-52).                                              *)
LEMMA OwnToken ==
  ASSUME NEW c, NEW d, NEW k, NEW who, NEW m, NEW t
  PROVE  LET tok == IssueCredential(c, k, who, m)
         IN  VerifyToken(d, tok, t) = "valid" <=>
               /\ c.secret = d.secret /\ c.iss = d.iss /\ c.aud = d.aud
               /\ ~(t >= Instant(Seconds(m + c.ttl)))
<1> DEFINE tok == IssueCredential(c, k, who, m)
<1>1. /\ tok.segments = 3 /\ tok.header /\ tok.payload /\ tok.key = c.secret
      /\ tok.claims.iss = c.iss /\ tok.claims.aud = c.aud
      /\ tok.claims.exp = Seconds(m + c.ttl)
  BY DEF IssueCredential, Claims
<1>2. Inspect(d, tok) = IF c.secret = d.secret THEN "valid" ELSE "rejected"
  BY <1>1 DEF Inspect
<1>3. Expired(tok.claims, t) <=> t >= Instant(Seconds(m + c.ttl))
  BY <1>1 DEF Expired
<1>4. /\ "valid" # "rejected" /\ "valid" # "token_expired"
      /\ "valid" # "issuer_mismatch" /\ "valid" # "audience_mismatch"
  OBVIOUS
<1> HIDE DEF tok
<1>5. CASE c.secret # d.secret
  BY Zenon, <1>2, <1>4, <1>5 DEF VerifyToken, tok
<1>6. CASE c.secret = d.secret
  <2>1. Inspect(d, tok) = "valid" BY <1>2, <1>6
  <2> QED BY Zenon, <1>1, <1>3, <1>4, <1>6, <2>1 DEF VerifyToken, tok
<1> QED BY <1>5, <1>6

(* The answers of /verify.                                                 *)
LEMMA VerdictStatus ==
  /\ WriteVerifyAnswer("valid") = Refusal(200, "none")
  /\ \A o : WriteVerifyAnswer(o).status = 200 => o = "valid"
<1>1. WriteVerifyAnswer("valid") = Refusal(200, "none")
  BY Zenon DEF WriteVerifyAnswer
<1>2. ASSUME NEW o, o # "valid" PROVE WriteVerifyAnswer(o).status = 401
  <2>1. WriteVerifyAnswer(o) \in {Refusal(401, "invalid_token"), Refusal(401, o)}
    BY Zenon, <1>2 DEF WriteVerifyAnswer
  <2> QED BY <2>1 DEF Refusal
<1> QED BY <1>1, <1>2
===========================================================================
