---------------------------- MODULE WebhooksProofs ----------------------------
(***************************************************************************)
(* Proofs of the safety properties of Webhooks, for any connectors, posts, *)
(* clocks of senders, window and range of durations.                       *)
(*                                                                         *)
(* Inv says where each delivery comes from, a request its platform signed, *)
(* and that its verdict and envelope are those of Verify and Decode. The   *)
(* properties follow from it one delivery at a time.                       *)
(***************************************************************************)
EXTENDS Webhooks, SequenceTheorems, TLAPS

\* A request as the platform of conn makes it.
Made(conn, ts, post) ==
  [to |-> conn, ts |-> ts, body |-> <<post>>, sig |-> Sign(conn, ts, <<post>>)]

Genuine(s) ==
  /\ s.to \in Connectors
  /\ \E ts \in {NoTime} \cup {Time(t) : t \in Int}, post \in Posts[s.to] :
       /\ s = Made(s.to, ts, post)
       /\ ts = NoTime <=> ~Timed(s.to)

\* The envelope of a delivery with this verdict.
Produced(verdict, r) ==
  IF verdict = "ok" THEN Decode(r.to, r.body) ELSE NoEnvelope

Judgement(j) ==
  /\ j.at \in 0..MaxTime
  /\ \E s \in signed : j.req \in Arrivals(s, j.at)
  /\ j.verdict = Verify(j.req.to, j.req, j.at)
  /\ j.envelope = Produced(j.verdict, j.req)

Inv ==
  /\ clock \in 0..MaxTime
  /\ \A s \in signed : Genuine(s)
  /\ \A j \in judged : Judgement(j)

-----------------------------------------------------------------------------
(***************************************************************************)
(* Inv is inductive                                                        *)
(***************************************************************************)
\* Nothing has been signed or judged at first.
LEMMA Initially == Init => Inv
BY WebhooksAssumption DEF Init, Inv

\* A dated header has two pieces, of digits, which are read back as the time.
LEMMA TimeIsNumber ==
  ASSUME NEW t \in Int
  PROVE  /\ Time(t) # NoTime
         /\ IsNumber(Time(t))
         /\ ParsedTime(Time(t)) = t
<1>1. Len(Time(t)) = 2 /\ Len(NoTime) = 0 /\ DOMAIN Time(t) = 1..2
  BY DEF Time, NoTime
<1>2. Time(t)[1] = Digits(t \div 10) /\ Time(t)[2] = Digits(t % 10)
  BY DEF Time
<1>3. t = 10 * (t \div 10) + (t % 10)
  OBVIOUS
<1>4. IsNumber(Time(t))
  BY <1>1, <1>2 DEF IsNumber, Digits
<1>5. ParsedTime(Time(t)) = t
  BY <1>1, <1>2, <1>3 DEF ParsedTime, Digits
<1> QED BY <1>1, <1>4, <1>5

\* A request that a platform signs is genuine.
LEMMA SentIsGenuine ==
  ASSUME Inv, NEW conn \in Connectors, Send(conn)
  PROVE  Inv'
<1>1. PICK post \in Posts[conn], offset \in Offsets :
        LET ts == IF Timed(conn) THEN Time(clock + offset) ELSE NoTime
        IN  signed' = signed \cup
              {[to |-> conn, ts |-> ts, body |-> <<post>>, sig |-> Sign(conn, ts, <<post>>)]}
  BY DEF Send
<1> DEFINE ts == IF Timed(conn) THEN Time(clock + offset) ELSE NoTime
           new == Made(conn, ts, post)
<1>2. signed' = signed \cup {new}
  BY <1>1 DEF Made
<1>3. ts \in {NoTime} \cup {Time(t) : t \in Int} /\ (ts = NoTime <=> ~Timed(conn))
  <2>1. clock + offset \in Int
    BY WebhooksAssumption DEF Inv
  <2>2. Time(clock + offset) # NoTime
    BY <2>1, TimeIsNumber
  <2> QED BY <2>1, <2>2
<1>4. Genuine(new)
  <2>1. new.to = conn
    BY DEF Made
  <2> HIDE DEF ts
  <2> QED BY <1>3, <2>1 DEF Genuine
<1>5. \A j \in judged : Judgement(j)'
  BY <1>2 DEF Inv, Judgement, Send
<1>6. \A s \in signed' : Genuine(s)
  BY <1>2, <1>4 DEF Inv
<1> QED BY <1>5, <1>6 DEF Inv, Send

\* A delivery is judged by Verify at the time it arrives.
LEMMA DeliveryIsJudged ==
  ASSUME Inv, Deliver
  PROVE  Inv'
<1>0. PICK req \in signed : \E r \in Arrivals(req, clock) :
        judged' = judged \cup
          {[req |-> r, at |-> clock, verdict |-> Verify(r.to, r, clock),
            envelope |-> Produced(Verify(r.to, r, clock), r)]}
  BY DEF Deliver, Produced
<1>1. PICK r \in Arrivals(req, clock) :
        judged' = judged \cup
          {[req |-> r, at |-> clock, verdict |-> Verify(r.to, r, clock),
            envelope |-> Produced(Verify(r.to, r, clock), r)]}
  BY <1>0
<1> DEFINE new == [req |-> r, at |-> clock, verdict |-> Verify(r.to, r, clock),
                   envelope |-> Produced(Verify(r.to, r, clock), r)]
<1>2. UNCHANGED <<clock, signed>>
  BY DEF Deliver
<1>3. Judgement(new)'
  BY <1>2 DEF Inv, Judgement
<1>4. \A j \in judged : Judgement(j)'
  BY <1>2 DEF Inv, Judgement
<1> QED BY <1>1, <1>2, <1>3, <1>4 DEF Inv

\* Every step preserves Inv: requests and deliveries are only ever added.
LEMMA Inductive == Inv /\ [Next]_vars => Inv'
<1> SUFFICES ASSUME Inv, [Next]_vars PROVE Inv'
  OBVIOUS
<1>1. CASE Tick
  <2>1. clock' \in 0..MaxTime /\ UNCHANGED <<signed, judged>>
    BY <1>1, WebhooksAssumption DEF Tick, Inv
  <2> QED BY <2>1 DEF Inv, Judgement
<1>2. CASE Deliver
  BY <1>2, DeliveryIsJudged
<1>3. ASSUME NEW conn \in Connectors, Send(conn) PROVE Inv'
  BY <1>3, SentIsGenuine
<1>4. CASE UNCHANGED vars
  BY <1>4 DEF Inv, Judgement, vars
<1> QED BY <1>1, <1>2, <1>3, <1>4 DEF Next

\* Inv holds throughout.
LEMMA Invariant == Spec => []Inv
BY Initially, Inductive, PTL DEF Spec

-----------------------------------------------------------------------------
(***************************************************************************)
(* What the operators compute                                              *)
(***************************************************************************)

\* CheckTimestampSkew accepts exactly the window, and the times so far ahead
\* that Sub saturates.
LEMMA SkewWindow ==
  ASSUME NEW t \in Int, NEW now \in Int
  PROVE  SkewAccepted(t, now) <=> Within(t, now) \/ t - now > MaxDuration
BY WebhooksAssumption DEF SkewAccepted, Sub, Negated, MinDuration, Within

\* Each connector has the verifier of its platform.
LEMMA VerifyIs ==
  ASSUME NEW conn, NEW r, NEW now
  PROVE  /\ Platform[conn] = "slack" => Verify(conn, r, now) = slackVerify(conn, r, now)
         /\ Platform[conn] = "discord" => Verify(conn, r, now) = discordVerify(conn, r)
         /\ Platform[conn] = "whatsapp" => Verify(conn, r, now) = whatsappVerify(conn, r)
         /\ Platform[conn] = "imessage" => Verify(conn, r, now) = imessageVerify(conn, r)
BY ZenonT(30) DEF Verify

\* Every verifier that accepts has compared the signature.
LEMMA AcceptedMatches ==
  ASSUME NEW conn \in Connectors, NEW r, NEW now, Verify(conn, r, now) = "ok"
  PROVE  SignatureMatches(conn, r)
<1>1. Platform[conn] \in {"slack", "discord", "whatsapp", "imessage"}
  BY WebhooksAssumption
<1>2. CASE Platform[conn] = "slack"
  <2>1. slackVerify(conn, r, now) = "ok"
    BY <1>2, VerifyIs
  <2> QED BY <2>1 DEF slackVerify
<1>3. CASE Platform[conn] = "discord"
  <2>1. discordVerify(conn, r) = "ok"
    BY <1>3, VerifyIs
  <2> QED BY <2>1 DEF discordVerify
<1>4. CASE Platform[conn] = "whatsapp"
  <2>1. whatsappVerify(conn, r) = "ok"
    BY <1>4, VerifyIs
  <2> QED BY <2>1 DEF whatsappVerify
<1>5. CASE Platform[conn] = "imessage"
  <2>1. imessageVerify(conn, r) = "ok"
    BY <1>5, VerifyIs
  <2> QED BY <2>1 DEF imessageVerify
<1> QED BY <1>1, <1>2, <1>3, <1>4, <1>5

\* The errors of the verifiers, and success.
Verdicts == {"ok", "missing headers", "missing header", "bad timestamp",
             "skew", "no prefix", "bad signature", "mismatch"}

\* Verify returns one of them.
LEMMA VerdictType ==
  ASSUME NEW conn \in Connectors, NEW r, NEW now
  PROVE  Verify(conn, r, now) \in Verdicts
<1>1. Platform[conn] \in {"slack", "discord", "whatsapp", "imessage"}
  BY WebhooksAssumption
<1>2. /\ slackVerify(conn, r, now) \in Verdicts
      /\ discordVerify(conn, r) \in Verdicts
      /\ whatsappVerify(conn, r) \in Verdicts
      /\ imessageVerify(conn, r) \in Verdicts
  BY DEF slackVerify, discordVerify, whatsappVerify, imessageVerify, Verdicts
<1> QED BY <1>1, <1>2, VerifyIs

\* Those of the platforms with a timestamp have seen its header, and Slack's has
\* read a number there.
LEMMA AcceptedNumber ==
  ASSUME NEW conn, NEW r, NEW now, Verify(conn, r, now) = "ok", Platform[conn] = "slack"
  PROVE  IsNumber(r.ts)
<1>1. slackVerify(conn, r, now) = "ok"
  BY VerifyIs
<1> QED BY <1>1 DEF slackVerify

\* The thread of a post is the one it belongs to.
LEMMA ThreadIsRoot ==
  ASSUME NEW conn \in Connectors, NEW post \in Posts[conn]
  PROVE  Thread(post) = post.root
BY WebhooksAssumption DEF Thread

\* A body that holds a post decodes to its envelope.
LEMMA PostDecodes ==
  ASSUME NEW conn \in Connectors, NEW post \in Posts[conn], Platform[conn] = "slack"
  PROVE  Decode(conn, <<post>>) = [id |-> post.event,
                                   conversation |-> <<post.channel, post.root>>]
<1>1. post.kind = "post"
  BY WebhooksAssumption DEF Post
<1>2. Len(<<post>>) = 1 /\ <<post>>[1] = post
  OBVIOUS
<1>3. Decode(conn, <<post>>) = Envelope(post)
  BY <1>1, <1>2 DEF Decode, IsPost
<1> QED BY <1>3, ThreadIsRoot DEF Envelope

-----------------------------------------------------------------------------
(***************************************************************************)
(* What a signed text says of the request it is taken from                 *)
(***************************************************************************)

\* The pieces that texts are made of.
Pieces == {Digits(n) : n \in Int} \cup {Mark("v0:"), Mark(":"), [kind |-> "other"]}
          \cup UNION {Posts[conn] : conn \in Connectors}

\* A text that a mark divides, and a text without that mark.
Divided(h, m, b) == h \o <<m>> \o b
Without(h, m) == \A i \in 1..Len(h) : h[i] # m

\* The first place of a mark divides a text: if it is in neither of two
\* beginnings, equal texts have equal beginnings and equal ends.
LEMMA FirstMark ==
  ASSUME NEW S, NEW m \in S, NEW h \in Seq(S), NEW k \in Seq(S),
         NEW b \in Seq(S), NEW c \in Seq(S),
         Without(h, m), Without(k, m), Divided(h, m, b) = Divided(k, m, c)
  PROVE  h = k /\ b = c
<1> USE DEF Without
<1> DEFINE x == h \o <<m>> \o b
           y == k \o <<m>> \o c
<1>1. /\ Len(x) = Len(h) + 1 + Len(b)
      /\ \A i \in 1..Len(h) : x[i] = h[i]
      /\ x[Len(h) + 1] = m
      /\ \A i \in 1..Len(b) : x[Len(h) + 1 + i] = b[i]
  OBVIOUS
<1>2. /\ Len(y) = Len(k) + 1 + Len(c)
      /\ \A i \in 1..Len(k) : y[i] = k[i]
      /\ y[Len(k) + 1] = m
      /\ \A i \in 1..Len(c) : y[Len(k) + 1 + i] = c[i]
  OBVIOUS
<1>3. x = y
  BY DEF Divided
<1>4. Len(h) \in Nat /\ Len(k) \in Nat /\ Len(b) \in Nat /\ Len(c) \in Nat
  OBVIOUS
<1> HIDE DEF x, y
<1>5. ~(Len(h) < Len(k))
  <2> SUFFICES ASSUME Len(h) < Len(k) PROVE FALSE
    OBVIOUS
  <2>1. Len(h) + 1 \in 1..Len(k)
    BY <1>4
  <2> QED BY <1>1, <1>2, <1>3, <2>1
<1>6. ~(Len(k) < Len(h))
  <2> SUFFICES ASSUME Len(k) < Len(h) PROVE FALSE
    OBVIOUS
  <2>1. Len(k) + 1 \in 1..Len(h)
    BY <1>4
  <2> QED BY <1>1, <1>2, <1>3, <2>1
<1>7. Len(h) = Len(k)
  BY <1>4, <1>5, <1>6
<1>8. h = k
  <2>1. \A i \in 1..Len(h) : h[i] = k[i]
    BY <1>1, <1>2, <1>3, <1>7
  <2> QED BY <1>7, <2>1, SeqEqual
<1>9. b = c
  <2>1. Len(b) = Len(c)
    BY <1>1, <1>2, <1>3, <1>4, <1>7
  <2>2. \A i \in 1..Len(b) : b[i] = c[i]
    BY <1>1, <1>2, <1>3, <1>7, <2>1
  <2> QED BY <2>1, <2>2, SeqEqual
<1> QED BY <1>8, <1>9

\* Slack's message can be read in one way only: a timestamp has no colon.
LEMMA SlackTextIsUnambiguous ==
  ASSUME NEW ts \in Seq(Pieces), NEW body \in Seq(Pieces), IsNumber(ts),
         NEW us \in Seq(Pieces), NEW text \in Seq(Pieces), IsNumber(us),
         SignedText("slack", ts, body) = SignedText("slack", us, text)
  PROVE  ts = us /\ body = text
<1> DEFINE v == Mark("v0:")
           colon == Mark(":")
           h == <<v>> \o ts
           k == <<v>> \o us
<1>1. v \in Pieces /\ colon \in Pieces
  BY DEF Pieces
<1>2. v # colon
  BY DEF Mark
<1>3. \A i \in 1..Len(ts) : ts[i] # colon
  BY DEF IsNumber, Mark
<1>4. \A i \in 1..Len(us) : us[i] # colon
  BY DEF IsNumber, Mark
<1>5. h \o <<colon>> \o body = k \o <<colon>> \o text
  BY DEF SignedText
<1> HIDE DEF v, colon
<1>6. /\ h \in Seq(Pieces) /\ Len(h) = Len(ts) + 1
      /\ h[1] = v /\ \A i \in 1..Len(ts) : h[i + 1] = ts[i]
  BY <1>1
<1>7. /\ k \in Seq(Pieces) /\ Len(k) = Len(us) + 1
      /\ k[1] = v /\ \A i \in 1..Len(us) : k[i + 1] = us[i]
  BY <1>1
<1> HIDE DEF h, k
<1>8. \A i \in 1..Len(h) : h[i] # colon
  <2> SUFFICES ASSUME NEW i \in 1..Len(h) PROVE h[i] # colon
    OBVIOUS
  <2>1. CASE i = 1
    BY <1>2, <1>6, <2>1
  <2>2. CASE i # 1
    <3>1. i - 1 \in 1..Len(ts) /\ h[(i - 1) + 1] = ts[i - 1]
      BY <1>6, <2>2
    <3> QED BY <1>3, <3>1
  <2> QED BY <2>1, <2>2
<1>9. \A i \in 1..Len(k) : k[i] # colon
  <2> SUFFICES ASSUME NEW i \in 1..Len(k) PROVE k[i] # colon
    OBVIOUS
  <2>1. CASE i = 1
    BY <1>2, <1>7, <2>1
  <2>2. CASE i # 1
    <3>1. i - 1 \in 1..Len(us) /\ k[(i - 1) + 1] = us[i - 1]
      BY <1>7, <2>2
    <3> QED BY <1>4, <3>1
  <2> QED BY <2>1, <2>2
<1>10. h = k /\ body = text
  <2>1. h \in Seq(Pieces) /\ k \in Seq(Pieces) /\ colon \in Pieces
    BY <1>1, <1>6, <1>7
  <2>2. Divided(h, colon, body) = Divided(k, colon, text)
    BY <1>5 DEF Divided
  <2>3. Without(h, colon) /\ Without(k, colon)
    BY <1>8, <1>9 DEF Without
  <2> QED BY <2>1, <2>2, <2>3, FirstMark
<1>11. ts = us
  <2>1. Len(ts) = Len(us)
    BY <1>6, <1>7, <1>10
  <2>2. \A i \in 1..Len(ts) : ts[i] = us[i]
    BY <1>6, <1>7, <1>10, <2>1
  <2> QED BY <2>1, <2>2, SeqEqual
<1> QED BY <1>10, <1>11

-----------------------------------------------------------------------------
(***************************************************************************)
(* Arrivals                                                                *)
(***************************************************************************)

\* The fields of a genuine request.
LEMMA GenuineFields ==
  ASSUME NEW s, Genuine(s)
  PROVE  /\ s.to \in Connectors
         /\ \E post \in Posts[s.to] : s.body = <<post>>
         /\ \E ts \in {NoTime} \cup {Time(t) : t \in Int} :
              s.ts = ts /\ (ts = NoTime <=> ~Timed(s.to))
         /\ s = [to |-> s.to, ts |-> s.ts, body |-> s.body, sig |-> s.sig]
         /\ s.sig = [header |-> Platform[s.to], well_formed |-> TRUE, key |-> s.to,
                     over |-> SignedText(Platform[s.to], s.ts, s.body)]
         /\ s.ts \in Seq(Pieces) /\ s.body \in Seq(Pieces)
<1>1. PICK ts \in {NoTime} \cup {Time(t) : t \in Int}, post \in Posts[s.to] :
        /\ s = Made(s.to, ts, post)
        /\ ts = NoTime <=> ~Timed(s.to)
  BY DEF Genuine
<1>2. s = [to |-> s.to, ts |-> ts, body |-> <<post>>, sig |-> Sign(s.to, ts, <<post>>)]
  BY <1>1 DEF Made
<1>3. /\ s.ts = ts /\ s.body = <<post>> /\ s.sig = Sign(s.to, ts, <<post>>)
      /\ s.to \in Connectors
  BY <1>2 DEF Genuine
<1>4. s.ts \in Seq(Pieces)
  <2>1. CASE ts = NoTime
    BY <1>3, <2>1 DEF NoTime
  <2>2. ASSUME NEW t \in Int, ts = Time(t) PROVE s.ts \in Seq(Pieces)
    <3>1. Digits(t \div 10) \in Pieces /\ Digits(t % 10) \in Pieces
      BY DEF Pieces
    <3> QED BY <1>3, <2>2, <3>1 DEF Time
  <2> QED BY <2>1, <2>2
<1>5. s.body \in Seq(Pieces)
  <2>1. post \in Pieces
    BY <1>3 DEF Pieces
  <2> QED BY <1>3, <2>1
<1>6. s.sig = [header |-> Platform[s.to], well_formed |-> TRUE, key |-> s.to,
               over |-> SignedText(Platform[s.to], s.ts, s.body)]
  BY <1>3 DEF Sign
<1> QED BY <1>1, <1>2, <1>3, <1>4, <1>5, <1>6

\* What can happen to a request on its way.
LEMMA ArrivalFields ==
  ASSUME NEW s, Genuine(s), NEW now \in Int, NEW r \in Arrivals(s, now)
  PROVE  /\ r.to \in Connectors
         /\ r.sig = s.sig \/ ~r.sig.well_formed
         /\ r.ts \in Seq(Pieces) /\ r.body \in Seq(Pieces)
<1>1. /\ s.to \in Connectors /\ s.ts \in Seq(Pieces) /\ s.body \in Seq(Pieces)
      /\ s = [to |-> s.to, ts |-> s.ts, body |-> s.body, sig |-> s.sig]
  BY GenuineFields
<1>2. CASE r \in {s} \cup {[s EXCEPT !.to = conn] : conn \in Connectors}
  BY <1>1, <1>2
<1>3. CASE r \in {[s EXCEPT !.ts = ts] : ts \in {NoTime, BadTime, Time(now)}}
            \cup {[s EXCEPT !.body = Garbled]}
  <2>1. r.ts \in {s.ts, NoTime, BadTime, Time(now)} /\ r.body \in {s.body, Garbled}
        /\ r.to = s.to /\ r.sig = s.sig
    BY <1>1, <1>3
  <2>2. [kind |-> "other"] \in Pieces /\ Digits(now \div 10) \in Pieces
        /\ Digits(now % 10) \in Pieces
    BY DEF Pieces
  <2>3. NoTime \in Seq(Pieces) /\ BadTime \in Seq(Pieces) /\ Garbled \in Seq(Pieces)
        /\ Time(now) \in Seq(Pieces)
    BY <2>2 DEF NoTime, BadTime, Garbled, Time
  <2> QED BY <1>1, <2>1, <2>3
<1>4. CASE r \in Resplit(s)
  <2> DEFINE text == s.ts \o s.body
  <2>1. text \in Seq(Pieces) /\ Len(text) \in Nat /\ \A j \in 1..Len(text) : text[j] \in Pieces
    BY <1>1
  <2>2. PICK i \in 0..Len(text) :
          r = [s EXCEPT !.ts = SubSeq(text, 1, i), !.body = SubSeq(text, i + 1, Len(text))]
    BY <1>4 DEF Resplit
  <2>3. /\ r.to = s.to /\ r.sig = s.sig
        /\ r.ts = SubSeq(text, 1, i) /\ r.body = SubSeq(text, i + 1, Len(text))
    BY <1>1, <2>2
  <2> HIDE DEF text
  <2>4. SubSeq(text, 1, i) \in Seq(Pieces)
    <3>1. \A j \in 1..i : text[j] \in Pieces
      BY <2>1, <2>2
    <3> QED BY <3>1, <2>2, SubSeqProperties
  <2>5. SubSeq(text, i + 1, Len(text)) \in Seq(Pieces)
    <3>1. \A j \in (i + 1)..Len(text) : text[j] \in Pieces
      BY <2>1, <2>2
    <3>2. i + 1 \in Int /\ Len(text) \in Int
      BY <2>1, <2>2
    <3> QED BY <3>1, <3>2, SubSeqProperties
  <2> QED BY <1>1, <2>3, <2>4, <2>5
<1>5. CASE r \in {[s EXCEPT !.sig = sig] :
             sig \in {NoSig, [s.sig EXCEPT !.well_formed = FALSE]}}
  <2>1. r.to = s.to /\ r.ts = s.ts /\ r.body = s.body
        /\ (r.sig = NoSig \/ r.sig = [s.sig EXCEPT !.well_formed = FALSE])
    BY <1>1, <1>5
  <2>2. ~r.sig.well_formed
    <3>1. s.sig = [header |-> Platform[s.to], well_formed |-> TRUE, key |-> s.to,
                   over |-> SignedText(Platform[s.to], s.ts, s.body)]
      BY GenuineFields
    <3> QED BY <2>1, <3>1 DEF NoSig
  <2> QED BY <1>1, <2>1, <2>2
<1> QED BY <1>2, <1>3, <1>4, <1>5 DEF Arrivals

\* A request that matches its signature is for the connector that signed, and
\* its message is the one that was signed.
LEMMA MatchingIsGenuine ==
  ASSUME NEW s, Genuine(s), NEW now \in Int, NEW r \in Arrivals(s, now),
         SignatureMatches(r.to, r)
  PROVE  /\ s.to = r.to
         /\ SignedText(Platform[s.to], s.ts, s.body) = SignedText(Platform[s.to], r.ts, r.body)
<1>1. r.sig.well_formed /\ r.sig.key = r.to
      /\ r.sig.over = SignedText(Platform[r.to], r.ts, r.body)
  BY DEF SignatureMatches
<1>2. r.sig = s.sig
  BY <1>1, ArrivalFields
<1>3. s.sig.key = s.to /\ s.sig.over = SignedText(Platform[s.to], s.ts, s.body)
  <2>1. s.sig = [header |-> Platform[s.to], well_formed |-> TRUE, key |-> s.to,
                 over |-> SignedText(Platform[s.to], s.ts, s.body)]
    BY GenuineFields
  <2> QED BY <2>1
<1> QED BY <1>1, <1>2, <1>3

\* The delivery goes back to this request, as far as the signature of its
\* platform says.
SignedAs(s, j) ==
  /\ s.to = j.req.to
  /\ OnSlack(j) => s.ts = j.req.ts /\ s.body = j.req.body
  /\ OnDiscord(j) => s.ts \o s.body = j.req.ts \o j.req.body
  /\ ~Timed(s.to) => s.body = j.req.body

\* Every accepted delivery goes back to a genuine request.
LEMMA AcceptedIsGenuine ==
  ASSUME Inv, NEW j \in judged, j.verdict = "ok"
  PROVE  \E s \in signed : Genuine(s) /\ SignedAs(s, j)
<1>1. Judgement(j)
  BY DEF Inv
<1>2. PICK s \in signed : j.req \in Arrivals(s, j.at)
  BY <1>1 DEF Judgement
<1>3. Genuine(s) /\ j.at \in Int
  BY <1>1, WebhooksAssumption DEF Inv, Judgement
<1> DEFINE r == j.req
<1>4. r.to \in Connectors /\ r.ts \in Seq(Pieces) /\ r.body \in Seq(Pieces)
  BY <1>2, <1>3, ArrivalFields
<1>5. Verify(r.to, r, j.at) = "ok"
  BY <1>1 DEF Judgement
<1>6. SignatureMatches(r.to, r)
  BY <1>4, <1>5, AcceptedMatches
<1>7. s.to = r.to
      /\ SignedText(Platform[s.to], s.ts, s.body) = SignedText(Platform[s.to], r.ts, r.body)
  BY <1>2, <1>3, <1>6, MatchingIsGenuine
<1>8. OnSlack(j) => s.ts = r.ts /\ s.body = r.body
  <2> SUFFICES ASSUME OnSlack(j) PROVE s.ts = r.ts /\ s.body = r.body
    OBVIOUS
  <2>1. Platform[s.to] = "slack" /\ Platform[r.to] = "slack"
    BY <1>7 DEF OnSlack
  <2>2. IsNumber(r.ts)
    BY <1>5, <2>1, AcceptedNumber
  <2>3. IsNumber(s.ts) /\ s.ts \in Seq(Pieces) /\ s.body \in Seq(Pieces)
    <3>1. PICK ts \in {NoTime} \cup {Time(t) : t \in Int} :
            s.ts = ts /\ (ts = NoTime <=> ~Timed(s.to))
      BY <1>3, GenuineFields
    <3>2. ts # NoTime
      BY <2>1, <3>1 DEF Timed
    <3>3. PICK t \in Int : ts = Time(t)
      BY <3>1, <3>2
    <3> QED BY <1>3, <3>1, <3>3, TimeIsNumber, GenuineFields
  <2>4. SignedText("slack", s.ts, s.body) = SignedText("slack", r.ts, r.body)
    BY <1>7, <2>1
  <2> QED BY <1>4, <2>2, <2>3, <2>4, SlackTextIsUnambiguous
<1>9. OnDiscord(j) => s.ts \o s.body = r.ts \o r.body
  BY <1>7 DEF OnDiscord, SignedText
<1>10. ~Timed(s.to) => s.body = r.body
  BY <1>7 DEF Timed, SignedText
<1> QED BY <1>3, <1>7, <1>8, <1>9, <1>10 DEF SignedAs

\* An accepted Slack body is a post, with the conversation and event ids of it.
LEMMA AcceptedEnvelope ==
  ASSUME Inv, NEW j \in judged, j.verdict = "ok", OnSlack(j)
  PROVE  j.envelope = [id |-> j.req.body[1].event,
                       conversation |-> <<j.req.body[1].channel, j.req.body[1].root>>]
<1>1. PICK s \in signed : Genuine(s) /\ SignedAs(s, j)
  BY AcceptedIsGenuine
<1>2. PICK post \in Posts[s.to] : s.body = <<post>>
  BY <1>1, GenuineFields
<1>3. s.to \in Connectors /\ s.to = j.req.to /\ j.req.body = <<post>>
  BY <1>1, <1>2, GenuineFields DEF SignedAs
<1>4. j.req.body[1] = post
  BY <1>3
<1>5. j.envelope = Decode(j.req.to, <<post>>)
  BY <1>3 DEF Inv, Judgement, Produced
<1> QED BY <1>3, <1>4, <1>5, PostDecodes DEF OnSlack

-----------------------------------------------------------------------------
(***************************************************************************)
(* The properties                                                          *)
(***************************************************************************)

\* Deliveries are judged by the errors of the verifiers, and accepted Slack
\* requests, and no others, have an envelope.
THEOREM TypeCorrect == Spec => []TypeOK
<1>1. Inv => TypeOK
  <2> SUFFICES ASSUME Inv PROVE TypeOK
    OBVIOUS
  <2>1. ASSUME NEW s \in signed
        PROVE  /\ s.to \in Connectors
               /\ s.body \in {<<post>> : post \in Posts[s.to]}
               /\ s.ts = NoTime <=> ~Timed(s.to)
    <3>1. Genuine(s)
      BY DEF Inv
    <3> QED BY <3>1, GenuineFields
  <2>2. ASSUME NEW j \in judged
        PROVE  /\ j.req.to \in Connectors
               /\ j.at \in 0..MaxTime
               /\ j.verdict \in Verdicts
               /\ j.envelope # NoEnvelope <=> (j.verdict = "ok" /\ OnSlack(j))
    <3>1. Judgement(j)
      BY DEF Inv
    <3>2. PICK s \in signed : Genuine(s) /\ j.req \in Arrivals(s, j.at)
      BY <3>1 DEF Inv, Judgement
    <3>3. j.req.to \in Connectors
      <4>1. j.at \in Int
        BY <3>1, WebhooksAssumption DEF Judgement
      <4> QED BY <3>2, <4>1, ArrivalFields
    <3>5. j.verdict \in Verdicts
      BY <3>1, <3>3, VerdictType DEF Judgement
    <3>6. ASSUME j.verdict = "ok", OnSlack(j) PROVE j.envelope # NoEnvelope
      <4>1. j.envelope = [id |-> j.req.body[1].event,
                          conversation |-> <<j.req.body[1].channel, j.req.body[1].root>>]
        BY <3>6, AcceptedEnvelope
      <4>2. <<j.req.body[1].channel, j.req.body[1].root>> # <<>>
        BY Len(<<j.req.body[1].channel, j.req.body[1].root>>) = 2, Len(<<>>) = 0
      <4>3. NoEnvelope.conversation = <<>>
        BY DEF NoEnvelope
      <4>4. j.envelope.conversation # <<>>
        BY <4>1, <4>2
      <4> QED BY <4>3, <4>4
    <3>7. ASSUME ~(j.verdict = "ok" /\ OnSlack(j)) PROVE j.envelope = NoEnvelope
      BY <3>1, <3>7 DEF Judgement, Produced, Decode, OnSlack
    <3> QED BY <3>1, <3>3, <3>5, <3>6, <3>7 DEF Judgement
  <2> QED BY <2>1, <2>2 DEF TypeOK, Inv, Verdicts
<1> QED BY <1>1, Invariant, PTL

\* Whatever the network does, what a verifier accepts has what the signature
\* covers in common with a request that the platform made for this connector:
\* timestamp and body for Slack, whose text can be taken apart in one way only,
\* the two run together for Discord, whose text cannot.
THEOREM AcceptedSigned == Spec => []AcceptedAreSigned
<1>1. Inv => AcceptedAreSigned
  BY AcceptedIsGenuine DEF AcceptedAreSigned, SignedAs
<1> QED BY <1>1, Invariant, PTL

\* Slack requests are accepted exactly within the window, or beyond the range
\* of a Duration, for any width of it, and the others always.
THEOREM Window == Spec => []WindowKept
<1>1. Inv => WindowKept
  <2> SUFFICES ASSUME Inv, NEW j \in judged, j.req \in signed
               PROVE  LET t == ParsedTime(j.req.ts)
                      IN  j.verdict = "ok" <=>
                            (OnSlack(j) => Within(t, j.at) \/ t - j.at > MaxDuration)
    BY DEF WindowKept
  <2> DEFINE r == j.req
  <2>1. Genuine(r) /\ Judgement(j)
    BY DEF Inv
  <2>2. /\ r.to \in Connectors
        /\ r.sig = [header |-> Platform[r.to], well_formed |-> TRUE, key |-> r.to,
                    over |-> SignedText(Platform[r.to], r.ts, r.body)]
    BY <2>1, GenuineFields
  <2>3. PICK ts \in {NoTime} \cup {Time(t) : t \in Int} :
          r.ts = ts /\ (ts = NoTime <=> ~Timed(r.to))
    BY <2>1, GenuineFields
  <2>4. Carries(r, Platform[r.to]) /\ r.sig.well_formed /\ SignatureMatches(r.to, r)
    BY <2>2 DEF Carries, SignatureMatches
  <2>5. j.verdict = Verify(r.to, r, j.at) /\ j.at \in Int
    BY <2>1, WebhooksAssumption DEF Judgement
  <2>6. CASE Platform[r.to] = "slack"
    <3>1. r.ts # NoTime
      BY <2>3, <2>6 DEF Timed
    <3>2. PICK t \in Int : r.ts = Time(t)
      BY <2>3, <3>1
    <3>3. IsNumber(r.ts) /\ ParsedTime(r.ts) = t
      BY <3>2, TimeIsNumber
    <3>4. j.verdict = slackVerify(r.to, r, j.at)
      BY <2>5, <2>6, VerifyIs
    <3>5. j.verdict = "ok" <=> SkewAccepted(t, j.at)
      BY <2>4, <2>6, <3>1, <3>3, <3>4 DEF slackVerify
    <3> QED BY <2>5, <2>6, <3>3, <3>5, SkewWindow DEF OnSlack
  <2>7. CASE Platform[r.to] = "discord"
    <3>1. r.ts # NoTime
      BY <2>3, <2>7 DEF Timed
    <3>2. j.verdict = discordVerify(r.to, r)
      BY <2>5, <2>7, VerifyIs
    <3>3. j.verdict = "ok"
      BY <2>4, <2>7, <3>1, <3>2 DEF discordVerify
    <3> QED BY <2>7, <3>3 DEF OnSlack
  <2>8. CASE Platform[r.to] = "whatsapp"
    <3>1. j.verdict = whatsappVerify(r.to, r)
      BY <2>5, <2>8, VerifyIs
    <3>2. j.verdict = "ok"
      BY <2>4, <2>8, <3>1 DEF whatsappVerify
    <3> QED BY <2>8, <3>2 DEF OnSlack
  <2>9. CASE Platform[r.to] = "imessage"
    <3>1. j.verdict = imessageVerify(r.to, r)
      BY <2>5, <2>9, VerifyIs
    <3>2. j.verdict = "ok"
      BY <2>4, <2>9, <3>1 DEF imessageVerify
    <3> QED BY <2>9, <3>2 DEF OnSlack
  <2> QED BY <2>2, <2>6, <2>7, <2>8, <2>9, WebhooksAssumption
<1> QED BY <1>1, Invariant, PTL

\* One conversation id per thread and one envelope id per event.
THEOREM Conversations == Spec => []ConversationsAreThreads
<1>1. Inv => ConversationsAreThreads
  <2> SUFFICES ASSUME Inv, NEW j \in judged, NEW k \in judged,
                      j.verdict = "ok", OnSlack(j), k.verdict = "ok", OnSlack(k)
               PROVE  /\ j.envelope.conversation = k.envelope.conversation
                            <=> /\ j.req.body[1].channel = k.req.body[1].channel
                                /\ j.req.body[1].root = k.req.body[1].root
                      /\ j.envelope.id = k.envelope.id
                            <=> j.req.body[1].event = k.req.body[1].event
    BY DEF ConversationsAreThreads
  <2>1. j.envelope = [id |-> j.req.body[1].event,
                      conversation |-> <<j.req.body[1].channel, j.req.body[1].root>>]
    BY AcceptedEnvelope
  <2>2. k.envelope = [id |-> k.req.body[1].event,
                      conversation |-> <<k.req.body[1].channel, k.req.body[1].root>>]
    BY AcceptedEnvelope
  <2> QED BY <2>1, <2>2
<1> QED BY <1>1, Invariant, PTL
=============================================================================
