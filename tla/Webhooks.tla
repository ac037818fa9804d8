------------------------------- MODULE Webhooks -------------------------------
(***************************************************************************)
(* Inbound webhooks: the Verifier of each platform (pkg/connectors),       *)
(* CheckTimestampSkew (pkg/auth/hmac.go) with its int64 arithmetic, and    *)
(* the Slack Decoder.                                                      *)
(*                                                                         *)
(* Platforms sign what they send with the secret of the connector; the     *)
(* network delays, repeats, misdirects and damages it. A signature is the  *)
(* record of its header, key and message: cryptography is taken to be      *)
(* ideal, but the message is the text that the code puts together. Google  *)
(* Chat is left out, since it signs no request but presents a token, whose *)
(* verification is an interface without an implementation.                 *)
(*                                                                         *)
(* A text, of a header or a body, is a sequence of pieces: some digits, a  *)
(* mark of punctuation, a post as the platform writes it, or anything else.*)
(***************************************************************************)
EXTENDS Integers, FiniteSets, Sequences

CONSTANTS
  Connectors,   \* the connectors of the tenants, each with its own secret
  Platform,     \* connector -> its platform
  Posts,        \* connector -> what the bodies of its events may say
  Offsets,      \* how far the clock of a sender may be from ours
  MaxSkew,      \* 5 minutes in the code
  MaxDuration,  \* the greatest time.Duration, 2^63 - 1 in the code
  MaxTime,      \* bound: our clock shows 0..MaxTime
  MaxSent,      \* bound: requests signed
  MaxJudged     \* bound: deliveries judged

MinDuration == -MaxDuration - 1

\* A post names the timestamp of its thread's first post, which is its own if
\* it opened the thread; that one may leave the field out (thread_ts = 0).
NoThread == 0
Post    == [kind : {"post"}, event : Nat, channel : STRING, ts : Nat,
            thread_ts : Nat, root : Nat]

Digits(n) == [kind |-> "digits", value |-> n]
Mark(m)   == [kind |-> "mark", mark |-> m]
Garbled   == <<[kind |-> "other"]>>

ASSUME WebhooksAssumption ==
  /\ Platform \in [Connectors -> {"slack", "discord", "whatsapp", "imessage"}]
  /\ \A conn \in Connectors : \A post \in Posts[conn] :
       /\ post \in Post
       /\ post.thread_ts \in {NoThread, post.root}
       /\ post.thread_ts = NoThread => post.ts = post.root
  /\ Offsets \subseteq Int
  /\ MaxSkew \in Nat
  /\ MaxDuration \in Nat
  /\ MaxSkew < MaxDuration
  /\ MaxTime \in Nat

VARIABLES
  clock,   \* our clock
  signed,  \* the requests that platforms have signed
  judged   \* deliveries: the request, the time and the verdict

vars == <<clock, signed, judged>>

\* The text of a timestamp header, its last digit being a piece of its own; an
\* absent header and an empty one are the same. Times at which time.Unix itself
\* wraps around are left out.
Time(t) == <<Digits(t \div 10), Digits(t % 10)>>
BadTime == <<[kind |-> "other"]>>
NoTime  == <<>>

\* strconv.ParseInt succeeds, and on headers of one or two pieces returns this.
IsNumber(ts)   == \A i \in DOMAIN ts : ts[i].kind = "digits"
ParsedTime(ts) == IF Len(ts) = 1 THEN ts[1].value ELSE 10 * ts[1].value + ts[2].value

\* Each platform has a signature header of its own. What is in it may have lost
\* its prefix, or no longer be hexadecimal.
NoSig == [header |-> "absent", well_formed |-> FALSE]

Carries(req, platform) == req.sig.header = platform

\* Mutant: nothing stands between the timestamp and the body of Slack's message.
SignedText_NoColon(platform, ts, body) ==
  IF platform = "slack" THEN <<Mark("v0:")>> \o ts \o body
  ELSE IF platform = "discord" THEN ts \o body
  ELSE body

\* The message that is signed: "v0:<ts>:<body>", "<ts><body>" or the body.
SignedText(platform, ts, body) ==
  IF platform = "slack" THEN <<Mark("v0:")>> \o ts \o <<Mark(":")>> \o body
  ELSE IF platform = "discord" THEN ts \o body
  ELSE body

Sign(conn, ts, body) ==
  [header |-> Platform[conn], well_formed |-> TRUE, key |-> conn,
   over |-> SignedText(Platform[conn], ts, body)]

-----------------------------------------------------------------------------
(***************************************************************************)
(* pkg/auth                                                                *)
(***************************************************************************)

\* time.Time.Sub returns the nearest Duration when the difference is none.
Sub(t, u) ==
  IF t - u > MaxDuration THEN MaxDuration
  ELSE IF t - u < MinDuration THEN MinDuration
  ELSE t - u

\* Negation in two's complement: the least Duration is its own.
Negated(d) == IF d = MinDuration THEN MinDuration ELSE -d

\* Mutant: the sign of the difference is not dropped.
SkewAccepted_Signed(reqTime, now) == Sub(now, reqTime) <= MaxSkew

\* CheckTimestampSkew returns nil.
SkewAccepted(reqTime, now) ==
  LET d == Sub(now, reqTime)
  IN  (IF d < 0 THEN Negated(d) ELSE d) <= MaxSkew

\* VerifyHMACSHA256 and ed25519.Verify return success.
SignatureMatches(conn, req) ==
  /\ req.sig.well_formed
  /\ req.sig.key = conn
  /\ req.sig.over = SignedText(Platform[conn], req.ts, req.body)

-----------------------------------------------------------------------------
(***************************************************************************)
(* The verifiers, in the order of their checks                             *)
(***************************************************************************)
slackVerify(conn, req, now) ==
  IF ~Carries(req, "slack") \/ req.ts = NoTime THEN "missing headers"
  ELSE IF ~IsNumber(req.ts) THEN "bad timestamp"
  ELSE IF ~SkewAccepted(ParsedTime(req.ts), now) THEN "skew"
  ELSE IF ~req.sig.well_formed THEN "no prefix"
  ELSE IF ~SignatureMatches(conn, req) THEN "mismatch"
  ELSE "ok"

discordVerify(conn, req) ==
  IF ~Carries(req, "discord") \/ req.ts = NoTime THEN "missing headers"
  ELSE IF ~req.sig.well_formed THEN "bad signature"
  ELSE IF ~SignatureMatches(conn, req) THEN "mismatch"
  ELSE "ok"

whatsappVerify(conn, req) ==
  IF ~Carries(req, "whatsapp") \/ ~req.sig.well_formed THEN "no prefix"
  ELSE IF ~SignatureMatches(conn, req) THEN "mismatch"
  ELSE "ok"

imessageVerify(conn, req) ==
  IF ~Carries(req, "imessage") THEN "missing header"
  ELSE IF ~SignatureMatches(conn, req) THEN "mismatch"
  ELSE "ok"

Verify(conn, req, now) ==
  CASE Platform[conn] = "slack"    -> slackVerify(conn, req, now)
    [] Platform[conn] = "discord"  -> discordVerify(conn, req)
    [] Platform[conn] = "whatsapp" -> whatsappVerify(conn, req)
    [] Platform[conn] = "imessage" -> imessageVerify(conn, req)

\* Mutant: thread_ts is ignored.
Thread_ByPost(post) == post.ts

\* "slack:<channel>:<thread>", where a post that names no thread opens one.
Thread(post) == IF post.thread_ts = NoThread THEN post.ts ELSE post.thread_ts

NoEnvelope == [id |-> 0, conversation |-> <<>>]

Envelope(post) == [id |-> post.event, conversation |-> <<post.channel, Thread(post)>>]

\* json.Unmarshal succeeds.
IsPost(body) == Len(body) = 1 /\ body[1].kind = "post"

\* Mutant: another platform is decoded as if it were Slack.
Decode_Any(conn, body) == IF IsPost(body) THEN Envelope(body[1]) ELSE NoEnvelope

\* slack.Decoder; those of the other platforms return an error.
Decode(conn, body) ==
  IF Platform[conn] = "slack" /\ IsPost(body) THEN Envelope(body[1]) ELSE NoEnvelope

-----------------------------------------------------------------------------
(***************************************************************************)
(* Senders and the network, which are external                             *)
(***************************************************************************)
Init ==
  /\ clock = 0
  /\ signed = {}
  /\ judged = {}

Tick ==
  /\ clock < MaxTime
  /\ clock' = clock + 1
  /\ UNCHANGED <<signed, judged>>

\* The scheme has a timestamp header.
Timed(conn) == Platform[conn] \in {"slack", "discord"}

Send(conn) ==
  /\ Cardinality(signed) < MaxSent
  /\ \E post \in Posts[conn], offset \in Offsets :
       LET ts == IF Timed(conn) THEN Time(clock + offset) ELSE NoTime
       IN  signed' = signed \cup
             {[to |-> conn, ts |-> ts, body |-> <<post>>, sig |-> Sign(conn, ts, <<post>>)]}
  /\ UNCHANGED <<clock, judged>>

\* The same characters, with the end of the header anywhere among them.
Resplit(req) ==
  LET text == req.ts \o req.body
  IN  {[req EXCEPT !.ts = SubSeq(text, 1, i), !.body = SubSeq(text, i + 1, Len(text))] :
         i \in 0..Len(text)}

\* A request as it may arrive: whole, at the URL of another connector, split
\* elsewhere, or with its timestamp, its body or its signature replaced or lost.
Arrivals(req, now) ==
  {req}
  \cup {[req EXCEPT !.to = conn] : conn \in Connectors}
  \cup {[req EXCEPT !.ts = ts] : ts \in {NoTime, BadTime, Time(now)}}
  \cup {[req EXCEPT !.body = Garbled]}
  \cup Resplit(req)
  \cup {[req EXCEPT !.sig = sig] :
           sig \in {NoSig, [req.sig EXCEPT !.well_formed = FALSE]}}

\* A delivery, the first one or a repeated one, at any later time.
Deliver ==
  /\ Cardinality(judged) < MaxJudged
  /\ \E req \in signed : \E r \in Arrivals(req, clock) :
       LET verdict == Verify(r.to, r, clock)
       IN  judged' = judged \cup
             {[req |-> r, at |-> clock, verdict |-> verdict,
               envelope |-> IF verdict = "ok" THEN Decode(r.to, r.body)
                            ELSE NoEnvelope]}
  /\ UNCHANGED <<clock, signed>>

Next == Tick \/ Deliver \/ \E conn \in Connectors : Send(conn)

Spec == Init /\ [][Next]_vars

-----------------------------------------------------------------------------
(***************************************************************************)
(* Properties                                                              *)
(***************************************************************************)
OnSlack(j)   == Platform[j.req.to] = "slack"
OnDiscord(j) == Platform[j.req.to] = "discord"

Within(t, now) == now - t \in -MaxSkew..MaxSkew

\* Type correctness: a delivery is judged by one of the errors of its verifier,
\* and there is an envelope exactly for the accepted Slack events.
TypeOK ==
  /\ clock \in 0..MaxTime
  /\ \A s \in signed :
       /\ s.to \in Connectors
       /\ s.body \in {<<post>> : post \in Posts[s.to]}
       /\ s.ts = NoTime <=> ~Timed(s.to)
  /\ \A j \in judged :
       /\ j.req.to \in Connectors
       /\ j.at \in 0..MaxTime
       /\ j.verdict \in {"ok", "missing headers", "missing header", "bad timestamp",
                         "skew", "no prefix", "bad signature", "mismatch"}
       /\ j.envelope # NoEnvelope <=> (j.verdict = "ok" /\ OnSlack(j))

\* However requests are delayed, repeated, misdirected, damaged and split
\* elsewhere: what a verifier accepts goes back to a request that its platform
\* made for this very connector. Of Slack it has the timestamp and the body, of
\* WhatsApp and iMessage, which sign no timestamp, the body. Of Discord it has
\* the timestamp and the body run together (discord.go:33), no more: which of
\* these characters are the timestamp, the signature does not say.
AcceptedAreSigned ==
  \A j \in judged : j.verdict = "ok" =>
    \E s \in signed :
      /\ s.to = j.req.to
      /\ OnSlack(j) => s.ts = j.req.ts /\ s.body = j.req.body
      /\ OnDiscord(j) => s.ts \o s.body = j.req.ts \o j.req.body
      /\ ~Timed(s.to) => s.body = j.req.body

\* A request that arrives as it was sent is accepted exactly if it is not one of
\* Slack or is within MaxSkew of our clock on either side, whatever clock the
\* sender has (hmac.go:14-16, docs/SECURITY.md:53), but for times that no
\* Duration can tell from now, 292 years ahead in the code. So the window is all
\* that ends the life of a request, and those of Discord, dated or not, and of
\* the platforms that date nothing are accepted at any age, again and again.
WindowKept ==
  \A j \in judged : j.req \in signed =>
    LET t == ParsedTime(j.req.ts)
    IN  j.verdict = "ok" <=> (OnSlack(j) => Within(t, j.at) \/ t - j.at > MaxDuration)

\* "platform:channel:thread" (envelope.go:42): two accepted Slack posts have one
\* conversation id exactly if they belong to one thread of one channel, the
\* first post of the thread included, with or without a thread_ts of its own;
\* and one envelope id exactly if they are one event.
ConversationsAreThreads ==
  \A j, k \in judged :
    (j.verdict = "ok" /\ OnSlack(j) /\ k.verdict = "ok" /\ OnSlack(k)) =>
      LET b == j.req.body[1]
          c == k.req.body[1]
      IN  /\ j.envelope.conversation = k.envelope.conversation
               <=> b.channel = c.channel /\ b.root = c.root
          /\ j.envelope.id = k.envelope.id <=> b.event = c.event

-----------------------------------------------------------------------------
(***************************************************************************)
(* What a comment says, and the arithmetic refutes                         *)
(***************************************************************************)

\* "CheckTimestampSkew returns ErrTimestampSkew if the supplied request time
\* differs from now by more than MaxSkew" (hmac.go:35-36).
SkewIsRefused ==
  \A j \in judged :
    (OnSlack(j) /\ j.verdict = "ok") => Within(ParsedTime(j.req.ts), j.at)
=============================================================================
