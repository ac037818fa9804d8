------------------------------ MODULE MCWebhooks ------------------------------
(***************************************************************************)
(* Instances of Webhooks for TLC.                                          *)
(***************************************************************************)
EXTENDS Webhooks

CONSTANTS slack1, slack2, discord1, whatsapp1, imessage1

MCPlatform ==
  [c \in Connectors |->
     CASE c = discord1 -> "discord"
       [] c = whatsapp1 -> "whatsapp"
       [] c = imessage1 -> "imessage"
       [] OTHER -> "slack"]

post(e, channel, ts, thread, root) ==
  [kind |-> "post", event |-> e, channel |-> channel, ts |-> ts,
   thread_ts |-> thread, root |-> root]

\* A post that opens a thread, an answer to it, which names the thread, another
\* thread of the channel, and a thread of another channel with the same ts.
SlackPosts == {post(1, "C1", 1, NoThread, 1), post(2, "C1", 2, 1, 1),
               post(3, "C1", 3, NoThread, 3), post(4, "C2", 1, NoThread, 1)}

\* The others say one thing each: their bodies are only compared.
MCPosts == [c \in Connectors |->
              IF c = slack1 THEN SlackPosts ELSE {post(1, "C1", 1, NoThread, 1)}]

\* Senders in step with us, early, and one that counts in smaller units
\* than seconds.
MCOffsets == {0, 2, 9}
=============================================================================
