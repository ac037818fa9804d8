SPECIFICATION Spec
CONSTANTS
  slack1 = slack1  slack2 = slack2
  discord1 = discord1  whatsapp1 = whatsapp1  imessage1 = imessage1
  Connectors = {slack1, slack2, discord1, whatsapp1, imessage1}
  Platform <- MCPlatform
  Posts <- MCPosts
  Offsets <- MCOffsets
  MaxSkew = 1
  MaxDuration = 7
  MaxTime = 2
  MaxSent = 2
  MaxJudged = 2
INVARIANTS TypeOK AcceptedAreSigned  ConversationsAreThreads
CHECK_DEADLOCK FALSE
