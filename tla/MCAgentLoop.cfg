SPECIFICATION LoopSpec
CONSTANTS
  Wires = {"openai", "anthropic", "responses", "providerwire-v4"}
  Bodies <- MCBodies
  Replies <- MCReplies
  Forms = {"string", "parts"}
  Modes = {TRUE, FALSE}
  MaxMessages = 5
  MaxWords = 2
  MaxReplies = 2
  MaxInputs = 3
  MaxRows = 3
INVARIANTS BodyFollowsScript ProjectionsAgree ResultsGrouped ReplyFaithful RoundTrip EmbedRows
PROPERTY PrefixStable
