\* Calls come to an end, though the line or the appliance fail.
\* Calls and unasked messages are bounded: the callers fall silent.
SPECIFICATION FairSpec
CONSTANTS
  Callers = {c1}
  Link = link
  Calls <- SignalAndState
  Offers = {"pass"}
  Replies <- AllReplies
  Spaced = TRUE
  MaxAsked = 2
  MaxOffers = 1
  Nothing = Nothing
PROPERTY CallEnds QueuedIsSent
CHECK_DEADLOCK FALSE
