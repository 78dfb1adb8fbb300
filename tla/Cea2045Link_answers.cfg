\* One caller at a time, a user who overrides and messages of unknown types.
\* Calls and unasked messages are bounded: the callers fall silent.
SPECIFICATION Spec
CONSTANTS
  Callers = {c1}
  Link = link
  Calls <- SignalAndLog
  Offers = {"on", "illegal", "pass"}
  Replies <- AllReplies
  Spaced = TRUE
  MaxAsked = 3
  MaxOffers = 1
  Nothing = Nothing
INVARIANT TypeOK TrueMeansTaken 
CHECK_DEADLOCK FALSE
