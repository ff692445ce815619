\* One card, two writers that may execute or sweep, one retry, replays of two
\* events, one reconnect and one poll.  Nothing is left to do once the page has settled.
SPECIFICATION FairSpec

CONSTANTS
    concept = concept
    w1 = w1
    w2 = w2
    None = None
    Cards = {concept}
    Writers = {w1, w2}
    MaxClaims = 2
    MaxNotes = 2
    Limit = 2
    MaxReconnects = 1
    MaxPolls = 1

INVARIANTS
    CardsAreNeverSkipped
    TheEndComesAfterTheCards

PROPERTIES
    EventsArriveOnceInOrder
    EndedJobsSettleThePage

CHECK_DEADLOCK FALSE
