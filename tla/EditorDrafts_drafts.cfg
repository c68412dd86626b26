SPECIFICATION FairSpec
CONSTANTS
    Dialogs = {d1}
    Composers = {c1}
    Texts = {a, b}
    Blank = Blank
    NoEditor = NoEditor
    Limit = 1
    MaxRequests = 2
INVARIANTS DraftsInv StoreIsBounded CommandsKeepTheirInput RetriesMakeOneObject SavesAreTheirOwn
PROPERTIES AnswersSettleTheirSave PendingSavesSettle
CHECK_DEADLOCK FALSE
