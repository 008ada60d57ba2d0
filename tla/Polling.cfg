SPECIFICATION FairPollerSpec
CONSTANTS
    m1 = m1
    m2 = m2
    m3 = m3
    m4 = m4
    Mails <- MCMails
    NoId = {m4}
    KeepIds = 2
    MaxDeliveries = 3
    Troubles = {"imap", "store", "save", "flag", "stop", "crash"}
    MaxTroubles = 2
INVARIANT PollerTypeOK
PROPERTIES NeverFetchedAgain 
CHECK_DEADLOCK FALSE
