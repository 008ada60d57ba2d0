SPECIFICATION FairRelaySpec
CONSTANTS
    user = user
    router = router
    a1 = a1
    a2 = a2
    Names = {user, router, a1}
    User = user
    Router = router
    ProjectName <- MCProjectName
    MaxMessages = 5
    MaxMails = 2
    MaxSent = 1
    MaxFaults = 1
    MaxEvents = 3
INVARIANTS RelayTypeOK AsksReachUser  RepliesMatch NoDuplicates RoutedIsBriefed
PROPERTIES  AnswersReturn
CHECK_DEADLOCK FALSE
