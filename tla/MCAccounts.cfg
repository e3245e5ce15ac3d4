SPECIFICATION FairSpec
CONSTANTS
    Requests = {r1, r2}
    Deleters = {d1}
    alice = alice
    bob = bob
    mailA = mailA
    mailB = mailB
    Usernames <- MCUsernames
    Emails <- MCEmails
    Legacy <- MCLegacy
    FirstId = 2
INVARIANTS
    EveryAccountWhole
    KeysUnique
    AnswerIsTrue
    CachesHoldCommitted
PROPERTIES
    SignedUpAccountsStay
    ImplementsRegistry
    EveryRequestEnds
CHECK_DEADLOCK FALSE
