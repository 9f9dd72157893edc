\* Two workers and the server thread, two scripts at two addresses, two
\* queries.
SPECIFICATION FairSpec
CONSTANTS
    w1 = w1
    w2 = w2
    server = server
    a1 = a1
    a2 = a2
    Worker = {w1, w2}
    Server = server
    Address = {a1, a2}
    MaxScripts = 2
    MaxQueries = 2
INVARIANTS
    TypeOK
    LostOnlyInTheRace
    OnlyLeftOpenGoesOn
PROPERTY
    DoneIsAnswered
CHECK_DEADLOCK FALSE
