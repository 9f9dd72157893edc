\* Three handles that share two ids, or one handle with a pool of up to three
\* connections and up to four queries; three options instances, told four things.
SPECIFICATION MCSpec
CONSTANTS
    h1 = h1
    h2 = h2
    h3 = h3
    accounts = accounts
    houses = houses
    latin1 = latin1
    utf8 = utf8
    None = None
    Object = {h1, h2, h3}
    Database = {accounts, houses}
    Charset = {latin1, utf8}
    DefaultCharset = latin1
    MaxPool = 3
    Capacity = 1
    MaxGiven = 2
    MaxTogether = 4
    MaxId = 2
    PoolLimit = 3
    Text = {one}
    Garbage = Garbage
    one = one
    MaxOptions = 2
    MaxSaid = 4
CONSTRAINT OneAtATime
SYMMETRY Symmetric
INVARIANTS
    TypeOK
    IdsCorrect
    OneHandlePerDatabase
    DealtInTurn
    UnprocessedBounds
    CharsetsAgree
    OptionsAreAsSaid
CHECK_DEADLOCK FALSE
