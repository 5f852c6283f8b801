SPECIFICATION FairSpec
CONSTANTS
    Requests = {r1, r2}
    Books = {b1}
    drama = drama
    horror = horror
    Tags <- MCTags
    TagLists <- MCTagLists
CHECK_DEADLOCK FALSE
INVARIANTS
    TypeOK
PROPERTIES
    TagsReplaced
    RequestsEnd
