CONSTANTS
    Threads = {t1, t2}
    NoThread = NoThread
    Categories = {"a", "ab", "ac"}
    Below <- CategoryPairs
    Asked = {"a", "ab"}
    Batches = {"b1", "b2"}
    CategoriesOf <- BatchCategories
    WindowOf <- BatchWindows
    FakeSets <- FakeBatches
    FakeKeys <- FakeCategories
    MaxRequests = 3
SPECIFICATION FairSpec
INVARIANTS
    TypeOK
    ModelMatchesData
    RemappedIsThere
    AnswersFitRequest
PROPERTIES
    RequestsAnswered
CHECK_DEADLOCK FALSE
