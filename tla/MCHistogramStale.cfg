CONSTANTS
    Threads = {t1}
    NoThread = NoThread
    Categories = {"a", "ab", "ac"}
    Below <- CategoryPairs
    Asked = {"a"}
    Batches = {"b1", "b2"}
    CategoriesOf <- BatchCategories
    WindowOf <- BatchWindows
    FakeSets <- FakeBatches
    FakeKeys <- FakeCategories
    MaxRequests = 4
SPECIFICATION Spec
INVARIANTS
    LearnedFromAskedData
CHECK_DEADLOCK FALSE
