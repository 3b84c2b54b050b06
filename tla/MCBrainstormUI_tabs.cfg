SPECIFICATION Spec
CONSTANTS
    Tabs = {t1, t2}
    Listeners = {click, enter}
    NoTab = NoTab
    MaxThreads = 3
SYMMETRY Symmetry
INVARIANTS
    AnswerModeMeansAsked
    DrawnThreadsArePrivate
    PaneIsOfItsThread
CHECK_DEADLOCK FALSE
