SPECIFICATION Spec
CONSTANTS
    Tabs = {t1}
    Own = {o1, o2}
    Users = {ali}
    MaxCalls = 2
    MaxPair = 2
    MaxLoads = 1
PROPERTY
    PagesSettle
CHECK_DEADLOCK FALSE
