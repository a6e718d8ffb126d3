SPECIFICATION Spec
CONSTANTS
    Tabs = {t1, t2}
    Own = {o1}
    Users = {ali, mona}
    MaxCalls = 2
    MaxPair = 2
    MaxLoads = 1
SYMMETRY Sym
INVARIANTS
    TypeOK
    HonestSessionsSurvive
    StoredTokensWork
    TabsActAsTheirUser
    LogoutIsFinal
PROPERTY
    RefreshesReplaceTheirOwn
