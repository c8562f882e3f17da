CONSTANTS
    Task = {t1, t2, t3}
    m1 = m1
    m2 = m2
    Wobj = {m1, m2}
    Mutex = {m1, m2}
    NULL = NULL
    NONE = NONE
    TNUM_TPRI = 3
    ipriority <- MCipriority
    TA_ACT = {t1, t2, t3}
    TA_NOACTQUE = {}
    wfactor <- MCwfactor
    TA_TPRI = {m1, m2}
    TA_CEILING = {m1, m2}
    ceilpri <- MCceilpri
    MaxNest = 1
    Event = {e1, e2, e3, e4, e5, e6}
    EVTTIM_SPAN = 5
    BOUNDARY_MARGIN = 2
SYMMETRY Symmetry
VIEW View
SPECIFICATION MCSpec
INVARIANTS OwnershipOK CeilingOK WaitOrderOK AssertsHold HeapOK
PROPERTIES HandOver FifoWithinPriority OthersStay
