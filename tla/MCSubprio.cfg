CONSTANTS
    Task = {t1, t2}
    SubTask = {s1, s2, s3}
    subprio_primap = {1}
    UINT_MAX = 1
    OvrTim = {2}
    Wobj = {}
    Mutex = {}
    NULL = NULL
    TNUM_TPRI = 2
    ipriority <- MCipriority
    TA_ACT = {t1, t2}
    TA_NOACTQUE = {}
    wfactor <- MCwfactor
    TA_TPRI = {}
    TA_CEILING = {}
    ceilpri <- MCceilpri
    MaxNest = 2
SYMMETRY Symmetry
SPECIFICATION MCSpec
INVARIANT SubprioOrder
