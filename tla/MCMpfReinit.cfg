CONSTANTS
    Task = {t1, t2}
    pool = pool
    blkcnt = 2
    Wobj = {pool}
    Mutex = {}
    NULL = NULL
    TNUM_TPRI = 1
    ipriority <- MCipriority
    TA_ACT = {t1, t2}
    TA_NOACTQUE = {t1, t2}
    wfactor <- MCwfactor
    TA_TPRI = {}
    TA_CEILING = {}
    ceilpri <- MCceilpri
    MaxNest = 1
SYMMETRY Symmetry
SPECIFICATION ReinitSpec
INVARIANTS PoolOK
