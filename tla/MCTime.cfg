CONSTANTS
    Event = {a1, c1}
    Alarm = {a1}
    Cyclic = {c1}
    TA_STA = {c1}
    RelTim = {2}
    AdjTim <- MCAdjTim
    SetTim = {0, 17}
    EVTTIM_SPAN = 10
    BOUNDARY_MARGIN = 4
    TCYC_HRTCNT = 5
    TSTEP_HRTCNT = 1
    HRTCNT_BOUND = 2
    SYSTIM_SPAN = 20
    TMAX_ADJTIM = 1
    cycphs <- MCcycphs
    cyctim <- MCcyctim
    MaxDelay = 1
    OffsetStep = 5
    Task = {t1, t2, t3}
    pool = pool
    blkcnt = 2
    Wobj = {pool}
    Mutex = {}
    NULL = NULL
    NONE = NONE
    TNUM_TPRI = 1
    ipriority <- MCipriority
    TA_ACT = {}
    TA_NOACTQUE = {t1, t2, t3}
    wfactor <- MCwfactor
    TA_TPRI = {}
    TA_CEILING = {}
    ceilpri <- MCceilpri
    MaxNest = 1
SPECIFICATION MCSpec
INVARIANTS PoolOK BlocksOK
PROPERTIES TimeKept SystemTime AlarmOccurs NoStarvation
