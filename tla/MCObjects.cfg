CONSTANTS
    Task = {t1, t2, t3}
    sem = sem
    single = single
    several = several
    cleared = cleared
    Flg = {single, several, cleared}
    dtq_swait = dtq_swait
    dtq_rwait = dtq_rwait
    pdq_swait = pdq_swait
    pdq_rwait = pdq_rwait
    mbf_swait = mbf_swait
    mbf_rwait = mbf_rwait
    Wobj = {sem, single, several, cleared, dtq_swait, dtq_rwait, pdq_swait, pdq_rwait, mbf_swait, mbf_rwait}
    Bit = {x, y}
    TA_CLR = {cleared}
    TA_WMUL = {several, cleared}
    Data = {x, y}
    Dtqcnt = {0, 2}
    Pdqcnt = {0, 2}
    maxdpri = 2
    small = small
    big = big
    Message = {small, big}
    msgsz <- MCmsgsz
    Mbfsz = {0, 10}
    UINT_SZ = 2
    Mutex = {}
    NULL = NULL
    TNUM_TPRI = 1
    ipriority <- MCipriority
    TA_ACT = {t1, t2, t3}
    TA_NOACTQUE = {t1, t2, t3}
    wfactor <- MCwfactor
    TA_TPRI = {}
    TA_CEILING = {}
    ceilpri <- MCceilpri
    MaxNest = 1
SYMMETRY Symmetry
SPECIFICATION ObjectsSpec
INVARIANTS SemFlagOK QueuesOK
PROPERTIES SetFlagOK ImplementChannels
