CONSTANTS
    boss = boss
    Task = {boss, t1, t2}
    sem = sem
    flg = flg
    mtx = mtx
    dataq = dataq
    dataq_rwait = dataq_rwait
    pridataq = pridataq
    pridataq_rwait = pridataq_rwait
    pool = pool
    kind <- MCkind
    Static = {boss}
    Configurations <- MCConfigurations
    Area = {1}
    OMIT_KMM_ALLOCONLY = TRUE
    Sem = {sem}
    isemcnt <- MCisemcnt
    maxsem <- MCmaxsem
    Flg = {flg}
    Bit = {1}
    iflgptn <- MCiflgptn
    TA_CLR = {}
    TA_WMUL = {flg}
    Mutex = {mtx}
    TA_CEILING = {mtx}
    ceilpri <- MCceilpri
    Data = {x}
    Dtqcnt = {0, 1}
    Pdqcnt = {0, 1}
    maxdpri = 1
    blkcnt = 1
    Wobj = {sem, flg, mtx, dataq, dataq_rwait, pridataq, pridataq_rwait, pool}
    NULL = NULL
    TNUM_TPRI = 2
    ipriority <- MCipriority
    TA_ACT = {boss}
    TA_NOACTQUE = {boss, t1, t2}
    wfactor <- MCwfactor
    TA_TPRI = {mtx}
    MaxNest = 1
SYMMETRY Symmetry
SPECIFICATION MCSpec
INVARIANTS ExistenceOK KernelOK ObjectsOK
PROPERTIES MemoryReturned DeletionReleases
