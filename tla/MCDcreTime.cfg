CONSTANTS
    Event = {a1, a2, c1}
    Alarm = {a1, a2}
    Cyclic = {c1}
    TA_STA = {}
    StaticNfy = {}
    RelTim = {0, 3}
    AdjTim = {}
    SetTim = {}
    NONE = NONE
    EVTTIM_SPAN = 8
    BOUNDARY_MARGIN = 3
    TCYC_HRTCNT = 6
    TSTEP_HRTCNT = 1
    HRTCNT_BOUND = 3
    SYSTIM_SPAN = 8
    TMAX_ADJTIM = 1
    cycphs <- MCcycphs
    cyctim <- MCcyctim
    MaxDelay = 1
    Thousand = 2
    DriftRelTim = {2}
    DriftRate = {3, 5}
    TMAX_RELTIM = 4
SYMMETRY Symmetry
SPECIFICATION MCSpec
INVARIANTS TimersOK ArmedOK
PROPERTIES ImplementsService
