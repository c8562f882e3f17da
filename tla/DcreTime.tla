------------------------------ MODULE DcreTime ------------------------------
(***************************************************************************)
(* Alarm and cyclic notifications of the dynamic creation extension        *)
(* (alarm.c and cyclic.c in extension/dcre/kernel): they are created and   *)
(* deleted while their time events come and go. Those that do not exist    *)
(* are linked into a list through their TMEVTB, of which the links take    *)
(* the place of evttim and p_tmevtn. A notification is created with the    *)
(* same phase and period each time.                                        *)
(***************************************************************************)
EXTENDS TimeCalls, SequencesExt

CONSTANT StaticNfy      \* the notifications created by the configurator

ASSUME DcreTimeAssumption == StaticNfy \subseteq Event /\ TA_STA \subseteq StaticNfy

VARIABLES
    noexs,              \* those marked TA_NOEXS
    free_almcb,         \* the lists of the unused control blocks
    free_cyccb

dcre_vars == <<noexs, free_almcb, free_cyccb>>
vars == <<time_vars, dcre_vars>>

exists(e) == e \notin noexs

Init ==
    /\ TimeInit
    /\ noexs = Event \ StaticNfy
    /\ free_almcb \in SetToSeqs(Alarm \ StaticNfy)
    /\ free_cyccb \in SetToSeqs(Cyclic \ StaticNfy)

\* the links of the list are written over the time and the place of the event
linked(x, e) == [x EXCEPT !.evttim[e] = 0, !.p_tmevtn[e] = 0]

-----------------------------------------------------------------------------
acre_alm ==
    /\ CHECK_TSKCTX_UNL
    /\ free_almcb # << >>
    /\ noexs' = noexs \ {Head(free_almcb)}
    /\ free_almcb' = Tail(free_almcb)
    /\ t' = [t EXCEPT !.sta[Head(free_almcb)] = FALSE]
    /\ UNCHANGED free_cyccb

\* mutant: the time event of a deleted alarm stays registered
Bug_del_alm(e) ==
    /\ CHECK_TSKCTX_UNL
    /\ exists(e) /\ e \notin StaticNfy
    /\ t' = linked(stopped(t, e), e)
    /\ noexs' = noexs \cup {e}
    /\ free_almcb' = Append(free_almcb, e)
    /\ UNCHANGED free_cyccb

del_alm(e) ==
    /\ CHECK_TSKCTX_UNL
    /\ exists(e) /\ e \notin StaticNfy
    /\ t' = linked(IF t.sta[e] THEN stopped(tmevtb_dequeue(t, e), e) ELSE t, e)
    /\ noexs' = noexs \cup {e}
    /\ free_almcb' = Append(free_almcb, e)
    /\ UNCHANGED free_cyccb

\* with TA_STA or without
acre_cyc(sta) ==
    LET e == Head(free_cyccb)
    IN  /\ CHECK_TSKCTX_UNL
        /\ free_cyccb # << >>
        /\ noexs' = noexs \ {e}
        /\ free_cyccb' = Tail(free_cyccb)
        /\ t' = IF sta THEN tmevtb_enqueue([t EXCEPT !.sta[e] = TRUE], e, cycphs[e])
                       ELSE [t EXCEPT !.sta[e] = FALSE]
        /\ UNCHANGED free_almcb

del_cyc(e) ==
    /\ CHECK_TSKCTX_UNL
    /\ exists(e) /\ e \notin StaticNfy
    /\ t' = linked(IF t.sta[e] THEN stopped(tmevtb_dequeue(t, e), e) ELSE t, e)
    /\ noexs' = noexs \cup {e}
    /\ free_cyccb' = Append(free_cyccb, e)
    /\ UNCHANGED free_almcb

-----------------------------------------------------------------------------
\* the other calls, which look under the CPU lock whether theirs exists
alarm_calls(e)  == exists(e) /\ (stp_alm(e) \/ \E almtim \in RelTim : sta_alm(e, almtim))
cyclic_calls(e) == exists(e) /\ (sta_cyc(e) \/ stp_cyc(e))

DcreNext ==
    \/ /\ \/ tick \/ signal_time \/ get_tim
          \/ \E e \in Alarm : alarm_calls(e)
          \/ \E e \in Cyclic : cyclic_calls(e)
          \/ \E adjtim \in AdjTim : adj_tim(adjtim)
          \/ \E newtim \in SetTim : set_tim(newtim)
       /\ UNCHANGED dcre_vars
    \/ acre_alm \/ \E sta \in BOOLEAN : acre_cyc(sta)
    \/ \E e \in Alarm : del_alm(e)
    \/ \E e \in Cyclic : del_cyc(e)

DcreTimeSpec == Init /\ [][DcreNext]_vars

-----------------------------------------------------------------------------
(* Whatever is created and deleted while notifications are started and     *)
(* called: the lists of unused control blocks are just the objects that do *)
(* not exist, none of which is started; so the heap has none of them, whose*)
(* links would overwrite its entries (del_alm, del_cyc).                   *)
NotificationsOK ==
    /\ EventsOK
    /\ IsInjective(free_almcb) /\ ToSet(free_almcb) = noexs \cap Alarm
    /\ IsInjective(free_cyccb) /\ ToSet(free_cyccb) = noexs \cap Cyclic
    /\ \A e \in noexs : ~t.sta[e]
=============================================================================
