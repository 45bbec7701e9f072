------------------------------ MODULE MCSprint ------------------------------
(* Sprint for TLC: sprints of six or nine steps at most, or switched off, a *)
(* minimum of one or two, and movement steps of one and two.                *)
EXTENDS Sprint

MCSprintTimes == {0, 6, 9}
MCMinTimes == {1, 2}
=============================================================================
