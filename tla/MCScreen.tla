-------------------------------- MODULE MCScreen --------------------------------
(* ScreenSync over a few visible contents, the first drawn in two ways, of *)
(* which a frame takes the second for something else than it is: whatever  *)
(* is then drawn over it goes astray.                                      *)
EXTENDS ScreenSync

CONSTANTS
  v1, garbled,
  Content,  \* what may be drawn over v1
  Redrawn   \* what else may be written: v1 as rows of its own, or nothing

Shown == Content \cup {v1, garbled}

MCState == [shown : Shown, drawn : {0, 1}]
MCInitial == [shown |-> v1, drawn |-> 0]
MCInput == {[shown |-> c, drawn |-> 0] : c \in Content}
             \cup {[shown |-> c, drawn |-> 1] : c \in Redrawn}
MCDo(s, i) == i
MCView(s) == s.shown
MCLeadsAstray(s, b) == b.drawn = 1 /\ s.shown # b.shown
MCDiff == [from : Shown, to : Shown] \cup {NoDiff}
MCDiffFrom(s, b) ==
  IF s.shown = b.shown THEN NoDiff
  ELSE [from |-> b.shown, to |-> IF MCLeadsAstray(s, b) THEN garbled ELSE s.shown]
MCApplyString(s, d) ==
  IF d # NoDiff /\ s.shown = d.from THEN [s EXCEPT !.shown = d.to]
  ELSE [s EXCEPT !.shown = garbled]

(* calculate_timers overwrites assumed and next_send_time before anything  *)
(* reads them, so states that differ only there behave alike.              *)
LiveState ==
  <<now, [p \in Peer |-> [sender[p] EXCEPT !.assumed = 1, !.next_send_time = 0]],
    received, quench, attached, net, raw, made>>

(* The hypotheses of the theorems hold of this instance.                   *)
ASSUME MCHypotheses ==
  SyncStateType /\ ScreenLaws
================================================================================
