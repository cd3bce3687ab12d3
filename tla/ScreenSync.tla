------------------------------- MODULE ScreenSync -------------------------------
(***************************************************************************)
(* The transport carrying a screen: crates/mosh-state/src/complete.rs.     *)
(*                                                                         *)
(* A diff between two screens is meaningful only on the screen it was      *)
(* taken from, and it carries what the display shows: two screens may      *)
(* differ (a row rewritten with the same text is a different row to        *)
(* `Framebuffer == `) and yet have an empty diff.  View is what is shown.  *)
(***************************************************************************)
EXTENDS Transport

CONSTANTS
  View(_),          \* what a screen shows, and later frames depend on
  LeadsAstray(_, _) \* LeadsAstray(s, b): the frame that draws s over b may
                    \* leave a terminal with something else

(* Complete::subtract does nothing: a screen has no prefix to drop.        *)
ScreenSubtract(s, b) == s

(* What new_frame and act promise each other: but for the frames that lead *)
(* astray, a diff takes any screen showing its base to one showing its     *)
(* target, and is empty only between screens that show the same.  Terminal *)
(* says of the real frames which lead astray and checks that the others do *)
(* not (ClientShowsScreen).                                                *)
ScreenLaws ==
  /\ \A s, b \in State : Subtract(s, b) = s
  /\ \A s, b \in State : ~LeadsAstray(s, b) =>
       /\ DiffFrom(s, b) = NoDiff => View(s) = View(b)
       /\ DiffFrom(s, b) # NoDiff =>
            \A c \in State : View(c) = View(b) =>
              View(ApplyString(c, DiffFrom(s, b))) = View(s)

(* No frame that p has sent for a number up to num leads astray.           *)
Straight(p, num) ==
  \A m \in net[p] : m.new_num <= num =>
    ~LeadsAstray(made[p][m.new_num], made[p][m.old_num])

(* Every screen a peer holds is of a number its owner gave out, and unless *)
(* a frame sent by then led astray it shows what its owner's screen showed *)
(* when it was given that number, whatever was lost or came out of order.  *)
Agreement ==
  \A p \in Peer : \A i \in DOMAIN received[p] :
    LET r == received[p][i]
    IN  /\ r.num \in DOMAIN made[Other(p)]
        /\ Straight(Other(p), r.num) => View(r.state) = View(made[Other(p)][r.num])

(* A peer that leaves because its shutdown was acknowledged leaves the     *)
(* other one with its final screen, drawn as right as its frames are.      *)
FinalScreenDelivered ==
  \A p \in Peer : ShutdownAcknowledged(sender[p]) =>
    LET q == received[Other(p)]
    IN  /\ q[Len(q)].num = SHUTDOWN_NUM
        /\ Straight(p, SHUTDOWN_NUM) => View(q[Len(q)].state) = View(raw[p])
================================================================================
