------------------------------- MODULE SyncState -------------------------------
(***************************************************************************)
(* What the transport needs of a state to carry it: the trait SyncState of *)
(* crates/mosh-network/src/sender.rs.  The transport is generic in it, and *)
(* so are the modules built on this one: rmosh synchronises an ordered     *)
(* stream of user events one way and a terminal screen the other way.      *)
(* StreamSync and ScreenSync say what each kind of state promises.         *)
(***************************************************************************)
CONSTANTS
  State,             \* the states an endpoint may be in
  Diff,              \* the encoded differences between two states
  NoDiff,            \* the empty encoding: `diff.is_empty()`
  InitialState,      \* the state both endpoints start from (number 0)
  Input,             \* what the owner of a state can do to it
  Do(_, _),          \* Do(s, i): the state s after the input i
  DiffFrom(_, _),    \* DiffFrom(s, b): the encoded change from b to s
  ApplyString(_, _), \* ApplyString(s, d): the state s after the diff d
  Subtract(_, _)     \* Subtract(s, b): s without the prefix it shares with b

(***************************************************************************)
(* The operators stay within their types.  It is a hypothesis of the       *)
(* theorems about the transport: TLC evaluates it for the finite screens   *)
(* of MCScreen, and it is a lemma of TransportProofs for the (infinite)    *)
(* streams.                                                                *)
(***************************************************************************)
SyncStateType ==
  /\ InitialState \in State
  /\ NoDiff \in Diff
  /\ \A s \in State, i \in Input : Do(s, i) \in State
  /\ \A s, b \in State : DiffFrom(s, b) \in Diff /\ Subtract(s, b) \in State
  /\ \A s \in State, d \in Diff : ApplyString(s, d) \in State
================================================================================
