----------------------------- MODULE SerialQueue -----------------------------
(***************************************************************************)
(* What the listeners of the validation interface are promised: callbacks  *)
(* run one at a time, in the order in which they were added, each once,    *)
(* and every one of them does run (src/validationinterface.cpp, "must      *)
(* ensure all callbacks happen in-order").  Only a crash loses callbacks.  *)
(***************************************************************************)
EXTENDS Sequences

CONSTANT Callbacks

VARIABLES
  queue,   \* added and not begun
  busy     \* the callback that runs, or none

Init == queue = <<>> /\ busy = {}

Add(c) == queue' = Append(queue, c) /\ UNCHANGED busy

Begin ==
  /\ busy = {} /\ queue # <<>>
  /\ busy' = {Head(queue)} /\ queue' = Tail(queue)

End == busy # {} /\ busy' = {} /\ UNCHANGED queue

Crash == queue' = <<>> /\ busy' = {}

Next == (\E c \in Callbacks : Add(c)) \/ Begin \/ End \/ Crash

Spec == Init /\ [][Next]_<<queue, busy>>

FairSpec == Spec /\ WF_<<queue, busy>>(Begin) /\ WF_<<queue, busy>>(End)

=============================================================================
