---------------------------- MODULE EventDelivery ----------------------------
(***************************************************************************)
(* What an EventQueue promises the thread it is set up in, without threads *)
(* or queues: each event the compositor sends is handled there once, in    *)
(* the order in which the events were sent, and none is forgotten.         *)
(***************************************************************************)
EXTENDS Naturals, Sequences, SequencesExt

VARIABLES
  sent,    \* the events sent to the objects of the thread
  handled  \* those of them it has handled

vars == <<sent, handled>>

Init == sent = <<>> /\ handled = <<>>

Send ==
  /\ IsStrictPrefix(sent, sent')
  /\ UNCHANGED handled

Handle ==
  /\ Len(handled) < Len(sent)
  /\ handled' = Append(handled, sent[Len(handled) + 1])
  /\ UNCHANGED sent

Next == Send \/ Handle

Spec == Init /\ [][Next]_vars /\ WF_vars(Handle)
=============================================================================
