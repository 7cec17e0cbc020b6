------------------------ MODULE MCConversationStore ------------------------
(***************************************************************************)
(* TLC instances of ConversationStore.  Callers and sessions are           *)
(* interchangeable.                                                        *)
(***************************************************************************)
EXTENDS ConversationStore, TLC

Symmetry == Permutations(Callers) \cup Permutations(Sessions)

\* Two checkpoints, or one and a restart; the idle TTL alone, or with one of
\* these while there is one conversation.
Bounded ==
  /\ nextSave + restarts + now <= 2
  /\ now = 0 \/ nextId = 1 \/ nextSave + restarts = 0
=============================================================================
