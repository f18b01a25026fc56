------------------------- MODULE SessionRefinement -------------------------
(***************************************************************************)
(* The session engine implements Conversations.  Turns of one session may  *)
(* overlap, fail, come back after the session ended or was deleted; seen   *)
(* through the NPC rows of the transcript every step is still one legal    *)
(* turn, one branch, one erasure, or nothing.                              *)
(***************************************************************************)
EXTENDS MCSessionEngine, Sequences

\* The snapshots of the completed turns, in order.
History(s) ==
    [k \in 1 .. session[s].count |-> (CHOOSE row \in turns[s] : row.n = 2 * k).snap]

Journal == INSTANCE Conversations
    WITH live <- rows, used <- used, log <- [s \in Sess |-> History(s)],
         Fresh <- FreshSnapshot

\* Every behaviour of the session engine is a behaviour of the conversations it
\* promises: turns are atomic and in order, branches are prefixes, and erasing
\* is all or nothing.
ImplementsConversations == Journal!JSpec

=============================================================================
