-------------------------- MODULE SessionFindings --------------------------
(***************************************************************************)
(* Statements the repository makes about sessions that the code does not   *)
(* keep.  Each is checked alone, and TLC's counterexample is the history   *)
(* that breaks it.                                                         *)
(***************************************************************************)
EXTENDS MCSessionEngine

Kept == rows \cap rows'

\* An ended session takes no more turns: end_session calls Ended a "terminal
\* state" and the architecture document draws no way back to listening.  A turn
\* in flight when the player ends the session stores its own flow state.
EndedIsTerminal ==
    [][\A s \in Kept : session[s].flow = "Ended" =>
                           session'[s].flow # "PlayerTurnListening"]_vars

\* "To clear all saved transcripts: use Clear all local data": without any
\* session no transcript line is left, the search index included.
ClearErasesTranscripts == rows = {} => fts = {}

=============================================================================
