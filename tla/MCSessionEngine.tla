-------------------------- MODULE MCSessionEngine --------------------------
(***************************************************************************)
(* A small scenario for checking the session engine: one variable, two     *)
(* events (one of them repeating), a success and a failure threshold, and  *)
(* the replies a model may give.                                           *)
(***************************************************************************)
EXTENDS SessionEngine, TLC

MCVars == {"trust"}
MCLo == [v \in MCVars |-> 0]
MCHi == [v \in MCVars |-> 3]
MCDefault == [v \in MCVars |-> 1]
MCMaxDelta == [v \in MCVars |-> 1]

MCEvents == {"opens_up", "interrupts"}
MCWhen == [e \in MCEvents |->
             IF e = "opens_up"
             THEN [type |-> "variable_above", variable |-> "trust", threshold |-> 1]
             ELSE [type |-> "flag", flag_id |-> "rude"]]
MCRepeats == {"interrupts"}
MCSuccess == [type |-> "variable_above", variable |-> "trust", threshold |-> 2]
MCFailure == [type |-> "variable_below", variable |-> "trust", threshold |-> 1]

\* Replies: a proposal larger than the per-turn limit, a rude one, an unknown
\* key with a model-side ending, a safety stop, the safe fallback.
Reply(delta, flags) == [delta |-> delta, flags |-> flags, stop |-> FALSE, continue |-> TRUE,
                        ending |-> "none", fallback |-> FALSE]
Warm == Reply([v \in MCVars |-> 2], {})
Rude == Reply([v \in MCVars |-> -1], {"rude"})
Calm == Reply(Uninitialised, {})
Quit == [Reply([v \in {"unknown_key"} |-> 1], {}) EXCEPT !.continue = FALSE, !.ending = "player_exit"]
Stop == [Calm EXCEPT !.stop = TRUE, !.continue = FALSE]
Fallback == [Calm EXCEPT !.fallback = TRUE]

AllReplies == {Warm, Rude, Calm, Quit, Stop, Fallback}
FewReplies == {Warm, Calm}
WarmReplies == {Warm}

AllSetups == [save : BOOLEAN, tts : BOOLEAN]
Spoken == {[save |-> TRUE, tts |-> TRUE]}
Silent == {[save |-> TRUE, tts |-> FALSE]}
Saved == [save : BOOLEAN, tts : {FALSE}]

SessSymmetry == Permutations(Sess)
ReqSymmetry == Permutations(Reqs)
=============================================================================
