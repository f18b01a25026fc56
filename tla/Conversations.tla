--------------------------- MODULE Conversations ---------------------------
(***************************************************************************)
(* What the session engine promises, with the tables and the awaits left   *)
(* out: a conversation is a sequence of simulation snapshots, one for each *)
(* completed turn.  It grows by one turn at a time, each a legal step from *)
(* the last; a new conversation may start from a prefix of another; one or *)
(* all of them may be erased.  Nothing else ever happens to them.          *)
(***************************************************************************)
EXTENDS ScenarioState, Sequences

CONSTANTS Sess,     \* conversation ids
          Fresh     \* the snapshot before any turn

VARIABLES live,     \* the conversations that exist
          used,     \* the ids given so far
          log       \* the snapshots of each conversation

jvars == <<live, used, log>>

LastOf(history) == IF history = <<>> THEN Fresh ELSE history[Len(history)]

\* One reply moves each variable by at most its limit and forgets no event.
Step(old, new) ==
    /\ old.fired \subseteq new.fired
    /\ \/ new.vars = old.vars
       \/ \A v \in Vars : /\ new.vars[v] \in Lo[v] .. Hi[v]
                          /\ new.vars[v] - Base(old.vars)[v] \in -MaxDelta[v] .. MaxDelta[v]

JInit == live = {} /\ used = {} /\ log = [s \in Sess |-> <<>>]

\* A conversation with a history, possibly empty, comes to be.
Begin(s, history) ==
    /\ s \notin used
    /\ live' = live \cup {s}
    /\ used' = used \cup {s}
    /\ log' = [log EXCEPT ![s] = history]

Open(s) == Begin(s, <<>>)

Branch(p, k, b) ==
    /\ p \in live
    /\ Begin(b, SubSeq(log[p], 1, k))

Grow(s) ==
    /\ s \in live
    /\ Len(log[s]) < MaxTurns
    /\ Len(log'[s]) = Len(log[s]) + 1
    /\ Step(LastOf(log[s]), LastOf(log'[s]))
    /\ log' = [log EXCEPT ![s] = Append(log[s], LastOf(log'[s]))]
    /\ UNCHANGED <<live, used>>

Forget(gone) ==
    /\ live' = live \ gone
    /\ log' = [s \in Sess |-> IF s \in gone THEN <<>> ELSE log[s]]
    /\ UNCHANGED used

JNext ==
    \/ \E s \in Sess : Open(s) \/ Grow(s) \/ Forget({s})
    \/ \E p, b \in Sess : \E k \in 0 .. Len(log[p]) - 1 : Branch(p, k, b)
    \/ Forget(live)

JSpec == JInit /\ [][JNext]_jvars

=============================================================================
