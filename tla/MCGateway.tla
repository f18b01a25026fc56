----------------------------- MODULE MCGateway -----------------------------
(***************************************************************************)
(* The gateway's three groups of routes in one process.  They share the    *)
(* database file but neither a table nor a lock, so each is explored while *)
(* the others are at rest: interleaving them adds products of states and   *)
(* no behaviour (`group` names the one that runs).                         *)
(***************************************************************************)
EXTENDS Gateway, Integers, TLC

CONSTANTS
  Dl, Registry,        \* of GatewayModels
  Keys, Values, Null   \* of GatewaySettings

VARIABLES group,
          serial, status, task, inode, part, final, active, bench,
          stored, answer

Models   == INSTANCE GatewayModels
Settings == INSTANCE GatewaySettings

ASSUME DlAssumption == Models!NoFile \notin Dl

MCScenario == [difficulties |-> {"standard"}, languages |-> {"en"}, meters |-> FALSE]
Form(save) == [role |-> "guest", difficulty |-> "standard", language |-> "en",
               meters |-> FALSE, save |-> save]
MCSetups == {Form(TRUE), Form(FALSE)} \union
  {[Form(TRUE) EXCEPT !.role = "blank"], [Form(TRUE) EXCEPT !.difficulty = "hard"],
   [Form(TRUE) EXCEPT !.language = "fr"], [Form(TRUE) EXCEPT !.meters = TRUE]}

\* As shipped no entry has a checksum and a URL; one that has both is added.
MCRegistry == [checksum : BOOLEAN, url : BOOLEAN]

\* The ends of the ranges, and the numbers next to them.
MCKeys == {"gpu_layers", "temperature"}
MCValues == {-2, -1, 0, 20, 21, 64, 65, 256, 257}

MCSymmetry == Permutations(Sess) \union Permutations(Calls) \union Permutations(Clients)
                \union Permutations(Dl)

ModelVars == <<serial, status, task, inode, part, final, active, bench>>
SettingVars == <<stored, answer>>

MCInit ==
  /\ group \in {"sessions", "models", "settings"}
  /\ Init /\ Models!Init /\ Settings!Init
  /\ delay => group = "sessions"
  /\ serial => group = "models"

MCNext ==
  \/ group = "sessions" /\ Next /\ UNCHANGED <<group, ModelVars, SettingVars>>
  \/ group = "models" /\ Models!Next /\ UNCHANGED <<group, vars, SettingVars>>
  \/ group = "settings" /\ Settings!Next /\ UNCHANGED <<group, vars, ModelVars>>

MCvars == <<group, vars, ModelVars, SettingVars>>
MCSpec == MCInit /\ [][MCNext]_MCvars

\* Table, events and logbook agree: no event outlives its session, the
\* transcript has the turns the row counts, a session that listens has turns
\* left, and a session's scores count once.
SessionsAgree ==
  TypeOK /\ EventsOwned /\ TurnLimit /\ TranscriptMatchesCount /\ ScoresCountOnce

\* What the models table says is so: ready means the verified file, active
\* means there is one, downloading means that a call works on it.
ModelsAreHonest ==
  Models!TypeOK /\ Models!ReadyIsIntact /\ Models!ActiveHasFile /\ Models!RowsAreDriven

\* What a client was told stays true: an ended session stays ended, event
\* numbers never start again, the outcome of a download is not rewritten, and
\* no change that needs a restart was answered as live.
AnswersStand ==
  EndedStays /\ SeqSurvives /\ Models!OutcomeStays /\ Settings!RestartAnnounced

=============================================================================
