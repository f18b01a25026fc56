-------------------------- MODULE GatewaySettings --------------------------
(***************************************************************************)
(* Runtime settings of the API gateway (apps/api,                          *)
(* routes/runtime-settings.ts): six nullable numbers in model_config, of   *)
(* which two only take effect when the runtime is restarted.  Fractions    *)
(* are in tenths.                                                          *)
(***************************************************************************)
EXTENDS Integers

CONSTANTS
  Keys,    \* the settings under study, of SETTING_KEYS
  Values,  \* numbers a form may send
  Null     \* null: use the recommended value

Bounds == [context_length |-> <<512, 131072>>, gpu_layers |-> <<-1, 256>>,
           threads |-> <<1, 64>>, temperature |-> <<0, 20>>,
           top_p |-> <<0, 10>>, repeat_penalty |-> <<10, 20>>]
RestartRequired == {"context_length", "gpu_layers"}

VARIABLES
  stored,  \* the settings, as loadRuntimeSettings reads them
  answer   \* the last reply: refused, or whether it asks for a restart

vars == <<stored, answer>>

\* validate, for one field.
Valid(k, v) == v = Null \/ (v >= Bounds[k][1] /\ v <= Bounds[k][2])

\* Mutant: the settings are read after they were saved.
NeedsRestartLate(patch, current) ==
  \E k \in DOMAIN patch \intersect RestartRequired : patch[k] # (IF k \in DOMAIN patch THEN patch ELSE current)[k]

\* needsRestart: a field that is sent, needs a restart and changes.
NeedsRestart(patch, current) ==
  \E k \in DOMAIN patch \intersect RestartRequired : patch[k] # current[k]

\* saveRuntimeSettings: fields that are not sent keep their value.
Saved(patch) == [k \in Keys |-> IF k \in DOMAIN patch THEN patch[k] ELSE stored[k]]

Put(patch) ==
  IF \A k \in DOMAIN patch : Valid(k, patch[k])
  THEN /\ stored' = Saved(patch)
       /\ answer' = IF NeedsRestart(patch, stored) THEN "restart" ELSE "live"
  ELSE answer' = "refused" /\ UNCHANGED stored

Reset ==
  /\ stored' = [k \in Keys |-> Null]
  /\ answer' = "restart"

Init == stored = [k \in Keys |-> Null] /\ answer = "live"

Patches == UNION {[ks -> Values \union {Null}] : ks \in SUBSET Keys}
Next == (\E patch \in Patches : Put(patch)) \/ Reset

Spec == Init /\ [][Next]_vars

----------------------------------------------------------------------------
TypeOK ==
  /\ \A k \in Keys : stored[k] = Null \/ stored[k] \in Bounds[k][1]..Bounds[k][2]
  /\ DOMAIN stored = Keys
  /\ answer \in {"live", "restart", "refused"}

\* A change of a setting that needs a restart is never answered as if it were
\* live, and a form with one bad field changes none of them.
RestartAnnounced ==
  [][/\ (\E k \in Keys \intersect RestartRequired : stored'[k] # stored[k]) => answer' = "restart"
     /\ answer' = "refused" => UNCHANGED stored]_vars

=============================================================================
