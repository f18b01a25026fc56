----------------------------- MODULE WaitPanel ------------------------------
(* How long a turn is taking and how long it usually takes: the samples kept  *)
(* in this browser (lib/turnEstimate.ts), the rounding of what is quoted      *)
(* (lib/formatDuration.ts) and the panel that compares the two                *)
(* (components/NpcTurnProgress.tsx).  Times are in seconds.                   *)
EXTENDS Integers, Sequences, FiniteSets, SequencesExt

CONSTANTS Models,      \* names a runtime can report
          Lengths,     \* turn durations that occur, usable or not
          MaxSamples,  \* MAX_TURN_SAMPLES
          Longest      \* longest usable sample; the shortest is one second

Unknown == "unknown"
NoStore == [model |-> "none", samples |-> <<>>]
Keys    == Models \cup {Unknown}

VARIABLES store,    \* localStorage: one bucket, for one model
          key,      \* the model the runtime reports, or Unknown
          estimate, \* what the screen expects of a turn, 0 for nothing
          elapsed   \* the wait clock of the turn that is out
vars == <<store, key, estimate, elapsed>>

Usable(ms) == 1 <= ms /\ ms <= Longest
ReadTurnSamples(s, m) == IF s.model = m THEN s.samples ELSE <<>>

\* Mutant: a turn of an unnamed model starts the bucket over.
RecordedAnyway(s, m, ms) ==
  IF ~Usable(ms) THEN s
  ELSE LET all == Append(ReadTurnSamples(s, m), ms) IN
       [model |-> m, samples |-> IF Len(all) > MaxSamples THEN Tail(all) ELSE all]

\* recordTurnSample: what the store becomes.
Recorded(s, m, ms) ==
  IF ~Usable(ms) \/ (m = Unknown /\ s.model \notin {"none", Unknown}) THEN s
  ELSE LET all == Append(ReadTurnSamples(s, m), ms) IN
       [model |-> m, samples |-> IF Len(all) > MaxSamples THEN Tail(all) ELSE all]

Rounded(n, d) == (2 * n + d) \div (2 * d)   \* Math.round(n / d)

\* The k-th of the samples in rising order, sorted[k - 1] in the code.
Ranked(samples, k) ==
  CHOOSE v \in ToSet(samples) :
    /\ Cardinality({i \in DOMAIN samples : samples[i] < v}) < k
    /\ k <= Cardinality({i \in DOMAIN samples : samples[i] <= v})

\* The median, or 0 with nothing to go on.
EstimateTurnMs(samples) ==
  IF samples = <<>> THEN 0
  ELSE LET mid == Len(samples) \div 2 IN
       IF Len(samples) % 2 = 1 THEN Ranked(samples, mid + 1)
       ELSE Rounded(Ranked(samples, mid) + Ranked(samples, mid + 1), 2)

Floor0(n) == IF n < 0 THEN 0 ELSE n

\* roundApproxDuration: seconds below ten, fives below a minute, then tens.
RoundApproxDuration(s) ==
  LET t == Floor0(s)
      grain == IF t < 10 THEN 1 ELSE IF t < 60 THEN 5 ELSE 10
      r == Rounded(t, grain) * grain
  IN IF r < grain THEN grain ELSE r

MaxFillPercent == 95
AnnounceInterval == 30

\* Mutant: the verdict is taken on the median, not on the figure quoted.
SaidOfMedian(heard, quoted) ==
  IF elapsed < AnnounceInterval THEN "nothing"
  ELSE IF quoted > 0 /\ heard > estimate THEN "longer"
  ELSE IF quoted > 0 THEN "of about" ELSE "so far"

\* What the screen reader is told, on the 30 s grid.
Said(heard, quoted) ==
  IF elapsed < AnnounceInterval THEN "nothing"
  ELSE IF quoted > 0 /\ heard > quoted THEN "longer"
  ELSE IF quoted > 0 THEN "of about" ELSE "so far"

\* Everything the panel decides, from the clock and the estimate.
Panel ==
  LET has     == estimate > 0
      quoted  == IF has THEN RoundApproxDuration(estimate) ELSE 0
      percent == IF has THEN Rounded(elapsed * 100, quoted) ELSE 0
      heard   == (elapsed \div AnnounceInterval) * AnnounceInterval
  IN [quoted  |-> quoted,
      overrun |-> has /\ elapsed > quoted,
      fill    |-> IF percent > MaxFillPercent THEN MaxFillPercent ELSE Floor0(percent),
      remaining |-> IF has THEN Floor0(quoted - elapsed) ELSE 0,
      said    |-> Said(heard, quoted)]

-----------------------------------------------------------------------------
Init == store = NoStore /\ key = Unknown /\ estimate = 0 /\ elapsed = 0

\* /health names the model, or names another one: the estimate is read again.
ModelNamed ==
  \E m \in Keys : /\ key' = m
                  /\ estimate' = EstimateTurnMs(ReadTurnSamples(store, m))
                  /\ UNCHANGED <<store, elapsed>>

\* A turn lands: its duration is filed and the estimate follows.
TurnLanded ==
  \E ms \in Lengths :
    LET s == Recorded(store, key, ms) IN
    /\ store' = s
    /\ estimate' = EstimateTurnMs(ReadTurnSamples(s, key))
    /\ elapsed' = 0 /\ UNCHANGED key

\* The clock of a turn that is out; the device clock may step back.
Tick == elapsed' \in (Lengths \cup {-1}) /\ UNCHANGED <<store, key, estimate>>

\* Settings clears local data.
ClearTurnSamples == store' = NoStore /\ UNCHANGED <<key, estimate, elapsed>>

Next == ModelNamed \/ TurnLanded \/ Tick \/ ClearTurnSamples
Spec == Init /\ [][Next]_vars

-----------------------------------------------------------------------------
\* A turn that finishes before the runtime named its model never displaces what
\* a named model has accumulated.
NamedSurvives ==
  [][store.model \in Models /\ key = Unknown => store' \in {store, NoStore}]_vars

\* What is announced, drawn and captioned agree: the bar is never full, and
\* nothing is called longer than usual before the quoted figure is passed.
PanelAgrees ==
  /\ Panel.fill \in 0..MaxFillPercent
  /\ estimate > 0 => Panel.quoted > 0
  /\ Panel.said = "longer" => Panel.overrun
  /\ Panel.overrun => Panel.remaining = 0
  /\ ~Panel.overrun /\ Panel.quoted > 0 /\ elapsed < Panel.quoted => Panel.remaining > 0
=============================================================================
