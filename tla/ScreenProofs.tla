----------------------------- MODULE ScreenProofs -----------------------------
(***************************************************************************)
(* Theorems about the conversation screen and the parts mounted on it, for *)
(* any number of turns, page loads and reconcile rounds.                   *)
(***************************************************************************)
EXTENDS MCConversationScreen, SequenceTheorems, FiniteSetTheorems, WellFoundedInduction, TLAPS

-----------------------------------------------------------------------------
(***************************************************************************)
(* Rows and sequences of rows.                                             *)
(***************************************************************************)
Has(s, r) == r \in ToSet(s)

\* Rows are told apart by their role and turn.
LEMMA RowNames ==
  ASSUME NEW k, NEW n
  PROVE  /\ Player(k) # Opening /\ Player(k) # Npc(n)
         /\ Player(k) = Player(n) <=> k = n
         /\ Npc(k) = Npc(n) <=> k = n
         /\ Npc(n)[1] = "npc" /\ Player(n)[1] = "player" /\ Opening[1] = "npc_opening"
BY DEF Player, Npc, Opening

\* The rows of a turn are rows.
LEMMA RowsOf ==
  /\ Opening \in Rows
  /\ \A n \in Turns : Player(n) \in Rows
  /\ \A n \in 0..MaxTurns : Npc(n) \in Rows
  /\ \A n \in Turns : n \in 0..MaxTurns /\ n \in Nat
BY ScreenAssumption DEF Rows, Turns

\* A row is in a sequence when some place holds it.
LEMMA HasPlace ==
  ASSUME NEW S, NEW s \in Seq(S), NEW r
  PROVE  Has(s, r) <=> \E i \in 1..Len(s) : s[i] = r
BY DEF Has, ToSet

\* What appending a row does to the rows held, their number and the last one.
LEMMA Appended ==
  ASSUME NEW S, NEW s \in Seq(S), NEW e \in S
  PROVE  /\ Append(s, e) \in Seq(S) /\ Append(s, e) # <<>>
         /\ Len(Append(s, e)) = Len(s) + 1
         /\ Last(Append(s, e)) = e
         /\ \A r : Has(Append(s, e), r) <=> Has(s, r) \/ r = e
<1>1. Append(s, e) \in Seq(S) /\ Len(Append(s, e)) = Len(s) + 1 /\ Append(s, e) # <<>>
  BY AppendProperties
<1>2. /\ \A i \in 1..Len(s) : Append(s, e)[i] = s[i]
      /\ Append(s, e)[Len(s) + 1] = e
  BY AppendProperties
<1>3. Len(s) \in Nat
  OBVIOUS
<1>4. ASSUME NEW r PROVE Has(Append(s, e), r) <=> Has(s, r) \/ r = e
  <2>1. Has(Append(s, e), r) <=> \E i \in 1..Len(s) + 1 : Append(s, e)[i] = r
    BY <1>1, HasPlace
  <2>2. Has(s, r) <=> \E i \in 1..Len(s) : s[i] = r
    BY HasPlace
  <2>3. \A i \in 1..Len(s) + 1 : i \in 1..Len(s) \/ i = Len(s) + 1
    BY <1>3
  <2>4. \A i \in 1..Len(s) : i \in 1..Len(s) + 1
    BY <1>3
  <2>5. Len(s) + 1 \in 1..Len(s) + 1
    BY <1>3
  <2>6. QED BY <1>2, <2>1, <2>2, <2>3, <2>4, <2>5
<1>5. QED BY <1>1, <1>2, <1>4 DEF Last

\* A committed turn adds two rows at once.
LEMMA AppendedTwo ==
  ASSUME NEW S, NEW s \in Seq(S), NEW a \in S, NEW b \in S
  PROVE  /\ s \o <<a, b>> = Append(Append(s, a), b)
         /\ s \o <<a, b>> \in Seq(S) /\ s \o <<a, b>> # <<>>
         /\ Len(s \o <<a, b>>) = Len(s) + 2
         /\ Last(s \o <<a, b>>) = b
         /\ \A r : Has(s \o <<a, b>>, r) <=> Has(s, r) \/ r = a \/ r = b
<1>1. s \o <<a, b>> = Append(Append(s, a), b)
  OBVIOUS
<1>2. PICK t \in Seq(S) : t = Append(s, a)
  BY Appended
<1>3. Len(t) = Len(s) + 1 /\ \A r : Has(t, r) <=> Has(s, r) \/ r = a
  BY <1>2, Appended
<1>4. /\ Append(t, b) \in Seq(S) /\ Append(t, b) # <<>>
      /\ Len(Append(t, b)) = Len(t) + 1 /\ Last(Append(t, b)) = b
      /\ \A r : Has(Append(t, b), r) <=> Has(t, r) \/ r = b
  BY Appended
<1>5. Len(s) \in Nat
  OBVIOUS
<1>6. Len(t) + 1 = Len(s) + 2
  BY <1>3, <1>5
<1>7. QED BY <1>1, <1>2, <1>3, <1>4, <1>6

\* The empty sequence holds nothing, that of one row holds that row.
LEMMA Few ==
  /\ \A r : ~Has(<<>>, r)
  /\ \A e, r : Has(<<e>>, r) <=> r = e
BY DEF Has, ToSet

\* A set of numbers that is not empty has a least one.
LEMMA LeastNumber ==
  ASSUME NEW T \in SUBSET Nat, T # {}
  PROVE  \E x \in T : \A y \in T : x <= y
<1>1. \E x \in T : \A y \in T : ~(<<y, x>> \in OpToRel(<, Nat))
  BY NatLessThanWellFounded, WFMin
<1>2. \A x, y \in T : ~(<<y, x>> \in OpToRel(<, Nat)) => x <= y
  BY DEF OpToRel
<1> QED BY <1>1, <1>2

\* The recursion of Without, one place after the other.
Keeps(s, r, f) ==
  f = [i \in 0..Len(s) |-> IF i = 0 THEN <<>>
                           ELSE IF s[i] = r THEN f[i - 1] ELSE Append(f[i - 1], s[i])]

\* The recursion has one solution at most.
LEMMA KeepsOnly ==
  ASSUME NEW S, NEW s \in Seq(S), NEW r, NEW f, NEW g, Keeps(s, r, f), Keeps(s, r, g)
  PROVE  f = g
<1> DEFINE T == {i \in 0..Len(s) : f[i] # g[i]}
<1>1. Len(s) \in Nat
  OBVIOUS
<1>2. /\ DOMAIN f = 0..Len(s) /\ DOMAIN g = 0..Len(s)
      /\ f = [i \in 0..Len(s) |-> f[i]] /\ g = [i \in 0..Len(s) |-> g[i]]
  BY DEF Keeps
<1>3. \A i \in 0..Len(s) :
        /\ f[i] = IF i = 0 THEN <<>> ELSE IF s[i] = r THEN f[i - 1] ELSE Append(f[i - 1], s[i])
        /\ g[i] = IF i = 0 THEN <<>> ELSE IF s[i] = r THEN g[i - 1] ELSE Append(g[i - 1], s[i])
  BY DEF Keeps
<1>4. SUFFICES ASSUME T # {} PROVE FALSE
  BY <1>2
<1>5. T \in SUBSET Nat
  BY <1>1
<1>6. PICK i \in T : \A j \in T : i <= j
  BY <1>4, <1>5, LeastNumber
<1>7. i # 0 /\ i \in 0..Len(s) /\ f[i] # g[i]
  BY <1>1, <1>3
<1>8. i - 1 \in 0..Len(s) /\ ~(i <= i - 1)
  BY <1>1, <1>7
<1>9. f[i - 1] = g[i - 1]
  BY <1>6, <1>8
<1>10. QED BY <1>3, <1>7, <1>9

\* A filter takes back the row that was appended, when it is there only once.
LEMMA WithoutLast ==
  ASSUME NEW S, NEW s \in Seq(S), NEW r \in S, ~Has(s, r)
  PROVE  Without(Append(s, r), r) = s
<1> DEFINE t == Append(s, r)
           g == [i \in 0..Len(t) |-> IF i = Len(t) THEN s ELSE SubSeq(s, 1, i)]
<1>1. /\ t \in Seq(S) /\ Len(t) = Len(s) + 1 /\ Len(s) \in Nat
      /\ \A i \in 1..Len(s) : t[i] = s[i] /\ s[i] \in S
      /\ t[Len(s) + 1] = r
  BY AppendProperties
<1>2. \A i \in 1..Len(s) : s[i] # r
  BY HasPlace
<1>3. \A i \in 1..Len(s) : SubSeq(s, 1, i) = Append(SubSeq(s, 1, i - 1), s[i])
  BY <1>1
<1>4. SubSeq(s, 1, 0) = <<>> /\ SubSeq(s, 1, Len(s)) = s
  OBVIOUS
<1>5. Keeps(t, r, g)
  <2>1. ASSUME NEW i \in 0..Len(t)
        PROVE  g[i] = IF i = 0 THEN <<>>
                      ELSE IF t[i] = r THEN g[i - 1] ELSE Append(g[i - 1], t[i])
    <3>1. CASE i = 0
      BY <1>1, <1>4, <3>1
    <3>2. CASE i \in 1..Len(s)
      <4>1. /\ t[i] = s[i] /\ t[i] # r /\ i # Len(t) /\ i # 0
            /\ i - 1 \in 0..Len(t) /\ i - 1 # Len(t)
        BY <1>1, <1>2, <3>2
      <4>2. g[i] = SubSeq(s, 1, i) /\ g[i - 1] = SubSeq(s, 1, i - 1)
        BY <4>1
      <4>3. QED BY <1>3, <3>2, <4>1, <4>2
    <3>3. CASE i = Len(s) + 1
      <4>1. /\ t[i] = r /\ i = Len(t) /\ i # 0
            /\ i - 1 \in 0..Len(t) /\ i - 1 # Len(t) /\ i - 1 = Len(s)
        BY <1>1, <3>3
      <4>2. g[i] = s /\ g[i - 1] = SubSeq(s, 1, Len(s))
        BY <4>1
      <4>3. QED BY <1>4, <4>1, <4>2
    <3>4. QED BY <1>1, <3>1, <3>2, <3>3
  <2>2. QED BY <2>1 DEF Keeps
<1>6. PICK f : f = CHOOSE h : Keeps(t, r, h)
  OBVIOUS
<1>7. Keeps(t, r, f)
  BY <1>5, <1>6
<1>8. f = g
  BY <1>1, <1>5, <1>7, KeepsOnly
<1>9. Without(t, r) = f[Len(t)]
  BY <1>6 DEF Without, Keeps
<1>10. g[Len(t)] = s
  BY <1>1
<1>11. QED BY <1>8, <1>9, <1>10

-----------------------------------------------------------------------------
(***************************************************************************)
(* The screen: what holds in every state.                                  *)
(***************************************************************************)
Submitting  == ui.phase = "submitting"
Uncommitted == Submitting /\ ~ui.committed
Talking     == ui.phase \in {"active", "ending", "ended"}
LastRound   == turn.polls >= Polls

\* The phase, the suspended turn and the calls that are out go together.
Control ==
  /\ call.start # "none" => ui.phase = "starting" /\ call.fetch = "none" /\ call.copy = <<>>
  /\ call.end # "none" <=> ui.phase = "ending"
  /\ ui.phase = "starting" => call.start # "none" \/ call.fetch # "none"
  /\ Submitting <=> turn.stage # "idle"
  /\ Submitting <=> call.turn # "none"
  /\ call.wire # "none" => call.turn = "sent"
  /\ turn.stage = "asked" => call.fetch # "none"
  /\ call.fetch # "none" => ui.phase = "starting" \/ turn.stage = "asked"
  /\ call.fetch = "copy" => call.flow \in Flows
  /\ ui.phase \in {"starting", "error", "away"} => ui.rows = <<>>
  /\ Submitting => turn.n = hist.sent /\ turn.n \in Turns
  /\ turn.stage = "race" => turn.polls = 0 /\ turn.ask
  /\ turn.stage = "asked" /\ LastRound => turn.n \notin srv.jobs

\* The rows on screen: counted, and the player's own among them exactly once
\* until it is answered.
Shown ==
  /\ NumberMatchesRows /\ AwaitingUntilReply
  /\ Submitting => Has(ui.rows, Player(turn.n))
  /\ Uncommitted => \E before \in Seq(Rows) : /\ ui.rows = Append(before, Player(turn.n))
                                              /\ ~Has(before, Player(turn.n))

Base == TypeOK /\ Control /\ Shown

UiType == [phase : Phases, flow : Flows, ending : {"none", "named"}, rows : Seq(Rows),
           num : Nat, committed : BOOLEAN, text : BOOLEAN, err : {"none", "network", "timeout"}]

-----------------------------------------------------------------------------
(***************************************************************************)
(* What the timers and continuations of a turn may do to it.               *)
(***************************************************************************)
Over ==
  /\ Submitting /\ turn' = NoTurn
  /\ call' = [FetchOver EXCEPT !.turn = "none", !.wire = "none"]
  /\ ui' \in [phase : {"active", "ended"}, flow : Flows, ending : {"none", "named"},
              rows : Seq(Rows), num : Nat, committed : BOOLEAN, text : BOOLEAN,
              err : {"none", "network", "timeout"}]
  /\ ui'.text => ui.text
  /\ UNCHANGED <<srv, ws, hist>>

\* The reply was on screen already.
Closes ==
  /\ Over /\ ui.committed
  /\ ui'.rows = ui.rows /\ ui'.num = ui.num /\ ui'.err = ui.err

\* The answer brings the reply.
Lands ==
  /\ Over /\ ~ui.committed /\ call.turn \in {"ok", "over"}
  /\ ui'.rows = Append(ui.rows, Npc(turn.n)) /\ ui'.num = ui.num + 1 /\ ui'.err = ui.err

\* The request failed, or the ceiling is reached.
GivesUp ==
  /\ Over
  /\ ui'.rows = IF ui.committed THEN ui.rows ELSE Without(ui.rows, Player(turn.n))
  /\ ui'.num = IF ui.committed THEN ui.num ELSE ui.num - 1
  /\ \/ call.turn = "failed" /\ ui'.err = "network"
     \/ /\ LastRound /\ turn.n \notin srv.jobs /\ ui'.err = "timeout"
        /\ \/ turn.stage = "asked" /\ call.fetch \in {"copy", "withheld", "failed"} /\ ~Ahead
           \/ turn.stage = "asleep" /\ ~turn.ask /\ ~ui.committed

\* The transcript of the server is ahead.
Adopts ==
  /\ Over /\ turn.stage = "asked" /\ Ahead
  /\ ui'.rows = call.copy /\ ui'.num = Len(call.copy) /\ ui'.err = ui.err

\* A round asks for the transcript.
Asks ==
  /\ Submitting /\ ~ui.committed /\ turn.ask
  /\ LastRound => turn.n \notin srv.jobs
  /\ turn' = [turn EXCEPT !.stage = "asked"] /\ call' = [call EXCEPT !.fetch = "sent"]
  /\ turn.stage \in {"race", "asleep"}
  /\ UNCHANGED <<ui, srv, ws, hist>>

\* A round is over.
Sleeps ==
  /\ Submitting /\ turn.polls < Polls
  /\ \E ask \in BOOLEAN :
       /\ turn' = [turn EXCEPT !.stage = "asleep", !.ask = ask, !.polls = @ + 1]
       /\ turn.ask /\ ~ask => call.fetch = "withheld"
       /\ ask => turn.ask
  /\ call' = FetchOver
  /\ UNCHANGED <<ui, srv, ws, hist>>

\* What the reply of a turn does to the page.
LEMMA Replied ==
  ASSUME NEW u \in UiType, NEW n, Npc(n) \in Rows
  PROVE  /\ Reply(u, n) \in UiType
         /\ Reply(u, n).rows = Append(u.rows, Npc(n)) /\ Reply(u, n).num = u.num + 1
         /\ Reply(u, n).committed
         /\ Reply(u, n).phase = u.phase /\ Reply(u, n).flow = u.flow
         /\ Reply(u, n).ending = u.ending /\ Reply(u, n).err = u.err
         /\ Reply(u, n).text = u.text
<1>1. PICK rws \in Seq(Rows), k \in Nat : rws = Append(u.rows, Npc(n)) /\ k = u.num + 1
  <2>1. u.rows \in Seq(Rows) /\ u.num \in Nat
    BY DEF UiType
  <2>2. Append(u.rows, Npc(n)) \in Seq(Rows) /\ u.num + 1 \in Nat
    BY <2>1
  <2>3. QED BY <2>2
<1>2. Reply(u, n) = [u EXCEPT !.rows = rws, !.num = k, !.committed = TRUE]
  BY <1>1 DEF Reply
<1>3. QED BY <1>1, <1>2 DEF UiType

\* A turn that was committed or answered ends as the answer says.
LEMMA Finishes ==
  ASSUME Base, Submitting, call.turn \in {"ok", "over"}, Finish(call.turn),
         UNCHANGED <<srv, ws, hist>>
  PROVE  Closes \/ Lands
<1>1. turn.n \in Turns /\ Npc(turn.n) \in Rows
  BY RowsOf DEF Base, Control
<1>2. ui \in UiType
  BY DEF Base, TypeOK, UiType
<1>3. PICK flow \in Flows, phase \in {"active", "ended"}, ending \in {"none", "named"} :
        /\ flow = IF call.turn = "over" THEN "Ended" ELSE "PlayerTurnListening"
        /\ phase = IF flow = "Ended" THEN "ended" ELSE "active"
        /\ ending = IF flow = "Ended" THEN "named" ELSE ui.ending
  BY <1>2 DEF Flows, UiType
<1>4. PICK told \in UiType :
        /\ told = IF ui.committed THEN ui ELSE Reply(ui, turn.n)
        /\ told.ending = ui.ending /\ told.err = ui.err
        /\ told.rows = IF ui.committed THEN ui.rows ELSE Append(ui.rows, Npc(turn.n))
        /\ told.num = IF ui.committed THEN ui.num ELSE ui.num + 1
  <2>1. Append(ui.rows, Npc(turn.n)) \in Seq(Rows)
    BY <1>1, <1>2 DEF UiType
  <2>2. CASE ui.committed
    BY <1>2, <2>2
  <2>3. CASE ~ui.committed
    <3>1. /\ Reply(ui, turn.n) \in UiType
          /\ Reply(ui, turn.n).ending = ui.ending /\ Reply(ui, turn.n).err = ui.err
          /\ Reply(ui, turn.n).rows = Append(ui.rows, Npc(turn.n))
          /\ Reply(ui, turn.n).num = ui.num + 1
      BY <1>1, <1>2, Replied
    <3>2. QED BY <2>3, <3>1
  <2>4. QED BY <2>2, <2>3
<1>5. ui' = [told EXCEPT !.phase = phase, !.flow = flow, !.text = FALSE, !.ending = ending]
  <2>1. ui' = [Settled(told, flow) EXCEPT !.flow = flow, !.text = FALSE, !.ending = IF flow = "Ended" THEN "named" ELSE @]
    BY <1>3, <1>4 DEF Finish
  <2>2. Settled(told, flow) = [told EXCEPT !.phase = phase]
    BY <1>3 DEF Settled
  <2>3. [told EXCEPT !.phase = phase].ending = ui.ending
    BY <1>4 DEF UiType
  <2>4. QED BY <1>3, <2>1, <2>2, <2>3
<1>6. /\ ui' \in [phase : {"active", "ended"}, flow : Flows, ending : {"none", "named"},
                  rows : Seq(Rows), num : Nat, committed : BOOLEAN, text : BOOLEAN,
                  err : {"none", "network", "timeout"}]
      /\ ~ui'.text /\ ui'.rows = told.rows /\ ui'.num = told.num /\ ui'.err = told.err
  BY <1>5 DEF UiType
<1>7. Over
  BY <1>6 DEF Over, Finish
<1>8. QED BY <1>2, <1>4, <1>6, <1>7 DEF Closes, Lands, UiType

\* What a rollback leaves: the rows before the player's.
LEMMA RollsBack ==
  ASSUME Base, Uncommitted
  PROVE  /\ Without(ui.rows, Player(turn.n)) \in Seq(Rows)
         /\ ui.rows = Append(Without(ui.rows, Player(turn.n)), Player(turn.n))
         /\ Len(Without(ui.rows, Player(turn.n))) = Len(ui.rows) - 1
         /\ ui.num - 1 \in Nat /\ Len(ui.rows) \in Nat
<1>1. Player(turn.n) \in Rows
  BY RowsOf DEF Base, Control, Uncommitted
<1>2. PICK before \in Seq(Rows) : /\ ui.rows = Append(before, Player(turn.n))
                                  /\ ~Has(before, Player(turn.n))
  BY DEF Base, Shown
<1>3. Without(ui.rows, Player(turn.n)) = before
  BY <1>1, <1>2, WithoutLast
<1>4. Len(ui.rows) = Len(before) + 1 /\ Len(before) \in Nat
  BY <1>1, <1>2, Appended
<1>5. ui.num = Len(ui.rows)
  BY DEF Base, Shown, NumberMatchesRows
<1>6. QED BY <1>2, <1>3, <1>4, <1>5

\* A failed or overdue turn is given up.
LEMMA Fails ==
  ASSUME Base, Submitting, NEW result \in {"failed", "timeout"}, Finish(result),
         result = "failed" => call.turn = "failed",
         result = "timeout" =>
            /\ LastRound /\ turn.n \notin srv.jobs
            /\ \/ turn.stage = "asked" /\ call.fetch \in {"copy", "withheld", "failed"} /\ ~Ahead
               \/ turn.stage = "asleep" /\ ~turn.ask /\ ~ui.committed,
         UNCHANGED <<srv, ws, hist>>
  PROVE  GivesUp
<1> DEFINE err == IF result = "failed" THEN "network" ELSE "timeout"
           kept == IF ui.committed THEN ui.rows ELSE Without(ui.rows, Player(turn.n))
           num == IF ui.committed THEN ui.num ELSE ui.num - 1
<1>1. ui' = [ui EXCEPT !.err = err, !.text = FALSE, !.phase = "active", !.rows = kept, !.num = num]
  BY DEF Finish, Base, TypeOK
<1>2. kept \in Seq(Rows) /\ num \in Nat
  BY RollsBack DEF Base, TypeOK, Uncommitted
<1>3. err \in {"network", "timeout"} /\ (result = "failed" <=> err = "network")
  BY DEF err
<1> HIDE DEF err, kept, num
<1>4. Over
  BY <1>1, <1>2, <1>3 DEF Over, Finish, Base, TypeOK, Submitting
<1>5. ui'.rows = kept /\ ui'.num = num /\ ui'.err = err
  BY <1>1 DEF Base, TypeOK
<1>6. \/ call.turn = "failed" /\ ui'.err = "network"
      \/ /\ LastRound /\ turn.n \notin srv.jobs /\ ui'.err = "timeout"
         /\ \/ turn.stage = "asked" /\ call.fetch \in {"copy", "withheld", "failed"} /\ ~Ahead
            \/ turn.stage = "asleep" /\ ~turn.ask /\ ~ui.committed
  BY <1>3, <1>5 DEF err
<1>7. QED BY <1>4, <1>5, <1>6 DEF GivesUp, kept, num

\* An answer ends the turn one way or the other.
LEMMA AnswerEnds ==
  ASSUME Base, Submitting, Answered, Finish(call.turn), UNCHANGED <<srv, ws, hist>>
  PROVE  Closes \/ Lands \/ GivesUp
<1>1. CASE call.turn \in {"ok", "over"}
  BY <1>1, Finishes
<1>2. CASE call.turn = "failed"
  <2>1. Finish("failed")
    BY <1>2
  <2>2. QED BY <1>2, <2>1, Fails
<1>3. QED BY <1>1, <1>2 DEF Answered

\* Between two rounds the turn is given up or the loop sleeps.
LEMMA Rests ==
  ASSUME Base, Submitting, UNCHANGED <<srv, ws, hist>>,
         NEW ask \in BOOLEAN, SleepOr([turn EXCEPT !.ask = ask]),
         turn.ask /\ ~ask => call.fetch = "withheld", ask => turn.ask,
         LastRound =>
            /\ turn.n \notin srv.jobs
            /\ \/ turn.stage = "asked" /\ call.fetch \in {"copy", "withheld", "failed"} /\ ~Ahead
               \/ turn.stage = "asleep" /\ ~turn.ask /\ ~ui.committed
  PROVE  GivesUp \/ Sleeps
<1>1. CASE LastRound
  <2>1. Finish("timeout")
    BY <1>1 DEF SleepOr, LastRound
  <2>2. QED BY <1>1, <2>1, Fails
<1>2. CASE ~LastRound
  <2>1. /\ turn' = [[turn EXCEPT !.ask = ask] EXCEPT !.stage = "asleep", !.polls = turn.polls + 1]
        /\ call' = FetchOver /\ UNCHANGED ui
    BY <1>2 DEF SleepOr, LastRound, Base, TypeOK
  <2>2. turn.polls < Polls
    BY <1>2, ScreenAssumption DEF LastRound, Base, TypeOK
  <2>3. turn' = [turn EXCEPT !.stage = "asleep", !.ask = ask, !.polls = @ + 1]
    BY <2>1 DEF Base, TypeOK
  <2>4. QED BY <2>1, <2>2, <2>3 DEF Sleeps
<1>3. QED BY <1>1, <1>2

\* The head of the loop: what the request, the socket or the round decides.
LEMMA Heads ==
  ASSUME Base, Submitting, turn.stage \in {"race", "asleep"}, Quiet, LoopHead,
         UNCHANGED <<srv, ws, hist>>
  PROVE  Closes \/ Lands \/ GivesUp \/ Asks \/ Sleeps
<1>1. CASE Answered
  BY <1>1, AnswerEnds DEF LoopHead
<1>2. CASE ~Answered /\ ui.committed
  <2>1. /\ ui' = Settled(ui, ui.flow) /\ turn' = NoTurn
        /\ call' = [FetchOver EXCEPT !.turn = "none", !.wire = "none"]
    BY <1>2 DEF LoopHead
  <2>2. PICK phase \in {"active", "ended"} : ui' = [ui EXCEPT !.phase = phase]
    BY <2>1 DEF Settled
  <2>3. QED BY <1>2, <2>1, <2>2 DEF Closes, Over, Base, TypeOK
<1>3. CASE ~Answered /\ ~ui.committed /\ turn.ask
  <2>1. /\ turn' = [turn EXCEPT !.stage = "asked"] /\ call' = [call EXCEPT !.fetch = "sent"]
        /\ UNCHANGED ui
    BY <1>3 DEF LoopHead
  <2>2. QED BY <1>3, <2>1 DEF Asks, Quiet, LastRound
<1>4. CASE ~Answered /\ ~ui.committed /\ ~turn.ask
  <2>1. SleepOr(turn)
    BY <1>4 DEF LoopHead
  <2>2. turn = [turn EXCEPT !.ask = FALSE]
    BY <1>4 DEF Base, TypeOK
  <2>3. SleepOr([turn EXCEPT !.ask = FALSE])
    BY <2>1, <2>2
  <2>4. turn.stage = "asleep"
    BY <1>4 DEF Base, Control
  <2>5. LastRound => turn.n \notin srv.jobs
    BY DEF Quiet, LastRound
  <2>6. QED BY <1>4, <2>3, <2>4, <2>5, Rests
<1>5. QED BY <1>1, <1>2, <1>3, <1>4

\* Every timer and continuation of a turn is one of six things.
LEMMA TimerOutcomes ==
  ASSUME Base, Timers
  PROVE  Closes \/ Lands \/ GivesUp \/ Adopts \/ Asks \/ Sleeps
<1>1. CASE TurnAnswered
  <2>1. Submitting /\ Answered /\ Finish(call.turn) /\ UNCHANGED <<srv, ws, hist>>
    BY <1>1 DEF TurnAnswered, Base, Control
  <2>2. QED BY <2>1, AnswerEnds
<1>2. CASE Deadline
  <2>1. Submitting /\ turn.stage = "race" /\ LoopHead /\ UNCHANGED <<srv, ws, hist>>
    BY <1>2 DEF Deadline, Base, Control
  <2>2. Quiet
    BY <2>1, ScreenAssumption DEF Quiet, Base, Control
  <2>3. QED BY <2>1, <2>2, Heads
<1>3. CASE Wake
  <2>1. Submitting /\ turn.stage = "asleep" /\ LoopHead /\ Quiet /\ UNCHANGED <<srv, ws, hist>>
    BY <1>3 DEF Wake, Base, Control
  <2>2. QED BY <2>1, Heads
<1>4. CASE Polled
  <2>1. /\ Submitting /\ turn.stage = "asked" /\ call.fetch \in {"copy", "withheld", "failed"}
        /\ UNCHANGED <<srv, ws, hist>>
    BY <1>4 DEF Polled, Base, Control
  <2>2. CASE Ahead
    <3>1. Adopt
      BY <1>4, <2>2 DEF Polled
    <3>2. call.flow \in Flows /\ call.copy \in Seq(Rows) /\ ui \in UiType
      BY <2>2 DEF Ahead, Base, Control, TypeOK, UiType
    <3>3. PICK k \in Nat : k = Len(call.copy)
      BY <3>2
    <3>4. PICK phase \in {"active", "ended"} :
            Settled(Hydrated(ui), call.flow) = [Hydrated(ui) EXCEPT !.phase = phase]
      BY DEF Settled
    <3>5. ui' = [ui EXCEPT !.rows = call.copy, !.num = k, !.phase = phase,
                           !.committed = TRUE, !.text = FALSE, !.flow = call.flow]
      BY <3>1, <3>2, <3>3, <3>4 DEF Adopt, Hydrated, UiType
    <3>6. /\ ui' \in [phase : {"active", "ended"}, flow : Flows, ending : {"none", "named"},
                      rows : Seq(Rows), num : Nat, committed : BOOLEAN, text : BOOLEAN,
                      err : {"none", "network", "timeout"}]
          /\ ~ui'.text /\ ui'.rows = call.copy /\ ui'.num = k /\ ui'.err = ui.err
      BY <3>2, <3>3, <3>4, <3>5 DEF UiType
    <3>7. Over
      BY <2>1, <3>1, <3>6 DEF Over, Adopt
    <3>8. QED BY <2>1, <2>2, <3>3, <3>6, <3>7 DEF Adopts
  <2>3. CASE ~Ahead /\ Answered
    <3>1. Finish(call.turn)
      BY <1>4, <2>3 DEF Polled
    <3>2. QED BY <2>1, <2>3, <3>1, AnswerEnds
  <2>4. CASE ~Ahead /\ ~Answered
    <3>1. SleepOr([turn EXCEPT !.ask = turn.ask /\ call.fetch # "withheld"])
      BY <1>4, <2>4 DEF Polled, Base, TypeOK
    <3>2. PICK ask \in BOOLEAN : ask = (turn.ask /\ call.fetch # "withheld")
      BY DEF Base, TypeOK
    <3>3. SleepOr([turn EXCEPT !.ask = ask])
      BY <3>1, <3>2
    <3>4. LastRound => turn.n \notin srv.jobs
      BY <2>1 DEF Base, Control
    <3>5. turn.ask /\ ~ask => call.fetch = "withheld"
      BY <3>2 DEF Base, TypeOK
    <3>6. ask => turn.ask
      BY <3>2 DEF Base, TypeOK
    <3>7. QED BY <2>1, <2>4, <3>3, <3>4, <3>5, <3>6, Rests
  <2>5. QED BY <2>2, <2>3, <2>4
<1>5. QED BY <1>1, <1>2, <1>3, <1>4 DEF Timers

\* A frame that ends a reply commits it; no other frame touches the rows.
Answers ==
  /\ Uncommitted /\ ws # <<>> /\ Head(ws).type = "final" /\ Head(ws).n \in 0..MaxTurns
  /\ ui' \in UiType /\ ui'.phase = ui.phase /\ ui'.err = ui.err /\ ui'.committed /\ ~ui'.text
  /\ ui'.rows = Append(ui.rows, Npc(Head(ws).n)) /\ ui'.num = ui.num + 1
  /\ ws' = Tail(ws) /\ UNCHANGED <<turn, call, srv, hist>>

Marks ==
  /\ ws # <<>> /\ ~(Uncommitted /\ Head(ws).type = "final")
  /\ ui' \in UiType /\ ui'.phase = ui.phase /\ ui'.err = ui.err /\ ui'.committed = ui.committed
  /\ ui'.rows = ui.rows /\ ui'.num = ui.num
  /\ ui'.text => Head(ws).type = "token" \/ (Head(ws).type = "state" /\ ui.text)
  /\ ws' = Tail(ws) /\ UNCHANGED <<turn, call, srv, hist>>

\* What a frame does to the page.
LEMMA Received ==
  ASSUME Base, Recv
  PROVE  Answers \/ Marks
<1>1. ui \in UiType /\ ws \in Seq(Frames) /\ ws # <<>> /\ ui.phase # "away"
  BY DEF Base, TypeOK, UiType, Recv, Mounted
<1>2. PICK f \in Frames : f = Head(ws)
  BY <1>1
<1>3. ui' = Framed(f) /\ ws' = Tail(ws) /\ UNCHANGED <<turn, call, srv, hist>>
  BY <1>2 DEF Recv
<1>4. CASE f.type = "state"
  <2>1. f.flow \in Flows
    BY <1>4 DEF Frames
  <2>2. ui' = [ui EXCEPT !.flow = f.flow]
    BY <1>3, <1>4 DEF Framed
  <2>3. QED BY <1>1, <1>2, <1>3, <1>4, <2>1, <2>2 DEF Marks, UiType
<1>5. CASE f.type = "token"
  <2>1. ui' = [ui EXCEPT !.text = TRUE]
    BY <1>3, <1>5 DEF Framed
  <2>2. QED BY <1>1, <1>2, <1>3, <1>5, <2>1 DEF Marks, UiType
<1>6. CASE f.type = "final" /\ ~Uncommitted
  <2>1. ui' = [ui EXCEPT !.text = FALSE]
    BY <1>3, <1>6 DEF Framed, Uncommitted, Submitting
  <2>2. QED BY <1>1, <1>2, <1>3, <1>6, <2>1 DEF Marks, UiType
<1>7. CASE f.type = "final" /\ Uncommitted
  <2>1. f.n \in 0..MaxTurns /\ Npc(f.n) \in Rows
    BY <1>7, RowsOf DEF Frames
  <2>2. PICK told \in UiType : told = Reply(ui, f.n)
    BY <1>1, <2>1, Replied
  <2>3. /\ told.rows = Append(ui.rows, Npc(f.n)) /\ told.num = ui.num + 1
        /\ told.committed /\ told.phase = ui.phase /\ told.err = ui.err
    BY <1>1, <2>1, <2>2, Replied
  <2>4. ui' = [told EXCEPT !.text = FALSE]
    BY <1>3, <1>7, <2>2 DEF Framed, Uncommitted, Submitting
  <2>5. QED BY <1>1, <1>2, <1>3, <1>7, <2>1, <2>3, <2>4 DEF Answers, UiType
<1>8. QED BY <1>4, <1>5, <1>6, <1>7 DEF Frames

\* What goes out on the socket, when there is one.
LEMMA Sent ==
  ASSUME TypeOK, NEW fs \in Seq(Frames), Send(fs)
  PROVE  ws' \in Seq(Frames) /\ ws' = IF srv.link THEN ws \o fs ELSE ws
BY DEF Send, TypeOK

\* The frames of the session.
LEMMA FramesOf ==
  /\ \A f \in Flows : StateFrame(f) \in Frames
  /\ \A n \in 0..MaxTurns : TextFrame("token", n) \in Frames /\ TextFrame("final", n) \in Frames
BY DEF Frames, StateFrame, TextFrame

-----------------------------------------------------------------------------
(***************************************************************************)
(* Types.                                                                  *)
(***************************************************************************)
CallType == [start : {"none", "sent", "ok", "conflict", "failed"},
             turn : {"none", "sent", "ok", "over", "failed"},
             wire : {"none", "ok", "over", "failed"},
             fetch : {"none", "sent", "copy", "withheld", "failed"},
             end : {"none", "sent", "ok", "failed"},
             copy : Seq(Rows), flow : Flows \cup {"none"}]
TurnType == [stage : Stages, n : 0..MaxTurns, ask : BOOLEAN, polls : 0..Polls]
SrvType  == [flow : Flows, log : Seq(Rows), jobs : SUBSET Turns, link : BOOLEAN, saved : BOOLEAN]
HistType == [sent : 0..MaxTurns, loads : 0..MaxLoads, lost : BOOLEAN, late : BOOLEAN]

LEMMA Types ==
  TypeOK <=> /\ ui \in UiType /\ turn \in TurnType /\ call \in CallType
             /\ srv \in SrvType /\ ws \in Seq(Frames) /\ hist \in HistType
BY DEF TypeOK, UiType, TurnType, CallType, SrvType, HistType

\* What a new page and an idle one hold.
LEMMA FreshTypes ==
  /\ \A phase \in Phases : FreshUi(phase) \in UiType
  /\ NoTurn \in TurnType /\ NoCall \in CallType
  /\ call \in CallType => FetchOver \in CallType
  /\ call \in CallType => [FetchOver EXCEPT !.turn = "none", !.wire = "none"] \in CallType
<1>1. <<>> \in Seq(Rows)
  OBVIOUS
<1>2. \A phase \in Phases : FreshUi(phase) \in UiType
  BY <1>1 DEF FreshUi, UiType, Flows
<1>3. NoTurn \in TurnType
  BY ScreenAssumption DEF NoTurn, TurnType, Stages
<1>4. NoCall \in CallType
  BY <1>1 DEF NoCall, CallType
<1>5. call \in CallType => FetchOver \in CallType
  BY <1>1 DEF FetchOver, CallType
<1>6. ASSUME call \in CallType
      PROVE  [FetchOver EXCEPT !.turn = "none", !.wire = "none"] \in CallType
  <2>1. PICK c \in CallType : c = FetchOver
    BY <1>5, <1>6
  <2>2. [c EXCEPT !.turn = "none", !.wire = "none"] \in CallType
    BY DEF CallType
  <2>3. QED BY <2>1, <2>2
<1>7. QED BY <1>2, <1>3, <1>4, <1>5, <1>6

\* The page holds values of its types in the first state.
LEMMA TypeInit ==
  ASSUME Init
  PROVE  TypeOK
<1>1. <<>> \in Seq(Rows) /\ <<>> \in Seq(Frames)
  OBVIOUS
<1>2. srv \in SrvType /\ hist \in HistType
  BY <1>1, ScreenAssumption DEF Init, SrvType, HistType, Flows
<1>3. ui \in UiType /\ turn \in TurnType /\ call \in CallType
  BY FreshTypes DEF Init, Phases
<1>4. QED BY <1>1, <1>2, <1>3, Types DEF Init

\* Every step keeps the types.
LEMMA TypeStep ==
  ASSUME Base, Next
  PROVE  TypeOK'
<1>1. /\ ui \in UiType /\ turn \in TurnType /\ call \in CallType
      /\ srv \in SrvType /\ ws \in Seq(Frames) /\ hist \in HistType
  BY Types DEF Base
<1>2. SUFFICES /\ ui' \in UiType /\ turn' \in TurnType /\ call' \in CallType
               /\ srv' \in SrvType /\ ws' \in Seq(Frames) /\ hist' \in HistType
  BY DEF TypeOK, UiType, TurnType, CallType, SrvType, HistType
<1>3. <<>> \in Seq(Rows) /\ <<>> \in Seq(Frames) /\ <<Opening>> \in Seq(Rows)
  BY RowsOf
<1>4. CASE Load
  <2>1. ui' \in UiType
    BY <1>4, FreshTypes DEF Load, Phases
  <2>2. call' \in CallType
    BY <1>4, FreshTypes DEF Load, CallType
  <2>3. srv' \in SrvType
    BY <1>1, <1>4 DEF Load, SrvType
  <2>4. hist' \in HistType
    BY <1>1, <1>4, ScreenAssumption DEF Load, HistType
  <2>5. StateFrame(srv.flow) \in Frames
    BY <1>1, FramesOf DEF SrvType
  <2>6. QED BY <1>1, <1>4, <2>1, <2>2, <2>3, <2>4, <2>5 DEF Load
<1>5. CASE Leave
  <2>1. ui' \in UiType
    BY <1>5, FreshTypes DEF Leave, Phases
  <2>2. srv' \in SrvType
    BY <1>1, <1>5 DEF Leave, SrvType
  <2>3. hist' \in HistType
    BY <1>1, <1>5 DEF Leave, HistType
  <2>4. QED BY <1>3, <1>5, <2>1, <2>2, <2>3, FreshTypes DEF Leave
<1>6. CASE SocketLost
  BY <1>1, <1>3, <1>6 DEF SocketLost, SrvType
<1>7. CASE SrvStart
  <2>1. "PlayerTurnListening" \in Flows /\ 0 \in 0..MaxTurns
    BY ScreenAssumption DEF Flows
  <2>2. <<StateFrame("PlayerTurnListening"), TextFrame("final", 0)>> \in Seq(Frames)
    BY <2>1, FramesOf
  <2>3. ws' \in Seq(Frames)
    BY <1>1, <1>7, <2>2, Sent DEF SrvStart, Base
  <2>4. call' \in CallType
    BY <1>1, <1>7 DEF SrvStart, CallType
  <2>5. srv' \in SrvType
    BY <1>1, <1>3, <1>7, <2>1 DEF SrvStart, SrvType
  <2>6. QED BY <1>1, <1>7, <2>3, <2>4, <2>5 DEF SrvStart
<1>8. CASE StartAnswered
  <2>1. call' \in CallType
    BY <1>1, <1>8 DEF StartAnswered, CallType
  <2>2. ui' \in UiType
    <3>1. \/ ui' = [ui EXCEPT !.phase = "active", !.flow = "PlayerTurnListening",
                              !.rows = <<Opening>>, !.num = 1]
          \/ ui' = ui
          \/ ui' = [ui EXCEPT !.phase = "error", !.err = "network"]
      BY <1>8 DEF StartAnswered
    <3>2. [ui EXCEPT !.phase = "active", !.flow = "PlayerTurnListening",
                     !.rows = <<Opening>>, !.num = 1] \in UiType
      BY <1>1, <1>3 DEF UiType, Phases, Flows
    <3>3. [ui EXCEPT !.phase = "error", !.err = "network"] \in UiType
      BY <1>1 DEF UiType, Phases
    <3>4. QED BY <1>1, <3>1, <3>2, <3>3
  <2>3. QED BY <1>1, <1>8, <2>1, <2>2 DEF StartAnswered
<1>9. CASE SrvTranscript
  <2>1. srv.log \in Seq(Rows) /\ srv.flow \in Flows
    BY <1>1 DEF SrvType
  <2>2. call' \in CallType
    BY <1>1, <1>3, <1>9, <2>1 DEF SrvTranscript, CallType
  <2>3. QED BY <1>1, <1>9, <2>2 DEF SrvTranscript
<1>10. CASE Resumed
  <2>1. hist' \in HistType
    BY <1>1, <1>10 DEF Resumed, HistType
  <2>2. call.copy \in Seq(Rows) /\ Len(call.copy) \in Nat
    BY <1>1 DEF CallType
  <2>3. PICK u \in UiType : u = IF call.fetch = "copy" THEN Hydrated(ui) ELSE ui
    <3>1. PICK k \in Nat : k = Len(call.copy)
      BY <2>2
    <3>2. Hydrated(ui) = [ui EXCEPT !.rows = call.copy, !.num = k]
      BY <3>1 DEF Hydrated
    <3>3. Hydrated(ui) \in UiType
      BY <1>1, <2>2, <3>2 DEF UiType
    <3>4. QED BY <1>1, <3>3
  <2>4. PICK flow \in Flows : flow = IF call.fetch = "copy" THEN call.flow ELSE "PlayerTurnListening"
    BY <1>10 DEF Resumed, Base, Control, Flows
  <2>5. ui' = [u EXCEPT !.phase = "active", !.flow = flow]
    BY <1>10, <2>3, <2>4 DEF Resumed
  <2>6. ui' \in UiType
    BY <2>5 DEF UiType, Phases
  <2>7. QED BY <1>1, <1>10, <2>1, <2>6, FreshTypes DEF Resumed
<1>11. CASE Submit
  <2>1. hist.sent + 1 \in Turns /\ hist.sent + 1 \in 0..MaxTurns
    BY <1>1, <1>11, ScreenAssumption DEF Submit, HistType, Turns
  <2>2. hist' \in HistType
    BY <1>1, <1>11, <2>1 DEF Submit, HistType
  <2>3. turn' \in TurnType
    BY <1>11, <2>1, FreshTypes DEF Submit, TurnType, Stages
  <2>4. call' \in CallType
    BY <1>1, <1>11 DEF Submit, CallType
  <2>5. PICK rws \in Seq(Rows), k \in Nat : rws = Append(ui.rows, Player(hist.sent + 1)) /\ k = ui.num + 1
    <3>1. ui.rows \in Seq(Rows) /\ ui.num \in Nat /\ Player(hist.sent + 1) \in Rows
      BY <1>1, <2>1, RowsOf DEF UiType
    <3>2. Append(ui.rows, Player(hist.sent + 1)) \in Seq(Rows) /\ ui.num + 1 \in Nat
      BY <3>1
    <3>3. QED BY <3>2
  <2>6. ui' = [ui EXCEPT !.rows = rws, !.num = k, !.phase = "submitting", !.err = "none",
                         !.text = FALSE, !.committed = FALSE]
    BY <1>11, <2>5 DEF Submit
  <2>7. ui' \in UiType
    BY <1>1, <2>5, <2>6 DEF UiType, Phases
  <2>8. QED BY <1>1, <1>11, <2>2, <2>3, <2>4, <2>7 DEF Submit
<1>12. CASE SrvTake
  <2>1. turn.n \in Turns
    BY <1>12 DEF SrvTake, Base, Control
  <2>2. call' \in CallType
    BY <1>1, <1>12 DEF SrvTake, CallType
  <2>3. srv' \in SrvType
    BY <1>1, <1>12, <2>1 DEF SrvTake, SrvType
  <2>4. QED BY <1>1, <1>12, <2>2, <2>3 DEF SrvTake
<1>13. CASE SrvCommit
  <2>1. PICK n \in srv.jobs, flow \in {"PlayerTurnListening", "Ended"} :
          /\ srv' = [srv EXCEPT !.jobs = @ \ {n}, !.flow = flow,
                                !.log = @ \o <<Player(n), Npc(n)>>]
          /\ Send(<<TextFrame("token", n), TextFrame("final", n), StateFrame(flow)>>)
          /\ call' = IF Waiting(n)
                     THEN [call EXCEPT !.wire = IF flow = "Ended" THEN "over" ELSE "ok"]
                     ELSE call
          /\ UNCHANGED <<ui, turn, hist>>
    BY <1>13 DEF SrvCommit
  <2>2. n \in Turns /\ flow \in Flows /\ n \in 0..MaxTurns
    BY <1>1, RowsOf DEF SrvType, Flows
  <2>3. <<TextFrame("token", n), TextFrame("final", n), StateFrame(flow)>> \in Seq(Frames)
    BY <2>2, FramesOf
  <2>4. ws' \in Seq(Frames)
    BY <1>1, <2>1, <2>3, Sent DEF Base
  <2>5. PICK log \in Seq(Rows) : log = srv.log \o <<Player(n), Npc(n)>>
    <3>1. srv.log \in Seq(Rows) /\ Player(n) \in Rows /\ Npc(n) \in Rows
      BY <1>1, <2>2, RowsOf DEF SrvType
    <3>2. QED BY <3>1, AppendedTwo
  <2>6. srv' = [srv EXCEPT !.jobs = @ \ {n}, !.flow = flow, !.log = log]
    BY <2>1, <2>5
  <2>7. srv' \in SrvType
    BY <1>1, <2>2, <2>5, <2>6 DEF SrvType
  <2>8. call' \in CallType
    BY <1>1, <2>1 DEF CallType
  <2>9. QED BY <1>1, <2>1, <2>4, <2>7, <2>8
<1>14. CASE SrvFail
  <2>1. srv' \in SrvType
    BY <1>1, <1>14 DEF SrvFail, SrvType
  <2>2. call' \in CallType
    BY <1>1, <1>14 DEF SrvFail, CallType
  <2>3. QED BY <1>1, <1>14, <2>1, <2>2 DEF SrvFail
<1>15. CASE Delivered
  <2>1. call' \in CallType
    BY <1>1, <1>15 DEF Delivered, CallType
  <2>2. QED BY <1>1, <1>15, <2>1 DEF Delivered
<1>16. CASE CallLost
  <2>1. call' \in CallType
    BY <1>1, <1>16 DEF CallLost, CallType
  <2>2. hist' \in HistType
    BY <1>1, <1>16 DEF CallLost, HistType
  <2>3. QED BY <1>1, <1>16, <2>1, <2>2 DEF CallLost
<1>17. CASE Timers
  <2>1. Closes \/ Lands \/ GivesUp \/ Adopts \/ Asks \/ Sleeps
    BY <1>17, TimerOutcomes
  <2>2. CASE Over
    BY <1>1, <2>2, FreshTypes DEF Over, UiType, Phases
  <2>3. CASE Asks
    BY <1>1, <2>3 DEF Asks, TurnType, CallType, Stages
  <2>4. CASE Sleeps
    <3>1. turn.polls + 1 \in 0..Polls
      BY <1>1, <2>4, ScreenAssumption DEF Sleeps, TurnType
    <3>2. turn' \in TurnType
      BY <1>1, <2>4, <3>1 DEF Sleeps, TurnType, Stages
    <3>3. QED BY <1>1, <2>4, <3>2, FreshTypes DEF Sleeps
  <2>5. QED BY <2>1, <2>2, <2>3, <2>4 DEF Closes, Lands, GivesUp, Adopts
<1>18. CASE End
  BY <1>1, <1>18 DEF End, UiType, CallType, Phases
<1>19. CASE SrvEnd
  <2>1. "Ended" \in Flows
    BY DEF Flows
  <2>2. <<StateFrame("Ended")>> \in Seq(Frames)
    BY <2>1, FramesOf
  <2>3. ws' \in Seq(Frames)
    BY <1>1, <1>19, <2>2, Sent DEF SrvEnd, Base
  <2>4. call' \in CallType
    BY <1>1, <1>19 DEF SrvEnd, CallType
  <2>5. srv' \in SrvType
    BY <1>1, <1>19, <2>1 DEF SrvEnd, SrvType
  <2>6. QED BY <1>1, <1>19, <2>3, <2>4, <2>5 DEF SrvEnd
<1>20. CASE EndAnswered
  BY <1>1, <1>20 DEF EndAnswered, UiType, CallType, Phases, Flows
<1>21. CASE Recv
  <2>1. Answers \/ Marks
    BY <1>21, Received DEF Base
  <2>2. ui' \in UiType /\ ws # <<>> /\ ws' = Tail(ws) /\ UNCHANGED <<turn, call, srv, hist>>
    BY <2>1 DEF Answers, Marks
  <2>3. QED BY <1>1, <2>2
<1>22. QED
  BY <1>4, <1>5, <1>6, <1>7, <1>8, <1>9, <1>10, <1>11, <1>12, <1>13, <1>14, <1>15, <1>16,
     <1>17, <1>18, <1>19, <1>20, <1>21 DEF Next, Timers

-----------------------------------------------------------------------------
(***************************************************************************)
(* The phase, the turn and the calls.                                      *)
(***************************************************************************)
\* The page starts away, with nothing out.
LEMMA ControlInit ==
  ASSUME Init
  PROVE  Control
BY DEF Init, Control, Submitting, LastRound, FreshUi, NoTurn, NoCall

\* Every step keeps phase, turn and calls together.
LEMMA ControlStep ==
  ASSUME Base, Next
  PROVE  Control'
<1>1. /\ ui \in UiType /\ turn \in TurnType /\ call \in CallType
      /\ srv \in SrvType /\ hist \in HistType
  BY Types DEF Base
<1>2. Control
  BY DEF Base
<1> USE DEF Submitting, LastRound
<1>3. CASE Load
  BY <1>1, <1>2, <1>3 DEF Load, Control, FreshUi, NoCall, UiType, TurnType, CallType
<1>4. CASE Leave
  BY <1>1, <1>2, <1>4 DEF Leave, Control, FreshUi, NoTurn, NoCall, UiType
<1>5. CASE SocketLost
  BY <1>1, <1>2, <1>5 DEF SocketLost, Control, SrvType
<1>6. CASE SrvStart
  BY <1>1, <1>2, <1>6 DEF SrvStart, Control, SrvType, CallType
<1>7. CASE StartAnswered
  <2>1. CASE call.start = "ok"
    BY <1>1, <1>2, <1>7, <2>1 DEF StartAnswered, Control, UiType, CallType
  <2>2. CASE call.start = "conflict"
    BY <1>1, <1>2, <1>7, <2>2 DEF StartAnswered, Control, UiType, CallType
  <2>3. CASE call.start = "failed"
    <3>1. /\ ui'.phase = "error" /\ ui'.rows = <<>> /\ ui.phase = "starting"
          /\ call' = [call EXCEPT !.start = "none"] /\ UNCHANGED <<turn, srv, ws, hist>>
      BY <1>1, <1>2, <1>7, <2>3 DEF StartAnswered, Control, UiType
    <3>2. QED BY <1>1, <1>2, <2>3, <3>1 DEF Control, CallType
  <2>4. QED BY <1>7, <2>1, <2>2, <2>3 DEF StartAnswered
<1>8. CASE SrvTranscript
  BY <1>1, <1>2, <1>8 DEF SrvTranscript, Control, CallType, SrvType
<1>9. CASE Resumed
  <2>1. ui'.phase = "active"
    BY <1>1, <1>9 DEF Resumed, Hydrated, UiType
  <2>2. QED BY <1>1, <1>2, <1>9, <2>1 DEF Resumed, Control, FetchOver, CallType, TurnType
<1>10. CASE Submit
  <2>1. hist.sent + 1 \in Turns
    BY <1>1, <1>10, ScreenAssumption DEF Submit, HistType, Turns
  <2>2. ui'.phase = "submitting"
    BY <1>1, <1>10 DEF Submit, UiType
  <2>3. /\ turn'.stage = "race" /\ turn'.n = hist.sent + 1 /\ turn'.polls = 0 /\ turn'.ask
        /\ hist'.sent = hist.sent + 1
    BY <1>1, <1>10 DEF Submit, NoTurn, HistType
  <2>4. QED BY <1>1, <1>2, <1>10, <2>1, <2>2, <2>3 DEF Submit, Control, CanType, CallType
<1>11. CASE SrvTake
  BY <1>1, <1>2, <1>11 DEF SrvTake, Control, CallType, SrvType
<1>12. CASE SrvCommit
  BY <1>1, <1>2, <1>12 DEF SrvCommit, Waiting, Control, CallType, SrvType
<1>13. CASE SrvFail
  BY <1>1, <1>2, <1>13 DEF SrvFail, Waiting, Control, CallType, SrvType
<1>14. CASE Delivered
  BY <1>1, <1>2, <1>14 DEF Delivered, Control, CallType
<1>15. CASE CallLost
  <2>1. PICK k \in {"start", "turn", "fetch", "end"} :
          /\ call[k] \notin {"none", "failed"}
          /\ call' = [call EXCEPT ![k] = "failed", !.wire = IF k = "turn" THEN "none" ELSE @]
          /\ hist'.sent = hist.sent
          /\ UNCHANGED <<ui, turn, srv, ws>>
    BY <1>1, <1>15 DEF CallLost, HistType
  <2>2. CASE k = "start"
    BY <1>1, <1>2, <2>1, <2>2 DEF Control, CallType
  <2>3. CASE k = "turn"
    BY <1>1, <1>2, <2>1, <2>3 DEF Control, CallType
  <2>4. CASE k = "fetch"
    BY <1>1, <1>2, <2>1, <2>4 DEF Control, CallType
  <2>5. CASE k = "end"
    BY <1>1, <1>2, <2>1, <2>5 DEF Control, CallType
  <2>6. QED BY <2>1, <2>2, <2>3, <2>4, <2>5
<1>16. CASE Timers
  <2>1. Closes \/ Lands \/ GivesUp \/ Adopts \/ Asks \/ Sleeps
    BY <1>16, TimerOutcomes
  <2>2. CASE Over
    BY <1>1, <1>2, <2>2 DEF Over, Control, NoTurn, FetchOver, CallType, TurnType
  <2>3. CASE Asks
    BY <1>1, <1>2, <2>3 DEF Asks, Control, CallType, TurnType
  <2>4. CASE Sleeps
    BY <1>1, <1>2, <2>4 DEF Sleeps, Control, FetchOver, CallType, TurnType
  <2>5. QED BY <2>1, <2>2, <2>3, <2>4 DEF Closes, Lands, GivesUp, Adopts
<1>17. CASE End
  BY <1>1, <1>2, <1>17 DEF End, CanEnd, Control, UiType, CallType
<1>18. CASE SrvEnd
  BY <1>1, <1>2, <1>18 DEF SrvEnd, Control, CallType, SrvType
<1>19. CASE EndAnswered
  BY <1>1, <1>2, <1>19 DEF EndAnswered, Control, UiType, CallType
<1>20. CASE Recv
  <2>1. Answers \/ Marks
    BY <1>20, Received DEF Base
  <2>2. CASE Answers
    BY <1>2, <2>2 DEF Answers, Uncommitted, Control
  <2>3. CASE Marks
    BY <1>2, <2>3 DEF Marks, Control
  <2>4. QED BY <2>1, <2>2, <2>3
<1>21. QED
  BY <1>3, <1>4, <1>5, <1>6, <1>7, <1>8, <1>9, <1>10, <1>11, <1>12, <1>13, <1>14, <1>15, <1>16,
     <1>17, <1>18, <1>19, <1>20 DEF Next, Timers

-----------------------------------------------------------------------------
(***************************************************************************)
(* What is known of a turn, and what the page shows of it.                 *)
(***************************************************************************)
\* The player's rows are of turns that were submitted; a turn at work is not
\* stored yet, one that was answered is.
Recorded ==
  /\ \A k \in Turns : Has(srv.log, Player(k)) => k <= hist.sent
  /\ \A k \in Turns : Has(ui.rows, Player(k)) => k <= hist.sent
  /\ \A k \in Turns : Has(call.copy, Player(k)) => k <= hist.sent
  /\ \A k \in srv.jobs : k <= hist.sent /\ ~Has(srv.log, Player(k))
  /\ call.turn \in {"ok", "over"} \/ call.wire \in {"ok", "over"} => Has(srv.log, Player(turn.n))

\* A page that is not open shows nothing, and no turn was submitted.
LEMMA ShownInit ==
  ASSUME Init
  PROVE  Shown /\ Recorded
BY Few DEF Init, Shown, Recorded, NumberMatchesRows, AwaitingUntilReply, Submitting, Uncommitted,
   FreshUi, NoTurn, NoCall

\* The page shows its rows as it did when they and the turn are as they were.
LEMMA ShownKept ==
  ASSUME Shown, UNCHANGED turn.n, ui'.rows = ui.rows, ui'.num = ui.num,
         ui'.phase = ui.phase, ui'.committed = ui.committed
  PROVE  Shown'
BY DEF Shown, NumberMatchesRows, AwaitingUntilReply, Submitting, Uncommitted

\* A page with no turn under way shows rows it has counted.
LEMMA ShownIdle ==
  ASSUME ui'.phase # "submitting", ui'.num = Len(ui'.rows)
  PROVE  Shown'
BY DEF Shown, NumberMatchesRows, AwaitingUntilReply, Submitting, Uncommitted

\* Every step counts the rows on screen and keeps the player's among them.
LEMMA ShownStep ==
  ASSUME Base, Recorded, Next
  PROVE  Shown'
<1>1. /\ ui \in UiType /\ turn \in TurnType /\ call \in CallType /\ hist \in HistType
  BY Types DEF Base
<1>2. Shown /\ ui.num = Len(ui.rows) /\ ui.rows \in Seq(Rows)
  BY <1>1 DEF Base, Shown, NumberMatchesRows, UiType
<1>3. CASE Load \/ Leave
  <2>1. ui' = FreshUi("starting") \/ ui' = FreshUi("away")
    BY <1>3 DEF Load, Leave
  <2>2. ui'.phase # "submitting" /\ ui'.num = Len(ui'.rows)
    BY <2>1 DEF FreshUi
  <2>3. QED BY <2>2, ShownIdle
<1>4. CASE UNCHANGED <<ui, turn>>
  BY <1>2, <1>4, ShownKept
<1>5. CASE StartAnswered
  <2>1. ui'.phase # "submitting" /\ ui'.num = Len(ui'.rows)
    BY <1>1, <1>2, <1>5 DEF StartAnswered, UiType
  <2>2. QED BY <2>1, ShownIdle
<1>6. CASE Resumed
  <2>1. ui'.phase # "submitting" /\ ui'.num = Len(ui'.rows)
    BY <1>1, <1>2, <1>6 DEF Resumed, Hydrated, UiType
  <2>2. QED BY <2>1, ShownIdle
<1>7. CASE Submit
  <2>1. PICK n \in Turns : n = hist.sent + 1 /\ ~(n <= hist.sent)
    BY <1>1, <1>7, ScreenAssumption DEF Submit, HistType, Turns
  <2>2. Player(n) \in Rows /\ ~Has(ui.rows, Player(n)) /\ Player(n)[1] # "npc"
    BY <2>1, RowsOf, RowNames DEF Recorded
  <2>3. /\ ui'.rows = Append(ui.rows, Player(n)) /\ ui'.num = ui.num + 1
        /\ ui'.phase = "submitting" /\ ui'.committed = FALSE /\ turn'.n = n
    BY <1>1, <1>7, <2>1 DEF Submit, UiType, NoTurn
  <2>4. /\ Len(ui'.rows) = Len(ui.rows) + 1 /\ Last(ui'.rows) = Player(n) /\ ui'.rows # <<>>
        /\ Has(ui'.rows, Player(n))
    BY <1>2, <2>2, <2>3, Appended
  <2>5. NumberMatchesRows' /\ AwaitingUntilReply'
    BY <1>2, <2>2, <2>3, <2>4 DEF NumberMatchesRows, AwaitingUntilReply
  <2>6. QED BY <1>2, <2>2, <2>3, <2>4, <2>5 DEF Shown, Submitting, Uncommitted
<1>8. CASE Timers
  <2>1. Closes \/ Lands \/ GivesUp \/ Adopts \/ Asks \/ Sleeps
    BY <1>8, TimerOutcomes
  <2>2. CASE Asks \/ Sleeps
    <3>1. ui' = ui /\ turn'.n = turn.n
      BY <1>1, <2>2 DEF Asks, Sleeps, TurnType
    <3>2. QED BY <1>2, <3>1, ShownKept
  <2>3. CASE Over
    <3>1. ui'.phase # "submitting"
      BY <2>3 DEF Over
    <3>2. CASE Closes \/ Adopts
      <4>1. ui'.num = Len(ui'.rows)
        BY <1>2, <3>2 DEF Closes, Adopts
      <4>2. QED BY <3>1, <4>1, ShownIdle
    <3>3. CASE Lands
      <4>1. Npc(turn.n) \in Rows
        BY <2>3, RowsOf DEF Over, Base, Control
      <4>2. Len(ui'.rows) = Len(ui.rows) + 1
        BY <1>2, <3>3, <4>1, Appended DEF Lands
      <4>3. ui'.num = Len(ui'.rows)
        BY <1>2, <3>3, <4>2 DEF Lands
      <4>4. QED BY <3>1, <4>3, ShownIdle
    <3>4. CASE GivesUp
      <4>1. CASE ui.committed
        <5>1. ui'.num = Len(ui'.rows)
          BY <1>2, <3>4, <4>1 DEF GivesUp
        <5>2. QED BY <3>1, <5>1, ShownIdle
      <4>2. CASE ~ui.committed
        <5>1. Uncommitted
          BY <2>3, <4>2 DEF Over, Uncommitted
        <5>2. ui'.num = Len(ui'.rows)
          BY <1>2, <3>4, <4>2, <5>1, RollsBack DEF GivesUp
        <5>3. QED BY <3>1, <5>2, ShownIdle
      <4>3. QED BY <4>1, <4>2
    <3>5. QED BY <2>1, <2>3, <3>2, <3>3, <3>4, <2>2
  <2>4. QED BY <2>1, <2>2, <2>3 DEF Closes, Lands, GivesUp, Adopts
<1>9. CASE End \/ EndAnswered
  <2>1. ui'.phase # "submitting" /\ ui'.num = Len(ui'.rows)
    BY <1>1, <1>2, <1>9 DEF End, EndAnswered, UiType
  <2>2. QED BY <2>1, ShownIdle
<1>10. CASE Recv
  <2>1. Answers \/ Marks
    BY <1>10, Received DEF Base
  <2>2. CASE Marks
    BY <1>2, <2>2, ShownKept DEF Marks
  <2>3. CASE Answers
    <3>1. PICK n \in 0..MaxTurns : n = Head(ws).n /\ Npc(n) \in Rows /\ Npc(n)[1] = "npc"
      BY <2>3, RowsOf, RowNames DEF Answers
    <3>2. /\ ui'.rows = Append(ui.rows, Npc(n)) /\ ui'.num = ui.num + 1 /\ turn' = turn
          /\ ui'.phase = "submitting" /\ ui'.committed /\ Has(ui.rows, Player(turn.n))
      BY <1>2, <2>3, <3>1 DEF Answers, Uncommitted, Submitting, Shown
    <3>3. /\ Len(ui'.rows) = Len(ui.rows) + 1 /\ Last(ui'.rows) = Npc(n) /\ ui'.rows # <<>>
          /\ Has(ui'.rows, Player(turn.n))
      BY <1>2, <3>1, <3>2, Appended
    <3>4. NumberMatchesRows' /\ AwaitingUntilReply'
      BY <1>2, <3>1, <3>2, <3>3 DEF NumberMatchesRows, AwaitingUntilReply
    <3>5. QED BY <3>2, <3>3, <3>4 DEF Shown, Submitting, Uncommitted
  <2>4. QED BY <2>1, <2>2, <2>3
<1>11. SocketLost \/ SrvStart \/ SrvTranscript \/ SrvTake \/ SrvCommit \/ SrvFail \/ Delivered
         \/ CallLost \/ SrvEnd => UNCHANGED <<ui, turn>>
  BY DEF SocketLost, SrvStart, SrvTranscript, SrvTake, SrvCommit, SrvFail, Delivered, CallLost, SrvEnd
<1>12. QED
  BY <1>3, <1>4, <1>5, <1>6, <1>7, <1>8, <1>9, <1>10, <1>11 DEF Next, Timers

\* What a timer does to the rows held: those of the page, of the copy, or the
\* reply are all that can be there.
LEMMA RowsAfterTimer ==
  ASSUME Base, Timers, NEW r, r # Npc(turn.n), Has(ui'.rows, r)
  PROVE  Has(ui.rows, r) \/ Has(call.copy, r)
<1>1. ui.rows \in Seq(Rows) /\ call.copy \in Seq(Rows)
  BY DEF Base, TypeOK
<1>2. Closes \/ Lands \/ GivesUp \/ Adopts \/ Asks \/ Sleeps
  BY TimerOutcomes
<1>3. CASE Closes \/ Adopts \/ Asks \/ Sleeps
  BY <1>3 DEF Closes, Adopts, Asks, Sleeps
<1>4. CASE Lands
  <2>1. Npc(turn.n) \in Rows
    BY <1>4, RowsOf DEF Lands, Over, Base, Control
  <2>2. QED BY <1>1, <1>4, <2>1, Appended DEF Lands
<1>5. CASE GivesUp /\ ui.committed
  BY <1>5 DEF GivesUp
<1>6. CASE GivesUp /\ ~ui.committed
  <2>1. Uncommitted /\ ui'.rows = Without(ui.rows, Player(turn.n)) /\ Player(turn.n) \in Rows
    BY <1>6, RowsOf DEF GivesUp, Over, Uncommitted, Base, Control
  <2>2. PICK before \in Seq(Rows), p \in Rows : before = ui'.rows /\ ui.rows = Append(before, p)
    BY <2>1, RollsBack
  <2>3. \A x : Has(Append(before, p), x) <=> Has(before, x) \/ x = p
    BY Appended
  <2>4. Has(before, r)
    BY <2>2
  <2>5. Has(Append(before, p), r)
    BY <2>3, <2>4
  <2>6. QED BY <2>2, <2>5
<1>7. QED BY <1>2, <1>3, <1>4, <1>5, <1>6

\* Every step keeps the record of what was submitted, taken and answered.
LEMMA RecordedStep ==
  ASSUME Base, Recorded, Next
  PROVE  Recorded'
<1>1. /\ ui \in UiType /\ turn \in TurnType /\ call \in CallType
      /\ srv \in SrvType /\ hist \in HistType
  BY Types DEF Base
<1>2. Control /\ hist.sent \in Nat
  BY <1>1, ScreenAssumption DEF Base, HistType
<1>3. \A r : ~Has(<<>>, r)
  BY Few
<1>4. \A k \in Turns : ~Has(<<Opening>>, Player(k))
  BY Few, RowNames
<1>5. CASE Load
  BY <1>1, <1>3, <1>5 DEF Load, Recorded, FreshUi, NoCall, SrvType, HistType
<1>6. CASE Leave
  BY <1>1, <1>3, <1>6 DEF Leave, Recorded, FreshUi, NoCall, SrvType, HistType
<1>7. CASE SocketLost
  BY <1>1, <1>7 DEF SocketLost, Recorded, SrvType
<1>8. CASE SrvStart
  <2>1. /\ srv'.log \in {srv.log, <<Opening>>} /\ srv'.jobs = srv.jobs
        /\ call'.turn = call.turn /\ call'.wire = call.wire /\ call'.copy = call.copy
        /\ UNCHANGED <<ui, turn, hist>>
    BY <1>1, <1>8 DEF SrvStart, SrvType, CallType
  <2>2. call.turn = "none" /\ call.wire = "none"
    BY <1>2, <1>8 DEF SrvStart, Control, Submitting
  <2>3. \A k \in Turns : Has(srv'.log, Player(k)) => Has(srv.log, Player(k))
    BY <1>4, <2>1
  <2>4. srv.jobs \subseteq Turns
    BY <1>1 DEF SrvType
  <2>5. QED BY <2>1, <2>2, <2>3, <2>4 DEF Recorded
<1>9. CASE StartAnswered
  <2>1. ui'.rows \in {ui.rows, <<Opening>>}
    BY <1>1, <1>9 DEF StartAnswered, UiType
  <2>2. call'.turn = call.turn /\ call'.wire = call.wire /\ call'.copy = call.copy
    BY <1>1, <1>9 DEF StartAnswered, CallType
  <2>3. QED BY <1>4, <1>9, <2>1, <2>2 DEF StartAnswered, Recorded
<1>10. CASE SrvTranscript
  <2>1. call'.turn = call.turn /\ call'.wire = call.wire /\ call'.copy \in {srv.log, <<>>}
    BY <1>1, <1>10 DEF SrvTranscript, CallType
  <2>2. QED BY <1>3, <1>10, <2>1 DEF SrvTranscript, Recorded
<1>11. CASE Resumed
  <2>1. ui'.rows \in {ui.rows, call.copy}
    BY <1>1, <1>11 DEF Resumed, Hydrated, UiType
  <2>2. call'.turn = call.turn /\ call'.wire = call.wire /\ call'.copy = <<>>
    BY <1>1, <1>11 DEF Resumed, FetchOver, CallType
  <2>3. hist'.sent = hist.sent
    BY <1>1, <1>11 DEF Resumed, HistType
  <2>4. QED BY <1>3, <1>11, <2>1, <2>2, <2>3 DEF Resumed, Recorded
<1>12. CASE Submit
  <2>1. PICK n \in Turns : n = hist.sent + 1
    BY <1>1, <1>12, ScreenAssumption DEF Submit, HistType, Turns
  <2>2. hist'.sent = n /\ ui'.rows = Append(ui.rows, Player(n)) /\ UNCHANGED srv
    BY <1>1, <1>12, <2>1 DEF Submit, HistType, UiType
  <2>3. call'.turn = "sent" /\ call'.wire = "none" /\ call'.copy = call.copy
    BY <1>1, <1>2, <1>12 DEF Submit, CanType, Control, Submitting, CallType
  <2>4. Player(n) \in Rows /\ ui.rows \in Seq(Rows)
    BY <1>1, <2>1, RowsOf DEF UiType
  <2>5. \A k \in Turns : Has(ui'.rows, Player(k)) => Has(ui.rows, Player(k)) \/ k = n
    BY <2>2, <2>4, Appended, RowNames
  <2>6. \A k \in Turns : k <= hist.sent => k <= n
    BY <1>2, <2>1 DEF Turns
  <2>7. srv.jobs \subseteq Turns
    BY <1>1 DEF SrvType
  <2>8. n <= n
    BY <2>1 DEF Turns
  <2>9. QED BY <2>1, <2>2, <2>3, <2>5, <2>6, <2>7, <2>8 DEF Recorded
<1>13. CASE SrvTake
  <2>1. /\ srv'.log = srv.log /\ srv'.jobs \subseteq srv.jobs \cup {turn.n}
        /\ call'.turn = "sent" /\ call'.wire \in {"none", "failed"} /\ call'.copy = call.copy
        /\ UNCHANGED <<ui, turn, hist>>
    BY <1>1, <1>13 DEF SrvTake, SrvType, CallType
  <2>2. ~Has(srv.log, Player(turn.n)) /\ turn.n <= hist.sent
    BY <1>1, <1>2, <1>13 DEF SrvTake, Known, Has, Control, Submitting, HistType
  <2>3. QED BY <2>1, <2>2 DEF Recorded
<1>14. CASE SrvCommit
  <2>1. PICK n \in srv.jobs, flow \in {"PlayerTurnListening", "Ended"} :
          /\ srv' = [srv EXCEPT !.jobs = @ \ {n}, !.flow = flow,
                                !.log = @ \o <<Player(n), Npc(n)>>]
          /\ call' = IF Waiting(n)
                     THEN [call EXCEPT !.wire = IF flow = "Ended" THEN "over" ELSE "ok"]
                     ELSE call
          /\ UNCHANGED <<ui, turn, hist>>
    BY <1>14 DEF SrvCommit
  <2>2. /\ srv'.log = srv.log \o <<Player(n), Npc(n)>> /\ srv'.jobs = srv.jobs \ {n}
        /\ call'.turn = call.turn /\ call'.copy = call.copy
        /\ call'.wire = call.wire \/ turn.n = n
    BY <1>1, <2>1 DEF SrvType, CallType, Waiting
  <2>3. n \in Turns /\ Player(n) \in Rows /\ Npc(n) \in Rows /\ srv.log \in Seq(Rows)
    BY <1>1, <2>1, RowsOf DEF SrvType
  <2>4. \A r : Has(srv'.log, r) <=> Has(srv.log, r) \/ r = Player(n) \/ r = Npc(n)
    BY <2>2, <2>3, AppendedTwo
  <2>5. \A k : Has(srv'.log, Player(k)) <=> Has(srv.log, Player(k)) \/ k = n
    BY <2>4, RowNames
  <2>6. QED BY <2>1, <2>2, <2>3, <2>5 DEF Recorded
<1>15. CASE SrvFail
  <2>1. /\ srv'.log = srv.log /\ srv'.jobs \subseteq srv.jobs
        /\ call'.turn = call.turn /\ call'.copy = call.copy
        /\ call'.wire \in {call.wire, "failed"} /\ UNCHANGED <<ui, turn, hist>>
    BY <1>1, <1>15 DEF SrvFail, SrvType, CallType
  <2>2. QED BY <2>1 DEF Recorded
<1>16. CASE Delivered
  <2>1. call'.turn = call.wire /\ call'.wire = "none" /\ call'.copy = call.copy
    BY <1>1, <1>16 DEF Delivered, CallType
  <2>2. QED BY <1>16, <2>1 DEF Delivered, Recorded
<1>17. CASE CallLost
  <2>1. /\ call'.copy = call.copy
        /\ call'.turn \in {call.turn, "failed"} /\ call'.wire \in {call.wire, "none"}
        /\ UNCHANGED <<ui, turn, srv>> /\ hist'.sent = hist.sent
    BY <1>1, <1>17 DEF CallLost, CallType, HistType
  <2>2. QED BY <2>1 DEF Recorded
<1>18. CASE Timers
  <2>1. \A k : Has(ui'.rows, Player(k)) => Has(ui.rows, Player(k)) \/ Has(call.copy, Player(k))
    BY <1>18, RowsAfterTimer, RowNames
  <2>2. UNCHANGED <<srv, hist>>
    BY <1>18, TimerOutcomes DEF Closes, Lands, GivesUp, Adopts, Over, Asks, Sleeps
  <2>3. call'.copy \in {call.copy, <<>>}
    BY <1>1, <1>18, TimerOutcomes
       DEF Closes, Lands, GivesUp, Adopts, Over, Asks, Sleeps, FetchOver, CallType
  <2>4. \/ call'.turn = "none" /\ call'.wire = "none"
        \/ call'.turn = call.turn /\ call'.wire = call.wire /\ turn'.n = turn.n
    <3>1. CASE Over
      BY <1>1, <3>1 DEF Over, FetchOver, CallType
    <3>2. CASE Asks \/ Sleeps
      BY <1>1, <3>2 DEF Asks, Sleeps, FetchOver, CallType, TurnType
    <3>3. QED BY <1>18, <3>1, <3>2, TimerOutcomes DEF Closes, Lands, GivesUp, Adopts
  <2>5. QED BY <1>3, <2>1, <2>2, <2>3, <2>4 DEF Recorded
<1>19. CASE End \/ EndAnswered
  <2>1. /\ ui'.rows = ui.rows /\ call'.turn = call.turn /\ call'.wire = call.wire
        /\ call'.copy = call.copy /\ UNCHANGED <<turn, srv, hist>>
    BY <1>1, <1>19 DEF End, EndAnswered, UiType, CallType
  <2>2. QED BY <2>1 DEF Recorded
<1>20. CASE SrvEnd
  <2>1. /\ srv'.log = srv.log /\ srv'.jobs = srv.jobs
        /\ call'.turn = call.turn /\ call'.wire = call.wire /\ call'.copy = call.copy
        /\ UNCHANGED <<ui, turn, hist>>
    BY <1>1, <1>20 DEF SrvEnd, SrvType, CallType
  <2>2. QED BY <2>1 DEF Recorded
<1>21. CASE Recv
  <2>1. Answers \/ Marks
    BY <1>21, Received DEF Base
  <2>2. \A k : Has(ui'.rows, Player(k)) => Has(ui.rows, Player(k))
    <3>1. CASE Marks
      BY <3>1 DEF Marks
    <3>2. CASE Answers
      <4>1. PICK n \in 0..MaxTurns : n = Head(ws).n /\ Npc(n) \in Rows
        BY <3>2, RowsOf DEF Answers
      <4>2. ui'.rows = Append(ui.rows, Npc(n)) /\ ui.rows \in Seq(Rows)
        BY <1>1, <3>2, <4>1 DEF Answers, UiType
      <4>3. QED BY <4>1, <4>2, Appended, RowNames
    <3>3. QED BY <2>1, <3>1, <3>2
  <2>3. UNCHANGED <<turn, call, srv, hist>>
    BY <2>1 DEF Answers, Marks
  <2>4. QED BY <2>2, <2>3 DEF Recorded
<1>22. QED
  BY <1>5, <1>6, <1>7, <1>8, <1>9, <1>10, <1>11, <1>12, <1>13, <1>14, <1>15, <1>16,
     <1>17, <1>18, <1>19, <1>20, <1>21 DEF Next, Timers

-----------------------------------------------------------------------------
(***************************************************************************)
(* The frames of the socket.                                               *)
(***************************************************************************)
IsFinal(f) == f.type = "final"
FinalDue   == \E i \in 1..Len(ws) : ws[i].type = "final"

\* Every part of a reply is followed by its end, and a dead socket holds none.
Closed(fs) == \A i \in 1..Len(fs) :
                fs[i].type = "token" => \E j \in 1..Len(fs) : j > i /\ fs[j].type = "final"

Framing == /\ ~srv.link => ws = <<>>
           /\ Closed(ws)
           /\ ui.text /\ srv.link => FinalDue

\* Frames that are closed stay so when closed ones are added, and the end of a
\* reply under way is still under way.
LEMMA ClosedSend ==
  ASSUME TypeOK, Closed(ws), NEW fs \in Seq(Frames), Closed(fs), Send(fs)
  PROVE  /\ Closed(ws') /\ (FinalDue => FinalDue')
         /\ \A i \in 1..Len(ws') : \/ \E j \in 1..Len(ws) : ws'[i] = ws[j]
                                   \/ \E j \in 1..Len(fs) : ws'[i] = fs[j]
<1>1. CASE ~srv.link
  BY <1>1 DEF Send, FinalDue
<1>2. CASE srv.link
  <2>1. ws' = ws \o fs /\ ws \in Seq(Frames)
    BY <1>2 DEF Send, TypeOK
  <2>2. PICK m \in Nat, k \in Nat : m = Len(ws) /\ k = Len(fs)
    BY <2>1
  <2>3. /\ Len(ws') = m + k
        /\ \A i \in 1..m : ws'[i] = ws[i]
        /\ \A i \in 1..k : ws'[m + i] = fs[i]
    BY <2>1, <2>2, ConcatProperties
  <2>4. \A i \in 1..(m + k) : i \in 1..m \/ (i - m \in 1..k /\ m + (i - m) = i)
    BY <2>2
  <2>5. \A i \in 1..m : i \in 1..(m + k)
    BY <2>2
  <2>6. \A i \in 1..k : m + i \in 1..(m + k)
    BY <2>2
  <2>7. Closed(ws')
    <3>1. SUFFICES ASSUME NEW i \in 1..(m + k), ws'[i].type = "token"
                   PROVE  \E j \in 1..(m + k) : j > i /\ ws'[j].type = "final"
      BY <2>3 DEF Closed
    <3>2. CASE i \in 1..m
      <4>1. PICK j \in 1..m : j > i /\ ws[j].type = "final"
        BY <2>2, <2>3, <3>1, <3>2 DEF Closed
      <4>2. QED BY <2>3, <2>5, <4>1
    <3>3. CASE i - m \in 1..k /\ m + (i - m) = i
      <4>1. fs[i - m].type = "token"
        BY <2>3, <3>1, <3>3
      <4>2. PICK j \in 1..k : j > i - m /\ fs[j].type = "final"
        BY <2>2, <3>3, <4>1 DEF Closed
      <4>3. m + j > i /\ ws'[m + j].type = "final"
        BY <2>2, <2>3, <4>2
      <4>4. QED BY <2>6, <4>3
    <3>4. QED BY <2>4, <3>2, <3>3
  <2>8. FinalDue => FinalDue'
    BY <2>2, <2>3, <2>5 DEF FinalDue
  <2>9. ASSUME NEW i \in 1..Len(ws')
        PROVE  \/ \E j \in 1..Len(ws) : ws'[i] = ws[j]
               \/ \E j \in 1..Len(fs) : ws'[i] = fs[j]
    BY <2>2, <2>3, <2>4
  <2>10. QED BY <2>7, <2>8, <2>9
<1>3. QED BY <1>1, <1>2

\* What is left of closed frames after the first is closed; after a part of a
\* reply its end is still under way.
LEMMA ClosedTail ==
  ASSUME NEW fs \in Seq(Frames), fs # <<>>, Closed(fs)
  PROVE  /\ Closed(Tail(fs))
         /\ \A i \in 1..Len(Tail(fs)) : i + 1 \in 1..Len(fs) /\ Tail(fs)[i] = fs[i + 1]
         /\ (\E i \in 1..Len(fs) : fs[i].type = "final") /\ ~(Head(fs).type = "final")
              => \E i \in 1..Len(Tail(fs)) : Tail(fs)[i].type = "final"
         /\ Head(fs).type = "token" => \E i \in 1..Len(Tail(fs)) : Tail(fs)[i].type = "final"
<1>1. PICK n \in Nat : Len(fs) = n + 1
  BY EmptySeq
<1>2. Len(Tail(fs)) = n /\ Head(fs) = fs[1]
  BY <1>1
<1>3. \A i \in 1..n : i + 1 \in 1..(n + 1) /\ Tail(fs)[i] = fs[i + 1]
  BY <1>1, <1>2
<1>4. \A i \in 2..(n + 1) : i - 1 \in 1..n /\ Tail(fs)[i - 1] = fs[i]
  BY <1>1, <1>3
<1>5. \A i \in 1..(n + 1) : i = 1 \/ i \in 2..(n + 1)
  BY <1>1
<1>6. Closed(Tail(fs))
  <2>1. SUFFICES ASSUME NEW i \in 1..n, Tail(fs)[i].type = "token"
                 PROVE  \E j \in 1..n : j > i /\ Tail(fs)[j].type = "final"
    BY <1>2 DEF Closed
  <2>2. PICK j \in 1..(n + 1) : j > i + 1 /\ fs[j].type = "final"
    BY <1>1, <1>3, <2>1 DEF Closed
  <2>3. j \in 2..(n + 1) /\ j - 1 > i
    BY <1>1, <2>2
  <2>4. QED BY <1>4, <2>2, <2>3
<1>7. Head(fs).type = "token" => \E i \in 1..n : Tail(fs)[i].type = "final"
  <2>1. SUFFICES ASSUME fs[1].type = "token" PROVE \E i \in 1..n : Tail(fs)[i].type = "final"
    BY <1>2
  <2>2. PICK j \in 1..(n + 1) : j > 1 /\ fs[j].type = "final"
    BY <1>1, <2>1 DEF Closed
  <2>3. QED BY <1>1, <1>4, <2>2
<1>8. (\E i \in 1..(n + 1) : fs[i].type = "final") /\ ~(Head(fs).type = "final")
        => \E i \in 1..n : Tail(fs)[i].type = "final"
  BY <1>2, <1>4, <1>5
<1>9. QED BY <1>1, <1>2, <1>3, <1>6, <1>7, <1>8

\* Each batch of frames the session sends is closed, and ends a reply of its turn.
LEMMA Batches ==
  /\ \A f \in Flows : /\ <<StateFrame(f)>> \in Seq(Frames) /\ Closed(<<StateFrame(f)>>)
                      /\ \A i \in 1..Len(<<StateFrame(f)>>) : <<StateFrame(f)>>[i].type # "final"
  /\ \A f \in Flows : LET fs == <<StateFrame(f), TextFrame("final", 0)>>
                      IN  fs \in Seq(Frames) /\ Closed(fs)
  /\ \A f \in Flows, n \in Turns :
       LET fs == <<TextFrame("token", n), TextFrame("final", n), StateFrame(f)>>
       IN  /\ fs \in Seq(Frames) /\ Closed(fs)
           /\ \A i \in 1..Len(fs) : fs[i].type = "final" => fs[i].n = n
<1>1. \A f \in Flows : StateFrame(f) \in Frames /\ StateFrame(f).type = "state"
  BY FramesOf DEF StateFrame
<1>2. \A n \in 0..MaxTurns : /\ TextFrame("token", n) \in Frames /\ TextFrame("token", n).type = "token"
                             /\ TextFrame("final", n) \in Frames /\ TextFrame("final", n).type = "final"
                             /\ TextFrame("final", n).n = n
  BY FramesOf DEF TextFrame
<1>3. ASSUME NEW f \in Flows
      PROVE  /\ <<StateFrame(f)>> \in Seq(Frames) /\ Closed(<<StateFrame(f)>>)
             /\ \A i \in 1..Len(<<StateFrame(f)>>) : <<StateFrame(f)>>[i].type # "final"
  BY <1>1, <1>3 DEF Closed
<1>4. ASSUME NEW a \in Frames, NEW b \in Frames, a.type = "state", b.type = "final"
      PROVE  <<a, b>> \in Seq(Frames) /\ Closed(<<a, b>>)
  BY <1>4 DEF Closed
<1>5. ASSUME NEW a \in Frames, NEW b \in Frames, NEW c \in Frames, NEW n,
             a.type = "token", b.type = "final", c.type = "state", b.n = n
      PROVE  /\ <<a, b, c>> \in Seq(Frames) /\ Closed(<<a, b, c>>)
             /\ \A i \in 1..Len(<<a, b, c>>) : <<a, b, c>>[i].type = "final" => <<a, b, c>>[i].n = n
  <2>1. Len(<<a, b, c>>) = 3 /\ <<a, b, c>>[1] = a /\ <<a, b, c>>[2] = b /\ <<a, b, c>>[3] = c
    OBVIOUS
  <2>2. \A i \in 1..3 : i = 1 \/ i = 2 \/ i = 3
    OBVIOUS
  <2>3. 2 \in 1..3 /\ 2 > 1
    OBVIOUS
  <2>4. Closed(<<a, b, c>>)
    BY <1>5, <2>1, <2>2, <2>3 DEF Closed
  <2>5. QED BY <1>5, <2>1, <2>2, <2>4
<1>6. 0 \in 0..MaxTurns /\ \A n \in Turns : n \in 0..MaxTurns
  BY RowsOf, ScreenAssumption
<1>7. QED BY <1>1, <1>2, <1>3, <1>4, <1>5, <1>6

\* Nothing is under way to a page that is not open.
LEMMA FramingInit ==
  ASSUME Init
  PROVE  Framing
BY DEF Init, Framing, Closed, FreshUi

\* Every step keeps the end of a streamed reply under way.
LEMMA FramingStep ==
  ASSUME Base, Framing, Next
  PROVE  Framing'
<1>1. /\ ui \in UiType /\ srv \in SrvType /\ ws \in Seq(Frames) /\ TypeOK
  BY Types DEF Base
<1>2. Closed(<<>>)
  BY DEF Closed
<1>3. CASE Load
  <2>1. ws' = <<StateFrame(srv.flow)>> /\ srv'.link /\ ~ui'.text
    BY <1>1, <1>3 DEF Load, SrvType, FreshUi
  <2>2. Closed(ws')
    BY <1>1, <2>1, Batches DEF SrvType
  <2>3. QED BY <2>1, <2>2 DEF Framing
<1>4. CASE Leave \/ SocketLost
  <2>1. ws' = <<>> /\ ~srv'.link
    BY <1>1, <1>4 DEF Leave, SocketLost, SrvType
  <2>2. QED BY <1>2, <2>1 DEF Framing
<1>5. ASSUME NEW fs \in Seq(Frames), Closed(fs), Send(fs), ui' = ui, srv'.link = srv.link
      PROVE  Framing'
  <2>1. Closed(ws') /\ (FinalDue => FinalDue')
    BY <1>1, <1>5, ClosedSend DEF Framing
  <2>2. ~srv.link => ws' = ws
    BY <1>5 DEF Send
  <2>3. QED BY <1>5, <2>1, <2>2 DEF Framing
<1>6. ASSUME ws' = ws, srv'.link = srv.link, ui'.text => ui.text
      PROVE  Framing'
  BY <1>6 DEF Framing, Closed, FinalDue
<1>7. CASE SrvStart
  <2>1. CASE srv.flow = "NotStarted"
    <3>1. /\ Send(<<StateFrame("PlayerTurnListening"), TextFrame("final", 0)>>)
          /\ ui' = ui /\ srv'.link = srv.link
      BY <1>1, <1>7, <2>1 DEF SrvStart, SrvType
    <3>2. "PlayerTurnListening" \in Flows
      BY DEF Flows
    <3>3. QED BY <1>5, <3>1, <3>2, Batches
  <2>2. CASE srv.flow # "NotStarted"
    BY <1>6, <1>7, <2>2 DEF SrvStart
  <2>3. QED BY <2>1, <2>2
<1>8. CASE SrvCommit
  <2>1. PICK n \in srv.jobs, flow \in {"PlayerTurnListening", "Ended"} :
          /\ Send(<<TextFrame("token", n), TextFrame("final", n), StateFrame(flow)>>)
          /\ ui' = ui /\ srv'.link = srv.link
    BY <1>1, <1>8 DEF SrvCommit, SrvType
  <2>2. n \in Turns /\ flow \in Flows
    BY <1>1 DEF SrvType, Flows
  <2>3. QED BY <1>5, <2>1, <2>2, Batches
<1>9. CASE SrvEnd
  <2>1. CASE srv.flow # "Ended"
    <3>1. Send(<<StateFrame("Ended")>>) /\ ui' = ui /\ srv'.link = srv.link
      BY <1>1, <1>9, <2>1 DEF SrvEnd, SrvType
    <3>2. "Ended" \in Flows
      BY DEF Flows
    <3>3. QED BY <1>5, <3>1, <3>2, Batches
  <2>2. CASE srv.flow = "Ended"
    BY <1>6, <1>9, <2>2 DEF SrvEnd
  <2>3. QED BY <2>1, <2>2
<1>10. CASE Recv
  <2>1. Answers \/ Marks
    BY <1>10, Received DEF Base
  <2>2. ws # <<>> /\ ws' = Tail(ws) /\ srv' = srv
    BY <2>1 DEF Answers, Marks
  <2>3. /\ Closed(ws') /\ (FinalDue /\ ~(Head(ws).type = "final") => FinalDue')
        /\ Head(ws).type = "token" => FinalDue'
    BY <1>1, <2>2, ClosedTail DEF Framing, FinalDue
  <2>4. ui'.text => Head(ws).type = "token" \/ (Head(ws).type = "state" /\ ui.text)
    BY <2>1 DEF Answers, Marks
  <2>5. QED BY <2>2, <2>3, <2>4 DEF Framing
<1>11. CASE SrvTake \/ SrvFail \/ Delivered \/ CallLost \/ SrvTranscript
  <2>1. ws' = ws /\ srv'.link = srv.link /\ ui' = ui
    BY <1>1, <1>11 DEF SrvTake, SrvFail, Delivered, CallLost, SrvTranscript, SrvType
  <2>2. QED BY <1>6, <2>1
<1>12. CASE StartAnswered \/ Resumed \/ Submit \/ End \/ EndAnswered
  <2>1. ws' = ws /\ srv' = srv
    BY <1>12 DEF StartAnswered, Resumed, Submit, End, EndAnswered
  <2>2. ui'.text => ui.text
    BY <1>1, <1>12 DEF StartAnswered, Resumed, Submit, End, EndAnswered, Hydrated, UiType
  <2>3. QED BY <1>6, <2>1, <2>2
<1>13. CASE Timers
  <2>1. ws' = ws /\ srv' = srv /\ (ui'.text => ui.text)
    BY <1>13, TimerOutcomes DEF Closes, Lands, GivesUp, Adopts, Over, Asks, Sleeps
  <2>2. QED BY <1>6, <2>1
<1>14. QED
  BY <1>3, <1>4, <1>7, <1>8, <1>9, <1>10, <1>11, <1>12, <1>13 DEF Next, Timers

-----------------------------------------------------------------------------
(***************************************************************************)
(* What a step does to the transcript, to the calls and to the turn.       *)
(***************************************************************************)
Commits(n) == /\ n \in srv.jobs /\ srv'.jobs = srv.jobs \ {n}
              /\ srv'.log = srv.log \o <<Player(n), Npc(n)>>

\* A committed turn: rows, frames, answer.
LEMMA Committed ==
  ASSUME Base, SrvCommit
  PROVE  \E n \in Turns, flow \in Flows :
           /\ Commits(n) /\ n \in srv.jobs
           /\ Send(<<TextFrame("token", n), TextFrame("final", n), StateFrame(flow)>>)
           /\ call'.start = call.start /\ call'.turn = call.turn /\ call'.fetch = call.fetch
           /\ call'.copy = call.copy /\ (call'.wire # "failed" \/ call'.wire = call.wire)
           /\ srv'.saved = srv.saved /\ srv'.link = srv.link /\ UNCHANGED <<ui, turn, hist>>
<1>1. PICK n \in srv.jobs, flow \in {"PlayerTurnListening", "Ended"} :
        /\ srv' = [srv EXCEPT !.jobs = @ \ {n}, !.flow = flow,
                              !.log = @ \o <<Player(n), Npc(n)>>]
        /\ Send(<<TextFrame("token", n), TextFrame("final", n), StateFrame(flow)>>)
        /\ call' = IF Waiting(n)
                   THEN [call EXCEPT !.wire = IF flow = "Ended" THEN "over" ELSE "ok"]
                   ELSE call
        /\ UNCHANGED <<ui, turn, hist>>
  BY DEF SrvCommit
<1>2. srv \in SrvType /\ call \in CallType
  BY Types DEF Base
<1>3. n \in Turns /\ flow \in Flows
  BY <1>2 DEF SrvType, Flows
<1>4. Commits(n) /\ srv'.saved = srv.saved /\ srv'.link = srv.link
  BY <1>1, <1>2 DEF Commits, SrvType
<1>5. /\ call'.start = call.start /\ call'.turn = call.turn /\ call'.fetch = call.fetch
      /\ call'.copy = call.copy /\ (call'.wire # "failed" \/ call'.wire = call.wire)
  BY <1>1, <1>2 DEF CallType
<1>6. QED BY <1>1, <1>3, <1>4, <1>5

\* The transcript is opened once and grows by one turn at a time.
LEMMA LogMoves ==
  ASSUME Base, Next
  PROVE  /\ srv'.saved = srv.saved
         /\ \/ srv'.log = srv.log
            \/ SrvStart /\ call.start = "sent" /\ srv'.log = <<Opening>>
            \/ SrvCommit /\ \E n \in Turns : Commits(n)
<1>1. srv \in SrvType
  BY Types DEF Base
<1>2. CASE Load \/ Leave \/ SocketLost
  BY <1>1, <1>2 DEF Load, Leave, SocketLost, SrvType
<1>3. CASE SrvStart
  BY <1>1, <1>3 DEF SrvStart, SrvType
<1>4. CASE SrvCommit
  BY <1>4, Committed
<1>5. CASE SrvTake \/ SrvFail \/ SrvEnd
  BY <1>1, <1>5 DEF SrvTake, SrvFail, SrvEnd, SrvType
<1>6. CASE Timers
  BY <1>6, TimerOutcomes DEF Closes, Lands, GivesUp, Adopts, Over, Asks, Sleeps
<1>7. StartAnswered \/ SrvTranscript \/ Resumed \/ Submit \/ Delivered \/ CallLost \/ End
        \/ EndAnswered \/ Recv => srv' = srv
  BY DEF StartAnswered, SrvTranscript, Resumed, Submit, Delivered, CallLost, End, EndAnswered, Recv
<1>8. QED BY <1>2, <1>3, <1>4, <1>5, <1>6, <1>7 DEF Next, Timers

\* A copy of the transcript is made by the session, kept by the page until used.
LEMMA CopyMoves ==
  ASSUME Base, Next
  PROVE  \/ /\ call'.copy \in {call.copy, <<>>}
            /\ call'.fetch = "copy" => call.fetch = "copy" /\ call'.copy = call.copy
            /\ call'.fetch = "withheld" => call.fetch = "withheld"
         \/ /\ SrvTranscript /\ srv.saved /\ call'.fetch = "copy" /\ call'.copy = srv.log
            /\ UNCHANGED <<ui, turn, srv, ws, hist>>
         \/ /\ SrvTranscript /\ ~srv.saved /\ call'.fetch = "withheld" /\ call'.copy = <<>>
            /\ UNCHANGED <<ui, turn, srv, ws, hist>>
<1>1. call \in CallType /\ srv \in SrvType
  BY Types DEF Base
<1>2. CASE Load \/ Leave
  <2>1. call'.copy = <<>> /\ call'.fetch = "none"
    BY <1>2 DEF Load, Leave, NoCall
  <2>2. QED BY <2>1
<1>3. CASE SrvStart \/ StartAnswered \/ SrvTake \/ Delivered \/ End \/ SrvEnd \/ EndAnswered \/ Submit
  <2>1. call'.copy = call.copy /\ (call'.fetch = call.fetch \/ call'.fetch = "sent")
    BY <1>1, <1>3 DEF SrvStart, StartAnswered, SrvTake, Delivered, End, SrvEnd, EndAnswered, Submit, CallType
  <2>2. QED BY <2>1
<1>4. CASE SrvCommit
  BY <1>4, Committed
<1>5. CASE SrvFail
  BY <1>1, <1>5 DEF SrvFail, CallType
<1>6. CASE CallLost
  BY <1>1, <1>6 DEF CallLost, CallType
<1>7. CASE SrvTranscript
  BY <1>1, <1>7 DEF SrvTranscript, CallType, SrvType
<1>8. CASE Resumed
  <2>1. call'.copy = <<>> /\ call'.fetch = "none"
    BY <1>1, <1>8 DEF Resumed, FetchOver, CallType
  <2>2. QED BY <2>1
<1>9. CASE Timers
  <2>1. CASE Over \/ Sleeps
    <3>1. call'.copy = <<>> /\ call'.fetch = "none"
      BY <1>1, <2>1 DEF Over, Sleeps, FetchOver, CallType
    <3>2. QED BY <3>1
  <2>2. CASE Asks
    <3>1. call'.copy = call.copy /\ call'.fetch = "sent"
      BY <1>1, <2>2 DEF Asks, CallType
    <3>2. QED BY <3>1
  <2>3. QED BY <1>9, <2>1, <2>2, TimerOutcomes DEF Closes, Lands, GivesUp, Adopts
<1>10. SocketLost \/ Recv => call' = call
  BY DEF SocketLost, Recv
<1>11. QED
  BY <1>2, <1>3, <1>4, <1>5, <1>6, <1>7, <1>8, <1>9, <1>10 DEF Next, Timers

\* A turn is submitted, asks, sleeps, or is over.
LEMMA TurnMoves ==
  ASSUME Base, Next
  PROVE  \/ turn' = turn
         \/ turn' = NoTurn /\ ui'.phase # "submitting"
         \/ Submit /\ turn' = [NoTurn EXCEPT !.stage = "race", !.n = hist.sent + 1]
         \/ Asks
         \/ Sleeps
<1>1. CASE Timers
  <2>1. CASE Over
    <3>1. turn' = NoTurn /\ ui'.phase # "submitting"
      BY <2>1 DEF Over
    <3>2. QED BY <3>1
  <2>2. QED BY <1>1, <2>1, TimerOutcomes DEF Closes, Lands, GivesUp, Adopts
<1>2. CASE Leave
  BY <1>2 DEF Leave, FreshUi
<1>3. CASE Submit
  BY <1>3 DEF Submit
<1>4. Load \/ SocketLost \/ SrvStart \/ StartAnswered \/ SrvTranscript \/ Resumed \/ SrvTake
        \/ SrvCommit \/ SrvFail \/ Delivered \/ CallLost \/ End \/ SrvEnd \/ EndAnswered \/ Recv
        => turn' = turn
  BY DEF Load, SocketLost, SrvStart, StartAnswered, SrvTranscript, Resumed, SrvTake, SrvCommit,
         SrvFail, Delivered, CallLost, End, SrvEnd, EndAnswered, Recv
<1>5. QED BY <1>1, <1>2, <1>3, <1>4 DEF Next, Timers

-----------------------------------------------------------------------------
(***************************************************************************)
(* The transcript and the copies of it.                                    *)
(***************************************************************************)
\* A transcript with a turn in it ends on a reply; no copy is longer than it;
\* nothing is copied of a session that is not saved; the copy of the last round
\* has the turn when the session has it.
Copied ==
  /\ \A k \in Turns : Has(srv.log, Player(k)) => Last(srv.log)[1] = "npc"
  /\ \A k \in Turns : Has(call.copy, Player(k)) => Last(call.copy)[1] = "npc"
  /\ Len(call.copy) <= Len(srv.log)
  /\ call.start = "ok" => srv.log # <<>>
  /\ ~turn.ask => ~srv.saved
  /\ call.fetch = "copy" => srv.saved
  /\ call.fetch = "withheld" => ~srv.saved
  /\ turn.stage = "asked" /\ LastRound /\ call.fetch = "copy" /\ Has(srv.log, Player(turn.n))
       => Has(call.copy, Player(turn.n))

\* There is nothing to copy at first.
LEMMA CopiedInit ==
  ASSUME Init
  PROVE  Copied
BY Few DEF Init, Copied, NoTurn, NoCall

\* A transcript never gets shorter than a copy of it.
LEMMA LogGrows ==
  ASSUME Base, Next, Copied
  PROVE  /\ srv'.log = srv.log \/ SrvStart \/ Len(srv.log) <= Len(srv'.log)
         /\ Len(call.copy) <= Len(srv'.log)
         /\ \A k \in Turns : Has(srv'.log, Player(k)) => Last(srv'.log)[1] = "npc"
         /\ srv.log # <<>> => srv'.log # <<>>
<1>1. srv \in SrvType /\ call \in CallType /\ srv.log \in Seq(Rows) /\ Len(srv.log) \in Nat /\ Len(call.copy) \in Nat
  BY Types DEF Base, SrvType, CallType
<1>2. CASE srv'.log = srv.log
  BY <1>2 DEF Copied
<1>3. CASE SrvStart /\ call.start = "sent" /\ srv'.log = <<Opening>>
  <2>1. call.copy = <<>>
    BY <1>3 DEF Base, Control
  <2>2. \A k \in Turns : ~Has(srv'.log, Player(k))
    BY <1>3, Few, RowNames
  <2>3. Len(srv'.log) = 1 /\ Len(call.copy) = 0 /\ srv'.log # <<>>
    BY <1>3, <2>1
  <2>4. QED BY <1>3, <2>2, <2>3
<1>4. CASE SrvCommit /\ \E n \in Turns : Commits(n)
  <2>1. PICK n \in Turns : srv'.log = srv.log \o <<Player(n), Npc(n)>>
    BY <1>4 DEF Commits
  <2>2. /\ Len(srv'.log) = Len(srv.log) + 2 /\ Last(srv'.log) = Npc(n) /\ srv'.log # <<>>
    BY <1>1, <2>1, RowsOf, AppendedTwo
  <2>3. QED BY <1>1, <2>2, RowNames DEF Copied
<1>5. QED BY <1>2, <1>3, <1>4, LogMoves

\* Every step keeps the copies true to the transcript.
LEMMA CopiedStep ==
  ASSUME Base, Recorded, Copied, Next
  PROVE  Copied'
<1>1. /\ turn \in TurnType /\ call \in CallType /\ srv \in SrvType /\ hist \in HistType
      /\ Len(srv.log) \in Nat /\ srv'.saved = srv.saved
  BY Types, LogMoves DEF Base, SrvType
<1>2. \A k \in Turns : Has(srv'.log, Player(k)) => Last(srv'.log)[1] = "npc"
  BY LogGrows
<1>3. Len(call.copy) <= Len(srv'.log) /\ (srv.log # <<>> => srv'.log # <<>>)
  BY LogGrows
<1>4. \A k \in Turns : Has(call'.copy, Player(k)) => Last(call'.copy)[1] = "npc"
  BY CopyMoves, Few DEF Copied
<1>5. Len(call'.copy) <= Len(srv'.log)
  <2>1. CASE call'.copy = call.copy
    BY <1>3, <2>1
  <2>2. CASE call'.copy = <<>>
    <3>1. Len(<<>>) = 0 /\ Len(srv'.log) \in Nat
      BY TypeStep DEF TypeOK
    <3>2. QED BY <2>2, <3>1
  <2>3. CASE call'.copy = srv.log /\ srv' = srv
    BY <1>1, <2>3
  <2>4. QED BY <2>1, <2>2, <2>3, CopyMoves
<1>6. (call'.fetch = "copy" => srv'.saved) /\ (call'.fetch = "withheld" => ~srv'.saved)
  BY <1>1, CopyMoves DEF Copied
<1>7. ~turn'.ask => ~srv'.saved
  <2>1. CASE Sleeps
    BY <1>1, <2>1 DEF Sleeps, Copied, TurnType
  <2>2. CASE ~Sleeps
    <3>1. turn'.ask \/ turn'.ask = turn.ask
      <4>1. CASE turn' = turn \/ turn' = NoTurn
        BY <4>1 DEF NoTurn
      <4>2. CASE turn' = [NoTurn EXCEPT !.stage = "race", !.n = hist.sent + 1]
        BY <4>2 DEF NoTurn
      <4>3. CASE Asks
        BY <1>1, <4>3 DEF Asks, TurnType
      <4>4. QED BY <2>2, <4>1, <4>2, <4>3, TurnMoves
    <3>2. QED BY <1>1, <3>1 DEF Copied
  <2>3. QED BY <2>1, <2>2
<1>8. call'.start = "ok" => srv'.log # <<>>
  <2>1. CASE SrvStart
    <3>1. CASE srv.flow = "NotStarted"
      <4>1. srv'.log = <<Opening>>
        BY <1>1, <2>1, <3>1 DEF SrvStart, SrvType
      <4>2. QED BY <4>1
    <3>2. CASE srv.flow # "NotStarted"
      BY <1>1, <2>1, <3>2 DEF SrvStart, CallType
    <3>3. QED BY <3>1, <3>2
  <2>2. CASE ~SrvStart
    <3>1. call'.start = "ok" => call.start = "ok"
      <4>1. CASE Timers
        BY <1>1, <4>1, TimerOutcomes
           DEF Closes, Lands, GivesUp, Adopts, Over, Asks, Sleeps, FetchOver, CallType
      <4>2. CASE SrvCommit
        BY <4>2, Committed
      <4>3. CASE CallLost
        BY <1>1, <4>3 DEF CallLost, CallType
      <4>4. CASE Resumed \/ SrvTranscript \/ StartAnswered
        BY <1>1, <4>4 DEF Resumed, SrvTranscript, StartAnswered, FetchOver, CallType
      <4>5. CASE Load \/ Leave
        BY <4>5 DEF Load, Leave, NoCall
      <4>6. CASE Submit \/ SrvTake \/ SrvFail \/ Delivered \/ End \/ SrvEnd \/ EndAnswered
        BY <1>1, <4>6 DEF Submit, SrvTake, SrvFail, Delivered, End, SrvEnd, EndAnswered, CallType
      <4>7. SocketLost \/ Recv => call' = call
        BY DEF SocketLost, Recv
      <4>8. QED
        BY <2>2, <4>1, <4>2, <4>3, <4>4, <4>5, <4>6, <4>7 DEF Next, Timers
    <3>2. QED BY <1>3, <3>1 DEF Copied
  <2>3. QED BY <2>1, <2>2
<1>9. (turn.stage = "asked" /\ LastRound /\ call.fetch = "copy" /\ Has(srv.log, Player(turn.n))
         => Has(call.copy, Player(turn.n)))'
  <2>1. SUFFICES ASSUME turn'.stage = "asked", LastRound', call'.fetch = "copy",
                        Has(srv'.log, Player(turn'.n))
                 PROVE  Has(call'.copy, Player(turn'.n))
    OBVIOUS
  <2>2. turn' = turn
    <3>1. ~Asks
      BY <1>1, <2>1 DEF Asks, CallType
    <3>2. turn'.stage # "race" /\ turn' # NoTurn
      BY <2>1 DEF NoTurn
    <3>3. ~Sleeps
      <4>1. Sleeps => turn'.stage = "asleep"
        BY <1>1 DEF Sleeps, TurnType
      <4>2. QED BY <2>1, <4>1
    <3>4. ~(turn' = [NoTurn EXCEPT !.stage = "race", !.n = hist.sent + 1])
      BY <3>2 DEF NoTurn
    <3>5. QED BY <3>1, <3>2, <3>3, <3>4, TurnMoves
  <2>3. turn.n \in Turns /\ turn.n \notin srv.jobs /\ call.start = "none" /\ LastRound
    BY <2>1, <2>2 DEF Base, Control, Submitting, LastRound
  <2>4. Has(srv.log, Player(turn.n))
    <3>1. CASE srv'.log = srv.log
      BY <2>1, <2>2, <3>1
    <3>2. CASE SrvStart
      BY <2>3, <3>2 DEF SrvStart
    <3>3. CASE SrvCommit /\ \E n \in Turns : Commits(n)
      <4>1. PICK n \in Turns : n # turn.n /\ srv'.log = srv.log \o <<Player(n), Npc(n)>>
        BY <2>3, <3>3 DEF Commits
      <4>2. Has(srv'.log, Player(turn.n)) <=>
              Has(srv.log, Player(turn.n)) \/ Player(turn.n) = Player(n) \/ Player(turn.n) = Npc(n)
        BY <1>1, <4>1, RowsOf, AppendedTwo DEF SrvType
      <4>3. QED BY <2>1, <2>2, <4>1, <4>2, RowNames
    <3>4. QED BY <3>1, <3>2, <3>3, LogMoves
  <2>5. QED BY <2>1, <2>2, <2>3, <2>4, CopyMoves DEF Copied
<1>10. QED BY <1>2, <1>4, <1>5, <1>6, <1>7, <1>8, <1>9 DEF Copied

-----------------------------------------------------------------------------
(***************************************************************************)
(* How many rows the page may hold.                                        *)
(***************************************************************************)
\* As long as no frame came late, the page never holds more rows than the
\* session, but for the player's row of a turn that is not stored; and a copy
\* that has this turn is longer than what the page holds.
NoLonger == ~hist.late =>
  /\ Talking \/ (Submitting /\ ui.committed) => Len(ui.rows) <= Len(srv.log)
  /\ Uncommitted =>
       /\ Len(ui.rows) <= Len(srv.log) + 1
       /\ FinalDue \/ Has(srv.log, Player(turn.n)) => Len(ui.rows) + 1 <= Len(srv.log)
       /\ call.fetch = "copy" /\ Has(call.copy, Player(turn.n)) => Len(ui.rows) < Len(call.copy)

\* A step that touches neither the rows of the page nor those of the session
\* keeps their lengths.
LEMMA NoLongerKept ==
  ASSUME NoLonger, hist'.late = hist.late, ui'.phase = ui.phase, ui'.committed = ui.committed,
         ui'.rows = ui.rows, turn'.n = turn.n, srv'.log = srv.log, FinalDue' => FinalDue,
         call'.fetch = "copy" => call.fetch = "copy" /\ call'.copy = call.copy
  PROVE  NoLonger'
BY DEF NoLonger, Talking, Submitting, Uncommitted

\* What is under way after a frame arrived was under way before.
LEMMA DueBefore ==
  ASSUME TypeOK, Framing, ws # <<>>, ws' = Tail(ws)
  PROVE  FinalDue' => FinalDue
<1>1. \A i \in 1..Len(ws') : i + 1 \in 1..Len(ws) /\ ws'[i] = ws[i + 1]
  BY ClosedTail DEF Framing, TypeOK
<1>2. QED BY <1>1 DEF FinalDue

\* Every step keeps the page no longer than the session.
LEMMA NoLongerStep ==
  ASSUME Base, Recorded, Framing, Copied, NoLonger, Next
  PROVE  NoLonger'
<1>1. /\ ui \in UiType /\ turn \in TurnType /\ call \in CallType
      /\ srv \in SrvType /\ ws \in Seq(Frames) /\ hist \in HistType /\ TypeOK
  BY Types DEF Base
<1>2. /\ ui.rows \in Seq(Rows) /\ srv.log \in Seq(Rows) /\ call.copy \in Seq(Rows)
      /\ Len(ui.rows) \in Nat /\ Len(srv.log) \in Nat /\ Len(call.copy) \in Nat
      /\ ui.num = Len(ui.rows)
  BY <1>1 DEF UiType, SrvType, CallType, Base, Shown, NumberMatchesRows
<1>3. ASSUME ui'.phase \notin {"active", "ending", "ended", "submitting"}
      PROVE  NoLonger'
  BY <1>3 DEF NoLonger, Talking, Submitting, Uncommitted
<1>4. CASE Load \/ Leave
  <2>1. ui'.phase \in {"starting", "away"}
    BY <1>4 DEF Load, Leave, FreshUi
  <2>2. QED BY <1>3, <2>1
<1>5. CASE SrvStart
  <2>1. ui'.phase = "starting"
    BY <1>5 DEF SrvStart, Base, Control
  <2>2. QED BY <1>3, <2>1
<1>6. CASE SocketLost \/ SrvTake \/ SrvFail \/ Delivered \/ CallLost
  <2>1. ws' \in {ws, <<>>}
    BY <1>6 DEF SocketLost, SrvTake, SrvFail, Delivered, CallLost
  <2>2. FinalDue' => FinalDue
    BY <2>1 DEF FinalDue
  <2>3. srv'.log = srv.log
    BY <1>1, <1>6 DEF SocketLost, SrvTake, SrvFail, Delivered, CallLost, SrvType
  <2>4. hist'.late = hist.late
    BY <1>1, <1>6 DEF SocketLost, SrvTake, SrvFail, Delivered, CallLost, HistType
  <2>5. UNCHANGED <<ui, turn>>
    BY <1>6 DEF SocketLost, SrvTake, SrvFail, Delivered, CallLost
  <2>6. call'.fetch = "copy" => call.fetch = "copy" /\ call'.copy = call.copy
    BY <1>1, <1>6 DEF SocketLost, SrvTake, SrvFail, Delivered, CallLost, CallType
  <2>7. QED BY <2>2, <2>3, <2>4, <2>5, <2>6, NoLongerKept
<1>7. CASE SrvEnd
  <2>1. FinalDue' => FinalDue
    <3>1. CASE srv.flow = "Ended"
      BY <1>7, <3>1 DEF SrvEnd, FinalDue
    <3>2. CASE srv.flow # "Ended"
      <4>1. Send(<<StateFrame("Ended")>>) /\ "Ended" \in Flows
        BY <1>7, <3>2 DEF SrvEnd, Flows
      <4>2. PICK fs \in Seq(Frames) : /\ fs = <<StateFrame("Ended")>> /\ Closed(fs) /\ Send(fs)
                                      /\ \A i \in 1..Len(fs) : fs[i].type # "final"
        BY <4>1, Batches
      <4>3. \A i \in 1..Len(ws') : \/ \E j \in 1..Len(ws) : ws'[i] = ws[j]
                                   \/ \E j \in 1..Len(fs) : ws'[i] = fs[j]
        BY <1>1, <4>2, ClosedSend DEF Framing
      <4>4. QED BY <4>2, <4>3 DEF FinalDue
    <3>3. QED BY <3>1, <3>2
  <2>2. srv'.log = srv.log /\ UNCHANGED <<ui, turn, hist>>
    BY <1>1, <1>7 DEF SrvEnd, SrvType
  <2>3. call'.fetch = call.fetch /\ call'.copy = call.copy
    BY <1>1, <1>7 DEF SrvEnd, CallType
  <2>4. QED BY <2>1, <2>2, <2>3, NoLongerKept
<1>8. CASE SrvCommit
  <2>1. PICK n \in Turns :
          /\ srv'.log = srv.log \o <<Player(n), Npc(n)>>
          /\ call'.fetch = call.fetch /\ call'.copy = call.copy /\ UNCHANGED <<ui, turn, hist>>
    BY <1>8, Committed DEF Commits
  <2>2. Len(srv'.log) = Len(srv.log) + 2
    BY <1>2, <2>1, RowsOf, AppendedTwo
  <2>3. QED BY <1>2, <2>1, <2>2 DEF NoLonger, Talking, Submitting, Uncommitted
<1>9. CASE SrvTranscript
  <2>1. UNCHANGED <<ui, turn, srv, ws, hist>>
    BY <1>9 DEF SrvTranscript
  <2>2. call'.fetch = "copy" => call'.copy = srv.log
    BY <1>1, <1>9 DEF SrvTranscript, CallType
  <2>3. QED BY <1>2, <2>1, <2>2 DEF NoLonger, Talking, Submitting, Uncommitted, FinalDue
<1>10. CASE StartAnswered
  <2>1. CASE call.start = "ok"
    <3>1. ui'.rows = <<Opening>> /\ ui'.phase = "active" /\ srv' = srv
      BY <1>1, <1>10, <2>1 DEF StartAnswered, UiType
    <3>2. Len(ui'.rows) = 1 /\ 1 <= Len(srv.log)
      BY <1>2, <2>1, <3>1 DEF Copied
    <3>3. QED BY <3>1, <3>2 DEF NoLonger, Submitting, Uncommitted
  <2>2. CASE call.start # "ok"
    <3>1. ui'.phase \in {"starting", "error"}
      BY <1>1, <1>10, <2>2 DEF StartAnswered, UiType
    <3>2. QED BY <1>3, <3>1
  <2>3. QED BY <2>1, <2>2
<1>11. CASE Resumed
  <2>1. ui'.rows \in {ui.rows, call.copy} /\ ui'.phase = "active" /\ srv' = srv
    BY <1>1, <1>11 DEF Resumed, Hydrated, UiType
  <2>2. ui.rows = <<>>
    BY <1>11 DEF Resumed, Base, Control
  <2>3. Len(ui'.rows) <= Len(srv.log)
    BY <1>2, <2>1, <2>2 DEF Copied
  <2>4. QED BY <2>1, <2>3 DEF NoLonger, Submitting, Uncommitted
<1>12. CASE Submit
  <2>1. PICK n \in Turns : n = hist.sent + 1 /\ ~(n <= hist.sent)
    BY <1>1, <1>12, ScreenAssumption DEF Submit, HistType, Turns
  <2>2. /\ ui'.rows = Append(ui.rows, Player(n)) /\ ui'.committed = FALSE /\ ui'.phase = "submitting"
        /\ turn'.n = n /\ srv' = srv /\ ws' = ws /\ hist'.late = (hist.late \/ ws # <<>>)
        /\ ui.phase = "active"
    BY <1>1, <1>12, <2>1 DEF Submit, CanType, UiType, NoTurn, HistType
  <2>3. call'.fetch # "copy"
    <3>1. call.fetch = "none"
      BY <1>1, <2>2, <1>12 DEF Base, Control, Submitting, CallType
    <3>2. QED BY <1>1, <1>12, <3>1 DEF Submit, CallType
  <2>4. Len(ui'.rows) = Len(ui.rows) + 1
    BY <1>2, <2>1, <2>2, RowsOf, Appended
  <2>5. ~Has(srv'.log, Player(turn'.n))
    BY <2>1, <2>2 DEF Recorded
  <2>6. hist'.late \/ ~FinalDue'
    <3>1. CASE ws = <<>>
      <4>1. ws' = <<>> /\ Len(<<>>) = 0
        BY <2>2, <3>1
      <4>2. \A i \in 1..Len(ws') : FALSE
        BY <4>1
      <4>3. QED BY <4>2 DEF FinalDue
    <3>2. CASE ws # <<>>
      BY <2>2, <3>2
    <3>3. QED BY <3>1, <3>2
  <2>7. hist'.late \/ Len(ui.rows) <= Len(srv.log)
    BY <2>2 DEF NoLonger, Talking
  <2>8. QED BY <1>2, <2>2, <2>3, <2>4, <2>5, <2>6, <2>7 DEF NoLonger, Talking, Submitting, Uncommitted
<1>13. CASE Timers
  <2>1. Closes \/ Lands \/ GivesUp \/ Adopts \/ Asks \/ Sleeps
    BY <1>13, TimerOutcomes
  <2>2. CASE Asks \/ Sleeps
    <3>1. UNCHANGED <<ui, srv, ws, hist>> /\ turn'.n = turn.n /\ call'.fetch # "copy"
      BY <1>1, <2>2 DEF Asks, Sleeps, FetchOver, TurnType, CallType
    <3>2. QED BY <3>1, NoLongerKept DEF FinalDue
  <2>3. CASE Over
    <3>1. SUFFICES ASSUME ~hist.late PROVE Len(ui'.rows) <= Len(srv.log)
      BY <2>3 DEF Over, NoLonger, Submitting, Uncommitted
    <3>2. CASE Closes \/ (GivesUp /\ ui.committed)
      BY <2>3, <3>1, <3>2 DEF Closes, GivesUp, Over, NoLonger
    <3>3. CASE Lands
      <4>1. Npc(turn.n) \in Rows /\ Has(srv.log, Player(turn.n)) /\ Uncommitted
        BY <2>3, <3>3, RowsOf DEF Lands, Over, Base, Control, Recorded, Uncommitted
      <4>2. Len(ui'.rows) = Len(ui.rows) + 1
        BY <1>2, <3>3, <4>1, Appended DEF Lands
      <4>3. QED BY <1>2, <3>1, <4>1, <4>2 DEF NoLonger
    <3>4. CASE GivesUp /\ ~ui.committed
      <4>1. Uncommitted
        BY <2>3, <3>4 DEF Over, Uncommitted
      <4>2. Len(ui'.rows) = Len(ui.rows) - 1
        BY <3>4, <4>1, RollsBack DEF GivesUp
      <4>3. QED BY <1>2, <3>1, <4>1, <4>2 DEF NoLonger
    <3>5. CASE Adopts
      BY <3>5 DEF Adopts, Copied
    <3>6. CASE Asks \/ Sleeps
      BY <2>2, <2>3, <3>6 DEF Over, Asks, Sleeps, NoLonger, Talking, Submitting
    <3>7. QED BY <2>1, <3>2, <3>3, <3>4, <3>5, <3>6
  <2>4. QED BY <2>1, <2>2, <2>3 DEF Closes, Lands, GivesUp, Adopts
<1>14. CASE End \/ EndAnswered
  <2>1. /\ ui'.rows = ui.rows /\ ui'.phase \in {"active", "ending", "ended"} /\ srv' = srv
        /\ hist' = hist
    BY <1>1, <1>14 DEF End, EndAnswered, UiType
  <2>2. Talking
    BY <1>14 DEF End, CanEnd, EndAnswered, Talking
  <2>3. QED BY <2>1, <2>2 DEF NoLonger, Submitting, Uncommitted
<1>15. CASE Recv
  <2>1. Answers \/ Marks
    BY <1>15, Received DEF Base
  <2>2. ws # <<>> /\ ws' = Tail(ws) /\ UNCHANGED <<turn, call, srv, hist>> /\ ui'.phase = ui.phase
    BY <2>1 DEF Answers, Marks
  <2>3. FinalDue' => FinalDue
    BY <1>1, <2>2, DueBefore
  <2>4. CASE Marks
    BY <2>2, <2>3, <2>4, NoLongerKept DEF Marks
  <2>5. CASE Answers
    <3>1. PICK n \in 0..MaxTurns : n = Head(ws).n /\ Npc(n) \in Rows
      BY <2>5, RowsOf DEF Answers
    <3>2. ui'.rows = Append(ui.rows, Npc(n)) /\ ui'.committed /\ Uncommitted
      BY <2>5, <3>1 DEF Answers
    <3>3. Len(ui'.rows) = Len(ui.rows) + 1
      BY <1>2, <3>1, <3>2, Appended
    <3>4. FinalDue
      <4>1. Head(ws) = ws[1] /\ 1 \in 1..Len(ws)
        BY <1>1, <2>2
      <4>2. QED BY <2>5, <4>1 DEF Answers, FinalDue
    <3>5. QED BY <1>2, <2>2, <3>2, <3>3, <3>4 DEF NoLonger, Talking, Submitting, Uncommitted
  <2>6. QED BY <2>1, <2>4, <2>5
<1>16. QED
  BY <1>4, <1>5, <1>6, <1>7, <1>8, <1>9, <1>10, <1>11, <1>12, <1>13, <1>14, <1>15
     DEF Next, Timers

-----------------------------------------------------------------------------
(***************************************************************************)
(* A page that lost no call and got no frame late.                         *)
(***************************************************************************)
Good   == ~hist.lost /\ ~hist.late
Stored == Has(srv.log, Player(turn.n))

\* The session works on the turn of the page or on none, the frames under way
\* are of this turn, and a turn that failed is not stored.
Undisturbed ==
  /\ ~Submitting => srv.jobs = {}
  /\ Submitting =>
       /\ srv.jobs \subseteq {turn.n}
       /\ \A i \in 1..Len(ws) : ws[i].type = "final" => ws[i].n = turn.n /\ Stored
       /\ ui.committed => Last(ui.rows) = Npc(turn.n) /\ Stored
  /\ call.turn = "failed" \/ call.wire = "failed" => ~Stored /\ turn.n \notin srv.jobs
  /\ call.fetch # "failed"

\* The rows of the page are those of the session, but for the turn under way:
\* the page has the player's row before it is stored, the session has the reply
\* before it is shown.
Mirrors ==
  /\ ui.phase = "starting" => /\ call.start = "ok" => srv.log = <<Opening>>
                              /\ call.fetch = "copy" => call.copy = srv.log
  /\ Talking \/ (Submitting /\ ui.committed) => ui.rows = srv.log
  /\ Uncommitted => IF Stored THEN srv.log = Append(ui.rows, Npc(turn.n))
                              ELSE ui.rows = Append(srv.log, Player(turn.n))
  /\ Submitting /\ call.fetch = "copy" => call.copy = srv.log \/ Len(call.copy) < Len(ui.rows)

Faithful == Good => Undisturbed /\ (srv.saved => Mirrors)

\* What holds in every state of the screen.
ScreenInv == Base /\ Recorded /\ Framing /\ Copied /\ NoLonger /\ Faithful

\* A page that was good was good before.
LEMMA GoodBefore ==
  ASSUME Base, Next, Good'
  PROVE  Good
<1>1. hist \in HistType
  BY Types DEF Base
<1>2. Load \/ Leave \/ Resumed \/ Submit \/ CallLost => Good
  BY <1>1 DEF Load, Leave, Resumed, Submit, CallLost, Good, HistType
<1>3. SocketLost \/ SrvStart \/ StartAnswered \/ SrvTranscript \/ SrvTake \/ SrvCommit \/ SrvFail
        \/ Delivered \/ End \/ SrvEnd \/ EndAnswered \/ Recv => hist' = hist
  BY DEF SocketLost, SrvStart, StartAnswered, SrvTranscript, SrvTake, SrvCommit, SrvFail,
         Delivered, End, SrvEnd, EndAnswered, Recv
<1>4. Timers => hist' = hist
  BY TimerOutcomes DEF Closes, Lands, GivesUp, Adopts, Over, Asks, Sleeps
<1>5. QED BY <1>2, <1>3, <1>4 DEF Next, Timers, Good

\* A copy that is ahead of a good page is the transcript, with the reply that
\* the page is waiting for.
LEMMA AheadHasReply ==
  ASSUME ScreenInv, Good, Submitting, Ahead
  PROVE  ~ui.committed /\ Stored /\ call.copy = srv.log /\ srv.log = Append(ui.rows, Npc(turn.n))
<1>1. /\ Len(ui.rows) \in Nat /\ Len(srv.log) \in Nat /\ Len(call.copy) \in Nat
      /\ srv.log \in Seq(Rows) /\ turn.n \in Turns /\ ui.num = Len(ui.rows)
  BY DEF ScreenInv, Base, TypeOK, Control, Shown, NumberMatchesRows
<1>2. Mirrors /\ Len(ui.rows) < Len(call.copy) /\ call.fetch = "copy"
  BY <1>1 DEF ScreenInv, Faithful, Copied, Ahead
<1>3. call.copy = srv.log
  BY <1>1, <1>2 DEF Mirrors
<1>4. ~ui.committed
  BY <1>1, <1>2, <1>3 DEF Mirrors
<1>5. Stored
  <2>1. SUFFICES ASSUME ~Stored PROVE FALSE
    OBVIOUS
  <2>2. ui.rows = Append(srv.log, Player(turn.n))
    BY <1>2, <1>4, <2>1 DEF Mirrors, Uncommitted
  <2>3. Len(ui.rows) = Len(srv.log) + 1
    BY <1>1, <2>2, RowsOf, Appended
  <2>4. QED BY <1>1, <1>2, <1>3, <2>3
<1>6. QED BY <1>2, <1>3, <1>4, <1>5 DEF Mirrors, Uncommitted

\* When the turn of a good page is over, the session does not work on it.
LEMMA OverIsQuiet ==
  ASSUME ScreenInv, Good, Closes \/ Lands \/ GivesUp \/ Adopts
  PROVE  srv.jobs = {}
<1>1. Submitting /\ srv.jobs \subseteq {turn.n}
  BY DEF Closes, Lands, GivesUp, Adopts, Over, ScreenInv, Faithful, Undisturbed
<1>2. Stored => turn.n \notin srv.jobs
  BY DEF ScreenInv, Recorded, Stored
<1>3. CASE Closes
  BY <1>1, <1>2, <1>3 DEF Closes, ScreenInv, Faithful, Undisturbed
<1>4. CASE Lands
  BY <1>1, <1>2, <1>4 DEF Lands, ScreenInv, Recorded, Stored
<1>5. CASE GivesUp
  BY <1>1, <1>5 DEF GivesUp, ScreenInv, Faithful, Undisturbed
<1>6. CASE Adopts
  <2>1. Stored
    BY <1>1, <1>6, AheadHasReply DEF Adopts
  <2>2. QED BY <1>1, <1>2, <2>1
<1>7. QED BY <1>3, <1>4, <1>5, <1>6

\* The frame that answers a turn of a good page is of this turn.
LEMMA AnswerOfTurn ==
  ASSUME ScreenInv, Good, Answers
  PROVE  Head(ws).n = turn.n /\ Stored
<1>1. ws \in Seq(Frames) /\ ws # <<>> /\ Head(ws).type = "final" /\ Submitting
  BY DEF Answers, Uncommitted, ScreenInv, Base, TypeOK
<1>2. Head(ws) = ws[1] /\ 1 \in 1..Len(ws)
  BY <1>1
<1>3. QED BY <1>1, <1>2 DEF ScreenInv, Faithful, Undisturbed

\* The turn that is committed on a good page is the one that waits for it.
LEMMA CommitOfTurn ==
  ASSUME ScreenInv, Good, NEW n \in srv.jobs
  PROVE  /\ Uncommitted /\ turn.n = n /\ ~Stored /\ srv.jobs = {n}
         /\ call.turn # "failed" /\ call.wire # "failed"
         /\ \A i \in 1..Len(ws) : ws[i].type # "final"
<1>1. Undisturbed /\ ~Has(srv.log, Player(n))
  BY DEF ScreenInv, Faithful, Recorded
<1>2. Submitting /\ turn.n = n /\ srv.jobs = {n}
  BY <1>1 DEF Undisturbed
<1>3. ~Stored
  BY <1>1, <1>2 DEF Stored
<1>4. QED BY <1>1, <1>2, <1>3 DEF Undisturbed, Uncommitted

\* Every step of a page that stays good keeps its turn undisturbed.
LEMMA UndisturbedStep ==
  ASSUME ScreenInv, Next, Good'
  PROVE  Undisturbed'
<1>1. /\ ui \in UiType /\ turn \in TurnType /\ call \in CallType
      /\ srv \in SrvType /\ ws \in Seq(Frames) /\ hist \in HistType /\ TypeOK
  BY Types DEF ScreenInv, Base
<1>2. Good /\ Base /\ Control /\ Undisturbed /\ Recorded
  BY GoodBefore DEF ScreenInv, Base, Faithful
<1>3. /\ Submitting <=> call.turn # "none"
      /\ call.wire # "none" => Submitting /\ call.turn = "sent"
      /\ Submitting => turn.n \in Turns
  BY <1>2 DEF Control
<1>4. ASSUME ui'.phase # "submitting", srv'.jobs = {}, call'.turn # "failed", call'.wire # "failed",
             call'.fetch # "failed"
      PROVE  Undisturbed'
  BY <1>4 DEF Undisturbed, Submitting
<1>5. CASE Load
  <2>1. ~Submitting /\ srv.jobs = {} /\ srv'.jobs = srv.jobs
    BY <1>1, <1>2, <1>5 DEF Load, Submitting, Undisturbed, SrvType
  <2>2. QED BY <1>4, <1>5, <2>1 DEF Load, FreshUi, NoCall
<1>6. CASE Leave
  <2>1. srv'.jobs = {}
    BY <1>1, <1>6 DEF Leave, Good, SrvType, HistType
  <2>2. QED BY <1>4, <1>6, <2>1 DEF Leave, FreshUi, NoCall
<1>7. CASE SocketLost
  <2>1. ws' = <<>> /\ UNCHANGED <<ui, turn, call>> /\ srv'.log = srv.log /\ srv'.jobs = srv.jobs
    BY <1>1, <1>7 DEF SocketLost, SrvType
  <2>2. \A i \in 1..Len(ws') : FALSE
    BY <2>1
  <2>3. QED BY <1>2, <2>1, <2>2 DEF Undisturbed, Submitting, Stored
<1>8. CASE SrvStart
  <2>1. ui' = ui /\ ui.phase = "starting" /\ ~Submitting
    BY <1>2, <1>8 DEF SrvStart, Control, Submitting
  <2>2. srv'.jobs = srv.jobs /\ call'.turn = call.turn /\ call'.wire = call.wire /\ call'.fetch = call.fetch
    BY <1>1, <1>8 DEF SrvStart, SrvType, CallType
  <2>3. QED BY <1>2, <1>3, <1>4, <2>1, <2>2 DEF Undisturbed
<1>9. CASE StartAnswered
  <2>1. ui'.phase # "submitting" /\ ~Submitting /\ srv' = srv
    BY <1>1, <1>9 DEF StartAnswered, Submitting, UiType
  <2>2. call'.turn = call.turn /\ call'.wire = call.wire /\ call'.fetch \in {call.fetch, "sent"}
    BY <1>1, <1>9 DEF StartAnswered, CallType
  <2>3. QED BY <1>2, <1>3, <1>4, <2>1, <2>2 DEF Undisturbed
<1>10. CASE SrvTranscript
  <2>1. /\ UNCHANGED <<ui, turn, srv, ws>> /\ call'.turn = call.turn /\ call'.wire = call.wire
        /\ call'.fetch \in {"copy", "withheld"}
    BY <1>1, <1>10 DEF SrvTranscript, CallType
  <2>2. QED BY <1>2, <2>1 DEF Undisturbed, Submitting, Stored
<1>11. CASE Resumed
  <2>1. ui'.phase # "submitting" /\ ~Submitting /\ srv' = srv
    BY <1>1, <1>11 DEF Resumed, Submitting, Hydrated, UiType
  <2>2. call'.turn = call.turn /\ call'.wire = call.wire /\ call'.fetch = "none"
    BY <1>1, <1>11 DEF Resumed, FetchOver, CallType
  <2>3. QED BY <1>2, <1>3, <1>4, <2>1, <2>2 DEF Undisturbed
<1>12. CASE Submit
  <2>1. ~Submitting /\ srv' = srv /\ ws' = ws /\ ws = <<>> /\ ui'.committed = FALSE
    BY <1>1, <1>12 DEF Submit, CanType, Submitting, Good, UiType, HistType
  <2>2. call'.turn = "sent" /\ call'.wire = "none" /\ call'.fetch = call.fetch
    BY <1>1, <1>3, <1>12, <2>1 DEF Submit, CallType
  <2>3. \A i \in 1..Len(ws') : FALSE
    BY <2>1
  <2>4. srv'.jobs = {}
    BY <1>2, <2>1 DEF Undisturbed
  <2>5. QED BY <1>2, <2>1, <2>2, <2>3, <2>4 DEF Undisturbed
<1>13. CASE SrvTake
  <2>1. /\ UNCHANGED <<ui, turn, ws>> /\ srv'.log = srv.log /\ Submitting
        /\ call'.turn = "sent" /\ call'.fetch = call.fetch
        /\ ~Stored /\ turn.n \notin srv.jobs
        /\ \/ srv'.jobs = srv.jobs \cup {turn.n} /\ call'.wire = "none"
           \/ srv'.jobs = srv.jobs /\ call'.wire = "failed"
    BY <1>1, <1>3, <1>13 DEF SrvTake, Known, Stored, Has, SrvType, CallType
  <2>2. QED BY <1>2, <2>1 DEF Undisturbed, Submitting, Stored
<1>14. CASE SrvCommit
  <2>1. PICK n \in Turns, flow \in Flows :
           /\ n \in srv.jobs /\ srv'.jobs = srv.jobs \ {n}
           /\ srv'.log = srv.log \o <<Player(n), Npc(n)>>
           /\ Send(<<TextFrame("token", n), TextFrame("final", n), StateFrame(flow)>>)
           /\ call'.turn = call.turn /\ call'.fetch = call.fetch
           /\ call'.wire # "failed" \/ call'.wire = call.wire
           /\ UNCHANGED <<ui, turn>>
    BY <1>2, <1>14, Committed DEF Commits
  <2>2. /\ Uncommitted /\ turn.n = n /\ srv.jobs = {n}
        /\ call.turn # "failed" /\ call.wire # "failed"
        /\ \A i \in 1..Len(ws) : ws[i].type # "final"
    BY <1>2, <2>1, CommitOfTurn
  <2>3. Has(srv'.log, Player(n))
    BY <1>1, <2>1, RowsOf, AppendedTwo DEF SrvType
  <2>4. PICK fs \in Seq(Frames) : /\ Send(fs) /\ Closed(fs)
                                  /\ \A i \in 1..Len(fs) : fs[i].type = "final" => fs[i].n = n
    <3>1. PICK fs : fs = <<TextFrame("token", n), TextFrame("final", n), StateFrame(flow)>>
      OBVIOUS
    <3>2. /\ fs \in Seq(Frames) /\ Closed(fs)
          /\ \A i \in 1..Len(fs) : fs[i].type = "final" => fs[i].n = n
      BY <3>1, Batches
    <3>3. QED BY <2>1, <3>1, <3>2
  <2>5. \A i \in 1..Len(ws') : \/ \E j \in 1..Len(ws) : ws'[i] = ws[j]
                               \/ \E j \in 1..Len(fs) : ws'[i] = fs[j]
    BY <1>1, <2>4, ClosedSend DEF ScreenInv, Framing
  <2>6. \A i \in 1..Len(ws') : ws'[i].type = "final" => ws'[i].n = n
    BY <2>2, <2>4, <2>5
  <2>7. QED BY <1>2, <2>1, <2>2, <2>3, <2>6 DEF Undisturbed, Submitting, Uncommitted, Stored
<1>15. CASE SrvFail
  <2>1. PICK n \in srv.jobs :
          /\ srv'.jobs = srv.jobs \ {n} /\ srv'.log = srv.log
          /\ call'.turn = call.turn /\ call'.fetch = call.fetch
          /\ UNCHANGED <<ui, turn, ws>>
    BY <1>1, <1>15 DEF SrvFail, SrvType, CallType
  <2>2. turn.n = n /\ ~Stored /\ Submitting
    BY <1>2, <2>1, CommitOfTurn DEF Uncommitted
  <2>3. QED BY <1>2, <2>1, <2>2 DEF Undisturbed, Submitting, Stored
<1>16. CASE Delivered
  <2>1. /\ UNCHANGED <<ui, turn, srv, ws>> /\ call'.turn = call.wire /\ call'.wire = "none"
        /\ call'.fetch = call.fetch
    BY <1>1, <1>16 DEF Delivered, CallType
  <2>2. QED BY <1>2, <2>1 DEF Undisturbed, Submitting, Stored
<1>17. CASE CallLost
  <2>1. PICK k \in {"start", "turn", "fetch", "end"} :
          /\ call' = [call EXCEPT ![k] = "failed", !.wire = IF k = "turn" THEN "none" ELSE @]
          /\ hist'.lost = (hist.lost \/ k = "fetch" \/ (k = "turn" /\ Known(turn.n)))
          /\ UNCHANGED <<ui, turn, srv, ws>>
    BY <1>1, <1>17 DEF CallLost, HistType
  <2>2. k # "fetch" /\ (k = "turn" => ~Known(turn.n))
    BY <2>1 DEF Good
  <2>3. call'.fetch = call.fetch
    BY <1>1, <2>1, <2>2 DEF CallType
  <2>4. CASE k = "turn"
    <3>1. ~Stored /\ turn.n \notin srv.jobs
      BY <2>2, <2>4 DEF Known, Stored, Has
    <3>2. QED BY <1>2, <2>1, <2>3, <3>1 DEF Undisturbed, Submitting, Stored
  <2>5. CASE k # "turn"
    <3>1. call'.turn = call.turn /\ call'.wire = call.wire
      BY <1>1, <2>1, <2>5 DEF CallType
    <3>2. QED BY <1>2, <2>1, <2>3, <3>1 DEF Undisturbed, Submitting, Stored
  <2>6. QED BY <2>4, <2>5
<1>18. CASE Timers
  <2>1. Closes \/ Lands \/ GivesUp \/ Adopts \/ Asks \/ Sleeps
    BY <1>2, <1>18, TimerOutcomes
  <2>2. CASE Asks \/ Sleeps
    <3>1. /\ UNCHANGED <<ui, srv, ws>> /\ turn'.n = turn.n
          /\ call'.turn = call.turn /\ call'.wire = call.wire /\ call'.fetch \in {"sent", "none"}
      BY <1>1, <2>2 DEF Asks, Sleeps, FetchOver, TurnType, CallType
    <3>2. QED BY <1>2, <3>1 DEF Undisturbed, Submitting, Stored
  <2>3. CASE Closes \/ Lands \/ GivesUp \/ Adopts
    <3>1. Over /\ srv.jobs = {}
      BY <1>2, <2>3, OverIsQuiet DEF Closes, Lands, GivesUp, Adopts
    <3>2. /\ ui'.phase # "submitting" /\ srv'.jobs = {}
          /\ call'.turn = "none" /\ call'.wire = "none" /\ call'.fetch = "none"
      BY <1>1, <3>1 DEF Over, FetchOver, CallType
    <3>3. QED BY <1>4, <3>2
  <2>4. QED BY <2>1, <2>2, <2>3
<1>19. CASE End \/ SrvEnd \/ EndAnswered
  <2>1. ~Submitting /\ ui'.phase # "submitting"
    BY <1>1, <1>2, <1>19 DEF End, SrvEnd, EndAnswered, CanEnd, Submitting, Control, UiType
  <2>2. /\ srv'.jobs = srv.jobs /\ call'.turn = call.turn /\ call'.wire = call.wire
        /\ call'.fetch = call.fetch
    BY <1>1, <1>19 DEF End, SrvEnd, EndAnswered, SrvType, CallType
  <2>3. QED BY <1>2, <1>3, <1>4, <2>1, <2>2 DEF Undisturbed
<1>20. CASE Recv
  <2>1. Answers \/ Marks
    BY <1>2, <1>20, Received
  <2>2. /\ ws # <<>> /\ ws' = Tail(ws) /\ UNCHANGED <<turn, call, srv>>
        /\ ui'.phase = ui.phase
    BY <2>1 DEF Answers, Marks
  <2>3. \A i \in 1..Len(ws') : i + 1 \in 1..Len(ws) /\ ws'[i] = ws[i + 1]
    BY <1>1, <2>2, ClosedTail DEF ScreenInv, Framing
  <2>4. Submitting => \A i \in 1..Len(ws') : ws'[i].type = "final" => ws'[i].n = turn.n /\ Stored
    BY <1>2, <2>3 DEF Undisturbed
  <2>5. Submitting /\ ui'.committed => Last(ui'.rows) = Npc(turn.n) /\ Stored
    <3>1. CASE Marks
      BY <1>2, <3>1 DEF Marks, Undisturbed
    <3>2. CASE Answers
      <4>1. Head(ws).n = turn.n /\ Stored
        BY <1>2, <3>2, AnswerOfTurn
      <4>2. ui'.rows = Append(ui.rows, Npc(turn.n)) /\ ui.rows \in Seq(Rows)
        BY <1>1, <3>2, <4>1 DEF Answers, UiType
      <4>3. Npc(turn.n) \in Rows
        BY <1>3, <3>2, RowsOf DEF Answers, Uncommitted
      <4>4. QED BY <4>1, <4>2, <4>3, Appended
    <3>3. QED BY <2>1, <3>1, <3>2
  <2>6. QED BY <1>2, <2>2, <2>4, <2>5 DEF Undisturbed, Submitting, Stored
<1>21. QED
  BY <1>5, <1>6, <1>7, <1>8, <1>9, <1>10, <1>11, <1>12, <1>13, <1>14, <1>15, <1>16, <1>17,
     <1>18, <1>19, <1>20 DEF Next, Timers

\* Every step of a good page of a saved session keeps its rows the session's.
LEMMA MirrorsStep ==
  ASSUME ScreenInv, Next, Good', srv.saved
  PROVE  Mirrors'
<1>1. /\ ui \in UiType /\ turn \in TurnType /\ call \in CallType
      /\ srv \in SrvType /\ ws \in Seq(Frames) /\ hist \in HistType /\ TypeOK
  BY Types DEF ScreenInv, Base
<1>2. Good /\ Base /\ Control /\ Undisturbed /\ Recorded /\ Mirrors
  BY GoodBefore DEF ScreenInv, Base, Faithful
<1>3. /\ ui.rows \in Seq(Rows) /\ srv.log \in Seq(Rows) /\ call.copy \in Seq(Rows)
      /\ Len(ui.rows) \in Nat /\ Len(srv.log) \in Nat /\ Len(call.copy) \in Nat
  BY <1>1 DEF UiType, SrvType, CallType
<1>4. ASSUME ui'.phase \in {"active", "ending", "ended"}, ui'.rows = srv'.log
      PROVE  Mirrors'
  BY <1>4 DEF Mirrors, Submitting, Uncommitted
<1>5. ASSUME ui'.phase = ui.phase, ui'.committed = ui.committed, ui'.rows = ui.rows,
             srv'.log = srv.log, turn'.n = turn.n, call'.start = "ok" => call.start = "ok",
             call'.fetch = "copy" => call.fetch = "copy" /\ call'.copy = call.copy
      PROVE  Mirrors'
  BY <1>2, <1>5 DEF Mirrors, Submitting, Uncommitted, Talking, Stored
<1>6. CASE Load \/ Leave
  <2>1. ui'.phase \in {"starting", "away"} /\ call'.start # "ok" /\ call'.fetch = "none"
    BY <1>6 DEF Load, Leave, FreshUi, NoCall
  <2>2. QED BY <2>1 DEF Mirrors, Submitting, Uncommitted, Talking
<1>7. CASE SocketLost \/ SrvTake \/ SrvFail \/ Delivered \/ CallLost
  <2>1. UNCHANGED <<ui, turn>>
    BY <1>7 DEF SocketLost, SrvTake, SrvFail, Delivered, CallLost
  <2>2. srv'.log = srv.log
    BY <1>1, <1>7 DEF SocketLost, SrvTake, SrvFail, Delivered, CallLost, SrvType
  <2>3. /\ call'.start = "ok" => call.start = "ok"
        /\ call'.fetch = "copy" => call.fetch = "copy" /\ call'.copy = call.copy
    BY <1>1, <1>7 DEF SocketLost, SrvTake, SrvFail, Delivered, CallLost, CallType
  <2>4. QED BY <1>5, <2>1, <2>2, <2>3
<1>8. CASE SrvStart
  <2>1. ui' = ui /\ ui.phase = "starting" /\ call.fetch = "none" /\ call'.fetch = call.fetch
    BY <1>1, <1>2, <1>8 DEF SrvStart, Control, CallType
  <2>2. call'.start = "ok" => srv'.log = <<Opening>>
    BY <1>1, <1>8 DEF SrvStart, CallType, SrvType
  <2>3. QED BY <2>1, <2>2 DEF Mirrors, Submitting, Uncommitted, Talking
<1>9. CASE StartAnswered
  <2>1. CASE call.start = "ok"
    <3>1. ui'.rows = <<Opening>> /\ ui'.phase = "active" /\ srv' = srv /\ ui.phase = "starting"
      BY <1>1, <1>9, <2>1 DEF StartAnswered, UiType
    <3>2. QED BY <1>2, <1>4, <2>1, <3>1 DEF Mirrors
  <2>2. CASE call.start # "ok"
    <3>1. /\ ui'.phase \in {"starting", "error"} /\ call'.start # "ok"
          /\ ui'.phase = "starting" => call'.fetch = "sent"
      BY <1>1, <1>9, <2>2 DEF StartAnswered, UiType, CallType
    <3>2. QED BY <3>1 DEF Mirrors, Submitting, Uncommitted, Talking
  <2>3. QED BY <2>1, <2>2
<1>10. CASE SrvTranscript
  <2>1. /\ UNCHANGED <<ui, turn, srv>> /\ call'.copy = srv.log /\ call'.start = call.start
    BY <1>1, <1>10 DEF SrvTranscript, CallType
  <2>2. QED BY <1>2, <2>1 DEF Mirrors, Submitting, Uncommitted, Talking, Stored
<1>11. CASE Resumed
  <2>1. call.fetch = "copy" /\ ui.phase = "starting" /\ srv' = srv
    BY <1>1, <1>11 DEF Resumed, Good, HistType
  <2>2. ui'.rows = call.copy /\ ui'.phase = "active"
    BY <1>1, <1>11, <2>1 DEF Resumed, Hydrated, UiType
  <2>3. QED BY <1>2, <1>4, <2>1, <2>2 DEF Mirrors
<1>12. CASE Submit
  <2>1. PICK n \in Turns : n = hist.sent + 1 /\ ~(n <= hist.sent)
    BY <1>1, <1>12, ScreenAssumption DEF Submit, HistType, Turns
  <2>2. /\ ui'.rows = Append(ui.rows, Player(n)) /\ ui'.committed = FALSE /\ ui'.phase = "submitting"
        /\ turn'.n = n /\ srv' = srv /\ ui.phase = "active"
    BY <1>1, <1>12, <2>1 DEF Submit, CanType, UiType, NoTurn
  <2>3. call'.fetch = "none"
    <3>1. call.fetch = "none"
      BY <1>1, <1>2, <2>2 DEF Control, Submitting, CallType
    <3>2. QED BY <1>1, <1>12, <3>1 DEF Submit, CallType
  <2>4. ui.rows = srv.log
    BY <1>2, <2>2 DEF Mirrors, Talking
  <2>5. ~Stored'
    BY <1>2, <2>1, <2>2 DEF Recorded, Stored
  <2>6. QED BY <2>2, <2>3, <2>4, <2>5 DEF Mirrors, Submitting, Uncommitted, Talking
<1>13. CASE SrvCommit
  <2>1. PICK n \in Turns :
           /\ n \in srv.jobs /\ srv'.log = srv.log \o <<Player(n), Npc(n)>>
           /\ call'.fetch = call.fetch /\ call'.copy = call.copy
           /\ UNCHANGED <<ui, turn>>
    BY <1>2, <1>13, Committed DEF Commits
  <2>2. Uncommitted /\ turn.n = n /\ ~Stored
    BY <1>2, <2>1, CommitOfTurn
  <2>3. /\ Has(srv'.log, Player(n)) /\ srv'.log = Append(Append(srv.log, Player(n)), Npc(n))
    BY <1>3, <2>1, RowsOf, AppendedTwo
  <2>4. ui.rows = Append(srv.log, Player(n)) /\ Len(ui.rows) = Len(srv.log) + 1
    BY <1>2, <1>3, <2>1, <2>2, RowsOf, Appended DEF Mirrors
  <2>5. call.fetch = "copy" => Len(call.copy) < Len(ui.rows)
    BY <1>2, <1>3, <2>2, <2>4 DEF Mirrors, Uncommitted
  <2>6. QED BY <2>1, <2>2, <2>3, <2>4, <2>5 DEF Mirrors, Submitting, Uncommitted, Talking, Stored
<1>14. CASE Timers
  <2>1. Closes \/ Lands \/ GivesUp \/ Adopts \/ Asks \/ Sleeps
    BY <1>2, <1>14, TimerOutcomes
  <2>2. CASE Asks \/ Sleeps
    <3>1. /\ UNCHANGED <<ui, srv>> /\ turn'.n = turn.n /\ call'.start = call.start
          /\ call'.fetch # "copy"
      BY <1>1, <2>2 DEF Asks, Sleeps, FetchOver, TurnType, CallType
    <3>2. QED BY <1>5, <3>1
  <2>3. CASE Over /\ (Closes \/ Lands \/ GivesUp \/ Adopts)
    <3>1. Submitting /\ ui'.phase \in {"active", "ended"} /\ srv' = srv /\ turn.n \in Turns
      BY <1>2, <2>3 DEF Over, Control
    <3>2. SUFFICES ui'.rows = srv.log
      BY <1>4, <3>1
    <3>3. CASE ui.committed
      <4>1. ui.rows = srv.log
        BY <1>2, <3>1, <3>3 DEF Mirrors
      <4>2. ~Adopts
        BY <3>1, <3>3, <1>2, AheadHasReply DEF Adopts
      <4>3. QED BY <2>3, <3>3, <4>1, <4>2 DEF Closes, Lands, GivesUp
    <3>4. CASE Lands
      <4>1. Stored /\ Uncommitted
        BY <1>2, <3>1, <3>4 DEF Lands, Recorded, Stored, Uncommitted
      <4>2. QED BY <1>2, <3>4, <4>1 DEF Lands, Mirrors
    <3>5. CASE Adopts
      BY <1>2, <3>1, <3>5, AheadHasReply DEF Adopts
    <3>6. CASE GivesUp /\ ~ui.committed
      <4>1. Uncommitted
        BY <3>1, <3>6 DEF Uncommitted
      <4>2. ~Stored
        <5>1. CASE call.turn = "failed"
          BY <1>2, <5>1 DEF Undisturbed
        <5>2. CASE LastRound /\ turn.stage = "asked" /\ call.fetch \in {"copy", "withheld", "failed"} /\ ~Ahead
          <6>1. SUFFICES ASSUME Stored PROVE FALSE
            OBVIOUS
          <6>2. call.fetch = "copy"
            BY <1>2, <5>2 DEF Undisturbed, ScreenInv, Copied
          <6>3. Has(call.copy, Player(turn.n))
            BY <5>2, <6>1, <6>2 DEF ScreenInv, Copied, Stored
          <6>4. Len(ui.rows) < Len(call.copy) /\ Last(call.copy)[1] = "npc"
            BY <1>2, <3>1, <4>1, <6>2, <6>3 DEF ScreenInv, NoLonger, Copied, Good
          <6>5. call.copy # <<>> /\ ui.num = Len(ui.rows)
            BY <6>3, Few, <1>2 DEF Base, Shown, NumberMatchesRows
          <6>6. QED BY <1>3, <5>2, <6>2, <6>4, <6>5 DEF Ahead
        <5>3. CASE ~turn.ask
          BY <5>3 DEF ScreenInv, Copied
        <5>4. QED BY <3>6, <5>1, <5>2, <5>3 DEF GivesUp
      <4>3. ui.rows = Append(srv.log, Player(turn.n))
        BY <1>2, <4>1, <4>2 DEF Mirrors
      <4>4. ui'.rows \in Seq(Rows) /\ ui.rows = Append(ui'.rows, Player(turn.n))
        BY <1>2, <3>6, <4>1, RollsBack DEF GivesUp
      <4>5. PICK left \in Seq(Rows), p \in Rows :
              left = ui'.rows /\ Append(left, p) = Append(srv.log, p)
        BY <3>1, <4>3, <4>4, RowsOf
      <4>6. left = srv.log
        <5>1. PICK log \in Seq(Rows) : log = srv.log
          BY <1>3
        <5>2. Append(left, p) = Append(log, p)
          BY <4>5, <5>1
        <5>3. left = log
          BY <5>2, AppendInjective
        <5>4. QED BY <5>1, <5>3
      <4>7. QED BY <4>5, <4>6
    <3>7. QED BY <2>3, <3>3, <3>4, <3>5, <3>6 DEF Closes
  <2>4. QED BY <2>1, <2>2, <2>3 DEF Closes, Lands, GivesUp, Adopts
<1>15. CASE End \/ SrvEnd \/ EndAnswered
  <2>1. Talking /\ ui'.phase \in {"active", "ending", "ended"} /\ ui'.rows = ui.rows
    BY <1>1, <1>2, <1>15 DEF End, SrvEnd, EndAnswered, CanEnd, Talking, Control, UiType
  <2>2. srv'.log = srv.log
    BY <1>1, <1>15 DEF End, SrvEnd, EndAnswered, SrvType
  <2>3. QED BY <1>2, <1>4, <2>1, <2>2 DEF Mirrors
<1>16. CASE Recv
  <2>1. Answers \/ Marks
    BY <1>2, <1>16, Received
  <2>2. UNCHANGED <<turn, call, srv>> /\ ui'.phase = ui.phase
    BY <2>1 DEF Answers, Marks
  <2>3. CASE Marks
    BY <1>5, <2>2, <2>3 DEF Marks
  <2>4. CASE Answers
    <3>1. Head(ws).n = turn.n /\ Stored /\ Uncommitted /\ Npc(turn.n) \in Rows
      BY <1>2, <2>4, AnswerOfTurn, RowsOf DEF Answers
    <3>2. ui'.rows = Append(ui.rows, Npc(turn.n)) /\ ui'.committed
      BY <2>4, <3>1 DEF Answers
    <3>3. ui'.rows = srv.log /\ Len(ui'.rows) = Len(ui.rows) + 1
      BY <1>2, <1>3, <3>1, <3>2, Appended DEF Mirrors
    <3>4. call.fetch = "copy" => call.copy = srv.log \/ Len(call.copy) < Len(ui'.rows)
      BY <1>2, <1>3, <3>1, <3>3 DEF Mirrors, Uncommitted
    <3>5. QED BY <2>2, <3>1, <3>2, <3>3, <3>4 DEF Mirrors, Submitting, Uncommitted, Talking
  <2>5. QED BY <2>1, <2>3, <2>4
<1>17. QED
  BY <1>6, <1>7, <1>8, <1>9, <1>10, <1>11, <1>12, <1>13, <1>14, <1>15, <1>16 DEF Next, Timers

\* The states of the screen: the first one, every step, a step of no action.
LEMMA ScreenInvInit ==
  ASSUME Init
  PROVE  ScreenInv
<1>1. Base /\ Recorded /\ Framing /\ Copied
  BY TypeInit, ControlInit, ShownInit, FramingInit, CopiedInit DEF Base
<1>2. ui.phase = "away" /\ srv.jobs = {} /\ call = NoCall
  BY DEF Init, FreshUi
<1>3. NoLonger /\ Faithful
  BY <1>2 DEF NoLonger, Faithful, Undisturbed, Mirrors, Talking, Submitting, Uncommitted, NoCall
<1>4. QED BY <1>1, <1>3 DEF ScreenInv

LEMMA ScreenInvStep ==
  ASSUME ScreenInv, [Next]_vars
  PROVE  ScreenInv'
<1>1. CASE Next
  <2>1. Base' /\ Recorded' /\ Framing' /\ Copied' /\ NoLonger'
    BY <1>1, TypeStep, ControlStep, ShownStep, RecordedStep, FramingStep, CopiedStep, NoLongerStep
       DEF ScreenInv, Base
  <2>2. Good' => Undisturbed'
    BY <1>1, UndisturbedStep
  <2>3. Good' /\ srv'.saved => Mirrors'
    <3>1. srv'.saved = srv.saved
      BY <1>1, LogMoves DEF ScreenInv
    <3>2. QED BY <1>1, <3>1, MirrorsStep
  <2>4. QED BY <2>1, <2>2, <2>3 DEF ScreenInv, Faithful
<1>2. CASE UNCHANGED vars
  BY <1>2 DEF vars, ScreenInv, Base, TypeOK, Control, Shown, NumberMatchesRows,
       AwaitingUntilReply, Recorded, Framing, Closed, FinalDue, Copied, NoLonger, Faithful, Good,
       Undisturbed, Mirrors, Submitting, Uncommitted, Talking, LastRound, Stored
<1>3. QED BY <1>1, <1>2

\* What holds in every state makes the view true.
LEMMA InvViewIsTrue ==
  ASSUME ScreenInv
  PROVE  ViewIsTrue
<1>1. TypeOK /\ Control /\ Shown
  BY DEF ScreenInv, Base
<1>2. InStep
  BY DEF ScreenInv, Faithful, Good, Mirrors, InStep, Talking
<1>3. AwaitingUntilReply /\ NumberMatchesRows
  BY <1>1 DEF Shown
<1>4. PartialReplyIsTransient
  BY DEF ScreenInv, Framing, FinalDue, PartialReplyIsTransient
<1>5. BusyIsExplained
  BY <1>1 DEF BusyIsExplained, Control, Mounted, Busy, Submitting, StartingShown, BubbleShown,
     TurnPanelShown, FinishingShown, AwaitingNpc, CanType, DebriefShown, WayBackShown, TypeOK, Phases
<1>6. QED BY <1>1, <1>2, <1>3, <1>4, <1>5 DEF ViewIsTrue

\* What the screen shows is so, in every state of every session: its rows are
\* the session's on a page that lost no call and no frame, the wait for a reply
\* and a half reply are shown while they are under way, and a closed composer is
\* explained (screens/Conversation.tsx).
THEOREM ScreenIsTrue == Spec => []ViewIsTrue
<1>1. Init => ScreenInv
  BY ScreenInvInit
<1>2. ScreenInv /\ [Next]_vars => ScreenInv'
  BY ScreenInvStep
<1>3. ScreenInv => ViewIsTrue
  BY InvViewIsTrue
<1>4. QED BY <1>1, <1>2, <1>3, PTL DEF Spec

-----------------------------------------------------------------------------
(***************************************************************************)
(* How turns end.                                                          *)
(***************************************************************************)
\* The verdict "took too long" is that of the last round.
LEMMA TimeoutIsGivingUp ==
  ASSUME Base, Next, ui'.err = "timeout", ui.err # "timeout"
  PROVE  GivesUp
<1>1. ui \in UiType
  BY Types DEF Base
<1>2. ~(Load \/ Leave)
  BY DEF Load, Leave, FreshUi
<1>3. ~(StartAnswered \/ Resumed)
  BY <1>1 DEF StartAnswered, Resumed, Hydrated, UiType
<1>4. ~(Submit \/ End \/ EndAnswered)
  BY <1>1 DEF Submit, End, EndAnswered, UiType
<1>5. ~Recv
  BY Received DEF Answers, Marks
<1>6. ~(SocketLost \/ SrvStart \/ SrvTranscript \/ SrvTake \/ SrvCommit \/ SrvFail \/ Delivered
         \/ CallLost \/ SrvEnd)
  BY DEF SocketLost, SrvStart, SrvTranscript, SrvTake, SrvCommit, SrvFail, Delivered, CallLost, SrvEnd
<1>7. Timers
  BY <1>2, <1>3, <1>4, <1>5, <1>6 DEF Next, Timers
<1>8. QED BY <1>7, TimerOutcomes DEF Closes, Lands, Adopts, Asks, Sleeps

\* A turn that timed out in the face of a copy that ought to have its rows had
\* none to lose.
LEMMA TimeoutStep ==
  ASSUME ScreenInv, Next, ui'.err = "timeout", ui.err # "timeout", call.fetch = "copy",
         ~hist.late, Stored
  PROVE  Has(ui'.rows, Player(turn.n))
<1>1. Base /\ Control /\ Shown /\ ui.num = Len(ui.rows)
  BY DEF ScreenInv, Base, Shown, NumberMatchesRows
<1>2. GivesUp
  BY <1>1, TimeoutIsGivingUp
<1>3. Submitting /\ LastRound /\ turn.n \in Turns
  BY <1>1, <1>2 DEF GivesUp, Over, Control
<1>4. turn.stage = "asked" /\ ~Ahead
  BY <1>1, <1>2, <1>3 DEF GivesUp, Control, Submitting
<1>5. Has(call.copy, Player(turn.n)) /\ Last(call.copy)[1] = "npc"
  BY <1>3, <1>4 DEF ScreenInv, Copied, Stored
<1>6. call.copy # <<>>
  BY <1>5, Few
<1>7. ui.committed
  BY <1>1, <1>3, <1>4, <1>5, <1>6 DEF ScreenInv, NoLonger, Ahead, Uncommitted
<1>8. QED BY <1>1, <1>2, <1>3, <1>7 DEF GivesUp, Shown

\* A turn of a good page that ends without an error ends on its reply.
LEMMA AnswerStep ==
  ASSUME ScreenInv, Next, Good, Submitting, ui'.phase \in {"active", "ended"}, ui'.err = "none"
  PROVE  Last(ui'.rows) = Npc(turn.n)
<1>1. Base /\ Control /\ Undisturbed /\ Recorded
  BY DEF ScreenInv, Base, Faithful
<1>2. ui.rows \in Seq(Rows) /\ turn.n \in Turns /\ Npc(turn.n) \in Rows
  BY <1>1, RowsOf DEF Base, TypeOK, Control
<1>3. ~(Load \/ Leave \/ StartAnswered \/ Resumed \/ Submit \/ End \/ EndAnswered)
  BY DEF Load, Leave, StartAnswered, Resumed, Submit, End, EndAnswered, FreshUi, CanType, CanEnd,
         Submitting
<1>4. ~(SocketLost \/ SrvStart \/ SrvTranscript \/ SrvTake \/ SrvCommit \/ SrvFail \/ Delivered
         \/ CallLost \/ SrvEnd)
  BY DEF SocketLost, SrvStart, SrvTranscript, SrvTake, SrvCommit, SrvFail, Delivered, CallLost, SrvEnd,
         Submitting
<1>5. ~Recv
  BY <1>1, Received DEF Answers, Marks, Submitting
<1>6. Timers
  BY <1>3, <1>4, <1>5 DEF Next, Timers
<1>7. Closes \/ Lands \/ Adopts
  BY <1>1, <1>6, TimerOutcomes DEF GivesUp, Asks, Sleeps, Submitting
<1>8. CASE Closes
  BY <1>1, <1>8 DEF Closes, Undisturbed
<1>9. CASE Lands
  BY <1>2, <1>9, Appended DEF Lands
<1>10. CASE Adopts
  <2>1. ui'.rows = Append(ui.rows, Npc(turn.n))
    BY <1>10, AheadHasReply DEF Adopts
  <2>2. QED BY <1>2, <2>1, Appended
<1>11. QED BY <1>7, <1>8, <1>9, <1>10

\* A page that shows the session as ended goes on showing it so, until it is left.
LEMMA EndedStep ==
  ASSUME Base, Next, ui.phase = "ended"
  PROVE  ui'.phase \in {"ended", "away"}
<1>1. ui \in UiType /\ Control /\ turn.stage = "idle"
  BY Types DEF Base, Control, Submitting, TypeOK
<1>2. ~(Load \/ StartAnswered \/ Resumed \/ Submit \/ End \/ EndAnswered)
  BY DEF Load, StartAnswered, Resumed, Submit, End, EndAnswered, CanType, CanEnd
<1>3. ~Timers
  BY <1>1 DEF Timers, Deadline, Wake, Polled, TurnAnswered
<1>4. CASE Leave
  BY <1>4 DEF Leave, FreshUi
<1>5. CASE Recv
  BY <1>5, Received DEF Answers, Marks
<1>6. CASE SocketLost \/ SrvStart \/ SrvTranscript \/ SrvTake \/ SrvCommit \/ SrvFail \/ Delivered
            \/ CallLost \/ SrvEnd
  BY <1>6 DEF SocketLost, SrvStart, SrvTranscript, SrvTake, SrvCommit, SrvFail, Delivered, CallLost,
       SrvEnd
<1>7. QED BY <1>2, <1>3, <1>4, <1>5, <1>6 DEF Next, Timers

\* A turn is given up only when the session does not hold it, ends on its own
\* reply when it ends well, and an ended session is never opened again
\* (handleSubmit and _adoptServerTurnAfterDeadline in screens/Conversation.tsx).
THEOREM TurnsEndTruly == Spec => TurnsEndRight
<1>1. Init => ScreenInv
  BY ScreenInvInit
<1>2. ScreenInv /\ [Next]_vars => ScreenInv'
  BY ScreenInvStep
<1>3. ASSUME ScreenInv, [Next]_vars
      PROVE  /\ [ui'.err = "timeout" /\ ui.err # "timeout" /\ call.fetch = "copy"
                   /\ ~hist.late /\ Player(turn.n) \in ToSet(srv.log)
                 => Player(turn.n) \in ToSet(ui'.rows)]_vars
             /\ [~hist.lost /\ ~hist.late /\ ui.phase = "submitting"
                   /\ ui'.phase \in {"active", "ended"} /\ ui'.err = "none"
                 => Last(ui'.rows) = Npc(turn.n)]_vars
             /\ [ui.phase = "ended" => ui'.phase \in {"ended", "away"}]_vars
  <2>1. CASE Next
    <3>1. ui'.err = "timeout" /\ ui.err # "timeout" /\ call.fetch = "copy"
            /\ ~hist.late /\ Player(turn.n) \in ToSet(srv.log)
          => Player(turn.n) \in ToSet(ui'.rows)
      BY <1>3, <2>1, TimeoutStep DEF Stored, Has
    <3>2. ~hist.lost /\ ~hist.late /\ ui.phase = "submitting"
            /\ ui'.phase \in {"active", "ended"} /\ ui'.err = "none"
          => Last(ui'.rows) = Npc(turn.n)
      BY <1>3, <2>1, AnswerStep DEF Good, Submitting
    <3>3. ui.phase = "ended" => ui'.phase \in {"ended", "away"}
      BY <1>3, <2>1, EndedStep DEF ScreenInv
    <3>4. QED BY <3>1, <3>2, <3>3
  <2>2. CASE UNCHANGED vars
    BY <2>2
  <2>3. QED BY <1>3, <2>1, <2>2
<1>4. QED
  BY <1>1, <1>2, <1>3, PTL DEF Spec, TurnsEndRight, TimeoutDropsNothing, AnswerIsOwn, EndedIsFinal

-----------------------------------------------------------------------------
(* The spoken replies *)

PageType == [mounted : BOOLEAN, bargeIn : BOOLEAN, barged : BOOLEAN,
             speech : {"none", "npc", "silence"}, wrong : BOOLEAN, hushed : BOOLEAN,
             crossed : BOOLEAN]
TtsType  == [queue : Nat, playing : Nat, hold : BOOLEAN, fades : Nat, sent : Nat, made : Nat]
Element  == [st : {"none", "loading", "playing", "over"}, advanced : BOOLEAN, reject : BOOLEAN]

Loud(a, i)  == a[i].st = "loading" \/ a[i].st = "playing"
Silence(a)  == \A i \in Voice!Ids : ~Loud(a, i)
Late(a, i)  == a[i].reject /\ ~a[i].advanced
Settles(a)  == \A i \in Voice!Ids : ~Late(a, i)

\* Every chunk played was sent, and one that was not made has no element.
Counted(t) == t.made + t.queue <= t.sent /\ t.sent <= Chunks /\ t.playing <= t.made
Made(t, a) ==
  \A i \in Voice!Ids : /\ t.made < i => a[i].st = "none"
                       /\ a[i].advanced \/ a[i].reject => a[i].st = "over"

\* As long as no element started into the late rejection of another, only the
\* element held can be heard, and none is held through a thinking pause or while
\* a rejection is under way; a barge-in that has faded, and a page left, are silent.
OneHeld ==
  /\ \A i \in Voice!Ids : Loud(audio, i) => i = tts.playing
  /\ tts.hold \/ ~Settles(audio) => tts.playing = 0
  /\ page.hushed => Silence(audio)
  /\ ~page.mounted => Silence(audio) /\ ~tts.hold

\* The flag of an interruption belongs to the recording that is open.
OwnFlag ==
  /\ ~page.wrong
  /\ page.barged => page.bargeIn /\ page.speech # "silence"

VoiceInv ==
  /\ page \in PageType /\ tts \in TtsType /\ audio \in [Voice!Ids -> Element]
  /\ Counted(tts) /\ Made(tts, audio)
  /\ ~page.crossed => OneHeld
  /\ OwnFlag

\* Before the first chunk nothing is heard and nothing is flagged.
LEMMA VoiceStarts == Voice!Init => VoiceInv
<1> SUFFICES ASSUME Voice!Init
             PROVE  VoiceInv
  OBVIOUS
<1>1. PICK b \in BOOLEAN :
        page = [mounted |-> TRUE, bargeIn |-> b, barged |-> FALSE,
                speech |-> "none", wrong |-> FALSE, hushed |-> FALSE, crossed |-> FALSE]
  BY DEF Voice!Init
<1>2. tts = [queue |-> 0, playing |-> 0, hold |-> FALSE, fades |-> 0, sent |-> 0, made |-> 0]
  BY DEF Voice!Init
<1>3. audio = [i \in Voice!Ids |-> [st |-> "none", advanced |-> FALSE, reject |-> FALSE]]
  BY DEF Voice!Init
<1>4. /\ audio \in [Voice!Ids -> Element]
      /\ \A i \in Voice!Ids : audio[i].st = "none" /\ ~audio[i].advanced /\ ~audio[i].reject
  BY <1>3 DEF Element
<1>5. page \in PageType /\ OwnFlag
  BY <1>1 DEF PageType, OwnFlag
<1>6. tts \in TtsType /\ Counted(tts)
  BY <1>2, ChunksAssumption DEF TtsType, Counted
<1>7. Made(tts, audio) /\ OneHeld
  BY <1>1, <1>2, <1>4 DEF Made, OneHeld, Loud, Silence, Settles, Late
<1> QED BY <1>4, <1>5, <1>6, <1>7 DEF VoiceInv

\* Taking the next chunk: with an empty queue nothing is held any more, otherwise
\* a new element loads and is held.
LEMMA NextChunk ==
  ASSUME NEW t \in TtsType, Counted(t), NEW a \in [Voice!Ids -> Element], Made(t, a),
         Voice!PlayNext(t, a)
  PROVE  /\ tts' \in TtsType /\ Counted(tts') /\ audio' \in [Voice!Ids -> Element]
         /\ Made(tts', audio')
         /\ tts'.hold = t.hold /\ tts'.fades = t.fades
         /\ \/ tts'.made = t.made /\ tts'.playing = 0 /\ audio' = a
            \/ /\ t.queue # 0 /\ tts'.made = t.made + 1 /\ tts'.playing = tts'.made
               /\ \A i \in Voice!Ids : i # tts'.made => audio'[i] = a[i]
               /\ ~audio'[tts'.made].reject
<1>1. CASE t.queue = 0
  <2>1. tts' = [t EXCEPT !.playing = 0] /\ audio' = a
    BY <1>1 DEF Voice!PlayNext
  <2>2. tts' \in TtsType /\ tts'.playing = 0 /\ tts'.made = t.made /\ tts'.queue = t.queue
        /\ tts'.sent = t.sent /\ tts'.hold = t.hold /\ tts'.fades = t.fades
    BY <2>1 DEF TtsType
  <2>3. Counted(tts') /\ Made(tts', audio')
    BY <2>1, <2>2 DEF Counted, Made, TtsType
  <2> QED BY <2>1, <2>2, <2>3
<1>2. CASE t.queue # 0
  <2> DEFINE id == t.made + 1
  <2>1. /\ tts' = [t EXCEPT !.queue = t.queue - 1, !.playing = id, !.made = id]
        /\ audio' = [a EXCEPT ![id].st = "loading"]
    BY <1>2 DEF Voice!PlayNext
  <2>2. t.queue \in Nat /\ t.made \in Nat /\ t.sent \in Nat /\ t.queue - 1 \in Nat
    BY <1>2 DEF TtsType
  <2>3. id \in Voice!Ids
    BY <2>2, <1>2, ChunksAssumption DEF Counted, Voice!Ids
  <2>4. id \in Nat
    BY <2>2
  <2>5. tts' \in TtsType /\ tts'.playing = id /\ tts'.made = id /\ tts'.queue = t.queue - 1
        /\ tts'.sent = t.sent /\ tts'.hold = t.hold /\ tts'.fades = t.fades
    <3> HIDE DEF id
    <3> QED BY <2>1, <2>2, <2>4 DEF TtsType
  <2>6. Counted(tts')
    BY <2>2, <2>5 DEF Counted
  <2>7. a[id].st = "none" /\ ~a[id].advanced /\ ~a[id].reject
    BY <2>2, <2>3 DEF Made, Element
  <2>8. /\ audio' \in [Voice!Ids -> Element]
        /\ audio'[id].st = "loading" /\ ~audio'[id].advanced /\ ~audio'[id].reject
        /\ \A i \in Voice!Ids : i # id => audio'[i] = a[i]
    <3> HIDE DEF id
    <3> QED BY <2>1, <2>3, <2>7 DEF Element
  <2>9. Made(tts', audio')
    <3>1. \A i \in Voice!Ids : i \in Nat
      BY ChunksAssumption DEF Voice!Ids
    <3>2. \A i \in Voice!Ids : id < i => t.made < i /\ i # id
      BY <2>2, <3>1
    <3> HIDE DEF id
    <3> QED BY <2>5, <2>8, <3>2 DEF Made
  <2> QED BY <1>2, <2>5, <2>6, <2>8, <2>9
<1> QED BY <1>1, <1>2

\* Pausing an element silences it and no other, and makes a rejection late at most.
LEMMA Pauses ==
  ASSUME NEW a \in [Voice!Ids -> Element], Made(tts, a), NEW id \in Nat
  PROVE  LET b == Voice!Paused(a, id) IN
         /\ b \in [Voice!Ids -> Element] /\ Made(tts, b)
         /\ \A i \in Voice!Ids : Loud(b, i) => Loud(a, i) /\ i # id
<1>1. CASE id = 0 \/ a[id].st \notin {"loading", "playing"}
  <2>1. Voice!Paused(a, id) = a
    BY <1>1 DEF Voice!Paused
  <2>2. 0 \notin Voice!Ids
    BY ChunksAssumption DEF Voice!Ids
  <2> QED BY <1>1, <2>1, <2>2 DEF Loud
<1>2. CASE ~(id = 0 \/ a[id].st \notin {"loading", "playing"})
  <2> DEFINE b == Voice!Paused(a, id)
  <2>1. b = [a EXCEPT ![id].st = "over", ![id].reject = a[id].reject \/ a[id].st = "loading"]
    BY <1>2 DEF Voice!Paused
  <2>2. CASE id \in Voice!Ids
    <3>1. /\ b \in [Voice!Ids -> Element] /\ b[id].st = "over"
          /\ \A i \in Voice!Ids : i # id => b[i] = a[i]
      BY <1>2, <2>2 DEF Voice!Paused, Element
    <3>2. ~(tts.made < id)
      BY <1>2, <2>2 DEF Made
    <3> HIDE DEF b
    <3>3. Made(tts, b) /\ \A i \in Voice!Ids : Loud(b, i) => Loud(a, i) /\ i # id
      BY <3>1, <3>2 DEF Made, Loud
    <3> QED BY <3>1, <3>3 DEF b
  <2>3. CASE id \notin Voice!Ids
    <3>1. b = a
      BY <2>1, <2>3
    <3> HIDE DEF b
    <3>2. /\ b \in [Voice!Ids -> Element] /\ Made(tts, b)
          /\ \A i \in Voice!Ids : Loud(b, i) => Loud(a, i) /\ i # id
      BY <2>3, <3>1
    <3> QED BY <3>2 DEF b
  <2> QED BY <2>2, <2>3
<1> QED BY <1>1, <1>2

\* The page around the next chunk: a new one ends the hush of a barge-in, and
\* marks the crossing if a rejection is still under way.
LEMMA StartedPage ==
  ASSUME page \in PageType, Voice!Started
  PROVE  /\ page' \in PageType
         /\ page'.mounted = page.mounted /\ page'.bargeIn = page.bargeIn
         /\ page'.barged = page.barged /\ page'.speech = page.speech /\ page'.wrong = page.wrong
         /\ ~page'.crossed => /\ ~page.crossed
                              /\ tts'.made > tts.made => Settles(audio)
         /\ page'.hushed => page.hushed /\ tts'.made = tts.made
<1>1. PICK c \in BOOLEAN : c <=> page.crossed \/ (tts'.made > tts.made /\ Voice!Crossing)
  OBVIOUS
<1>2. PICK h \in BOOLEAN : h <=> page.hushed /\ tts'.made = tts.made
  OBVIOUS
<1>3. page' = [page EXCEPT !.crossed = c, !.hushed = h]
  BY <1>1, <1>2 DEF Voice!Started, PageType
<1>4. Voice!Crossing <=> ~Settles(audio)
  BY DEF Voice!Crossing, Settles, Late
<1> QED BY <1>1, <1>2, <1>3, <1>4 DEF PageType

\* Whatever moves the queue - a chunk that arrives, a pause that is over, an element
\* that ends, fails or is rejected - keeps the invariant, if all is silent by then
\* or two elements have crossed already.
LEMMA QueueMoves ==
  ASSUME VoiceInv, NEW t \in TtsType, Counted(t), t.made = tts.made,
         NEW a \in [Voice!Ids -> Element], Made(t, a),
         Voice!PlayNext(t, a), Voice!Started,
         ~page.crossed => /\ Silence(a)
                          /\ t.hold => ~Settles(audio)
                          /\ ~page.mounted => ~t.hold /\ ~Settles(audio),
         ~Settles(a) => ~Settles(audio)
  PROVE  VoiceInv'
<1>1. /\ tts' \in TtsType /\ Counted(tts') /\ audio' \in [Voice!Ids -> Element]
      /\ Made(tts', audio') /\ tts'.hold = t.hold
      /\ \/ tts'.made = t.made /\ tts'.playing = 0 /\ audio' = a
         \/ /\ t.queue # 0 /\ tts'.made = t.made + 1 /\ tts'.playing = tts'.made
            /\ \A i \in Voice!Ids : i # tts'.made => audio'[i] = a[i]
            /\ ~audio'[tts'.made].reject
  BY NextChunk
<1>2. /\ page' \in PageType
      /\ page'.mounted = page.mounted /\ page'.bargeIn = page.bargeIn
      /\ page'.barged = page.barged /\ page'.speech = page.speech /\ page'.wrong = page.wrong
      /\ ~page'.crossed => /\ ~page.crossed
                           /\ tts'.made > tts.made => Settles(audio)
      /\ page'.hushed => page.hushed /\ tts'.made = tts.made
  BY StartedPage DEF VoiceInv
<1>3. OwnFlag'
  BY <1>2 DEF VoiceInv, OwnFlag
<1>4. ASSUME ~page'.crossed
      PROVE  OneHeld'
  <2>1. tts.made \in Nat
    BY DEF VoiceInv, TtsType
  <2>2. CASE tts'.made = t.made /\ tts'.playing = 0 /\ audio' = a
    <3>1. Silence(audio')
      BY <1>2, <1>4, <2>2
    <3> QED BY <1>1, <1>2, <1>4, <2>2, <3>1 DEF OneHeld, Silence
  <2>3. CASE /\ t.queue # 0 /\ tts'.made = t.made + 1 /\ tts'.playing = tts'.made
             /\ \A i \in Voice!Ids : i # tts'.made => audio'[i] = a[i]
             /\ ~audio'[tts'.made].reject
    <3>1. Settles(audio) /\ Silence(a) /\ ~t.hold /\ page.mounted
      BY <1>2, <1>4, <2>1, <2>3 DEF VoiceInv, PageType
    <3>2. Settles(a)
      BY <3>1
    <3>3. Settles(audio')
      BY <2>3, <3>2 DEF Settles, Late
    <3>4. \A i \in Voice!Ids : Loud(audio', i) => i = tts'.playing
      BY <2>3, <3>1 DEF Silence, Loud
    <3>5. ~page'.hushed
      BY <1>2, <2>1, <2>3
    <3> QED BY <1>1, <1>2, <3>1, <3>3, <3>4, <3>5 DEF OneHeld
  <2> QED BY <1>1, <2>2, <2>3
<1> QED BY <1>1, <1>2, <1>3, <1>4 DEF VoiceInv

\* A chunk that arrives is queued; it plays at once only if nothing is held.
LEMMA ChunkStep == VoiceInv /\ Voice!Chunk => VoiceInv'
<1> SUFFICES ASSUME VoiceInv, Voice!Chunk
             PROVE  VoiceInv'
  OBVIOUS
<1> DEFINE t == [tts EXCEPT !.queue = @ + 1, !.sent = @ + 1]
<1>1. /\ t \in TtsType /\ t.made = tts.made /\ t.playing = tts.playing /\ t.hold = tts.hold
      /\ t.queue = tts.queue + 1 /\ t.sent = tts.sent + 1
  <2>1. PICK q \in Nat, n \in Nat : q = tts.queue + 1 /\ n = tts.sent + 1
    BY DEF VoiceInv, TtsType
  <2>2. t = [tts EXCEPT !.queue = q, !.sent = n]
    BY <2>1
  <2>3. tts \in TtsType
    BY DEF VoiceInv
  <2> HIDE DEF t
  <2> QED BY <2>1, <2>2, <2>3 DEF TtsType
<1>2. Counted(t) /\ Made(t, audio)
  <2>1. tts.sent < Chunks /\ tts.sent \in Nat /\ tts.queue \in Nat /\ tts.made \in Nat
    BY DEF Voice!Chunk, VoiceInv, TtsType
  <2> HIDE DEF t
  <2> QED BY <1>1, <2>1, ChunksAssumption DEF VoiceInv, Counted, Made
<1>3. CASE tts.playing = 0 /\ ~tts.hold
  <2>1. CASE tts' = [t EXCEPT !.hold = TRUE] /\ UNCHANGED audio
    <3>1. /\ tts' \in TtsType /\ tts'.made = tts.made /\ tts'.playing = 0
          /\ tts'.queue = t.queue /\ tts'.sent = t.sent
      BY <1>1, <1>3, <2>1 DEF TtsType
    <3>2. Counted(tts') /\ Made(tts', audio')
      BY <1>1, <1>2, <1>3, <2>1, <3>1 DEF Counted, Made
    <3>3. /\ page' \in PageType
          /\ page'.mounted = page.mounted /\ page'.bargeIn = page.bargeIn
          /\ page'.barged = page.barged /\ page'.speech = page.speech /\ page'.wrong = page.wrong
          /\ ~page'.crossed => ~page.crossed
          /\ page'.hushed => page.hushed
      BY StartedPage DEF VoiceInv, Voice!Chunk
    <3>4. page.mounted
      BY DEF Voice!Chunk
    <3>5. ~page'.crossed => OneHeld'
      BY <1>3, <2>1, <3>1, <3>3, <3>4 DEF VoiceInv, OneHeld, Silence, Settles, Late, Loud
    <3> QED BY <2>1, <3>1, <3>2, <3>3, <3>5 DEF VoiceInv, OwnFlag
  <2>2. CASE Voice!PlayNext(t, audio)
    <3>1. ~page.crossed => Silence(audio)
      <4>1. 0 \notin Voice!Ids
        BY ChunksAssumption DEF Voice!Ids
      <4> QED BY <1>3, <4>1 DEF VoiceInv, OneHeld, Silence
    <3>2. page.mounted /\ Voice!Started /\ ~t.hold
      BY <1>1, <1>3 DEF Voice!Chunk
    <3>3. audio \in [Voice!Ids -> Element]
      BY DEF VoiceInv
    <3> HIDE DEF t
    <3> QED BY <1>1, <1>2, <2>2, <3>1, <3>2, <3>3, QueueMoves
  <2> QED BY <1>3, <2>1, <2>2 DEF Voice!Chunk
<1>4. CASE ~(tts.playing = 0 /\ ~tts.hold)
  <2>1. tts' = t /\ UNCHANGED audio /\ page.mounted
    BY <1>4 DEF Voice!Chunk
  <2>2. /\ page' \in PageType
        /\ page'.mounted = page.mounted /\ page'.bargeIn = page.bargeIn
        /\ page'.barged = page.barged /\ page'.speech = page.speech /\ page'.wrong = page.wrong
        /\ ~page'.crossed => ~page.crossed
        /\ page'.hushed => page.hushed
    BY StartedPage DEF VoiceInv, Voice!Chunk
  <2> HIDE DEF t
  <2>3. ~page'.crossed => OneHeld'
    BY <1>1, <2>1, <2>2 DEF VoiceInv, OneHeld, Silence, Settles, Late, Loud
  <2> QED BY <1>1, <1>2, <2>1, <2>2, <2>3 DEF VoiceInv, OwnFlag
<1> QED BY <1>3, <1>4

\* The thinking pause is over: the queue moves, with nothing held.
LEMMA HoldStep == VoiceInv /\ Voice!HoldOver => VoiceInv'
<1> SUFFICES ASSUME VoiceInv, Voice!HoldOver
             PROVE  VoiceInv'
  OBVIOUS
<1> DEFINE t == [tts EXCEPT !.hold = FALSE]
<1>1. tts \in TtsType
  BY DEF VoiceInv
<1>2. /\ t \in TtsType /\ ~t.hold /\ t.made = tts.made /\ t.playing = tts.playing
      /\ t.queue = tts.queue /\ t.sent = tts.sent
  BY <1>1 DEF TtsType
<1>3. Voice!PlayNext(t, audio) /\ Voice!Started /\ tts.hold
  BY DEF Voice!HoldOver
<1> HIDE DEF t
<1>4. Counted(t) /\ Made(t, audio) /\ audio \in [Voice!Ids -> Element]
  BY <1>2 DEF VoiceInv, Counted, Made
<1>5. ~page.crossed => Silence(audio) /\ page.mounted
  <2>1. 0 \notin Voice!Ids
    BY ChunksAssumption DEF Voice!Ids
  <2> QED BY <1>3, <2>1 DEF VoiceInv, OneHeld, Silence
<1> QED BY <1>2, <1>3, <1>4, <1>5, QueueMoves

\* An element that ends, fails or is rejected moves the queue once; the rejection
\* of one that has moved it already is forgotten.
LEMMA ElementMoves ==
  ASSUME VoiceInv, NEW i \in Voice!Ids, NEW e \in Element, e.st = "over",
         \/ Loud(audio, i) /\ ~e.advanced
         \/ audio[i].reject /\ e.advanced = audio[i].advanced /\ ~e.reject,
         Voice!Advance(i, [audio EXCEPT ![i] = e]), Voice!Started
  PROVE  VoiceInv'
<1>1. /\ page \in PageType /\ tts \in TtsType /\ audio \in [Voice!Ids -> Element]
      /\ Counted(tts) /\ Made(tts, audio)
  BY DEF VoiceInv
<1> DEFINE a == [audio EXCEPT ![i] = e]
           b == [a EXCEPT ![i].advanced = TRUE]
<1>2. /\ a \in [Voice!Ids -> Element] /\ a[i] = e
      /\ \A k \in Voice!Ids : k # i => a[k] = audio[k]
  BY <1>1
<1>3. ~(tts.made < i)
  BY <1>1 DEF Made, Loud, Element
<1>6. IF a[i].advanced THEN audio' = a /\ UNCHANGED tts ELSE Voice!PlayNext(tts, b)
  BY DEF Voice!Advance
<1>4. CASE e.advanced
  <2>1. audio' = a /\ UNCHANGED tts
    BY <1>2, <1>4, <1>6
  <2> HIDE DEF a, b
  <2>2. audio[i].reject /\ audio[i].advanced /\ audio[i].st = "over"
    BY <1>1, <1>4 DEF Made
  <2>3. Made(tts', audio')
    BY <1>1, <1>2, <1>3, <2>1 DEF Made
  <2>4. /\ page' \in PageType
        /\ page'.mounted = page.mounted /\ page'.bargeIn = page.bargeIn
        /\ page'.barged = page.barged /\ page'.speech = page.speech /\ page'.wrong = page.wrong
        /\ ~page'.crossed => ~page.crossed
        /\ page'.hushed => page.hushed
    BY <1>1, StartedPage
  <2>5. /\ \A k \in Voice!Ids : Loud(a, k) => Loud(audio, k)
        /\ \A k \in Voice!Ids : Late(a, k) => Late(audio, k)
    BY <1>2, <1>4 DEF Loud, Late
  <2>6. ~page'.crossed => OneHeld'
    BY <2>1, <2>4, <2>5 DEF VoiceInv, OneHeld, Silence, Settles
  <2> QED BY <1>1, <1>2, <2>1, <2>3, <2>4, <2>6 DEF VoiceInv, OwnFlag
<1>5. CASE ~e.advanced
  <2>2. Voice!PlayNext(tts, b)
    BY <1>2, <1>5, <1>6
  <2> HIDE DEF a
  <2>1. /\ b \in [Voice!Ids -> Element]
        /\ b[i].st = "over" /\ b[i].advanced
        /\ \A k \in Voice!Ids : k # i => b[k] = audio[k]
    BY <1>2 DEF Element
  <2> HIDE DEF b
  <2>3. Made(tts, b)
    BY <1>1, <1>3, <2>1 DEF Made
  <2>4. \A k \in Voice!Ids : /\ Loud(b, k) => Loud(audio, k) /\ k # i
                             /\ Late(b, k) => Late(audio, k)
    BY <2>1 DEF Loud, Late
  <2>5. ~page.crossed => /\ Silence(b)
                         /\ tts.hold => ~Settles(audio)
                         /\ ~page.mounted => ~tts.hold /\ ~Settles(audio)
    <3> SUFFICES ASSUME ~page.crossed
                 PROVE  /\ Silence(b)
                        /\ tts.hold => ~Settles(audio)
                        /\ ~page.mounted => ~tts.hold /\ ~Settles(audio)
      OBVIOUS
    <3>1. 0 \notin Voice!Ids
      BY ChunksAssumption DEF Voice!Ids
    <3>4. /\ \A k \in Voice!Ids : Loud(audio, k) => k = tts.playing
          /\ tts.hold \/ ~Settles(audio) => tts.playing = 0
          /\ ~page.mounted => Silence(audio) /\ ~tts.hold
      BY DEF VoiceInv, OneHeld
    <3>2. CASE Loud(audio, i)
      BY <2>4, <3>1, <3>2, <3>4 DEF Silence
    <3>3. CASE ~Loud(audio, i)
      <4>1. ~Settles(audio)
        BY <1>5, <3>3 DEF Settles, Late
      <4> QED BY <2>4, <3>1, <3>4, <4>1 DEF Silence
    <3> QED BY <3>2, <3>3
  <2>6. ~Settles(b) => ~Settles(audio)
    BY <2>4 DEF Settles
  <2> QED BY <1>1, <2>1, <2>2, <2>3, <2>5, <2>6, QueueMoves
<1> QED BY <1>4, <1>5

\* The four events of an element.
LEMMA ElementStep == VoiceInv /\ (Voice!Loads \/ Voice!Plays \/ Voice!Fails \/ Voice!Rejects) => VoiceInv'
<1> SUFFICES ASSUME VoiceInv, Voice!Loads \/ Voice!Plays \/ Voice!Fails \/ Voice!Rejects
             PROVE  VoiceInv'
  OBVIOUS
<1>1. /\ page \in PageType /\ tts \in TtsType /\ audio \in [Voice!Ids -> Element]
      /\ Counted(tts) /\ Made(tts, audio)
  BY DEF VoiceInv
<1>2. CASE Voice!Loads
  <2>1. PICK i \in Voice!Ids : /\ audio[i].st = "loading"
                               /\ audio' = [audio EXCEPT ![i].st = "playing"]
                               /\ UNCHANGED <<page, tts>>
    BY <1>2 DEF Voice!Loads
  <2>2. /\ audio' \in [Voice!Ids -> Element]
        /\ audio'[i].st = "playing" /\ audio'[i].advanced = audio[i].advanced
        /\ audio'[i].reject = audio[i].reject
        /\ \A k \in Voice!Ids : k # i => audio'[k] = audio[k]
    BY <1>1, <2>1 DEF Element
  <2>3. ~(tts.made < i) /\ ~audio[i].advanced /\ ~audio[i].reject
    BY <1>1, <2>1 DEF Made
  <2>4. Made(tts', audio')
    BY <1>1, <2>1, <2>2, <2>3 DEF Made
  <2>5. /\ \A k \in Voice!Ids : Loud(audio', k) => Loud(audio, k)
        /\ \A k \in Voice!Ids : Late(audio', k) => Late(audio, k)
    BY <2>1, <2>2 DEF Loud, Late
  <2>6. ~page'.crossed => OneHeld'
    BY <2>1, <2>5 DEF VoiceInv, OneHeld, Silence, Settles
  <2> QED BY <1>1, <2>1, <2>2, <2>4, <2>6 DEF VoiceInv, OwnFlag
<1>3. CASE Voice!Plays
  <2>1. PICK i \in Voice!Ids : /\ audio[i].st = "playing"
                               /\ Voice!Advance(i, [audio EXCEPT ![i].st = "over"]) /\ Voice!Started
    BY <1>3 DEF Voice!Plays
  <2> DEFINE e == [audio[i] EXCEPT !.st = "over"]
  <2>2. e \in Element /\ e.st = "over" /\ e.advanced = audio[i].advanced
    BY <1>1 DEF Element
  <2>3. [audio EXCEPT ![i].st = "over"] = [audio EXCEPT ![i] = e]
    OBVIOUS
  <2> HIDE DEF e
  <2>4. Voice!Advance(i, [audio EXCEPT ![i] = e])
    BY <2>1, <2>3
  <2>5. ~audio[i].advanced
    BY <1>1, <2>1 DEF Made
  <2> QED BY <2>1, <2>2, <2>4, <2>5, ElementMoves DEF Loud
<1>4. CASE Voice!Fails
  <2>1. PICK i \in Voice!Ids :
          /\ audio[i].st = "loading"
          /\ Voice!Advance(i, [audio EXCEPT ![i].st = "over", ![i].reject = TRUE]) /\ Voice!Started
    BY <1>4 DEF Voice!Fails
  <2> DEFINE e == [audio[i] EXCEPT !.st = "over", !.reject = TRUE]
  <2>2. e \in Element /\ e.st = "over" /\ e.advanced = audio[i].advanced
    BY <1>1 DEF Element
  <2>3. [audio EXCEPT ![i].st = "over", ![i].reject = TRUE] = [audio EXCEPT ![i] = e]
    OBVIOUS
  <2> HIDE DEF e
  <2>4. Voice!Advance(i, [audio EXCEPT ![i] = e])
    BY <2>1, <2>3
  <2>5. ~audio[i].advanced
    BY <1>1, <2>1 DEF Made
  <2> QED BY <2>1, <2>2, <2>4, <2>5, ElementMoves DEF Loud
<1>5. CASE Voice!Rejects
  <2>1. PICK i \in Voice!Ids :
          /\ audio[i].reject
          /\ Voice!Advance(i, [audio EXCEPT ![i].reject = FALSE]) /\ Voice!Started
    BY <1>5 DEF Voice!Rejects
  <2> DEFINE e == [audio[i] EXCEPT !.reject = FALSE]
  <2>2. e \in Element /\ e.st = audio[i].st /\ e.advanced = audio[i].advanced /\ ~e.reject
    BY <1>1 DEF Element
  <2>3. [audio EXCEPT ![i].reject = FALSE] = [audio EXCEPT ![i] = e]
    OBVIOUS
  <2> HIDE DEF e
  <2>4. Voice!Advance(i, [audio EXCEPT ![i] = e])
    BY <2>1, <2>3
  <2>5. e.st = "over"
    BY <1>1, <2>1, <2>2 DEF Made
  <2> QED BY <2>1, <2>2, <2>4, <2>5, ElementMoves
<1> QED BY <1>2, <1>3, <1>4, <1>5

\* The element held falls silent and nothing is queued: the end of a fade, a turn
\* sent or the page left.
LEMMA Hushes ==
  ASSUME VoiceInv, tts' \in TtsType, Counted(tts'), tts'.made = tts.made, tts'.playing = 0,
         tts'.hold => tts.hold, audio' = Voice!Paused(audio, tts.playing),
         page' \in PageType, page'.crossed = page.crossed,
         ~page.crossed /\ ~page'.mounted => ~tts'.hold,
         OwnFlag'
  PROVE  VoiceInv'
<1>1. /\ tts \in TtsType /\ audio \in [Voice!Ids -> Element] /\ Made(tts, audio)
  BY DEF VoiceInv
<1>2. tts.playing \in Nat
  BY <1>1 DEF TtsType
<1>3. /\ audio' \in [Voice!Ids -> Element] /\ Made(tts, audio')
      /\ \A i \in Voice!Ids : Loud(audio', i) => Loud(audio, i) /\ i # tts.playing
  BY <1>1, <1>2, Pauses
<1>4. Made(tts', audio')
  BY <1>3 DEF Made
<1>5. ~page'.crossed => OneHeld'
  BY <1>3 DEF VoiceInv, OneHeld, Silence
<1> QED BY <1>3, <1>4, <1>5 DEF VoiceInv

\* What the player does - record, discard, send, leave - and the end of a fade keep
\* the invariant: whoever may be heard no longer is paused.
LEMMA PlayerStep ==
  VoiceInv /\ (\/ Voice!RecordStart \/ Voice!FadeOver \/ Voice!Discard
               \/ Voice!SubmitSpoken \/ Voice!SubmitTyped \/ Voice!Leave) => VoiceInv'
<1> SUFFICES ASSUME VoiceInv,
                    \/ Voice!RecordStart \/ Voice!FadeOver \/ Voice!Discard
                    \/ Voice!SubmitSpoken \/ Voice!SubmitTyped \/ Voice!Leave
             PROVE  VoiceInv'
  OBVIOUS
<1>1. /\ page \in PageType /\ tts \in TtsType /\ audio \in [Voice!Ids -> Element]
      /\ Counted(tts) /\ Made(tts, audio) /\ OwnFlag
  BY DEF VoiceInv
<1>2. CASE Voice!RecordStart
  <2>1. page.mounted /\ UNCHANGED audio
    BY <1>2 DEF Voice!RecordStart, Voice!BargeIn
  <2>2. CASE ~page.bargeIn
    <3>1. page' = [page EXCEPT !.speech = "silence"] /\ UNCHANGED <<tts, audio>>
      BY <1>2, <2>2 DEF Voice!RecordStart, Voice!BargeIn
    <3>2. /\ page' \in PageType /\ page'.mounted = page.mounted /\ page'.bargeIn = page.bargeIn
          /\ page'.barged = page.barged /\ page'.wrong = page.wrong
          /\ page'.hushed = page.hushed /\ page'.crossed = page.crossed
      BY <1>1, <3>1 DEF PageType
    <3>3. OwnFlag'
      BY <1>1, <2>2, <3>2 DEF OwnFlag
    <3> QED BY <1>1, <3>1, <3>2, <3>3 DEF VoiceInv, OneHeld, Silence, Settles, Late, Loud
  <2>3. CASE page.bargeIn
    <3>1. PICK over \in BOOLEAN, hush \in BOOLEAN :
            /\ over <=> Voice!TtsActive
            /\ hush <=> Voice!TtsActive /\ tts.playing = 0
      OBVIOUS
    <3>2. PICK who \in {"npc", "silence"} : who = (IF Voice!TtsActive THEN "npc" ELSE "silence")
      OBVIOUS
    <3>3. page' = [page EXCEPT !.barged = over, !.speech = who, !.hushed = hush]
      <4>1. page' = [page EXCEPT !.barged = Voice!TtsActive,
                                 !.speech = IF Voice!TtsActive THEN "npc" ELSE "silence",
                                 !.hushed = Voice!TtsActive /\ tts.playing = 0]
        BY <1>2, <2>3 DEF Voice!RecordStart, Voice!BargeIn
      <4> QED BY <3>1, <3>2, <4>1 DEF Voice!TtsActive
    <3>4. /\ page' \in PageType /\ page'.mounted /\ page'.bargeIn
          /\ page'.barged = over /\ page'.wrong = page.wrong /\ page'.speech = who
          /\ page'.hushed = hush /\ page'.crossed = page.crossed
      BY <1>1, <2>1, <2>3, <3>3 DEF PageType
    <3>5. OwnFlag'
      BY <1>1, <3>1, <3>2, <3>4 DEF OwnFlag
    <3>6. tts' = IF ~Voice!TtsActive THEN tts
                 ELSE IF tts.playing = 0 THEN [tts EXCEPT !.queue = 0]
                 ELSE [tts EXCEPT !.fades = @ + 1]
      BY <1>2, <2>3 DEF Voice!RecordStart, Voice!BargeIn
    <3>7. /\ tts' \in TtsType /\ tts'.made = tts.made /\ tts'.playing = tts.playing
          /\ tts'.hold = tts.hold /\ tts'.sent = tts.sent /\ tts'.queue \in {0, tts.queue}
      <4>1. CASE tts' = tts
        BY <1>1, <4>1 DEF TtsType
      <4>2. CASE tts' = [tts EXCEPT !.queue = 0]
        BY <1>1, <4>2 DEF TtsType
      <4>3. CASE tts' = [tts EXCEPT !.fades = @ + 1]
        <5>1. PICK f \in Nat : f = tts.fades + 1
          BY <1>1 DEF TtsType
        <5>2. tts' = [tts EXCEPT !.fades = f]
          BY <4>3, <5>1
        <5> QED BY <1>1, <5>2 DEF TtsType
      <4> QED BY <3>6, <4>1, <4>2, <4>3
    <3>8. Counted(tts') /\ Made(tts', audio')
      BY <1>1, <2>1, <3>7 DEF Counted, Made, TtsType
    <3>9. ~page'.crossed => OneHeld'
      <4> SUFFICES ASSUME ~page'.crossed
                   PROVE  OneHeld'
        OBVIOUS
      <4>1. OneHeld /\ audio' = audio
        BY <2>1, <3>4 DEF VoiceInv
      <4>2. 0 \notin Voice!Ids
        BY ChunksAssumption DEF Voice!Ids
      <4>3. hush => Silence(audio)
        BY <3>1, <4>1, <4>2 DEF OneHeld, Silence
      <4> QED BY <3>4, <3>7, <4>1, <4>3 DEF OneHeld
    <3> QED BY <1>1, <2>1, <3>4, <3>5, <3>7, <3>8, <3>9 DEF VoiceInv
  <2> QED BY <2>2, <2>3
<1>3. CASE Voice!FadeOver
  <2>1. PICK f \in Nat : f = tts.fades - 1
    BY <1>1, <1>3 DEF Voice!FadeOver, TtsType
  <2>2. /\ tts' = [tts EXCEPT !.fades = f, !.playing = 0, !.queue = 0]
        /\ audio' = Voice!Paused(audio, tts.playing)
    BY <1>3, <2>1 DEF Voice!FadeOver
  <2>3. /\ tts' \in TtsType /\ tts'.made = tts.made /\ tts'.playing = 0 /\ tts'.queue = 0
        /\ tts'.sent = tts.sent /\ tts'.hold = tts.hold
    BY <1>1, <2>2 DEF TtsType
  <2>4. PICK h \in BOOLEAN : h <=> page.speech # "none"
    OBVIOUS
  <2>5. page' = [page EXCEPT !.hushed = h]
    BY <1>3, <2>4 DEF Voice!FadeOver
  <2>6. /\ page' \in PageType /\ page'.mounted = page.mounted /\ page'.bargeIn = page.bargeIn
        /\ page'.barged = page.barged /\ page'.wrong = page.wrong /\ page'.speech = page.speech
        /\ page'.crossed = page.crossed /\ page'.hushed = h
    BY <1>1, <2>5 DEF PageType
  <2>7. ~page.crossed /\ ~page'.mounted => ~tts'.hold
    BY <2>3, <2>6 DEF VoiceInv, OneHeld
  <2>8. Counted(tts')
    BY <1>1, <2>3 DEF Counted, TtsType
  <2>9. OwnFlag'
    BY <1>1, <2>6 DEF OwnFlag
  <2> QED BY <2>2, <2>3, <2>6, <2>7, <2>8, <2>9, Hushes
<1>4. CASE Voice!Discard
  <2>1. page' = [page EXCEPT !.speech = "none", !.hushed = FALSE] /\ UNCHANGED <<tts, audio>>
    BY <1>4 DEF Voice!Discard
  <2>2. /\ page' \in PageType /\ page'.mounted = page.mounted /\ page'.bargeIn = page.bargeIn
        /\ page'.barged = page.barged /\ page'.wrong = page.wrong /\ page'.speech = "none"
        /\ page'.crossed = page.crossed /\ ~page'.hushed
    BY <1>1, <2>1 DEF PageType
  <2>3. ~page'.crossed => OneHeld'
    BY <2>1, <2>2 DEF VoiceInv, OneHeld, Silence, Settles, Late, Loud
  <2> QED BY <1>1, <2>1, <2>2, <2>3 DEF VoiceInv, OwnFlag
<1>5. ASSUME tts' = Voice!Stopped(tts)
      PROVE  /\ tts' \in TtsType /\ tts'.made = tts.made /\ tts'.playing = 0 /\ ~tts'.hold
             /\ Counted(tts')
  <2>1. /\ tts' \in TtsType /\ tts'.made = tts.made /\ tts'.playing = 0 /\ ~tts'.hold
        /\ tts'.queue = 0 /\ tts'.sent = tts.sent
    BY <1>1, <1>5 DEF Voice!Stopped, TtsType
  <2> QED BY <1>1, <2>1 DEF Counted, TtsType
<1>6. CASE Voice!SubmitSpoken
  <2>1. tts' = Voice!Stopped(tts) /\ audio' = Voice!Paused(audio, tts.playing)
    BY <1>6 DEF Voice!SubmitSpoken
  <2>2. PICK w \in BOOLEAN : w <=> page.wrong \/ (page.barged /\ page.speech # "npc")
    OBVIOUS
  <2>3. page' = [page EXCEPT !.barged = FALSE, !.speech = "none", !.hushed = FALSE, !.wrong = w]
    BY <1>1, <1>6, <2>2 DEF Voice!SubmitSpoken, PageType
  <2>4. ~w
    BY <1>1, <1>6, <2>2 DEF Voice!SubmitSpoken, OwnFlag, PageType
  <2>5. page' \in PageType /\ page'.crossed = page.crossed /\ OwnFlag'
    BY <1>1, <2>3, <2>4 DEF PageType, OwnFlag
  <2> QED BY <1>5, <2>1, <2>5, Hushes
<1>7. CASE Voice!SubmitTyped
  <2>1. tts' = Voice!Stopped(tts) /\ audio' = Voice!Paused(audio, tts.playing)
    BY <1>7 DEF Voice!SubmitTyped
  <2>2. page' = [page EXCEPT !.barged = FALSE]
    BY <1>7 DEF Voice!SubmitTyped
  <2>3. page' \in PageType /\ page'.crossed = page.crossed /\ OwnFlag'
    BY <1>1, <2>2 DEF PageType, OwnFlag
  <2> QED BY <1>5, <2>1, <2>3, Hushes
<1>8. CASE Voice!Leave
  <2>1. tts' = Voice!Stopped(tts) /\ audio' = Voice!Paused(audio, tts.playing)
    BY <1>8 DEF Voice!Leave
  <2>2. page' = [page EXCEPT !.mounted = FALSE, !.hushed = FALSE]
    BY <1>8 DEF Voice!Leave
  <2>3. page' \in PageType /\ page'.crossed = page.crossed /\ OwnFlag'
    BY <1>1, <2>2 DEF PageType, OwnFlag
  <2> QED BY <1>5, <2>1, <2>3, Hushes
<1> QED BY <1>2, <1>3, <1>4, <1>6, <1>7, <1>8

\* Every step of the spoken replies keeps the invariant.
LEMMA VoiceSteps == VoiceInv /\ [Voice!Next]_(Voice!vars) => VoiceInv'
<1> SUFFICES ASSUME VoiceInv, [Voice!Next]_(Voice!vars)
             PROVE  VoiceInv'
  OBVIOUS
<1>1. CASE UNCHANGED Voice!vars
  BY <1>1 DEF Voice!vars, VoiceInv, OneHeld, OwnFlag, Silence, Settles, Late, Loud, Made, Counted
<1>2. CASE Voice!Next
  BY <1>2, ChunkStep, HoldStep, ElementStep, PlayerStep DEF Voice!Next
<1> QED BY <1>1, <1>2

\* The spoken replies count as everyone does.
LEMMA VoiceCounts == ASSUME NEW S PROVE Voice!Cardinality(S) = Cardinality(S)
BY DEF Voice!Cardinality, Cardinality

\* What the invariant says of the replies is what the run checks.
LEMMA VoiceHolds ==
  VoiceInv => Voice!OneVoice /\ Voice!SilentAfterLeave /\ Voice!BargeInSilences /\ Voice!BargeInIsOwn
<1> SUFFICES ASSUME VoiceInv
             PROVE  /\ Voice!OneVoice /\ Voice!SilentAfterLeave
                    /\ Voice!BargeInSilences /\ Voice!BargeInIsOwn
  OBVIOUS
<1>1. \A i \in Voice!Sounding : i \in Voice!Ids /\ Loud(audio, i)
  BY DEF Voice!Sounding, Loud
<1>2. Voice!BargeInIsOwn
  BY DEF VoiceInv, OwnFlag, Voice!BargeInIsOwn
<1>3. Voice!SilentAfterLeave /\ Voice!BargeInSilences
  BY <1>1 DEF VoiceInv, OneHeld, Silence, Voice!SilentAfterLeave, Voice!BargeInSilences
<1>4. Voice!OneVoice
  <2> SUFFICES ASSUME ~page.crossed
               PROVE  Cardinality(Voice!Sounding) <= 1
    BY VoiceCounts DEF Voice!OneVoice
  <2>1. Voice!Sounding \subseteq {tts.playing}
    BY <1>1 DEF VoiceInv, OneHeld
  <2>2. IsFiniteSet({tts.playing}) /\ Cardinality({tts.playing}) = 1
    BY FS_Singleton
  <2> QED BY <2>1, <2>2, FS_Subset, FS_CardinalityType
<1> QED BY <1>2, <1>3, <1>4

-----------------------------------------------------------------------------
(* The composer *)

\* The recorder, its flag and its time limit agree, the browser's microphone is
\* open only where the page may use it, and at most one of recording, upload and
\* review is under way.
MicInv ==
  /\ Mic!TypeOK
  /\ mounted => (mic.isRecording <=> mic.recorder # "none")
  /\ ~mounted => ~mic.isRecording /\ mic.recorder # "recording"
  /\ mic.limit => mic.recorder = "recording"
  /\ ~mic.isRecording => ear = Mic!Quiet
  /\ mic.permission = "granted" /\ mounted /\ ~box.textOnly => mic.live
  /\ (~mounted \/ box.textOnly) /\ ~leftAsking => ~mic.live /\ mic.permission # "requesting"
  /\ mounted => /\ ~(mic.isRecording /\ box.stt = "out")
                /\ ~(mic.isRecording /\ box.review)
                /\ ~(box.stt = "out" /\ box.review)

\* A composer just mounted records nothing and asks for nothing.
LEMMA MicStarts == Mic!Init => MicInv
<1> SUFFICES ASSUME Mic!Init
             PROVE  MicInv
  OBVIOUS
<1>1. PICK p \in {"unsupported", "idle"} :
        mic = [permission |-> p, live |-> FALSE, recorder |-> "none",
               isRecording |-> FALSE, limit |-> FALSE]
  BY DEF Mic!Init
<1>2. PICK t \in BOOLEAN, h \in BOOLEAN, a \in BOOLEAN :
        box = [textOnly |-> t, handsFree |-> h, stt |-> "none", review |-> FALSE,
               typed |-> FALSE, disabled |-> TRUE, acks |-> a]
  BY DEF Mic!Init
<1>3. ear = Mic!Quiet /\ mounted = TRUE /\ leftAsking = FALSE
  BY DEF Mic!Init
<1>4. Mic!TypeOK
  BY <1>1, <1>2, <1>3 DEF Mic!TypeOK, Mic!Quiet
<1> QED BY <1>1, <1>2, <1>3, <1>4 DEF MicInv

\* What stopping the recorder leaves of a microphone: all but the time limit and
\* a recorder that was recording.
LEMMA MicStops ==
  ASSUME Mic!TypeOK
  PROVE  LET m == Mic!StopMic(mic) IN
         /\ m \in [permission : {"unsupported", "idle", "requesting", "granted", "denied"},
                   live : BOOLEAN, recorder : {"none", "recording", "stopping"},
                   isRecording : BOOLEAN, limit : BOOLEAN]
         /\ m.permission = mic.permission /\ m.live = mic.live
         /\ m.isRecording = mic.isRecording /\ ~m.limit
         /\ m.recorder = IF mic.recorder = "recording" THEN "stopping" ELSE mic.recorder
BY DEF Mic!TypeOK, Mic!StopMic

\* Releasing the microphone also closes its tracks.
LEMMA MicReleases ==
  ASSUME Mic!TypeOK
  PROVE  LET m == Mic!Release(mic)
             s == Mic!StopMic(mic) IN
         /\ m \in [permission : {"unsupported", "idle", "requesting", "granted", "denied"},
                   live : BOOLEAN, recorder : {"none", "recording", "stopping"},
                   isRecording : BOOLEAN, limit : BOOLEAN]
         /\ m.permission = mic.permission /\ ~m.live
         /\ m.isRecording = mic.isRecording /\ ~m.limit
         /\ m.recorder = s.recorder
BY DEF Mic!TypeOK, Mic!StopMic, Mic!Release

\* Every step of the composer keeps the invariant: a press starts a recording only
\* with the last one uploaded and read, and whoever leaves lets go of the device.
LEMMA MicSteps == MicInv /\ [Mic!Next]_(Mic!vars) => MicInv'
<1> SUFFICES ASSUME MicInv, [Mic!Next]_(Mic!vars)
             PROVE  MicInv'
  OBVIOUS
<1> DEFINE Perms == {"unsupported", "idle", "requesting", "granted", "denied"}
           MicT  == [permission : Perms, live : BOOLEAN,
                     recorder : {"none", "recording", "stopping"},
                     isRecording : BOOLEAN, limit : BOOLEAN]
           BoxT  == [textOnly : BOOLEAN, handsFree : BOOLEAN, stt : {"none", "out"},
                     review : BOOLEAN, typed : BOOLEAN, disabled : BOOLEAN, acks : BOOLEAN]
           EarT  == [vad : {"off", "listening", "speech", "silence", "stopping"},
                     ack : {"none", "timer", "playing"}]
<1>1. mic \in MicT /\ box \in BoxT /\ ear \in EarT /\ mounted \in BOOLEAN /\ leftAsking \in BOOLEAN
  BY DEF MicInv, Mic!TypeOK
<1>2. PICK still \in MicT : /\ still = Mic!StopMic(mic)
                            /\ still.permission = mic.permission /\ still.live = mic.live
                            /\ still.isRecording = mic.isRecording /\ ~still.limit
                            /\ still.recorder = IF mic.recorder = "recording" THEN "stopping"
                                                                              ELSE mic.recorder
  BY MicStops DEF MicInv
<1> DEFINE Stops == ear' = Mic!Quiet /\ mic' = still
<1>3. Mic!StopRecording <=> Stops
  BY <1>2 DEF Mic!StopRecording
<1>4. CASE Mic!Ask
  BY <1>1, <1>4 DEF Mic!Ask, Mic!MicShown, MicInv, Mic!TypeOK, Mic!Quiet
<1>5. CASE Mic!AskAnswered
  <2>1. /\ mic' \in MicT /\ UNCHANGED <<box, ear, mounted, leftAsking>>
        /\ mic.permission = "requesting" /\ mic'.permission # "requesting"
        /\ mic'.recorder = mic.recorder /\ mic'.isRecording = mic.isRecording
        /\ mic'.limit = mic.limit
        /\ mic'.permission = "granted" => mic'.live
    BY <1>1, <1>5 DEF Mic!AskAnswered
  <2> QED BY <1>1, <2>1 DEF MicInv, Mic!TypeOK, Mic!Quiet
<1>6. ASSUME ~box.textOnly, mounted, mic.permission = "granted", UNCHANGED <<box, mounted, leftAsking>>,
             Stops
      PROVE  MicInv'
  BY <1>1, <1>2, <1>6 DEF MicInv, Mic!TypeOK, Mic!Quiet
<1>7. CASE Mic!Press
  <2>1. /\ mounted /\ ~box.textOnly /\ ~box.review /\ mic.permission = "granted" /\ box.stt = "none"
        /\ UNCHANGED <<box, mounted, leftAsking>>
    BY <1>7 DEF Mic!Press, Mic!HotkeyStarts, Mic!MicEnabled, Mic!MicShown
  <2>2. CASE Mic!StopRecording
    BY <1>3, <1>6, <2>1, <2>2
  <2>3. CASE Mic!StartRecording
    BY <1>1, <2>1, <2>3 DEF Mic!StartRecording, Mic!StartPtt, MicInv, Mic!TypeOK, Mic!Quiet
  <2> QED BY <1>7, <2>2, <2>3 DEF Mic!Press
<1>8. CASE Mic!Lift
  BY <1>3, <1>6, <1>8 DEF Mic!Lift, Mic!HotkeyStops, Mic!MicEnabled, Mic!MicShown
<1>9. CASE Mic!TimeUp
  BY <1>1, <1>2, <1>9 DEF Mic!TimeUp, MicInv, Mic!TypeOK, Mic!Quiet
<1>10. CASE Mic!Stopped
  <2>1. /\ mic' \in MicT /\ UNCHANGED <<mounted, leftAsking>>
        /\ mic.recorder = "stopping" /\ mic'.recorder = "none" /\ ~mic'.isRecording
        /\ mic'.live = mic.live /\ mic'.permission = mic.permission /\ mic'.limit = mic.limit
    BY <1>1, <1>10 DEF Mic!Stopped
  <2>2. CASE mounted
    <3>1. /\ box' \in BoxT /\ box'.textOnly = box.textOnly /\ box'.review = box.review
          /\ ear' = Mic!Quiet
      BY <1>1, <1>10, <2>2 DEF Mic!Stopped
    <3> QED BY <1>1, <2>1, <2>2, <3>1 DEF MicInv, Mic!TypeOK, Mic!Quiet
  <2>3. CASE ~mounted
    <3>1. UNCHANGED <<box, ear>>
      BY <1>10, <2>3 DEF Mic!Stopped
    <3> QED BY <1>1, <2>1, <2>3, <3>1 DEF MicInv, Mic!TypeOK, Mic!Quiet
  <2> QED BY <2>2, <2>3
<1>11. CASE Mic!Hear
  BY <1>1, <1>11 DEF Mic!Hear, MicInv, Mic!TypeOK, Mic!Quiet
<1>12. CASE Mic!SilenceLasted
  BY <1>1, <1>2, <1>12 DEF Mic!SilenceLasted, MicInv, Mic!TypeOK, Mic!Quiet
<1>13. CASE Mic!Acknowledge
  BY <1>1, <1>13 DEF Mic!Acknowledge, MicInv, Mic!TypeOK, Mic!Quiet
<1>14. ASSUME Mic!SttAnswered \/ Mic!Confirm \/ Mic!Dismiss \/ Mic!Type \/ Mic!SendText \/ Mic!ParentTurns
       PROVE  MicInv'
  <2>1. /\ UNCHANGED <<mic, ear, mounted, leftAsking>> /\ mounted
        /\ box' \in BoxT /\ box'.textOnly = box.textOnly
        /\ box'.stt = "out" => box.stt = "out" /\ box'.review = box.review
        /\ box'.review => box.review \/ box.stt = "out"
    <3>1. CASE Mic!SttAnswered
      BY <1>1, <3>1 DEF Mic!SttAnswered
    <3>2. CASE Mic!Confirm \/ Mic!Dismiss
      <4>1. /\ UNCHANGED <<mic, ear, mounted, leftAsking>> /\ mounted
            /\ \/ box' = [box EXCEPT !.review = FALSE, !.typed = TRUE]
               \/ box' = [box EXCEPT !.review = FALSE, !.disabled = TRUE]
               \/ box' = [box EXCEPT !.review = FALSE]
        BY <3>2 DEF Mic!Confirm, Mic!Dismiss
      <4>2. box.stt # "out"
        BY <3>2, <4>1 DEF Mic!Confirm, Mic!Dismiss, MicInv
      <4>3. box' \in BoxT /\ box'.textOnly = box.textOnly /\ box'.stt = box.stt /\ ~box'.review
        BY <1>1, <4>1
      <4> QED BY <4>1, <4>2, <4>3
    <3>3. CASE Mic!Type \/ Mic!SendText \/ Mic!ParentTurns
      <4>1. /\ UNCHANGED <<mic, ear, mounted, leftAsking>> /\ mounted
            /\ \/ box' = [box EXCEPT !.typed = TRUE]
               \/ box' = [box EXCEPT !.typed = FALSE, !.disabled = TRUE]
               \/ box' = [box EXCEPT !.disabled = ~box.disabled]
        BY <3>3 DEF Mic!Type, Mic!SendText, Mic!ParentTurns, Mic!TextEnabled
      <4> QED BY <1>1, <4>1
    <3> QED BY <1>14, <3>1, <3>2, <3>3
  <2>2. box'.stt = "out" => ~box'.review
    BY <1>1, <2>1 DEF MicInv
  <2> QED BY <1>1, <2>1, <2>2 DEF MicInv, Mic!TypeOK, Mic!Quiet
<1>15. CASE Mic!ToggleMode
  <2>1. /\ mounted /\ ~box.textOnly /\ mic.permission = "granted"
        /\ box' \in BoxT /\ box'.textOnly = box.textOnly /\ box'.stt = box.stt /\ box'.review = box.review
        /\ UNCHANGED <<mounted, leftAsking>>
    BY <1>1, <1>15 DEF Mic!ToggleMode, Mic!ModeShown, Mic!MicShown
  <2>2. CASE Stops
    BY <1>1, <1>2, <2>1, <2>2 DEF MicInv, Mic!TypeOK, Mic!Quiet
  <2>3. CASE UNCHANGED <<mic, ear>>
    BY <1>1, <2>1, <2>3 DEF MicInv, Mic!TypeOK, Mic!Quiet
  <2> QED BY <1>3, <1>15, <2>2, <2>3 DEF Mic!ToggleMode
<1>16. PICK freed \in MicT : /\ freed = Mic!Release(mic)
                             /\ freed.permission = mic.permission /\ ~freed.live
                             /\ freed.isRecording = mic.isRecording /\ ~freed.limit
                             /\ freed.recorder = still.recorder
  BY <1>1, <1>2, MicReleases DEF MicInv
<1>17. CASE Mic!GoTextOnly
  <2>1. /\ mounted /\ ~box.textOnly /\ mic.permission = "granted" /\ mic' = freed
        /\ box' \in BoxT /\ box'.textOnly /\ box'.stt = box.stt /\ box'.review = box.review
        /\ ear' = (IF mic.isRecording THEN Mic!Quiet ELSE ear)
        /\ UNCHANGED <<mounted, leftAsking>>
    BY <1>1, <1>16, <1>17 DEF Mic!GoTextOnly, Mic!ModeShown, Mic!MicShown
  <2> QED BY <1>1, <1>2, <1>16, <2>1 DEF MicInv, Mic!TypeOK, Mic!Quiet
<1>18. CASE Mic!Unmount
  <2>1. /\ mic' \in MicT /\ ~mic'.isRecording /\ ~mic'.live /\ ~mic'.limit
        /\ mic'.recorder = still.recorder /\ mic'.permission = mic.permission
    BY <1>1, <1>16, <1>18 DEF Mic!Unmount
  <2>2. /\ ear' = Mic!Quiet /\ mounted' = FALSE /\ UNCHANGED box
        /\ leftAsking' \in BOOLEAN /\ (leftAsking' <=> mic.permission = "requesting")
    BY <1>18 DEF Mic!Unmount
  <2>3. Mic!TypeOK'
    BY <1>1, <2>1, <2>2 DEF Mic!TypeOK, Mic!Quiet
  <2> QED BY <1>1, <1>2, <2>1, <2>2, <2>3 DEF MicInv, Mic!Quiet
<1>19. CASE UNCHANGED Mic!vars
  BY <1>1, <1>19 DEF Mic!vars, MicInv, Mic!TypeOK, Mic!Quiet
<1> QED
  BY <1>4, <1>5, <1>7, <1>8, <1>9, <1>10, <1>11, <1>12, <1>13, <1>14, <1>15, <1>17, <1>18, <1>19
  DEF Mic!Next

\* The composer counts as everyone does.
LEMMA MicCounts == ASSUME NEW S PROVE Mic!Cardinality(S) = Cardinality(S)
BY DEF Mic!Cardinality, Cardinality

\* What the invariant says of the composer is what the run checks.
LEMMA MicHolds == MicInv => Mic!TypeOK /\ Mic!MicReleased /\ Mic!OneUtterance /\ Mic!NothingOutlivesRecording
<1> SUFFICES ASSUME MicInv
             PROVE  Mic!MicReleased /\ Mic!OneUtterance /\ Mic!NothingOutlivesRecording
  BY DEF MicInv
<1>1. Mic!MicReleased /\ Mic!NothingOutlivesRecording
  BY DEF MicInv, Mic!MicReleased, Mic!NothingOutlivesRecording, Mic!TypeOK
<1>2. Mic!OneUtterance
  <2> DEFINE Going == {k \in {"recording", "upload", "review"} :
                         \/ k = "recording" /\ mic.isRecording
                         \/ k = "upload" /\ box.stt = "out"
                         \/ k = "review" /\ box.review}
  <2> SUFFICES ASSUME mounted
               PROVE  Cardinality(Going) <= 1
    BY MicCounts DEF Mic!OneUtterance
  <2>1. PICK k \in {"recording", "upload", "review"} : Going \subseteq {k}
    BY DEF MicInv, Mic!TypeOK
  <2> HIDE DEF Going
  <2>2. IsFiniteSet({k}) /\ Cardinality({k}) = 1
    BY FS_Singleton
  <2> QED BY <2>1, <2>2, FS_Subset, FS_CardinalityType
<1> QED BY <1>1, <1>2

-----------------------------------------------------------------------------
(* The wait panel *)

\* The panel counts as everyone does.
LEMMA WaitCounts == ASSUME NEW S PROVE Wait!Cardinality(S) = Cardinality(S)
BY DEF Wait!Cardinality, Cardinality

\* Among usable samples there is a k-th in rising order, and it is one of them.
LEMMA RankedIsSample ==
  ASSUME NEW s \in Seq(1..Longest), NEW k \in 1..Len(s)
  PROVE  Wait!Ranked(s, k) \in 1..Longest
<1> DEFINE UpTo(v) == {i \in DOMAIN s : s[i] <= v}
           Below(v) == {i \in DOMAIN s : s[i] < v}
           T == {v \in Nat : k <= Cardinality(UpTo(v))}
<1>1. Longest \in Nat /\ Len(s) \in Nat /\ DOMAIN s = 1..Len(s)
      /\ \A i \in DOMAIN s : s[i] \in 1..Longest /\ s[i] \in Nat
  BY WaitAssumption
<1>2. IsFiniteSet(DOMAIN s) /\ Cardinality(DOMAIN s) = Len(s)
  <2>1. IsFiniteSet(1..Len(s)) /\ Cardinality(1..Len(s)) = (IF 1 > Len(s) THEN 0 ELSE Len(s) - 1 + 1)
    BY <1>1, FS_Interval
  <2> QED BY <1>1, <2>1
<1>3. \A v \in Nat : IsFiniteSet(UpTo(v)) /\ Cardinality(UpTo(v)) \in Nat
  BY <1>2, FS_Subset, FS_CardinalityType
<1>4. k <= Cardinality(UpTo(Longest))
  <2>1. UpTo(Longest) = DOMAIN s
    BY <1>1
  <2> HIDE DEF UpTo
  <2> QED BY <1>1, <1>2, <2>1
<1>5. PICK v \in Nat : /\ k <= Cardinality(UpTo(v))
                      /\ \A w \in Nat : k <= Cardinality(UpTo(w)) => v <= w
  <2> HIDE DEF UpTo
  <2>1. T \in SUBSET Nat /\ T # {}
    BY <1>1, <1>4
  <2>2. \E v \in T : \A w \in T : v <= w
    <3> HIDE DEF T
    <3> QED BY <2>1, LeastNumber
  <2> QED BY <2>2
<1>11. Cardinality(Below(v)) < k
  <2>1. CASE v = 0
    <3>1. Below(v) = {}
      BY <1>1, <2>1
    <3>2. Cardinality({}) = 0
      BY FS_EmptySet
    <3> HIDE DEF Below
    <3> QED BY <3>1, <3>2
  <2>2. CASE v # 0
    <3>1. v - 1 \in Nat /\ ~(v <= v - 1)
      BY <2>2
    <3>2. Below(v) = UpTo(v - 1)
      BY <1>1
    <3> HIDE DEF UpTo, Below
    <3> QED BY <1>3, <1>5, <3>1, <3>2
  <2> QED BY <2>1, <2>2
<1>6. Below(v) # UpTo(v)
  <2> HIDE DEF UpTo, Below
  <2> QED BY <1>3, <1>5, <1>11
<1>7. PICK i \in DOMAIN s : s[i] = v
  BY <1>1, <1>6
<1>8. v \in Wait!ToSet(s)
  BY <1>7 DEF Wait!ToSet
<1>9. /\ Wait!Cardinality(Below(v)) < k
      /\ k <= Wait!Cardinality(UpTo(v))
  BY <1>5, <1>11, WaitCounts
<1>10. Wait!Ranked(s, k) \in Wait!ToSet(s)
  BY <1>8, <1>9 DEF Wait!Ranked
<1>12. Wait!ToSet(s) \subseteq 1..Longest
  BY <1>1 DEF Wait!ToSet
<1> QED BY <1>10, <1>12

\* Rounding yields whole numbers, and none below zero from none below zero.
LEMMA RoundedType ==
  ASSUME NEW n \in Int, NEW d \in Nat, d > 0
  PROVE  /\ Wait!Rounded(n, d) \in Int
         /\ n >= 0 => Wait!Rounded(n, d) \in Nat
<1>1. 2 * n + d \in Int /\ 2 * d \in Nat /\ 2 * d > 0
  OBVIOUS
<1>2. \A a \in Int, b \in Nat : b > 0 => a \div b \in Int /\ (a >= 0 => a \div b >= 0)
  OBVIOUS
<1>3. n >= 0 => 2 * n + d >= 0
  OBVIOUS
<1> QED BY <1>1, <1>2, <1>3 DEF Wait!Rounded

\* The estimate is a whole number, whatever is stored.
LEMMA EstimateType ==
  ASSUME NEW s \in Seq(1..Longest)
  PROVE  Wait!EstimateTurnMs(s) \in Nat
<1>1. Len(s) \in Nat /\ Longest \in Nat
  BY WaitAssumption
<1>2. CASE s = <<>>
  BY <1>2 DEF Wait!EstimateTurnMs
<1>3. CASE s # <<>>
  <2> DEFINE mid == Len(s) \div 2
  <2>1. Len(s) > 0
    BY <1>1, <1>3
  <2>2. CASE Len(s) % 2 = 1
    <3>1. mid + 1 \in 1..Len(s)
      BY <1>1, <2>1
    <3>2. Wait!Ranked(s, mid + 1) \in 1..Longest
      <4> HIDE DEF mid
      <4> QED BY <3>1, RankedIsSample
    <3> QED BY <1>1, <1>3, <2>2, <3>2 DEF Wait!EstimateTurnMs
  <2>3. CASE Len(s) % 2 # 1
    <3>1. mid \in 1..Len(s) /\ mid + 1 \in 1..Len(s)
      BY <1>1, <2>1, <2>3
    <3>2. Wait!Ranked(s, mid) \in 1..Longest /\ Wait!Ranked(s, mid + 1) \in 1..Longest
      <4> HIDE DEF mid
      <4> QED BY <3>1, RankedIsSample
    <3>3. Wait!Ranked(s, mid) + Wait!Ranked(s, mid + 1) \in Nat
      BY <1>1, <3>2
    <3>4. Wait!Rounded(Wait!Ranked(s, mid) + Wait!Ranked(s, mid + 1), 2) \in Nat
      <4> HIDE DEF mid
      <4> QED BY <3>3, RoundedType
    <3> QED BY <1>3, <2>3, <3>4 DEF Wait!EstimateTurnMs
  <2> QED BY <2>2, <2>3
<1> QED BY <1>2, <1>3

\* The stored bucket holds usable samples of one model, and the clock runs in whole
\* seconds, backwards too.
WaitInv ==
  /\ store \in [model : Wait!Keys \cup {"none"}, samples : Seq(1..Longest)]
  /\ key \in Wait!Keys /\ estimate \in Nat /\ elapsed \in Int

\* What is stored is typed, and so is what is read of it.
LEMMA StoreType ==
  ASSUME NEW s \in [model : Wait!Keys \cup {"none"}, samples : Seq(1..Longest)],
         NEW m \in Wait!Keys, NEW ms \in Nat
  PROVE  /\ Wait!ReadTurnSamples(s, m) \in Seq(1..Longest)
         /\ Wait!Recorded(s, m, ms) \in [model : Wait!Keys \cup {"none"}, samples : Seq(1..Longest)]
<1>1. Wait!ReadTurnSamples(s, m) \in Seq(1..Longest)
  <2>1. s.samples \in Seq(1..Longest) /\ <<>> \in Seq(1..Longest)
    OBVIOUS
  <2> QED BY <2>1 DEF Wait!ReadTurnSamples
<1>2. CASE ~Wait!Usable(ms) \/ (m = Wait!Unknown /\ s.model \notin {"none", Wait!Unknown})
  BY <1>1, <1>2 DEF Wait!Recorded
<1>3. CASE ~(~Wait!Usable(ms) \/ (m = Wait!Unknown /\ s.model \notin {"none", Wait!Unknown}))
  <2> DEFINE r == Append(Wait!ReadTurnSamples(s, m), ms)
  <2>1. ms \in 1..Longest
    BY <1>3, WaitAssumption DEF Wait!Usable
  <2>2. r \in Seq(1..Longest) /\ r # <<>>
    BY <1>1, <2>1
  <2>3. Tail(r) \in Seq(1..Longest)
    <3> HIDE DEF r
    <3> QED BY <2>2
  <2>4. Wait!Recorded(s, m, ms) = [model |-> m, samples |-> IF Len(r) > MaxSamples THEN Tail(r) ELSE r]
    BY <1>3 DEF Wait!Recorded
  <2>5. PICK q \in Seq(1..Longest) : q = IF Len(r) > MaxSamples THEN Tail(r) ELSE r
    BY <2>2, <2>3
  <2>6. Wait!Recorded(s, m, ms) = [model |-> m, samples |-> q]
    BY <2>4, <2>5
  <2> QED BY <1>1, <2>6
<1> QED BY <1>2, <1>3

\* Every step keeps the types, and never forgets a named model's samples for a turn
\* of an unnamed one.
LEMMA WaitSteps ==
  ASSUME WaitInv, [Wait!Next]_(Wait!vars)
  PROVE  /\ WaitInv'
         /\ store.model \in Models /\ key = Wait!Unknown => store' \in {store, Wait!NoStore}
<1> DEFINE Bucket == [model : Wait!Keys \cup {"none"}, samples : Seq(1..Longest)]
<1>1. store \in Bucket /\ key \in Wait!Keys /\ estimate \in Nat /\ elapsed \in Int
  BY DEF WaitInv
<1>2. Wait!NoStore \in Bucket
  BY DEF Wait!NoStore
<1>3. CASE Wait!ModelNamed
  <2>1. PICK m \in Wait!Keys : /\ key' = m
                              /\ estimate' = Wait!EstimateTurnMs(Wait!ReadTurnSamples(store, m))
                              /\ UNCHANGED <<store, elapsed>>
    BY <1>3 DEF Wait!ModelNamed
  <2>2. Wait!ReadTurnSamples(store, m) \in Seq(1..Longest)
    BY <1>1, StoreType
  <2>3. estimate' \in Nat
    BY <2>1, <2>2, EstimateType
  <2> QED BY <1>1, <2>1, <2>3 DEF WaitInv
<1>4. CASE Wait!TurnLanded
  <2>1. PICK ms \in Lengths :
          /\ store' = Wait!Recorded(store, key, ms)
          /\ estimate' = Wait!EstimateTurnMs(Wait!ReadTurnSamples(store', key))
          /\ elapsed' = 0 /\ UNCHANGED key
    BY <1>4 DEF Wait!TurnLanded
  <2>2. ms \in Nat
    BY WaitAssumption
  <2>3. store' \in Bucket
    BY <1>1, <2>1, <2>2, StoreType
  <2>4. Wait!ReadTurnSamples(store', key) \in Seq(1..Longest)
    BY <1>1, <2>2, <2>3, StoreType
  <2>5. estimate' \in Nat
    BY <2>1, <2>4, EstimateType
  <2>6. store.model \in Models /\ key = Wait!Unknown => store' = store
    BY <2>1, WaitAssumption DEF Wait!Recorded, Wait!Unknown
  <2> QED BY <1>1, <2>1, <2>3, <2>5, <2>6 DEF WaitInv
<1>5. CASE Wait!Tick
  <2>1. elapsed' \in Int
    BY <1>5, WaitAssumption DEF Wait!Tick
  <2> QED BY <1>1, <1>5, <2>1 DEF WaitInv, Wait!Tick
<1>6. CASE Wait!ClearTurnSamples
  BY <1>1, <1>2, <1>6 DEF WaitInv, Wait!ClearTurnSamples
<1>7. CASE UNCHANGED Wait!vars
  BY <1>1, <1>7 DEF WaitInv, Wait!vars
<1> QED BY <1>3, <1>4, <1>5, <1>6, <1>7 DEF Wait!Next

\* What the panel shows never contradicts itself, whatever the clock and the
\* estimate are.
LEMMA PanelIsHonest == WaitInv => Wait!PanelAgrees
<1> SUFFICES ASSUME WaitInv
             PROVE  Wait!PanelAgrees
  OBVIOUS
<1> DEFINE has     == estimate > 0
           quoted  == IF has THEN Wait!RoundApproxDuration(estimate) ELSE 0
           percent == IF has THEN Wait!Rounded(elapsed * 100, quoted) ELSE 0
           heard   == (elapsed \div 30) * 30
           fill    == IF percent > 95 THEN 95 ELSE Wait!Floor0(percent)
           rest    == IF has THEN Wait!Floor0(quoted - elapsed) ELSE 0
           said    == Wait!Said(heard, quoted)
<1>1. estimate \in Nat /\ elapsed \in Int
  BY DEF WaitInv
<1>2. quoted \in Nat /\ (has => quoted > 0) /\ (~has => quoted = 0)
  <2>1. CASE has
    <3> DEFINE grain == IF estimate < 10 THEN 1 ELSE IF estimate < 60 THEN 5 ELSE 10
               r     == Wait!Rounded(estimate, grain)
    <3>1. grain \in Nat /\ grain > 0
      BY <1>1
    <3>2. r \in Nat
      <4> HIDE DEF grain
      <4> QED BY <1>1, <3>1, RoundedType
    <3>3. quoted = IF r * grain < grain THEN grain ELSE r * grain
      BY <1>1, <2>1 DEF Wait!RoundApproxDuration, Wait!Floor0
    <3>4. r * grain \in Nat
      <4> HIDE DEF r, grain
      <4> QED BY <3>1, <3>2
    <3> HIDE DEF r, grain
    <3> QED BY <2>1, <3>1, <3>3, <3>4
  <2>2. CASE ~has
    BY <2>2
  <2> QED BY <2>1, <2>2
<1>3. percent \in Int
  <2> HIDE DEF quoted
  <2>1. elapsed * 100 \in Int
    BY <1>1
  <2> QED BY <1>2, <2>1, RoundedType
<1>4. heard \in Int /\ heard <= elapsed
  BY <1>1
<1>5. Wait!Panel = [quoted |-> quoted, overrun |-> has /\ elapsed > quoted, fill |-> fill,
                    remaining |-> rest, said |-> said]
  BY DEF Wait!Panel, Wait!MaxFillPercent, Wait!AnnounceInterval
<1>6. /\ Wait!Panel.quoted = quoted /\ Wait!Panel.fill = fill /\ Wait!Panel.remaining = rest
      /\ Wait!Panel.said = said /\ (Wait!Panel.overrun <=> has /\ elapsed > quoted)
  <2> HIDE DEF has, quoted, fill, rest, said
  <2> QED BY <1>5
<1> HIDE DEF quoted, percent, heard
<1>7. fill \in 0..95
  BY <1>3 DEF Wait!Floor0
<1>8. rest = IF has /\ quoted - elapsed > 0 THEN quoted - elapsed ELSE 0
  BY <1>1, <1>2 DEF Wait!Floor0
<1>9. said = "longer" => quoted > 0 /\ heard > quoted
  BY DEF Wait!Said
<1> HIDE DEF fill, rest, said
<1> QED BY <1>1, <1>2, <1>4, <1>6, <1>7, <1>8, <1>9 DEF Wait!PanelAgrees, Wait!MaxFillPercent

\* The wait panel never contradicts itself and never forgets what a named model took.
THEOREM WaitHolds == Wait!Spec => WaitIsHonest
<1>1. Wait!Init => WaitInv
  BY DEF Wait!Init, WaitInv, Wait!NoStore, Wait!Keys, Wait!Unknown
<1>2. WaitInv /\ [Wait!Next]_(Wait!vars) => WaitInv'
  BY WaitSteps
<1>3. WaitInv => Wait!PanelAgrees
  BY PanelIsHonest
<1>4. WaitInv /\ [Wait!Next]_(Wait!vars)
        => [store.model \in Models /\ key = Wait!Unknown => store' \in {store, Wait!NoStore}]_(Wait!vars)
  BY WaitSteps
<1> QED BY <1>1, <1>2, <1>3, <1>4, PTL DEF Wait!Spec, WaitIsHonest, Wait!NamedSurvives

-----------------------------------------------------------------------------
(* The speech of both sides *)

\* Player and character take turns to be heard, for any number of chunks and of
\* recordings: one voice at a time, one recording at a time, nothing left open.
THEOREM SpeechIsOrderly == Voice!Spec /\ Mic!Spec => []SpeechTakesTurns
<1>1. VoiceInv /\ MicInv => SpeechTakesTurns
  BY VoiceHolds, MicHolds DEF SpeechTakesTurns
<1> QED
  BY <1>1, VoiceStarts, VoiceSteps, MicStarts, MicSteps, PTL DEF Voice!Spec, Mic!Spec

-----------------------------------------------------------------------------
(* The parts in one run *)

\* Side by side each part behaves as it does alone, so what holds of the parts
\* holds of the run.
LEMMA PartsAlone ==
  MCSpec => /\ Init /\ [][Next]_vars
            /\ Voice!Spec /\ Mic!Spec /\ Wait!Spec
<1>1. MCInit => Init /\ Voice!Init /\ Mic!Init /\ Wait!Init
  BY DEF MCInit
<1>2. ASSUME [MCNext]_all
      PROVE  /\ [Next]_vars /\ [Voice!Next]_(Voice!vars)
             /\ [Mic!Next]_(Mic!vars) /\ [Wait!Next]_(Wait!vars)
  BY <1>2 DEF MCNext, all, Screen, Sound, Input, Clock, vars, Voice!vars, Mic!vars, Wait!vars
<1> QED BY <1>1, <1>2, PTL DEF MCSpec, Voice!Spec, Mic!Spec, Wait!Spec

\* The conversation screen as a whole: what the run checks on its small instance
\* holds for every number of turns, chunks, models and samples.
THEOREM ScreenHolds ==
  MCSpec => []ViewIsTrue /\ TurnsEndRight /\ []SpeechTakesTurns /\ WaitIsHonest
BY PartsAlone, ScreenIsTrue, TurnsEndTruly, SpeechIsOrderly, WaitHolds, PTL DEF Spec
=============================================================================
