------------------------------ MODULE SetupFlow ------------------------------
(* The set-up of a model in the web client: the guard of the application's    *)
(* routes (App.tsx), the wizard and the model manager (useSetupFlow.ts and    *)
(* its steps) and the polling of an install (useSetupInstall.ts).             *)
(*                                                                            *)
(* Requests answer late, in any order, or fail; an answer of a page that was  *)
(* left still writes to local storage.  Guard and wizard send the player back *)
(* and forth according to local storage and the server, which may disagree.   *)
EXTENDS Naturals, FiniteSets

CONSTANTS MaxJobs,    \* bound: installs the server starts
          MaxPolls,   \* bound: poll answers on their way
          MaxAsks,    \* bound: status requests of the guard
          MaxCalls    \* bound: kinds of other requests under way, one of each

ASSUME SetupAssumption == {MaxJobs, MaxPolls, MaxAsks, MaxCalls} \subseteq Nat \ {0}

VARIABLES page,    \* "home", "manager" (both under the guard) or "wizard"
          flow,    \* state of useSetupFlow
          shot,    \* setupInstallJob: the last answer of a poll
          polls,   \* poll answers on their way, of the page that is mounted
          ticking, \* the poll interval
          calls,   \* other requests under way
          guard,   \* [status, asks]: FirstRunGuard and its requests
          mirror,  \* local storage: set-up was completed here
          srv,     \* external: [jobs, outcome] of the core service
          hist     \* history
vars == <<page, flow, shot, polls, ticking, calls, guard, mirror, srv, hist>>

Terminal == {"complete", "failed", "cancelled"}
NoShot == [id |-> 0, status |-> "none"]
Kinds == {"load", "auto", "start", "use", "gguf", "bench", "cancel", "mark"}
Idle == [k \in Kinds |-> 0]
Fresh(step, id) ==
  [step |-> step, intent |-> "none", models |-> FALSE, chosen |-> FALSE,
   err |-> "none", busy |-> FALSE, id |-> id, ran |-> FALSE]
Jobs == DOMAIN srv.jobs
More(c, k) == [c EXCEPT ![k] = @ + 1]
Less(k) == [calls EXCEPT ![k] = @ - 1]
Fits(c) == /\ \A k \in Kinds : c[k] <= 1
           /\ Cardinality({k \in Kinds : c[k] > 0}) <= MaxCalls
CanCall(k) == Fits(More(calls, k))

\* The guard as it is mounted; its first request carries the server's answer.
Known(o) == IF o THEN {"ready", "incomplete"} ELSE {"never-run"}
Asked(kind) == [kind |-> kind, live |-> TRUE]
Mounted(m, asks) == [status |-> IF m THEN "ready" ELSE "loading", asks |-> asks]
Gone(asks) == {[a EXCEPT !.live = FALSE] : a \in asks}

Init ==
  /\ page = "home" /\ flow = Fresh("welcome", 0) /\ shot = NoShot
  /\ polls = {} /\ ticking = FALSE /\ calls = Idle
  /\ mirror \in BOOLEAN
  /\ srv \in [jobs : {<<>>, <<"running">>}, outcome : BOOLEAN]
  /\ \E kind \in Known(srv.outcome) : guard = Mounted(mirror, {Asked(kind)})
  /\ hist = [done |-> FALSE, late |-> FALSE, seen |-> 0, bounces |-> 0]

-----------------------------------------------------------------------------
(* Effects of a render *)

\* A resumed job has no model selected: it is looked up once the list is there.
Seeded(f) ==
  IF f.step = "installing" /\ f.models THEN [f EXCEPT !.chosen = TRUE] ELSE f

\* A job that failed shows its error; the effect runs when the step changes or
\* an answer came.
Noticed(f, sh, came) ==
  IF f.step = "installing" /\ sh.status \in {"failed", "cancelled"}
     /\ (came \/ flow.step # "installing")
  THEN [f EXCEPT !.err = "job"] ELSE f

\* In the manager an error leads back to the confirmation, which needs a model.
Bounced(f) ==
  IF page = "manager" /\ f.step = "installing" /\ f.err # "none"
  THEN [f EXCEPT !.step = "confirm-install"] ELSE f
Stranded(f) ==
  IF f.step = "confirm-install" /\ ~f.chosen THEN [f EXCEPT !.step = "loading"] ELSE f

\* A finished job marks the set-up done.
Completes(f, sh, came) ==
  f.step = "installing" /\ sh.status = "complete" /\ (came \/ flow.step # "installing")

\* The next state of the flow with the requests its effects send.
Rendered(f, sh, came, c) ==
  LET g == Stranded(Bounced(Noticed(Seeded(f), sh, came)))
      benches == g.step = "benchmark" /\ ~g.ran
      c1 == IF g.step = "loading" /\ flow.step # "loading" THEN More(c, "load") ELSE c
      c2 == IF benches THEN More(c1, "bench") ELSE c1
  IN /\ flow' = IF benches THEN [g EXCEPT !.ran = TRUE] ELSE g
     /\ Fits(IF Completes(f, sh, came) THEN More(c2, "mark") ELSE c2)
     /\ calls' = IF Completes(f, sh, came) THEN More(c2, "mark") ELSE c2
     /\ mirror' = (mirror \/ Completes(f, sh, came))

Steps(f) == Rendered(f, shot, FALSE, calls)
Quiet == UNCHANGED <<page, shot, polls, ticking, guard, srv, hist>>
InFlow == page \in {"wizard", "manager"}

-----------------------------------------------------------------------------
(* What the player does *)

Reset(f) == [f EXCEPT !.err = "none", !.busy = FALSE]

\* The buttons of the welcome step.
SetMeUp ==
  /\ page = "wizard" /\ flow.step = "welcome" /\ ~flow.busy
  /\ Steps([flow EXCEPT !.intent = "set-me-up", !.step = "loading"])
  /\ Quiet

Advanced ==
  /\ page = "wizard" /\ flow.step = "welcome"
  /\ \/ Steps([flow EXCEPT !.intent = "ollama", !.step = "loading"])
     \/ Steps([Reset(flow) EXCEPT !.intent = "gguf", !.step = "loading"])
  /\ Quiet

\* The buttons that only change the step.
Click ==
  /\ InFlow
  /\ \/ flow.step = "load-error" /\ Steps([flow EXCEPT !.step = "loading"])
     \/ flow.step = "load-error" /\ page = "wizard" /\ Steps([flow EXCEPT !.step = "welcome"])
     \/ flow.step = "preflight" /\ Steps([flow EXCEPT !.step = "choose"])
     \/ flow.step = "choose" /\ Steps([Reset(flow) EXCEPT !.chosen = TRUE, !.step = "confirm-install"])
     \/ flow.step = "choose" /\ \E s \in {"ollama-select", "gguf-path"} :
          Steps([Reset(flow) EXCEPT !.step = s])
     \/ flow.step = "confirm-install" /\ Steps([Reset(flow) EXCEPT !.chosen = FALSE, !.step = "choose"])
     \/ flow.step \in {"ollama-select", "gguf-path"} /\ Steps([Reset(flow) EXCEPT !.step = "choose"])
     \/ flow.step = "installing" /\ flow.err # "none" /\ Steps([Reset(flow) EXCEPT !.step = "choose"])
  /\ Quiet

Call(k, f) ==
  /\ CanCall(k)
  /\ flow' = [f EXCEPT !.busy = TRUE, !.err = "none"] /\ calls' = More(calls, k)
  /\ UNCHANGED mirror /\ Quiet

\* Confirm and install, use a model of Ollama, use a file.
Confirm == InFlow /\ flow.step = "confirm-install" /\ ~flow.busy /\ Call("start", flow)
UseOllama == InFlow /\ flow.step = "ollama-select" /\ ~flow.busy /\ Call("use", flow)
UseGguf == InFlow /\ flow.step = "gguf-path" /\ ~flow.busy /\ Call("gguf", flow)

\* Retry of a job that failed: to the confirmation with a model, else the job's
\* own model again, else the choice.
Retry ==
  /\ InFlow /\ flow.step = "installing" /\ flow.err # "none"
  /\ \/ flow.chosen /\ Steps([Reset(flow) EXCEPT !.step = "confirm-install"]) /\ Quiet
     \/ ~flow.chosen /\ shot # NoShot /\ Call("start", Reset(flow))
     \/ ~flow.chosen /\ shot = NoShot /\ Steps([Reset(flow) EXCEPT !.step = "loading"]) /\ Quiet

\* Cancel and go home; Continue to Home after the benchmark.
Cancel ==
  /\ InFlow /\ flow.step = "installing" /\ CanCall("cancel")
  /\ calls' = More(calls, "cancel")
  /\ UNCHANGED <<flow, mirror>> /\ Quiet
FinishBenchmark ==
  /\ InFlow /\ flow.step = "benchmark" /\ calls["bench"] = 0 /\ CanCall("mark")
  /\ calls' = More(calls, "mark") /\ mirror' = TRUE
  /\ UNCHANGED flow /\ Quiet

\* The page of the flow is left: of its requests only those that lead home go
\* on, for nothing they do needs the page.
Left == shot' = NoShot /\ polls' = {} /\ ticking' = FALSE
Ongoing == [k \in Kinds |-> IF k \in {"mark", "cancel"} THEN calls[k] ELSE 0]
OpenManager ==
  /\ page = "home" /\ page' = "manager" /\ guard.status \in {"ready", "incomplete"}
  /\ flow' = Fresh("loading", 0) /\ calls' = More(Ongoing, "load")
  /\ Left /\ UNCHANGED <<guard, mirror, srv, hist>>
LeaveManager ==
  /\ page = "manager" /\ flow.step \in {"choose", "load-error"} /\ page' = "home"
  /\ flow' = Fresh("welcome", 0) /\ calls' = Ongoing
  /\ Left /\ UNCHANGED <<guard, mirror, srv, hist>>

-----------------------------------------------------------------------------
(* Answers *)

\* Where the loading step leads without an install: what was asked for is used up.
Routed(f) ==
  [f EXCEPT !.step = CASE f.intent = "ollama" -> "ollama-select"
                       [] f.intent = "gguf" -> "gguf-path"
                       [] OTHER -> "choose",
            !.intent = "none"]

\* "Set me up" goes on to install the recommended model.
Recommended(f) == [f EXCEPT !.chosen = TRUE, !.busy = TRUE, !.err = "none", !.intent = "none"]

\* Models and preflight have answered: no models, a check that needs a human, or
\* on with what was asked for.
LoadAnswered ==
  /\ InFlow /\ calls["load"] > 0
  /\ LET f == [flow EXCEPT !.models = TRUE] IN
     \/ /\ Rendered([flow EXCEPT !.step = "load-error"], shot, FALSE, Less("load")) /\ Quiet
     \/ /\ Rendered([f EXCEPT !.step = "preflight"], shot, FALSE, Less("load")) /\ Quiet
     \/ /\ Rendered(Routed(f), shot, FALSE, Less("load")) /\ Quiet
     \/ /\ f.intent = "set-me-up" /\ CanCall("auto")
        /\ Rendered(Recommended(f), shot, FALSE, More(Less("load"), "auto")) /\ Quiet

\* External: POST install joins the job of the model that still runs, or starts one.
Running == {j \in Jobs : srv.jobs[j] = "running"}
Joined(s, j) ==
  \/ Running # {} /\ j \in Running /\ s = srv
  \/ /\ Running = {} /\ j = Cardinality(Jobs) + 1 /\ j <= MaxJobs
     /\ s = [srv EXCEPT !.jobs = [i \in 1..j |-> IF i = j THEN "running" ELSE srv.jobs[i]]]

\* The install was started, by the button or by "Set me up": progress is shown
\* and polled; or it was refused.
StartAnswered ==
  \E k \in {"auto", "start"} :
    /\ InFlow /\ calls[k] > 0
    /\ \/ \E s \in {srv, [srv EXCEPT !.jobs = [i \in 1..(Cardinality(Jobs) + 1) |->
                              IF i \in Jobs THEN srv.jobs[i] ELSE "running"]]}, j \in 1..MaxJobs :
             /\ Joined(s, j) /\ srv' = s
             /\ Rendered([flow EXCEPT !.id = j, !.step = "installing", !.busy = FALSE],
                         shot, FALSE, Less(k))
             /\ ticking' = (ticking \/ flow.id # j)
             /\ UNCHANGED <<page, shot, polls, guard, hist>>
       \/ /\ Rendered([flow EXCEPT !.err = "request", !.busy = FALSE,
                           !.step = IF k = "auto" THEN "confirm-install" ELSE @],
                      shot, FALSE, Less(k))
          /\ Quiet

\* Mutant: a file that was not accepted leaves the button busy.
GgufRefused(f) == [f EXCEPT !.err = "request"]

\* Registering, starting or selecting failed: the error is shown.
Refused(f) == [f EXCEPT !.err = "request", !.busy = FALSE]

\* A model of Ollama or a file is in use: the benchmark runs, anew.
UseAnswered ==
  \E k \in {"use", "gguf"} :
    /\ InFlow /\ calls[k] > 0
    /\ \/ Rendered([flow EXCEPT !.step = "benchmark", !.busy = FALSE, !.ran = FALSE],
                   shot, FALSE, Less(k))
       \/ Rendered(Refused(flow), shot, FALSE, Less(k))
    /\ Quiet

BenchAnswered ==
  /\ calls["bench"] > 0 /\ calls' = Less("bench")
  /\ UNCHANGED <<flow, mirror>> /\ Quiet

\* The cancelled job ends, if the request came through and it still ran; the
\* set-up counts as done either way.
CancelAnswered ==
  /\ calls["cancel"] > 0 /\ CanCall("mark")
  /\ calls' = More(Less("cancel"), "mark") /\ mirror' = TRUE
  /\ srv' \in {srv} \cup {[srv EXCEPT !.jobs[j] = "cancelled"] : j \in Running \cap {flow.id}}
  /\ UNCHANGED <<page, flow, shot, polls, ticking, guard, hist>>

\* Mutant: the player goes home while the outcome is on its way.
MarkNotAwaited(stored) == srv' = srv /\ calls' = calls

\* recordOnboardingOutcome, best effort, before the player goes on.
MarkStored(stored) == srv' = [srv EXCEPT !.outcome = @ \/ stored] /\ calls' = Ongoing

\* Home: from the wizard the guard is mounted anew and asks the server.
MarkAnswered ==
  /\ calls["mark"] > 0
  /\ \E stored \in BOOLEAN :
       /\ MarkStored(stored)
       /\ \E kind \in Known(srv'.outcome) :
            guard' = IF page # "wizard" THEN guard
                     ELSE Mounted(mirror, {Asked(kind)} \cup Gone(guard.asks))
       /\ hist' = [hist EXCEPT !.done = @ \/ (page = "wizard" /\ stored)]
  /\ page' = "home" /\ flow' = Fresh("welcome", 0)
  /\ Left /\ UNCHANGED mirror

-----------------------------------------------------------------------------
(* Polling of the install *)

Poll ==
  /\ InFlow /\ ticking /\ flow.id \in Jobs /\ Cardinality(polls) < MaxPolls
  /\ polls' = polls \cup {[id |-> flow.id, status |-> srv.jobs[flow.id]]}
  /\ UNCHANGED <<page, flow, shot, ticking, calls, guard, mirror, srv, hist>>

\* Mutant: a failed poll stops the interval.
AfterLostStopped == FALSE

\* An answer that did not come changes nothing.
AfterLost == ticking

PollLost ==
  \E p \in polls :
    /\ polls' = polls \ {p} /\ ticking' = AfterLost
    /\ UNCHANGED <<page, flow, shot, calls, guard, mirror, srv, hist>>

\* The answer is shown; a terminal one stops the interval, whichever job it is of.
PollAnswered ==
  \E p \in polls :
    /\ polls' = polls \ {p} /\ shot' = p
    /\ ticking' = (ticking /\ p.status \notin Terminal)
    /\ Rendered(flow, p, TRUE, calls)
    /\ hist' = [hist EXCEPT !.late = @ \/ p.id # flow.id,
                            !.seen = IF p.status \in Terminal THEN p.id ELSE @]
    /\ UNCHANGED <<page, guard, srv>>

\* External: a job ends.
JobEnds ==
  \E j \in Running, s \in {"complete", "failed"} :
    /\ srv' = [srv EXCEPT !.jobs[j] = s]
    /\ UNCHANGED <<page, flow, shot, polls, ticking, calls, guard, mirror, hist>>

-----------------------------------------------------------------------------
(* The guard of the routes *)

\* The window gets the focus: the server is asked again.
Focus ==
  /\ page # "wizard" /\ Cardinality(guard.asks) < MaxAsks
  /\ \E kind \in Known(srv.outcome) : guard' = [guard EXCEPT !.asks = @ \cup {Asked(kind)}]
  /\ UNCHANGED <<page, flow, shot, polls, ticking, calls, mirror, srv, hist>>

\* Mutant: a stale mirror is not cleared.
MirrorKept(kind) == mirror \/ kind = "ready"

\* What an answer makes of local storage.
MirrorAfter(kind) ==
  CASE kind = "ready" -> TRUE [] kind = "never-run" -> FALSE [] kind = "incomplete" -> mirror

\* never-run sends the player to the wizard, which resumes a job that runs; a
\* wizard that finds the set-up complete sends the player straight back.
Guarded(status, asks) ==
  IF status # "never-run"
  THEN /\ guard' = [status |-> status, asks |-> asks]
       /\ UNCHANGED <<page, flow, shot, polls, ticking, calls, hist>>
  ELSE /\ shot' = NoShot /\ polls' = {} /\ calls' = Ongoing
       /\ ticking' = (~mirror' /\ Running # {})
       /\ IF mirror'
          THEN /\ page' = "home" /\ flow' = Fresh("welcome", 0)
               /\ \E kind \in Known(srv.outcome) : guard' = Mounted(TRUE, {Asked(kind)} \cup Gone(asks))
               /\ hist' = [hist EXCEPT !.bounces = @ + 1]
          ELSE /\ page' = "wizard" /\ guard' = [status |-> "loading", asks |-> Gone(asks)]
               /\ hist' = [hist EXCEPT !.bounces = 0]
               /\ flow' = IF Running = {} THEN Fresh("welcome", 0)
                          ELSE Fresh("installing", CHOOSE j \in Running : TRUE)

GuardAnswered ==
  \E a \in guard.asks :
    /\ mirror' = MirrorAfter(a.kind)
    /\ Guarded(IF a.live THEN a.kind ELSE guard.status, guard.asks \ {a})
    /\ UNCHANGED srv

\* The server is not reached: without a mirror the set-up has never run.
GuardFailed ==
  \E a \in guard.asks :
    /\ mirror' = mirror
    /\ Guarded(IF a.live /\ guard.status = "loading" THEN "never-run" ELSE guard.status,
               guard.asks \ {a})
    /\ UNCHANGED srv

Next ==
  \/ SetMeUp \/ Advanced \/ Click \/ Confirm \/ UseOllama \/ UseGguf \/ Retry \/ Cancel
  \/ FinishBenchmark \/ OpenManager \/ LeaveManager
  \/ LoadAnswered \/ StartAnswered \/ UseAnswered \/ BenchAnswered \/ CancelAnswered \/ MarkAnswered
  \/ Poll \/ PollLost \/ PollAnswered \/ JobEnds
  \/ Focus \/ GuardAnswered \/ GuardFailed

Spec == Init /\ [][Next]_vars

-----------------------------------------------------------------------------
TypeOK ==
  /\ page \in {"home", "manager", "wizard"}
  /\ flow.step \in {"welcome", "loading", "preflight", "choose", "confirm-install", "installing",
                    "benchmark", "ollama-select", "gguf-path", "load-error"}
  /\ flow.id \in 0..MaxJobs /\ flow.err \in {"none", "job", "request"}
  /\ \A k \in Kinds : calls[k] \in {0, 1}

\* A button that shows work under way has a request under way: no failure
\* leaves the page busy.
BusyIsCalled ==
  flow.busy => \E k \in {"auto", "start", "use", "gguf"} : calls[k] > 0

\* As long as no answer about an earlier job came late, the install on the screen
\* is polled until its end was seen.
PolledUntilDone ==
  InFlow /\ flow.step = "installing" /\ ~hist.late
    => ticking \/ hist.seen = flow.id

\* Once the wizard was finished with its outcome stored, no answer on its way to
\* the guard can send the player back to it.
FinishedStays == hist.done => \A a \in guard.asks : a.live => a.kind # "never-run"

\* The guard and the wizard never send the player back and forth: a guard that the
\* wizard sent the player straight back to does not send the player there again
\* with a mirror that the wizard takes for a finished set-up.
NoLoop == hist.bounces <= 1

-----------------------------------------------------------------------------
(* The inductive invariant behind them *)

FlowShape(f) ==
  f = [step |-> f.step, intent |-> f.intent, models |-> f.models, chosen |-> f.chosen,
       err |-> f.err, busy |-> f.busy, id |-> f.id, ran |-> f.ran]
Shape ==
  /\ FlowShape(flow) /\ calls \in [Kinds -> Nat]
  /\ srv = [jobs |-> srv.jobs, outcome |-> srv.outcome] /\ Jobs \subseteq Nat \ {0}
  /\ guard = [status |-> guard.status, asks |-> guard.asks]
  /\ guard.status \in {"loading", "ready", "incomplete"}
  /\ guard.asks \subseteq [kind : {"ready", "incomplete", "never-run"}, live : BOOLEAN]
  /\ hist = [done |-> hist.done, late |-> hist.late, seen |-> hist.seen, bounces |-> hist.bounces]

\* The job the flow knows is polled, on whatever step.
JobPolled ==
  /\ flow.step = "installing" => flow.id # 0
  /\ InFlow /\ flow.id # 0 /\ ~hist.late => ticking \/ hist.seen = flow.id

\* Sent straight back once, the guard takes the set-up for done.
BouncedOnce ==
  /\ hist.bounces \in {0, 1}
  /\ hist.bounces = 1 => guard.status # "loading" /\ page # "wizard"
OutcomeStored == hist.done => srv.outcome

Inv == Shape /\ BusyIsCalled /\ JobPolled /\ BouncedOnce /\ OutcomeStored /\ FinishedStays
=============================================================================
