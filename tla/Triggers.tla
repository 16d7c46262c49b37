------------------------------ MODULE Triggers ------------------------------
(***************************************************************************)
(* Trigger rules (services/trigger_service.py, worker/scheduler.py): web-  *)
(* hooks and the cron scheduler call process_event, which creates a task   *)
(* for the first rule that matches an event and has not seen its key       *)
(* lately.  Calls interleave at every access to the database, and rules    *)
(* are edited meanwhile.  Time counts the minutes of the scheduler; the    *)
(* windows of the rules are in the same unit.                              *)
(*                                                                         *)
(* How a filter and a template are evaluated is left to the constants      *)
(* Passes and Key, and the type of an event to EventType (TriggerFilters). *)
(***************************************************************************)
EXTENDS Integers, Sequences

CONSTANTS
  Deliveries,       \* webhook requests, the repeated ones included
  Cron,             \* the coroutine of the scheduler
  Events,           \* what a webhook may report
  Scheduled(_, _),  \* the event of a due rule in a scan
  All,              \* the project of the webhooks that belong to none
  Accepted(_),      \* signature or token are right, the project is integrated
  EventType(_),
  Passes(_, _),     \* do the filters of a rule let an event pass
  Key(_, _), NoKey, \* the key that a rule gives an event
  Settings, NoRule, \* what a rule may be set to
  InitialRules,     \* the settings of the rules that are there at first
  DefaultWindow,
  MaxRules, MaxSurprises, MaxTime   \* bounds of the model: rules, faults and
                                    \* edits, and minutes

ASSUME BoundsAreNat == {MaxRules, MaxSurprises, MaxTime, DefaultWindow} \subseteq Nat
ASSUME CallsHaveNames == /\ Cron \notin Deliveries /\ NoRule \notin Deliveries \cup {Cron}
                         /\ Deliveries \cap (Int \X Int \X Int) = {}
ASSUME SettingsHaveFields ==
  /\ NoRule \notin Settings
  /\ \A given \in InitialRules : given \in Seq(Settings) /\ Len(given) <= MaxRules
  /\ \A s \in Settings : s.window \in Nat /\ s.cron \subseteq Nat /\ s.enabled \in BOOLEAN

VARIABLES
  now,
  created,   \* rules created so far; their numbers are in the order of created_at
  rules,     \* trigger_rules: the settings of each, or NoRule
  last,      \* last_triggered_at, or Never
  call,      \* the calls of process_event; prior is the tasks logged when one began
  log,       \* trigger_events
  tasks,     \* the tasks created by the calls
  scan,      \* _fire_due_rules
  nextScan,  \* when _cron_loop wakes up
  fires,     \* the turns of due rules in the scans
  forecast,  \* what simulate_event said of the event then, as long as it stands
  surprises

vars == <<now, created, rules, last, call, log, tasks, scan, nextScan, fires, forecast,
                    surprises>>
          
Never == -1
RuleIds == 1 .. MaxRules
Callers == Deliveries \cup {Cron}
Unknown == <<"unknown", 0>>
Results == {"skipped_no_rule", "skipped_filter", "skipped_dedup", "triggered"}

Idle == [pc |-> "idle", by |-> NoRule, event |-> NoRule, held |-> <<>>, todo |-> {}, rule |-> 0,
         prior |-> {}]
NoScan == [at |-> Never, held |-> <<>>, todo |-> {}, rule |-> 0]

TypeOK ==
  /\ now \in 0 .. MaxTime /\ nextScan \in 0 .. MaxTime + 1
  /\ created \in 0 .. MaxRules
  /\ rules \in [RuleIds -> Settings \cup {NoRule}]
  /\ \A r \in RuleIds : r > created => rules[r] = NoRule
  /\ last \in [RuleIds -> 0 .. MaxTime \cup {Never}]
  /\ \A c \in Callers :
       /\ call[c].pc \in {"idle", "query", "rule", "log", "done", "failed"}
       /\ call[c].todo \subseteq DOMAIN call[c].held /\ DOMAIN call[c].held \subseteq 1 .. created
       /\ call[c].pc = "rule" => call[c].rule = 0
       /\ call[c].pc = "log" => call[c].rule \in call[c].todo
  /\ \A row \in log : row.at \in 0 .. now /\ row.result \in Results
  /\ \A t \in tasks : t.rule \in 1 .. created /\ t.at \in 0 .. now
  /\ scan.at \in 0 .. now \cup {Never} /\ scan.todo \subseteq 1 .. created
  /\ scan.rule \in scan.todo \cup {0}
  /\ call[Cron].pc # "idle" => scan.rule # 0
  /\ \A f \in fires : f.rule \in 1 .. created /\ f.at \in 0 .. now

Init ==
  /\ now = 0 /\ nextScan = 0
  /\ \E given \in InitialRules :
       /\ created = Len(given)
       /\ rules = [r \in RuleIds |-> IF r <= created THEN given[r] ELSE NoRule]
  /\ last = [r \in RuleIds |-> Never]
  /\ call = [c \in Callers |-> Idle]
  /\ log = {} /\ tasks = {} /\ fires = {}
  /\ scan = NoScan
  /\ forecast = [c \in Callers |-> Unknown]
  /\ surprises = 0

\* A change by anyone else and the passing of time make a forecast void.
Disturb(c) == forecast' = [d \in Callers |-> IF d = c THEN forecast[d] ELSE Unknown]

-----------------------------------------------------------------------------
(* The checks.                                                             *)

Window(s) == IF s.window = 0 THEN DefaultWindow ELSE s.window

IsDuplicate(r, s, key) ==
  /\ key # NoKey
  /\ \E row \in log : /\ row.rule = r /\ row.key = key /\ row.result = "triggered"
                      /\ row.at >= now - Window(s)

Listens(s, source) == s # NoRule /\ s.source = source /\ s.enabled
OfType(s, e) == s.type \in {"*", EventType(e)}

\* test_rule, and what simulate_event finds of one rule.
Verdict(r, e) ==
  IF ~Passes(rules[r], e) THEN "skipped_filter"
  ELSE IF IsDuplicate(r, rules[r], Key(rules[r], e)) THEN "skipped_dedup" ELSE "triggered"

Least(S, r) == r \in S /\ \A q \in S : r <= q

\* Mutant: the dry run goes on to the last rule that would trigger.
SimulateLast(e) ==
  LET matched == {r \in RuleIds : Listens(rules[r], e.source) /\ OfType(rules[r], e)}
      hits == {r \in matched : Verdict(r, e) = "triggered"}
      seen == IF hits # {} THEN hits ELSE matched
      chosen == CHOOSE r \in seen : \A q \in seen : q <= r
  IN IF matched = {} THEN <<"skipped_no_rule", 0>> ELSE <<Verdict(chosen, e), chosen>>

\* A dry run: the first rule that would trigger, or else what became of the last.
Simulate(e) ==
  LET matched == {r \in RuleIds : Listens(rules[r], e.source) /\ OfType(rules[r], e)}
      hits == {r \in matched : Verdict(r, e) = "triggered"}
      chosen == CHOOSE r \in RuleIds : IF hits # {} THEN Least(hits, r)
                                       ELSE r \in matched /\ \A q \in matched : q <= r
  IN IF matched = {} THEN <<"skipped_no_rule", 0>> ELSE <<Verdict(chosen, e), chosen>>

-----------------------------------------------------------------------------
(* process_event, called by c.                                             *)

Deployment == <<now, created, rules, last, scan, nextScan, fires, surprises>>

Begun(by, e, held) == [Idle EXCEPT !.pc = "query", !.by = by, !.event = e, !.held = held,
                                   !.prior = {row \in log : row.result = "triggered"}]
Begin(c, by, e, held) == call' = [call EXCEPT ![c] = Begun(by, e, held)]

Ended(c, r) == [Idle EXCEPT !.pc = "done", !.by = call[c].by, !.rule = r]
Failed(c) == [Idle EXCEPT !.pc = "failed", !.by = call[c].by]

\* Nobody asks when a row was written whose event was skipped.
Row(c, r, key, result) == [by |-> call[c].by, rule |-> r, key |-> key, result |-> result,
                           at |-> IF result = "triggered" THEN now ELSE 0]

\* The rows found are rules in the state they have in the session of the caller:
\* those it holds already are not read again.
Query(c) ==
  LET e == call[c].event
      found == {r \in RuleIds : /\ Listens(rules[r], e.source)
                                /\ e.project \in {All, rules[r].project}}
      held == [r \in found \cup DOMAIN call[c].held |->
                 IF r \in DOMAIN call[c].held THEN call[c].held[r] ELSE rules[r]]
      matched == {r \in found : OfType(held[r], e)}
      skip == matched = {}
  IN /\ call[c].pc = "query"
     /\ call' = [call EXCEPT ![c] = IF skip THEN Ended(c, 0)
                                     ELSE [@ EXCEPT !.pc = "rule", !.held = held, !.todo = matched]]
     /\ log' = IF skip THEN log \cup {Row(c, 0, NoKey, "skipped_no_rule")} ELSE log
     /\ IF skip THEN Disturb(c) ELSE UNCHANGED forecast
     /\ UNCHANGED <<Deployment, tasks>>

\* The next rule in the order of creation, as the session has it.
AtRule(c, r) == call[c].pc = "rule" /\ Least(call[c].todo, r)
Setting(c, r) == call[c].held[r]
KeyFor(c, r) == Key(Setting(c, r), call[c].event)

\* After the last rule the call has no task.
Skip(c, r, key, result) ==
  /\ call' = [call EXCEPT ![c] = IF call[c].todo = {r} THEN Ended(c, 0)
                                  ELSE [call[c] EXCEPT !.todo = @ \ {r}]]
  /\ log' = log \cup {Row(c, r, key, result)}
  /\ Disturb(c)
  /\ UNCHANGED <<Deployment, tasks>>

Filtered(c, r) ==
  /\ AtRule(c, r) /\ ~Passes(Setting(c, r), call[c].event)
  /\ Skip(c, r, NoKey, "skipped_filter")

Duplicate(c, r) ==
  /\ AtRule(c, r) /\ Passes(Setting(c, r), call[c].event)
  /\ IsDuplicate(r, Setting(c, r), KeyFor(c, r))
  /\ Skip(c, r, KeyFor(c, r), "skipped_dedup")

\* When the tasks were logged that the rule had for the key as the call began.
Earlier(c, r) ==
  {row.at : row \in {row \in call[c].prior :
     \E t \in tasks : t.by = row.by /\ t.rule = r /\ t.key = KeyFor(c, r)}}

\* The rule is hit.  No call reads the tasks, so that the check and the creation of
\* the task can be one step.
CreateTask(c, r) ==
  /\ AtRule(c, r) /\ Passes(Setting(c, r), call[c].event)
  /\ ~IsDuplicate(r, Setting(c, r), KeyFor(c, r))
  /\ call' = [call EXCEPT ![c] = [@ EXCEPT !.pc = "log", !.rule = r]]
  /\ tasks' = tasks \cup {[by |-> call[c].by, rule |-> r, key |-> KeyFor(c, r), at |-> now,
                           window |-> Window(Setting(c, r)), prior |-> Earlier(c, r)]}
  /\ Disturb(c)
  /\ UNCHANGED <<Deployment, log>>

\* Mutant: the row of a triggered event has no key.
LogWithoutKey(c) ==
  /\ call[c].pc = "log"
  /\ log' = log \cup {Row(c, call[c].rule, NoKey, "triggered")}
  /\ call' = [call EXCEPT ![c] = Ended(c, @.rule)]
  /\ Disturb(c)
  /\ UNCHANGED <<Deployment, tasks>>

LogTriggered(c) ==
  /\ call[c].pc = "log"
  /\ log' = log \cup {Row(c, call[c].rule, KeyFor(c, call[c].rule), "triggered")}
  /\ call' = [call EXCEPT ![c] = Ended(c, @.rule)]
  /\ Disturb(c)
  /\ UNCHANGED <<Deployment, tasks>>

ProcessEvent(c) ==
  \/ Query(c) \/ LogTriggered(c)
  \/ \E r \in RuleIds : Filtered(c, r) \/ Duplicate(c, r) \/ CreateTask(c, r)

\* A webhook or mock_webhook; a request that is not accepted changes nothing.
Webhook(d, e) ==
  /\ call[d].pc = "idle" /\ Accepted(e)
  /\ Begin(d, d, e, <<>>)
  /\ forecast' = [forecast EXCEPT ![d] = IF e.project = All THEN Simulate(e) ELSE Unknown]
  /\ UNCHANGED <<now, created, rules, last, log, tasks, scan, nextScan, fires, surprises>>

-----------------------------------------------------------------------------
(* The scheduler.                                                          *)

\* croniter.get_next from the last trigger, or from a minute ago, is not later
\* than the scan.
IsDue(r, at) ==
  LET base == IF last[r] = Never THEN at - 1 ELSE last[r]
  IN \E p \in rules[r].cron : base < p /\ p <= at

\* With no due rule left the loop sleeps for a minute.
GoOn(next) ==
  IF next.todo = {} THEN scan' = NoScan /\ nextScan' = now + 1
  ELSE scan' = next /\ UNCHANGED nextScan

StartScan ==
  LET found == {r \in RuleIds : Listens(rules[r], "cron") /\ rules[r].cron # {}}
  IN /\ scan = NoScan /\ now >= nextScan
     /\ GoOn([at |-> now, held |-> [r \in found |-> rules[r]],
              todo |-> {r \in found : IsDue(r, now)}, rule |-> 0])
     /\ UNCHANGED <<now, created, rules, last, call, log, tasks, fires, forecast, surprises>>

\* process_event asks all rules of the source, not only the one that is due.  A
\* scan after a crash may be in the same minute: faults tell their calls apart.
Fire(r) ==
  /\ scan.at # Never /\ scan.rule = 0 /\ r \in scan.todo
  /\ scan' = [scan EXCEPT !.rule = r]
  /\ Begin(Cron, <<scan.at, r, surprises>>, Scheduled(r, scan.at), scan.held)
  /\ fires' = fires \cup {[rule |-> r, at |-> scan.at, cron |-> scan.held[r].cron,
                           past |-> FALSE]}
  /\ UNCHANGED <<now, created, rules, last, log, tasks, nextScan, forecast, surprises>>

Past(f) == [f EXCEPT !.past = @ \/ (f.rule = scan.rule /\ f.at = scan.at)]

\* Mutant: only a task counts as a trigger.
MarkIfTask ==
  /\ call[Cron].pc = "done" /\ rules[scan.rule] # NoRule
  /\ last' = IF call[Cron].rule # 0 THEN [last EXCEPT ![scan.rule] = scan.at] ELSE last
  /\ fires' = {Past(f) : f \in fires}
  /\ GoOn([scan EXCEPT !.todo = @ \ {scan.rule}, !.rule = 0])
  /\ call' = [call EXCEPT ![Cron] = Idle]
  /\ Disturb(Cron)
  /\ UNCHANGED <<now, created, rules, log, tasks, surprises>>

\* The due rule counts as triggered, whichever rule was hit, if any.
Mark ==
  /\ call[Cron].pc = "done" /\ rules[scan.rule] # NoRule
  /\ last' = [last EXCEPT ![scan.rule] = scan.at]
  /\ fires' = {Past(f) : f \in fires}
  /\ GoOn([scan EXCEPT !.todo = @ \ {scan.rule}, !.rule = 0])
  /\ call' = [call EXCEPT ![Cron] = Idle]
  /\ Disturb(Cron)
  /\ UNCHANGED <<now, created, rules, log, tasks, surprises>>

\* Mutant: a scan that ends with an error leaves its call behind.
SleepOnly == scan' = NoScan /\ nextScan' = now + 1 /\ UNCHANGED call

Sleep == scan' = NoScan /\ nextScan' = now + 1 /\ call' = [call EXCEPT ![Cron] = Idle]

\* The row of the rule is gone: the update of no row is an error that ends the scan.
MarkFails ==
  /\ call[Cron].pc = "done" /\ rules[scan.rule] = NoRule
  /\ Sleep
  /\ UNCHANGED <<now, created, rules, last, log, tasks, fires, forecast,
                    surprises>>

-----------------------------------------------------------------------------
(* The rest of the world.                                                  *)

Surprise == surprises < MaxSurprises /\ surprises' = surprises + 1

Edit ==
  /\ Surprise
  /\ Disturb(NoRule)
  /\ UNCHANGED <<now, last, call, log, tasks, scan, nextScan, fires>>

CreateRule(s) ==
  /\ created < MaxRules /\ created' = created + 1
  /\ rules' = [rules EXCEPT ![created + 1] = s]
  /\ Edit

ChangeRule(r, s) ==
  /\ rules[r] \notin {NoRule, s}
  /\ rules' = [rules EXCEPT ![r] = s]
  /\ Edit
  /\ UNCHANGED created

UpdateRule(r, s) == ChangeRule(r, s)
DeleteRule(r) == ChangeRule(r, NoRule)

Tick ==
  /\ now < MaxTime /\ now' = now + 1
  /\ Disturb(NoRule)
  /\ UNCHANGED <<created, rules, last, call, log, tasks, scan, nextScan, fires,
                 surprises>>

\* A statement of a call fails: the request ends with an error, the scan ends.
CallFails(c) ==
  /\ Surprise
  /\ call[c].pc \in {"query", "rule", "log"}
  /\ IF c = Cron THEN Sleep
     ELSE call' = [call EXCEPT ![c] = Failed(c)] /\ UNCHANGED <<scan, nextScan>>
  /\ UNCHANGED <<now, created, rules, last, log, tasks, fires, forecast>>

\* The process dies; the scheduler of the next one scans at once.
Crash ==
  /\ Surprise
  /\ call' = [c \in Callers |->
                IF c = Cron THEN Idle
                ELSE IF call[c].pc \in {"idle", "done"} THEN call[c] ELSE Failed(c)]
  /\ scan' = NoScan /\ nextScan' = now
  /\ UNCHANGED <<now, created, rules, last, log, tasks, fires, forecast>>

Next ==
  \/ \E c \in Callers : ProcessEvent(c) \/ CallFails(c)
  \/ \E d \in Deliveries, e \in Events : Webhook(d, e)
  \/ StartScan \/ Mark \/ MarkFails
  \/ \E r \in RuleIds : Fire(r) \/ DeleteRule(r)
  \/ \E s \in Settings : CreateRule(s) \/ \E r \in RuleIds : UpdateRule(r, s)
  \/ Tick \/ Crash

Spec == Init /\ [][Next]_vars

-----------------------------------------------------------------------------
(* Properties.                                                             *)

\* A rule gets a second task for a key within its window only if the handlings of
\* the two events overlap, or the first ended before its event was logged.
DuplicatesOverlap ==
  \A t \in tasks : t.key # NoKey => \A at \in t.prior : at + t.window < t.at

\* A scan finds a rule due again only after another point of its schedule, unless
\* the earlier scan did not get past the rule.
FiresOncePerPoint ==
  \A f, g \in fires :
    f.rule = g.rule /\ f.past /\ f.at < g.at => \E p \in g.cron : f.at < p /\ p <= g.at

Outcome(c) ==
  LET mine == {row \in log : row.by = call[c].by}
      final == CHOOSE row \in mine : \A other \in mine : other.rule <= row.rule
  IN <<final.result, final.rule>>

\* What a dry run says of an event is what a delivery of the event for no project
\* does, unless time passes or somebody else writes before it ends.
ForecastHolds ==
  \A d \in Deliveries : call[d].pc = "done" /\ forecast[d] # Unknown => Outcome(d) = forecast[d]
=============================================================================
