--------------------------- MODULE TriggersProofs ---------------------------
(***************************************************************************)
(* Proofs about Triggers, for any requests, events, filters, keys and      *)
(* settings of rules, and any number of rules, faults and minutes.         *)
(***************************************************************************)
EXTENDS Triggers, TLAPS

----------------------------------------------------------------------------
(* Types.  Of the fields that no property compares with anything, the      *)
(* invariant says only that they are there.                                *)

CallFields(x) == [pc |-> x.pc, by |-> x.by, event |-> x.event, held |-> x.held, todo |-> x.todo,
                  rule |-> x.rule, prior |-> x.prior]
ScanFields(x) == [at |-> x.at, held |-> x.held, todo |-> x.todo, rule |-> x.rule]
FireFields(f) == [rule |-> f.rule, at |-> f.at, cron |-> f.cron, past |-> f.past]

\* Settings of rules that are there, as a session holds them.
Holds(held, n) == DOMAIN held \subseteq 1 .. n /\ \A r \in DOMAIN held : held[r] \in Settings

CallTyped(x, n) ==
    /\ x = CallFields(x)
    /\ x.pc \in {"idle", "query", "rule", "log", "done", "failed"}
    /\ Holds(x.held, n) /\ x.todo \subseteq DOMAIN x.held
    /\ x.pc \in {"query", "rule"} => x.rule = 0
    /\ x.pc = "log" => x.rule \in x.todo

ScanTyped ==
    /\ scan = ScanFields(scan)
    /\ scan.at \in 0 .. now \cup {Never}
    /\ scan.at = Never => scan.todo = {} /\ scan.rule = 0
    /\ Holds(scan.held, created) /\ scan.todo \subseteq DOMAIN scan.held
    /\ scan.rule \in scan.todo \cup {0}

Typed ==
    /\ now \in 0 .. MaxTime /\ nextScan \in 0 .. MaxTime + 1
    /\ created \in 0 .. MaxRules /\ surprises \in Nat
    /\ rules \in [RuleIds -> Settings \cup {NoRule}]
    /\ \A r \in RuleIds : r > created => rules[r] = NoRule
    /\ last \in [RuleIds -> 0 .. MaxTime \cup {Never}]
    /\ call = [c \in Callers |-> call[c]] /\ \A c \in Callers : CallTyped(call[c], created)
    /\ forecast = [c \in Callers |-> forecast[c]]
    /\ \A row \in log : row.at \in 0 .. now /\ row.result \in Results
    /\ \A t \in tasks : t.rule \in 1 .. created /\ t.at \in 0 .. now
    /\ ScanTyped
    /\ call[Cron].pc # "idle" => scan.rule # 0
    /\ \A f \in fires :
          f = FireFields(f) /\ f.rule \in 1 .. created /\ f.at \in 0 .. now /\ f.cron \subseteq Nat

----------------------------------------------------------------------------
(* One call, one task.                                                     *)

\* A name that the scheduler has given to a call will not be given again.
Spent(at, r, n) ==
    /\ at <= now /\ n <= surprises
    /\ n = surprises =>
          IF scan.at = Never THEN at < nextScan
          ELSE at < scan.at \/ (at = scan.at /\ r \notin scan.todo \ {scan.rule})

Names ==
    /\ \A d \in Deliveries : call[d].pc # "idle" => call[d].by = d
    /\ call[Cron].pc # "idle" => call[Cron].by \in {scan.at} \X {scan.rule} \X (0 .. surprises)
    /\ \A x \in tasks \cup log :
          \/ x.by \in Deliveries /\ call[x.by].pc # "idle"
          \/ x.by \in Nat \X Nat \X Nat /\ Spent(x.by[1], x.by[2], x.by[3])

\* A call has no task before it hits a rule, and no row of a hit before it has
\* the task; the row has the rule and the key of the task.
OneTask(c) ==
    /\ call[c].pc \in {"query", "rule"} => \A t \in tasks : t.by # call[c].by
    /\ call[c].pc = "log" =>
          \A t \in tasks : t.by = call[c].by => t.rule = call[c].rule /\ t.key = KeyFor(c, t.rule)
    /\ call[c].pc \in {"query", "rule", "log"} =>
          \A row \in log : row.by = call[c].by => row.result # "triggered"
    /\ call[c].prior \subseteq {row \in log : row.result = "triggered"}

RowsOfTasks ==
    \A row \in log, t \in tasks :
        row.result = "triggered" /\ t.by = row.by => t.rule = row.rule /\ t.key = row.key

TaskInv == Names /\ (\A c \in Callers : OneTask(c)) /\ RowsOfTasks /\ DuplicatesOverlap

----------------------------------------------------------------------------
(* The scans.                                                              *)

\* What is due in a scan has a point of its schedule after its last trigger,
\* which is not before any scan that got past the rule.
ScanInv ==
    /\ \A f \in fires : f.past => f.at <= last[f.rule]
    /\ scan.at # Never =>
          /\ \A f \in fires : f.at <= scan.at
          /\ \A r \in scan.todo : \E p \in scan.held[r].cron : last[r] < p /\ p <= scan.at
    /\ FiresOncePerPoint

----------------------------------------------------------------------------
(* Forecasts.                                                              *)

Matched(e) == {r \in RuleIds : Listens(rules[r], e.source) /\ OfType(rules[r], e)}

\* The call of d has done with some rules, in order, what the dry run foresaw.
Foreseen(d) ==
  LET e == call[d].event
      todo == call[d].todo
      mine == {row \in log : row.by = d}
  IN forecast[d] # Unknown =>
       /\ call[d].pc # "idle"
       /\ call[d].pc = "query" =>
            /\ forecast[d] = Simulate(e) /\ e.project = All
            /\ DOMAIN call[d].held = {} /\ mine = {}
       /\ call[d].pc = "rule" =>
            /\ forecast[d] = Simulate(e)
            /\ todo # {} /\ todo \subseteq Matched(e)
            /\ \A r \in todo : Setting(d, r) = rules[r]
            /\ \A r \in Matched(e) \ todo : /\ Verdict(r, e) # "triggered"
                                            /\ \A q \in todo : r < q
            /\ \A row \in mine : row.rule \in Matched(e) \ todo
       /\ call[d].pc = "log" =>
            /\ forecast[d] = <<"triggered", call[d].rule>>
            /\ \A row \in mine : row.rule \in RuleIds /\ row.rule < call[d].rule
       /\ call[d].pc = "done" => Outcome(d) = forecast[d]

TriggerInv == TaskInv /\ ScanInv /\ \A d \in Deliveries : Foreseen(d)

LEMMA Parts == Typed => TypeOK
  BY DEF Typed, TypeOK, CallTyped, ScanTyped, Holds

----------------------------------------------------------------------------
(* The types are kept.                                                     *)

\* One call changes.
LEMMA CallChanges ==
  ASSUME Typed, NEW c \in Callers, NEW x, call' = [call EXCEPT ![c] = x], CallTyped(x, created)
  PROVE  /\ call' = [d \in Callers |-> call'[d]]
         /\ \A d \in Callers : CallTyped(call'[d], created)
         /\ call'[c] = x /\ \A d \in Callers : d # c => call'[d] = call[d]
<1>1. call = [d \in Callers |-> call[d]] /\ \A d \in Callers : CallTyped(call[d], created)
  BY DEF Typed
<1>2. call' = [d \in Callers |-> IF d = c THEN x ELSE call[d]]
  BY <1>1
<1>. QED
  BY <1>1, <1>2

LEMMA IdleTyped == CallTyped(Idle, created)
  BY DEF CallTyped, Idle, CallFields, Holds

\* What a call is when it is over.
LEMMA EndedTyped ==
  ASSUME NEW c, NEW r
  PROVE  /\ CallTyped(Ended(c, r), created) /\ CallTyped(Failed(c), created)
         /\ Ended(c, r).pc = "done" /\ Ended(c, r).by = call[c].by /\ Ended(c, r).rule = r
         /\ Ended(c, r).prior = {}
         /\ Failed(c).pc = "failed" /\ Failed(c).by = call[c].by /\ Failed(c).prior = {}
<1>1. ASSUME NEW x, x = Ended(c, r) \/ x = Failed(c)
      PROVE  x = CallFields(x) /\ x.held = <<>> /\ x.todo = {} /\ x.pc \in {"done", "failed"}
  BY <1>1 DEF Ended, Failed, Idle, CallFields
<1>2. /\ Ended(c, r).pc = "done" /\ Ended(c, r).by = call[c].by /\ Ended(c, r).rule = r
      /\ Ended(c, r).prior = {}
      /\ Failed(c).pc = "failed" /\ Failed(c).by = call[c].by /\ Failed(c).prior = {}
  BY DEF Ended, Failed, Idle
<1>. HIDE DEF Ended, Failed
<1>3. ASSUME NEW x, x = Ended(c, r) \/ x = Failed(c)
      PROVE  CallTyped(x, created)
  BY <1>1, <1>3 DEF CallTyped, Holds
<1>. QED
  BY <1>2, <1>3

LEMMA Numbers ==
  ASSUME Typed
  PROVE  /\ now \in Nat /\ now =< MaxTime /\ created \in Nat /\ created =< MaxRules /\ surprises \in Nat
         /\ MaxRules \in Nat /\ MaxTime \in Nat /\ nextScan \in Nat /\ 1 .. created \subseteq RuleIds
  BY BoundsAreNat DEF Typed, RuleIds

LEMMA Calls ==
  ASSUME Typed, NEW c \in Callers
  PROVE  /\ call = [d \in Callers |-> call[d]] /\ CallTyped(call[c], created)
         /\ call[c].todo \subseteq DOMAIN call[c].held /\ DOMAIN call[c].held \subseteq 1 .. created
         /\ \A r \in DOMAIN call[c].held : call[c].held[r] \in Settings
  BY DEF Typed, CallTyped, Holds

\* A call changes, and rows and tasks are added.
LEMMA CallWrites ==
  ASSUME Typed, NEW c \in Callers, NEW x, call' = [call EXCEPT ![c] = x], CallTyped(x, created),
         c # Cron \/ call[c].pc # "idle" \/ x.pc = "idle",
         UNCHANGED <<now, created, rules, last, scan, nextScan, fires>>, surprises' \in Nat,
         forecast' = [d \in Callers |-> forecast'[d]],
         \A row \in log' : row \in log \/ (row.at \in 0 .. now /\ row.result \in Results),
         \A t \in tasks' : t \in tasks \/ (t.rule \in 1 .. created /\ t.at \in 0 .. now)
  PROVE  Typed'
<1>1. /\ call' = [d \in Callers |-> call'[d]]
      /\ \A d \in Callers : CallTyped(call'[d], created)
      /\ call'[Cron].pc # "idle" => scan.rule # 0
  BY CallChanges DEF Typed, Callers
<1>2. ScanTyped'
  BY DEF Typed, ScanTyped
<1>. QED
  BY <1>1, <1>2 DEF Typed

LEMMA RowTyped ==
  ASSUME NEW c, NEW r, NEW key, NEW result, now \in Nat, result \in Results
  PROVE  /\ Row(c, r, key, result).at \in 0 .. now /\ Row(c, r, key, result).result = result
         /\ Row(c, r, key, result).by = call[c].by /\ Row(c, r, key, result).rule = r
         /\ Row(c, r, key, result).key = key
  BY DEF Row

LEMMA Disturbs ==
  ASSUME NEW c
  PROVE  /\ Disturb(c) => forecast' = [d \in Callers |-> forecast'[d]]
         /\ Typed /\ UNCHANGED forecast => forecast' = [d \in Callers |-> forecast'[d]]
         /\ Disturb(c) => \A d \in Callers : forecast'[d] = IF d = c THEN forecast[d] ELSE Unknown
  BY DEF Disturb, Typed

\* What Query and Skip make of a call.
LEMMA QueryTyped ==
  ASSUME Typed, NEW c \in Callers, NEW found \in SUBSET RuleIds, NEW matched \in SUBSET found,
         \A r \in found : rules[r] # NoRule, NEW held, NEW more,
         held = [r \in found \cup DOMAIN call[c].held |->
                   IF r \in DOMAIN call[c].held THEN call[c].held[r] ELSE rules[r]],
         more = [call[c] EXCEPT !.pc = "rule", !.held = held, !.todo = matched],
         call[c].pc = "query"
  PROVE  CallTyped(more, created)
<1>1. Holds(held, created)
  <2>1. DOMAIN held = found \cup DOMAIN call[c].held
    OBVIOUS
  <2>2. ASSUME NEW r \in found
        PROVE  r \in 1 .. created /\ rules[r] \in Settings
    BY Numbers DEF Typed, RuleIds
  <2>. QED
    BY <2>1, <2>2, Calls DEF Holds
<1>2. call[c] = CallFields(call[c]) /\ call[c].rule = 0
  BY Calls DEF CallTyped
<1>3. /\ more = CallFields(more) /\ more.pc = "rule" /\ more.held = held /\ more.todo = matched
      /\ more.rule = call[c].rule
  BY <1>2 DEF CallFields
<1>4. matched \subseteq DOMAIN held
  OBVIOUS
<1>. QED
  BY <1>1, <1>2, <1>3, <1>4 DEF CallTyped

LEMMA SkipTyped ==
  ASSUME Typed, NEW c \in Callers, NEW r, NEW less,
         less = [call[c] EXCEPT !.todo = @ \ {r}]
  PROVE  /\ CallTyped(less, created) \/ call[c].pc = "log"
         /\ less.pc = call[c].pc /\ less.by = call[c].by /\ less.event = call[c].event
         /\ less.held = call[c].held /\ less.todo = call[c].todo \ {r}
         /\ less.rule = call[c].rule /\ less.prior = call[c].prior
<1>1. call[c] = CallFields(call[c])
  BY Calls DEF CallTyped
<1>2. /\ less = CallFields(less)
      /\ less.pc = call[c].pc /\ less.by = call[c].by /\ less.event = call[c].event
      /\ less.held = call[c].held /\ less.todo = call[c].todo \ {r}
      /\ less.rule = call[c].rule /\ less.prior = call[c].prior
  BY <1>1 DEF CallFields
<1>. QED
  BY <1>2, Calls DEF CallTyped

LEMMA HitTyped ==
  ASSUME Typed, NEW c \in Callers, NEW r \in call[c].todo, NEW hit,
         hit = [call[c] EXCEPT !.pc = "log", !.rule = r]
  PROVE  /\ CallTyped(hit, created)
         /\ hit.pc = "log" /\ hit.by = call[c].by /\ hit.event = call[c].event
         /\ hit.held = call[c].held /\ hit.todo = call[c].todo
         /\ hit.rule = r /\ hit.prior = call[c].prior
<1>1. call[c] = CallFields(call[c])
  BY Calls DEF CallTyped
<1>2. /\ hit = CallFields(hit)
      /\ hit.pc = "log" /\ hit.by = call[c].by /\ hit.event = call[c].event
      /\ hit.held = call[c].held /\ hit.todo = call[c].todo
      /\ hit.rule = r /\ hit.prior = call[c].prior
  BY <1>1 DEF CallFields
<1>. QED
  BY <1>2, Calls DEF CallTyped

\* The process of an event keeps the types.
LEMMA CallStep ==
  ASSUME Typed, NEW c \in Callers, ProcessEvent(c)
  PROVE  Typed'
<1>1. ASSUME Query(c)
      PROVE  Typed'
  <2>. DEFINE e == call[c].event
              found == {r \in RuleIds : /\ Listens(rules[r], e.source)
                                        /\ e.project \in {All, rules[r].project}}
              held == [r \in found \cup DOMAIN call[c].held |->
                         IF r \in DOMAIN call[c].held THEN call[c].held[r] ELSE rules[r]]
              matched == {r \in found : OfType(held[r], e)}
              more == [call[c] EXCEPT !.pc = "rule", !.held = held, !.todo = matched]
              x == IF matched = {} THEN Ended(c, 0) ELSE more
              row == Row(c, 0, NoKey, "skipped_no_rule")
  <2>1. /\ call[c].pc = "query"
        /\ call' = [call EXCEPT ![c] = x]
        /\ log' = IF matched = {} THEN log \cup {row} ELSE log
        /\ Disturb(c) \/ UNCHANGED forecast
        /\ UNCHANGED <<now, created, rules, last, scan, nextScan, fires, surprises, tasks>>
    BY <1>1 DEF Query, Deployment
  <2>2. found \in SUBSET RuleIds /\ matched \in SUBSET found /\ \A r \in found : rules[r] # NoRule
    BY DEF Listens
  <2>3. CallTyped(more, created)
    <3>. HIDE DEF found, matched
    <3>. QED
      BY <2>1, <2>2, QueryTyped
  <2>4. CallTyped(x, created)
    BY <2>3, EndedTyped
  <2>5. row.at \in 0 .. now /\ row.result \in Results
    BY Numbers, RowTyped DEF Results
  <2>6. forecast' = [d \in Callers |-> forecast'[d]]
    BY <2>1, Disturbs
  <2>. HIDE DEF x, row, matched
  <2>. QED
    BY <2>1, <2>4, <2>5, <2>6, CallWrites, Numbers
<1>2. ASSUME LogTriggered(c)
      PROVE  Typed'
  <2>. DEFINE x == Ended(c, call[c].rule)
              row == Row(c, call[c].rule, KeyFor(c, call[c].rule), "triggered")
  <2>1. /\ call[c].pc = "log" /\ call' = [call EXCEPT ![c] = x] /\ log' = log \cup {row}
        /\ Disturb(c)
        /\ UNCHANGED <<now, created, rules, last, scan, nextScan, fires, surprises, tasks>>
    BY <1>2, Calls DEF LogTriggered, Deployment
  <2>2. CallTyped(x, created)
    BY EndedTyped
  <2>3. row.at \in 0 .. now /\ row.result \in Results
    BY Numbers, RowTyped DEF Results
  <2>4. forecast' = [d \in Callers |-> forecast'[d]]
    BY <2>1, Disturbs
  <2>. HIDE DEF x, row
  <2>. QED
    BY <2>1, <2>2, <2>3, <2>4, CallWrites, Numbers
<1>3. ASSUME NEW r \in RuleIds, NEW key, NEW result \in Results,
             AtRule(c, r), Skip(c, r, key, result)
      PROVE  Typed'
  <2>. DEFINE less == [call[c] EXCEPT !.todo = @ \ {r}]
              x == IF call[c].todo = {r} THEN Ended(c, 0) ELSE less
              row == Row(c, r, key, result)
  <2>1. /\ call[c].pc = "rule" /\ call' = [call EXCEPT ![c] = x] /\ log' = log \cup {row}
        /\ Disturb(c)
        /\ UNCHANGED <<now, created, rules, last, scan, nextScan, fires, surprises, tasks>>
    BY <1>3 DEF Skip, AtRule, Deployment
  <2>2. CallTyped(x, created)
    BY <2>1, EndedTyped, SkipTyped
  <2>3. row.at \in 0 .. now /\ row.result \in Results
    BY Numbers, RowTyped
  <2>4. forecast' = [d \in Callers |-> forecast'[d]]
    BY <2>1, Disturbs
  <2>. HIDE DEF x, row
  <2>. QED
    BY <2>1, <2>2, <2>3, <2>4, CallWrites, Numbers
<1>4. ASSUME NEW r \in RuleIds, CreateTask(c, r)
      PROVE  Typed'
  <2>. DEFINE x == [call[c] EXCEPT !.pc = "log", !.rule = r]
              t == [by |-> call[c].by, rule |-> r, key |-> KeyFor(c, r), at |-> now,
                    window |-> Window(Setting(c, r)), prior |-> Earlier(c, r)]
  <2>1. /\ call[c].pc = "rule" /\ r \in call[c].todo /\ call' = [call EXCEPT ![c] = x]
        /\ tasks' = tasks \cup {t} /\ Disturb(c)
        /\ UNCHANGED <<now, created, rules, last, scan, nextScan, fires, surprises, log>>
    BY <1>4, Calls DEF CreateTask, AtRule, Least, Deployment
  <2>2. CallTyped(x, created)
    BY <2>1, HitTyped
  <2>3. t.rule \in 1 .. created /\ t.at \in 0 .. now
    BY <2>1, Calls, Numbers
  <2>4. forecast' = [d \in Callers |-> forecast'[d]]
    BY <2>1, Disturbs
  <2>. HIDE DEF x, t
  <2>. QED
    BY <2>1, <2>2, <2>3, <2>4, CallWrites, Numbers
<1>. QED
  BY <1>1, <1>2, <1>3, <1>4 DEF ProcessEvent, Filtered, Duplicate, Results

LEMMA NoScanTyped ==
  /\ NoScan = ScanFields(NoScan) /\ NoScan.at = Never /\ NoScan.todo = {} /\ NoScan.rule = 0
  /\ DOMAIN NoScan.held = {}
  BY DEF NoScan, ScanFields

\* A call begins.
LEMMA BeginTyped ==
  ASSUME NEW by, NEW e, NEW held, Holds(held, created)
  PROVE  /\ CallTyped(Begun(by, e, held), created)
         /\ Begun(by, e, held).pc = "query" /\ Begun(by, e, held).by = by
         /\ Begun(by, e, held).event = e /\ Begun(by, e, held).held = held
         /\ Begun(by, e, held).prior = {row \in log : row.result = "triggered"}
<1>1. ASSUME NEW x, x = Begun(by, e, held)
      PROVE  /\ x = CallFields(x) /\ x.pc = "query" /\ x.by = by /\ x.event = e /\ x.held = held
             /\ x.prior = {row \in log : row.result = "triggered"} /\ x.todo = {} /\ x.rule = 0
  BY <1>1 DEF Begun, Idle, CallFields
<1>. QED
  BY <1>1 DEF CallTyped

LEMMA WebhookStep ==
  ASSUME Typed, NEW d \in Deliveries, NEW e, Webhook(d, e)
  PROVE  Typed'
<1>. DEFINE x == Begun(d, e, <<>>)
<1>1. /\ call' = [call EXCEPT ![d] = x]
      /\ forecast' = [forecast EXCEPT ![d] = IF e.project = All THEN Simulate(e) ELSE Unknown]
      /\ UNCHANGED <<now, created, rules, last, log, tasks, scan, nextScan, fires, surprises>>
  BY DEF Webhook, Begin
<1>2. d \in Callers /\ d # Cron /\ Holds(<<>>, created)
  BY CallsHaveNames DEF Callers, Holds
<1>3. CallTyped(x, created)
  BY <1>2, BeginTyped
<1>4. forecast' = [c \in Callers |-> forecast'[c]]
  BY <1>1, <1>2 DEF Typed
<1>. HIDE DEF x
<1>. QED
  BY <1>1, <1>2, <1>3, <1>4, CallWrites, Numbers

\* A scan ends with an error.
LEMMA SleepStep ==
  ASSUME Typed, Sleep, UNCHANGED <<now, created, rules, last, log, tasks, fires, forecast>>,
         surprises' \in Nat
  PROVE  Typed'
<1>1. call' = [call EXCEPT ![Cron] = Idle] /\ scan' = NoScan /\ nextScan' = now + 1
  BY DEF Sleep
<1>2. /\ call' = [d \in Callers |-> call'[d]]
      /\ \A d \in Callers : CallTyped(call'[d], created)
      /\ call'[Cron].pc = "idle"
  <2>1. Idle.pc = "idle" /\ Cron \in Callers
    BY DEF Idle, Callers
  <2>. HIDE DEF Idle
  <2>. QED
    BY <1>1, <2>1, CallChanges, IdleTyped
<1>3. ScanTyped'
  BY <1>1, NoScanTyped DEF ScanTyped, Holds
<1>4. nextScan' \in 0 .. MaxTime + 1
  BY <1>1, Numbers
<1>. QED
  BY <1>2, <1>3, <1>4 DEF Typed

LEMMA CallFailsStep ==
  ASSUME Typed, NEW c \in Callers, CallFails(c)
  PROVE  Typed'
<1>1. /\ surprises' \in Nat /\ call[c].pc # "idle"
      /\ UNCHANGED <<now, created, rules, last, log, tasks, fires, forecast>>
  BY Numbers DEF CallFails, Surprise
<1>2. CASE c = Cron
  BY <1>1, <1>2, SleepStep DEF CallFails
<1>3. CASE c # Cron
  <2>1. call' = [call EXCEPT ![c] = Failed(c)] /\ UNCHANGED <<scan, nextScan>>
    BY <1>3 DEF CallFails
  <2>2. CallTyped(Failed(c), created)
    BY EndedTyped
  <2>3. forecast' = [d \in Callers |-> forecast'[d]]
    BY <1>1, Disturbs
  <2>. HIDE DEF Failed
  <2>. QED
    BY <1>1, <1>3, <2>1, <2>2, <2>3, CallWrites, Numbers
<1>. QED
  BY <1>2, <1>3

\* A scan goes on, or its last rule is done.
LEMMA GoOnTyped ==
  ASSUME Typed, NEW next, GoOn(next), UNCHANGED <<now, created>>,
         next = ScanFields(next), next.at \in 0 .. now, next.rule = 0,
         Holds(next.held, created), next.todo \subseteq DOMAIN next.held
  PROVE  /\ ScanTyped' /\ nextScan' \in 0 .. MaxTime + 1 /\ scan'.rule = 0
         /\ \/ scan' = next /\ nextScan' = nextScan /\ next.todo # {}
            \/ scan' = NoScan /\ nextScan' = now + 1
<1>1. CASE next.todo = {}
  <2>1. scan' = NoScan /\ nextScan' = now + 1
    BY <1>1 DEF GoOn
  <2>2. ScanTyped'
    BY <2>1, NoScanTyped DEF ScanTyped, Holds
  <2>. QED
    BY <2>1, <2>2, NoScanTyped, Numbers
<1>2. CASE next.todo # {}
  <2>1. scan' = next /\ nextScan' = nextScan
    BY <1>2 DEF GoOn
  <2>2. next.at # Never
    BY Numbers DEF Never
  <2>3. ScanTyped'
    BY <2>1, <2>2 DEF ScanTyped
  <2>. QED
    BY <1>2, <2>1, <2>3 DEF Typed
<1>. QED
  BY <1>1, <1>2

LEMMA StartScanStep ==
  ASSUME Typed, StartScan
  PROVE  Typed'
<1>. DEFINE found == {r \in RuleIds : Listens(rules[r], "cron") /\ rules[r].cron # {}}
            next == [at |-> now, held |-> [r \in found |-> rules[r]],
                     todo |-> {r \in found : IsDue(r, now)}, rule |-> 0]
<1>1. /\ scan = NoScan /\ now >= nextScan /\ GoOn(next)
      /\ UNCHANGED <<now, created, rules, last, call, log, tasks, fires, forecast, surprises>>
  BY DEF StartScan
<1>2. /\ next = ScanFields(next) /\ next.at = now /\ next.rule = 0
      /\ next.held = [r \in found |-> rules[r]] /\ next.todo \subseteq found
  BY DEF ScanFields
<1>3. \A r \in found : r \in 1 .. created /\ rules[r] \in Settings
  BY Numbers DEF Typed, Listens, RuleIds
<1>. HIDE DEF found
<1>4. Holds(next.held, created) /\ next.todo \subseteq DOMAIN next.held
  BY <1>2, <1>3 DEF Holds
<1>. HIDE DEF next
<1>5. ScanTyped' /\ nextScan' \in 0 .. MaxTime + 1 /\ scan'.rule = 0
  BY <1>1, <1>2, <1>4, GoOnTyped, Numbers
<1>6. call[Cron].pc = "idle"
  BY <1>1, NoScanTyped DEF Typed
<1>. QED
  BY <1>1, <1>5, <1>6 DEF Typed

LEMMA FireStep ==
  ASSUME Typed, NEW r \in RuleIds, Fire(r)
  PROVE  Typed'
<1>. DEFINE by == <<scan.at, r, surprises>>
            e == Scheduled(r, scan.at)
            x == Begun(by, e, scan.held)
            f == [rule |-> r, at |-> scan.at, cron |-> scan.held[r].cron, past |-> FALSE]
<1>1. /\ scan.at # Never /\ scan.rule = 0 /\ r \in scan.todo /\ scan' = [scan EXCEPT !.rule = r]
      /\ call' = [call EXCEPT ![Cron] = x] /\ fires' = fires \cup {f}
      /\ UNCHANGED <<now, created, rules, last, log, tasks, nextScan, forecast, surprises>>
  BY DEF Fire, Begin
<1>2. /\ scan = ScanFields(scan) /\ Holds(scan.held, created) /\ scan.todo \subseteq DOMAIN scan.held
      /\ scan.at \in 0 .. now
  BY <1>1 DEF Typed, ScanTyped
<1>3. /\ scan' = ScanFields(scan') /\ scan'.rule = r /\ scan'.at = scan.at
      /\ scan'.held = scan.held /\ scan'.todo = scan.todo
  BY <1>1, <1>2 DEF ScanFields
<1>4. ScanTyped'
  BY <1>1, <1>2, <1>3 DEF ScanTyped
<1>5. CallTyped(x, created)
  BY <1>2, BeginTyped
<1>6. /\ call' = [d \in Callers |-> call'[d]]
      /\ \A d \in Callers : CallTyped(call'[d], created)
  <2>. HIDE DEF x
  <2>. QED
    BY <1>1, <1>5, CallChanges DEF Callers
<1>7. f = FireFields(f) /\ f.rule \in 1 .. created /\ f.at \in 0 .. now /\ f.cron \subseteq Nat
  BY <1>1, <1>2, SettingsHaveFields DEF FireFields, Holds
<1>8. r # 0
  BY DEF RuleIds
<1>. HIDE DEF f
<1>. QED
  BY <1>1, <1>3, <1>4, <1>6, <1>7, <1>8 DEF Typed

LEMMA PastTyped ==
  ASSUME NEW f, f = FireFields(f)
  PROVE  /\ Past(f) = FireFields(Past(f))
         /\ Past(f).rule = f.rule /\ Past(f).at = f.at /\ Past(f).cron = f.cron
         /\ Past(f).past = (f.past \/ (f.rule = scan.rule /\ f.at = scan.at))
<1>1. ASSUME NEW g, g = Past(f)
      PROVE  /\ g = FireFields(g) /\ g.rule = f.rule /\ g.at = f.at /\ g.cron = f.cron
             /\ g.past = (f.past \/ (f.rule = scan.rule /\ f.at = scan.at))
  BY <1>1 DEF FireFields, Past
<1>. QED
  BY <1>1

\* What is left of a scan.
LEMMA RestTyped ==
  ASSUME Typed, scan.at # Never, NEW next, next = [scan EXCEPT !.todo = @ \ {scan.rule}, !.rule = 0]
  PROVE  /\ next = ScanFields(next) /\ next.at = scan.at /\ next.rule = 0
         /\ next.held = scan.held /\ next.todo = scan.todo \ {scan.rule}
         /\ next.at \in 0 .. now /\ Holds(next.held, created) /\ next.todo \subseteq DOMAIN next.held
<1>1. scan = ScanFields(scan) /\ Holds(scan.held, created) /\ scan.todo \subseteq DOMAIN scan.held
  BY DEF Typed, ScanTyped
<1>2. /\ next = ScanFields(next) /\ next.at = scan.at /\ next.rule = 0
      /\ next.held = scan.held /\ next.todo = scan.todo \ {scan.rule}
  BY <1>1 DEF ScanFields
<1>. QED
  BY <1>1, <1>2 DEF Typed, ScanTyped

LEMMA MarkStep ==
  ASSUME Typed, Mark
  PROVE  Typed'
<1>. DEFINE next == [scan EXCEPT !.todo = @ \ {scan.rule}, !.rule = 0]
<1>1. /\ call[Cron].pc = "done" /\ last' = [last EXCEPT ![scan.rule] = scan.at]
      /\ fires' = {Past(f) : f \in fires} /\ GoOn(next)
      /\ call' = [call EXCEPT ![Cron] = Idle] /\ Disturb(Cron)
      /\ UNCHANGED <<now, created, rules, log, tasks, surprises>>
  BY DEF Mark
<1>2. scan.at # Never /\ scan.rule \in RuleIds /\ scan.at \in 0 .. MaxTime
  BY <1>1, Numbers DEF Typed, ScanTyped, Holds, RuleIds
<1>3. last' \in [RuleIds -> 0 .. MaxTime \cup {Never}]
  BY <1>1, <1>2 DEF Typed
<1>4. \A f \in fires' :
          f = FireFields(f) /\ f.rule \in 1 .. created /\ f.at \in 0 .. now /\ f.cron \subseteq Nat
  BY <1>1, PastTyped DEF Typed
<1>5. ScanTyped' /\ nextScan' \in 0 .. MaxTime + 1
  <2>1. ASSUME NEW n, n = next
        PROVE  ScanTyped' /\ nextScan' \in 0 .. MaxTime + 1
    BY <1>1, <1>2, <2>1, RestTyped, GoOnTyped
  <2>. QED
    BY <2>1
<1>6. /\ call' = [d \in Callers |-> call'[d]]
      /\ \A d \in Callers : CallTyped(call'[d], created)
      /\ call'[Cron].pc = "idle"
  <2>1. Idle.pc = "idle" /\ Cron \in Callers
    BY DEF Idle, Callers
  <2>. HIDE DEF Idle
  <2>. QED
    BY <1>1, <2>1, CallChanges, IdleTyped
<1>7. forecast' = [d \in Callers |-> forecast'[d]]
  BY <1>1, Disturbs
<1>. QED
  BY <1>1, <1>3, <1>4, <1>5, <1>6, <1>7 DEF Typed

LEMMA CrashStep ==
  ASSUME Typed, Crash
  PROVE  Typed'
<1>1. /\ call' = [c \in Callers |-> IF c = Cron THEN Idle
                                    ELSE IF call[c].pc \in {"idle", "done"} THEN call[c] ELSE Failed(c)]
      /\ scan' = NoScan /\ nextScan' = now /\ surprises' \in Nat
      /\ UNCHANGED <<now, created, rules, last, log, tasks, fires, forecast>>
  BY Numbers DEF Crash, Surprise
<1>2. ScanTyped' /\ nextScan' \in 0 .. MaxTime + 1
  BY <1>1, NoScanTyped, Numbers DEF ScanTyped, Holds
<1>3. ASSUME NEW c \in Callers
      PROVE  CallTyped(call'[c], created) /\ (c = Cron => call'[c].pc = "idle")
  <2>1. Idle.pc = "idle"
    BY DEF Idle
  <2>. HIDE DEF Idle, Failed
  <2>. QED
    BY <1>1, <2>1, IdleTyped, EndedTyped, Calls
<1>. QED
  BY <1>1, <1>2, <1>3 DEF Typed, Callers

\* Rules are created, changed and deleted, and time passes.
LEMMA WorldStep ==
  ASSUME Typed, UNCHANGED <<last, call, log, tasks, scan, nextScan, fires>>, surprises' \in Nat,
         forecast' = [d \in Callers |-> forecast'[d]],
         now' \in now .. MaxTime, created' \in created .. MaxRules,
         rules' \in [RuleIds -> Settings \cup {NoRule}],
         \A r \in RuleIds : r > created' => rules'[r] = NoRule
  PROVE  Typed'
<1>1. now' \in Nat /\ created' \in Nat /\ now =< now' /\ created =< created'
  BY Numbers
<1>2. \A held : Holds(held, created) => Holds(held, created')
  BY <1>1, Numbers DEF Holds
<1>3. ScanTyped'
  BY <1>1, <1>2, Numbers DEF Typed, ScanTyped
<1>4. \A c \in Callers : CallTyped(call[c], created')
  BY <1>2 DEF Typed, CallTyped
<1>5. /\ \A row \in log : row.at \in 0 .. now' /\ row.result \in Results
      /\ \A t \in tasks : t.rule \in 1 .. created' /\ t.at \in 0 .. now'
      /\ \A f \in fires :
            f = FireFields(f) /\ f.rule \in 1 .. created' /\ f.at \in 0 .. now' /\ f.cron \subseteq Nat
  BY <1>1, Numbers DEF Typed
<1>. QED
  BY <1>1, <1>3, <1>4, <1>5, Numbers DEF Typed

LEMMA RulesStep ==
  ASSUME Typed, \/ \E s \in Settings : CreateRule(s) \/ \E r \in RuleIds : UpdateRule(r, s)
                \/ \E r \in RuleIds : DeleteRule(r)
                \/ Tick
  PROVE  Typed'
<1>1. ASSUME NEW c, Disturb(c)
      PROVE  forecast' = [d \in Callers |-> forecast'[d]]
  BY <1>1, Disturbs
<1>2. ASSUME NEW s \in Settings, CreateRule(s)
      PROVE  Typed'
  <2>1. /\ created < MaxRules /\ created' = created + 1 /\ rules' = [rules EXCEPT ![created + 1] = s]
        /\ Disturb(NoRule) /\ surprises' = surprises + 1
        /\ UNCHANGED <<now, last, call, log, tasks, scan, nextScan, fires>>
    BY <1>2 DEF CreateRule, Edit, Surprise
  <2>2. rules' \in [RuleIds -> Settings \cup {NoRule}] /\ \A r \in RuleIds : r > created' => rules'[r] = NoRule
    BY <2>1, Numbers DEF Typed, RuleIds
  <2>. QED
    BY <1>1, <2>1, <2>2, Numbers, WorldStep
<1>3. ASSUME NEW r \in RuleIds, NEW s \in Settings \cup {NoRule}, ChangeRule(r, s)
      PROVE  Typed'
  <2>1. /\ rules[r] # NoRule /\ rules' = [rules EXCEPT ![r] = s]
        /\ Disturb(NoRule) /\ surprises' = surprises + 1
        /\ UNCHANGED <<now, created, last, call, log, tasks, scan, nextScan, fires>>
    BY <1>3 DEF ChangeRule, Edit, Surprise
  <2>2. rules' \in [RuleIds -> Settings \cup {NoRule}] /\ \A q \in RuleIds : q > created' => rules'[q] = NoRule
    BY <2>1, Numbers DEF Typed
  <2>. QED
    BY <1>1, <2>1, <2>2, Numbers, WorldStep
<1>4. ASSUME Tick
      PROVE  Typed'
  BY <1>1, <1>4, Numbers, WorldStep DEF Tick, Typed
<1>. QED
  BY <1>2, <1>3, <1>4 DEF UpdateRule, DeleteRule

LEMMA TypesHold == Spec => []Typed
<1>1. Init => Typed
  <2>. SUFFICES ASSUME Init
                PROVE  Typed
    OBVIOUS
  <2>1. PICK given \in InitialRules :
          created = Len(given) /\ rules = [r \in RuleIds |-> IF r <= created THEN given[r] ELSE NoRule]
    BY DEF Init
  <2>2. given \in Seq(Settings) /\ created \in 0 .. MaxRules /\ MaxRules \in Nat /\ MaxTime \in Nat
    BY <2>1, SettingsHaveFields, BoundsAreNat
  <2>3. rules \in [RuleIds -> Settings \cup {NoRule}] /\ \A r \in RuleIds : r > created => rules[r] = NoRule
    BY <2>1, <2>2 DEF RuleIds
  <2>4. call = [c \in Callers |-> Idle] /\ Idle.pc = "idle" /\ Cron \in Callers
    BY DEF Init, Idle, Callers
  <2>5. /\ call = [c \in Callers |-> call[c]] /\ \A c \in Callers : CallTyped(call[c], created)
        /\ call[Cron].pc = "idle"
    <3>. HIDE DEF Idle
    <3>. QED
      BY <2>4, IdleTyped
  <2>6. ScanTyped
    BY NoScanTyped DEF Init, ScanTyped, Holds
  <2>. QED
    BY <2>2, <2>3, <2>5, <2>6 DEF Init, Typed
<1>2. Typed /\ [Next]_vars => Typed'
  <2>. SUFFICES ASSUME Typed, [Next]_vars
                PROVE  Typed'
    OBVIOUS
  <2>1. CASE UNCHANGED vars
    BY <2>1 DEF vars, Typed, ScanTyped
  <2>2. CASE MarkFails
    BY <2>2, SleepStep, Numbers DEF MarkFails
  <2>. QED
    BY <2>1, <2>2, CallStep, CallFailsStep, WebhookStep, StartScanStep, FireStep, MarkStep, RulesStep,
       CrashStep DEF Next
<1>. QED
  BY <1>1, <1>2, PTL DEF Spec

----------------------------------------------------------------------------
(* The scans keep their invariant.                                         *)

\* Steps without a scan, and those that end one, change nothing of it.
LEMMA ScanStands ==
  ASSUME ScanInv, UNCHANGED <<last, fires>>, scan' = scan \/ scan'.at = Never
  PROVE  ScanInv'
  BY DEF ScanInv, FiresOncePerPoint

LEMMA StartScanFires ==
  ASSUME Typed, ScanInv, StartScan
  PROVE  ScanInv'
<1>. DEFINE found == {r \in RuleIds : Listens(rules[r], "cron") /\ rules[r].cron # {}}
            next == [at |-> now, held |-> [r \in found |-> rules[r]],
                     todo |-> {r \in found : IsDue(r, now)}, rule |-> 0]
<1>1. GoOn(next) /\ UNCHANGED <<last, fires>>
  BY DEF StartScan
<1>2. CASE scan' = NoScan
  BY <1>1, <1>2, NoScanTyped, ScanStands
<1>3. CASE scan' = next
  <2>1. scan'.at = now /\ scan'.held = [r \in found |-> rules[r]] /\ scan'.todo = {r \in found : IsDue(r, now)}
    BY <1>3
  <2>2. \A f \in fires : f.at =< now
    BY Numbers DEF Typed
  <2>3. ASSUME NEW r \in scan'.todo
        PROVE  \E p \in scan'.held[r].cron : last[r] < p /\ p <= scan'.at
    <3>1. r \in found /\ IsDue(r, now) /\ scan'.held[r] = rules[r]
      BY <2>1
    <3>2. rules[r].cron \subseteq Nat /\ last[r] \in Nat \cup {Never}
      BY <3>1, SettingsHaveFields, Numbers DEF Typed, Listens
    <3>3. PICK p \in rules[r].cron : (IF last[r] = Never THEN now - 1 ELSE last[r]) < p /\ p <= now
      BY <3>1 DEF IsDue
    <3>. QED
      BY <2>1, <3>1, <3>2, <3>3, Numbers DEF Never
  <2>. QED
    BY <1>1, <2>1, <2>2, <2>3 DEF ScanInv, FiresOncePerPoint
<1>. QED
  BY <1>1, <1>2, <1>3 DEF GoOn

\* A rule that is due has a point of its schedule after every scan that got
\* past it.
LEMMA FireFires ==
  ASSUME Typed, ScanInv, NEW r \in RuleIds, Fire(r)
  PROVE  ScanInv'
<1>. DEFINE g == [rule |-> r, at |-> scan.at, cron |-> scan.held[r].cron, past |-> FALSE]
<1>1. /\ scan.at # Never /\ r \in scan.todo /\ scan' = [scan EXCEPT !.rule = r]
      /\ fires' = fires \cup {g} /\ last' = last
  BY DEF Fire
<1>2. /\ scan = ScanFields(scan) /\ scan.at \in Nat
      /\ scan'.at = scan.at /\ scan'.held = scan.held /\ scan'.todo = scan.todo
  <2>1. scan = ScanFields(scan) /\ scan.at \in Nat
    BY <1>1, Numbers DEF Typed, ScanTyped
  <2>. QED
    BY <1>1, <2>1 DEF ScanFields
<1>3. g.rule = r /\ g.at = scan.at /\ g.cron = scan.held[r].cron /\ ~g.past
  OBVIOUS
<1>4. scan.held[r].cron \subseteq Nat /\ last[r] \in Nat \cup {Never}
  BY <1>1, SettingsHaveFields, Numbers DEF Typed, ScanTyped, Holds
<1>5. PICK p \in scan.held[r].cron : last[r] < p /\ p <= scan.at
  BY <1>1 DEF ScanInv
<1>. HIDE DEF g
<1>6. ASSUME NEW f \in fires, f.rule = r, f.past, f.at < g.at
      PROVE  \E q \in g.cron : f.at < q /\ q <= g.at
  <2>1. f.at <= last[r] /\ f.at \in Nat
    BY <1>6, Numbers DEF ScanInv, Typed
  <2>. QED
    BY <1>3, <1>4, <1>5, <2>1 DEF Never
<1>7. \A f \in fires : f.at <= scan.at /\ f.at \in Nat
  BY <1>1, Numbers DEF ScanInv, Typed
<1>8. FiresOncePerPoint'
  <2>. SUFFICES ASSUME NEW f \in fires', NEW h \in fires', f.rule = h.rule, f.past, f.at < h.at
                PROVE  \E q \in h.cron : f.at < q /\ q <= h.at
    BY DEF FiresOncePerPoint
  <2>1. f # g
    BY <1>3
  <2>. QED
    BY <1>1, <1>3, <1>6, <2>1 DEF ScanInv, FiresOncePerPoint
<1>. QED
  BY <1>1, <1>2, <1>3, <1>7, <1>8 DEF ScanInv

\* The scan gets past its rule.
LEMMA MarkFires ==
  ASSUME Typed, ScanInv, Mark
  PROVE  ScanInv'
<1>. DEFINE next == [scan EXCEPT !.todo = @ \ {scan.rule}, !.rule = 0]
<1>1. /\ call[Cron].pc = "done" /\ last' = [last EXCEPT ![scan.rule] = scan.at]
      /\ fires' = {Past(f) : f \in fires} /\ GoOn(next)
  BY DEF Mark
<1>2. scan.at # Never /\ scan.rule \in scan.todo /\ scan.rule \in RuleIds /\ scan.at \in Nat
  BY <1>1, Numbers DEF Typed, ScanTyped, Holds, RuleIds
<1>3. /\ last'[scan.rule] = scan.at
      /\ \A r \in RuleIds : r # scan.rule => last'[r] = last[r]
  BY <1>1, <1>2 DEF Typed
<1>4. \A f \in fires : /\ f = FireFields(f) /\ f.at \in Nat /\ f.at <= scan.at
                       /\ f.rule \in RuleIds
  BY <1>2, Numbers DEF Typed, ScanInv
<1>5. \A f \in fires' : f.past => f.at <= last'[f.rule]
  <2>. SUFFICES ASSUME NEW f \in fires, Past(f).past
                PROVE  Past(f).at <= last'[Past(f).rule]
    BY <1>1
  <2>1. Past(f).at = f.at /\ Past(f).rule = f.rule /\ f.at <= scan.at /\ f.at \in Nat /\ f.rule \in RuleIds
    BY <1>4, PastTyped
  <2>2. CASE f.rule = scan.rule
    BY <1>3, <2>1, <2>2
  <2>3. CASE f.rule # scan.rule
    <3>1. f.past
      BY <1>4, <2>3, PastTyped
    <3>. QED
      BY <1>3, <2>1, <2>3, <3>1 DEF ScanInv
  <2>. QED
    BY <2>2, <2>3
<1>6. FiresOncePerPoint'
  <2>. SUFFICES ASSUME NEW f \in fires, NEW h \in fires, Past(f).rule = Past(h).rule, Past(f).past,
                       Past(f).at < Past(h).at
                PROVE  \E q \in Past(h).cron : Past(f).at < q /\ q <= Past(h).at
    BY <1>1 DEF FiresOncePerPoint
  <2>1. /\ Past(f).at = f.at /\ Past(f).rule = f.rule
        /\ Past(h).at = h.at /\ Past(h).rule = h.rule /\ Past(h).cron = h.cron
        /\ Past(f).past = (f.past \/ (f.rule = scan.rule /\ f.at = scan.at))
    BY <1>4, PastTyped
  <2>2. f.at # scan.at
    BY <1>2, <1>4, <2>1
  <2>3. f.past
    BY <2>1, <2>2
  <2>. QED
    BY <2>1, <2>3 DEF ScanInv, FiresOncePerPoint
<1>7. scan'.at # Never =>
         /\ \A f \in fires' : f.at <= scan'.at
         /\ \A r \in scan'.todo : \E p \in scan'.held[r].cron : last'[r] < p /\ p <= scan'.at
  <2>1. CASE scan' = NoScan
    BY <2>1, NoScanTyped
  <2>2. CASE scan' = next
    <3>1. scan'.at = scan.at /\ scan'.held = scan.held /\ scan'.todo = scan.todo \ {scan.rule}
      BY <1>2, <2>2, RestTyped
    <3>2. \A f \in fires' : f.at <= scan.at
      BY <1>1, <1>4, PastTyped
    <3>3. \A r \in scan.todo : r \in RuleIds
      BY Numbers DEF Typed, ScanTyped, Holds
    <3>. QED
      BY <1>2, <1>3, <3>1, <3>2, <3>3 DEF ScanInv
  <2>. QED
    BY <1>1, <2>1, <2>2 DEF GoOn
<1>. QED
  BY <1>5, <1>6, <1>7 DEF ScanInv

LEMMA ScansHold == Spec => []ScanInv
<1>1. Init => ScanInv
  BY NoScanTyped DEF Init, ScanInv, FiresOncePerPoint
<1>2. Typed /\ ScanInv /\ [Next]_vars => ScanInv'
  <2>. SUFFICES ASSUME Typed, ScanInv, [Next]_vars
                PROVE  ScanInv'
    OBVIOUS
  <2>1. ASSUME NEW c \in Callers, ProcessEvent(c)
        PROVE  UNCHANGED <<last, fires, scan>>
    BY <2>1 DEF ProcessEvent, Query, LogTriggered, Filtered, Duplicate, Skip, CreateTask, Deployment
  <2>2. ASSUME NEW c \in Callers, CallFails(c)
        PROVE  UNCHANGED <<last, fires>> /\ (scan' = scan \/ scan'.at = Never)
    BY <2>2, NoScanTyped DEF CallFails, Sleep
  <2>3. CASE \/ UNCHANGED vars \/ Tick
             \/ \E d \in Deliveries, e \in Events : Webhook(d, e)
             \/ \E s \in Settings : CreateRule(s) \/ \E r \in RuleIds : UpdateRule(r, s)
             \/ \E r \in RuleIds : DeleteRule(r)
    <3>1. UNCHANGED <<last, fires, scan>>
      BY <2>3 DEF vars, Tick, Webhook, CreateRule, UpdateRule, DeleteRule, ChangeRule, Edit
    <3>. QED
      BY <3>1, ScanStands
  <2>4. CASE MarkFails \/ Crash
    <3>1. UNCHANGED <<last, fires>> /\ scan'.at = Never
      BY <2>4, NoScanTyped DEF MarkFails, Sleep, Crash
    <3>. QED
      BY <3>1, ScanStands
  <2>. QED
    BY <2>1, <2>2, <2>3, <2>4, ScanStands, StartScanFires, FireFires, MarkFires DEF Next
<1>. QED
  BY <1>1, <1>2, TypesHold, PTL DEF Spec

----------------------------------------------------------------------------
(* One task for a call.                                                    *)

\* Calls in progress have different names, which no task or row of another
\* call has.
LEMMA NamesApart ==
  ASSUME Typed, Names, NEW c \in Callers, NEW d \in Callers, c # d,
         call[c].pc # "idle", call[d].pc # "idle"
  PROVE  call[c].by # call[d].by
<1>1. ASSUME NEW e \in Deliveries, call[e].pc # "idle", call[Cron].pc # "idle"
      PROVE  call[e].by # call[Cron].by
  <2>1. call[e].by = e /\ call[Cron].by \in {scan.at} \X {scan.rule} \X (0 .. surprises)
    BY <1>1 DEF Names
  <2>2. scan.at \in Int /\ scan.rule \in Int
    BY Numbers DEF Typed, ScanTyped, Never, Holds
  <2>3. call[Cron].by \in Int \X Int \X Int
    BY <2>1, <2>2
  <2>. QED
    BY <2>1, <2>3, CallsHaveNames
<1>. QED
  BY <1>1 DEF Names, Callers

LEMMA NamesStep ==
  ASSUME Typed, Names,
         \A d \in Deliveries : /\ call'[d].pc # "idle" => call'[d].by = d
                               /\ call[d].pc # "idle" => call'[d].pc # "idle",
         call'[Cron].pc # "idle" =>
             call'[Cron].by \in {scan'.at} \X {scan'.rule} \X (0 .. surprises'),
         \A at, r, n \in Nat : Spent(at, r, n) => Spent(at, r, n)',
         \A x \in (tasks \cup log)' :
             \/ x \in tasks \cup log
             \/ /\ \E c \in Callers : call[c].pc # "idle" /\ x.by = call[c].by
                /\ UNCHANGED <<now, scan, nextScan, surprises>>
  PROVE  Names'
<1>. SUFFICES ASSUME NEW x \in (tasks \cup log)'
              PROVE  \/ x.by \in Deliveries /\ call'[x.by].pc # "idle"
                     \/ x.by \in Nat \X Nat \X Nat /\ Spent(x.by[1], x.by[2], x.by[3])'
  BY DEF Names
<1>1. CASE x \in tasks \cup log
  <2>1. \/ x.by \in Deliveries /\ call[x.by].pc # "idle"
        \/ x.by \in Nat \X Nat \X Nat /\ Spent(x.by[1], x.by[2], x.by[3])
    BY <1>1 DEF Names
  <2>. QED
    BY <2>1
<1>2. ASSUME NEW d \in Deliveries, call[d].pc # "idle", x.by = call[d].by
      PROVE  x.by \in Deliveries /\ call'[x.by].pc # "idle"
  BY <1>2 DEF Names
<1>3. ASSUME call[Cron].pc # "idle", x.by = call[Cron].by, UNCHANGED <<now, scan, nextScan, surprises>>
      PROVE  x.by \in Nat \X Nat \X Nat /\ Spent(x.by[1], x.by[2], x.by[3])'
  <2>1. x.by \in {scan.at} \X {scan.rule} \X (0 .. surprises)
    BY <1>3 DEF Names
  <2>2. /\ scan.at # Never /\ scan.at \in Nat /\ scan.at <= now /\ scan.rule \in Nat
    BY <1>3, Numbers DEF Typed, ScanTyped, Never, Holds
  <2>3. x.by \in Nat \X Nat \X Nat /\ x.by[1] = scan.at /\ x.by[2] = scan.rule /\ x.by[3] <= surprises
    BY <2>1, <2>2, Numbers
  <2>. QED
    BY <1>3, <2>2, <2>3 DEF Spent
<1>. QED
  BY <1>1, <1>2, <1>3 DEF Callers

\* What others do leaves a call with the task that it has.
LEMMA OneTaskStands ==
  ASSUME NEW c, OneTask(c), log \subseteq log',
         \/ call'[c] = call[c]
         \/ call'[c].pc \in {"idle", "done", "failed"} /\ call'[c].prior \subseteq call[c].prior,
         call[c].pc \in {"query", "rule", "log"} =>
             \A x \in (tasks' \ tasks) \cup (log' \ log) : x.by # call[c].by
  PROVE  OneTask(c)'
  BY DEF OneTask, KeyFor, Setting

\* What a step of a call does.
Does(c) ==
    /\ call[c].pc \in {"query", "rule", "log"} /\ call'[c].pc # "idle" /\ call'[c].by = call[c].by
    /\ \A d \in Callers : d # c => call'[d] = call[d]
    /\ UNCHANGED <<now, created, rules, last, scan, nextScan, fires, surprises>>

\* The rules that Query finds, and what the session has of them.
Found(c) == {r \in RuleIds : /\ Listens(rules[r], call[c].event.source)
                             /\ call[c].event.project \in {All, rules[r].project}}
Held(c) == [r \in Found(c) \cup DOMAIN call[c].held |->
              IF r \in DOMAIN call[c].held THEN call[c].held[r] ELSE rules[r]]
Listening(c) == {r \in Found(c) : OfType(Held(c)[r], call[c].event)}

LEMMA QueryDoes ==
  ASSUME Typed, NEW c \in Callers, Query(c)
  PROVE  /\ Does(c) /\ call[c].pc = "query" /\ tasks' = tasks
         /\ \/ /\ Listening(c) = {} /\ call'[c].pc = "done" /\ call'[c].prior = {}
               /\ log' = log \cup {Row(c, 0, NoKey, "skipped_no_rule")} /\ Disturb(c)
            \/ /\ Listening(c) # {} /\ call'[c].pc = "rule" /\ call'[c].todo = Listening(c)
               /\ call'[c].event = call[c].event /\ call'[c].held = Held(c)
               /\ call'[c].prior = call[c].prior
               /\ log' = log /\ forecast' = forecast
<1>. DEFINE more == [call[c] EXCEPT !.pc = "rule", !.held = Held(c), !.todo = Listening(c)]
            x == IF Listening(c) = {} THEN Ended(c, 0) ELSE more
<1>1. /\ call[c].pc = "query" /\ call' = [call EXCEPT ![c] = x]
      /\ log' = IF Listening(c) = {} THEN log \cup {Row(c, 0, NoKey, "skipped_no_rule")} ELSE log
      /\ IF Listening(c) = {} THEN Disturb(c) ELSE UNCHANGED forecast
      /\ UNCHANGED <<now, created, rules, last, scan, nextScan, fires, surprises, tasks>>
  BY DEF Query, Deployment, Listening, Held, Found
<1>2. call[c] = CallFields(call[c])
  BY Calls DEF CallTyped
<1>3. /\ more.pc = "rule" /\ more.todo = Listening(c) /\ more.held = Held(c) /\ more.by = call[c].by
      /\ more.event = call[c].event /\ more.prior = call[c].prior
  BY <1>2 DEF CallFields
<1>4. /\ Ended(c, 0).pc = "done" /\ Ended(c, 0).by = call[c].by /\ Ended(c, 0).prior = {}
  BY EndedTyped
<1>. HIDE DEF more, Ended
<1>5. call'[c] = x /\ \A d \in Callers : d # c => call'[d] = call[d]
  <2>. HIDE DEF x
  <2>. QED
    BY <1>1 DEF Typed
<1>. QED
  BY <1>1, <1>3, <1>4, <1>5 DEF Does

LEMMA SkipDoes ==
  ASSUME Typed, NEW c \in Callers, NEW r \in RuleIds, Filtered(c, r) \/ Duplicate(c, r)
  PROVE  /\ Does(c) /\ call[c].pc = "rule" /\ Least(call[c].todo, r) /\ tasks' = tasks /\ Disturb(c)
         /\ IF Passes(Setting(c, r), call[c].event)
            THEN /\ IsDuplicate(r, Setting(c, r), KeyFor(c, r))
                 /\ log' = log \cup {Row(c, r, KeyFor(c, r), "skipped_dedup")}
            ELSE log' = log \cup {Row(c, r, NoKey, "skipped_filter")}
         /\ \/ call[c].todo = {r} /\ call'[c].pc = "done" /\ call'[c].prior = {}
            \/ /\ call[c].todo # {r} /\ call'[c].pc = "rule" /\ call'[c].todo = call[c].todo \ {r}
               /\ call'[c].event = call[c].event /\ call'[c].held = call[c].held
               /\ call'[c].prior = call[c].prior
<1>. DEFINE less == [call[c] EXCEPT !.todo = @ \ {r}]
            x == IF call[c].todo = {r} THEN Ended(c, 0) ELSE less
<1>1. /\ call[c].pc = "rule" /\ Least(call[c].todo, r) /\ call' = [call EXCEPT ![c] = x]
      /\ Disturb(c)
      /\ UNCHANGED <<now, created, rules, last, scan, nextScan, fires, surprises, tasks>>
  BY DEF Filtered, Duplicate, Skip, AtRule, Deployment
<1>2. IF Passes(Setting(c, r), call[c].event)
      THEN /\ IsDuplicate(r, Setting(c, r), KeyFor(c, r))
           /\ log' = log \cup {Row(c, r, KeyFor(c, r), "skipped_dedup")}
      ELSE log' = log \cup {Row(c, r, NoKey, "skipped_filter")}
  BY DEF Filtered, Duplicate, Skip
<1>3. /\ less.pc = call[c].pc /\ less.todo = call[c].todo \ {r} /\ less.by = call[c].by
      /\ less.event = call[c].event /\ less.held = call[c].held /\ less.prior = call[c].prior
  BY SkipTyped
<1>4. /\ Ended(c, 0).pc = "done" /\ Ended(c, 0).by = call[c].by /\ Ended(c, 0).prior = {}
  BY EndedTyped
<1>. HIDE DEF less, Ended
<1>5. call'[c] = x /\ \A d \in Callers : d # c => call'[d] = call[d]
  <2>. HIDE DEF x
  <2>. QED
    BY <1>1 DEF Typed
<1>. QED
  BY <1>1, <1>2, <1>3, <1>4, <1>5 DEF Does

LEMMA HitDoes ==
  ASSUME Typed, NEW c \in Callers, NEW r \in RuleIds, CreateTask(c, r)
  PROVE  /\ Does(c) /\ call[c].pc = "rule" /\ Least(call[c].todo, r) /\ log' = log /\ Disturb(c)
         /\ Passes(Setting(c, r), call[c].event) /\ ~IsDuplicate(r, Setting(c, r), KeyFor(c, r))
         /\ tasks' = tasks \cup {[by |-> call[c].by, rule |-> r, key |-> KeyFor(c, r), at |-> now,
                                  window |-> Window(Setting(c, r)), prior |-> Earlier(c, r)]}
         /\ call'[c].pc = "log" /\ call'[c].rule = r /\ call'[c].event = call[c].event
         /\ call'[c].held = call[c].held /\ call'[c].prior = call[c].prior
<1>. DEFINE x == [call[c] EXCEPT !.pc = "log", !.rule = r]
<1>1. /\ call[c].pc = "rule" /\ Least(call[c].todo, r) /\ call' = [call EXCEPT ![c] = x]
      /\ UNCHANGED <<now, created, rules, last, scan, nextScan, fires, surprises, log>>
      /\ Disturb(c)
  BY DEF CreateTask, AtRule, Deployment
<1>2. r \in call[c].todo
  BY <1>1 DEF Least
<1>3. /\ x.pc = "log" /\ x.by = call[c].by /\ x.event = call[c].event /\ x.held = call[c].held
      /\ x.rule = r /\ x.prior = call[c].prior
  <2>1. call[c] = CallFields(call[c])
    BY Calls DEF CallTyped
  <2>. QED
    BY <2>1 DEF CallFields
<1>. HIDE DEF x
<1>4. call'[c] = x /\ \A d \in Callers : d # c => call'[d] = call[d]
  BY <1>1 DEF Typed
<1>. QED
  BY <1>1, <1>3, <1>4 DEF Does, CreateTask

LEMMA LogDoes ==
  ASSUME Typed, NEW c \in Callers, LogTriggered(c)
  PROVE  /\ Does(c) /\ call[c].pc = "log" /\ tasks' = tasks /\ Disturb(c)
         /\ log' = log \cup {Row(c, call[c].rule, KeyFor(c, call[c].rule), "triggered")}
         /\ call'[c].pc = "done" /\ call'[c].prior = {}
<1>. DEFINE x == Ended(c, call[c].rule)
<1>1. /\ call[c].pc = "log" /\ call' = [call EXCEPT ![c] = x] /\ Disturb(c)
      /\ UNCHANGED <<now, created, rules, last, scan, nextScan, fires, surprises, tasks>>
      /\ log' = log \cup {Row(c, call[c].rule, KeyFor(c, call[c].rule), "triggered")}
  BY DEF LogTriggered, Deployment
<1>2. x.pc = "done" /\ x.by = call[c].by /\ x.prior = {}
  BY EndedTyped
<1>. HIDE DEF x
<1>3. call'[c] = x /\ \A d \in Callers : d # c => call'[d] = call[d]
  BY <1>1 DEF Typed
<1>. QED
  BY <1>1, <1>2, <1>3 DEF Does

\* Rows and tasks that a call adds carry its name.
LEMMA Marks ==
  ASSUME Typed, NEW c \in Callers, ProcessEvent(c)
  PROVE  /\ Does(c) /\ log \subseteq log'
         /\ \A x \in (tasks' \ tasks) \cup (log' \ log) : x.by = call[c].by
<1>1. ASSUME NEW r, NEW key, NEW result \in Results
      PROVE  Row(c, r, key, result).by = call[c].by
  BY Numbers, RowTyped
<1>2. CASE Query(c)
  BY <1>1, <1>2, QueryDoes DEF Results
<1>3. CASE LogTriggered(c)
  BY <1>1, <1>3, LogDoes DEF Results
<1>4. ASSUME NEW r \in RuleIds, Filtered(c, r) \/ Duplicate(c, r)
      PROVE  /\ Does(c) /\ log \subseteq log'
             /\ \A x \in (tasks' \ tasks) \cup (log' \ log) : x.by = call[c].by
  BY <1>1, <1>4, SkipDoes DEF Results
<1>5. ASSUME NEW r \in RuleIds, CreateTask(c, r)
      PROVE  /\ Does(c) /\ log \subseteq log'
             /\ \A x \in (tasks' \ tasks) \cup (log' \ log) : x.by = call[c].by
  <2>. DEFINE t == [by |-> call[c].by, rule |-> r, key |-> KeyFor(c, r), at |-> now,
                    window |-> Window(Setting(c, r)), prior |-> Earlier(c, r)]
  <2>1. Does(c) /\ log' = log /\ tasks' = tasks \cup {t}
    BY <1>5, HitDoes
  <2>2. t.by = call[c].by
    OBVIOUS
  <2>. HIDE DEF t
  <2>. QED
    BY <2>1, <2>2
<1>. QED
  BY <1>2, <1>3, <1>4, <1>5 DEF ProcessEvent

LEMMA TaskOfCall ==
  ASSUME Typed, TaskInv, NEW c \in Callers, ProcessEvent(c)
  PROVE  OneTask(c)' /\ RowsOfTasks' /\ DuplicatesOverlap'
<1>1. /\ OneTask(c) /\ RowsOfTasks /\ DuplicatesOverlap /\ now \in Nat
      /\ call[c].prior \subseteq {row \in log : row.result = "triggered"}
  BY Numbers DEF TaskInv, OneTask
<1>2. ASSUME tasks' = tasks, Does(c), NEW r, NEW key, NEW result \in Results, result # "triggered",
             \/ call'[c].pc = "done" /\ call'[c].prior = {}
             \/ /\ call[c].pc \in {"query", "rule"} /\ call'[c].pc = "rule"
                /\ call'[c].prior = call[c].prior,
             log' = log \/ log' = log \cup {Row(c, r, key, result)}
      PROVE  OneTask(c)' /\ RowsOfTasks' /\ DuplicatesOverlap'
  <2>1. \A row \in log' : row \in log \/ row.result # "triggered"
    BY <1>1, <1>2, RowTyped
  <2>2. log \subseteq log' /\ call'[c].by = call[c].by
    BY <1>2 DEF Does
  <2>3. OneTask(c)'
    BY <1>1, <1>2, <2>1, <2>2 DEF OneTask
  <2>4. RowsOfTasks'
    BY <1>1, <1>2, <2>1 DEF RowsOfTasks
  <2>5. DuplicatesOverlap'
    BY <1>1, <1>2 DEF DuplicatesOverlap
  <2>. QED
    BY <2>3, <2>4, <2>5
<1>3. ASSUME LogTriggered(c)
      PROVE  OneTask(c)' /\ RowsOfTasks' /\ DuplicatesOverlap'
  <2>. DEFINE row == Row(c, call[c].rule, KeyFor(c, call[c].rule), "triggered")
  <2>1. /\ call[c].pc = "log" /\ tasks' = tasks /\ log' = log \cup {row}
        /\ call'[c].pc = "done" /\ call'[c].prior = {}
    BY <1>3, LogDoes
  <2>2. row.by = call[c].by /\ row.rule = call[c].rule /\ row.key = KeyFor(c, call[c].rule)
    BY <1>1, RowTyped DEF Results
  <2>. HIDE DEF row
  <2>3. OneTask(c)'
    BY <2>1 DEF OneTask
  <2>4. RowsOfTasks'
    BY <1>1, <2>1, <2>2 DEF RowsOfTasks, OneTask
  <2>5. DuplicatesOverlap'
    BY <1>1, <2>1 DEF DuplicatesOverlap
  <2>. QED
    BY <2>3, <2>4, <2>5
<1>4. ASSUME NEW r \in RuleIds, CreateTask(c, r)
      PROVE  OneTask(c)' /\ RowsOfTasks' /\ DuplicatesOverlap'
  <2>. DEFINE key == KeyFor(c, r)
              window == Window(Setting(c, r))
              prior == Earlier(c, r)
              t == [by |-> call[c].by, rule |-> r, key |-> key, at |-> now,
                    window |-> window, prior |-> prior]
  <2>1. /\ call[c].pc = "rule" /\ r \in call[c].todo /\ log' = log /\ tasks' = tasks \cup {t}
        /\ ~IsDuplicate(r, Setting(c, r), key)
        /\ call'[c].pc = "log" /\ call'[c].rule = r /\ call'[c].event = call[c].event
        /\ call'[c].held = call[c].held /\ call'[c].prior = call[c].prior /\ call'[c].by = call[c].by
    BY <1>4, HitDoes DEF Least, Does
  <2>2. /\ t.by = call[c].by /\ t.rule = r /\ t.key = key /\ t.at = now /\ t.window = window
        /\ t.prior = prior
    OBVIOUS
  <2>3. key = Key(call[c].held[r], call[c].event)
    BY DEF KeyFor, Setting
  <2>4. window \in Nat
    BY <2>1, Calls, SettingsHaveFields, BoundsAreNat DEF Window, Setting
  <2>5. ASSUME NEW at \in prior, key # NoKey
        PROVE  at + window < now
    <3>1. PICK row \in call[c].prior :
            /\ at = row.at
            /\ \E u \in tasks : u.by = row.by /\ u.rule = r /\ u.key = key
      BY <2>5 DEF Earlier
    <3>2. row \in log /\ row.result = "triggered" /\ row.at \in Nat
      BY <1>1, <3>1, Numbers DEF Typed
    <3>3. row.rule = r /\ row.key = key
      BY <1>1, <3>1, <3>2 DEF RowsOfTasks
    <3>4. ~(row.at >= now - window)
      BY <2>1, <2>5, <3>2, <3>3 DEF IsDuplicate
    <3>. QED
      BY <1>1, <2>4, <3>1, <3>2, <3>4
  <2>. HIDE DEF t, prior, window, key
  <2>6. OneTask(c)'
    <3>1. \A u \in tasks' : u.by = call[c].by => u = t
      BY <1>1, <2>1 DEF OneTask
    <3>2. KeyFor(c, r)' = key
      BY <2>1, <2>3 DEF KeyFor, Setting
    <3>. QED
      BY <1>1, <2>1, <2>2, <3>1, <3>2 DEF OneTask
  <2>7. RowsOfTasks'
    BY <1>1, <2>1, <2>2 DEF RowsOfTasks, OneTask
  <2>8. DuplicatesOverlap'
    BY <1>1, <2>1, <2>2, <2>5 DEF DuplicatesOverlap
  <2>. QED
    BY <2>6, <2>7, <2>8
<1>5. ASSUME Query(c)
      PROVE  OneTask(c)' /\ RowsOfTasks' /\ DuplicatesOverlap'
  BY <1>2, <1>5, QueryDoes DEF Results
<1>6. ASSUME NEW r \in RuleIds, Filtered(c, r) \/ Duplicate(c, r)
      PROVE  OneTask(c)' /\ RowsOfTasks' /\ DuplicatesOverlap'
  BY <1>2, <1>6, SkipDoes DEF Results
<1>. QED
  BY <1>3, <1>4, <1>5, <1>6 DEF ProcessEvent

LEMMA ProcessTasks ==
  ASSUME Typed, TaskInv, NEW c \in Callers, ProcessEvent(c)
  PROVE  TaskInv'
<1>1. /\ Does(c) /\ log \subseteq log'
      /\ \A x \in (tasks' \ tasks) \cup (log' \ log) : x.by = call[c].by
  BY Marks
<1>2. Names'
  <2>1. \A at, r, n \in Nat : Spent(at, r, n) => Spent(at, r, n)'
    BY <1>1 DEF Spent, Does
  <2>2. \A d \in Callers : /\ call[d].pc # "idle" <=> call'[d].pc # "idle"
                           /\ call'[d].by = call[d].by
    BY <1>1 DEF Does
  <2>3. \A d \in Deliveries : /\ call'[d].pc # "idle" => call'[d].by = d
                              /\ call[d].pc # "idle" => call'[d].pc # "idle"
    BY <2>2 DEF TaskInv, Names, Callers
  <2>4. call'[Cron].pc # "idle" =>
           call'[Cron].by \in {scan'.at} \X {scan'.rule} \X (0 .. surprises')
    BY <1>1, <2>2 DEF TaskInv, Names, Callers, Does
  <2>5. call[c].pc # "idle" /\ UNCHANGED <<now, scan, nextScan, surprises>>
    BY <1>1 DEF Does
  <2>6. \A x \in (tasks \cup log)' :
             \/ x \in tasks \cup log
             \/ /\ \E d \in Callers : call[d].pc # "idle" /\ x.by = call[d].by
                /\ UNCHANGED <<now, scan, nextScan, surprises>>
    BY <1>1, <2>5
  <2>. QED
    BY <2>1, <2>3, <2>4, <2>6, NamesStep DEF TaskInv
<1>3. ASSUME NEW d \in Callers, d # c
      PROVE  OneTask(d)'
  <2>1. call'[d] = call[d] /\ call[c].pc # "idle"
    BY <1>1, <1>3 DEF Does
  <2>2. call[d].pc # "idle" => call[d].by # call[c].by
    BY <1>3, <2>1, NamesApart DEF TaskInv
  <2>. QED
    BY <1>1, <2>1, <2>2, OneTaskStands DEF TaskInv
<1>. QED
  BY <1>2, <1>3, TaskOfCall DEF TaskInv

\* The steps that add neither a task nor a row.
LEMMA NoWrites ==
  ASSUME Typed, TaskInv, Names', tasks' = tasks, log' = log,
         \A c \in Callers :
            \/ OneTask(c)'
            \/ call'[c] = call[c]
            \/ call'[c].pc \in {"idle", "done", "failed"} /\ call'[c].prior \subseteq call[c].prior
  PROVE  TaskInv'
<1>1. ASSUME NEW c \in Callers
      PROVE  OneTask(c)'
  BY <1>1, OneTaskStands DEF TaskInv
<1>. QED
  BY <1>1 DEF TaskInv, RowsOfTasks, DuplicatesOverlap

LEMMA WebhookTasks ==
  ASSUME Typed, TaskInv, NEW d \in Deliveries, NEW e, Webhook(d, e)
  PROVE  TaskInv'
<1>. DEFINE x == Begun(d, e, <<>>)
<1>1. /\ call[d].pc = "idle" /\ call' = [call EXCEPT ![d] = x]
      /\ UNCHANGED <<now, created, rules, last, log, tasks, scan, nextScan, fires, surprises>>
  BY DEF Webhook, Begin
<1>2. d \in Callers /\ d # Cron /\ Holds(<<>>, created)
  BY CallsHaveNames DEF Callers, Holds
<1>3. x.pc = "query" /\ x.by = d /\ x.prior = {row \in log : row.result = "triggered"}
  BY <1>2, BeginTyped
<1>. HIDE DEF x
<1>4. call'[d] = x /\ \A c \in Callers : c # d => call'[c] = call[c]
  BY <1>1, <1>2 DEF Typed
<1>5. Names'
  <2>1. \A at, r, n \in Nat : Spent(at, r, n) => Spent(at, r, n)'
    BY <1>1 DEF Spent
  <2>2. \A c \in Deliveries : /\ call'[c].pc # "idle" => call'[c].by = c
                              /\ call[c].pc # "idle" => call'[c].pc # "idle"
    BY <1>1, <1>3, <1>4 DEF TaskInv, Names, Callers
  <2>3. call'[Cron].pc # "idle" =>
           call'[Cron].by \in {scan'.at} \X {scan'.rule} \X (0 .. surprises')
    BY <1>1, <1>2, <1>4 DEF TaskInv, Names, Callers
  <2>. QED
    BY <1>1, <2>1, <2>2, <2>3, NamesStep DEF TaskInv
<1>6. \A y \in tasks \cup log : y.by # d
  BY <1>1, CallsHaveNames DEF TaskInv, Names
<1>7. OneTask(d)'
  BY <1>1, <1>3, <1>4, <1>6 DEF OneTask
<1>. QED
  BY <1>1, <1>4, <1>5, <1>7, NoWrites

LEMMA FireTasks ==
  ASSUME Typed, TaskInv, NEW r \in RuleIds, Fire(r)
  PROVE  TaskInv'
<1>. DEFINE by == <<scan.at, r, surprises>>
            x == Begun(by, Scheduled(r, scan.at), scan.held)
<1>1. /\ scan.at # Never /\ scan.rule = 0 /\ r \in scan.todo /\ scan' = [scan EXCEPT !.rule = r]
      /\ call' = [call EXCEPT ![Cron] = x]
      /\ UNCHANGED <<now, log, tasks, nextScan, surprises>>
  BY DEF Fire, Begin
<1>2. /\ scan = ScanFields(scan) /\ Holds(scan.held, created) /\ scan.at \in Nat /\ Cron \in Callers
      /\ scan.todo \subseteq Nat
  BY <1>1, Numbers DEF Typed, ScanTyped, Callers, Holds
<1>3. scan'.rule = r /\ scan'.at = scan.at /\ scan'.todo = scan.todo
  BY <1>1, <1>2 DEF ScanFields
<1>4. x.pc = "query" /\ x.by = by /\ x.prior = {row \in log : row.result = "triggered"}
  <2>. HIDE DEF by
  <2>. QED
    BY <1>2, BeginTyped
<1>. HIDE DEF x
<1>5. call'[Cron] = x /\ \A c \in Callers : c # Cron => call'[c] = call[c]
  BY <1>1, <1>2 DEF Typed
<1>6. by \in {scan'.at} \X {scan'.rule} \X (0 .. surprises')
  BY <1>1, <1>3, Numbers
<1>7. Names'
  <2>1. \A at, q, n \in Nat : Spent(at, q, n) => Spent(at, q, n)'
    <3>. SUFFICES ASSUME NEW at \in Nat, NEW q \in Nat, NEW n \in Nat, Spent(at, q, n)
                  PROVE  Spent(at, q, n)'
      OBVIOUS
    <3>1. 0 \notin scan.todo
      BY <1>2, Numbers DEF Typed, ScanTyped, Holds
    <3>2. at <= now' /\ n <= surprises'
      BY <1>1 DEF Spent
    <3>3. n = surprises => at < scan.at \/ (at = scan.at /\ q \notin scan.todo \ {r})
      BY <1>1, <3>1 DEF Spent
    <3>. QED
      BY <1>1, <1>3, <3>2, <3>3 DEF Spent
  <2>2. \A c \in Deliveries : /\ call'[c].pc # "idle" => call'[c].by = c
                              /\ call[c].pc # "idle" => call'[c].pc # "idle"
    BY <1>5, CallsHaveNames DEF TaskInv, Names, Callers
  <2>. QED
    BY <1>1, <1>4, <1>5, <1>6, <2>1, <2>2, NamesStep DEF TaskInv
<1>8. \A y \in tasks \cup log : y.by # by
  <2>. SUFFICES ASSUME NEW y \in tasks \cup log, y.by = by
                PROVE  FALSE
    OBVIOUS
  <2>1. by \in Int \X Int \X Int /\ by[1] = scan.at /\ by[2] = r /\ by[3] = surprises
    BY <1>2, Numbers DEF RuleIds
  <2>2. y.by \notin Deliveries
    BY <2>1, CallsHaveNames
  <2>3. Spent(scan.at, r, surprises)
    BY <2>1, <2>2 DEF TaskInv, Names
  <2>. QED
    BY <1>1, <1>2, <2>3 DEF Spent, RuleIds
<1>. HIDE DEF by
<1>9. OneTask(Cron)'
  BY <1>1, <1>4, <1>5, <1>8 DEF OneTask
<1>. QED
  BY <1>1, <1>5, <1>7, <1>9, NoWrites

\* The scheduler's call is over, and names that were used stay used.
LEMMA CronEnds ==
  ASSUME Typed, TaskInv, tasks' = tasks, log' = log, call' = [call EXCEPT ![Cron] = Idle],
         \A at, r, n \in Nat : Spent(at, r, n) => Spent(at, r, n)'
  PROVE  TaskInv'
<1>1. Idle.pc = "idle" /\ Idle.prior = {} /\ Cron \in Callers
  BY DEF Idle, Callers
<1>. HIDE DEF Idle
<1>2. call'[Cron] = Idle /\ \A c \in Callers : c # Cron => call'[c] = call[c]
  BY <1>1 DEF Typed
<1>3. \A c \in Deliveries : /\ call'[c].pc # "idle" => call'[c].by = c
                            /\ call[c].pc # "idle" => call'[c].pc # "idle"
  BY <1>2, CallsHaveNames DEF TaskInv, Names, Callers
<1>4. Names'
  BY <1>1, <1>2, <1>3, NamesStep DEF TaskInv
<1>. QED
  BY <1>1, <1>2, <1>4, NoWrites

LEMMA SleepTasks ==
  ASSUME Typed, TaskInv, Sleep, UNCHANGED <<now, log, tasks>>,
         surprises' \in Nat, surprises <= surprises'
  PROVE  TaskInv'
<1>1. scan' = NoScan /\ nextScan' = now + 1 /\ call' = [call EXCEPT ![Cron] = Idle]
  BY DEF Sleep
<1>2. \A at, r, n \in Nat : Spent(at, r, n) => Spent(at, r, n)'
  BY <1>1, NoScanTyped, Numbers DEF Spent
<1>. QED
  BY <1>1, <1>2, CronEnds

LEMMA MarkTasks ==
  ASSUME Typed, TaskInv, Mark
  PROVE  TaskInv'
<1>. DEFINE next == [scan EXCEPT !.todo = @ \ {scan.rule}, !.rule = 0]
<1>1. /\ call[Cron].pc = "done" /\ GoOn(next) /\ call' = [call EXCEPT ![Cron] = Idle]
      /\ UNCHANGED <<now, log, tasks, surprises>>
  BY DEF Mark
<1>2. scan.at # Never /\ scan.at \in Nat /\ scan.at <= now
  BY <1>1, Numbers DEF Typed, ScanTyped
<1>3. next.at = scan.at /\ next.rule = 0 /\ next.todo = scan.todo \ {scan.rule}
  BY <1>2, RestTyped
<1>4. \/ scan' = next
      \/ scan' = NoScan /\ nextScan' = now + 1
  BY <1>1 DEF GoOn
<1>. HIDE DEF next
<1>5. ASSUME NEW at \in Nat, NEW r \in Nat, NEW n \in Nat, Spent(at, r, n)
      PROVE  Spent(at, r, n)'
  <2>1. CASE scan' = NoScan /\ nextScan' = now + 1
    BY <1>1, <1>5, <2>1, NoScanTyped, Numbers DEF Spent
  <2>2. CASE scan' = next
    BY <1>1, <1>2, <1>3, <1>5, <2>2 DEF Spent
  <2>. QED
    BY <1>4, <2>1, <2>2
<1>. QED
  BY <1>1, <1>5, CronEnds

LEMMA CallFailsTasks ==
  ASSUME Typed, TaskInv, NEW c \in Callers, CallFails(c)
  PROVE  TaskInv'
<1>1. /\ surprises' = surprises + 1 /\ call[c].pc # "idle"
      /\ UNCHANGED <<now, log, tasks>>
  BY DEF CallFails, Surprise
<1>2. CASE c = Cron
  BY <1>1, <1>2, SleepTasks, Numbers DEF CallFails
<1>3. CASE c # Cron
  <2>1. call' = [call EXCEPT ![c] = Failed(c)] /\ UNCHANGED <<scan, nextScan>>
    BY <1>3 DEF CallFails
  <2>2. Failed(c).pc = "failed" /\ Failed(c).by = call[c].by /\ Failed(c).prior = {}
    BY EndedTyped
  <2>. HIDE DEF Failed
  <2>3. call'[c] = Failed(c) /\ \A d \in Callers : d # c => call'[d] = call[d]
    BY <2>1 DEF Typed
  <2>4. \A d \in Deliveries : /\ call'[d].pc # "idle" => call'[d].by = d
                              /\ call[d].pc # "idle" => call'[d].pc # "idle"
    BY <1>1, <2>2, <2>3 DEF TaskInv, Names, Callers
  <2>5. call'[Cron].pc # "idle" =>
           call'[Cron].by \in {scan'.at} \X {scan'.rule} \X (0 .. surprises')
    BY <1>1, <1>3, <2>1, <2>3, Numbers DEF TaskInv, Names, Callers
  <2>6. \A at, r, n \in Nat : Spent(at, r, n) => Spent(at, r, n)'
    BY <1>1, <2>1, Numbers DEF Spent
  <2>7. Names'
    BY <1>1, <2>4, <2>5, <2>6, NamesStep DEF TaskInv
  <2>. QED
    BY <1>1, <2>2, <2>3, <2>7, NoWrites
<1>. QED
  BY <1>2, <1>3

LEMMA CrashTasks ==
  ASSUME Typed, TaskInv, Crash
  PROVE  TaskInv'
<1>1. /\ call' = [c \in Callers |-> IF c = Cron THEN Idle
                                    ELSE IF call[c].pc \in {"idle", "done"} THEN call[c] ELSE Failed(c)]
      /\ scan' = NoScan /\ nextScan' = now /\ surprises' = surprises + 1
      /\ UNCHANGED <<now, log, tasks>>
  BY DEF Crash, Surprise
<1>2. /\ Idle.pc = "idle" /\ Idle.prior = {} /\ Cron \in Callers
      /\ \A c : Failed(c).pc = "failed" /\ Failed(c).by = call[c].by /\ Failed(c).prior = {}
  BY EndedTyped DEF Idle, Callers
<1>. HIDE DEF Idle, Failed
<1>3. call'[Cron].pc = "idle" /\ call'[Cron].prior = {}
  BY <1>1, <1>2
<1>4. ASSUME NEW c \in Callers, c # Cron
      PROVE  \/ call'[c] = call[c]
             \/ /\ call[c].pc # "idle" /\ call'[c].pc = "failed"
                /\ call'[c].by = call[c].by /\ call'[c].prior = {}
  BY <1>1, <1>2, <1>4
<1>5. \A d \in Deliveries : /\ call'[d].pc # "idle" => call'[d].by = d
                            /\ call[d].pc # "idle" => call'[d].pc # "idle"
  BY <1>4, CallsHaveNames DEF TaskInv, Names, Callers
<1>6. \A at, r, n \in Nat : Spent(at, r, n) => Spent(at, r, n)'
  BY <1>1, Numbers DEF Spent
<1>7. Names'
  BY <1>1, <1>3, <1>5, <1>6, NamesStep DEF TaskInv
<1>8. \A c \in Callers :
         \/ call'[c] = call[c]
         \/ call'[c].pc \in {"idle", "done", "failed"} /\ call'[c].prior \subseteq call[c].prior
  BY <1>3, <1>4
<1>. QED
  BY <1>1, <1>7, <1>8, NoWrites

\* A scan starts, time passes, and rules change.
LEMMA OtherTasks ==
  ASSUME Typed, TaskInv, UNCHANGED <<call, log, tasks>>,
         \/ StartScan
         \/ UNCHANGED <<scan, nextScan>> /\ now' \in Nat /\ now <= now' /\ surprises' \in Nat
            /\ surprises <= surprises'
  PROVE  TaskInv'
<1>1. ASSUME NEW at \in Nat, NEW r \in Nat, NEW n \in Nat, Spent(at, r, n)
      PROVE  Spent(at, r, n)'
  <2>1. CASE StartScan
    <3>1. /\ scan.at = Never /\ now >= nextScan /\ UNCHANGED <<now, surprises>>
          /\ (scan' = NoScan /\ nextScan' = now + 1) \/ scan'.at = now
      BY <2>1, NoScanTyped DEF StartScan, GoOn
    <3>. QED
      BY <1>1, <3>1, NoScanTyped, Numbers DEF Spent, Never
  <2>2. CASE UNCHANGED <<scan, nextScan>> /\ now' \in Nat /\ now <= now' /\ surprises' \in Nat
             /\ surprises <= surprises'
    BY <1>1, <2>2, Numbers DEF Spent
  <2>. QED
    BY <2>1, <2>2
<1>2. call[Cron].pc # "idle" =>
         call[Cron].by \in {scan'.at} \X {scan'.rule} \X (0 .. surprises')
  <2>1. CASE StartScan
    BY <2>1, NoScanTyped DEF StartScan, Typed
  <2>2. CASE UNCHANGED <<scan, nextScan>> /\ now' \in Nat /\ now <= now' /\ surprises' \in Nat
             /\ surprises <= surprises'
    BY <2>2, Numbers DEF TaskInv, Names
  <2>. QED
    BY <2>1, <2>2
<1>3. Names'
  BY <1>1, <1>2, NamesStep DEF TaskInv, Names
<1>. QED
  BY <1>3, NoWrites

LEMMA TasksHold == Spec => []TaskInv
<1>1. Init => TaskInv
  <2>. SUFFICES ASSUME Init
                PROVE  TaskInv
    OBVIOUS
  <2>1. /\ \A c \in Callers : call[c].pc = "idle" /\ call[c].prior = {}
        /\ log = {} /\ tasks = {}
    BY DEF Init, Idle
  <2>. QED
    BY <2>1 DEF TaskInv, Names, OneTask, RowsOfTasks, DuplicatesOverlap, Callers
<1>2. Typed /\ TaskInv /\ [Next]_vars => TaskInv'
  <2>. SUFFICES ASSUME Typed, TaskInv, [Next]_vars
                PROVE  TaskInv'
    OBVIOUS
  <2>1. CASE \/ UNCHANGED vars \/ Tick
             \/ \E s \in Settings : CreateRule(s) \/ \E r \in RuleIds : UpdateRule(r, s)
             \/ \E r \in RuleIds : DeleteRule(r)
    <3>1. /\ UNCHANGED <<call, log, tasks, scan, nextScan>> /\ now' \in Nat /\ now <= now'
          /\ surprises' \in Nat /\ surprises <= surprises'
      BY <2>1, Numbers
         DEF vars, Tick, CreateRule, UpdateRule, DeleteRule, ChangeRule, Edit, Surprise
    <3>. QED
      BY <3>1, OtherTasks
  <2>2. CASE StartScan
    BY <2>2, OtherTasks DEF StartScan
  <2>3. CASE MarkFails
    BY <2>3, SleepTasks, Numbers DEF MarkFails
  <2>. QED
    BY <2>1, <2>2, <2>3, ProcessTasks, WebhookTasks, FireTasks, MarkTasks, CallFailsTasks, CrashTasks
       DEF Next
<1>. QED
  BY <1>1, <1>2, TypesHold, PTL DEF Spec

----------------------------------------------------------------------------
(* What a dry run foresees.                                                *)

Hits(e) == {r \in Matched(e) : Verdict(r, e) = "triggered"}
Chosen(hits, matched) == CHOOSE r \in RuleIds : IF hits # {} THEN Least(hits, r)
                                                ELSE r \in matched /\ \A q \in matched : q <= r

LEMMA Simulation ==
  ASSUME NEW e
  PROVE  Simulate(e) = IF Matched(e) = {} THEN <<"skipped_no_rule", 0>>
                       ELSE LET r == Chosen(Hits(e), Matched(e)) IN <<Verdict(r, e), r>>
BY DEF Simulate, Chosen, Hits, Matched

\* The dry run names the first rule that would trigger.
LEMMA SimulateHits ==
  ASSUME NEW e, NEW r \in Matched(e), Verdict(r, e) = "triggered", MaxRules \in Nat,
         \A q \in Matched(e) : Verdict(q, e) = "triggered" => r <= q
  PROVE  Simulate(e) = <<"triggered", r>>
<1>1. r \in RuleIds /\ Matched(e) \subseteq Int
  BY DEF Matched, RuleIds
<1>2. Least(Hits(e), r) /\ \A q \in RuleIds : Least(Hits(e), q) => q = r
  BY <1>1 DEF Least, Hits
<1>3. Hits(e) # {}
  BY DEF Hits
<1>4. Chosen(Hits(e), Matched(e)) = r
  BY <1>1, <1>2, <1>3 DEF Chosen
<1>. QED
  BY <1>4, Simulation

\* When none would, it names the last one that listens.
LEMMA SimulateSkips ==
  ASSUME NEW e, NEW r \in Matched(e), MaxRules \in Nat,
         \A q \in Matched(e) : q <= r /\ Verdict(q, e) # "triggered"
  PROVE  Simulate(e) = <<Verdict(r, e), r>>
<1>1. r \in RuleIds /\ Matched(e) \subseteq Int
  BY DEF Matched, RuleIds
<1>2. Hits(e) = {}
  BY DEF Hits
<1>3. \A q \in RuleIds : q \in Matched(e) /\ (\A p \in Matched(e) : p <= q) => q = r
  BY <1>1
<1>4. Chosen(Hits(e), Matched(e)) = r
  BY <1>1, <1>2, <1>3 DEF Chosen
<1>. QED
  BY <1>4, Simulation

\* The row of an event that was skipped changes no dry run.
LEMMA SimulationStands ==
  ASSUME UNCHANGED <<now, rules>>, log \subseteq log',
         \A row \in log' : row \in log \/ row.result # "triggered"
  PROVE  \A e : /\ Matched(e)' = Matched(e) /\ Simulate(e)' = Simulate(e)
                /\ \A r : Verdict(r, e)' = Verdict(r, e)
<1>. SUFFICES ASSUME NEW e
              PROVE  /\ Matched(e)' = Matched(e) /\ Simulate(e)' = Simulate(e)
                     /\ \A r : Verdict(r, e)' = Verdict(r, e)
  OBVIOUS
<1>1. \A r, s, key : IsDuplicate(r, s, key)' <=> IsDuplicate(r, s, key)
  BY DEF IsDuplicate
<1>2. \A r : Verdict(r, e)' = Verdict(r, e)
  BY <1>1 DEF Verdict
<1>3. Matched(e)' = Matched(e)
  BY DEF Matched
<1>4. Hits(e)' = Hits(e)
  BY <1>2, <1>3 DEF Hits
<1>5. Chosen(Hits(e), Matched(e))' = Chosen(Hits(e), Matched(e))
  BY <1>3, <1>4 DEF Chosen
<1>6. ASSUME NEW r, r = Chosen(Hits(e), Matched(e))'
      PROVE  Simulate(e)' = IF Matched(e)' = {} THEN <<"skipped_no_rule", 0>> ELSE <<Verdict(r, e)', r>>
  BY <1>6 DEF Simulate, Chosen, Hits, Matched, Verdict
<1>. QED
  BY <1>2, <1>3, <1>5, <1>6, Simulation

\* The outcome of a call is in its row of the last rule.
LEMMA LastRow ==
  ASSUME NEW d, NEW row, log' = log \cup {row}, call'[d].by = d, row.by = d, row.rule \in Nat,
         \A other \in log : other.by = d => other.rule \in Nat /\ other.rule < row.rule
  PROVE  Outcome(d)' = <<row.result, row.rule>>
<1>. DEFINE mine == {other \in log' : other.by = d}
<1>1. row \in mine /\ \A other \in mine : other.rule <= row.rule
  OBVIOUS
<1>2. \A y \in mine : (\A other \in mine : other.rule <= y.rule) => y = row
  <2>. SUFFICES ASSUME NEW y \in mine, \A other \in mine : other.rule <= y.rule, y # row
                PROVE  FALSE
    OBVIOUS
  <2>1. y.rule \in Nat /\ y.rule < row.rule /\ row.rule <= y.rule
    BY <1>1
  <2>. QED
    BY <2>1
<1>3. (CHOOSE y \in mine : \A other \in mine : other.rule <= y.rule) = row
  BY <1>1, <1>2
<1>. QED
  BY <1>3 DEF Outcome

\* A forecast that is void claims nothing, and one that stands is not touched by
\* the steps that neither write nor change a rule.
LEMMA ForeseenStands ==
  ASSUME NEW d, Foreseen(d),
         \/ forecast'[d] = Unknown
         \/ /\ UNCHANGED <<now, rules, log>> /\ forecast'[d] = forecast[d]
            /\ call'[d] = call[d] \/ call'[d].pc = "failed"
  PROVE  Foreseen(d)'
<1>1. CASE forecast'[d] = Unknown
  BY <1>1 DEF Foreseen
<1>2. CASE UNCHANGED <<now, rules, log>> /\ forecast'[d] = forecast[d] /\ call'[d] = call[d]
  <2>1. \A e : /\ Matched(e)' = Matched(e) /\ Simulate(e)' = Simulate(e)
               /\ \A r : Verdict(r, e)' = Verdict(r, e)
    BY <1>2, SimulationStands
  <2>2. Outcome(d)' = Outcome(d) /\ \A r : Setting(d, r)' = Setting(d, r)
    BY <1>2 DEF Outcome, Setting
  <2>. QED
    BY <1>2, <2>1, <2>2 DEF Foreseen
<1>3. CASE forecast'[d] = forecast[d] /\ call'[d].pc = "failed"
  BY <1>3 DEF Foreseen
<1>. QED
  BY <1>1, <1>2, <1>3

\* The name of the call of a delivery, and its rows.
LEMMA DeliveryRows ==
  ASSUME Typed, Names, NEW d \in Deliveries
  PROVE  /\ d \in Callers /\ d # Cron
         /\ call[d].pc # "idle" => call[d].by = d
         /\ call[d].pc = "idle" => \A row \in log : row.by # d
  BY CallsHaveNames DEF Names, Callers

LEMMA WebhookForesees ==
  ASSUME Typed, Names, NEW d \in Deliveries, NEW e, Webhook(d, e), NEW c \in Deliveries, Foreseen(c)
  PROVE  Foreseen(c)'
<1>. DEFINE x == Begun(d, e, <<>>)
<1>1. /\ call[d].pc = "idle" /\ call' = [call EXCEPT ![d] = x]
      /\ forecast' = [forecast EXCEPT ![d] = IF e.project = All THEN Simulate(e) ELSE Unknown]
      /\ UNCHANGED <<now, rules, log>>
  BY DEF Webhook, Begin
<1>2. d \in Callers /\ c \in Callers /\ \A row \in log : row.by # d
  BY <1>1, DeliveryRows
<1>3. x.pc = "query" /\ x.event = e /\ x.held = <<>> /\ Holds(<<>>, created)
  BY BeginTyped DEF Holds
<1>. HIDE DEF x
<1>4. /\ call'[d] = x /\ forecast'[d] = IF e.project = All THEN Simulate(e) ELSE Unknown
      /\ c # d => call'[c] = call[c] /\ forecast'[c] = forecast[c]
  BY <1>1, <1>2 DEF Typed
<1>5. CASE c = d
  <2>1. Simulate(e)' = Simulate(e)
    BY <1>1, SimulationStands
  <2>2. CASE e.project = All
    BY <1>1, <1>2, <1>3, <1>4, <1>5, <2>1, <2>2 DEF Foreseen
  <2>3. CASE e.project # All
    BY <1>4, <1>5, <2>3 DEF Foreseen
  <2>. QED
    BY <2>2, <2>3
<1>. QED
  BY <1>1, <1>4, <1>5, ForeseenStands

LEMMA QueryForesees ==
  ASSUME Typed, Names, NEW d \in Deliveries, Foreseen(d), Query(d)
  PROVE  Foreseen(d)'
<1>. DEFINE row == Row(d, 0, NoKey, "skipped_no_rule")
<1>0. PICK e : e = call[d].event
  OBVIOUS
<1>. USE <1>0
<1>. SUFFICES ASSUME forecast[d] # Unknown, forecast'[d] = forecast[d]
              PROVE  Foreseen(d)'
  BY QueryDoes, Disturbs, DeliveryRows DEF Foreseen
<1>1. /\ Does(d) /\ call[d].pc = "query" /\ UNCHANGED <<now, rules>> /\ call'[d].by = d
      /\ call[d].by = d /\ d \in Callers /\ now \in Nat
  BY QueryDoes, DeliveryRows, Numbers DEF Does
<1>2. /\ forecast[d] = Simulate(e) /\ e.project = All /\ DOMAIN call[d].held = {}
      /\ \A other \in log : other.by # d
  BY <1>1 DEF Foreseen
<1>3. Found(d) = {r \in RuleIds : Listens(rules[r], e.source)}
  BY <1>2 DEF Found
<1>4. Held(d) = [r \in Found(d) |-> rules[r]]
  BY <1>2 DEF Held
<1>5. Listening(d) = Matched(e)
  BY <1>3, <1>4 DEF Listening, Matched
<1>6. CASE Listening(d) = {}
  <2>1. /\ call'[d].pc = "done" /\ log' = log \cup {row}
    BY <1>6, QueryDoes, <1>1
  <2>2. row.by = d /\ row.rule = 0 /\ row.result = "skipped_no_rule"
    BY <1>1, RowTyped DEF Results
  <2>. HIDE DEF row
  <2>3. Outcome(d)' = <<"skipped_no_rule", 0>>
    BY <1>1, <1>2, <2>1, <2>2, LastRow
  <2>4. Simulate(e) = <<"skipped_no_rule", 0>>
    BY <1>5, <1>6, Simulation
  <2>. QED
    BY <1>2, <2>1, <2>3, <2>4 DEF Foreseen
<1>7. CASE Listening(d) # {}
  <2>1. /\ call'[d].pc = "rule" /\ call'[d].todo = Matched(e) /\ call'[d].event = e
        /\ call'[d].held = Held(d) /\ log' = log
    BY <1>1, <1>5, <1>7, QueryDoes
  <2>2. \A f : Simulate(f)' = Simulate(f) /\ Matched(f)' = Matched(f)
    BY <1>1, <2>1, SimulationStands
  <2>3. \A r \in Matched(e) : Setting(d, r)' = rules'[r]
    BY <1>1, <1>3, <1>4, <2>1 DEF Matched, Setting
  <2>4. Matched(e) # {} /\ call'[d].event = e
    BY <1>5, <1>7, <2>1
  <2>. QED
    BY <1>1, <1>2, <2>1, <2>2, <2>3, <2>4 DEF Foreseen
<1>. QED
  BY <1>6, <1>7

\* Among the rules of the event, those that the call has done with come first.
LEMMA RuleForesees ==
  ASSUME Typed, Names, NEW d \in Deliveries, Foreseen(d), forecast[d] # Unknown,
         call[d].pc = "rule", NEW r, Least(call[d].todo, r)
  PROVE  LET e == call[d].event IN
         /\ d \in Callers /\ call[d].by = d /\ r \in call[d].todo /\ r \in Matched(e) /\ r \in Nat
         /\ forecast[d] = Simulate(e) /\ Setting(d, r) = rules[r]
         /\ KeyFor(d, r) = Key(rules[r], e) /\ call[d].todo \subseteq Matched(e)
         /\ \A q \in Matched(e) : q \in Nat
         /\ \A q \in Matched(e) \ call[d].todo : q < r /\ Verdict(q, e) # "triggered"
         /\ \A q \in call[d].todo : r <= q
         /\ \A row \in log : row.by = d => row.rule \in Nat /\ row.rule < r
<1>. DEFINE e == call[d].event
<1>1. /\ forecast[d] = Simulate(e) /\ call[d].todo \subseteq Matched(e)
      /\ \A q \in call[d].todo : Setting(d, q) = rules[q]
      /\ \A q \in Matched(e) \ call[d].todo : /\ Verdict(q, e) # "triggered"
                                              /\ \A p \in call[d].todo : q < p
      /\ \A row \in log : row.by = d => row.rule \in Matched(e) \ call[d].todo
  BY DEF Foreseen
<1>2. r \in call[d].todo /\ \A q \in call[d].todo : r <= q
  BY DEF Least
<1>3. \A q \in Matched(e) : q \in Nat
  BY Numbers DEF Matched, RuleIds
<1>4. call[d].by = d /\ d \in Callers
  BY DeliveryRows
<1>. HIDE DEF e
<1>. QED
  BY <1>1, <1>2, <1>3, <1>4 DEF KeyFor, e

LEMMA SkipForesees ==
  ASSUME Typed, Names, NEW d \in Deliveries, Foreseen(d), NEW r \in RuleIds,
         Filtered(d, r) \/ Duplicate(d, r)
  PROVE  Foreseen(d)'
<1>0. PICK e : e = call[d].event
  OBVIOUS
<1>. USE <1>0
<1>. DEFINE todo == call[d].todo
            passes == Passes(Setting(d, r), e)
            row == IF passes THEN Row(d, r, KeyFor(d, r), "skipped_dedup")
                   ELSE Row(d, r, NoKey, "skipped_filter")
<1>1. d \in Callers
  BY DeliveryRows
<1>2. /\ Does(d) /\ call[d].pc = "rule" /\ Least(todo, r) /\ forecast'[d] = forecast[d]
      /\ passes => IsDuplicate(r, Setting(d, r), KeyFor(d, r))
      /\ log' = log \cup {row}
  BY <1>1, SkipDoes, Disturbs
<1>. SUFFICES ASSUME forecast[d] # Unknown
              PROVE  Foreseen(d)'
  BY <1>2 DEF Foreseen
<1>3. /\ call[d].by = d /\ r \in todo /\ r \in Matched(e) /\ r \in Nat
      /\ forecast[d] = Simulate(e) /\ Setting(d, r) = rules[r]
      /\ KeyFor(d, r) = Key(rules[r], e) /\ todo \subseteq Matched(e)
      /\ \A q \in Matched(e) : q \in Nat
      /\ \A q \in Matched(e) \ todo : q < r /\ Verdict(q, e) # "triggered"
      /\ \A q \in todo : r <= q
      /\ \A other \in log : other.by = d => other.rule \in Nat /\ other.rule < r
  BY <1>2, RuleForesees
<1>4. /\ row.by = d /\ row.rule = r /\ row.result = IF passes THEN "skipped_dedup" ELSE "skipped_filter"
  BY <1>3, Numbers, RowTyped DEF Results
<1>. HIDE DEF row, todo
<1>5. Verdict(r, e) = row.result /\ row.result # "triggered"
  <2>1. CASE passes
    <3>1. IsDuplicate(r, rules[r], Key(rules[r], e)) /\ Passes(rules[r], e)
      BY <1>2, <1>3, <2>1
    <3>. QED
      BY <1>4, <2>1, <3>1 DEF Verdict
  <2>2. CASE ~passes
    <3>1. ~Passes(rules[r], e)
      BY <1>3, <2>2
    <3>. QED
      BY <1>4, <2>2, <3>1 DEF Verdict
  <2>. QED
    BY <2>1, <2>2
<1>6. UNCHANGED <<now, rules>> /\ call'[d].by = d
  BY <1>2, <1>3 DEF Does
<1>7. \A f : /\ Simulate(f)' = Simulate(f) /\ Matched(f)' = Matched(f)
             /\ \A q : Verdict(q, f)' = Verdict(q, f)
  <2>1. log \subseteq log' /\ \A other \in log' : other \in log \/ other.result # "triggered"
    BY <1>2, <1>5
  <2>. QED
    BY <1>6, <2>1, SimulationStands
<1>8. CASE todo = {r}
  <2>1. call'[d].pc = "done"
    BY <1>1, <1>8, SkipDoes DEF todo
  <2>2. Outcome(d)' = <<row.result, r>>
    BY <1>2, <1>3, <1>4, <1>6, LastRow
  <2>3. \A q \in Matched(e) : q <= r /\ Verdict(q, e) # "triggered"
    BY <1>3, <1>5, <1>8
  <2>4. Simulate(e) = <<row.result, r>>
    BY <1>3, <1>5, <2>3, SimulateSkips, Numbers
  <2>. QED
    BY <1>2, <1>3, <2>1, <2>2, <2>4 DEF Foreseen
<1>9. CASE todo # {r}
  <2>1. /\ call'[d].pc = "rule" /\ call'[d].todo = todo \ {r} /\ call'[d].event = e
        /\ call'[d].held = call[d].held
    BY <1>1, <1>9, SkipDoes DEF todo
  <2>2. \A q \in todo \ {r} : Setting(d, q)' = rules'[q]
    BY <1>2, <1>6, <2>1 DEF Foreseen, Setting, todo
  <2>3. todo \ {r} # {} /\ todo \ {r} \subseteq Matched(e)
    BY <1>3, <1>9
  <2>4. ASSUME NEW q \in Matched(e) \ (todo \ {r})
        PROVE  /\ Verdict(q, e) # "triggered"
               /\ \A p \in todo \ {r} : q < p
    <3>1. CASE q = r
      <4>1. \A p \in todo \ {r} : r < p
        BY <1>3
      <4>. QED
        BY <1>5, <3>1, <4>1
    <3>2. CASE q # r
      <4>1. q \in Matched(e) \ todo /\ q < r /\ q \in Nat
        BY <1>3, <3>2
      <4>2. ASSUME NEW p \in todo \ {r}
            PROVE  q < p
        <5>1. p \in Nat /\ r <= p
          BY <1>3
        <5>. QED
          BY <1>3, <4>1, <5>1
      <4>. QED
        BY <1>3, <4>1, <4>2
    <3>. QED
      BY <3>1, <3>2
  <2>5. \A other \in log' : other.by = d => other.rule \in Matched(e) \ (todo \ {r})
    BY <1>2, <1>3, <1>4 DEF Foreseen, todo
  <2>. QED
    BY <1>2, <1>3, <1>7, <2>1, <2>2, <2>3, <2>4, <2>5 DEF Foreseen
<1>. QED
  BY <1>8, <1>9

LEMMA HitForesees ==
  ASSUME Typed, Names, NEW d \in Deliveries, Foreseen(d), NEW r \in RuleIds, CreateTask(d, r)
  PROVE  Foreseen(d)'
<1>. DEFINE e == call[d].event
            todo == call[d].todo
<1>1. d \in Callers
  BY DeliveryRows
<1>2. /\ Does(d) /\ call[d].pc = "rule" /\ Least(todo, r) /\ log' = log /\ forecast'[d] = forecast[d]
      /\ Passes(Setting(d, r), e) /\ ~IsDuplicate(r, Setting(d, r), KeyFor(d, r))
      /\ call'[d].pc = "log" /\ call'[d].rule = r
  BY <1>1, HitDoes, Disturbs
<1>. SUFFICES ASSUME forecast[d] # Unknown
              PROVE  Foreseen(d)'
  BY <1>2 DEF Foreseen
<1>3. /\ r \in todo /\ r \in Matched(e) /\ r \in Nat
      /\ forecast[d] = Simulate(e) /\ Setting(d, r) = rules[r]
      /\ KeyFor(d, r) = Key(rules[r], e)
      /\ \A q \in Matched(e) : q \in Nat
      /\ \A q \in Matched(e) \ todo : q < r /\ Verdict(q, e) # "triggered"
      /\ \A q \in todo : r <= q
  BY <1>2, RuleForesees
<1>4. Verdict(r, e) = "triggered"
  BY <1>2, <1>3 DEF Verdict
<1>5. Simulate(e) = <<"triggered", r>>
  BY <1>3, <1>4, SimulateHits, Numbers
<1>6. \A row \in log : row.by = d => row.rule \in RuleIds /\ row.rule < r
  BY <1>2, <1>3 DEF Foreseen, Matched
<1>. QED
  BY <1>2, <1>3, <1>5, <1>6 DEF Foreseen

LEMMA LogForesees ==
  ASSUME Typed, Names, NEW d \in Deliveries, Foreseen(d), LogTriggered(d)
  PROVE  Foreseen(d)'
<1>. DEFINE r == call[d].rule
            row == Row(d, r, KeyFor(d, r), "triggered")
<1>1. d \in Callers
  BY DeliveryRows
<1>2. /\ Does(d) /\ call[d].pc = "log" /\ forecast'[d] = forecast[d] /\ log' = log \cup {row}
      /\ call'[d].pc = "done"
  BY <1>1, LogDoes, Disturbs
<1>. SUFFICES ASSUME forecast[d] # Unknown
              PROVE  Foreseen(d)'
  BY <1>2 DEF Foreseen
<1>3. /\ forecast[d] = <<"triggered", r>>
      /\ \A other \in log : other.by = d => other.rule \in Nat /\ other.rule < r
  BY <1>2, Numbers DEF Foreseen, RuleIds
<1>4. call[d].by = d /\ r \in Nat /\ call'[d].by = d
  <2>1. r \in call[d].todo /\ call[d].todo \subseteq 1 .. created
    BY <1>1, <1>2, Calls DEF CallTyped
  <2>. QED
    BY <1>2, <2>1, DeliveryRows, Numbers DEF Does
<1>5. row.by = d /\ row.rule = r /\ row.result = "triggered"
  BY <1>4, Numbers, RowTyped DEF Results
<1>. HIDE DEF row, r
<1>6. Outcome(d)' = <<"triggered", r>>
  BY <1>2, <1>3, <1>4, <1>5, LastRow
<1>. QED
  BY <1>2, <1>3, <1>6 DEF Foreseen

LEMMA ProcessForesees ==
  ASSUME Typed, Names, NEW c \in Callers, ProcessEvent(c), NEW d \in Deliveries, Foreseen(d)
  PROVE  Foreseen(d)'
<1>1. CASE c = d
  BY <1>1, QueryForesees, SkipForesees, HitForesees, LogForesees DEF ProcessEvent
<1>2. CASE c # d
  <2>1. /\ Disturb(c) \/ UNCHANGED <<log, forecast>>
        /\ UNCHANGED <<now, rules>>
    BY QueryDoes, SkipDoes, HitDoes, LogDoes DEF ProcessEvent, Does
  <2>2. call'[d] = call[d]
    BY <1>2, Marks DEF Does, Callers
  <2>3. Disturb(c) => forecast'[d] = Unknown
    BY <1>2, Disturbs DEF Callers
  <2>. QED
    BY <2>1, <2>2, <2>3, ForeseenStands
<1>. QED
  BY <1>1, <1>2

LEMMA ForecastsStand == Spec => [](\A d \in Deliveries : Foreseen(d))
<1>1. Init => \A d \in Deliveries : Foreseen(d)
  BY DEF Init, Foreseen, Callers
<1>2. Typed /\ Names /\ (\A d \in Deliveries : Foreseen(d)) /\ [Next]_vars
        => (\A d \in Deliveries : Foreseen(d))'
  <2>. SUFFICES ASSUME Typed, Names, NEW d \in Deliveries, Foreseen(d), [Next]_vars
                PROVE  Foreseen(d)'
    OBVIOUS
  <2>1. d \in Callers /\ d # Cron
    BY DeliveryRows
  <2>2. CASE \/ Tick \/ Mark
             \/ \E s \in Settings : CreateRule(s) \/ \E r \in RuleIds : UpdateRule(r, s)
             \/ \E r \in RuleIds : DeleteRule(r)
    <3>1. Disturb(Cron) \/ Disturb(NoRule)
      BY <2>2 DEF Tick, Mark, CreateRule, UpdateRule, DeleteRule, ChangeRule, Edit
    <3>2. forecast'[d] = Unknown
      BY <2>1, <3>1, Disturbs, CallsHaveNames
    <3>. QED
      BY <3>2, ForeseenStands
  <2>3. CASE \/ UNCHANGED vars \/ StartScan \/ MarkFails \/ Crash
             \/ (\E r \in RuleIds : Fire(r)) \/ \E c \in Callers : CallFails(c)
    <3>1. UNCHANGED <<now, rules, log, forecast>>
      BY <2>3 DEF vars, StartScan, MarkFails, Crash, Fire, CallFails
    <3>2. Failed(d).pc = "failed"
      BY EndedTyped
    <3>. HIDE DEF Failed, Idle, Begun
    <3>3. call'[d] = call[d] \/ call'[d].pc = "failed"
      BY <2>1, <2>3, <3>2
         DEF vars, StartScan, MarkFails, Sleep, Crash, Fire, Begin, CallFails, Typed
    <3>. QED
      BY <3>1, <3>3, ForeseenStands
  <2>. QED
    BY <2>2, <2>3, ProcessForesees, WebhookForesees DEF Next
<1>3. TaskInv => Names
  BY DEF TaskInv
<1>. QED
  BY <1>1, <1>2, <1>3, TypesHold, TasksHold, PTL DEF Spec

----------------------------------------------------------------------------
(* The theorems.                                                           *)

\* Whatever the requests, the schedules and the edits, the state of the calls, the
\* rules and the scan has its types: a session holds settings only of rules that
\* were created, and a call is at a rule that it still has to do.
THEOREM TypeCorrect == Spec => []TypeOK
BY TypesHold, Parts, PTL

\* Two tasks of one rule for one key are within the window of the rule only if the
\* calls overlap or the first was not logged: a call that begins after the row of a
\* task sees it at its check, for the row carries the rule and the key of the task
\* (process_event with _is_duplicate).
THEOREM DuplicatesNeedOverlap == Spec => []DuplicatesOverlap
<1>1. TaskInv => DuplicatesOverlap
  BY DEF TaskInv
<1>. QED
  BY <1>1, TasksHold, PTL

\* A scan that got past a rule uses up the points of its schedule until then: a
\* later scan fires the rule only if a point has come since (_fire_due_rules,
\* croniter.get_next from last_triggered_at), through crashes and failed updates.
THEOREM PointsFireOnce == Spec => []FiresOncePerPoint
<1>1. ScanInv => FiresOncePerPoint
  BY DEF ScanInv
<1>. QED
  BY <1>1, ScansHold, PTL

\* What simulate_event says of an event that belongs to no project is what
\* process_event makes of it, if nobody else writes and the clock stands: the two
\* go through the same rules in the same order.
THEOREM ForecastsHold == Spec => []ForecastHolds
<1>1. (\A d \in Deliveries : Foreseen(d)) => ForecastHolds
  <2>. SUFFICES ASSUME NEW d \in Deliveries, Foreseen(d), call[d].pc = "done",
                       forecast[d] # Unknown
                PROVE  Outcome(d) = forecast[d]
    BY DEF ForecastHolds
  <2>. QED
    BY DEF Foreseen
<1>. QED
  BY <1>1, ForecastsStand, PTL
=============================================================================
