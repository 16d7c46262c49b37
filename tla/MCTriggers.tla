----------------------------- MODULE MCTriggers -----------------------------
(* Two webhook requests and the scheduler over two rules.                  *)
EXTENDS Triggers, TriggerFilters

CONSTANTS d1, d2
MCSymmetry == Permutations({d1, d2})

MCPasses(s, e) == PassesFilters(s.filters, Hook(e).payload)
MCKey(s, e) == IF s.dedup = "" THEN "" ELSE Render(s.dedup, Hook(e).payload)
MCScheduled(r, at) == [source |-> "cron", project |-> "all", rule |-> r, at |-> at]
MCEventType(e) == Hook(e).type
MCAccepted(e) == Hook(e).accepted

Issue == [source |-> "github", project |-> "all", kind |-> "issues", action |-> "opened", merged |-> FALSE,
          title |-> {"fix", "it"}, labels |-> {"bug"}, author |-> "ann", branch |-> "", key |-> "7",
          mock |-> FALSE, signed |-> TRUE]
MCIntegrated == {<<"p", "github">>}
MCEvents == {Issue, [Issue EXCEPT !.project = "p", !.labels = {"auto"}]}

\* A rule for issues that are not for the automation, and a cron rule.
Rule == [source |-> "github", type |-> "issue_opened", project |-> "p", dedup |-> "key",
         window |-> 0, cron |-> {}, enabled |-> TRUE,
         filters |-> [op |-> "or", conditions |-> <<
           [type |-> "branch", value |-> "main"],
           [op |-> "not", conditions |-> <<[type |-> "labels", value |-> {"auto"}]>>]>>]]
CronRule == [Rule EXCEPT !.source = "cron", !.type = "*", !.cron = {0, 1}, !.dedup = "rule_name",
                         !.window = 1, !.filters = [author_not |-> {"ann"}]]
MCSettings == {Rule, [Rule EXCEPT !.enabled = FALSE], CronRule}
MCInitialRules == {<<Rule>>, <<Rule, Rule>>, <<CronRule>>}
=============================================================================
