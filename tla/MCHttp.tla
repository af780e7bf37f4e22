------------------------------- MODULE MCHttp -------------------------------
(***************************************************************************)
(* Small rule sets and configurations for HttpMiddleware.                  *)
(***************************************************************************)
EXTENDS HttpMiddleware, TLC

NoCtl == [field |-> "none", value |-> 0]
Test(c) == [forced |-> FALSE, ctl |-> c]

SecRule(id, phase, disruptive) ==
  [id |-> id, phase |-> phase, mark |-> NoMark, links |-> <<Test(NoCtl)>>, skip |-> 0,
   skipAfter |-> NoMark, disruptive |-> disruptive, status |-> 0, audit |-> FALSE]

With(r, f, v) == [r EXCEPT !.links = <<Test([field |-> f, value |-> v])>>]

Conf(engine) ==
  [RuleEngine |-> engine, AuditEngine |-> "Off",
   RequestBodyAccess |-> TRUE, RequestBodyLimit |-> 2,
   ResponseBodyAccess |-> TRUE, ResponseBodyLimit |-> 2,
   ForceRequestBodyVariable |-> FALSE, ForceResponseBodyVariable |-> FALSE,
   reqbodyProcessor |-> "none", resBodyProcessor |-> "none"]

WafOf(c, action, rules) ==
  [conf |-> c, rules |-> rules, memLimit |-> 1, relevant |-> {},
   RequestBodyLimitAction |-> action, ResponseBodyLimitAction |-> action]

\* A rule of every phase denies; one switches the engine off on the way.
Denying == <<SecRule(1, 1, "deny"), SecRule(2, 2, "drop"),
             [SecRule(3, 3, "deny") EXCEPT !.status = 404], SecRule(4, 4, "deny")>>
Switching == <<With(SecRule(1, 1, "unset"), "RuleEngine", "Off"),
               With(SecRule(2, 3, "unset"), "resBodyProcessor", "unknown"),
               With(SecRule(3, 3, "redirect"), "ResponseBodyAccess", FALSE)>>

HttpWafs == <<WafOf(Conf("On"), "Reject", Denying),
              WafOf(Conf("On"), "ProcessPartial", Denying),
              WafOf([Conf("On") EXCEPT !.RequestBodyAccess = FALSE], "ProcessPartial", Switching),
              WafOf(Conf("Off"), "Reject", <<>>)>>

PlainWafs == <<WafOf(Conf("On"), "ProcessPartial", <<>>)>>

HttpRuleIds == 1..4
=============================================================================
