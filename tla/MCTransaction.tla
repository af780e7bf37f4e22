--------------------------- MODULE MCTransaction ---------------------------
(***************************************************************************)
(* Small rule sets and configurations for Transaction.                     *)
(***************************************************************************)
EXTENDS Transaction, TLC

NoCtl == [field |-> "none", value |-> 0]
Test(c) == [forced |-> FALSE, ctl |-> c]
Always(c) == [forced |-> TRUE, ctl |-> c]
Set(f, v) == [field |-> f, value |-> v]

\* A SecRule without chain, the base of the others.
SecRule(id, phase, disruptive) ==
  [id |-> id, phase |-> phase, mark |-> NoMark, links |-> <<Test(NoCtl)>>, skip |-> 0,
   skipAfter |-> NoMark, disruptive |-> disruptive, status |-> 0, audit |-> FALSE]

SecMarker(m) ==
  [SecRule(0, 0, "unset") EXCEPT !.mark = m, !.links = <<Always(NoCtl)>>]

With(r, c) == [r EXCEPT !.links = <<Test(c)>>]

Conf(engine, auditEngine) ==
  [RuleEngine |-> engine, AuditEngine |-> auditEngine,
   RequestBodyAccess |-> TRUE, RequestBodyLimit |-> 2,
   ResponseBodyAccess |-> TRUE, ResponseBodyLimit |-> 2,
   ForceRequestBodyVariable |-> FALSE, ForceResponseBodyVariable |-> FALSE,
   reqbodyProcessor |-> "none", resBodyProcessor |-> "none"]

WafOf(c, action, rules) ==
  [conf |-> c, rules |-> rules, memLimit |-> 1, relevant |-> {},
   RequestBodyLimitAction |-> action, ResponseBodyLimitAction |-> action]

\* skip, allow:phase, a denying rule in a request, a response and the logging phase.
FlowRules == <<[SecRule(1, 1, "unset") EXCEPT !.skip = 3],
               [SecRule(2, 1, "deny") EXCEPT !.audit = TRUE],
               SecRule(3, 1, "phase"),
               SecRule(4, 3, "redirect"),
               [SecRule(5, 5, "deny") EXCEPT !.status = 404]>>

\* allow and allow:request, skipAfter over a marker, removal of a later rule.
JumpRules == <<[SecRule(1, 1, "request") EXCEPT !.skipAfter = "M"],
               With(SecRule(2, 1, "unset"), Set("remove", {4})),
               SecMarker("M"),
               SecRule(3, 2, "all"),
               [SecRule(4, 2, "drop") EXCEPT !.status = 500],
               SecRule(6, 2, "deny"),
               SecRule(5, 3, "deny")>>

\* A chain whose first link switches the engine on, and one that switches it off.
ChainRules == <<[SecRule(1, 1, "deny") EXCEPT
                   !.links = <<Test(Set("RuleEngine", "On")), Test(NoCtl)>>],
                With(SecRule(2, 2, "deny"), Set("RuleEngine", "DetectionOnly")),
                With(SecRule(3, 3, "unset"), Set("ForceResponseBodyVariable", TRUE)),
                With(SecRule(4, 4, "deny"), Set("AuditEngine", "On")),
                With(SecRule(5, 5, "deny"), Set("RuleEngine", "Off"))>>

RuleWafs == <<[WafOf(Conf("On", "RelevantOnly"), "Reject", FlowRules) EXCEPT
                 !.relevant = {403}],
              WafOf(Conf("On", "On"), "ProcessPartial", JumpRules),
              WafOf(Conf("DetectionOnly", "Off"), "Reject", ChainRules)>>

\* ctl of the request body settings in the phase that may and one that may not.
RequestRules == <<With(SecRule(1, 1, "unset"), Set("RequestBodyLimit", 3)),
                  With(SecRule(2, 1, "unset"), Set("reqbodyProcessor", "unknown")),
                  With(SecRule(3, 2, "deny"), Set("RequestBodyLimit", 1))>>

\* The same for the response.
ResponseRules == <<With(SecRule(1, 3, "unset"), Set("ResponseBodyLimit", 1)),
                   With(SecRule(2, 3, "unset"), Set("resBodyProcessor", "unknown")),
                   With(SecRule(3, 4, "deny"), Set("ResponseBodyLimit", 1))>>

\* Only one of the two bodies is accessible, so that the bytes of the other are
\* ignored: the two buffers do not interact.
OnlyRequest == [Conf("On", "Off") EXCEPT !.ResponseBodyAccess = FALSE]
OnlyResponse == [Conf("On", "Off") EXCEPT !.RequestBodyAccess = FALSE]

BodyWafs == <<WafOf(OnlyRequest, "Reject", RequestRules),
              WafOf(OnlyRequest, "ProcessPartial", RequestRules),
              WafOf(OnlyResponse, "Reject", ResponseRules),
              WafOf(OnlyResponse, "ProcessPartial", ResponseRules)>>

\* The rule that forces the response body variable, for CtlReuse.cfg.
ForceWafs == <<WafOf(Conf("On", "Off"), "Reject",
  <<With(SecRule(1, 3, "unset"), Set("ForceResponseBodyVariable", TRUE))>>)>>

MCRuleIds == 1..6
=============================================================================
