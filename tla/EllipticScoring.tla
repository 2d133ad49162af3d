-------------------------- MODULE EllipticScoring ---------------------------
(***************************************************************************)
(* The scoring of Elliptic's wallet exposure responses.                    *)
(*                                                                         *)
(* Exposure of an element is given in hundredths of a percent; totals,     *)
(* thresholds and risk scores are in millionths of a percent (of a unit,   *)
(* for a score), so that all sums and products are exact integers.         *)
(***************************************************************************)
EXTENDS Integers, Sequences, SequencesExt

ONE_PERCENT == 1000000
NoScore == -1

\* The four rules the service knows, by the name of their category.
RULES ==
    [r \in {"ILLICIT_ACTIVITY", "SANCTIONED_ENTITY", "OBFUSCATING", "DPRK_BYBIT_EXPLOIT"} |->
        [counterpartyPercentage |-> CASE r = "SANCTIONED_ENTITY" -> 0
                                      [] r = "DPRK_BYBIT_EXPLOIT" -> 10
                                      [] OTHER -> ONE_PERCENT \div 10,
         counterpartyUsd |-> 0,
         contributionPercentage |-> ONE_PERCENT \div 10,
         contributionUsd |-> 10]]

HARD_BLOCK_RULES == {"ILLICIT_ACTIVITY", "SANCTIONED_ENTITY"}
hardBlockUsd == 5000
ALLOWED_RISK_EXPOSURE == ONE_PERCENT \div 100

\* An element of an evaluation: shares and dollars of what it was exposed to.
MatchedElement ==
    [contribution_percentage : Nat, contribution_usd : Nat,
     counterparty_percentage : Nat, counterparty_usd : Nat]

TotalOf(values) ==
    LET sum[n \in 0 .. Len(values)] == IF n = 0 THEN 0 ELSE sum[n - 1] + values[n]
    IN  sum[Len(values)]

counterparty_share(e) == e.contribution_percentage * e.counterparty_percentage

\* An absent counterparty or dollar value counts as zero.
aggregateElements(elements) ==
    [counterpartyPercentage |-> TotalOf([i \in DOMAIN elements |-> counterparty_share(elements[i])]),
     counterpartyUsd |-> TotalOf([i \in DOMAIN elements |-> elements[i].counterparty_usd]),
     contributionPercentage |->
         TotalOf([i \in DOMAIN elements |-> elements[i].contribution_percentage * 10000]),
     contributionUsd |-> TotalOf([i \in DOMAIN elements |-> elements[i].contribution_usd])]

HardBlock(rule_id, total) == rule_id \in HARD_BLOCK_RULES /\ total.contributionUsd >= hardBlockUsd

\* The evaluation of a known rule counts when its thresholds are exceeded.
shouldFilter(rule_id, total) ==
    LET rule == RULES[rule_id]
    IN  \/ HardBlock(rule_id, total)
        \/ /\ total.contributionUsd > rule.contributionUsd
           /\ total.contributionPercentage > rule.contributionPercentage
        \/ /\ total.counterpartyUsd > rule.counterpartyUsd
           /\ total.counterpartyPercentage > rule.counterpartyPercentage

\* Mutant: the score Elliptic gave stands although the hard limit is exceeded.
riskScore_as_given(evaluation, total) ==
    IF evaluation.risk_score = NoScore THEN total.contributionPercentage ELSE evaluation.risk_score

\* The score that decides: ten on a hard block, else Elliptic's, else the percentage.
riskScore(evaluation, total) ==
    IF HardBlock(evaluation.rule_id, total) THEN 10 * ONE_PERCENT
    ELSE IF evaluation.risk_score = NoScore THEN total.contributionPercentage
    ELSE evaluation.risk_score

\* Rules the service does not know pass the filter.
filterAndBuildTriggers(evaluations) ==
    {[ruleId |-> e.rule_id, score |-> riskScore(e, aggregateElements(e.matched_elements))] :
        e \in {x \in ToSet(evaluations) :
                  x.rule_id \in DOMAIN RULES =>
                      shouldFilter(x.rule_id, aggregateElements(x.matched_elements))}}

scoreResponse(body) ==
    LET fired == {t \in filterAndBuildTriggers(body.source)
                          \cup filterAndBuildTriggers(body.destination) :
                      t.score > ALLOWED_RISK_EXPOSURE}
    IN  CASE body.process_status = "malformed" -> [blocked |-> TRUE, reason |-> "malformed_json"]
          [] body.process_status = "incomplete" -> [blocked |-> FALSE, reason |-> "incomplete"]
          [] fired = {} -> [blocked |-> FALSE, reason |-> "clean"]
          [] OTHER -> [blocked |-> TRUE,
                       reason |-> IF \A t \in fired : t.ruleId \in DOMAIN RULES
                                  THEN "rule_triggered" ELSE "unknown_rule"]
=============================================================================
