------------------------------ MODULE SeasonRules ------------------------------
(***************************************************************************)
(* The two season rules that scoring reads.  An administrator stores a     *)
(* value as text; RuleService checks it by the rule's definition, and the  *)
(* score sheet parses it again, by a reading of its own, on every save.    *)
(*                                                                         *)
(* A text is what the two parsers see of it: how it is spelled, and the    *)
(* number it spells, in hundredths.  "2" is spelled whole, "2.0" and "2e0" *)
(* decimal, "NaN" nan, "Inf" inf, and no parser reads a word.              *)
(***************************************************************************)
EXTENDS Integers

CONSTANTS
    RuleTexts,  \* the values administrators type
    NoRule      \* the season has no row for the key

RuleText == [form : {"whole", "decimal", "nan", "inf", "word"}, value : Int]

ASSUME RuleAssumption == RuleTexts \subseteq RuleText /\ NoRule \notin RuleTexts

VARIABLES
    rules  \* season_rules of the season, by key

RuleKeys == {"handicap_multiplier", "min_ball_handicap"}
DefaultMultiplier == 255

\* strconv.ParseFloat takes both spellings, strconv.Atoi only the whole one.
Parses(t) == t.form # "word"
Finite(t) == t.form \in {"whole", "decimal"}

\* Not a number compares false with every bound, and infinity passes a minimum.
ValidateValue(key, t) ==
    CASE key = "min_ball_handicap" -> Finite(t) /\ t.value % 100 = 0 /\ t.value >= 0
      [] key = "handicap_multiplier" -> Parses(t) /\ (Finite(t) => t.value >= 1)

MultiplierResolves(t) == t # NoRule => Finite(t) /\ t.value > 0
MinBallResolves(t) == t # NoRule => t.form = "whole" /\ t.value >= 0

\* ResolveRoundConfig answers with a configuration, or with an error.
Resolves ==
    /\ MultiplierResolves(rules["handicap_multiplier"])
    /\ MinBallResolves(rules["min_ball_handicap"])

Multiplier ==
    LET t == rules["handicap_multiplier"] IN IF t = NoRule THEN DefaultMultiplier ELSE t.value
MinBall ==
    LET t == rules["min_ball_handicap"] IN IF t = NoRule THEN 0 ELSE t.value \div 100

RulesInit == rules = [k \in RuleKeys |-> NoRule]
RulesTypeOK == rules \in [RuleKeys -> RuleTexts \cup {NoRule}]

\* INSERT OR REPLACE, by the season and the key.
UpsertRule(key, t) ==
    /\ ValidateValue(key, t)
    /\ rules' = [rules EXCEPT ![key] = t]

\* By row id, whose key never changes: a row that was read and then deleted or
\* replaced is not written, which leaves the rules as they are.
UpdateRule(key, t) ==
    /\ rules[key] # NoRule /\ ValidateValue(key, t)
    /\ rules' = [rules EXCEPT ![key] = t]

DeleteRule(key) ==
    /\ rules[key] # NoRule
    /\ rules' = [rules EXCEPT ![key] = NoRule]

RulesNext ==
    \E key \in RuleKeys :
        \/ \E t \in RuleTexts : UpsertRule(key, t) \/ UpdateRule(key, t)
        \/ DeleteRule(key)

================================================================================
