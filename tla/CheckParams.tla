---------------------------- MODULE CheckParams ----------------------------
(***************************************************************************)
(* CheckParamsUtil.checkParams of the gateway: the body of a request is    *)
(* checked against the rules of its url, one rule after the other; the     *)
(* first offending parameter ends the check with a BizException.           *)
(*                                                                         *)
(* A JSON value is abstracted to its kind and its length, that of its      *)
(* string form or, for an array, its size (json-lib is external: getInt    *)
(* and its like read numbers and numeric strings, getString reads          *)
(* anything, an explicit null is a value of its own).  A body that is no   *)
(* JSON object is not read at all: the library throws.                     *)
(***************************************************************************)
EXTENDS Naturals, Sequences

CONSTANTS
  NoMaxLength,  \* an attribute checkParams.xml does not give
  Types,        \* the types rules may name
  MaxLengths,   \* the maxLength attributes rules may have
  Lengths,      \* the lengths of values
  NRules        \* bound: rules of the url

ASSUME RuleAttributes ==
  /\ NRules \in Nat \ {0} /\ Lengths \subseteq Nat
  /\ MaxLengths \ {NoMaxLength} \subseteq Nat

Scalars == {"String", "Integer", "Long"}
Documented == Scalars \cup {"String[]", "Integer[]", "Long[]"}   \* checkParams.xml, line 7

Rules == [type: Types, maxLength: MaxLengths, isNull: {0, 1}]
ArrayKinds == {"texts", "numerics", "numbers", "mixture"}
Absent == [kind |-> "absent", len |-> 0]
Values == {Absent, [kind |-> "null", len |-> 4]}
            \cup [kind: {"number", "numeric", "text", "boolean", "object"} \cup ArrayKinds,
                  len: Lengths]
Forms == {"object", "null", "other"}   \* what the whole body is

VARIABLES
  rules,     \* rulesMap.get(url)
  form,      \* the form of the body
  body,      \* the field each rule is about, absent if the body is no object
  atRule,    \* the rule the loop is at
  verdict    \* "checking", "accepted", "missing" (014003), "wrongType", "tooLong"
             \* (015003), or "crash": an exception that is no BizException

checkVars == <<rules, form, body, atRule, verdict>>

CheckTypeOK ==
  /\ rules \in [1..NRules -> Rules]
  /\ form \in Forms
  /\ body \in [1..NRules -> Values]
  /\ atRule \in 1..NRules
  /\ verdict \in {"checking", "accepted", "missing", "wrongType", "tooLong", "crash"}
  /\ verdict = "accepted" => atRule = NRules

CheckInit ==
  /\ rules \in [1..NRules -> Rules]
  /\ form \in Forms
  /\ body \in [1..NRules -> Values]
  /\ form # "object" => \A i \in 1..NRules : body[i] = Absent
  /\ atRule = 1 /\ verdict = "checking"

ReadsAsNumber(v) == v.kind \in {"number", "numeric"}

MandatoryTypeOk(type, v) ==
  CASE type = "String" -> v.kind \in {"text", "numeric"}
    [] type \in {"Integer", "Long", "Float"} -> ReadsAsNumber(v)
    [] type = "String[]" -> v.kind \in {"texts", "numerics"}
    [] type \in {"Integer[]", "Long[]"} -> v.kind \in {"numbers", "numerics"}
    [] OTHER -> TRUE

\* getString turns whatever is there into a String; Float is not looked at
OptionalTypeOk(type, v) ==
  type \in {"String", "Float"} \/ MandatoryTypeOk(type, v)

\* Unboxing a missing maxLength throws, and so does getJSONArray for a value that is none
LengthVerdict(rule, v) ==
  CASE rule.maxLength = NoMaxLength -> "crash"
    [] rule.maxLength # NoMaxLength /\ rule.maxLength < 1 -> "ok"
    [] OTHER -> IF rule.type \notin Scalars /\ v.kind \notin ArrayKinds THEN "crash"
                ELSE IF v.len > rule.maxLength THEN "tooLong" ELSE "ok"

\* Faulty variant: the length is taken before the type is known
RuleVerdictLengthFirst(rule, v) ==
  CASE v.kind = "absent" -> IF rule.isNull = 1 THEN "missing" ELSE "ok"
    [] v.kind # "absent" /\ LengthVerdict(rule, v) # "ok" -> LengthVerdict(rule, v)
    [] OTHER -> IF MandatoryTypeOk(rule.type, v) THEN "ok" ELSE "wrongType"

RuleVerdict(rule, v) ==
  CASE v.kind = "absent" -> IF rule.isNull = 1 THEN "missing" ELSE "ok"
    [] v.kind # "absent" /\ rule.isNull = 1 /\ ~MandatoryTypeOk(rule.type, v) -> "wrongType"
    [] v.kind # "absent" /\ rule.isNull = 0 /\ ~OptionalTypeOk(rule.type, v) -> "wrongType"
    [] OTHER -> LengthVerdict(rule, v)

\* fromObject throws for a body that is no object, opt for one that is null
Verdict(i) == IF form = "object" THEN RuleVerdict(rules[i], body[i]) ELSE "crash"

\* Faulty variant: the loop goes on after an offender
CheckRuleGoingOn ==
  /\ verdict = "checking"
  /\ IF atRule < NRules THEN atRule' = atRule + 1 /\ UNCHANGED verdict
     ELSE /\ verdict' = IF Verdict(atRule) = "ok" THEN "accepted" ELSE Verdict(atRule)
          /\ UNCHANGED atRule
  /\ UNCHANGED <<rules, form, body>>

CheckRule ==
  /\ verdict = "checking"
  /\ LET v == Verdict(atRule) IN
       IF v = "ok" /\ atRule < NRules THEN atRule' = atRule + 1 /\ UNCHANGED verdict
       ELSE verdict' = (IF v = "ok" THEN "accepted" ELSE v) /\ UNCHANGED atRule
  /\ UNCHANGED <<rules, form, body>>

CheckNext == CheckRule
CheckSpec == CheckInit /\ [][CheckNext]_checkVars /\ WF_checkVars(CheckNext)

-----------------------------------------------------------------------------
(* A body that lines 66-179 let through is an object that gives every      *)
(* mandatory parameter a value of its type, no longer than its limit; an   *)
(* optional one, if given, is within its limit.                            *)
AcceptedConforms ==
  verdict = "accepted" =>
    form = "object" /\ \A i \in 1..NRules :
      LET rule == rules[i]  v == body[i] IN
        /\ rule.isNull = 1 => v.kind # "absent" /\ MandatoryTypeOk(rule.type, v)
        /\ v.kind # "absent" /\ rule.maxLength # NoMaxLength /\ rule.maxLength >= 1 =>
             v.len <= rule.maxLength

(* When all rules have the form that checkParams.xml documents (lines 4-7) *)
(* and the body is a JSON object, whatever its members, the check fails    *)
(* with nothing but a BizException.  (A body of any other form ends in the *)
(* library's exception: line 66 throws it, or lines 74 and 128 do.)        *)
DocumentedRulesNeverCrash ==
  form = "object" /\ (\A i \in 1..NRules : rules[i].type \in Documented /\ rules[i].maxLength # NoMaxLength)
    => verdict # "crash"

(* Parameter.java, line 14: a maxLength of null means that the length is   *)
(* not checked.                                                            *)
NullMaxLengthIsNoLimit ==
  form = "object" /\ rules[atRule].type \in Documented /\ rules[atRule].maxLength = NoMaxLength => verdict # "crash"
=============================================================================
