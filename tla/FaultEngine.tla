----------------------------- MODULE FaultEngine -----------------------------
(***************************************************************************)
(* The fault injection engine (common/pkg/fault/fault.go): rules with a    *)
(* target and a trigger, and Check, which a simulator calls before each    *)
(* operation and which visits the rules in the order of a Go map until one *)
(* of them fires.  Every method holds Engine.mu from start to end.         *)
(***************************************************************************)
EXTENDS Integers, FiniteSets, Maps

CONSTANTS
    Targets,      \* targets of rules: fields that are empty match anything
    Operations,   \* the operations checked: a simulator, host and operation
    Triggers,     \* triggers of rules, see Trigger
    PostedCalls,  \* values of call_count in the body of a posted rule
    MaxRules,     \* bound: rules added
    MaxChecks     \* bound: checks seen by the rules together

VARIABLES
    rules,        \* Engine.rules
    ruleCounter   \* Engine.counter

faultVars == <<rules, ruleCounter>>

-----------------------------------------------------------------------------
(***************************************************************************)
(* chance is the probability of a probabilistic trigger: zero, one or in   *)
(* between; phase is where the clock is with respect to the window of a    *)
(* time trigger ("unset": it has no activate_at).                          *)
(***************************************************************************)
Trigger == [type : {"probabilistic", "count", "time", "other"},
            chance : {"zero", "some", "one"}, after : Int, repeat : BOOLEAN,
            phase : {"unset", "before", "open", "over"}]

ASSUME FaultAssumption ==
    Triggers \subseteq Trigger /\ PostedCalls \subseteq Int

\* posted, asked and others are history: the call count the rule was posted
\* with, the checks that match its target since then, and those of them that
\* another rule has answered.
Rule == [target : Targets, trigger : Trigger, calls : Int, hits : Nat,
         posted : Int, asked : Nat, others : Nat]

FaultInit == rules = EmptyMap /\ ruleCounter = 0

\* The hit count of the posted rule is overwritten, its call count is not.
AddRule(target, trigger, calls) ==
    /\ ruleCounter < MaxRules
    /\ ruleCounter' = ruleCounter + 1
    /\ rules' = Put(rules, ruleCounter + 1,
                    [target |-> target, trigger |-> trigger, calls |-> calls,
                     hits |-> 0, posted |-> calls, asked |-> 0, others |-> 0])

DeleteRule(id) ==
    /\ id \in DOMAIN rules
    /\ rules' = Drop(rules, id)
    /\ UNCHANGED ruleCounter

ClearRules ==
    /\ rules' = EmptyMap
    /\ UNCHANGED ruleCounter

\* The clock reaches the start of a rule's window, or passes its end, which
\* for a window without a duration is the same moment.
FaultTick(id, phase) ==
    /\ id \in DOMAIN rules
    /\ <<rules[id].trigger.phase, phase>> \in
           {<<"before", "open">>, <<"before", "over">>, <<"open", "over">>}
    /\ rules' = [rules EXCEPT ![id].trigger.phase = phase]
    /\ UNCHANGED ruleCounter

-----------------------------------------------------------------------------
MatchTarget(target, op) ==
    \A f \in DOMAIN target : target[f] = "" \/ target[f] = op[f]

\* Mutant: a one-shot rule fires on every call from after_count on.
ShouldTriggerAtLeast(t, calls) ==
    CASE t.type = "probabilistic" -> {t.chance = "one", t.chance # "zero"}
      [] t.type = "count" -> {calls >= t.after}
      [] t.type = "time"  -> {t.phase = "open"}
      [] OTHER            -> {FALSE}

\* The possible answers of shouldTrigger at the given call count.
ShouldTrigger(t, calls) ==
    CASE t.type = "probabilistic" -> {t.chance = "one", t.chance # "zero"}
      [] t.type = "count" -> {calls = t.after \/ (calls > t.after /\ t.repeat)}
      [] t.type = "time"  -> {t.phase = "open"}
      [] OTHER            -> {FALSE}

\* Mutant: a rule counts the calls it fires on.
CheckedOnHit(id, visited, hit, matching) ==
    LET r == rules[id]
    IN [r EXCEPT !.calls = IF id \in hit THEN @ + 1 ELSE @,
                 !.hits  = IF id \in hit THEN @ + 1 ELSE @,
                 !.asked = IF id \in matching THEN @ + 1 ELSE @,
                 !.others = IF id \in matching /\ hit # {} /\ id \notin hit
                            THEN @ + 1 ELSE @]

\* A rule after a check that visited some rules and hit at most one.
Checked(id, visited, hit, matching) ==
    LET r == rules[id]
    IN [r EXCEPT !.calls = IF id \in visited THEN @ + 1 ELSE @,
                 !.hits  = IF id \in hit THEN @ + 1 ELSE @,
                 !.asked = IF id \in matching THEN @ + 1 ELSE @,
                 !.others = IF id \in matching /\ hit # {} /\ id \notin hit
                            THEN @ + 1 ELSE @]

\* hit is the rule that fires, if any, and visited the matching rules that
\* come before it in the map, and it: all of them when none fires.
Check(op, visited, hit) ==
    LET matching == {id \in DOMAIN rules : MatchTarget(rules[id].target, op)}
        Answers(id) == ShouldTrigger(rules[id].trigger, rules[id].calls + 1)
    IN /\ visited \subseteq matching /\ hit \subseteq visited
       /\ Cardinality(hit) <= 1
       /\ hit = {} => visited = matching
       /\ \A id \in visited : (id \in hit) \in Answers(id)
       /\ rules' = [id \in DOMAIN rules |-> Checked(id, visited, hit, matching)]
       /\ UNCHANGED ruleCounter

FaultNext ==
    \/ \E target \in Targets, trigger \in Triggers, calls \in PostedCalls :
           AddRule(target, trigger, calls)
    \/ \E id \in DOMAIN rules :
           DeleteRule(id) \/ \E phase \in {"open", "over"} : FaultTick(id, phase)
    \/ ClearRules
    \/ /\ \A id \in DOMAIN rules : rules[id].asked < MaxChecks
       /\ \E op \in Operations : \E visited \in SUBSET DOMAIN rules :
              \E hit \in {{}} \cup {{id} : id \in visited} :
                  Check(op, visited, hit)

FaultSpec == FaultInit /\ [][FaultNext]_faultVars

-----------------------------------------------------------------------------
(* Properties.                                                             *)

\* The rules are well formed and numbered up to the counter.
FaultTypeOK ==
    /\ IsMap(rules, 1..ruleCounter, Rule)
    /\ ruleCounter \in Nat

\* The hits of a rule are those its trigger calls for, given the calls it has
\* counted, whatever other rules were visited before or after it: a one-shot
\* count rule fires once, at its count, and never when it was posted past it;
\* a repeating one on every counted call from there on; a certain one on
\* every call, and a rule that cannot fire never does.
HitsExact ==
    \A id \in DOMAIN rules :
        LET r == rules[id]
            counted == (r.posted + 1)..r.calls
        IN CASE r.trigger.type = "count" ->
                  r.hits = Cardinality({n \in counted :
                      IF r.trigger.repeat THEN n >= r.trigger.after
                                          ELSE n = r.trigger.after})
             [] r.trigger.type = "probabilistic" ->
                  /\ r.trigger.chance = "one" => r.hits = Cardinality(counted)
                  /\ r.trigger.chance = "zero" => r.hits = 0
             [] r.trigger.type = "time" ->
                  r.trigger.phase \in {"unset", "before"} => r.hits = 0
             [] OTHER -> r.hits = 0

\* Check stops at the first rule that fires, so a rule does not count every
\* operation it targets; but each one it has missed was answered with the
\* fault of another rule: no operation passes without a fault and uncounted.
NoCallLost ==
    \A id \in DOMAIN rules :
        LET counted == rules[id].calls - rules[id].posted
        IN /\ rules[id].hits <= counted /\ counted <= rules[id].asked
           /\ rules[id].asked <= counted + rules[id].others
=============================================================================
