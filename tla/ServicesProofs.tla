--------------------------- MODULE ServicesProofs ---------------------------
(***************************************************************************)
(* The services that keep their state to themselves: the fault engine, the *)
(* snapshot manager, the cluster manager of ovn-sim, the workload engine,  *)
(* the environment generator, the event log and netbox-sim, each for every *)
(* value of its constants, and all of them side by side.                   *)
(***************************************************************************)
EXTENDS Services, MapProofs, FiniteSetTheorems, SequenceTheorems

-----------------------------------------------------------------------------
(***************************************************************************)
(* The invariants.                                                         *)
(***************************************************************************)
\* A kept snapshot is whole, and of components that are still registered.
SnapshotRight(s, comps) ==
    /\ DOMAIN s.data = DOMAIN s.was
    /\ s.quiet => s.data = s.was
    /\ DOMAIN s.data \subseteq DOMAIN comps

\* A take in progress has saved some of the components that were registered
\* when it began, and nobody registers meanwhile.
TakeRight(t, comps) ==
    /\ DOMAIN t.was = DOMAIN comps
    /\ DOMAIN t.data \subseteq DOMAIN comps
    /\ t.quiet => /\ t.was = comps
                  /\ \A name \in DOMAIN t.data : t.data[name] = t.was[name]

\* A restore works on a whole snapshot of components it has found registered;
\* undisturbed, it has brought back those it is past and left the others.
RestoreRight(call, comps) ==
    /\ SnapshotRight(call.snap, call.from)
    /\ DOMAIN call.from \subseteq DOMAIN comps
    /\ call.left \subseteq DOMAIN call.snap.data
    /\ call.result = "restored" => call.left = {}
    /\ call.quiet =>
          \A name \in DOMAIN call.from :
              comps[name] = IF name \in DOMAIN call.snap.data \ call.left
                            THEN call.snap.data[name] ELSE call.from[name]

SnapshotInv ==
    /\ SnapshotTypeOK
    /\ \A id \in DOMAIN snapshots : SnapshotRight(snapshots[id], components)
    /\ \A t \in taking : TakeRight(t, components)
    /\ \A t, u \in taking : t = u
    /\ taking # {} => snapCounter > 0
    /\ \A r \in DOMAIN restores : RestoreRight(restores[r], components)

\* The servers are numbered as they come, connections belong to one of them,
\* and the server a reset waits for has closed its listener.
ServersKept ==
    /\ DOMAIN servers = 1..Cardinality(DOMAIN servers)
    /\ \A c \in DOMAIN conns : conns[c].server \in DOMAIN servers
    /\ \A id \in manager.at : ~servers[clusters[id]].open

OvnInv == OvnTypeOK /\ ServersKept /\ NoSurvivors

\* A run has the results of the assertions evaluated so far, and one that
\* oversleeps still has the phase it sleeps in before it.
RunKept(q) ==
    /\ q.results = {q.assertions[k] : k \in 1..q.evaluated}
    /\ q.asleep => q.status = "running" /\ q.phases # <<>>

\* One goroutine at a time writes an outcome; a run that is completed and not
\* being written has all its results, and so has a run that a copy shows as
\* completed.
OutcomesWhole ==
    /\ \A i, j \in writing : i = j
    /\ \A i \in DOMAIN runs : RunKept(runs[i])
    /\ \A i \in DOMAIN runs : runs[i].status = "completed" /\ i \notin writing =>
          runs[i].results = Range(runs[i].assertions)
    /\ \A g \in DOMAIN gets : ~gets[g].shared /\ gets[g].status = "completed" =>
          runs[gets[g].run].status = "completed" /\ gets[g].run \notin writing

LoadgenInv == LoadgenTypeOK /\ OutcomesWhole /\ PolledResultsWhole

-----------------------------------------------------------------------------
(* The fault engine.                                                       *)

\* What Check adds to the counters of a rule.
LEMMA CheckedFields ==
    ASSUME NEW id, rules[id] \in Rule, NEW visited, NEW hit, NEW matching
    PROVE  LET r == rules[id]
               q == Checked(id, visited, hit, matching)
           IN /\ q \in Rule
              /\ q.target = r.target /\ q.trigger = r.trigger
              /\ q.posted = r.posted
              /\ q.calls = IF id \in visited THEN r.calls + 1 ELSE r.calls
              /\ q.hits = IF id \in hit THEN r.hits + 1 ELSE r.hits
              /\ q.asked = IF id \in matching THEN r.asked + 1 ELSE r.asked
              /\ q.others = IF id \in matching /\ hit # {} /\ id \notin hit
                            THEN r.others + 1 ELSE r.others
<1> DEFINE r == rules[id]
           c == IF id \in visited THEN r.calls + 1 ELSE r.calls
           h == IF id \in hit THEN r.hits + 1 ELSE r.hits
           a == IF id \in matching THEN r.asked + 1 ELSE r.asked
           o == IF id \in matching /\ hit # {} /\ id \notin hit
                THEN r.others + 1 ELSE r.others
           q == [r EXCEPT !.calls = c, !.hits = h, !.asked = a, !.others = o]
<1>1. Checked(id, visited, hit, matching) = q
  BY DEF Checked, Rule
<1>2. c \in Int /\ h \in Nat /\ a \in Nat /\ o \in Nat
  BY DEF Rule
<1> HIDE DEF c, h, a, o
<1>3. /\ q \in Rule /\ q.target = r.target /\ q.trigger = r.trigger
      /\ q.posted = r.posted /\ q.calls = c /\ q.hits = h
      /\ q.asked = a /\ q.others = o
  BY <1>2 DEF Rule
<1> QED BY <1>1, <1>3 DEF c, h, a, o

\* A rule as it is posted.
LEMMA PostedRule ==
    ASSUME NEW target \in Targets, NEW trigger \in Triggers,
           NEW calls \in PostedCalls
    PROVE  [target |-> target, trigger |-> trigger, calls |-> calls,
            hits |-> 0, posted |-> calls, asked |-> 0, others |-> 0] \in Rule
  BY FaultAssumption DEF FaultAssumption, Rule

\* The clock only moves the phase of a time trigger.
LEMMA TickFields ==
    ASSUME FaultTypeOK, NEW id \in DOMAIN rules,
           NEW next \in {"open", "over"}, FaultTick(id, next)
    PROVE  \E q \in Rule :
              /\ rules' = [rules EXCEPT ![id] = q]
              /\ q.calls = rules[id].calls /\ q.hits = rules[id].hits
              /\ q.posted = rules[id].posted /\ q.asked = rules[id].asked
              /\ q.others = rules[id].others
              /\ q.trigger.type = rules[id].trigger.type
              /\ q.trigger.chance = rules[id].trigger.chance
              /\ q.trigger.after = rules[id].trigger.after
              /\ q.trigger.repeat = rules[id].trigger.repeat
              /\ q.trigger.phase = next
<1> DEFINE r == rules[id]
           t == [r.trigger EXCEPT !.phase = next]
           q == [r EXCEPT !.trigger = t]
<1>1. r \in Rule
  BY MapValue DEF FaultTypeOK
<1>2. r.trigger \in Trigger
  BY <1>1 DEF Rule
<1>3. /\ t \in Trigger /\ t.type = r.trigger.type
      /\ t.chance = r.trigger.chance /\ t.after = r.trigger.after
      /\ t.repeat = r.trigger.repeat /\ t.phase = next
  BY <1>2 DEF Trigger
<1>4. rules' = [rules EXCEPT ![id] = q]
  BY <1>1, <1>2 DEF FaultTick, Rule, Trigger
<1> HIDE DEF t
<1>5. /\ q \in Rule /\ q.calls = r.calls /\ q.hits = r.hits
      /\ q.posted = r.posted /\ q.asked = r.asked /\ q.others = r.others
      /\ q.trigger = t
  BY <1>1, <1>3 DEF Rule
<1> HIDE DEF q
<1> QED BY <1>3, <1>4, <1>5

\* What a step may do to a rule it keeps: nothing, a check that counts it, or
\* a tick of the clock.
SameRule(id) ==
    /\ id \in DOMAIN rules
    /\ rules'[id] = rules[id]

CheckedRule(id) ==
    /\ id \in DOMAIN rules
    /\ \E visited, hit, matching :
          /\ visited \subseteq matching /\ hit \subseteq visited
          /\ hit = {} => visited = matching
          /\ id \in visited =>
                (id \in hit) \in ShouldTrigger(rules[id].trigger,
                                               rules[id].calls + 1)
          /\ rules'[id] = Checked(id, visited, hit, matching)

TickedRule(id) ==
    /\ id \in DOMAIN rules
    /\ LET r == rules[id]
           q == rules'[id]
       IN /\ q.calls = r.calls /\ q.hits = r.hits /\ q.posted = r.posted
          /\ q.asked = r.asked /\ q.others = r.others
          /\ q.trigger.type = r.trigger.type
          /\ q.trigger.chance = r.trigger.chance
          /\ q.trigger.after = r.trigger.after
          /\ q.trigger.repeat = r.trigger.repeat
          /\ q.trigger.phase \in {"open", "over"}

FreshRule(id) ==
    LET q == rules'[id]
    IN q.calls = q.posted /\ q.hits = 0 /\ q.asked = 0 /\ q.others = 0

\* Every step keeps the rules well formed and treats each in one of these ways.
LEMMA FaultInvStep ==
    ASSUME FaultTypeOK, [FaultNext]_faultVars
    PROVE  /\ FaultTypeOK'
           /\ \A id \in DOMAIN rules' : \/ SameRule(id) \/ CheckedRule(id)
                                        \/ TickedRule(id) \/ FreshRule(id)
<1>0. IsMap(rules, 1..ruleCounter, Rule) /\ ruleCounter \in Nat
  BY DEF FaultTypeOK
<1>1. ASSUME NEW target \in Targets, NEW trigger \in Triggers,
             NEW calls \in PostedCalls, AddRule(target, trigger, calls)
      PROVE  /\ FaultTypeOK'
             /\ \A id \in DOMAIN rules' : SameRule(id) \/ FreshRule(id)
  <2> DEFINE q == [target |-> target, trigger |-> trigger, calls |-> calls,
                   hits |-> 0, posted |-> calls, asked |-> 0, others |-> 0]
             n == ruleCounter + 1
  <2>1. q \in Rule
    BY PostedRule
  <2>2. q.calls = q.posted /\ q.hits = 0 /\ q.asked = 0 /\ q.others = 0
    OBVIOUS
  <2>3. rules' = Put(rules, n, q) /\ ruleCounter' = n
    BY <1>1 DEF AddRule
  <2> HIDE DEF q
  <2>4. IsMap(rules, 1..n, Rule) /\ n \in 1..n /\ n \in Nat
    BY <1>0 DEF IsMap
  <2> HIDE DEF n
  <2>5. /\ IsMap(rules', 1..n, Rule) /\ DOMAIN rules' = DOMAIN rules \cup {n}
        /\ rules'[n] = q
        /\ \A id \in DOMAIN rules : id # n => rules'[id] = rules[id]
    BY <2>1, <2>3, <2>4 DEF Put, IsMap
  <2>6. FaultTypeOK'
    BY <2>3, <2>4, <2>5 DEF FaultTypeOK
  <2>7. \A id \in DOMAIN rules' : SameRule(id) \/ FreshRule(id)
    BY <2>2, <2>5 DEF SameRule, FreshRule
  <2> QED BY <2>6, <2>7
<1>2. ASSUME NEW id \in DOMAIN rules, DeleteRule(id)
      PROVE  FaultTypeOK' /\ \A k \in DOMAIN rules' : SameRule(k)
  <2>1. /\ IsMap(rules', 1..ruleCounter, Rule)
        /\ \A k \in DOMAIN rules' : k \in DOMAIN rules /\ rules'[k] = rules[k]
    BY <1>0, <1>2 DEF DeleteRule, Drop, Restrict, IsMap
  <2> QED BY <1>0, <1>2, <2>1 DEF DeleteRule, FaultTypeOK, SameRule
<1>3. ASSUME NEW id \in DOMAIN rules, NEW next \in {"open", "over"},
             FaultTick(id, next)
      PROVE  /\ FaultTypeOK'
             /\ \A k \in DOMAIN rules' : SameRule(k) \/ TickedRule(k)
  <2>1. PICK q \in Rule :
              /\ rules' = [rules EXCEPT ![id] = q]
              /\ q.calls = rules[id].calls /\ q.hits = rules[id].hits
              /\ q.posted = rules[id].posted /\ q.asked = rules[id].asked
              /\ q.others = rules[id].others
              /\ q.trigger.type = rules[id].trigger.type
              /\ q.trigger.chance = rules[id].trigger.chance
              /\ q.trigger.after = rules[id].trigger.after
              /\ q.trigger.repeat = rules[id].trigger.repeat
              /\ q.trigger.phase = next
    BY <1>3, TickFields
  <2>2. /\ IsMap(rules', 1..ruleCounter, Rule) /\ DOMAIN rules' = DOMAIN rules
        /\ rules'[id] = q
        /\ \A k \in DOMAIN rules : k # id => rules'[k] = rules[k]
    BY <1>0, <2>1, UpdateIsMap
  <2>3. FaultTypeOK'
    BY <1>0, <1>3, <2>2 DEF FaultTick, FaultTypeOK
  <2>4. TickedRule(id)
    BY <2>1, <2>2 DEF TickedRule
  <2> QED BY <2>2, <2>3, <2>4 DEF SameRule
<1>4. CASE ClearRules
  BY <1>0, <1>4, EmptyIsMap DEF ClearRules, FaultTypeOK
<1>5. ASSUME NEW op \in Operations, NEW visited, NEW hit,
             Check(op, visited, hit)
      PROVE  FaultTypeOK' /\ \A id \in DOMAIN rules' : CheckedRule(id)
  <2> DEFINE matching == {id \in DOMAIN rules :
                             MatchTarget(rules[id].target, op)}
  <2>1. /\ visited \subseteq matching /\ hit \subseteq visited
        /\ hit = {} => visited = matching
        /\ \A id \in visited :
              (id \in hit) \in ShouldTrigger(rules[id].trigger,
                                             rules[id].calls + 1)
        /\ rules' = [id \in DOMAIN rules |->
                        Checked(id, visited, hit, matching)]
        /\ UNCHANGED ruleCounter
    BY <1>5, Zenon DEF Check
  <2> HIDE DEF matching
  <2>2. \A id \in DOMAIN rules : rules[id] \in Rule
    BY <1>0, MapValue
  <2>3. \A id \in DOMAIN rules : Checked(id, visited, hit, matching) \in Rule
    BY <2>2, CheckedFields
  <2>4. FaultTypeOK'
    BY <1>0, <2>1, <2>3 DEF FaultTypeOK, IsMap
  <2>5. ASSUME NEW id \in DOMAIN rules' PROVE CheckedRule(id)
    BY <2>1, Zenon DEF CheckedRule
  <2> QED BY <2>4, <2>5
<1>6. CASE UNCHANGED faultVars
  BY <1>6 DEF faultVars, FaultTypeOK, SameRule
<1> QED BY <1>1, <1>2, <1>3, <1>4, <1>5, <1>6, EmptyIsMap
        DEF FaultNext, ClearRules

\* Every call that passes without a fault is counted.
LEMMA NoCallLostStep ==
    FaultTypeOK /\ NoCallLost /\ [FaultNext]_faultVars => NoCallLost'
<1> SUFFICES ASSUME FaultTypeOK, NoCallLost, [FaultNext]_faultVars,
                    NEW id \in DOMAIN rules'
             PROVE  LET q == rules'[id]
                    IN /\ q.hits <= q.calls - q.posted
                       /\ q.calls - q.posted <= q.asked
                       /\ q.asked <= q.calls - q.posted + q.others
    BY DEF NoCallLost
<1>0. /\ FaultTypeOK'
      /\ SameRule(id) \/ CheckedRule(id) \/ TickedRule(id) \/ FreshRule(id)
  BY FaultInvStep
<1>1. rules'[id] \in Rule
  BY <1>0 DEF FaultTypeOK, IsMap
<1>2. CASE FreshRule(id)
  BY <1>1, <1>2 DEF FreshRule, Rule
<1>3. ASSUME id \in DOMAIN rules
      PROVE  /\ rules[id] \in Rule
             /\ rules[id].hits <= rules[id].calls - rules[id].posted
             /\ rules[id].calls - rules[id].posted <= rules[id].asked
             /\ rules[id].asked <=
                   rules[id].calls - rules[id].posted + rules[id].others
  BY <1>3 DEF FaultTypeOK, IsMap, NoCallLost
<1>4. CASE SameRule(id)
  BY <1>3, <1>4 DEF SameRule
<1>5. CASE TickedRule(id)
  BY <1>3, <1>5 DEF TickedRule
<1>6. CASE CheckedRule(id)
  <2>1. PICK visited, hit, matching :
            /\ visited \subseteq matching /\ hit \subseteq visited
            /\ hit = {} => visited = matching
            /\ rules'[id] = Checked(id, visited, hit, matching)
    BY <1>6, Zenon DEF CheckedRule
  <2>2. id \in DOMAIN rules
    BY <1>6 DEF CheckedRule
  <2> DEFINE r == rules[id]
             q == rules'[id]
  <2>3. /\ q.posted = r.posted
        /\ q.calls = IF id \in visited THEN r.calls + 1 ELSE r.calls
        /\ q.hits = IF id \in hit THEN r.hits + 1 ELSE r.hits
        /\ q.asked = IF id \in matching THEN r.asked + 1 ELSE r.asked
        /\ q.others = IF id \in matching /\ hit # {} /\ id \notin hit
                      THEN r.others + 1 ELSE r.others
    BY <1>3, <2>1, <2>2, CheckedFields
  <2>4. /\ r \in Rule /\ r.hits <= r.calls - r.posted
        /\ r.calls - r.posted <= r.asked
        /\ r.asked <= r.calls - r.posted + r.others
    BY <1>3, <2>2
  <2>5. /\ r.hits \in Nat /\ r.calls \in Int /\ r.posted \in Int
        /\ r.asked \in Nat /\ r.others \in Nat
    BY <2>4 DEF Rule
  <2> HIDE DEF r, q
  <2>6. CASE id \in visited
    <3>1. id \in matching
      BY <2>1, <2>6
    <3>2. q.others >= r.others
      BY <2>3, <2>5
    <3>3. q.hits <= r.hits + 1 /\ q.hits >= r.hits
      BY <2>3, <2>5
    <3>4. /\ q.calls = r.calls + 1 /\ q.asked = r.asked + 1
          /\ q.others \in Nat /\ q.hits \in Nat
      BY <2>3, <2>5, <2>6, <3>1
    <3>5. /\ q.hits <= q.calls - q.posted
          /\ q.calls - q.posted <= q.asked
          /\ q.asked <= q.calls - q.posted + q.others
      BY <2>3, <2>4, <2>5, <3>2, <3>3, <3>4
    <3> QED BY <3>5 DEF q
  <2>7. CASE id \notin visited
    <3>1. /\ id \notin hit
          /\ id \in matching => hit # {}
      BY <2>1, <2>7
    <3>2. /\ q.hits <= q.calls - q.posted
          /\ q.calls - q.posted <= q.asked
          /\ q.asked <= q.calls - q.posted + q.others
      BY <2>3, <2>4, <2>5, <2>7, <3>1
    <3> QED BY <3>2 DEF q
  <2> QED BY <2>6, <2>7
<1> QED BY <1>0, <1>2, <1>4, <1>5, <1>6

\* One more number above an interval.
LEMMA OneMoreNumber ==
    ASSUME NEW a \in Int, NEW b \in Int, NEW S \in SUBSET (a..b)
    PROVE  /\ Cardinality(S) \in Nat
           /\ Cardinality(S \cup {b + 1}) = Cardinality(S) + 1
<1>1. IsFiniteSet(S)
  BY FS_Interval, FS_Subset
<1>2. b + 1 \notin S
  OBVIOUS
<1> QED BY <1>1, <1>2, FS_CardinalityType, FS_AddElement

\* No operation passes without a fault and uncounted.
THEOREM CallsCounted == FaultSpec => []NoCallLost
<1>1. FaultInit => FaultTypeOK /\ NoCallLost
  BY EmptyIsMap DEF FaultInit, FaultTypeOK, NoCallLost
<1>2. FaultTypeOK /\ [FaultNext]_faultVars => FaultTypeOK'
  BY FaultInvStep
<1> QED BY <1>1, <1>2, NoCallLostStep, PTL DEF FaultSpec

\* The counted calls a count trigger is due on.
DueCalls(posted, last, after, repeat) ==
    {n \in (posted + 1)..last : IF repeat THEN n >= after ELSE n = after}

DueCall(n, after, repeat) == n = after \/ (n > after /\ repeat)

\* Nothing is due before the first call, and this is what one more adds.
LEMMA CountedCalls ==
    ASSUME NEW posted \in Int, NEW calls \in Int, posted <= calls,
           NEW after \in Int, NEW repeat \in BOOLEAN
    PROVE  LET Due(last) == DueCalls(posted, last, after, repeat)
               fires == DueCall(calls + 1, after, repeat)
           IN /\ Cardinality(Due(posted)) = 0
              /\ Cardinality(Due(calls)) \in Nat
              /\ Cardinality(Due(calls + 1)) =
                    IF fires THEN Cardinality(Due(calls)) + 1
                             ELSE Cardinality(Due(calls))
              /\ Cardinality((posted + 1)..posted) = 0
              /\ Cardinality((posted + 1)..calls) \in Nat
              /\ Cardinality((posted + 1)..(calls + 1)) =
                    Cardinality((posted + 1)..calls) + 1
<1> DEFINE Due(last) == DueCalls(posted, last, after, repeat)
           fires == DueCall(calls + 1, after, repeat)
<1>1. Due(posted) = {} /\ (posted + 1)..posted = {}
  BY DEF DueCalls
<1>2. Due(calls) \in SUBSET ((posted + 1)..calls)
  BY DEF DueCalls
<1>3. Due(calls + 1) = IF fires THEN Due(calls) \cup {calls + 1}
                                ELSE Due(calls)
  BY DEF DueCalls, DueCall
<1>4. (posted + 1)..(calls + 1) = ((posted + 1)..calls) \cup {calls + 1}
  OBVIOUS
<1>5. PICK lo \in Int : lo = posted + 1
  OBVIOUS
<1>6. \A S \in SUBSET (lo..calls) :
          /\ Cardinality(S) \in Nat
          /\ Cardinality(S \cup {calls + 1}) = Cardinality(S) + 1
  BY OneMoreNumber
<1>7. Due(calls) \in SUBSET (lo..calls) /\ lo..calls \in SUBSET (lo..calls)
  BY <1>2, <1>5
<1>8. Cardinality({}) = 0
  BY FS_EmptySet
<1>9. /\ Cardinality(Due(calls)) \in Nat
      /\ Cardinality(Due(calls) \cup {calls + 1}) = Cardinality(Due(calls)) + 1
  <2> HIDE DEF Due
  <2> QED BY <1>6, <1>7
<1>10. /\ Cardinality(lo..calls) \in Nat
       /\ Cardinality((lo..calls) \cup {calls + 1}) = Cardinality(lo..calls) + 1
  BY <1>6, <1>7
<1>11. /\ Cardinality(Due(posted)) = 0
       /\ Cardinality(Due(calls + 1)) = IF fires THEN Cardinality(Due(calls)) + 1
                                                 ELSE Cardinality(Due(calls))
  <2> HIDE DEF Due, fires
  <2> QED BY <1>1, <1>3, <1>8, <1>9
<1>12. /\ Cardinality((posted + 1)..posted) = 0
       /\ Cardinality((posted + 1)..calls) \in Nat
       /\ Cardinality((posted + 1)..(calls + 1)) =
             Cardinality((posted + 1)..calls) + 1
  BY <1>1, <1>4, <1>5, <1>8, <1>10
<1> HIDE DEF Due, fires
<1>13. QED BY <1>9, <1>11, <1>12 DEF Due, fires

\* HitsExact for one rule.
RuleExact(r) ==
    LET counted == (r.posted + 1)..r.calls
    IN CASE r.trigger.type = "count" ->
              r.hits = Cardinality({n \in counted :
                  IF r.trigger.repeat THEN n >= r.trigger.after
                                      ELSE n = r.trigger.after})
         [] r.trigger.type = "probabilistic" ->
              /\ r.trigger.chance = "one" => r.hits = Cardinality(counted)
              /\ r.trigger.chance = "zero" => r.hits = 0
         [] r.trigger.type = "time" ->
              r.trigger.phase \in {"unset", "before"} => r.hits = 0
         [] OTHER -> r.hits = 0

\* A rule fires exactly on the calls its trigger is due on.
LEMMA HitsExactStep ==
    FaultTypeOK /\ NoCallLost /\ HitsExact /\ [FaultNext]_faultVars
    => HitsExact'
<1> SUFFICES ASSUME FaultTypeOK, NoCallLost, HitsExact, [FaultNext]_faultVars,
                    NEW id \in DOMAIN rules'
             PROVE  RuleExact(rules'[id])
    BY Zenon DEF HitsExact, RuleExact
<1>0. /\ FaultTypeOK'
      /\ SameRule(id) \/ CheckedRule(id) \/ TickedRule(id) \/ FreshRule(id)
  BY FaultInvStep
<1> DEFINE q == rules'[id]
           r == rules[id]
<1>1. q \in Rule
  BY <1>0 DEF FaultTypeOK, IsMap
<1>1a. /\ q.trigger \in Trigger /\ q.calls \in Int /\ q.posted \in Int
       /\ q.hits \in Nat
  BY <1>1 DEF Rule
<1>1b. q.trigger.after \in Int /\ q.trigger.repeat \in BOOLEAN
  BY <1>1a DEF Trigger
<1>2. ASSUME id \in DOMAIN rules
      PROVE  /\ r \in Rule /\ RuleExact(r)
             /\ r.hits <= r.calls - r.posted
  BY <1>2, Zenon DEF FaultTypeOK, IsMap, NoCallLost, HitsExact, RuleExact
<1>3. ASSUME id \in DOMAIN rules
      PROVE  /\ r.trigger \in Trigger /\ r.calls \in Int /\ r.posted \in Int
             /\ r.hits \in Nat /\ r.posted <= r.calls
  BY <1>2, <1>3 DEF Rule
<1>4. CASE SameRule(id)
  BY <1>2, <1>4 DEF SameRule
<1>5. CASE FreshRule(id)
  <2>1. q.calls = q.posted /\ q.hits = 0
    BY <1>5 DEF FreshRule
  <2>2. PICK p \in Int, after \in Int, repeat \in BOOLEAN :
            p = q.posted /\ after = q.trigger.after /\ repeat = q.trigger.repeat
    BY <1>1a, <1>1b
  <2>3. p <= p
    OBVIOUS
  <2>4. /\ Cardinality(DueCalls(p, p, after, repeat)) = 0
        /\ Cardinality((p + 1)..p) = 0
    BY <2>3, CountedCalls
  <2> QED BY <2>1, <2>2, <2>4 DEF RuleExact, DueCalls
<1>6. CASE TickedRule(id)
  <2>1. id \in DOMAIN rules
    BY <1>6 DEF TickedRule
  <2>2. /\ q.calls = r.calls /\ q.hits = r.hits /\ q.posted = r.posted
        /\ q.trigger.type = r.trigger.type
        /\ q.trigger.chance = r.trigger.chance
        /\ q.trigger.after = r.trigger.after
        /\ q.trigger.repeat = r.trigger.repeat
        /\ q.trigger.phase \notin {"unset", "before"}
    BY <1>6 DEF TickedRule
  <2> QED BY <1>2, <2>1, <2>2 DEF RuleExact
<1>7. CASE CheckedRule(id)
  <2>1. PICK visited, hit, matching :
            /\ visited \subseteq matching /\ hit \subseteq visited
            /\ id \in visited =>
                  (id \in hit) \in ShouldTrigger(rules[id].trigger,
                                                 rules[id].calls + 1)
            /\ rules'[id] = Checked(id, visited, hit, matching)
    BY <1>7, Zenon DEF CheckedRule
  <2>2. id \in DOMAIN rules
    BY <1>7 DEF CheckedRule
  <2>3. /\ q.posted = r.posted /\ q.trigger = r.trigger
        /\ q.calls = IF id \in visited THEN r.calls + 1 ELSE r.calls
        /\ q.hits = IF id \in hit THEN r.hits + 1 ELSE r.hits
    BY <1>2, <2>1, <2>2, CheckedFields
  <2>4. RuleExact(r) /\ r.trigger \in Trigger /\ r.calls \in Int
        /\ r.posted \in Int /\ r.hits \in Nat /\ r.posted <= r.calls
    BY <1>2, <1>3, <2>2
  <2>5. CASE id \notin visited
    <3>1. q.calls = r.calls /\ q.hits = r.hits
      BY <2>1, <2>3, <2>5
    <3> QED BY <2>3, <2>4, <3>1 DEF RuleExact
  <2>6. CASE id \in visited
    <3>0. PICK t \in Trigger, p \in Int, c \in Int :
              t = r.trigger /\ p = r.posted /\ c = r.calls
      BY <2>4
    <3> DEFINE Due(last) == DueCalls(p, last, t.after, t.repeat)
               fires == DueCall(c + 1, t.after, t.repeat)
    <3>1. /\ t.after \in Int /\ t.repeat \in BOOLEAN
          /\ t.type \in {"probabilistic", "count", "time", "other"}
          /\ t.chance \in {"zero", "some", "one"}
          /\ p <= c
      BY <2>4, <3>0 DEF Trigger
    <3>2. /\ Cardinality(Due(c)) \in Nat
          /\ Cardinality(Due(c + 1)) = IF fires THEN Cardinality(Due(c)) + 1
                                                ELSE Cardinality(Due(c))
          /\ Cardinality((p + 1)..c) \in Nat
          /\ Cardinality((p + 1)..(c + 1)) = Cardinality((p + 1)..c) + 1
      <4>1. PICK after \in Int, repeat \in BOOLEAN :
                after = t.after /\ repeat = t.repeat
        BY <3>1
      <4> DEFINE due(last) == DueCalls(p, last, after, repeat)
      <4>2. p <= c
        BY <3>1
      <4>3. /\ Cardinality(due(c)) \in Nat
            /\ Cardinality((p + 1)..c) \in Nat
            /\ Cardinality((p + 1)..(c + 1)) = Cardinality((p + 1)..c) + 1
        BY <4>2, CountedCalls
      <4>4. Cardinality(due(c + 1)) =
                  IF DueCall(c + 1, after, repeat)
                  THEN Cardinality(due(c)) + 1 ELSE Cardinality(due(c))
        BY <4>2, CountedCalls, ZenonT(60)
      <4> QED BY <4>1, <4>3, <4>4
    <3>3. /\ q.calls = c + 1 /\ q.posted = p /\ q.trigger = t
          /\ q.hits = IF id \in hit THEN r.hits + 1 ELSE r.hits
      BY <2>3, <2>6, <3>0
    <3>4. (id \in hit) \in ShouldTrigger(t, c + 1)
      BY <2>1, <2>6, <3>0
    <3>5. CASE t.type = "count"
      <4>1. (id \in hit) <=> fires
        BY <3>4, <3>5, Zenon DEF ShouldTrigger, DueCall
      <4>2. r.hits = Cardinality(Due(c))
        BY <2>4, <3>0, <3>5, Zenon DEF RuleExact, DueCalls
      <4>3. q.hits = Cardinality(Due(c + 1))
        BY <3>2, <3>3, <4>1, <4>2
      <4> HIDE DEF Due
      <4>4. q.hits = Cardinality({n \in (q.posted + 1)..q.calls :
                        IF q.trigger.repeat THEN n >= q.trigger.after
                                            ELSE n = q.trigger.after})
        BY <3>3, <4>3, Zenon DEF Due, DueCalls
      <4> QED BY <3>3, <3>5, <4>4, Zenon DEF RuleExact
    <3>6. CASE t.type = "probabilistic"
      <4>1. (id \in hit) \in {t.chance = "one", t.chance # "zero"}
        BY <3>4, <3>6, Zenon DEF ShouldTrigger
      <4>2. /\ t.chance = "one" => r.hits = Cardinality((p + 1)..c)
            /\ t.chance = "zero" => r.hits = 0
        BY <2>4, <3>0, <3>6 DEF RuleExact
      <4>3. /\ t.chance = "one" => id \in hit
            /\ t.chance = "zero" => id \notin hit
        BY <4>1, Zenon
      <4>4. /\ t.chance = "one" => q.hits = Cardinality((p + 1)..(c + 1))
            /\ t.chance = "zero" => q.hits = 0
        BY <3>2, <3>3, <4>2, <4>3
      <4> QED BY <3>3, <3>6, <4>4 DEF RuleExact
    <3>7. CASE t.type = "time"
      <4>1. (id \in hit) <=> t.phase = "open"
        BY <3>4, <3>7, Zenon DEF ShouldTrigger
      <4> QED BY <2>4, <3>0, <3>3, <3>7, <4>1 DEF RuleExact
    <3>8. CASE t.type = "other"
      <4>1. id \notin hit
        BY <3>4, <3>8 DEF ShouldTrigger
      <4> QED BY <2>4, <3>0, <3>3, <3>8, <4>1 DEF RuleExact
    <3> QED BY <3>1, <3>5, <3>6, <3>7, <3>8
  <2> QED BY <2>5, <2>6
<1> QED BY <1>0, <1>4, <1>5, <1>6, <1>7

\* The rules stay well formed, whatever is posted, deleted and checked.
THEOREM FaultTypeCorrect == FaultSpec => []FaultTypeOK
<1>1. FaultInit => FaultTypeOK
  BY EmptyIsMap DEF FaultInit, FaultTypeOK
<1>2. FaultTypeOK /\ [FaultNext]_faultVars => FaultTypeOK'
  BY FaultInvStep
<1> QED BY <1>1, <1>2, PTL DEF FaultSpec

\* The hits of every rule are those its trigger calls for, whatever rules
\* Check visits before and after it.
THEOREM FaultsExact == FaultSpec => []HitsExact
<1>1. FaultInit => HitsExact
  BY EmptyIsMap DEF FaultInit, HitsExact
<1> QED BY <1>1, FaultTypeCorrect, CallsCounted, HitsExactStep, PTL
        DEF FaultSpec

-----------------------------------------------------------------------------
(* The snapshot manager.                                                   *)

\* Saved holds the maps from component names to states.
LEMMA SavedIsMap ==
    ASSUME NEW f
    PROVE  f \in Saved <=> IsMap(f, ComponentNames, States)
  BY DEF Saved, IsMap

\* What is right of a snapshot or a restore stays so when components are
\* registered.
LEMMA RegisteredRight ==
    ASSUME NEW comps, NEW more, DOMAIN comps \subseteq DOMAIN more,
           \A name \in DOMAIN comps : more[name] = comps[name]
    PROVE  /\ \A s : SnapshotRight(s, comps) => SnapshotRight(s, more)
           /\ \A call : RestoreRight(call, comps) => RestoreRight(call, more)
<1>1. ASSUME NEW s, SnapshotRight(s, comps) PROVE SnapshotRight(s, more)
  BY <1>1 DEF SnapshotRight
<1>2. ASSUME NEW call, RestoreRight(call, comps) PROVE RestoreRight(call, more)
  BY <1>2 DEF RestoreRight
<1> QED BY <1>1, <1>2

\* Calls that look on while a component changes are no longer quiet.
LEMMA DisturbedRight ==
    ASSUME NEW comps, NEW other, DOMAIN other = DOMAIN comps
    PROVE  /\ \A s : SnapshotRight(s, comps) => SnapshotRight(s, other)
           /\ \A t \in Snapshot : TakeRight(t, comps) =>
                 /\ [t EXCEPT !.quiet = FALSE] \in Snapshot
                 /\ TakeRight([t EXCEPT !.quiet = FALSE], other)
           /\ \A call \in RestoreCall : RestoreRight(call, comps) =>
                 /\ [call EXCEPT !.quiet = FALSE] \in RestoreCall
                 /\ RestoreRight([call EXCEPT !.quiet = FALSE], other)
<1>1. ASSUME NEW s, SnapshotRight(s, comps) PROVE SnapshotRight(s, other)
  BY <1>1 DEF SnapshotRight
<1>2. ASSUME NEW t \in Snapshot, TakeRight(t, comps)
      PROVE  /\ [t EXCEPT !.quiet = FALSE] \in Snapshot
             /\ TakeRight([t EXCEPT !.quiet = FALSE], other)
  BY <1>2 DEF TakeRight, Snapshot
<1>3. ASSUME NEW call \in RestoreCall, RestoreRight(call, comps)
      PROVE  /\ [call EXCEPT !.quiet = FALSE] \in RestoreCall
             /\ RestoreRight([call EXCEPT !.quiet = FALSE], other)
  <2> DEFINE q == [call EXCEPT !.quiet = FALSE]
  <2>1. /\ q \in RestoreCall /\ ~q.quiet /\ q.snap = call.snap
        /\ q.left = call.left /\ q.from = call.from /\ q.result = call.result
    BY DEF RestoreCall
  <2> HIDE DEF q
  <2>2. q \in RestoreCall /\ RestoreRight(q, other)
    BY <1>3, <2>1 DEF RestoreRight
  <2> QED BY <2>2 DEF q
<1> QED BY <1>1, <1>2, <1>3

\* A restore that begins has everything before it.
LEMMA RestoreBegins ==
    ASSUME NEW s \in Snapshot, NEW comps \in Saved, SnapshotRight(s, comps)
    PROVE  LET call == [snap |-> s, left |-> DOMAIN s.data, from |-> comps,
                        quiet |-> TRUE, result |-> "running"]
           IN call \in RestoreCall /\ RestoreRight(call, comps)
<1>1. DOMAIN s.data \subseteq ComponentNames
  BY DEF Snapshot, Saved
<1>2. ASSUME NEW call \in [snap : {s}, left : {DOMAIN s.data}, from : {comps},
                           quiet : {TRUE}, result : {"running"}]
      PROVE  call \in RestoreCall /\ RestoreRight(call, comps)
  BY <1>1 DEF RestoreCall, RestoreRight
<1> QED BY <1>2

\* One component more is back, and the restore is past it.
LEMMA RestoreProceeds ==
    ASSUME NEW call \in RestoreCall, NEW comps \in Saved,
           RestoreRight(call, comps), NEW name \in call.left,
           call.result = "running"
    PROVE  LET back == [comps EXCEPT ![name] = call.snap.data[name]]
               past == [call EXCEPT !.left = @ \ {name}]
           IN /\ back \in Saved /\ DOMAIN back = DOMAIN comps
              /\ past \in RestoreCall /\ RestoreRight(past, back)
<1> DEFINE back == [comps EXCEPT ![name] = call.snap.data[name]]
           past == [call EXCEPT !.left = @ \ {name}]
<1>1. /\ name \in DOMAIN call.snap.data /\ name \in DOMAIN call.from
      /\ name \in DOMAIN comps
  BY DEF RestoreRight, SnapshotRight
<1>2. call.snap.data \in Saved
  BY DEF RestoreCall, Snapshot
<1>3. call.snap.data[name] \in States
  BY <1>1, <1>2 DEF Saved
<1>4. /\ back \in Saved /\ DOMAIN back = DOMAIN comps
      /\ back[name] = call.snap.data[name]
      /\ \A other \in DOMAIN comps : other # name => back[other] = comps[other]
  BY <1>1, <1>3 DEF Saved
<1>5. /\ past \in RestoreCall /\ past.snap = call.snap
      /\ past.left = call.left \ {name} /\ past.from = call.from
      /\ past.quiet = call.quiet /\ past.result = call.result
  BY DEF RestoreCall
<1> HIDE DEF back, past
<1>6. RestoreRight(past, back)
  BY <1>1, <1>4, <1>5 DEF RestoreRight
<1> QED BY <1>4, <1>5, <1>6 DEF back, past

\* A restore ends: with an error anywhere, or with nothing left.
LEMMA RestoreConcludes ==
    ASSUME NEW call \in RestoreCall, NEW comps, RestoreRight(call, comps),
           NEW result \in {"failed", "restored"},
           result = "restored" => call.left = {}
    PROVE  LET done == [call EXCEPT !.result = result]
           IN done \in RestoreCall /\ RestoreRight(done, comps)
<1> DEFINE done == [call EXCEPT !.result = result]
<1>1. /\ done \in RestoreCall /\ done.snap = call.snap
      /\ done.left = call.left /\ done.from = call.from
      /\ done.quiet = call.quiet /\ done.result = result
  BY DEF RestoreCall
<1> HIDE DEF done
<1>2. RestoreRight(done, comps)
  BY <1>1 DEF RestoreRight
<1> QED BY <1>1, <1>2 DEF done

\* One component more is saved.
LEMMA TakeProceeds ==
    ASSUME NEW t \in Snapshot, NEW comps \in Saved, TakeRight(t, comps),
           NEW name \in DOMAIN comps, name \notin DOMAIN t.data
    PROVE  LET more == [t EXCEPT !.data = Put(@, name, comps[name])]
           IN more \in Snapshot /\ TakeRight(more, comps)
<1> DEFINE data == Put(t.data, name, comps[name])
           more == [t EXCEPT !.data = data]
<1>1. IsMap(t.data, ComponentNames, States)
  BY SavedIsMap DEF Snapshot
<1>2. name \in ComponentNames /\ comps[name] \in States
  BY DEF Saved
<1>3. /\ IsMap(data, ComponentNames, States)
      /\ DOMAIN data = DOMAIN t.data \cup {name}
      /\ data[name] = comps[name]
      /\ \A x \in DOMAIN t.data : x # name => data[x] = t.data[x]
  BY <1>1, <1>2 DEF Put, IsMap
<1>4. data \in Saved
  BY <1>3, SavedIsMap
<1>5. [t EXCEPT !.data = Put(@, name, comps[name])] = more
  OBVIOUS
<1> HIDE DEF data
<1>6. /\ more \in Snapshot /\ more.data = data /\ more.was = t.was
      /\ more.quiet = t.quiet
  BY <1>4 DEF Snapshot
<1> HIDE DEF more
<1>7. TakeRight(more, comps)
  BY <1>3, <1>6 DEF TakeRight
<1> QED BY <1>5, <1>6, <1>7

\* A take that has saved every component has a whole snapshot.
LEMMA TakeConcludes ==
    ASSUME NEW t \in Snapshot, NEW comps, TakeRight(t, comps),
           DOMAIN t.data = DOMAIN comps
    PROVE  SnapshotRight(t, comps)
<1>1. DOMAIN t.data = DOMAIN t.was
  BY DEF TakeRight
<1>2. t.data \in Saved /\ t.was \in Saved
  BY DEF Snapshot
<1>3. ASSUME t.quiet PROVE t.data = t.was
  BY <1>1, <1>2, <1>3 DEF TakeRight, Saved
<1> QED BY <1>1, <1>3 DEF SnapshotRight

\* Every step of the snapshot manager keeps its invariant.
LEMMA SnapshotInvStep == SnapshotInv /\ [SnapshotNext]_snapshotVars => SnapshotInv'
<1> SUFFICES ASSUME SnapshotInv, [SnapshotNext]_snapshotVars
             PROVE  SnapshotInv'
    OBVIOUS
<1>0. /\ IsMap(components, ComponentNames, States)
      /\ IsMap(snapshots, 1..snapCounter, Snapshot) /\ snapCounter \in Nat
      /\ taking \subseteq Snapshot /\ IsMap(restores, Restores, RestoreCall)
      /\ \A id \in DOMAIN snapshots : SnapshotRight(snapshots[id], components)
      /\ \A t \in taking : TakeRight(t, components)
      /\ \A t, u \in taking : t = u
      /\ taking # {} => snapCounter > 0
      /\ \A r \in DOMAIN restores : RestoreRight(restores[r], components)
  BY DEF SnapshotInv, SnapshotTypeOK
<1>0a. components \in Saved
  BY <1>0, SavedIsMap
<1>0b. /\ \A id \in DOMAIN snapshots : snapshots[id] \in Snapshot
       /\ \A r \in DOMAIN restores : restores[r] \in RestoreCall
  BY <1>0 DEF IsMap
<1>0c. /\ IsMap(components, ComponentNames, States)
       /\ IsMap(restores, Restores, RestoreCall)
  BY <1>0
<1>1. ASSUME NEW name \in ComponentNames, NEW state \in States,
             Register(name, state)
      PROVE  SnapshotInv'
  <2>1. /\ taking = {} /\ name \notin DOMAIN components
        /\ components' = Put(components, name, state)
        /\ UNCHANGED <<snapshots, snapCounter, taking, restores>>
    BY <1>1 DEF Register
  <2>2. /\ IsMap(components', ComponentNames, States)
        /\ DOMAIN components \subseteq DOMAIN components'
        /\ \A n \in DOMAIN components : components'[n] = components[n]
    BY <1>0c, <2>1 DEF Put, IsMap
  <2>3. /\ \A s : SnapshotRight(s, components) => SnapshotRight(s, components')
        /\ \A call : RestoreRight(call, components) =>
                        RestoreRight(call, components')
    BY <2>2, RegisteredRight
  <2> QED BY <1>0, <2>1, <2>2, <2>3 DEF SnapshotInv, SnapshotTypeOK
<1>2. ASSUME NEW name \in ComponentNames, NEW state \in States,
             ChangeComponent(name, state)
      PROVE  SnapshotInv'
  <2>1. /\ name \in DOMAIN components
        /\ components' = [components EXCEPT ![name] = state]
        /\ taking' = {[t EXCEPT !.quiet = FALSE] : t \in taking}
        /\ restores' = [r \in DOMAIN restores |->
                           [restores[r] EXCEPT !.quiet = FALSE]]
        /\ UNCHANGED <<snapshots, snapCounter>>
    BY <1>2 DEF ChangeComponent, Disturbed
  <2>2. /\ IsMap(components', ComponentNames, States)
        /\ DOMAIN components' = DOMAIN components
    BY <1>0, <2>1, UpdateIsMap
  <2>3. /\ \A s : SnapshotRight(s, components) => SnapshotRight(s, components')
        /\ \A t \in Snapshot : TakeRight(t, components) =>
              /\ [t EXCEPT !.quiet = FALSE] \in Snapshot
              /\ TakeRight([t EXCEPT !.quiet = FALSE], components')
        /\ \A call \in RestoreCall : RestoreRight(call, components) =>
              /\ [call EXCEPT !.quiet = FALSE] \in RestoreCall
              /\ RestoreRight([call EXCEPT !.quiet = FALSE], components')
    BY <2>2, DisturbedRight
  <2>4. /\ taking' \subseteq Snapshot
        /\ \A t \in taking' : TakeRight(t, components')
        /\ \A t, u \in taking' : t = u
        /\ taking' # {} => snapCounter' > 0
    BY <1>0, <2>1, <2>3
  <2>5. ASSUME NEW r \in DOMAIN restores
        PROVE  /\ [restores[r] EXCEPT !.quiet = FALSE] \in RestoreCall
               /\ RestoreRight([restores[r] EXCEPT !.quiet = FALSE], components')
    BY <1>0, <1>0b, <2>3
  <2>6. /\ IsMap(restores', Restores, RestoreCall)
        /\ \A r \in DOMAIN restores' : RestoreRight(restores'[r], components')
    BY <1>0, <2>1, <2>5 DEF IsMap
  <2> QED BY <1>0, <2>1, <2>2, <2>3, <2>4, <2>6 DEF SnapshotInv, SnapshotTypeOK
<1>3. CASE TakeSnapshot
  <2> DEFINE t == [data |-> EmptyMap, was |-> components, quiet |-> TRUE]
  <2>1. /\ taking' = {t} /\ snapCounter' = snapCounter + 1
        /\ UNCHANGED <<components, snapshots, restores>>
    BY <1>3 DEF TakeSnapshot
  <2>2. EmptyMap \in Saved
    BY EmptyIsMap, SavedIsMap
  <2>3. /\ t \in Snapshot /\ DOMAIN EmptyMap = {}
        /\ t.data = EmptyMap /\ t.was = components /\ t.quiet = TRUE
    BY <1>0a, <2>2, EmptyIsMap DEF Snapshot
  <2> HIDE DEF t
  <2>4. TakeRight(t, components)
    BY <2>3 DEF TakeRight
  <2>5. IsMap(snapshots, 1..(snapCounter + 1), Snapshot)
    BY <1>0 DEF IsMap
  <2> QED BY <1>0, <2>1, <2>3, <2>4, <2>5 DEF SnapshotInv, SnapshotTypeOK
<1>4. CASE SnapshotFails
  BY <1>0, <1>4 DEF SnapshotFails, SnapshotInv, SnapshotTypeOK
<1>5. CASE SnapshotTaken
  <2>1. PICK t \in taking :
            /\ DOMAIN t.data = DOMAIN components
            /\ snapshots' = Put(snapshots, snapCounter, t)
    BY <1>5 DEF SnapshotTaken
  <2>2. taking' = {} /\ UNCHANGED <<components, snapCounter, restores>>
    BY <1>5 DEF SnapshotTaken
  <2>3. t \in Snapshot /\ TakeRight(t, components) /\ snapCounter > 0
    BY <1>0, <2>1
  <2>4. SnapshotRight(t, components)
    BY <2>1, <2>3, TakeConcludes
  <2>5. /\ IsMap(snapshots', 1..snapCounter, Snapshot)
        /\ DOMAIN snapshots' = DOMAIN snapshots \cup {snapCounter}
        /\ snapshots'[snapCounter] = t
        /\ \A id \in DOMAIN snapshots : id # snapCounter =>
              snapshots'[id] = snapshots[id]
    BY <1>0, <2>1, <2>3 DEF Put, IsMap
  <2>6. \A id \in DOMAIN snapshots' : SnapshotRight(snapshots'[id], components)
    BY <1>0, <2>4, <2>5
  <2> QED BY <1>0, <2>2, <2>5, <2>6 DEF SnapshotInv, SnapshotTypeOK
<1>6. ASSUME NEW name \in ComponentNames, SnapshotComponent(name)
      PROVE  SnapshotInv'
  <2>1. name \in DOMAIN components
        /\ UNCHANGED <<components, snapshots, snapCounter, restores>>
    BY <1>6 DEF SnapshotComponent
  <2>2. PICK t \in taking :
            /\ name \notin DOMAIN t.data
            /\ taking' = {[t EXCEPT !.data = Put(@, name, components[name])]}
    BY <1>6 DEF SnapshotComponent
  <2>3. t \in Snapshot /\ TakeRight(t, components) /\ snapCounter > 0
    BY <1>0, <2>2
  <2>4. PICK comps \in Saved : comps = components
    BY <1>0a
  <2> DEFINE more == [t EXCEPT !.data = Put(@, name, comps[name])]
  <2>5. name \in DOMAIN comps /\ TakeRight(t, comps)
    BY <2>1, <2>3, <2>4
  <2>6. more \in Snapshot /\ TakeRight(more, comps)
    BY <2>2, <2>3, <2>5, TakeProceeds
  <2>7. taking' = {more}
    BY <2>2, <2>4
  <2> HIDE DEF more
  <2> QED BY <1>0, <2>1, <2>3, <2>4, <2>6, <2>7 DEF SnapshotInv, SnapshotTypeOK
<1>7. ASSUME NEW id \in DOMAIN snapshots, DeleteSnapshot(id)
      PROVE  SnapshotInv'
  <2>1. /\ snapshots' = Drop(snapshots, id)
        /\ UNCHANGED <<components, snapCounter, taking, restores>>
    BY <1>7 DEF DeleteSnapshot
  <2>2. /\ IsMap(snapshots', 1..snapCounter, Snapshot)
        /\ \A k \in DOMAIN snapshots' :
              k \in DOMAIN snapshots /\ snapshots'[k] = snapshots[k]
    BY <1>0, <2>1 DEF Drop, Restrict, IsMap
  <2> QED BY <1>0, <2>1, <2>2 DEF SnapshotInv, SnapshotTypeOK
<1>8. ASSUME NEW r \in Restores, NEW id \in DOMAIN snapshots,
             RestoreSnapshot(r, id)
      PROVE  SnapshotInv'
  <2>1. PICK s \in Snapshot, comps \in Saved :
            s = snapshots[id] /\ comps = components
    BY <1>0a, <1>0b
  <2> DEFINE call == [snap |-> s, left |-> DOMAIN s.data, from |-> comps,
                      quiet |-> TRUE, result |-> "running"]
  <2>2. /\ restores' = Put(restores, r, call)
        /\ UNCHANGED <<components, snapshots, snapCounter, taking>>
    BY <1>8, <2>1 DEF RestoreSnapshot
  <2>3. SnapshotRight(s, comps)
    BY <1>0, <2>1
  <2>4. call \in RestoreCall /\ RestoreRight(call, comps)
    BY <2>3, RestoreBegins
  <2> HIDE DEF call
  <2>5. /\ IsMap(restores', Restores, RestoreCall)
        /\ DOMAIN restores' = DOMAIN restores \cup {r} /\ restores'[r] = call
        /\ \A q \in DOMAIN restores : q # r => restores'[q] = restores[q]
    BY <1>0c, <2>2, <2>4 DEF Put, IsMap
  <2>6. \A q \in DOMAIN restores' : RestoreRight(restores'[q], components)
    BY <1>0, <2>1, <2>4, <2>5
  <2> QED BY <1>0, <2>2, <2>5, <2>6 DEF SnapshotInv, SnapshotTypeOK
<1>9. ASSUME NEW r \in Restores, NEW name \in ComponentNames,
             RestoreComponent(r, name)
      PROVE  SnapshotInv'
  <2>1. /\ r \in DOMAIN restores /\ restores[r].result = "running"
        /\ name \in restores[r].left
        /\ components' = [components EXCEPT ![name] = restores[r].snap.data[name]]
        /\ taking' = {[t EXCEPT !.quiet = FALSE] : t \in taking}
        /\ restores' = [q \in DOMAIN restores |->
                           IF q = r THEN [restores[q] EXCEPT !.left = @ \ {name}]
                           ELSE [restores[q] EXCEPT !.quiet = FALSE]]
        /\ UNCHANGED <<snapshots, snapCounter>>
    BY <1>9 DEF RestoreComponent, Disturbed
  <2>2. PICK call \in RestoreCall, comps \in Saved :
            call = restores[r] /\ comps = components
    BY <1>0a, <1>0b, <2>1
  <2>3. /\ RestoreRight(call, comps) /\ name \in call.left
        /\ call.result = "running"
    BY <1>0, <2>1, <2>2
  <2> DEFINE back == [comps EXCEPT ![name] = call.snap.data[name]]
             past == [call EXCEPT !.left = @ \ {name}]
  <2>4. /\ back \in Saved /\ DOMAIN back = DOMAIN comps
        /\ past \in RestoreCall /\ RestoreRight(past, back)
    BY <2>3, RestoreProceeds
  <2>5. components' = back
    BY <2>1, <2>2
  <2>6. restores' = [q \in DOMAIN restores |->
                        IF q = r THEN past
                        ELSE [restores[q] EXCEPT !.quiet = FALSE]]
    BY <2>1, <2>2
  <2> HIDE DEF back, past
  <2>7. IsMap(components', ComponentNames, States)
        /\ DOMAIN components' = DOMAIN components
    BY <2>2, <2>4, <2>5, SavedIsMap
  <2>8. /\ \A s : SnapshotRight(s, components) => SnapshotRight(s, components')
        /\ \A t \in Snapshot : TakeRight(t, components) =>
              /\ [t EXCEPT !.quiet = FALSE] \in Snapshot
              /\ TakeRight([t EXCEPT !.quiet = FALSE], components')
        /\ \A q \in RestoreCall : RestoreRight(q, components) =>
              /\ [q EXCEPT !.quiet = FALSE] \in RestoreCall
              /\ RestoreRight([q EXCEPT !.quiet = FALSE], components')
    BY <2>7, DisturbedRight
  <2>9. /\ taking' \subseteq Snapshot
        /\ \A t \in taking' : TakeRight(t, components')
        /\ \A t, u \in taking' : t = u
        /\ taking' # {} => snapCounter' > 0
    BY <1>0, <2>1, <2>8
  <2>10. ASSUME NEW q \in DOMAIN restores
         PROVE  /\ [restores[q] EXCEPT !.quiet = FALSE] \in RestoreCall
                /\ RestoreRight([restores[q] EXCEPT !.quiet = FALSE],
                                components')
    BY <1>0, <1>0b, <2>8
  <2>11. /\ IsMap(restores', Restores, RestoreCall)
         /\ \A q \in DOMAIN restores' : RestoreRight(restores'[q], components')
    BY <1>0, <2>4, <2>5, <2>6, <2>10 DEF IsMap
  <2> QED BY <1>0, <2>1, <2>7, <2>8, <2>9, <2>11 DEF SnapshotInv, SnapshotTypeOK
<1>10. ASSUME NEW r \in Restores, NEW result \in {"failed", "restored"},
              r \in DOMAIN restores,
              result = "restored" => restores[r].left = {},
              restores' = [restores EXCEPT ![r].result = result],
              UNCHANGED <<components, snapshots, snapCounter, taking>>
       PROVE  SnapshotInv'
  <2>1. PICK call \in RestoreCall : call = restores[r]
    BY <1>0b, <1>10
  <2>2. RestoreRight(call, components)
        /\ (result = "restored" => call.left = {})
    BY <1>0, <1>10, <2>1
  <2> DEFINE done == [call EXCEPT !.result = result]
  <2>3. \A comps : RestoreRight(call, comps) =>
           done \in RestoreCall /\ RestoreRight(done, comps)
    BY <2>2, RestoreConcludes
  <2>4. restores' = [restores EXCEPT ![r] = done]
    BY <1>10, <2>1
  <2> HIDE DEF done
  <2>5. done \in RestoreCall /\ RestoreRight(done, components)
    BY <2>2, <2>3
  <2>6. /\ IsMap(restores', Restores, RestoreCall)
        /\ DOMAIN restores' = DOMAIN restores /\ restores'[r] = done
        /\ \A q \in DOMAIN restores : q # r => restores'[q] = restores[q]
    BY <1>0c, <1>10, <2>4, <2>5 DEF IsMap
  <2> QED BY <1>0, <1>10, <2>5, <2>6 DEF SnapshotInv, SnapshotTypeOK
<1>11. ASSUME NEW r \in Restores, RestoreOver(r) PROVE SnapshotInv'
  <2>1. /\ restores' = Drop(restores, r)
        /\ UNCHANGED <<components, snapshots, snapCounter, taking>>
    BY <1>11 DEF RestoreOver
  <2>2. /\ IsMap(restores', Restores, RestoreCall)
        /\ \A q \in DOMAIN restores' :
              q \in DOMAIN restores /\ restores'[q] = restores[q]
    BY <1>0, <2>1 DEF Drop, Restrict, IsMap
  <2> QED BY <1>0, <2>1, <2>2 DEF SnapshotInv, SnapshotTypeOK
<1>12. CASE UNCHANGED snapshotVars
  BY <1>0, <1>12 DEF snapshotVars, SnapshotInv, SnapshotTypeOK
<1>13. ASSUME NEW r \in Restores, RestoreFails(r) PROVE SnapshotInv'
  BY <1>10, <1>13 DEF RestoreFails
<1>14. ASSUME NEW r \in Restores, Restored(r) PROVE SnapshotInv'
  BY <1>10, <1>14 DEF Restored
<1> QED BY <1>1, <1>2, <1>3, <1>4, <1>5, <1>6, <1>7, <1>8, <1>9, <1>11,
           <1>12, <1>13, <1>14 DEF SnapshotNext

\* The invariant of the snapshot manager.
LEMMA SnapshotSafe == SnapshotSpec => []SnapshotInv
<1>1. SnapshotInit => SnapshotInv
  BY EmptyIsMap DEF SnapshotInit, SnapshotInv, SnapshotTypeOK
<1> QED BY <1>1, SnapshotInvStep, PTL DEF SnapshotSpec

\* The components, the snapshots and the calls stay well formed.
THEOREM SnapshotTypeCorrect == SnapshotSpec => []SnapshotTypeOK
<1>1. SnapshotInv => SnapshotTypeOK
  BY DEF SnapshotInv
<1> QED BY <1>1, SnapshotSafe, PTL

\* A snapshot that is kept is whole, for any number of components and calls.
THEOREM KeptSnapshotsWhole == SnapshotSpec => []SnapshotsWhole
<1>1. SnapshotInv => SnapshotsWhole
  BY DEF SnapshotInv, SnapshotsWhole, SnapshotRight
<1> QED BY <1>1, SnapshotSafe, PTL

\* A restore that nothing disturbs brings back exactly what it is past.
THEOREM RestoresSafe == SnapshotSpec => []RestoresExact
<1>1. ASSUME SnapshotInv, NEW r \in DOMAIN restores, restores[r].quiet
      PROVE  LET call == restores[r]
             IN /\ \A name \in DOMAIN call.from :
                      components[name] =
                          IF name \in DOMAIN call.snap.data \ call.left
                          THEN call.snap.data[name] ELSE call.from[name]
                /\ (call.result = "restored" /\ call.snap.quiet) =>
                      \A name \in DOMAIN call.snap.was :
                          components[name] = call.snap.was[name]
  BY <1>1 DEF SnapshotInv, RestoreRight, SnapshotRight
<1>2. SnapshotInv => RestoresExact
  BY <1>1 DEF RestoresExact
<1> QED BY <1>2, SnapshotSafe, PTL

-----------------------------------------------------------------------------
(* The clusters of ovn-sim.                                                *)

\* The servers are numbered without gaps, so the next number is free.
LEMMA NextServer ==
    ASSUME NEW n \in Nat, NEW D, D = 1..n
    PROVE  /\ Cardinality(D) = n
           /\ n + 1 \notin D /\ D \cup {n + 1} = 1..(n + 1)
           /\ Cardinality(D \cup {n + 1}) = n + 1
<1>1. \A k \in Nat : Cardinality(1..k) = k
  <2>1. ASSUME NEW k \in Nat PROVE Cardinality(1..k) = k
    <3>1. Cardinality(1..k) = IF 1 > k THEN 0 ELSE k - 1 + 1
      BY FS_Interval
    <3> QED BY <3>1
  <2> QED BY <2>1
<1>2. n + 1 \notin D /\ D \cup {n + 1} = 1..(n + 1) /\ n + 1 \in Nat
  OBVIOUS
<1> QED BY <1>1, <1>2

\* A step that leaves the servers and the clusters alone and connects no
\* server anew keeps the invariant.
LEMMA ConnsOnly ==
    ASSUME OvnInv, UNCHANGED <<clusters, servers>>,
           IsMap(conns', Conns, Conn),
           \A c \in DOMAIN conns' :
               \/ c \in DOMAIN conns /\ conns'[c].server = conns[c].server
               \/ /\ conns'[c].server \in DOMAIN servers
                  /\ servers[conns'[c].server].open,
           manager' \in ManagerCall, manager'.at \subseteq manager'.todo,
           manager'.todo \subseteq DOMAIN clusters,
           manager'.at \subseteq manager.at,
           phase' \in {"up", "cancelled", "draining", "down"}
    PROVE  OvnInv'
<1>1. OvnTypeOK'
  BY DEF OvnInv, OvnTypeOK
<1>2. ServersKept'
  BY DEF OvnInv, ServersKept
<1>3. ASSUME NEW s \in DOMAIN servers',
             \/ servers'[s].open \/ servers'[s].accepting
             \/ \E c \in DOMAIN conns' : conns'[c].server = s
      PROVE  \E id \in DOMAIN clusters' : clusters'[id] = s
  <2>1. \/ servers[s].open \/ servers[s].accepting
        \/ \E c \in DOMAIN conns : conns[c].server = s
    BY <1>3
  <2>2. \E id \in DOMAIN clusters : clusters[id] = s
    BY <1>3, <2>1 DEF OvnInv, NoSurvivors
  <2> QED BY <2>2
<1>4. NoSurvivors'
  BY <1>3 DEF NoSurvivors
<1> QED BY <1>1, <1>2, <1>4 DEF OvnInv

\* Creating a cluster, of either kind, numbers its server and owns it.
LEMMA ListenStep ==
    ASSUME OvnInv, NEW id \in ClusterIds, NEW port \in Ports,
           NEW schema \in {"nb", "ic"}, manager = Idle,
           id \notin DOMAIN clusters, Listen(id, port, schema),
           UNCHANGED <<conns, manager, phase>>
    PROVE  OvnInv'
<1> DEFINE q == [port |-> port, schema |-> schema, open |-> TRUE,
                 accepting |-> TRUE]
<1>1. PICK n \in Nat : n = Cardinality(DOMAIN servers)
  <2>1. IsFiniteSet(1..MaxServers)
    BY OvnAssumption, FS_Interval DEF OvnAssumption
  <2>2. IsFiniteSet(DOMAIN servers)
    BY <2>1, FS_Subset DEF OvnInv, OvnTypeOK, IsMap
  <2> QED BY <2>2, FS_CardinalityType
<1>2. DOMAIN servers = 1..n
  BY <1>1 DEF OvnInv, ServersKept
<1>3. PICK D : D = DOMAIN servers
  OBVIOUS
<1>4. /\ n + 1 \notin D /\ D \cup {n + 1} = 1..(n + 1)
      /\ Cardinality(D \cup {n + 1}) = n + 1
  BY <1>2, <1>3, NextServer
<1>5. /\ n + 1 <= MaxServers
      /\ servers' = Put(servers, n + 1, q)
      /\ clusters' = Put(clusters, id, n + 1)
      /\ UNCHANGED <<conns, manager, phase>>
  BY <1>1 DEF Listen
<1>6. q \in OvsdbServer
  BY DEF OvsdbServer
<1> HIDE DEF q
<1>7. /\ DOMAIN servers' = D \cup {n + 1} /\ servers'[n + 1] = q
      /\ \A s \in DOMAIN servers : servers'[s] = servers[s]
  BY <1>3, <1>4, <1>5 DEF Put
<1>8. IsMap(servers', 1..MaxServers, OvsdbServer)
  BY <1>4, <1>5, <1>6, OvnAssumption
     DEF Put, IsMap, OvnInv, OvnTypeOK, OvnAssumption
<1>9. /\ DOMAIN clusters' = DOMAIN clusters \cup {id}
      /\ clusters'[id] = n + 1
      /\ \A k \in DOMAIN clusters : clusters'[k] = clusters[k]
  BY <1>5 DEF Put
<1>10. IsMap(clusters', ClusterIds, DOMAIN servers')
  BY <1>3, <1>5, <1>7 DEF Put, IsMap, OvnInv, OvnTypeOK
<1>11. OvnTypeOK'
  BY <1>5, <1>8, <1>9, <1>10 DEF OvnInv, OvnTypeOK
<1>12. ServersKept'
  <2>1. DOMAIN servers' = 1..Cardinality(DOMAIN servers')
    BY <1>4, <1>7
  <2>2. \A c \in DOMAIN conns' : conns'[c].server \in DOMAIN servers'
    BY <1>3, <1>5, <1>7 DEF OvnInv, ServersKept
  <2>3. manager'.at = {}
    BY <1>5 DEF Idle
  <2> QED BY <2>1, <2>2, <2>3 DEF ServersKept
<1>13. ASSUME NEW s \in DOMAIN servers',
              \/ servers'[s].open \/ servers'[s].accepting
              \/ \E c \in DOMAIN conns' : conns'[c].server = s
       PROVE  \E k \in DOMAIN clusters' : clusters'[k] = s
  <2>1. CASE s = n + 1
    BY <1>9, <2>1
  <2>2. CASE s \in DOMAIN servers
    <3>1. \/ servers[s].open \/ servers[s].accepting
          \/ \E c \in DOMAIN conns : conns[c].server = s
      BY <1>5, <1>7, <1>13, <2>2
    <3>2. \E k \in DOMAIN clusters : clusters[k] = s
      BY <2>2, <3>1 DEF OvnInv, NoSurvivors
    <3> QED BY <1>9, <3>2
  <2> QED BY <1>3, <1>7, <2>1, <2>2
<1>14. NoSurvivors'
  BY <1>13 DEF NoSurvivors
<1> QED BY <1>11, <1>12, <1>14 DEF OvnInv

\* A server loses its listener or its accept loop, and the connections stay
\* with their servers.
LEMMA ServerStops ==
    ASSUME OvnInv, NEW s \in DOMAIN servers, NEW q \in OvsdbServer,
           q.open => servers[s].open, q.accepting => servers[s].accepting,
           servers' = [servers EXCEPT ![s] = q],
           UNCHANGED <<clusters, phase>>, IsMap(conns', Conns, Conn),
           DOMAIN conns' = DOMAIN conns,
           \A c \in DOMAIN conns : conns'[c].server = conns[c].server,
           manager' \in ManagerCall, manager'.todo = manager.todo,
           manager'.at \subseteq manager'.todo,
           \A id \in manager'.at : id \in manager.at
                                   \/ (clusters[id] = s /\ ~q.open)
    PROVE  OvnInv'
<1>1. /\ DOMAIN servers' = DOMAIN servers /\ servers'[s] = q
      /\ \A k \in DOMAIN servers : k # s => servers'[k] = servers[k]
      /\ IsMap(servers', 1..MaxServers, OvsdbServer)
  BY DEF OvnInv, OvnTypeOK, IsMap
<1>2. OvnTypeOK'
  BY <1>1 DEF OvnInv, OvnTypeOK
<1>3. ASSUME NEW id \in manager'.at PROVE ~servers'[clusters'[id]].open
  <2>1. clusters[id] \in DOMAIN servers
    BY <1>3 DEF OvnInv, OvnTypeOK, IsMap
  <2> QED BY <1>1, <1>3, <2>1 DEF OvnInv, ServersKept
<1>4. ServersKept'
  BY <1>1, <1>3 DEF OvnInv, ServersKept
<1>5. ASSUME NEW k \in DOMAIN servers',
             \/ servers'[k].open \/ servers'[k].accepting
             \/ \E c \in DOMAIN conns' : conns'[c].server = k
      PROVE  \E id \in DOMAIN clusters' : clusters'[id] = k
  <2>1. \/ servers[k].open \/ servers[k].accepting
        \/ \E c \in DOMAIN conns : conns[c].server = k
    BY <1>1, <1>5
  <2>2. \E id \in DOMAIN clusters : clusters[id] = k
    BY <1>1, <1>5, <2>1 DEF OvnInv, NoSurvivors
  <2> QED BY <2>2
<1>6. NoSurvivors'
  BY <1>5 DEF NoSurvivors
<1> QED BY <1>2, <1>4, <1>6 DEF OvnInv

\* The cluster whose server has stopped is deleted.
LEMMA WaitedStep ==
    ASSUME OvnInv, NEW id, Waited(id)
    PROVE  OvnInv'
<1>1. /\ id \in manager.at /\ ~servers[clusters[id]].accepting
      /\ \A c \in DOMAIN conns : conns[c].server # clusters[id]
      /\ clusters' = Drop(clusters, id)
      /\ manager' = [manager EXCEPT !.todo = @ \ {id}, !.at = {}]
      /\ UNCHANGED <<servers, conns, phase>>
  BY DEF Waited
<1>2. /\ DOMAIN clusters' = DOMAIN clusters \ {id}
      /\ \A k \in DOMAIN clusters' : clusters'[k] = clusters[k]
      /\ IsMap(clusters', ClusterIds, DOMAIN servers)
  BY <1>1 DEF Drop, Restrict, IsMap, OvnInv, OvnTypeOK
<1>3. manager' \in ManagerCall /\ manager'.todo = manager.todo \ {id}
      /\ manager'.at = {}
  BY <1>1 DEF OvnInv, OvnTypeOK, ManagerCall
<1>4. OvnTypeOK'
  BY <1>1, <1>2, <1>3 DEF OvnInv, OvnTypeOK
<1>5. ServersKept'
  BY <1>1, <1>3 DEF OvnInv, ServersKept
<1>6. ASSUME NEW s \in DOMAIN servers',
             \/ servers'[s].open \/ servers'[s].accepting
             \/ \E c \in DOMAIN conns' : conns'[c].server = s
      PROVE  \E k \in DOMAIN clusters' : clusters'[k] = s
  <2>1. s # clusters[id]
    BY <1>1, <1>6 DEF OvnInv, ServersKept
  <2>2. \/ servers[s].open \/ servers[s].accepting
        \/ \E c \in DOMAIN conns : conns[c].server = s
    BY <1>1, <1>6
  <2>3. PICK k \in DOMAIN clusters : clusters[k] = s
    BY <1>1, <1>6, <2>2 DEF OvnInv, NoSurvivors
  <2>4. k \in DOMAIN clusters' /\ clusters'[k] = s
    BY <1>2, <2>1, <2>3
  <2> QED BY <2>4
<1>7. NoSurvivors'
  BY <1>6 DEF NoSurvivors
<1> QED BY <1>4, <1>5, <1>7 DEF OvnInv

\* Every step of the cluster manager and of the connections keeps the
\* invariant.
LEMMA OvnInvStep == OvnInv /\ [OvnNext]_ovnVars => OvnInv'
<1> SUFFICES ASSUME OvnInv, [OvnNext]_ovnVars
             PROVE  OvnInv'
    OBVIOUS
<1>0. /\ IsMap(clusters, ClusterIds, DOMAIN servers)
      /\ IsMap(servers, 1..MaxServers, OvsdbServer)
      /\ IsMap(conns, Conns, Conn) /\ manager \in ManagerCall
      /\ manager.at \subseteq manager.todo
      /\ manager.todo \subseteq DOMAIN clusters
      /\ phase \in {"up", "cancelled", "draining", "down"}
      /\ \A c \in DOMAIN conns : conns[c].server \in DOMAIN servers
  BY DEF OvnInv, OvnTypeOK, ServersKept
<1>0a. /\ \A c \in DOMAIN conns : conns[c] \in Conn
       /\ \A s \in DOMAIN servers : servers[s] \in OvsdbServer /\ s \in 1..MaxServers
  BY <1>0 DEF IsMap
<1>0b. IsMap(conns, Conns, Conn)
  BY <1>0
<1>1. ASSUME NEW id \in ClusterIds, NEW port \in Ports,
             CreateCluster(id, port) \/ CreateICCluster(id, port)
      PROVE  OvnInv'
  <2>1. CASE CreateCluster(id, port)
    BY <2>1, ListenStep DEF CreateCluster
  <2>2. CASE CreateICCluster(id, port)
    BY <2>2, ListenStep DEF CreateICCluster
  <2> QED BY <1>1, <2>1, <2>2
<1>2. ASSUME NEW c \in Conns, NEW s \in DOMAIN servers, Accept(c, s)
      PROVE  OvnInv'
  <2> DEFINE q == [server |-> s, state |-> "accepted", closed |-> FALSE,
                   left |-> FALSE, late |-> FALSE]
  <2>1. /\ servers[s].open /\ conns' = Put(conns, c, q)
        /\ UNCHANGED <<clusters, servers, manager, phase>>
    BY <1>2 DEF Accept
  <2>2. q \in Conn /\ q.server = s
    BY <1>0a DEF Conn
  <2> HIDE DEF q
  <2>3. /\ IsMap(conns', Conns, Conn)
        /\ \A k \in DOMAIN conns' : \/ k \in DOMAIN conns /\ conns'[k] = conns[k]
                                    \/ conns'[k] = q
    BY <1>0b, <2>1, <2>2 DEF Put, IsMap
  <2> QED BY <1>0, <2>1, <2>2, <2>3, ConnsOnly
<1>3. ASSUME NEW c \in DOMAIN conns, ClientLeaves(c)
      PROVE  OvnInv'
  <2>1. /\ conns' = [conns EXCEPT ![c].left = TRUE]
        /\ UNCHANGED <<clusters, servers, manager, phase>>
    BY <1>3 DEF ClientLeaves
  <2>2. /\ [conns[c] EXCEPT !.left = TRUE] \in Conn
        /\ [conns[c] EXCEPT !.left = TRUE].server = conns[c].server
    BY <1>0a DEF Conn
  <2>3. /\ IsMap(conns', Conns, Conn)
        /\ \A k \in DOMAIN conns' : k \in DOMAIN conns
                                    /\ conns'[k].server = conns[k].server
    BY <1>0b, <2>1, <2>2 DEF IsMap
  <2> QED BY <1>0, <2>1, <2>3, ConnsOnly
<1>4. ASSUME NEW c, conns' = Drop(conns, c),
             UNCHANGED <<clusters, servers, manager, phase>>
      PROVE  OvnInv'
  <2>1. /\ IsMap(conns', Conns, Conn)
        /\ \A k \in DOMAIN conns' : k \in DOMAIN conns
                                    /\ conns'[k].server = conns[k].server
    BY <1>0b, <1>4 DEF Drop, Restrict, IsMap
  <2> QED BY <1>0, <1>4, <2>1, ConnsOnly
<1>5. ASSUME NEW c \in DOMAIN conns, ListConn(c)
      PROVE  OvnInv'
  <2>1. CASE phase = "up"
    <3>1. PICK late \in BOOLEAN : late = ~servers[conns[c].server].open
      BY <1>0, <1>0a DEF OvsdbServer
    <3>2. PICK q : q = [conns[c] EXCEPT !.state = "listed", !.late = late]
      OBVIOUS
    <3>3. q \in Conn /\ q.server = conns[c].server
      BY <1>0a, <3>2 DEF Conn
    <3>4. /\ conns' = [conns EXCEPT ![c].state = "listed", ![c].late = late]
          /\ UNCHANGED <<clusters, servers, manager, phase>>
      BY <1>5, <2>1, <3>1 DEF ListConn
    <3>5. conns' = [conns EXCEPT ![c] = q]
      BY <1>0b, <3>2, <3>4 DEF IsMap
    <3>6. /\ IsMap(conns', Conns, Conn)
          /\ \A k \in DOMAIN conns' : k \in DOMAIN conns
                                      /\ conns'[k].server = conns[k].server
      BY <1>0b, <3>3, <3>5 DEF IsMap
    <3> QED BY <1>0, <3>4, <3>6, ConnsOnly
  <2>2. CASE phase # "up"
    BY <1>4, <1>5, <2>2 DEF ListConn
  <2> QED BY <2>1, <2>2
<1>6. ASSUME NEW s \in DOMAIN servers, AcceptLoopEnds(s)
      PROVE  OvnInv'
  <2>1. PICK q : q = [servers[s] EXCEPT !.accepting = FALSE]
    OBVIOUS
  <2>2. /\ servers' = [servers EXCEPT ![s] = q]
        /\ UNCHANGED <<clusters, conns, manager, phase>>
    BY <1>6, <2>1 DEF AcceptLoopEnds
  <2>3. q \in OvsdbServer /\ q.open = servers[s].open /\ ~q.accepting
    BY <1>0a, <2>1 DEF OvsdbServer
  <2> QED BY <1>0, <2>2, <2>3, ServerStops
<1>7. ASSUME NEW id \in ClusterIds, StopAll(id)
      PROVE  OvnInv'
  <2>1. /\ id \in manager.todo /\ manager' = [manager EXCEPT !.at = {id}]
        /\ servers' = [servers EXCEPT ![clusters[id]].open = FALSE]
        /\ conns' = [c \in DOMAIN conns |->
                        IF /\ conns[c].server = clusters[id]
                           /\ conns[c].state = "listed"
                        THEN [conns[c] EXCEPT !.closed = TRUE] ELSE conns[c]]
        /\ UNCHANGED <<clusters, phase>>
    BY <1>7 DEF StopAll
  <2>2. PICK s \in DOMAIN servers : s = clusters[id]
    BY <1>0, <2>1 DEF IsMap
  <2>3. PICK q : q = [servers[s] EXCEPT !.open = FALSE]
    OBVIOUS
  <2>4. q \in OvsdbServer /\ ~q.open /\ q.accepting = servers[s].accepting
    BY <1>0a, <2>3 DEF OvsdbServer
  <2>5. servers' = [servers EXCEPT ![s] = q]
    BY <2>1, <2>2, <2>3
  <2>6. ASSUME NEW c \in DOMAIN conns
        PROVE  /\ [conns[c] EXCEPT !.closed = TRUE] \in Conn
               /\ [conns[c] EXCEPT !.closed = TRUE].server = conns[c].server
    BY <1>0a DEF Conn
  <2>7. /\ IsMap(conns', Conns, Conn) /\ DOMAIN conns' = DOMAIN conns
        /\ \A c \in DOMAIN conns : conns'[c].server = conns[c].server
    BY <1>0b, <2>1, <2>6 DEF IsMap
  <2>8. /\ manager' \in ManagerCall /\ manager'.todo = manager.todo
        /\ manager'.at = {id}
    BY <1>0, <2>1 DEF ManagerCall
  <2> QED BY <2>1, <2>2, <2>4, <2>5, <2>7, <2>8, ServerStops
<1>8. ASSUME NEW call \in ManagerCall, manager' = call, call.at = {},
             call.todo \subseteq DOMAIN clusters,
             phase' \in {"up", "cancelled", "draining", "down"},
             UNCHANGED <<clusters, servers, conns>>
      PROVE  OvnInv'
  BY <1>0, <1>8, ConnsOnly
<1>9. CASE ResetClusters \/ ShutdownReset
  <2>1. PICK todo \in SUBSET ClusterIds : todo = DOMAIN clusters
    BY <1>0 DEF IsMap
  <2>2. \A by \in {"reset", "shutdown"} :
           LET call == [by |-> by, todo |-> todo, at |-> {}]
           IN call \in ManagerCall /\ call.at = {} /\ call.todo = todo
    BY DEF ManagerCall
  <2>3. PICK by \in {"reset", "shutdown"} :
            manager' = [by |-> by, todo |-> todo, at |-> {}]
    BY <1>9, <2>1 DEF ResetClusters, ShutdownReset
  <2>4. phase' \in {"up", "cancelled", "draining", "down"}
        /\ UNCHANGED <<clusters, servers, conns>>
    BY <1>0, <1>9 DEF ResetClusters, ShutdownReset
  <2> QED BY <1>8, <2>1, <2>2, <2>3, <2>4
<1>10. CASE ResetEnds
  <2>1. Idle \in ManagerCall /\ Idle.at = {} /\ Idle.todo = {}
    BY DEF Idle, ManagerCall
  <2> QED BY <1>0, <1>8, <1>10, <2>1 DEF ResetEnds
<1>11. CASE Cancel \/ HttpDown
  BY <1>0, <1>11, ConnsOnly DEF Cancel, HttpDown
<1>12. CASE UNCHANGED ovnVars
  BY <1>0, <1>12, ConnsOnly DEF ovnVars
<1>13. ASSUME NEW c \in DOMAIN conns, ConnEnds(c) \/ RequestEnds(c)
       PROVE  OvnInv'
  BY <1>4, <1>13 DEF ConnEnds, RequestEnds
<1>14. ASSUME NEW id \in ClusterIds, Waited(id) PROVE OvnInv'
  BY <1>14, WaitedStep
<1> QED BY <1>1, <1>2, <1>3, <1>5, <1>6, <1>7, <1>9, <1>10, <1>11, <1>12,
           <1>13, <1>14 DEF OvnNext, ConnStep, ManagerStep

\* The invariant of the clusters.
LEMMA OvnSafe == OvnSpec => []OvnInv
<1>1. OvnInit => OvnInv
  <2> SUFFICES ASSUME OvnInit PROVE OvnInv
    OBVIOUS
  <2>1. Idle \in ManagerCall /\ Idle.at = {} /\ Idle.todo = {}
    BY DEF Idle, ManagerCall
  <2>2. OvnTypeOK
    BY <2>1, EmptyIsMap DEF OvnInit, OvnTypeOK
  <2>3. Cardinality({}) = 0 /\ 1..0 = {}
    BY FS_EmptySet
  <2>4. ServersKept /\ NoSurvivors
    BY <2>1, <2>3, EmptyIsMap DEF OvnInit, ServersKept, NoSurvivors
  <2> QED BY <2>2, <2>4 DEF OvnInv
<1> QED BY <1>1, OvnInvStep, PTL DEF OvnSpec

\* The records of the clusters and their servers stay well formed.
THEOREM OvnTypeCorrect == OvnSpec => []OvnTypeOK
<1>1. OvnInv => OvnTypeOK
  BY DEF OvnInv
<1> QED BY <1>1, OvnSafe, PTL

\* Nothing of a cluster outlives it, for any number of clusters and clients.
THEOREM ClustersLeaveNothing == OvnSpec => []NoSurvivors
<1>1. OvnInv => NoSurvivors
  BY DEF OvnInv
<1> QED BY <1>1, OvnSafe, PTL

-----------------------------------------------------------------------------
(* The workload engine.                                                    *)

\* The goroutine of a run writes to it: the copies that show a completed run
\* are of another one.
LEMMA RunWritten ==
    ASSUME LoadgenInv, NEW i \in DOMAIN runs, NEW q \in Run,
           RunKept(q), q.assertions = runs[i].assertions,
           runs[i].status = "running" \/ i \in writing,
           runs' = [runs EXCEPT ![i] = q],
           writing' = (IF q.status = "completed" THEN {i} ELSE writing),
           runs[i].status = "completed" \/ writing = {}
               \/ q.status = "running",
           runs[i].status = "completed" => q.status = "completed",
           UNCHANGED <<runCounter, gets>>
    PROVE  LoadgenInv'
<1>0. /\ IsMap(runs, 1..runCounter, Run) /\ runCounter \in 0..MaxRuns
      /\ \A k \in writing : k \in DOMAIN runs /\ runs[k].status = "completed"
      /\ IsMap(gets, Gets, Get)
      /\ \A g \in DOMAIN gets : gets[g].run \in DOMAIN runs
      /\ \A k, j \in writing : k = j
      /\ \A k \in DOMAIN runs : RunKept(runs[k])
      /\ \A k \in DOMAIN runs : runs[k].status = "completed" /\ k \notin writing =>
            runs[k].results = Range(runs[k].assertions)
      /\ \A g \in DOMAIN gets : ~gets[g].shared /\ gets[g].status = "completed" =>
            runs[gets[g].run].status = "completed" /\ gets[g].run \notin writing
      /\ PolledResultsWhole
  BY DEF LoadgenInv, LoadgenTypeOK, OutcomesWhole
<1>1. /\ IsMap(runs', 1..runCounter, Run) /\ DOMAIN runs' = DOMAIN runs
      /\ runs'[i] = q
      /\ \A k \in DOMAIN runs : k # i => runs'[k] = runs[k]
  BY <1>0 DEF IsMap
<1>2. writing' \subseteq writing \cup {i} /\ writing \subseteq writing'
  BY <1>0
<1>3. \A k \in writing' : k \in DOMAIN runs' /\ runs'[k].status = "completed"
  BY <1>0, <1>1
<1>4. LoadgenTypeOK'
  BY <1>0, <1>1, <1>3 DEF LoadgenTypeOK
<1>5. \A k, j \in writing' : k = j
  BY <1>0
<1>6. q.status \in {"running", "completed"}
  BY DEF Run
<1>7. ASSUME NEW k \in DOMAIN runs', runs'[k].status = "completed",
             k \notin writing'
      PROVE  runs'[k].results = Range(runs'[k].assertions)
  BY <1>0, <1>1, <1>2, <1>7
<1>8. ASSUME NEW g \in DOMAIN gets', ~gets'[g].shared,
             gets'[g].status = "completed"
      PROVE  /\ gets[g].run # i
             /\ runs'[gets'[g].run].status = "completed"
             /\ gets'[g].run \notin writing'
  BY <1>0, <1>1, <1>2, <1>8
<1>9. \A k \in DOMAIN runs' : RunKept(runs'[k])
  BY <1>0, <1>1
<1>10. OutcomesWhole'
  BY <1>5, <1>7, <1>8, <1>9 DEF OutcomesWhole
<1>11. PolledResultsWhole'
  BY <1>0, <1>1, <1>8 DEF PolledResultsWhole
<1> QED BY <1>4, <1>10, <1>11 DEF LoadgenInv

\* Every step of the engine keeps its invariant.
LEMMA LoadgenInvStep == LoadgenInv /\ [LoadgenNext]_loadgenVars => LoadgenInv'
<1> SUFFICES ASSUME LoadgenInv, [LoadgenNext]_loadgenVars
             PROVE  LoadgenInv'
    OBVIOUS
<1>0. /\ IsMap(runs, 1..runCounter, Run) /\ runCounter \in 0..MaxRuns
      /\ \A k \in writing : k \in DOMAIN runs /\ runs[k].status = "completed"
      /\ IsMap(gets, Gets, Get)
      /\ \A g \in DOMAIN gets : gets[g].run \in DOMAIN runs
      /\ \A k, j \in writing : k = j
      /\ \A k \in DOMAIN runs : RunKept(runs[k])
      /\ \A k \in DOMAIN runs : runs[k].status = "completed" /\ k \notin writing =>
            runs[k].results = Range(runs[k].assertions)
      /\ \A g \in DOMAIN gets : ~gets[g].shared /\ gets[g].status = "completed" =>
            runs[gets[g].run].status = "completed" /\ gets[g].run \notin writing
      /\ PolledResultsWhole
  BY DEF LoadgenInv, LoadgenTypeOK, OutcomesWhole
<1>0a. /\ \A k \in DOMAIN runs : runs[k] \in Run /\ k \in 1..runCounter
       /\ \A g \in DOMAIN gets : gets[g] \in Get
       /\ MaxRuns \in Nat
  BY <1>0, LoadgenAssumption DEF IsMap, LoadgenAssumption
<1>0b. IsMap(gets, Gets, Get)
  BY <1>0
<1>1. ASSUME NEW g \in Gets, NEW p \in Phases, NEW a \in Assertions,
             RunWorkload(g, p, a)
      PROVE  LoadgenInv'
  <2> DEFINE n == runCounter + 1
             q == [status |-> "running", phases |-> p, asleep |-> FALSE,
                   assertions |-> a, evaluated |-> 0, results |-> {}]
             get == [run |-> n, shared |-> TRUE, status |-> "running",
                     results |-> {}, sent |-> FALSE]
  <2>1. /\ writing = {} /\ runCounter < MaxRuns /\ g \notin DOMAIN gets
        /\ runCounter' = n /\ runs' = Put(runs, n, q)
        /\ gets' = Put(gets, g, get) /\ UNCHANGED writing
    BY <1>1 DEF RunWorkload
  <2>2. q \in Run /\ q.status = "running" /\ get \in Get /\ get.shared
        /\ get.run = n
    BY <1>0, <1>0a, LoadgenAssumption DEF Run, Get, LoadgenAssumption
  <2>2a. RunKept(q)
    BY DEF RunKept
  <2>3. n \in 0..MaxRuns /\ n \in Nat /\ n \notin DOMAIN runs
        /\ DOMAIN runs \subseteq 1..n /\ n \in 1..n
    BY <1>0, <1>0a, <2>1
  <2> HIDE DEF q, get, n
  <2>4. /\ IsMap(runs', 1..n, Run) /\ DOMAIN runs' = DOMAIN runs \cup {n}
        /\ runs'[n] = q /\ \A k \in DOMAIN runs : runs'[k] = runs[k]
    BY <1>0, <2>1, <2>2, <2>3 DEF Put, IsMap
  <2>5. /\ IsMap(gets', Gets, Get) /\ DOMAIN gets' = DOMAIN gets \cup {g}
        /\ gets'[g] = get /\ \A k \in DOMAIN gets : gets'[k] = gets[k]
    BY <1>0b, <2>1, <2>2 DEF Put, IsMap
  <2>6. LoadgenTypeOK'
    BY <1>0, <2>1, <2>2, <2>3, <2>4, <2>5 DEF LoadgenTypeOK
  <2>7. OutcomesWhole'
    BY <1>0, <2>1, <2>2, <2>2a, <2>3, <2>4, <2>5 DEF OutcomesWhole
  <2>8. PolledResultsWhole'
    BY <1>0, <2>1, <2>2, <2>4, <2>5 DEF PolledResultsWhole
  <2> QED BY <2>6, <2>7, <2>8 DEF LoadgenInv
<1>2. ASSUME NEW g \in Gets, NEW i \in DOMAIN runs, GetRun(g, i)
      PROVE  LoadgenInv'
  <2>1. PICK get : get = [run |-> i, shared |-> FALSE,
                          status |-> runs[i].status, results |-> {},
                          sent |-> FALSE]
    OBVIOUS
  <2>2. /\ get \in Get /\ get.run = i /\ get.status = runs[i].status
        /\ ~get.sent
    BY <1>0, <1>0a, <2>1 DEF Get, Run
  <2>3. /\ writing = {} /\ gets' = Put(gets, g, get)
        /\ UNCHANGED <<runs, runCounter, writing>>
    BY <1>2, <2>1 DEF GetRun
  <2>4. /\ IsMap(gets', Gets, Get) /\ DOMAIN gets' = DOMAIN gets \cup {g}
        /\ gets'[g] = get
        /\ \A k \in DOMAIN gets : k # g => gets'[k] = gets[k]
    BY <1>0b, <2>2, <2>3 DEF Put, IsMap
  <2>5. LoadgenTypeOK'
    BY <1>0, <2>2, <2>3, <2>4 DEF LoadgenTypeOK
  <2>6. OutcomesWhole'
    BY <1>0, <2>2, <2>3, <2>4 DEF OutcomesWhole
  <2>7. PolledResultsWhole'
    BY <1>0, <2>2, <2>3, <2>4 DEF PolledResultsWhole
  <2> QED BY <2>5, <2>6, <2>7 DEF LoadgenInv
<1>3. ASSUME NEW g \in Gets, Encode(g)
      PROVE  LoadgenInv'
  <2>1. g \in DOMAIN gets /\ UNCHANGED <<runs, runCounter, writing>>
    BY <1>3 DEF Encode
  <2>2. PICK get, run : get = gets[g] /\ run = runs[get.run]
    OBVIOUS
  <2>3. get \in Get /\ run \in Run /\ get.run \in DOMAIN runs
    BY <1>0, <1>0a, <2>1, <2>2
  <2>4. PICK status \in {"running", "completed"} :
            status = IF get.shared THEN run.status ELSE get.status
    BY <2>3 DEF Get, Run
  <2>5. PICK new : new = [get EXCEPT !.sent = TRUE, !.results = run.results,
                                     !.status = status]
    OBVIOUS
  <2>6. /\ new \in Get /\ new.run = get.run /\ new.shared = get.shared
        /\ new.results = run.results /\ new.status = status
    BY <2>3, <2>4, <2>5 DEF Get, Run
  <2>7. gets' = [gets EXCEPT ![g] = new]
    BY <1>3, <2>2, <2>3, <2>4, <2>5 DEF Encode, Get
  <2>8. /\ IsMap(gets', Gets, Get) /\ DOMAIN gets' = DOMAIN gets
        /\ gets'[g] = new
        /\ \A k \in DOMAIN gets : k # g => gets'[k] = gets[k]
    BY <1>0b, <2>1, <2>6, <2>7 DEF IsMap
  <2>9. LoadgenTypeOK'
    BY <1>0, <2>1, <2>3, <2>6, <2>8 DEF LoadgenTypeOK
  <2>10. ~new.shared /\ new.status = "completed" =>
            /\ run.status = "completed" /\ get.run \notin writing
            /\ run.results = Range(run.assertions)
    BY <1>0, <2>1, <2>2, <2>3, <2>4, <2>6
  <2>11. OutcomesWhole'
    BY <1>0, <2>1, <2>2, <2>6, <2>8, <2>10 DEF OutcomesWhole
  <2>12. PolledResultsWhole'
    BY <1>0, <2>1, <2>2, <2>6, <2>8, <2>10 DEF PolledResultsWhole
  <2> QED BY <2>9, <2>11, <2>12 DEF LoadgenInv
<1>4. ASSUME NEW g \in Gets, MapRace(g)
      PROVE  LoadgenInv'
  <2>1. /\ runs' = EmptyMap /\ runCounter' = 0 /\ writing' = {}
        /\ gets' = EmptyMap
    BY <1>4 DEF MapRace
  <2> QED BY <1>0a, <2>1, EmptyIsMap
          DEF LoadgenInv, LoadgenTypeOK, OutcomesWhole, PolledResultsWhole
<1>5. ASSUME NEW g \in Gets, Replied(g)
      PROVE  LoadgenInv'
  <2>1. /\ gets' = Drop(gets, g) /\ UNCHANGED <<runs, runCounter, writing>>
    BY <1>5 DEF Replied
  <2>2. /\ IsMap(gets', Gets, Get)
        /\ \A k \in DOMAIN gets' : k \in DOMAIN gets /\ gets'[k] = gets[k]
    BY <1>0b, <2>1 DEF Drop, Restrict, IsMap
  <2> QED BY <1>0, <2>1, <2>2
          DEF LoadgenInv, LoadgenTypeOK, OutcomesWhole, PolledResultsWhole
<1>6. ASSUME NEW i \in DOMAIN runs,
             \/ PhaseEnds(i) \/ Oversleeps(i) \/ Complete(i)
             \/ EvaluateAssertion(i)
      PROVE  LoadgenInv'
  <2>1. runs[i] \in Run /\ RunKept(runs[i])
    BY <1>0, <1>0a
  <2>2. CASE PhaseEnds(i)
    <3>1. PICK q : q = [runs[i] EXCEPT !.phases = Tail(@)]
      OBVIOUS
    <3>2. /\ runs' = [runs EXCEPT ![i] = q] /\ runs[i].status = "running"
          /\ runs[i].phases # <<>> /\ ~runs[i].asleep
          /\ UNCHANGED <<runCounter, writing, gets>>
      BY <2>2, <3>1 DEF PhaseEnds
    <3>3. Tail(runs[i].phases) \in Seq(PhaseKinds)
      BY <2>1, <3>2 DEF Run
    <3>4. /\ q \in Run /\ q.assertions = runs[i].assertions
          /\ q.status = "running"
      BY <2>1, <3>1, <3>2, <3>3 DEF Run
    <3>5. RunKept(q)
      BY <2>1, <3>1, <3>2 DEF RunKept, Run
    <3> QED BY <3>2, <3>4, <3>5, RunWritten
  <2>3. CASE Oversleeps(i)
    <3>1. PICK q : q = [runs[i] EXCEPT !.asleep = TRUE]
      OBVIOUS
    <3>2. /\ runs' = [runs EXCEPT ![i] = q] /\ runs[i].status = "running"
          /\ runs[i].phases # <<>> /\ UNCHANGED <<runCounter, writing, gets>>
      BY <2>3, <3>1 DEF Oversleeps
    <3>3. /\ q \in Run /\ q.assertions = runs[i].assertions
          /\ q.status = "running"
      BY <2>1, <3>1, <3>2 DEF Run
    <3>4. RunKept(q)
      BY <2>1, <3>1, <3>2 DEF RunKept, Run
    <3> QED BY <3>2, <3>3, <3>4, RunWritten
  <2>4. CASE Complete(i)
    <3>1. PICK q : q = [runs[i] EXCEPT !.status = "completed"]
      OBVIOUS
    <3>2. /\ runs' = [runs EXCEPT ![i] = q] /\ runs[i].status = "running"
          /\ runs[i].phases = <<>>
          /\ writing = {} /\ writing' = {i} /\ UNCHANGED <<runCounter, gets>>
      BY <2>4, <3>1 DEF Complete
    <3>3. /\ q \in Run /\ q.assertions = runs[i].assertions
          /\ q.status = "completed"
      BY <2>1, <3>1 DEF Run
    <3>4. RunKept(q)
      BY <2>1, <3>1, <3>2 DEF RunKept, Run
    <3> QED BY <3>2, <3>3, <3>4, RunWritten
  <2>5. CASE EvaluateAssertion(i)
    <3>1. PICK n : n = runs[i].evaluated + 1
      OBVIOUS
    <3>2. PICK q : q = [runs[i] EXCEPT
                           !.evaluated = n,
                           !.results = @ \cup {runs[i].assertions[n]}]
      OBVIOUS
    <3>3. /\ runs' = [runs EXCEPT ![i] = q] /\ i \in writing
          /\ n \in DOMAIN runs[i].assertions
          /\ UNCHANGED <<runCounter, writing, gets>>
      BY <2>5, <3>1, <3>2 DEF EvaluateAssertion
    <3>4. /\ runs[i].evaluated \in Nat /\ n \in Nat
          /\ runs[i].assertions[n] \in Metrics
      BY <2>1, <3>1, <3>3 DEF Run
    <3>5. /\ q \in Run /\ q.assertions = runs[i].assertions
          /\ q.status = runs[i].status /\ q.evaluated = n
          /\ q.asleep = runs[i].asleep /\ q.phases = runs[i].phases
          /\ q.results = runs[i].results \cup {runs[i].assertions[n]}
      BY <2>1, <3>2, <3>4 DEF Run
    <3>6. 1..n = (1..runs[i].evaluated) \cup {n}
      BY <3>1, <3>4
    <3>7. q.results = {q.assertions[k] : k \in 1..q.evaluated}
      BY <2>1, <3>5, <3>6 DEF RunKept
    <3>8. RunKept(q)
      BY <2>1, <3>5, <3>7 DEF RunKept
    <3>9. runs[i].status = "completed" /\ writing = {i}
      BY <1>0, <3>3
    <3> QED BY <3>3, <3>5, <3>8, <3>9, RunWritten
  <2> QED BY <1>6, <2>2, <2>3, <2>4, <2>5
<1>7. ASSUME NEW i \in DOMAIN runs, Unlock(i)
      PROVE  LoadgenInv'
  <2>1. /\ i \in writing /\ runs[i].evaluated = Len(runs[i].assertions)
        /\ writing' = {} /\ UNCHANGED <<runs, runCounter, gets>>
    BY <1>7 DEF Unlock
  <2>2. PICK a \in Seq(Metrics) : a = runs[i].assertions
    BY <1>0a DEF Run
  <2>3. runs[i].results = {a[k] : k \in 1..Len(a)}
    BY <1>0, <2>1, <2>2 DEF RunKept
  <2>4. runs[i].results = Range(runs[i].assertions)
    BY <2>2, <2>3 DEF Range
  <2> QED BY <1>0, <2>1, <2>4
          DEF LoadgenInv, LoadgenTypeOK, OutcomesWhole, PolledResultsWhole
<1>8. CASE UNCHANGED loadgenVars
  BY <1>0, <1>8 DEF loadgenVars, LoadgenInv, LoadgenTypeOK, OutcomesWhole,
                    PolledResultsWhole
<1> QED BY <1>1, <1>2, <1>3, <1>4, <1>5, <1>6, <1>7, <1>8
        DEF LoadgenNext, RunStep

\* The invariant of the engine.
LEMMA LoadgenSafe == LoadgenSpec => []LoadgenInv
<1>1. LoadgenInit => LoadgenInv
  BY EmptyIsMap, LoadgenAssumption
     DEF LoadgenInit, LoadgenInv, LoadgenTypeOK, OutcomesWhole,
         PolledResultsWhole, LoadgenAssumption
<1> QED BY <1>1, LoadgenInvStep, PTL DEF LoadgenSpec

\* The runs and the requests stay well formed.
THEOREM LoadgenTypeCorrect == LoadgenSpec => []LoadgenTypeOK
<1>1. LoadgenInv => LoadgenTypeOK
  BY DEF LoadgenInv
<1> QED BY <1>1, LoadgenSafe, PTL

\* A client that reads "completed" from a copy has all the results.
THEOREM PolledResultsSafe == LoadgenSpec => []PolledResultsWhole
<1>1. LoadgenInv => PolledResultsWhole
  BY DEF LoadgenInv
<1> QED BY <1>1, LoadgenSafe, PTL

\* The engine implements the safety part of AsyncLifecycle: a run appears as
\* running, completes once or oversleeps, and is never seen to run again,
\* unless the process goes down.
THEOREM RunsImplementLifecycle == LoadgenSpec => RunLifecycle!Spec
<1>1. LoadgenInit => RunLifecycle!Init
  BY EmptyIsMap DEF LoadgenInit, RunLifecycle!Init, RunsSeen
<1>2. LoadgenInv /\ [LoadgenNext]_loadgenVars => [RunLifecycle!Next]_RunsSeen
  <2> SUFFICES ASSUME LoadgenInv, [LoadgenNext]_loadgenVars
               PROVE  RunLifecycle!Next \/ RunsSeen' = RunsSeen
    OBVIOUS
  <2>0. /\ DOMAIN runs \subseteq 1..runCounter /\ runCounter \in 0..MaxRuns
        /\ MaxRuns \in Nat
    BY LoadgenAssumption
       DEF LoadgenInv, LoadgenTypeOK, IsMap, LoadgenAssumption
  <2>1. ASSUME NEW g \in Gets, NEW p \in Phases, NEW a \in Assertions,
               RunWorkload(g, p, a)
        PROVE  RunLifecycle!Next
    <3>1. PICK n \in 1..MaxRuns : n = runCounter + 1
      BY <2>0, <2>1 DEF RunWorkload
    <3>2. n \notin DOMAIN runs
      BY <2>0, <3>1
    <3>3. runs' = Put(runs, n, [status |-> "running", phases |-> p,
                                asleep |-> FALSE, assertions |-> a,
                                evaluated |-> 0, results |-> {}])
      BY <2>1, <3>1 DEF RunWorkload
    <3>4. /\ DOMAIN runs' = DOMAIN runs \cup {n}
          /\ runs'[n].status = "running" /\ ~runs'[n].asleep
          /\ \A k \in DOMAIN runs : runs'[k] = runs[k]
      BY <3>2, <3>3 DEF Put
    <3>5. RunsSeen[n] = "absent" /\ RunsSeen' = [RunsSeen EXCEPT ![n] = "running"]
      BY <3>2, <3>4 DEF RunsSeen
    <3> QED BY <3>5 DEF RunLifecycle!Next, RunLifecycle!Start
  <2>2. ASSUME NEW g \in Gets, MapRace(g) PROVE RunLifecycle!Next
    BY <2>2, EmptyIsMap
       DEF MapRace, RunsSeen, RunLifecycle!Next, RunLifecycle!Clear
  <2>3. ASSUME NEW i \in DOMAIN runs, i \in 1..MaxRuns, Complete(i)
        PROVE  RunLifecycle!Next
    <3>1. /\ runs[i].status = "running" /\ runs[i].phases = <<>>
          /\ runs' = [runs EXCEPT ![i].status = "completed"]
      BY <2>3 DEF Complete
    <3>2. runs[i] \in Run /\ ~runs[i].asleep
      BY <3>1 DEF LoadgenInv, LoadgenTypeOK, IsMap, OutcomesWhole, RunKept
    <3>3. /\ DOMAIN runs' = DOMAIN runs /\ runs'[i].status = "completed"
          /\ ~runs'[i].asleep
          /\ \A k \in DOMAIN runs : k # i => runs'[k] = runs[k]
      BY <3>1, <3>2 DEF Run
    <3>4. /\ RunsSeen[i] = "running"
          /\ RunsSeen' = [RunsSeen EXCEPT ![i] = "completed"]
      BY <2>3, <3>1, <3>2, <3>3 DEF RunsSeen
    <3>5. RunLifecycle!Advance(i)
      BY <3>4 DEF RunLifecycle!Advance
    <3> QED BY <2>3, <3>5 DEF RunLifecycle!Next
  <2>4. ASSUME NEW i \in DOMAIN runs, i \in 1..MaxRuns, Oversleeps(i)
        PROVE  RunLifecycle!Next
    <3>1. /\ runs[i].status = "running" /\ ~runs[i].asleep
          /\ runs' = [runs EXCEPT ![i].asleep = TRUE]
      BY <2>4 DEF Oversleeps
    <3>2. runs[i] \in Run
      BY DEF LoadgenInv, LoadgenTypeOK, IsMap
    <3>3. /\ DOMAIN runs' = DOMAIN runs /\ runs'[i].asleep
          /\ \A k \in DOMAIN runs : k # i => runs'[k] = runs[k]
      BY <3>1, <3>2 DEF Run
    <3>4. /\ RunsSeen[i] = "running"
          /\ RunsSeen' = [RunsSeen EXCEPT ![i] = "asleep"]
      BY <2>4, <3>1, <3>3 DEF RunsSeen
    <3>5. RunLifecycle!Advance(i)
      BY <3>4 DEF RunLifecycle!Advance
    <3> QED BY <2>4, <3>5 DEF RunLifecycle!Next
  <2>5. ASSUME NEW i \in DOMAIN runs, PhaseEnds(i) \/ EvaluateAssertion(i)
        PROVE  RunsSeen' = RunsSeen
    <3>1. runs[i] \in Run
      BY DEF LoadgenInv, LoadgenTypeOK, IsMap
    <3>2. /\ DOMAIN runs' = DOMAIN runs /\ runs'[i].status = runs[i].status
          /\ runs'[i].asleep = runs[i].asleep
          /\ \A k \in DOMAIN runs : k # i => runs'[k] = runs[k]
      BY <2>5, <3>1 DEF PhaseEnds, EvaluateAssertion, Run
    <3> QED BY <3>2 DEF RunsSeen
  <2>6. ASSUME runs' = runs PROVE RunsSeen' = RunsSeen
    BY <2>6 DEF RunsSeen
  <2> QED BY <2>1, <2>2, <2>3, <2>4, <2>5, <2>6
          DEF LoadgenNext, RunStep, GetRun, Encode, Replied, Unlock, loadgenVars
<1> QED BY <1>1, <1>2, LoadgenSafe, PTL DEF LoadgenSpec, RunLifecycle!Spec

-----------------------------------------------------------------------------
(* The environment generator and the event log.                            *)

\* The status a client polls is honest, whatever calls and resets overlap.
THEOREM StatusSafe == DatagenSpec => []StatusHonest
<1>1. DatagenInit => StatusHonest
  BY DEF DatagenInit, StatusHonest
<1>2. StatusHonest /\ [DatagenNext]_datagenVars => StatusHonest'
  <2> SUFFICES ASSUME StatusHonest, [DatagenNext]_datagenVars
               PROVE  StatusHonest'
    OBVIOUS
  <2>1. ASSUME NEW g \in Generations, NEW env, Generate(g, env)
        PROVE  StatusHonest'
    BY <2>1 DEF Generate, Put, StatusHonest
  <2>2. ASSUME NEW g \in Generations, GenerateFails(g) \/ GenerateEnds(g)
        PROVE  StatusHonest'
    BY <2>2 DEF GenerateFails, GenerateEnds, StatusHonest
  <2>3. CASE DatagenReset
    BY <2>3 DEF DatagenReset, StatusHonest
  <2>4. CASE UNCHANGED datagenVars
    BY <2>4 DEF datagenVars, StatusHonest
  <2> QED BY <2>1, <2>2, <2>3, <2>4 DEF DatagenNext
<1> QED BY <1>1, <1>2, PTL DEF DatagenSpec

\* The events are well formed.
EventsTyped ==
    /\ events \in Seq([id : Nat, simulator : Simulators, time : Int])
    /\ clock \in Int

\* Recording keeps the numbers without gaps, and time does not go back.
LEMMA EventsSafe == EventSpec => [](EventsTyped /\ LogOrdered)
<1>1. EventInit => EventsTyped /\ LogOrdered
  BY DEF EventInit, EventsTyped, LogOrdered
<1>2. EventsTyped /\ LogOrdered /\ [EventNext]_eventVars
      => EventsTyped' /\ LogOrdered'
  <2> SUFFICES ASSUME EventsTyped, LogOrdered, [EventNext]_eventVars
               PROVE  EventsTyped' /\ LogOrdered'
    OBVIOUS
  <2>1. ASSUME NEW sim \in Simulators, Record(sim)
        PROVE  EventsTyped' /\ LogOrdered'
    <3> DEFINE e == [id |-> eventCounter + 1, simulator |-> sim, time |-> clock]
    <3>1. /\ events' = Append(events, e) /\ eventCounter' = eventCounter + 1
          /\ clock' = clock
      BY <2>1 DEF Record
    <3>2. /\ e \in [id : Nat, simulator : Simulators, time : Int]
          /\ e.id = Len(events) + 1 /\ e.simulator = sim /\ e.time = clock
      BY DEF EventsTyped, LogOrdered
    <3> HIDE DEF e
    <3>3. /\ EventsTyped' /\ Len(events') = Len(events) + 1
          /\ events'[Len(events) + 1] = e
          /\ \A i \in 1..Len(events) : events'[i] = events[i]
      BY <3>1, <3>2 DEF EventsTyped
    <3>4. ASSUME NEW i \in 1..Len(events')
          PROVE  /\ events'[i].id = i /\ events'[i].simulator \in Simulators
                 /\ events'[i].time <= clock'
                 /\ i > 1 => events'[i - 1].time <= events'[i].time
      <4>0. Len(events) \in Nat /\ clock \in Int
        BY DEF EventsTyped
      <4>1. CASE i \in 1..Len(events)
        <5>1. i > 1 => i - 1 \in 1..Len(events)
          BY <4>0, <4>1
        <5> QED BY <3>1, <3>3, <4>1, <5>1 DEF LogOrdered
      <4>2. CASE i = Len(events) + 1
        <5>1. i > 1 => i - 1 \in 1..Len(events)
          BY <4>0, <4>2
        <5> QED BY <3>1, <3>2, <3>3, <4>0, <4>2, <5>1 DEF LogOrdered
      <4> QED BY <3>3, <4>0, <4>1, <4>2
    <3>5. eventCounter' = Len(events')
      BY <3>1, <3>3 DEF LogOrdered
    <3> QED BY <3>3, <3>4, <3>5 DEF LogOrdered
  <2>2. CASE Clear
    BY <2>2 DEF Clear, EventsTyped, LogOrdered
  <2>3. CASE EventTick
    <3>1. UNCHANGED <<events, eventCounter>> /\ clock' = clock + 1
      BY <2>3 DEF EventTick
    <3>2. EventsTyped'
      BY <3>1 DEF EventsTyped
    <3>3. \A i \in 1..Len(events) : events[i].time \in Int
      <4> DEFINE Event == [id : Nat, simulator : Simulators, time : Int]
      <4>1. \A e \in Event : e.time \in Int
        OBVIOUS
      <4> HIDE DEF Event
      <4>2. events \in Seq(Event)
        BY DEF EventsTyped, Event
      <4>3. \A i \in 1..Len(events) : events[i] \in Event
        BY <4>2
      <4> QED BY <4>1, <4>3
    <3>4. \A i \in 1..Len(events) : events[i].time <= clock + 1
      BY <3>3 DEF LogOrdered, EventsTyped
    <3> QED BY <3>1, <3>2, <3>4 DEF LogOrdered
  <2>4. ASSUME UNCHANGED <<events, eventCounter, clock>>
        PROVE  EventsTyped' /\ LogOrdered'
    BY <2>4 DEF EventsTyped, LogOrdered
  <2> QED BY <2>1, <2>2, <2>3, <2>4
          DEF EventNext, PageBegin, GetEvents, PageEnd, eventVars
<1> QED BY <1>1, <1>2, PTL DEF EventSpec

\* The log is numbered without gaps and ordered by time, also after a clear.
THEOREM LogSafe == EventSpec => []LogOrdered
  BY EventsSafe, PTL

-----------------------------------------------------------------------------
(***************************************************************************)
(* Pages of the log.  What matches is found from the front, so an event    *)
(* that is recorded only adds to what a client pages through.              *)
(***************************************************************************)
\* What matches up to an event, given what matches before it.
MatchStep(s, e, filter) == IF Matches(e, filter) THEN Append(s, e) ELSE s

\* g[i] is what matches among the first i events.
IsMatched(g, log, filter, n) ==
    g = [i \in 0..n |-> IF i = 0 THEN <<>>
                        ELSE MatchStep(g[i - 1], log[i], filter)]

\* There is such a list for every log.
LEMMA MatchedExists ==
    ASSUME NEW log, NEW filter, NEW n \in Nat
    PROVE  \E g : IsMatched(g, log, filter, n)
<1> DEFINE T == {k \in Nat : ~\E g : IsMatched(g, log, filter, k)}
<1>1. SUFFICES ASSUME T # {} PROVE FALSE
  OBVIOUS
<1>2. PICK k \in T : \A m \in T : k <= m
  <2>1. T \in SUBSET Nat
    OBVIOUS
  <2> HIDE DEF T
  <2> QED BY <1>1, <2>1, LeastNumber
<1>3. k # 0
  <2>1. ASSUME k = 0 PROVE FALSE
   <3> DEFINE g == [i \in 0..0 |-> <<>>]
   <3>1. IsMatched(g, log, filter, 0)
     BY DEF IsMatched
   <3> QED BY <2>1, <3>1
  <2> QED BY <2>1
<1>4. k \in Nat /\ ~\E g : IsMatched(g, log, filter, k)
  OBVIOUS
<1>5. k - 1 \in Nat /\ ~(k <= k - 1)
  BY <1>3, <1>4
<1>6. PICK g : IsMatched(g, log, filter, k - 1)
  BY <1>2, <1>5
<1>7. \A i \in 0..(k - 1) :
          g[i] = IF i = 0 THEN <<>> ELSE MatchStep(g[i - 1], log[i], filter)
  BY <1>5, <1>6 DEF IsMatched
<1> DEFINE h == [i \in 0..k |-> IF i = k THEN MatchStep(g[k - 1], log[k], filter)
                                ELSE g[i]]
<1>8. \A i \in 0..k :
          h[i] = IF i = 0 THEN <<>> ELSE MatchStep(h[i - 1], log[i], filter)
  <2> SUFFICES ASSUME NEW i \in 0..k
       PROVE h[i] = IF i = 0 THEN <<>> ELSE MatchStep(h[i - 1], log[i], filter)
    OBVIOUS
  <2>1. CASE i = k
    <3>1. h[i - 1] = g[k - 1]
      BY <1>3, <1>4, <2>1
    <3> QED BY <1>3, <1>4, <2>1, <3>1
  <2>2. CASE i # k
    <3>1. h[i] = g[i] /\ i \in 0..(k-1)
      BY <1>4, <2>2
    <3>2. i # 0 => h[i - 1] = g[i - 1]
      BY <1>4, <2>2
    <3> QED BY <1>7, <3>1, <3>2
  <2> QED BY <2>1, <2>2
<1>9. IsMatched(h, log, filter, k)
  BY <1>8 DEF IsMatched
<1> QED BY <1>4, <1>9

\* Matched takes what it returns from such a list.
LEMMA MatchedIsLast ==
    ASSUME NEW log, NEW filter, NEW n \in Nat, n = Len(log)
    PROVE  \E g : IsMatched(g, log, filter, n) /\ Matched(log, filter) = g[n]
<1> DEFINE f[i \in 0..Len(log)] ==
               IF i = 0 THEN <<>>
               ELSE IF Matches(log[i], filter) THEN Append(f[i - 1], log[i])
               ELSE f[i - 1]
<1>1. \E g : IsMatched(g, log, filter, n)
  BY MatchedExists
<1>2. f = [i \in 0..n |-> IF i = 0 THEN <<>>
                          ELSE MatchStep(f[i - 1], log[i], filter)]
  BY <1>1 DEF IsMatched, MatchStep
<1>3. Matched(log, filter) = f[n]
  BY DEF Matched
<1> HIDE DEF f
<1>4. IsMatched(f, log, filter, n)
  BY <1>2 DEF IsMatched
<1> QED BY <1>3, <1>4

\* The logs a and b agree on their first m events.
AlikeUpTo(a, b, m) == \A i \in 1..m : a[i] = b[i]

\* Two such lists, of logs that begin alike, begin alike.
LEMMA MatchedAlike ==
    ASSUME NEW g, NEW a, NEW m \in Nat, NEW h, NEW b, NEW n \in Nat, NEW filter,
           IsMatched(g, a, filter, m), IsMatched(h, b, filter, n), m <= n,
           AlikeUpTo(a, b, m)
    PROVE  g[m] = h[m]
<1> DEFINE T == {k \in 0..m : g[k] # h[k]}
<1>1. SUFFICES ASSUME T # {} PROVE FALSE
  OBVIOUS
<1>2. PICK k \in T : \A j \in T : k <= j
  <2>1. T \in SUBSET Nat
    OBVIOUS
  <2> HIDE DEF T
  <2> QED BY <1>1, <2>1, LeastNumber
<1>3. /\ g[k] = IF k = 0 THEN <<>> ELSE MatchStep(g[k - 1], a[k], filter)
      /\ h[k] = IF k = 0 THEN <<>> ELSE MatchStep(h[k - 1], b[k], filter)
  BY DEF IsMatched
<1>4. k # 0
  BY <1>3
<1>5. k - 1 \in 0..m /\ ~(k <= k - 1) /\ k \in 1..m
  BY <1>4
<1>6. g[k - 1] = h[k - 1]
  BY <1>2, <1>5
<1>7. g[k] = h[k]
  BY <1>3, <1>5, <1>6 DEF AlikeUpTo
<1> QED BY <1>7

\* What a recorded event adds.
LEMMA MatchedAppend ==
    ASSUME NEW T, NEW log \in Seq(T), NEW e \in T, NEW filter
    PROVE  Matched(Append(log, e), filter)
               = MatchStep(Matched(log, filter), e, filter)
<1>1. PICK b, n : b = Append(log, e) /\ n = Len(log)
  OBVIOUS
<1>2. /\ n \in Nat /\ n + 1 \in Nat /\ Len(b) = n + 1 /\ b[n + 1] = e
      /\ AlikeUpTo(log, b, n) /\ n <= n + 1
  BY <1>1 DEF AlikeUpTo
<1>3. PICK g : IsMatched(g, log, filter, n) /\ Matched(log, filter) = g[n]
  BY <1>1, <1>2, MatchedIsLast
<1>4. PICK h : IsMatched(h, b, filter, n + 1) /\ Matched(b, filter) = h[n + 1]
  BY <1>2, MatchedIsLast
<1>5. g[n] = h[n]
  BY <1>2, <1>3, <1>4, MatchedAlike
<1>6. h[n + 1] = MatchStep(h[n], b[n + 1], filter)
  BY <1>2, <1>4 DEF IsMatched
<1> QED BY <1>1, <1>2, <1>3, <1>4, <1>5, <1>6

\* What matches are events of the log.
LEMMA MatchedType ==
    ASSUME NEW T, NEW log \in Seq(T), NEW filter
    PROVE  Matched(log, filter) \in Seq(T)
<1>1. PICK n \in Nat : n = Len(log)
  OBVIOUS
<1>2. PICK g : IsMatched(g, log, filter, n) /\ Matched(log, filter) = g[n]
  BY <1>1, MatchedIsLast
<1> DEFINE B == {k \in 0..n : g[k] \notin Seq(T)}
<1>3. SUFFICES ASSUME B # {} PROVE FALSE
  BY <1>2
<1>4. PICK k \in B : \A j \in B : k <= j
  <2>1. B \in SUBSET Nat
    OBVIOUS
  <2> HIDE DEF B
  <2> QED BY <1>3, <2>1, LeastNumber
<1>5. g[k] = IF k = 0 THEN <<>> ELSE MatchStep(g[k - 1], log[k], filter)
  BY <1>2 DEF IsMatched
<1>e. <<>> \in Seq(T)
  OBVIOUS
<1>6. k # 0
  BY <1>5, <1>e
<1>7. k - 1 \in 0..n /\ ~(k <= k - 1) /\ log[k] \in T
  BY <1>1, <1>6
<1>8. g[k - 1] \in Seq(T)
  BY <1>4, <1>7
<1>9. g[k] \in Seq(T)
  BY <1>5, <1>6, <1>7, <1>8 DEF MatchStep
<1> QED BY <1>9

\* The page brings a client that has the first n of all events further, unless
\* those are all there are.
Continues(all, n, page) ==
    \E k \in n..Len(all) : /\ SubSeq(all, 1, n) \o page = SubSeq(all, 1, k)
                           /\ page = <<>> => n = Len(all)

\* A page continues where the offset says, with at least one event if there is
\* one.
LEMMA PageContinues ==
    ASSUME NEW T, NEW log \in Seq(T), NEW filter, NEW n \in Nat,
           NEW limit \in Int, NEW all, all = Matched(log, filter),
           NEW page, page = Query(log, filter, n, limit)
    PROVE  /\ page \in Seq(T)
           /\ n <= Len(all) => Continues(all, n, page)
<1>1. all \in Seq(T) /\ Len(all) \in Nat
  BY MatchedType
<1>2. PICK rest : rest = SubSeq(all, n + 1, Len(all))
  OBVIOUS
<1>3. page = IF limit > 0 /\ limit < Len(rest) THEN SubSeq(rest, 1, limit)
             ELSE rest
  <2>1. PICK r : r = IF n > 0 THEN SubSeq(all, n + 1, Len(all)) ELSE all
    OBVIOUS
  <2>2. page = IF limit > 0 /\ limit < Len(r) THEN SubSeq(r, 1, limit) ELSE r
    BY <2>1 DEF Query
  <2>3. n = 0 => r = SubSeq(all, 1, Len(all)) /\ n + 1 = 1
    BY <1>1, <2>1, SubSeqFull
  <2>4. n = 0 \/ n > 0
    OBVIOUS
  <2>5. r = rest
    BY <1>2, <2>1, <2>3, <2>4
  <2> QED BY <2>2, <2>5
<1>4. \A i \in (n + 1)..Len(all) : all[i] \in T
  BY <1>1
<1>5. /\ rest \in Seq(T)
      /\ Len(rest) = IF n + 1 <= Len(all) THEN Len(all) - n ELSE 0
  BY <1>1, <1>2, <1>4, SubSeqProperties
<1>6. page \in Seq(T)
  BY <1>3, <1>5, SubSeqFull
<1>7. ASSUME n <= Len(all)
      PROVE  Continues(all, n, page)
  <2>1. CASE limit > 0 /\ limit < Len(rest)
    <3>1. page = SubSeq(all, n + 1, n + limit)
      <4>1. page = SubSeq(SubSeq(all, n + 1, Len(all)), 1, limit)
        BY <1>2, <1>3, <2>1
      <4>2. /\ n + 1 \in 1..Len(all) /\ Len(all) \in 1..Len(all)
            /\ 1 \in 1..(Len(all) - (n + 1) + 1)
            /\ limit \in 1..(Len(all) - (n + 1) + 1)
        BY <1>1, <1>5, <1>7, <2>1
      <4>3. SubSeq(SubSeq(all, n + 1, Len(all)), 1, limit)
              = SubSeq(all, (n + 1) + 1 - 1, (n + 1) + limit - 1)
        BY <1>1, <4>2, SubSeqOfSubSeq
      <4>4. (n + 1) + 1 - 1 = n + 1 /\ (n + 1) + limit - 1 = n + limit
        OBVIOUS
      <4> QED BY <4>1, <4>3, <4>4
    <3>2. n + limit \in n..Len(all) /\ n + 1 <= n + limit
      BY <1>1, <1>5, <1>7, <2>1
    <3>3. SubSeq(all, 1, n) \o SubSeq(all, n + 1, n + limit)
            = SubSeq(all, 1, n + limit)
      BY <1>1, <1>7, <3>2, ConcatAdjacentSubSeq
    <3>4. page # <<>>
      <4>1. Len(page) = limit
        <5>1. \A i \in (n + 1)..(n + limit) : all[i] \in T
          BY <1>1, <3>2
        <5>2. Len(SubSeq(all, n + 1, n + limit)) = n + limit - (n + 1) + 1
          BY <3>2, <5>1, SubSeqProperties
        <5> QED BY <3>1, <5>2
      <4> QED BY <2>1, <4>1
    <3> QED BY <3>1, <3>2, <3>3, <3>4 DEF Continues
  <2>2. CASE ~(limit > 0 /\ limit < Len(rest))
    <3>1. page = SubSeq(all, n + 1, Len(all))
      BY <1>2, <1>3, <2>2
    <3>2. SubSeq(all, 1, n) \o SubSeq(all, n + 1, Len(all))
            = SubSeq(all, 1, Len(all))
      <4>1. 1 \in 1..(Len(all) + 1) /\ n \in (1 - 1)..Len(all)
            /\ Len(all) \in n..Len(all)
        BY <1>1, <1>7
      <4> QED BY <1>1, <4>1, ConcatAdjacentSubSeq
    <3>3. page = <<>> => n = Len(all)
      <4>1. page = rest
        BY <1>2, <3>1
      <4>2. page = <<>> => Len(page) = 0
        OBVIOUS
      <4> QED BY <1>1, <1>5, <1>7, <4>1, <4>2
    <3>4. Len(all) \in n..Len(all)
      BY <1>1, <1>7
    <3> QED BY <3>1, <3>2, <3>3, <3>4 DEF Continues
  <2> QED BY <2>1, <2>2
<1> QED BY <1>6, <1>7

\* A client in the middle of its pages.
PagerRight(c, log) ==
    LET all == Matched(log, c.filter)
    IN ~c.cleared => /\ c.known <= Len(all)
                     /\ Len(c.got) <= Len(all)
                     /\ c.got = SubSeq(all, 1, Len(c.got))
                     /\ c.over => Len(c.got) >= c.known
                     /\ ~c.stalled

\* The clients, for a set of events.
Pager(Event) == [filter : EventFilters, got : Seq(Event), known : Nat,
                 cleared : BOOLEAN, over : BOOLEAN, stalled : BOOLEAN]

\* The inductive invariant: a client also knows of no more than there is.
PagesInv ==
    LET Event == [id : Nat, simulator : Simulators, time : Int]
    IN /\ IsMap(pagers, Pagers, Pager(Event))
       /\ \A p \in DOMAIN pagers : PagerRight(pagers[p], events)

\* An event that is recorded leaves what a client has in place.
LEMMA PagerRecord ==
    ASSUME NEW Event, NEW log \in Seq(Event), NEW e \in Event,
           NEW c \in Pager(Event), PagerRight(c, log)
    PROVE  PagerRight(c, Append(log, e))
<1>1. PICK f, all, more : /\ f = c.filter /\ all = Matched(log, f)
                          /\ more = Matched(Append(log, e), f)
  OBVIOUS
<1>2. all \in Seq(Event)
  BY <1>1, MatchedType
<1>3. more = all \/ more = Append(all, e)
  BY <1>1, MatchedAppend DEF MatchStep
<1>4. SUFFICES ASSUME ~c.cleared
               PROVE  /\ c.known <= Len(more) /\ Len(c.got) <= Len(more)
                      /\ c.got = SubSeq(more, 1, Len(c.got))
                      /\ c.over => Len(c.got) >= c.known
                      /\ ~c.stalled
  BY <1>1 DEF PagerRight
<1>5. /\ c.known <= Len(all) /\ Len(c.got) <= Len(all)
      /\ c.got = SubSeq(all, 1, Len(c.got))
      /\ c.over => Len(c.got) >= c.known
      /\ ~c.stalled
  BY <1>1, <1>4 DEF PagerRight
<1>6. c.known \in Nat /\ c.got \in Seq(Event)
  BY DEF Pager
<1>7. CASE more = Append(all, e)
  <2>1. PICK n \in Nat : n = Len(c.got)
    BY <1>6
  <2>2. Len(more) = Len(all) + 1 /\ Len(all) \in Nat
    BY <1>2, <1>7
  <2>3. SubSeq(more, 1, n) = SubSeq(all, 1, n)
    BY <1>2, <1>5, <1>7, <2>1
  <2> QED BY <1>5, <1>6, <2>1, <2>2, <2>3
<1> QED BY <1>3, <1>5, <1>7

\* What a page makes of a client.
WithPage(c, log, limit) ==
    LET page == Query(log, c.filter, Len(c.got), limit)
        over == Len(c.got \o page) >= Len(Matched(log, c.filter))
    IN [c EXCEPT !.got = @ \o page, !.over = over,
                 !.stalled = page = <<>> /\ ~over]

\* A page keeps a client right.
LEMMA PagerGets ==
    ASSUME NEW Event, NEW log \in Seq(Event), NEW c \in Pager(Event),
           PagerRight(c, log), NEW limit \in Int
    PROVE  /\ WithPage(c, log, limit) \in Pager(Event)
           /\ PagerRight(WithPage(c, log, limit), log)
<1>p. PICK page : page = Query(log, c.filter, Len(c.got), limit)
  OBVIOUS
<1>o. PICK over : over = (Len(c.got \o page) >= Len(Matched(log, c.filter)))
  OBVIOUS
<1>d. PICK d : d = [c EXCEPT !.got = @ \o page, !.over = over,
                             !.stalled = page = <<>> /\ ~over]
  OBVIOUS
<1>w. d = WithPage(c, log, limit)
  BY <1>p, <1>o, <1>d DEF WithPage
<1>1. PICK f, all, n : f = c.filter /\ all = Matched(log, f) /\ n = Len(c.got)
  OBVIOUS
<1>2. all \in Seq(Event) /\ Len(all) \in Nat
  BY <1>1, MatchedType
<1>3. c.known \in Nat /\ c.got \in Seq(Event) /\ n \in Nat
  BY <1>1 DEF Pager
<1>4. page \in Seq(Event) /\ (n <= Len(all) => Continues(all, n, page))
  <2>1. page = Query(log, f, n, limit) /\ all = Matched(log, f)
    BY <1>1, <1>p
  <2> QED BY <1>3, <2>1, PageContinues
<1>5. c.got \o page \in Seq(Event) /\ over \in BOOLEAN
  BY <1>3, <1>4, <1>o
<1>6. /\ d.got = c.got \o page /\ d.over = over /\ d.filter = f
      /\ d.stalled = (page = <<>> /\ ~over)
      /\ d.known = c.known /\ d.cleared = c.cleared
  BY <1>1, <1>d DEF Pager
<1>7. d \in Pager(Event)
  BY <1>5, <1>d DEF Pager
<1>8. ASSUME ~c.cleared
      PROVE  /\ d.known <= Len(all) /\ Len(d.got) <= Len(all)
             /\ d.got = SubSeq(all, 1, Len(d.got))
             /\ d.over => Len(d.got) >= d.known
             /\ ~d.stalled
  <2>1. /\ c.known <= Len(all) /\ n <= Len(all) /\ c.got = SubSeq(all, 1, n)
    BY <1>1, <1>8 DEF PagerRight
  <2>2. PICK k \in n..Len(all) : /\ c.got \o page = SubSeq(all, 1, k)
                                 /\ page = <<>> => n = Len(all)
    BY <1>4, <2>1 DEF Continues
  <2>3. Len(c.got \o page) = k
    <3>1. \A i \in 1..k : all[i] \in Event
      BY <1>2
    <3> QED BY <1>3, <2>2, <3>1, SubSeqProperties
  <2>4. over = (k >= Len(all))
    BY <1>1, <1>o, <2>3
  <2>5. page = <<>> => k = n
    BY <1>1, <1>3, <2>3
  <2>6. (over => k >= Len(all)) /\ (k >= Len(all) => over)
    BY <2>4, Zenon
  <2>9. d.stalled => page = <<>> /\ ~over
    BY <1>6, Zenon
  <2>10. page = <<>> => k >= Len(all)
    BY <1>2, <2>2, <2>5
  <2>11. ~d.stalled
    BY <2>6, <2>9, <2>10
  <2>7. Len(d.got) = k /\ d.got = SubSeq(all, 1, k)
    BY <1>6, <2>2, <2>3
  <2>8. over => k >= c.known
    BY <1>2, <1>3, <2>1, <2>2, <2>6
  <2> QED BY <1>2, <1>3, <1>6, <2>1, <2>2, <2>7, <2>8, <2>11
<1>9. PagerRight(d, log)
  BY <1>1, <1>6, <1>8 DEF PagerRight
<1> QED BY <1>7, <1>9, <1>w

\* What every step does to the clients that page.
LEMMA PagesStep ==
    ASSUME EventsTyped, LogOrdered, PagesInv, [EventNext]_eventVars
    PROVE  PagesInv'
<1> DEFINE Event == [id : Nat, simulator : Simulators, time : Int]
           P == Pager(Event)
<1>t. /\ IsMap(pagers, Pagers, P) /\ events \in Seq(Event)
      /\ \A p \in DOMAIN pagers : /\ pagers[p] \in P
                                  /\ PagerRight(pagers[p], events)
  <2>1. IsMap(pagers, Pagers, P)
    BY DEF PagesInv
  <2> HIDE DEF P
  <2> QED BY <2>1, MapValue DEF PagesInv, EventsTyped
<1>i. IsMap(pagers', Pagers, P)
          /\ (\A p \in DOMAIN pagers' : PagerRight(pagers'[p], events'))
      => PagesInv'
  BY DEF PagesInv
<1>e. \A id \in Nat, sim \in Simulators : \A time \in Int :
          [id |-> id, simulator |-> sim, time |-> time] \in Event
  OBVIOUS
<1>c. \A c \in P : [c EXCEPT !.cleared = TRUE] \in P
          /\ PagerRight([c EXCEPT !.cleared = TRUE], <<>>)
  <2> SUFFICES ASSUME NEW c \in P
               PROVE  /\ [c EXCEPT !.cleared = TRUE] \in P
                      /\ PagerRight([c EXCEPT !.cleared = TRUE], <<>>)
    OBVIOUS
  <2>1. [c EXCEPT !.cleared = TRUE].cleared /\ [c EXCEPT !.cleared = TRUE] \in P
    BY DEF Pager
  <2> QED BY <2>1 DEF PagerRight
<1> HIDE DEF Event, P
<1>1. ASSUME NEW sim \in Simulators, Record(sim) PROVE PagesInv'
  <2>1. PICK e : e = [id |-> eventCounter + 1, simulator |-> sim, time |-> clock]
    OBVIOUS
  <2>2. eventCounter + 1 \in Nat /\ clock \in Int
    BY DEF LogOrdered, EventsTyped
  <2>3. e \in Event
    BY <1>e, <2>1, <2>2
  <2>4. events' = Append(events, e) /\ UNCHANGED pagers
    BY <1>1, <2>1 DEF Record
  <2>5. ASSUME NEW p \in DOMAIN pagers
        PROVE  PagerRight(pagers[p], Append(events, e))
    BY <1>t, <2>3, PagerRecord DEF P
  <2> QED BY <1>i, <1>t, <2>4, <2>5
<1>2. CASE Clear
  <2>1. /\ events' = <<>> /\ DOMAIN pagers' = DOMAIN pagers
        /\ \A p \in DOMAIN pagers :
              pagers'[p] = [pagers[p] EXCEPT !.cleared = TRUE]
    BY <1>2 DEF Clear
  <2>2. \A p \in DOMAIN pagers : /\ pagers'[p] \in P
                                 /\ PagerRight(pagers'[p], <<>>)
    BY <1>c, <1>t, <2>1
  <2>3. IsMap(pagers', Pagers, P)
    <3>1. pagers' = [p \in DOMAIN pagers |-> pagers'[p]]
      BY <1>2 DEF Clear
    <3> QED BY <1>t, <2>2, <3>1 DEF IsMap
  <2> QED BY <1>i, <2>1, <2>2, <2>3
<1>3. CASE UNCHANGED <<events, pagers>>
  BY <1>i, <1>t, <1>3
<1>4. ASSUME NEW p \in Pagers, NEW filter \in EventFilters, PageBegin(p, filter)
      PROVE  PagesInv'
  <2>1. PICK c : c = [filter |-> filter, got |-> <<>>,
                      known |-> Len(Matched(events, filter)),
                      cleared |-> FALSE, over |-> FALSE, stalled |-> FALSE]
    OBVIOUS
  <2>2. PICK all : all = Matched(events, filter)
    OBVIOUS
  <2>3. all \in Seq(Event) /\ Len(all) \in Nat
    BY <1>t, <2>2, MatchedType
  <2>4. <<>> \in Seq(Event) /\ SubSeq(all, 1, 0) = <<>> /\ Len(<<>>) = 0
    BY <2>3, SubSeqEmpty
  <2>5. c \in P
    BY <2>1, <2>2, <2>3, <2>4 DEF P, Pager
  <2>6. PagerRight(c, events)
    <3>1. /\ c.filter = filter /\ c.got = <<>> /\ c.known = Len(all)
          /\ ~c.over /\ ~c.stalled
      BY <2>1, <2>2
    <3> QED BY <2>2, <2>3, <2>4, <3>1 DEF PagerRight
  <2>7. pagers' = Put(pagers, p, c) /\ UNCHANGED events
    BY <1>4, <2>1 DEF PageBegin
  <2>8. /\ IsMap(pagers', Pagers, P) /\ DOMAIN pagers' = DOMAIN pagers \cup {p}
        /\ pagers'[p] = c /\ \A q \in DOMAIN pagers : q # p => pagers'[q] = pagers[q]
    BY <1>t, <2>5, <2>7 DEF IsMap, Put
  <2> QED BY <1>i, <1>t, <2>6, <2>7, <2>8
<1>5. ASSUME NEW p \in Pagers, NEW limit \in PageSizes, GetEvents(p, limit)
      PROVE  PagesInv'
  <2>1. PICK c : c = pagers[p]
    OBVIOUS
  <2>2. PICK page : page = Query(events, c.filter, Len(c.got), limit)
    OBVIOUS
  <2>3. PICK over : over = (Len(c.got \o page) >= Len(Matched(events, c.filter)))
    OBVIOUS
  <2>4. PICK d : d = [c EXCEPT !.got = @ \o page, !.over = over,
                               !.stalled = page = <<>> /\ ~over]
    OBVIOUS
  <2>5. /\ p \in DOMAIN pagers /\ UNCHANGED events
        /\ pagers' = [pagers EXCEPT
              ![p].got = @ \o page, ![p].over = over,
              ![p].stalled = page = <<>> /\ ~over]
    BY <1>5, <2>1, <2>2, <2>3 DEF GetEvents
  <2>6. pagers' = [pagers EXCEPT ![p] = d]
    BY <1>t, <2>1, <2>4, <2>5 DEF IsMap, P, Pager
  <2>7. limit \in Int
    BY EventAssumption
  <2>8. c \in Pager(Event) /\ PagerRight(c, events)
    BY <1>t, <2>1, <2>5 DEF P
  <2>9. d \in Pager(Event) /\ PagerRight(d, events)
    <3>1. d = WithPage(c, events, limit)
      BY <2>2, <2>3, <2>4 DEF WithPage
    <3> QED BY <1>t, <2>7, <2>8, <3>1, PagerGets
  <2>10. IsMap(pagers', Pagers, P)
    BY <1>t, <2>6, <2>9 DEF IsMap, P
  <2>11. ASSUME NEW q \in DOMAIN pagers' PROVE PagerRight(pagers'[q], events')
    BY <1>t, <2>5, <2>6, <2>9 DEF IsMap
  <2> QED BY <1>i, <2>10, <2>11
<1>6. ASSUME NEW p \in Pagers, PageEnd(p) PROVE PagesInv'
  <2>1. pagers' = Drop(pagers, p) /\ UNCHANGED events
    BY <1>6 DEF PageEnd
  <2>2. /\ IsMap(pagers', Pagers, P) /\ DOMAIN pagers' = DOMAIN pagers \ {p}
        /\ \A q \in DOMAIN pagers \ {p} : pagers'[q] = pagers[q]
    BY <1>t, <2>1 DEF IsMap, Drop, Restrict
  <2> QED BY <1>i, <1>t, <2>1, <2>2
<1> QED BY <1>1, <1>2, <1>3, <1>4, <1>5, <1>6
        DEF EventNext, EventTick, eventVars

\* A client that pages through the log (getEvents with the offset set to what
\* it has) gets the matching events in order, each once, never an empty page
\* before the end, and all that were there when it began.
THEOREM PagesSafe == EventSpec => []PagesComplete
<1>1. EventInit => PagesInv
  BY EmptyIsMap DEF EventInit, PagesInv
<1>2. EventsTyped /\ LogOrdered /\ PagesInv /\ [EventNext]_eventVars
          => PagesInv'
  BY PagesStep
<1>3. PagesInv => PagesComplete
  <2> SUFFICES ASSUME PagesInv, NEW p \in DOMAIN pagers,
                      ~pagers[p].cleared
               PROVE  LET c == pagers[p]
                          all == Matched(events, c.filter)
                      IN /\ Len(c.got) <= Len(all)
                         /\ c.got = SubSeq(all, 1, Len(c.got))
                         /\ c.over => Len(c.got) >= c.known
                         /\ ~c.stalled
    BY DEF PagesComplete
  <2>1. PagerRight(pagers[p], events)
    BY DEF PagesInv
  <2> QED BY <2>1 DEF PagerRight
<1> QED BY <1>1, <1>2, <1>3, EventsSafe, PTL DEF EventSpec

-----------------------------------------------------------------------------
(***************************************************************************)
(* netbox-sim.  A load that no reset has overtaken knows the numbers of    *)
(* what it has added, no row is ever overwritten, and what a row refers to *)
(* was added by the same load.                                             *)
(***************************************************************************)
\* The four tables as one function, so that the four Add calls are one step.
Tables == [k \in Kinds |-> Table(k)]

\* Rows stand under their own numbers, below the counters.
NetboxTyped(tb, nid) ==
    /\ nid \in [Kinds -> Nat \ {0}]
    /\ \A k \in Kinds : /\ IsMap(tb[k], Nat, Row)
                        /\ \A id \in DOMAIN tb[k] : /\ tb[k][id].id = id
                                                    /\ id < nid[k]

\* The number a load has for the part at n.
Ref(ids, n) == IF n = 0 THEN 0 ELSE ids[n]

\* The row that part n of load l has become.
RowOfPart(row, l, n, ids) ==
    LET p == Requests[l][n]
    IN /\ row.name = <<l, n>> /\ row.current
       /\ row.site = Ref(ids, p.site)
       /\ row.location = Ref(ids, p.location)

\* Part n of load l is in the store, under the number the load has for it.
Added(tb, l, n, ids) ==
    LET k == Requests[l][n].kind
    IN ids[n] \in DOMAIN tb[k] /\ RowOfPart(tb[k][ids[n]], l, n, ids)

\* A row stands where its request has put it, and so does what it refers to:
\* the location and the rack are in the same site, and of the same load.
RowPlaced(tb, k, row) ==
    LET l == row.name[1]
        p == PartOf(row.name)
    IN /\ l \in Loads /\ row.name[2] \in 1..Len(Requests[l]) /\ p.kind = k
       /\ LeadsTo(tb["site"], row.site, l, p.site)
       /\ LeadsTo(tb["location"], row.location, l, p.location)
       /\ LeadsTo(tb["rack"], row.rack, l, p.rack)
       /\ p.location # 0 => /\ tb["location"][row.location].site = row.site
                            /\ tb["location"][row.location].current
       /\ p.rack # 0 => tb["rack"][row.rack].site = row.site

\* Every row that no reset has overtaken stands where its request has put it.
StorePlaced(tb) ==
    \A k \in Kinds : \A id \in DOMAIN tb[k] :
        tb[k][id].current => RowPlaced(tb, k, tb[k][id])

\* The tables have grown.
Grown(tb, tb2) ==
    \A k \in Kinds : \A id \in DOMAIN tb[k] : /\ id \in DOMAIN tb2[k]
                                              /\ tb2[k][id] = tb[k][id]

\* What is known of a request: its parts, and what they are nested in.
LEMMA PartsNested ==
    ASSUME NEW l \in Loads, NEW n \in 1..Len(Requests[l]), NEW p,
           p = Requests[l][n]
    PROVE  /\ Requests[l] \in Seq(Part) /\ p \in Part
           /\ p.site \in 0..(n - 1) /\ p.location \in 0..(n - 1)
           /\ p.rack \in 0..(n - 1)
           /\ p.kind = "site" <=> p.site = 0
           /\ p.kind \in {"rack", "device"} => p.location # 0
           /\ p.kind = "device" <=> p.rack # 0
           /\ p.site # 0 => Requests[l][p.site].kind = "site"
           /\ p.location # 0 => /\ Requests[l][p.location].kind = "location"
                                /\ Requests[l][p.location].site = p.site
           /\ p.rack # 0 => /\ Requests[l][p.rack].kind = "rack"
                            /\ Requests[l][p.rack].site = p.site
                            /\ Requests[l][p.rack].location = p.location
<1>1. Requests[l] \in Seq(Part) /\ WellNested(Requests[l])
  BY NetboxAssumption
<1>2. p \in Part
  BY <1>1
<1>3. p.site \in Nat /\ p.location \in Nat /\ p.rack \in Nat
  BY <1>2 DEF Part
<1>4. /\ p.site < n /\ p.location < n /\ p.rack < n
      /\ p.kind = "site" <=> p.site = 0
      /\ p.kind \in {"rack", "device"} => p.location # 0
      /\ p.kind = "device" <=> p.rack # 0
      /\ p.site # 0 => Requests[l][p.site].kind = "site"
      /\ p.location # 0 => /\ Requests[l][p.location].kind = "location"
                           /\ Requests[l][p.location].site = p.site
      /\ p.rack # 0 => /\ Requests[l][p.rack].kind = "rack"
                       /\ Requests[l][p.rack].site = p.site
                       /\ Requests[l][p.rack].location = p.location
  BY <1>1 DEF WellNested
<1>5. n \in Nat
  BY <1>1
<1>6. /\ p.site \in 0..(n - 1) /\ p.location \in 0..(n - 1)
      /\ p.rack \in 0..(n - 1)
  BY <1>3, <1>4, <1>5
<1> QED BY <1>1, <1>2, <1>4, <1>6

\* What leads to a part still does when the tables have grown.
LEMMA LeadsOn ==
    ASSUME NEW tb, NEW tb2, Grown(tb, tb2), NEW k \in Kinds, NEW id, NEW l, NEW n,
           LeadsTo(tb[k], id, l, n)
    PROVE  LeadsTo(tb2[k], id, l, n)
  BY DEF LeadsTo, Grown

\* A row that stands right still does.
LEMMA PlacedOn ==
    ASSUME NEW tb, NEW tb2, Grown(tb, tb2), NEW k \in Kinds, NEW row,
           RowPlaced(tb, k, row)
    PROVE  RowPlaced(tb2, k, row)
<1>1. PICK l, p : l = row.name[1] /\ p = PartOf(row.name)
  OBVIOUS
<1>2. /\ l \in Loads /\ row.name[2] \in 1..Len(Requests[l]) /\ p.kind = k
      /\ LeadsTo(tb["site"], row.site, l, p.site)
      /\ LeadsTo(tb["location"], row.location, l, p.location)
      /\ LeadsTo(tb["rack"], row.rack, l, p.rack)
      /\ p.location # 0 => /\ tb["location"][row.location].site = row.site
                           /\ tb["location"][row.location].current
      /\ p.rack # 0 => tb["rack"][row.rack].site = row.site
  BY <1>1 DEF RowPlaced
<1>3. "site" \in Kinds /\ "location" \in Kinds /\ "rack" \in Kinds
  BY DEF Kinds
<1>4. /\ LeadsTo(tb2["site"], row.site, l, p.site)
      /\ LeadsTo(tb2["location"], row.location, l, p.location)
      /\ LeadsTo(tb2["rack"], row.rack, l, p.rack)
  BY <1>2, <1>3, LeadsOn
<1>5. /\ p.location # 0 =>
            tb2["location"][row.location] = tb["location"][row.location]
      /\ p.rack # 0 => tb2["rack"][row.rack] = tb["rack"][row.rack]
  BY <1>2, <1>3 DEF LeadsTo, Grown
<1> QED BY <1>1, <1>2, <1>4, <1>5 DEF RowPlaced

\* What a load has added stays.
LEMMA AddedOn ==
    ASSUME NEW tb, NEW tb2, Grown(tb, tb2), NEW l \in Loads, NEW ids,
           NEW n \in 1..Len(Requests[l]), Added(tb, l, n, ids)
    PROVE  Added(tb2, l, n, ids)
<1>1. PICK k, id : k = Requests[l][n].kind /\ id = ids[n]
  OBVIOUS
<1>2. k \in Kinds
  BY <1>1, PartsNested DEF Part
<1>3. id \in DOMAIN tb[k] /\ RowOfPart(tb[k][id], l, n, ids)
  BY <1>1 DEF Added
<1>4. id \in DOMAIN tb2[k] /\ tb2[k][id] = tb[k][id]
  BY <1>2, <1>3 DEF Grown
<1> QED BY <1>1, <1>3, <1>4 DEF Added

\* The row that the next part of load l becomes.
RowFor(l, ids, current, nid) ==
    LET n == Len(ids) + 1
        p == Requests[l][n]
    IN [id |-> nid[p.kind], name |-> <<l, n>>, site |-> Ref(ids, p.site),
        location |-> Ref(ids, p.location), rack |-> Ref(ids, p.rack),
        role |-> IF p.kind = "device" /\ p.role = NoRole THEN "server"
                 ELSE p.role,
        current |-> current]

\* The tables with one more row.
WithRow(tb, k, row) == [tb EXCEPT ![k] = Put(@, row.id, row)]

\* The counters when a number was handed out.
Taken(nid, k) == [nid EXCEPT ![k] = @ + 1]

\* A load that is not done with its request.
Underway(l, ids) ==
    /\ l \in Loads /\ ids \in Seq(Nat) /\ Len(ids) + 1 <= Len(Requests[l])

\* What it adds next.
LEMMA NextRow ==
    ASSUME NEW l, NEW ids, Underway(l, ids), NEW current \in BOOLEAN,
           NEW nid \in [Kinds -> Nat \ {0}], NEW n, n = Len(ids) + 1,
           NEW p, p = Requests[l][n], NEW row, row = RowFor(l, ids, current, nid)
    PROVE  /\ l \in Loads /\ n \in 1..Len(Requests[l]) /\ n - 1 = Len(ids)
           /\ p.kind \in Kinds /\ row \in Row
           /\ row.id = nid[p.kind] /\ row.name = <<l, n>>
           /\ row.current = current /\ row.site = Ref(ids, p.site)
           /\ row.location = Ref(ids, p.location)
           /\ row.rack = Ref(ids, p.rack)
<1>1. /\ l \in Loads /\ ids \in Seq(Nat) /\ Len(ids) + 1 <= Len(Requests[l])
      /\ Len(Requests[l]) \in Nat
  BY NetboxAssumption DEF Underway
<1>2. n \in 1..Len(Requests[l]) /\ n - 1 = Len(ids)
  BY <1>1
<1>3. /\ p \in Part /\ p.site \in 0..(n - 1) /\ p.location \in 0..(n - 1)
      /\ p.rack \in 0..(n - 1)
  BY <1>1, <1>2, PartsNested
<1>4. p.kind \in Kinds /\ p.role \in Roles
  BY <1>3 DEF Part
<1>5. \A m \in 0..(n - 1) : Ref(ids, m) \in Nat
  BY <1>1, <1>2 DEF Ref
<1>6. nid[p.kind] \in Nat \ {0}
  BY <1>4
<1>7. <<l, n>> \in Names
  BY <1>1, <1>2 DEF Names
<1>8. PICK role : role = IF p.kind = "device" /\ p.role = NoRole THEN "server"
                         ELSE p.role
  OBVIOUS
<1>9. role \in Roles
  BY <1>4, <1>8 DEF Roles
<1>10. row = [id |-> nid[p.kind], name |-> <<l, n>>, site |-> Ref(ids, p.site),
              location |-> Ref(ids, p.location), rack |-> Ref(ids, p.rack),
              role |-> role, current |-> current]
  BY <1>8 DEF RowFor
<1>11. /\ Ref(ids, p.site) \in Nat /\ Ref(ids, p.location) \in Nat
       /\ Ref(ids, p.rack) \in Nat
  BY <1>3, <1>5
<1>12. row \in Row
  BY <1>6, <1>7, <1>9, <1>10, <1>11 DEF Row
<1> QED BY <1>1, <1>2, <1>4, <1>10, <1>12

\* A row under a number that is not taken yet.
LEMMA RowAdded ==
    ASSUME NEW tb, DOMAIN tb = Kinds, NEW nid, NetboxTyped(tb, nid),
           NEW k \in Kinds, NEW row \in Row, row.id = nid[k]
    PROVE  /\ row.id \notin DOMAIN tb[k]
           /\ Grown(tb, WithRow(tb, k, row))
           /\ WithRow(tb, k, row)[k] = Put(tb[k], row.id, row)
           /\ \A j \in Kinds : j # k => WithRow(tb, k, row)[j] = tb[j]
           /\ NetboxTyped(WithRow(tb, k, row), Taken(nid, k))
<1>1. PICK tb2, nid2 : /\ tb2 = WithRow(tb, k, row)
                       /\ nid2 = Taken(nid, k)
  OBVIOUS
<1>2. /\ nid \in [Kinds -> Nat \ {0}] /\ nid[k] \in Nat \ {0}
      /\ \A j \in Kinds : /\ IsMap(tb[j], Nat, Row)
                          /\ \A id \in DOMAIN tb[j] : tb[j][id].id = id
                                                      /\ id < nid[j]
  BY DEF NetboxTyped
<1>3. row.id \notin DOMAIN tb[k]
  BY <1>2
<1>4. /\ tb2[k] = Put(tb[k], row.id, row)
      /\ \A j \in Kinds : j # k => tb2[j] = tb[j]
  BY <1>1 DEF WithRow
<1>5. /\ DOMAIN tb2[k] = DOMAIN tb[k] \cup {row.id} /\ tb2[k][row.id] = row
      /\ \A id \in DOMAIN tb[k] : tb2[k][id] = tb[k][id]
      /\ IsMap(tb2[k], Nat, Row)
  BY <1>2, <1>3, <1>4 DEF Put, IsMap
<1>6. Grown(tb, tb2)
  BY <1>4, <1>5 DEF Grown
<1>7. /\ nid2 \in [Kinds -> Nat \ {0}] /\ nid2[k] = nid[k] + 1
      /\ \A j \in Kinds : j # k => nid2[j] = nid[j]
  BY <1>1, <1>2 DEF Taken
<1>8. \A id \in DOMAIN tb[k] : id \in Nat /\ tb[k][id].id = id /\ id < nid[k]
  BY <1>2 DEF IsMap
<1>9. \A id \in DOMAIN tb2[k] : tb2[k][id].id = id /\ id < nid2[k]
  BY <1>2, <1>5, <1>7, <1>8
<1>10. NetboxTyped(tb2, nid2)
  BY <1>2, <1>4, <1>5, <1>7, <1>9 DEF NetboxTyped
<1> QED BY <1>1, <1>3, <1>4, <1>6, <1>10

\* A name and its parts.
LEMMA NameParts ==
    ASSUME NEW l, NEW n
    PROVE  <<l, n>>[1] = l /\ <<l, n>>[2] = n /\ PartOf(<<l, n>>) = Requests[l][n]
  BY DEF PartOf

\* The references of the row of a load that no reset has overtaken lead where
\* the request says.
LEMMA RowStands ==
    ASSUME NEW tb, NEW l, NEW ids, Underway(l, ids),
           NEW nid \in [Kinds -> Nat \ {0}], NEW current \in BOOLEAN,
           \A m \in 1..Len(ids) : Added(tb, l, m, ids),
           NEW row, row = RowFor(l, ids, current, nid),
           NEW n, n = Len(ids) + 1, NEW p, p = Requests[l][n]
    PROVE  RowPlaced(tb, p.kind, row)
<1>1. /\ l \in Loads /\ n \in 1..Len(Requests[l]) /\ n - 1 = Len(ids)
      /\ row.name = <<l, n>> /\ row.site = Ref(ids, p.site)
      /\ row.location = Ref(ids, p.location) /\ row.rack = Ref(ids, p.rack)
  BY NextRow
<1>2. PartOf(row.name) = p /\ row.name[1] = l /\ row.name[2] = n
  BY <1>1, NameParts
<1>3. /\ p.site \in 0..(n - 1) /\ p.location \in 0..(n - 1)
      /\ p.rack \in 0..(n - 1)
      /\ p.site # 0 => Requests[l][p.site].kind = "site"
      /\ p.location # 0 => /\ Requests[l][p.location].kind = "location"
                           /\ Requests[l][p.location].site = p.site
      /\ p.rack # 0 => /\ Requests[l][p.rack].kind = "rack"
                       /\ Requests[l][p.rack].site = p.site
  BY <1>1, PartsNested, SMTT(30)
<1>4. ASSUME NEW m \in 0..(n - 1), NEW k, m # 0 => Requests[l][m].kind = k
      PROVE  /\ LeadsTo(tb[k], Ref(ids, m), l, m)
             /\ m # 0 => /\ tb[k][Ref(ids, m)].site
                                = Ref(ids, Requests[l][m].site)
                         /\ tb[k][Ref(ids, m)].current
  <2>1. CASE m = 0
    BY <2>1 DEF LeadsTo, Ref
  <2>2. CASE m # 0
    <3>1. m \in 1..Len(ids)
      BY <1>1, <2>2
    <3>2. ids[m] \in DOMAIN tb[k] /\ RowOfPart(tb[k][ids[m]], l, m, ids)
      BY <1>4, <2>2, <3>1 DEF Added
    <3>3. Ref(ids, m) = ids[m]
      BY <2>2 DEF Ref
    <3> QED BY <2>2, <3>2, <3>3 DEF LeadsTo, RowOfPart
  <2> QED BY <2>1, <2>2
<1>5. LeadsTo(tb["site"], row.site, l, p.site)
  BY <1>1, <1>3, <1>4
<1>6. /\ LeadsTo(tb["location"], row.location, l, p.location)
      /\ p.location # 0 => /\ tb["location"][row.location].site = row.site
                           /\ tb["location"][row.location].current
  BY <1>1, <1>3, <1>4, SMTT(30)
<1>7. /\ LeadsTo(tb["rack"], row.rack, l, p.rack)
      /\ p.rack # 0 => tb["rack"][row.rack].site = row.site
  BY <1>1, <1>3, <1>4
<1> QED BY <1>1, <1>2, <1>5, <1>6, <1>7 DEF RowPlaced

\* What a load has added, the new row included.
LEMMA LoadGoesOn ==
    ASSUME NEW tb, NEW tb2, Grown(tb, tb2), NEW l, NEW ids, Underway(l, ids),
           NEW nid \in [Kinds -> Nat \ {0}], NEW current \in BOOLEAN,
           \A m \in 1..Len(ids) : Added(tb, l, m, ids),
           NEW row, row = RowFor(l, ids, current, nid), NEW k,
           k = Requests[l][Len(ids) + 1].kind,
           row.id \in DOMAIN tb2[k], tb2[k][row.id] = row, NEW more,
           more = Append(ids, nid[k])
    PROVE  current => \A m \in 1..Len(more) : Added(tb2, l, m, more)
<1>1. PICK n, p : n = Len(ids) + 1 /\ p = Requests[l][n]
  OBVIOUS
<1>2. /\ l \in Loads /\ n \in 1..Len(Requests[l]) /\ n - 1 = Len(ids)
      /\ row.id = nid[p.kind] /\ row.name = <<l, n>> /\ row.current = current
      /\ row.site = Ref(ids, p.site) /\ row.location = Ref(ids, p.location)
      /\ row \in Row
  BY <1>1, NextRow
<1>3. /\ ids \in Seq(Nat) /\ more = Append(ids, row.id) /\ row.id \in Nat
  BY <1>1, <1>2 DEF Underway, Row
<1>4. /\ Len(more) = n /\ more[n] = row.id
      /\ \A m \in 1..(n - 1) : more[m] = ids[m]
  <2>1. PICK x : x = row.id
    OBVIOUS
  <2>2. /\ Len(more) = Len(ids) + 1 /\ more[Len(ids) + 1] = x
        /\ \A m \in 1..Len(ids) : more[m] = ids[m]
    BY <1>3, <2>1, AppendProperties
  <2> QED BY <1>1, <1>2, <2>1, <2>2
<1>a. SUFFICES ASSUME current
               PROVE  \A m \in 1..Len(more) : Added(tb2, l, m, more)
  OBVIOUS
<1>5. \A m \in 0..(n - 1) : Ref(more, m) = Ref(ids, m)
  BY <1>2, <1>4 DEF Ref
<1>6. ASSUME NEW m \in 1..n
      PROVE  /\ Ref(more, Requests[l][m].site) = Ref(ids, Requests[l][m].site)
             /\ Ref(more, Requests[l][m].location)
                    = Ref(ids, Requests[l][m].location)
  <2>1. m \in 1..Len(Requests[l]) /\ 0..(m - 1) \subseteq 0..(n - 1)
    BY <1>2
  <2>2. /\ Requests[l][m].site \in 0..(m - 1)
        /\ Requests[l][m].location \in 0..(m - 1)
    BY <1>2, <2>1, PartsNested
  <2> QED BY <1>5, <2>1, <2>2
<1>7. Added(tb2, l, n, more)
  <2>1. /\ Ref(more, p.site) = Ref(ids, p.site)
        /\ Ref(more, p.location) = Ref(ids, p.location)
    BY <1>1, <1>2, <1>6
  <2>2. row.current
    BY <1>2, <1>a
  <2>3. RowOfPart(row, l, n, more)
    BY <1>1, <1>2, <2>1, <2>2 DEF RowOfPart
  <2>4. k = Requests[l][n].kind
    BY <1>1
  <2> QED BY <1>4, <2>3, <2>4 DEF Added
<1>8. ASSUME NEW m \in 1..(n - 1) PROVE Added(tb2, l, m, more)
  <2>1. m \in 1..n /\ m \in 1..Len(Requests[l]) /\ m \in 1..Len(ids)
    BY <1>2
  <2>2. Added(tb2, l, m, ids)
    BY <1>2, <2>1, AddedOn
  <2> QED BY <1>4, <1>6, <2>1, <2>2 DEF Added, RowOfPart
<1> QED BY <1>2, <1>4, <1>7, <1>8

\* A bulk load in progress.
Load == [ids : Seq(Nat), current : BOOLEAN]

\* A load has not gone past its request; unless a reset has overtaken it, what
\* it has added is there.
LoadRight(tb, l, load) ==
    /\ Len(load.ids) <= Len(Requests[l])
    /\ load.current => \A m \in 1..Len(load.ids) : Added(tb, l, m, load.ids)

\* The inductive invariant.
NetboxInv ==
    /\ NetboxTyped(Tables, nextID)
    /\ IsMap(loads, Loads, Load)
    /\ DOMAIN lists \subseteq Lists
    /\ \A l \in DOMAIN loads : LoadRight(Tables, l, loads[l])
    /\ StorePlaced(Tables)

\* The tables by their names.
LEMMA TablesAre ==
    /\ DOMAIN Tables = Kinds /\ Tables["site"] = sites
    /\ Tables["location"] = locations /\ Tables["rack"] = racks
    /\ Tables["device"] = devices
    /\ \A k \in Kinds : Tables[k] = Table(k)
<1>1. \A k \in Kinds : Tables[k] = Table(k)
  BY DEF Tables
<1>2. DOMAIN Tables = Kinds
  BY DEF Tables
<1>3. /\ "site" \in Kinds /\ "location" \in Kinds /\ "rack" \in Kinds
      /\ "device" \in Kinds
  BY DEF Kinds
<1>4. /\ Table("site") = sites /\ Table("location") = locations
      /\ Table("rack") = racks /\ Table("device") = devices
  BY DEF Table
<1> QED BY <1>1, <1>2, <1>3, <1>4

\* A load that grows the tables leaves the other loads right.
LEMMA LoadOn ==
    ASSUME NEW tb, NEW tb2, Grown(tb, tb2), NEW l \in Loads, NEW load \in Load,
           LoadRight(tb, l, load)
    PROVE  LoadRight(tb2, l, load)
<1>1. PICK ids : ids = load.ids
  OBVIOUS
<1>2. ids \in Seq(Nat) /\ Len(ids) <= Len(Requests[l]) /\ Len(Requests[l]) \in Nat
  BY <1>1, NetboxAssumption DEF Load, LoadRight
<1>3. ASSUME load.current, NEW m \in 1..Len(ids) PROVE Added(tb2, l, m, ids)
  <2>1. m \in 1..Len(Requests[l])
    BY <1>2
  <2>2. Added(tb, l, m, ids)
    BY <1>1, <1>3 DEF LoadRight
  <2> QED BY <2>1, <2>2, AddedOn
<1> QED BY <1>1, <1>2, <1>3 DEF LoadRight

\* An Add call, whichever table it is for.
AddCall(l, k) ==
    /\ TakeID(l, k)
    /\ Tables' = WithRow(Tables, k, NewRow(l))
    /\ UNCHANGED lists

\* What a load adds is placed.
LEMMA AddPlaces ==
    ASSUME NEW tb, DOMAIN tb = Kinds, NEW nid, NetboxTyped(tb, nid),
           StorePlaced(tb), NEW l, NEW load \in Load, LoadRight(tb, l, load),
           Underway(l, load.ids), NEW k, k = Requests[l][Len(load.ids) + 1].kind,
           NEW row, row = RowFor(l, load.ids, load.current, nid)
    PROVE  /\ NetboxTyped(WithRow(tb, k, row), Taken(nid, k))
           /\ Grown(tb, WithRow(tb, k, row))
           /\ StorePlaced(WithRow(tb, k, row))
           /\ LoadRight(WithRow(tb, k, row), l,
                        [load EXCEPT !.ids = Append(@, nid[k])])
<1>1. PICK ids, current, n, p : /\ ids = load.ids /\ current = load.current
                                /\ n = Len(ids) + 1 /\ p = Requests[l][n]
  OBVIOUS
<1>2. PICK tb2 : tb2 = WithRow(tb, k, row)
  OBVIOUS
<1>3. /\ ids \in Seq(Nat) /\ current \in BOOLEAN
      /\ nid \in [Kinds -> Nat \ {0}] /\ Underway(l, ids) /\ k = p.kind
      /\ row = RowFor(l, ids, current, nid)
  BY <1>1 DEF Load, NetboxTyped
<1>4. /\ l \in Loads /\ n \in 1..Len(Requests[l]) /\ n - 1 = Len(ids)
      /\ k \in Kinds /\ row \in Row
      /\ row.id = nid[k] /\ row.current = current
  BY <1>1, <1>3, NextRow
<1>5. /\ row.id \notin DOMAIN tb[k] /\ Grown(tb, tb2)
      /\ tb2[k] = Put(tb[k], row.id, row)
      /\ \A j \in Kinds : j # k => tb2[j] = tb[j]
      /\ NetboxTyped(tb2, Taken(nid, k))
  <2>1. k \in Kinds /\ row \in Row /\ row.id = nid[k]
    BY <1>4
  <2>2. /\ row.id \notin DOMAIN tb[k]
        /\ Grown(tb, WithRow(tb, k, row))
        /\ WithRow(tb, k, row)[k] = Put(tb[k], row.id, row)
        /\ \A j \in Kinds : j # k => WithRow(tb, k, row)[j] = tb[j]
        /\ NetboxTyped(WithRow(tb, k, row), Taken(nid, k))
    BY <2>1, RowAdded
  <2> QED BY <1>2, <2>2, Zenon
<1>6. /\ DOMAIN tb2[k] = DOMAIN tb[k] \cup {row.id} /\ tb2[k][row.id] = row
      /\ \A id \in DOMAIN tb[k] : tb2[k][id] = tb[k][id]
  BY <1>5 DEF Put
<1>7. ASSUME NEW j \in Kinds, NEW id \in DOMAIN tb2[j], tb2[j][id].current
      PROVE  RowPlaced(tb2, j, tb2[j][id])
  <2>1. CASE id \in DOMAIN tb[j]
    <3>1. tb2[j][id] = tb[j][id]
      BY <1>5, <1>6, <2>1
    <3>2. PICK r : r = tb[j][id]
      OBVIOUS
    <3>3. RowPlaced(tb, j, r)
      BY <1>7, <2>1, <3>1, <3>2 DEF StorePlaced
    <3>4. RowPlaced(tb2, j, r)
      BY <1>5, <3>3, PlacedOn
    <3> QED BY <3>1, <3>2, <3>4
  <2>2. CASE id \notin DOMAIN tb[j]
    <3>1. j = k /\ id = row.id
      BY <1>5, <1>6, <2>2
    <3>2. load.current
      BY <1>1, <1>4, <1>6, <1>7, <3>1
    <3>3. \A m \in 1..Len(ids) : Added(tb, l, m, ids)
      BY <1>1, <3>2 DEF LoadRight
    <3>4. RowPlaced(tb, p.kind, row)
      BY <1>1, <1>3, <3>3, RowStands
    <3>5. RowPlaced(tb2, k, row)
      BY <1>3, <1>4, <1>5, <3>4, PlacedOn
    <3> QED BY <1>6, <3>1, <3>5
  <2> QED BY <2>1, <2>2
<1>8. PICK more : more = Append(ids, nid[k])
  OBVIOUS
<1>9. ASSUME load.current PROVE \A m \in 1..Len(more) : Added(tb2, l, m, more)
  <2>1. \A m \in 1..Len(ids) : Added(tb, l, m, ids)
    BY <1>1, <1>9 DEF LoadRight
  <2>2. row.id \in DOMAIN tb2[k] /\ tb2[k][row.id] = row
    BY <1>6
  <2>3. k = Requests[l][Len(ids) + 1].kind
    BY <1>1, <1>3
  <2>4. current => \A m \in 1..Len(more) : Added(tb2, l, m, more)
    BY <1>3, <1>5, <1>8, <2>1, <2>2, <2>3, LoadGoesOn
  <2> QED BY <1>1, <1>9, <2>4
<1>10. PICK load2 : load2 = [load EXCEPT !.ids = Append(@, nid[k])]
  OBVIOUS
<1>11. load2.ids = more /\ load2.current = load.current
  BY <1>1, <1>8, <1>10 DEF Load
<1>12. Len(more) = n
  BY <1>1, <1>3, <1>4, <1>8 DEF NetboxTyped
<1>13. Len(more) <= Len(Requests[l])
  BY <1>4, <1>12
<1>14. LoadRight(tb2, l, load2)
  BY <1>9, <1>11, <1>13 DEF LoadRight
<1>15. StorePlaced(tb2)
  BY <1>7 DEF StorePlaced
<1> QED BY <1>2, <1>5, <1>10, <1>14, <1>15

\* The four Add calls are one of that kind.
LEMMA AddCalls ==
    ASSUME NEW l, AddSite(l) \/ AddLocation(l) \/ AddRack(l) \/ AddDevice(l)
    PROVE  \E k \in Kinds : AddCall(l, k)
<1>k. /\ "site" \in Kinds /\ "location" \in Kinds /\ "rack" \in Kinds
      /\ "device" \in Kinds
  BY DEF Kinds
<1>t. ASSUME NEW k \in Kinds, TakeID(l, k) PROVE NewRow(l).id = nextID[k]
  BY <1>t DEF TakeID, NewRow
<1>a. /\ Tables = [k \in Kinds |-> Table(k)]
      /\ Tables' = [k \in Kinds |-> Table(k)']
  BY DEF Tables
<1>1. CASE AddSite(l)
  <2>1. TakeID(l, "site") /\ UNCHANGED lists
    BY <1>1 DEF AddSite
  <2>2. PICK row : row = NewRow(l)
    OBVIOUS
  <2>3. sites' = Put(sites, row.id, row) /\ UNCHANGED <<locations, racks, devices>>
    BY <1>1, <1>k, <1>t, <2>1, <2>2 DEF AddSite
  <2>4. Tables' = WithRow(Tables, "site", row)
    BY <1>a, <1>k, <2>3 DEF WithRow, Table, Kinds
  <2> QED BY <1>k, <2>1, <2>2, <2>4 DEF AddCall
<1>2. CASE AddLocation(l)
  <2>1. TakeID(l, "location") /\ UNCHANGED lists
    BY <1>2 DEF AddLocation
  <2>2. PICK row : row = NewRow(l)
    OBVIOUS
  <2>3. /\ locations' = Put(locations, row.id, row)
        /\ UNCHANGED <<sites, racks, devices>>
    BY <1>2, <1>k, <1>t, <2>1, <2>2 DEF AddLocation
  <2>4. Tables' = WithRow(Tables, "location", row)
    BY <1>a, <1>k, <2>3 DEF WithRow, Table, Kinds
  <2> QED BY <1>k, <2>1, <2>2, <2>4 DEF AddCall
<1>3. CASE AddRack(l)
  <2>1. TakeID(l, "rack") /\ UNCHANGED lists
    BY <1>3 DEF AddRack
  <2>2. PICK row : row = NewRow(l)
    OBVIOUS
  <2>3. racks' = Put(racks, row.id, row) /\ UNCHANGED <<sites, locations, devices>>
    BY <1>3, <1>k, <1>t, <2>1, <2>2 DEF AddRack
  <2>4. Tables' = WithRow(Tables, "rack", row)
    BY <1>a, <1>k, <2>3 DEF WithRow, Table, Kinds
  <2> QED BY <1>k, <2>1, <2>2, <2>4 DEF AddCall
<1>4. CASE AddDevice(l)
  <2>1. TakeID(l, "device") /\ UNCHANGED lists
    BY <1>4 DEF AddDevice
  <2>2. PICK row : row = NewRow(l)
    OBVIOUS
  <2>3. /\ devices' = Put(devices, row.id, row)
        /\ UNCHANGED <<sites, locations, racks>>
    BY <1>4, <1>k, <1>t, <2>1, <2>2 DEF AddDevice
  <2>4. Tables' = WithRow(Tables, "device", row)
    BY <1>a, <1>k, <2>3 DEF WithRow, Table, Kinds
  <2> QED BY <1>k, <2>1, <2>2, <2>4 DEF AddCall
<1> QED BY <1>1, <1>2, <1>3, <1>4

\* An Add call keeps the invariant, and the tables grow.
LEMMA AddCallStep ==
    ASSUME NetboxInv, NEW l \in Loads, NEW k \in Kinds, AddCall(l, k)
    PROVE  NetboxInv' /\ Grown(Tables, Tables')
<1>1. PICK tb, nid, load : tb = Tables /\ nid = nextID /\ load = loads[l]
  OBVIOUS
<1>2. PICK tb2, nid2 : tb2 = Tables' /\ nid2 = nextID'
  OBVIOUS
<1>3. /\ l \in DOMAIN loads /\ load \in Load /\ LoadRight(tb, l, load)
      /\ NetboxTyped(tb, nid) /\ StorePlaced(tb) /\ DOMAIN tb = Kinds
  <2>1. l \in DOMAIN loads
    BY DEF AddCall, TakeID
  <2> QED BY <1>1, <2>1, MapValue, TablesAre DEF NetboxInv
<1>4. /\ Len(load.ids) + 1 <= Len(Requests[l])
      /\ k = Requests[l][Len(load.ids) + 1].kind
      /\ nid2 = Taken(nid, k)
      /\ loads' = [loads EXCEPT ![l].ids = Append(@, nid[k])]
  BY <1>1, <1>2 DEF AddCall, TakeID, At, NextPart, Taken
<1>5. Underway(l, load.ids)
  BY <1>3, <1>4 DEF Underway, Load
<1>6. PICK row : row = RowFor(l, load.ids, load.current, nid)
  OBVIOUS
<1>7. NewRow(l) = row
  BY <1>1, <1>6 DEF NewRow, RowFor, NextPart, At, IdOf, Ref
<1>8. tb2 = WithRow(tb, k, row) /\ UNCHANGED lists
  BY <1>1, <1>2, <1>7 DEF AddCall
<1>9. PICK load2 : load2 = [load EXCEPT !.ids = Append(@, nid[k])]
  OBVIOUS
<1>10. /\ NetboxTyped(tb2, nid2) /\ Grown(tb, tb2) /\ StorePlaced(tb2)
       /\ LoadRight(tb2, l, load2)
  BY <1>3, <1>4, <1>5, <1>6, <1>8, <1>9, AddPlaces
<1>11. load2 \in Load
  <2>1. nid[k] \in Nat /\ load.ids \in Seq(Nat)
    BY <1>3 DEF NetboxTyped, Load
  <2>2. Append(load.ids, nid[k]) \in Seq(Nat)
    BY <2>1
  <2> QED BY <1>3, <1>9, <2>2 DEF Load
<1>12. loads' = [loads EXCEPT ![l] = load2]
  BY <1>1, <1>3, <1>4, <1>9
<1>13. IsMap(loads, Loads, Load)
  BY DEF NetboxInv
<1>14. /\ IsMap(loads', Loads, Load) /\ DOMAIN loads' = DOMAIN loads
       /\ loads'[l] = load2
       /\ \A j \in DOMAIN loads : j # l => loads'[j] = loads[j]
  BY <1>3, <1>11, <1>12, <1>13 DEF IsMap
<1>15. ASSUME NEW j \in DOMAIN loads PROVE LoadRight(tb2, j, loads'[j])
  <2>1. CASE j = l
    BY <1>10, <1>14, <2>1
  <2>2. CASE j # l
    <3>1. PICK other : other = loads[j]
      OBVIOUS
    <3>2. j \in Loads /\ other \in Load /\ LoadRight(tb, j, other)
      BY <1>1, <1>13, <3>1, MapValue DEF NetboxInv, IsMap
    <3>3. LoadRight(tb2, j, other)
      BY <1>10, <3>2, LoadOn
    <3> QED BY <1>14, <2>2, <3>1, <3>3
  <2> QED BY <2>1, <2>2
<1>16. DOMAIN lists' \subseteq Lists
  BY <1>8 DEF NetboxInv
<1>17. NetboxInv'
  BY <1>2, <1>10, <1>14, <1>15, <1>16 DEF NetboxInv
<1> QED BY <1>1, <1>2, <1>10, <1>17

\* Every step keeps the invariant; the tables grow, unless it is a reset.
LEMMA NetboxInvStep ==
    ASSUME NetboxInv, [NetboxNext]_netboxVars
    PROVE  NetboxInv' /\ (Grown(Tables, Tables') \/ lists' = EmptyMap)
<1>u. ASSUME UNCHANGED <<sites, locations, racks, devices, nextID>>,
             DOMAIN lists' \subseteq Lists, IsMap(loads', Loads, Load),
             \A l \in DOMAIN loads' : LoadRight(Tables, l, loads'[l])
      PROVE  NetboxInv' /\ Grown(Tables, Tables')
  <2>1. Tables' = Tables
    BY <1>u DEF Tables, Table
  <2> QED BY <1>u, <2>1 DEF NetboxInv, Grown
<1>l. DOMAIN lists \subseteq Lists /\ IsMap(loads, Loads, Load)
  BY DEF NetboxInv
<1>1. ASSUME NEW l \in Loads, BulkLoad(l)
      PROVE  NetboxInv' /\ Grown(Tables, Tables')
  <2>1. PICK load : load = [ids |-> <<>>, current |-> TRUE]
    OBVIOUS
  <2>2. loads' = Put(loads, l, load)
    BY <1>1, <2>1 DEF BulkLoad
  <2>3. load \in Load
    <3>1. <<>> \in Seq(Nat)
      OBVIOUS
    <3> QED BY <2>1, <3>1 DEF Load
  <2>4. LoadRight(Tables, l, load)
    <3>1. load.ids = <<>> /\ Len(load.ids) = 0 /\ 1..Len(load.ids) = {}
      BY <2>1
    <3>2. Len(Requests[l]) \in Nat
      BY NetboxAssumption
    <3> QED BY <3>1, <3>2 DEF LoadRight
  <2>5. IsMap(loads', Loads, Load)
    BY <1>l, <2>2, <2>3 DEF IsMap, Put
  <2>6. \A j \in DOMAIN loads' : LoadRight(Tables, j, loads'[j])
    BY <2>2, <2>4 DEF NetboxInv, Put
  <2> QED BY <1>1, <1>l, <1>u, <2>5, <2>6 DEF BulkLoad
<1>2. ASSUME NEW l \in Loads, LoadStep(l)
      PROVE  NetboxInv' /\ Grown(Tables, Tables')
  <2>1. CASE Loaded(l)
    <3>1. loads' = Drop(loads, l)
      BY <2>1 DEF Loaded
    <3>2. IsMap(loads', Loads, Load)
      BY <1>l, <3>1 DEF IsMap, Drop, Restrict
    <3>3. \A j \in DOMAIN loads' : LoadRight(Tables, j, loads'[j])
      BY <3>1 DEF NetboxInv, Drop, Restrict
    <3> QED BY <1>l, <1>u, <2>1, <3>2, <3>3 DEF Loaded
  <2>2. CASE AddSite(l) \/ AddLocation(l) \/ AddRack(l) \/ AddDevice(l)
    BY <2>2, AddCalls, AddCallStep
  <2> QED BY <1>2, <2>1, <2>2 DEF LoadStep
<1>3. ASSUME NEW q \in Lists, NEW kind, NEW row, ListBegin(q, kind, row)
      PROVE  NetboxInv' /\ Grown(Tables, Tables')
  <2>1. DOMAIN lists' = DOMAIN lists \cup {q} /\ UNCHANGED loads
    BY <1>3 DEF ListBegin, Put
  <2> QED BY <1>3, <1>l, <1>u, <2>1 DEF ListBegin, NetboxInv
<1>4. ASSUME NEW q \in Lists, ListRead(q)
      PROVE  NetboxInv' /\ Grown(Tables, Tables')
  <2>1. DOMAIN lists' = DOMAIN lists /\ UNCHANGED loads
    BY <1>4 DEF ListRead
  <2> QED BY <1>4, <1>l, <1>u, <2>1 DEF ListRead, NetboxInv
<1>5. ASSUME NEW q \in Lists, ListEnd(q)
      PROVE  NetboxInv' /\ Grown(Tables, Tables')
  <2>1. DOMAIN lists' \subseteq DOMAIN lists /\ UNCHANGED loads
    BY <1>5 DEF ListEnd, Drop, Restrict
  <2> QED BY <1>5, <1>l, <1>u, <2>1 DEF ListEnd, NetboxInv
<1>6. ASSUME NetboxReset PROVE NetboxInv' /\ lists' = EmptyMap
  <2>1. \A k \in Kinds : Tables'[k] = EmptyMap
    BY <1>6 DEF NetboxReset, Tables, Table, Kinds
  <2>2. /\ lists' = EmptyMap /\ nextID' = [k \in Kinds |-> 1]
        /\ loads' = [l \in DOMAIN loads |-> [loads[l] EXCEPT !.current = FALSE]]
    BY <1>6 DEF NetboxReset
  <2>3. NetboxTyped(Tables', nextID')
    BY <2>1, <2>2, EmptyIsMap DEF NetboxTyped
  <2>4. StorePlaced(Tables')
    BY <2>1, EmptyIsMap DEF StorePlaced
  <2>5. \A l \in DOMAIN loads : loads[l] \in Load
    BY <1>l, MapValue
  <2>6. ASSUME NEW l \in DOMAIN loads
        PROVE  loads'[l] \in Load /\ LoadRight(Tables', l, loads'[l])
    <3>1. /\ loads'[l] \in Load /\ loads'[l].ids = loads[l].ids
          /\ ~loads'[l].current
      BY <2>2, <2>5 DEF Load
    <3>2. Len(loads[l].ids) <= Len(Requests[l])
      BY DEF NetboxInv, LoadRight
    <3> QED BY <3>1, <3>2 DEF LoadRight
  <2>7. IsMap(loads', Loads, Load) /\ DOMAIN loads' = DOMAIN loads
    BY <1>l, <2>2, <2>6 DEF IsMap
  <2>8. DOMAIN lists' \subseteq Lists
    BY <2>2, EmptyIsMap
  <2> QED BY <2>2, <2>3, <2>4, <2>6, <2>7, <2>8 DEF NetboxInv
<1>7. CASE UNCHANGED netboxVars
  BY <1>7, <1>l, <1>u DEF netboxVars, NetboxInv
<1> QED BY <1>1, <1>2, <1>3, <1>4, <1>5, <1>6, <1>7 DEF NetboxNext

\* The inductive invariant holds.
LEMMA NetboxSafe == NetboxSpec => []NetboxInv
<1>1. NetboxInit => NetboxInv
  <2> SUFFICES ASSUME NetboxInit PROVE NetboxInv
    OBVIOUS
  <2>1. \A k \in Kinds : Tables[k] = EmptyMap
    BY DEF NetboxInit, Tables, Table, Kinds
  <2>2. NetboxTyped(Tables, nextID) /\ StorePlaced(Tables)
    BY <2>1, EmptyIsMap DEF NetboxTyped, StorePlaced, NetboxInit
  <2> QED BY <2>2, EmptyIsMap DEF NetboxInv, NetboxInit
<1>2. NetboxInv /\ [NetboxNext]_netboxVars => NetboxInv'
  BY NetboxInvStep
<1> QED BY <1>1, <1>2, PTL DEF NetboxSpec

\* The store of netbox-sim is well formed: rows stand under their own numbers,
\* below the counters, so no Add call ever overwrites one.
THEOREM NetboxTypeCorrect == NetboxSpec => []NetboxTypeOK
<1>1. NetboxInv => NetboxTypeOK
  <2> SUFFICES ASSUME NetboxInv PROVE NetboxTypeOK
    OBVIOUS
  <2>1. /\ NetboxTyped(Tables, nextID) /\ IsMap(loads, Loads, Load)
        /\ DOMAIN lists \subseteq Lists
    BY DEF NetboxInv
  <2>2. \A k \in Kinds : Tables[k] = Table(k)
    BY TablesAre
  <2> QED BY <2>1, <2>2 DEF NetboxTyped, NetboxTypeOK, Load
<1> QED BY <1>1, NetboxSafe, PTL

\* The rows of one table are finitely many.
LEMMA FiniteTable ==
    ASSUME NEW tb, NEW nid, NetboxTyped(tb, nid), NEW k \in Kinds
    PROVE  IsFiniteSet(DOMAIN tb[k])
<1>1. nid[k] \in Nat /\ nid[k] - 1 \in Int
  BY DEF NetboxTyped
<1>2. DOMAIN tb[k] \subseteq 0..(nid[k] - 1)
  BY <1>1 DEF NetboxTyped, IsMap
<1>3. IsFiniteSet(0..(nid[k] - 1))
  BY <1>1, FS_Interval
<1> QED BY <1>2, <1>3, FS_Subset

\* Where each row of a table refers to: its location, and its rack.
LocationOf(table) == [id \in DOMAIN table |-> table[id].location]

RackOf(table) == [id \in DOMAIN table |-> table[id].rack]

\* What a row refers to is in the row's site.
SameSite(rows, at, ups) ==
    \A id \in DOMAIN rows : /\ at[id] \in DOMAIN ups
                            /\ ups[at[id]].site = rows[id].site

\* The rows of a site, and how many rows refer to each i.
InSite(rows, s) == {id \in DOMAIN rows : rows[id].site = s}

CountsAt(rows, at, I) ==
    [i \in I |-> Cardinality({id \in DOMAIN rows : at[id] = i})]

\* Rows that are in the site s exactly when what they refer to is are as many
\* as there are, added up, in what is in the site.
LEMMA CountedTwice ==
    ASSUME NEW rows, NEW at, NEW ups, IsFiniteSet(DOMAIN rows),
           IsFiniteSet(DOMAIN ups), NEW s, SameSite(rows, at, ups)
    PROVE  Cardinality(InSite(rows, s))
               = SumFunction(CountsAt(rows, at, InSite(ups, s)))
<1>1. PICK S, I : S = DOMAIN rows /\ I = InSite(ups, s)
  OBVIOUS
<1>2. IsFiniteSet(I)
  BY <1>1, FS_Subset DEF InSite
<1>3. Cardinality(SentTo(S, at, I)) = SumFunction(FibreSizes(S, at, I))
  BY <1>1, <1>2, SumOfFibres
<1>4. SentTo(S, at, I) = InSite(rows, s)
  BY <1>1 DEF SentTo, InSite, SameSite
<1>5. FibreSizes(S, at, I) = CountsAt(rows, at, I)
  BY <1>1 DEF FibreSizes, Fibre, CountsAt
<1> QED BY <1>1, <1>3, <1>4, <1>5

\* The three ways of counting agree.
LEMMA CountsDoAgree == NetboxInv => CountsAgree
<1> SUFFICES ASSUME NetboxInv,
                    \A kind \in Kinds : \A id \in DOMAIN Table(kind) :
                        Table(kind)[id].current,
                    NEW s \in DOMAIN sites
             PROVE  LET locs == {i \in DOMAIN locations : locations[i].site = s}
                        rks  == {i \in DOMAIN racks : racks[i].site = s}
                    IN /\ CountRacksInSite(s)
                            = SumFunction([i \in locs |-> CountRacksInLocation(i)])
                       /\ CountDevicesInSite(s)
                            = SumFunction([i \in locs |-> CountDevicesInLocation(i)])
                       /\ CountDevicesInSite(s)
                            = SumFunction([i \in rks |-> CountDevicesInRack(i)])
    BY DEF CountsAgree
<1>k. /\ "location" \in Kinds /\ "rack" \in Kinds /\ "device" \in Kinds
  BY DEF Kinds
<1>1. PICK tb, nid : tb = Tables /\ nid = nextID
  OBVIOUS
<1>2. NetboxTyped(tb, nid) /\ StorePlaced(tb)
  BY <1>1 DEF NetboxInv
<1>3. tb["location"] = locations /\ tb["rack"] = racks /\ tb["device"] = devices
  BY <1>1, TablesAre
<1>4. /\ IsFiniteSet(DOMAIN locations) /\ IsFiniteSet(DOMAIN racks)
      /\ IsFiniteSet(DOMAIN devices)
  BY <1>2, <1>3, <1>k, FiniteTable
<1>5. ASSUME NEW k \in {"rack", "device"}, NEW id \in DOMAIN tb[k]
      PROVE  /\ tb[k][id].location \in DOMAIN locations
             /\ locations[tb[k][id].location].site = tb[k][id].site
             /\ k = "device" => /\ tb[k][id].rack \in DOMAIN racks
                                /\ racks[tb[k][id].rack].site = tb[k][id].site
  <2>1. PICK row, l, n, p : /\ row = tb[k][id] /\ l = row.name[1]
                            /\ n = row.name[2] /\ p = Requests[l][n]
    OBVIOUS
  <2>2. k \in Kinds /\ tb[k] = Table(k)
    BY <1>1, <1>k, TablesAre
  <2>3. row.current
    BY <1>5, <2>1, <2>2
  <2>4. RowPlaced(tb, k, row)
    BY <1>2, <2>1, <2>2, <2>3 DEF StorePlaced
  <2>5. /\ l \in Loads /\ n \in 1..Len(Requests[l]) /\ p.kind = k
        /\ LeadsTo(locations, row.location, l, p.location)
        /\ LeadsTo(racks, row.rack, l, p.rack)
        /\ p.location # 0 => locations[row.location].site = row.site
        /\ p.rack # 0 => racks[row.rack].site = row.site
    BY <1>3, <2>1, <2>4 DEF RowPlaced, PartOf
  <2>6. /\ p.kind \in {"rack", "device"} => p.location # 0
        /\ p.kind = "device" => p.rack # 0
    <3>1. l \in Loads
      BY <2>5
    <3>2. n \in 1..Len(Requests[l])
      BY <2>5
    <3>3. p = Requests[l][n]
      BY <2>1
    <3>4. p.kind \in {"rack", "device"} => p.location # 0
      BY <3>1, <3>2, <3>3, PartsNested, Zenon
    <3>5. p.kind = "device" => p.rack # 0
      BY <3>1, <3>2, <3>3, PartsNested, Zenon
    <3> QED BY <3>4, <3>5
  <2>7. p.location # 0 /\ (k = "device" => p.rack # 0)
    BY <2>5, <2>6
  <2> QED BY <2>1, <2>5, <2>7 DEF LeadsTo
<1> DEFINE locs == {i \in DOMAIN locations : locations[i].site = s}
           rks == {i \in DOMAIN racks : racks[i].site = s}
<1>6. CountRacksInSite(s)
         = SumFunction([i \in locs |-> CountRacksInLocation(i)])
  <2>1. PICK rows, ups, at : rows = racks /\ ups = locations /\ at = LocationOf(racks)
    OBVIOUS
  <2>2. SameSite(rows, at, ups)
    BY <1>3, <1>5, <2>1 DEF LocationOf, SameSite
  <2>3. IsFiniteSet(DOMAIN rows) /\ IsFiniteSet(DOMAIN ups)
    BY <1>4, <2>1
  <2>4. Cardinality(InSite(rows, s))
          = SumFunction(CountsAt(rows, at, InSite(ups, s)))
    BY <2>2, <2>3, CountedTwice
  <2>5. \A i : {id \in DOMAIN rows : at[id] = i}
                 = {id \in DOMAIN racks : racks[id].location = i}
    BY <2>1 DEF LocationOf
  <2>6. /\ CountsAt(rows, at, InSite(ups, s)) = [i \in locs |-> CountRacksInLocation(i)]
        /\ Cardinality(InSite(rows, s)) = CountRacksInSite(s)
    BY <2>1, <2>5 DEF CountsAt, InSite, CountRacksInSite, CountRacksInLocation
  <2> QED BY <2>4, <2>6
<1>7. CountDevicesInSite(s)
         = SumFunction([i \in locs |-> CountDevicesInLocation(i)])
  <2>1. PICK rows, ups, at : rows = devices /\ ups = locations /\ at = LocationOf(devices)
    OBVIOUS
  <2>2. SameSite(rows, at, ups)
    BY <1>3, <1>5, <2>1 DEF LocationOf, SameSite
  <2>3. IsFiniteSet(DOMAIN rows) /\ IsFiniteSet(DOMAIN ups)
    BY <1>4, <2>1
  <2>4. Cardinality(InSite(rows, s))
          = SumFunction(CountsAt(rows, at, InSite(ups, s)))
    BY <2>2, <2>3, CountedTwice
  <2>5. \A i : {id \in DOMAIN rows : at[id] = i}
                 = {id \in DOMAIN devices : devices[id].location = i}
    BY <2>1 DEF LocationOf
  <2>6. /\ CountsAt(rows, at, InSite(ups, s)) = [i \in locs |-> CountDevicesInLocation(i)]
        /\ Cardinality(InSite(rows, s)) = CountDevicesInSite(s)
    BY <2>1, <2>5 DEF CountsAt, InSite, CountDevicesInSite, CountDevicesInLocation
  <2> QED BY <2>4, <2>6
<1>8. CountDevicesInSite(s)
         = SumFunction([i \in rks |-> CountDevicesInRack(i)])
  <2>1. PICK rows, ups, at : rows = devices /\ ups = racks /\ at = RackOf(devices)
    OBVIOUS
  <2>2. SameSite(rows, at, ups)
    BY <1>3, <1>5, <2>1 DEF RackOf, SameSite
  <2>3. IsFiniteSet(DOMAIN rows) /\ IsFiniteSet(DOMAIN ups)
    BY <1>4, <2>1
  <2>4. Cardinality(InSite(rows, s))
          = SumFunction(CountsAt(rows, at, InSite(ups, s)))
    BY <2>2, <2>3, CountedTwice
  <2>5. \A i : {id \in DOMAIN rows : at[id] = i}
                 = {id \in DOMAIN devices : devices[id].rack = i}
    BY <2>1 DEF RackOf
  <2>6. /\ CountsAt(rows, at, InSite(ups, s)) = [i \in rks |-> CountDevicesInRack(i)]
        /\ Cardinality(InSite(rows, s)) = CountDevicesInSite(s)
    BY <2>1, <2>5 DEF CountsAt, InSite, CountDevicesInSite, CountDevicesInRack
  <2> QED BY <2>4, <2>6
<1> QED BY <1>6, <1>7, <1>8

\* What a bulk load adds stands where its request has put it, whatever other
\* loads and resets do meanwhile, and the ways of counting racks and devices
\* (CountRacksInSite and its like) agree.
THEOREM ObjectsSafe == NetboxSpec => []ObjectsPlaced
<1>1. NetboxInv => ObjectsPlaced
  <2> SUFFICES ASSUME NetboxInv PROVE ObjectsPlaced
    OBVIOUS
  <2>1. CountsAgree
    BY CountsDoAgree
  <2>2. ASSUME NEW kind \in Kinds, NEW id \in DOMAIN Table(kind), NEW row, NEW p,
               NEW l, row = Table(kind)[id], p = PartOf(row.name),
               l = row.name[1], row.current
        PROVE  /\ LeadsTo(sites, row.site, l, p.site)
               /\ LeadsTo(locations, row.location, l, p.location)
               /\ LeadsTo(racks, row.rack, l, p.rack)
    <3>1. RowPlaced(Tables, kind, row)
      BY <2>2, TablesAre DEF NetboxInv, StorePlaced
    <3> QED BY <2>2, <3>1, TablesAre DEF RowPlaced
  <2> QED BY <2>1, <2>2 DEF ObjectsPlaced
<1> QED BY <1>1, NetboxSafe, PTL

-----------------------------------------------------------------------------
(***************************************************************************)
(* Depths.  A location is found by walking up from it in the store; what   *)
(* is wanted is how deep the request has nested it.                        *)
(***************************************************************************)
\* g[m] is how many locations the part at m is nested in, for parts up to n.
IsDepth(g, l, n) ==
    g = [m \in 0..n |-> IF m = 0 \/ Requests[l][m].location = 0 THEN 0
                        ELSE 1 + g[Requests[l][m].location]]

\* There is such a function for every part of a request.
LEMMA DepthExists ==
    ASSUME NEW l \in Loads, NEW n \in 0..Len(Requests[l])
    PROVE  \E g : IsDepth(g, l, n)
<1> DEFINE T == {k \in 0..Len(Requests[l]) : ~\E g : IsDepth(g, l, k)}
<1>0. Len(Requests[l]) \in Nat
  BY NetboxAssumption
<1>1. SUFFICES ASSUME T # {} PROVE FALSE
  OBVIOUS
<1>2. PICK k \in T : \A m \in T : k <= m
  <2>1. T \in SUBSET Nat
    BY <1>0
  <2> HIDE DEF T
  <2> QED BY <1>1, <2>1, LeastNumber
<1>3. k # 0
  <2>1. ASSUME k = 0 PROVE FALSE
   <3> DEFINE g == [m \in 0..0 |-> 0]
   <3>1. IsDepth(g, l, 0)
     BY DEF IsDepth
   <3> QED BY <2>1, <3>1
  <2> QED BY <2>1
<1>4. k \in 0..Len(Requests[l]) /\ ~\E g : IsDepth(g, l, k)
  OBVIOUS
<1>5. k - 1 \in 0..Len(Requests[l]) /\ ~(k <= k - 1) /\ k \in 1..Len(Requests[l])
  BY <1>0, <1>3, <1>4
<1>6. PICK g : IsDepth(g, l, k - 1)
  BY <1>2, <1>5
<1>7. \A m \in 0..(k - 1) :
          g[m] = IF m = 0 \/ Requests[l][m].location = 0 THEN 0
                 ELSE 1 + g[Requests[l][m].location]
  BY <1>5, <1>6 DEF IsDepth
<1>8. \A m \in 1..k : Requests[l][m].location \in 0..(m - 1)
  <2> SUFFICES ASSUME NEW m \in 1..k PROVE Requests[l][m].location \in 0..(m - 1)
    OBVIOUS
  <2>1. m \in 1..Len(Requests[l])
    BY <1>0, <1>5
  <2> QED BY <2>1, PartsNested
<1> DEFINE last == IF Requests[l][k].location = 0 THEN 0
                   ELSE 1 + g[Requests[l][k].location]
           h == [m \in 0..k |-> IF m = k THEN last ELSE g[m]]
<1>9. \A m \in 0..k :
          h[m] = IF m = 0 \/ Requests[l][m].location = 0 THEN 0
                 ELSE 1 + h[Requests[l][m].location]
  <2> SUFFICES ASSUME NEW m \in 0..k, m # 0
       PROVE h[m] = IF Requests[l][m].location = 0 THEN 0
                    ELSE 1 + h[Requests[l][m].location]
    BY <1>3, <1>5, <1>7
  <2>1. PICK u : u = Requests[l][m].location
    OBVIOUS
  <2>2. u \in 0..(m - 1) /\ u # k /\ u \in 0..k
    BY <1>5, <1>8, <2>1
  <2>3. h[u] = g[u]
    BY <2>2
  <2>4. CASE m = k
    BY <2>1, <2>3, <2>4
  <2>5. CASE m # k
    <3>1. h[m] = g[m] /\ m \in 0..(k - 1)
      BY <1>5, <2>5
    <3> QED BY <1>7, <2>1, <2>3, <3>1
  <2> QED BY <2>4, <2>5
<1>10. IsDepth(h, l, k)
  BY <1>9 DEF IsDepth
<1> QED BY <1>4, <1>10

\* What the depth of a part is.
LEMMA DepthIs ==
    ASSUME NEW l \in Loads, NEW n \in 1..Len(Requests[l])
    PROVE  /\ WantedDepth(l, n) \in Nat
           /\ Requests[l][n].location = 0 => WantedDepth(l, n) = 0
           /\ Requests[l][n].location # 0 =>
                 WantedDepth(l, n) = 1 + WantedDepth(l, Requests[l][n].location)
<1> DEFINE f[m \in 0..Len(Requests[l])] ==
               IF m = 0 \/ Requests[l][m].location = 0 THEN 0
               ELSE 1 + f[Requests[l][m].location]
<1>0. Len(Requests[l]) \in Nat
  BY NetboxAssumption
<1>1. \E g : IsDepth(g, l, Len(Requests[l]))
  BY <1>0, DepthExists
<1>2. f = [m \in 0..Len(Requests[l]) |->
              IF m = 0 \/ Requests[l][m].location = 0 THEN 0
              ELSE 1 + f[Requests[l][m].location]]
  BY <1>1 DEF IsDepth
<1>3. \A m : WantedDepth(l, m) = f[m]
  BY DEF WantedDepth
<1> HIDE DEF f
<1>4. \A m \in 1..Len(Requests[l]) : Requests[l][m].location \in 0..(m - 1)
  BY PartsNested
<1>5. \A m \in 0..Len(Requests[l]) :
          f[m] = IF m = 0 \/ Requests[l][m].location = 0 THEN 0
                 ELSE 1 + f[Requests[l][m].location]
  BY <1>2
<1> DEFINE B == {m \in 0..Len(Requests[l]) : f[m] \notin Nat}
<1>6. ASSUME B # {} PROVE FALSE
  <2>1. PICK k \in B : \A m \in B : k <= m
    <3>1. B \in SUBSET Nat
      BY <1>0
    <3> HIDE DEF B
    <3> QED BY <1>6, <3>1, LeastNumber
  <2>2. k \in 0..Len(Requests[l]) /\ f[k] \notin Nat
    OBVIOUS
  <2>3. k # 0 /\ Requests[l][k].location # 0
    BY <1>5, <2>2
  <2>4. PICK u : u = Requests[l][k].location
    OBVIOUS
  <2>5. u \in 0..(k - 1)
    BY <1>0, <1>4, <2>2, <2>3, <2>4
  <2>6. u \in 0..Len(Requests[l]) /\ ~(k <= u)
    BY <1>0, <2>2, <2>5
  <2>7. f[u] \in Nat
    BY <2>1, <2>6
  <2>8. f[k] = 1 + f[u]
    BY <1>5, <2>2, <2>3, <2>4
  <2> QED BY <2>2, <2>7, <2>8
<1>7. n \in 0..Len(Requests[l]) /\ n # 0
  BY <1>0
<1>8. f[n] \in Nat
  BY <1>6, <1>7
<1> QED BY <1>3, <1>5, <1>7, <1>8

\* One step of the walk up from a location.
WalkStep(locs, id, w) ==
    LET up == IF w = <<>> THEN id ELSE locs[w[Len(w)]].location
    IN IF up \in DOMAIN locs \ Range(w) THEN Append(w, up) ELSE w

\* g[k] is the walk after k steps.
IsWalk(g, locs, id, n) ==
    g = [k \in 0..n |-> IF k = 0 THEN <<>> ELSE WalkStep(locs, id, g[k - 1])]

\* There is such a walk of every length.
LEMMA WalkExists ==
    ASSUME NEW locs, NEW id, NEW n \in Nat
    PROVE  \E g : IsWalk(g, locs, id, n)
<1> DEFINE T == {k \in Nat : ~\E g : IsWalk(g, locs, id, k)}
<1>1. SUFFICES ASSUME T # {} PROVE FALSE
  OBVIOUS
<1>2. PICK k \in T : \A m \in T : k <= m
  <2>1. T \in SUBSET Nat
    OBVIOUS
  <2> HIDE DEF T
  <2> QED BY <1>1, <2>1, LeastNumber
<1>3. k # 0
  <2>1. ASSUME k = 0 PROVE FALSE
   <3> DEFINE g == [i \in 0..0 |-> <<>>]
   <3>1. IsWalk(g, locs, id, 0)
     BY DEF IsWalk
   <3> QED BY <2>1, <3>1
  <2> QED BY <2>1
<1>4. k \in Nat /\ ~\E g : IsWalk(g, locs, id, k)
  OBVIOUS
<1>5. k - 1 \in Nat /\ ~(k <= k - 1)
  BY <1>3, <1>4
<1>6. PICK g : IsWalk(g, locs, id, k - 1)
  BY <1>2, <1>5
<1>7. \A i \in 0..(k - 1) :
          g[i] = IF i = 0 THEN <<>> ELSE WalkStep(locs, id, g[i - 1])
  BY <1>5, <1>6 DEF IsWalk
<1> DEFINE h == [i \in 0..k |-> IF i = k THEN WalkStep(locs, id, g[k - 1])
                                ELSE g[i]]
<1>8. \A i \in 0..k :
          h[i] = IF i = 0 THEN <<>> ELSE WalkStep(locs, id, h[i - 1])
  <2> SUFFICES ASSUME NEW i \in 0..k
       PROVE h[i] = IF i = 0 THEN <<>> ELSE WalkStep(locs, id, h[i - 1])
    OBVIOUS
  <2>1. CASE i = k
    <3>1. h[i - 1] = g[k - 1]
      BY <1>3, <1>4, <2>1
    <3> QED BY <1>3, <1>4, <2>1, <3>1
  <2>2. CASE i # k
    <3>1. h[i] = g[i] /\ i \in 0..(k-1)
      BY <1>4, <2>2
    <3>2. i # 0 => h[i - 1] = g[i - 1]
      BY <1>4, <2>2
    <3> QED BY <1>7, <3>1, <3>2
  <2> QED BY <2>1, <2>2
<1>9. IsWalk(h, locs, id, k)
  BY <1>8 DEF IsWalk
<1> QED BY <1>4, <1>9

\* LocationAncestors walks as many steps as there are locations.
LEMMA AncestorsWalk ==
    ASSUME NEW id, NEW n \in Nat, n = Cardinality(DOMAIN locations)
    PROVE  \E g : IsWalk(g, locations, id, n) /\ LocationAncestors(id) = g[n]
<1> DEFINE f[k \in 0..Cardinality(DOMAIN locations)] ==
               IF k = 0 THEN <<>>
               ELSE LET w  == f[k - 1]
                        up == IF w = <<>> THEN id
                              ELSE locations[w[Len(w)]].location
                    IN IF up \in DOMAIN locations \ Range(w) THEN Append(w, up)
                       ELSE w
<1>1. \E g : IsWalk(g, locations, id, n)
  BY WalkExists
<1>2. f = [k \in 0..n |-> IF k = 0 THEN <<>>
                          ELSE WalkStep(locations, id, f[k - 1])]
  BY <1>1 DEF IsWalk, WalkStep
<1>3. LocationAncestors(id) = f[n]
  BY DEF LocationAncestors
<1> HIDE DEF f
<1>4. IsWalk(f, locations, id, n)
  BY <1>2 DEF IsWalk
<1> QED BY <1>3, <1>4

\* x is a location that load l has added, and its position in the request.
OfLoad(locs, l, x) == x \in DOMAIN locs /\ locs[x].current /\ locs[x].name[1] = l

Position(locs, x) == locs[x].name[2]

\* The walk after k steps from a location of load l: other locations of the
\* load, each once, the last of them the outermost; and the walk is k long or
\* has reached the top.  What is left of the depth is the depth of the last.
WalkRight(w, k, locs, l, d) ==
    LET last == w[Len(w)]
    IN /\ w \in Seq(DOMAIN locs) /\ Len(w) \in 1..k
       /\ IsFiniteSet(Range(w)) /\ Cardinality(Range(w)) = Len(w)
       /\ \A x \in Range(w) : /\ OfLoad(locs, l, x)
                              /\ Position(locs, last) <= Position(locs, x)
       /\ Len(w) = k \/ locs[last].location = 0
       /\ Len(w) + WantedDepth(l, Position(locs, last)) = d + 1

\* What a location of the store is in is another location of the same load,
\* one part further out.
LEMMA StepOut ==
    ASSUME NEW tb, NEW nid, NetboxTyped(tb, nid), StorePlaced(tb), NEW locs,
           locs = tb["location"], NEW l, NEW x, OfLoad(locs, l, x)
    PROVE  /\ l \in Loads /\ Position(locs, x) \in 1..Len(Requests[l])
           /\ Len(Requests[l]) \in Nat
           /\ locs[x].location \notin DOMAIN locs =>
                 /\ locs[x].location = 0
                 /\ WantedDepth(l, Position(locs, x)) = 0
           /\ 0 \notin DOMAIN locs
           /\ locs[x].location \in DOMAIN locs =>
                 /\ OfLoad(locs, l, locs[x].location)
                 /\ Position(locs, locs[x].location) < Position(locs, x)
                 /\ WantedDepth(l, Position(locs, x))
                      = 1 + WantedDepth(l, Position(locs, locs[x].location))
<1>k. "location" \in Kinds
  BY DEF Kinds
<1>1. PICK row, n, p : row = locs[x] /\ n = row.name[2] /\ p = Requests[l][n]
  OBVIOUS
<1>2. RowPlaced(tb, "location", row)
  BY <1>k, <1>1 DEF OfLoad, StorePlaced
<1>3. row.name[1] = l
  BY <1>1 DEF OfLoad
<1>4. PartOf(row.name) = p
  BY <1>1, <1>3 DEF PartOf
<1>5. /\ l \in Loads /\ n \in 1..Len(Requests[l])
      /\ LeadsTo(locs, row.location, l, p.location)
      /\ p.location # 0 => locs[row.location].current
  BY <1>1, <1>2, <1>3, <1>4 DEF RowPlaced
<1>6. Len(Requests[l]) \in Nat
  BY <1>5, NetboxAssumption
<1>7. 0 \notin DOMAIN locs
  BY <1>k DEF NetboxTyped, IsMap, Row
<1>8. p.location \in 0..(n - 1)
  <2>1. l \in Loads
    BY <1>5
  <2>2. n \in 1..Len(Requests[l])
    BY <1>5
  <2>3. p = Requests[l][n]
    BY <1>1
  <2> QED BY <2>1, <2>2, <2>3, PartsNested, Zenon
<1>9. ASSUME row.location \notin DOMAIN locs
      PROVE  row.location = 0 /\ WantedDepth(l, n) = 0
  <2>1. p.location = 0 /\ row.location = 0
    BY <1>5, <1>9 DEF LeadsTo
  <2> QED BY <1>1, <1>5, <2>1, DepthIs
<1>10. ASSUME row.location \in DOMAIN locs
       PROVE  /\ OfLoad(locs, l, row.location)
              /\ Position(locs, row.location) < n
              /\ WantedDepth(l, n)
                   = 1 + WantedDepth(l, Position(locs, row.location))
  <2>1. p.location # 0 /\ locs[row.location].name = <<l, p.location>>
    BY <1>5, <1>7, <1>10 DEF LeadsTo
  <2>2. Position(locs, row.location) = p.location
    BY <2>1 DEF Position
  <2>3. OfLoad(locs, l, row.location)
    BY <1>5, <1>10, <2>1 DEF OfLoad
  <2>4. WantedDepth(l, n) = 1 + WantedDepth(l, p.location)
    BY <1>1, <1>5, <2>1, DepthIs
  <2>5. p.location < n
    BY <1>5, <1>6, <1>8
  <2> QED BY <2>2, <2>3, <2>4, <2>5
<1> QED BY <1>1, <1>5, <1>6, <1>7, <1>9, <1>10 DEF Position

\* The walk goes on right.
LEMMA WalkGoesOn ==
    ASSUME NEW tb, NEW nid, NetboxTyped(tb, nid), StorePlaced(tb), NEW locs,
           locs = tb["location"], NEW l, NEW id, NEW d, NEW k \in Nat, NEW w,
           WalkRight(w, k, locs, l, d)
    PROVE  WalkRight(WalkStep(locs, id, w), k + 1, locs, l, d)
<1>1. PICK last, up : last = w[Len(w)] /\ up = locs[last].location
  OBVIOUS
<1>2. /\ w \in Seq(DOMAIN locs) /\ Len(w) \in 1..k
      /\ IsFiniteSet(Range(w)) /\ Cardinality(Range(w)) = Len(w)
      /\ \A x \in Range(w) : /\ OfLoad(locs, l, x)
                             /\ Position(locs, last) <= Position(locs, x)
      /\ Len(w) = k \/ up = 0
      /\ Len(w) + WantedDepth(l, Position(locs, last)) = d + 1
  BY <1>1 DEF WalkRight
<1>3. last \in Range(w) /\ w # <<>>
  BY <1>1, <1>2 DEF Range
<1>4. OfLoad(locs, l, last)
  BY <1>2, <1>3
<1>5. /\ l \in Loads /\ Position(locs, last) \in 1..Len(Requests[l])
      /\ Len(Requests[l]) \in Nat
      /\ up \notin DOMAIN locs => up = 0
      /\ 0 \notin DOMAIN locs
      /\ up \in DOMAIN locs =>
            /\ OfLoad(locs, l, up)
            /\ Position(locs, up) < Position(locs, last)
            /\ WantedDepth(l, Position(locs, last))
                 = 1 + WantedDepth(l, Position(locs, up))
  BY <1>1, <1>4, StepOut, SMTT(30)
<1>6. WalkStep(locs, id, w)
        = IF up \in DOMAIN locs \ Range(w) THEN Append(w, up) ELSE w
  BY <1>1, <1>3 DEF WalkStep
<1>7. CASE up \notin DOMAIN locs
  <2>1. up = 0 /\ Len(w) \in 1..(k + 1) /\ WalkStep(locs, id, w) = w
    BY <1>2, <1>5, <1>6, <1>7
  <2> QED BY <1>1, <1>2, <2>1 DEF WalkRight
<1>8. CASE up \in DOMAIN locs
  <2>1. /\ OfLoad(locs, l, up) /\ Position(locs, up) < Position(locs, last)
        /\ WantedDepth(l, Position(locs, last))
             = 1 + WantedDepth(l, Position(locs, up))
    BY <1>5, <1>8
  <2>2. \A x \in Range(w) \cup {up} : Position(locs, x) \in Nat
    <3>1. ASSUME NEW x, OfLoad(locs, l, x) PROVE Position(locs, x) \in Nat
      <4>1. Position(locs, x) \in 1..Len(Requests[l])
        BY <3>1, StepOut
      <4> QED BY <1>5, <4>1
    <3> QED BY <1>2, <2>1, <3>1
  <2>3. up \notin Range(w)
    <3>1. ASSUME up \in Range(w) PROVE FALSE
      <4>1. Position(locs, last) <= Position(locs, up)
        BY <1>2, <3>1
      <4> QED BY <1>3, <2>1, <2>2, <4>1
    <3> QED BY <3>1
  <2>4. PICK v : v = Append(w, up)
    OBVIOUS
  <2>5. WalkStep(locs, id, w) = v
    BY <1>6, <1>8, <2>3, <2>4
  <2>6. v \in Seq(DOMAIN locs) /\ Len(v) = Len(w) + 1 /\ v[Len(v)] = up
    BY <1>2, <1>8, <2>4
  <2>7. Range(v) = Range(w) \cup {up}
    <3>1. DOMAIN v = 1..(Len(w) + 1) /\ DOMAIN w = 1..Len(w)
      BY <1>2, <2>6
    <3>2. \A i \in DOMAIN w : v[i] = w[i]
      BY <1>2, <2>4, <3>1
    <3>3. v[Len(w) + 1] = up
      BY <2>6
    <3>4. \A i \in DOMAIN v : i \in DOMAIN w \/ i = Len(w) + 1
      BY <1>2, <3>1
    <3>5. DOMAIN w \subseteq DOMAIN v /\ Len(w) + 1 \in DOMAIN v
      BY <1>2, <3>1
    <3> QED BY <3>2, <3>3, <3>4, <3>5 DEF Range
  <2>8. /\ IsFiniteSet(Range(v)) /\ Cardinality(Range(v)) = Len(v)
    BY <1>2, <2>3, <2>6, <2>7, FS_AddElement
  <2>9. \A x \in Range(v) : /\ OfLoad(locs, l, x)
                            /\ Position(locs, up) <= Position(locs, x)
    <3> SUFFICES ASSUME NEW x \in Range(w) \cup {up}
                 PROVE  /\ OfLoad(locs, l, x)
                        /\ Position(locs, up) <= Position(locs, x)
      BY <2>7
    <3>1. Position(locs, x) \in Nat /\ Position(locs, up) \in Nat
          /\ Position(locs, last) \in Nat
      BY <1>3, <2>2
    <3> QED BY <1>2, <2>1, <3>1
  <2>10. Len(w) = k
    BY <1>2, <1>5, <1>8
  <2>11. Len(v) = k + 1 /\ Len(v) \in 1..(k + 1)
    BY <2>6, <2>10
  <2>12. Len(v) + WantedDepth(l, Position(locs, up)) = d + 1
    <3>1. WantedDepth(l, Position(locs, up)) \in Nat
      <4>1. Position(locs, up) \in 1..Len(Requests[l])
        BY <2>1, StepOut
      <4> QED BY <1>5, <4>1, DepthIs
    <3>2. PICK a, b : /\ a = WantedDepth(l, Position(locs, last))
                      /\ b = WantedDepth(l, Position(locs, up))
      OBVIOUS
    <3>3. b \in Nat /\ a = 1 + b /\ k + a = d + 1
      BY <1>2, <2>1, <2>10, <3>1, <3>2
    <3>4. (k + 1) + b = d + 1
      BY <3>3
    <3> QED BY <2>11, <3>2, <3>4
  <2> QED BY <2>5, <2>6, <2>8, <2>9, <2>11, <2>12 DEF WalkRight
<1> QED BY <1>7, <1>8

\* The walk from a location that a load has added finds how deep the request
\* has nested it.
LEMMA DepthFound ==
    ASSUME NEW tb, NEW nid, NetboxTyped(tb, nid), StorePlaced(tb), NEW locs,
           locs = tb["location"], NEW l, NEW id, OfLoad(locs, l, id),
           NEW n \in Nat, n = Cardinality(DOMAIN locs),
           IsFiniteSet(DOMAIN locs), NEW g, IsWalk(g, locs, id, n)
    PROVE  Len(g[n]) - 1 = WantedDepth(l, Position(locs, id))
<1>1. PICK d : d = WantedDepth(l, Position(locs, id))
  OBVIOUS
<1>2. /\ l \in Loads /\ Position(locs, id) \in 1..Len(Requests[l])
      /\ Len(Requests[l]) \in Nat
  BY StepOut
<1>3. d \in Nat
  BY <1>1, <1>2, DepthIs
<1>4. id \in DOMAIN locs
  BY DEF OfLoad
<1>5. n >= 1
  <2>1. n # 0
    BY <1>4, FS_EmptySet
  <2> QED BY <2>1
<1>6. \A k \in 0..n : g[k] = IF k = 0 THEN <<>> ELSE WalkStep(locs, id, g[k - 1])
  BY DEF IsWalk
<1>7. WalkRight(g[1], 1, locs, l, d)
  <2>1. g[1] = WalkStep(locs, id, <<>>)
    BY <1>5, <1>6
  <2>2. Range(<<>>) = {}
    BY DEF Range
  <2>3. PICK v : v = <<id>>
    OBVIOUS
  <2>4. g[1] = v
    BY <1>4, <2>1, <2>2, <2>3 DEF WalkStep
  <2>5. v \in Seq(DOMAIN locs) /\ Len(v) = 1 /\ v[1] = id /\ DOMAIN v = {1}
    <3>1. v \in Seq(DOMAIN locs) /\ Len(v) = 1 /\ v[1] = id
      <4>1. \A D : \A x \in D : <<x>> \in Seq(D)
        OBVIOUS
      <4> QED BY <1>4, <2>3, <4>1
    <3>2. DOMAIN v = 1..1
      BY <3>1
    <3>3. \A i : i \in 1..1 <=> i = 1
      OBVIOUS
    <3> QED BY <3>1, <3>2, <3>3
  <2>6. Range(v) = {id}
    BY <2>5 DEF Range
  <2>7. IsFiniteSet({id}) /\ Cardinality({id}) = 1
    BY FS_Singleton
  <2>8. Position(locs, id) \in Nat
    BY <1>2
  <2>9. \A x \in Range(v) : /\ OfLoad(locs, l, x)
                            /\ Position(locs, id) <= Position(locs, x)
    BY <2>6, <2>8
  <2>10. Len(v) + WantedDepth(l, Position(locs, id)) = d + 1 /\ Len(v) \in 1..1
    BY <1>1, <1>3, <2>5
  <2> QED BY <2>4, <2>5, <2>6, <2>7, <2>9, <2>10 DEF WalkRight
<1> DEFINE B == {k \in 1..n : ~WalkRight(g[k], k, locs, l, d)}
<1>8. ASSUME B # {} PROVE FALSE
  <2>1. PICK k \in B : \A m \in B : k <= m
    <3>1. B \in SUBSET Nat
      OBVIOUS
    <3> HIDE DEF B
    <3> QED BY <1>8, <3>1, LeastNumber
  <2>2. k \in 1..n /\ ~WalkRight(g[k], k, locs, l, d)
    OBVIOUS
  <2>3. k # 1
    BY <1>7, <2>2
  <2>4. k - 1 \in 1..n /\ ~(k <= k - 1) /\ k - 1 \in Nat /\ (k - 1) + 1 = k
    BY <2>2, <2>3
  <2>5. WalkRight(g[k - 1], k - 1, locs, l, d)
    BY <2>1, <2>4
  <2>6. WalkRight(WalkStep(locs, id, g[k - 1]), (k - 1) + 1, locs, l, d)
    <3>1. PICK w, j : w = g[k - 1] /\ j = k - 1 /\ j \in Nat
      BY <2>4
    <3>2. WalkRight(w, j, locs, l, d)
      BY <2>5, <3>1
    <3>3. WalkRight(WalkStep(locs, id, w), j + 1, locs, l, d)
      BY <3>1, <3>2, WalkGoesOn
    <3> QED BY <3>1, <3>3
  <2>7. g[k] = WalkStep(locs, id, g[k - 1])
    BY <1>6, <2>2
  <2> QED BY <2>2, <2>4, <2>6, <2>7
<1>9. PICK w, last, up : w = g[n] /\ last = w[Len(w)] /\ up = locs[last].location
  OBVIOUS
<1>10. WalkRight(w, n, locs, l, d)
  BY <1>5, <1>8, <1>9
<1>11. /\ w \in Seq(DOMAIN locs) /\ Len(w) \in 1..n
       /\ IsFiniteSet(Range(w)) /\ Cardinality(Range(w)) = Len(w)
       /\ \A x \in Range(w) : /\ OfLoad(locs, l, x)
                              /\ Position(locs, last) <= Position(locs, x)
       /\ Len(w) = n \/ up = 0
       /\ Len(w) + WantedDepth(l, Position(locs, last)) = d + 1
  BY <1>9, <1>10 DEF WalkRight
<1>12. last \in Range(w)
  BY <1>9, <1>11 DEF Range
<1>o. OfLoad(locs, l, last) /\ last \in DOMAIN locs
  BY <1>11, <1>12 DEF OfLoad
<1>13. /\ Position(locs, last) \in 1..Len(Requests[l])
       /\ up \notin DOMAIN locs =>
             /\ up = 0
             /\ WantedDepth(l, Position(locs, last)) = 0
       /\ 0 \notin DOMAIN locs
       /\ up \in DOMAIN locs => /\ OfLoad(locs, l, up)
                                /\ Position(locs, up) < Position(locs, last)
  <2>1. locs[last].location \notin DOMAIN locs =>
            /\ locs[last].location = 0
            /\ WantedDepth(l, Position(locs, last)) = 0
    BY <1>o, StepOut, Zenon
  <2>2. /\ Position(locs, last) \in 1..Len(Requests[l])
        /\ 0 \notin DOMAIN locs
    BY <1>o, StepOut
  <2>3. locs[last].location \in DOMAIN locs =>
            /\ OfLoad(locs, l, locs[last].location)
            /\ Position(locs, locs[last].location) < Position(locs, last)
    BY <1>o, StepOut
  <2> QED BY <1>9, <2>1, <2>2, <2>3
<1>14. up \notin DOMAIN locs
  <2>1. ASSUME up \in DOMAIN locs PROVE FALSE
    <3>1. Len(w) = n
      BY <1>11, <1>13, <2>1
    <3>2. Range(w) \in SUBSET DOMAIN locs
      BY <1>11 DEF OfLoad
    <3>3. Range(w) = DOMAIN locs
      BY <1>11, <3>1, <3>2, FS_Subset
    <3>4. Position(locs, last) <= Position(locs, up)
      BY <1>11, <2>1, <3>3
    <3>5. Position(locs, up) \in 1..Len(Requests[l])
      BY <1>13, <2>1, StepOut
    <3> QED BY <1>2, <1>13, <2>1, <3>4, <3>5
  <2> QED BY <2>1
<1>15. WantedDepth(l, Position(locs, last)) = 0
  BY <1>13, <1>14
<1>16. Len(w) \in Nat
  BY <1>11
<1>17. Len(w) - 1 = d
  <2>1. PICK a \in Nat : a = Len(w)
    BY <1>16
  <2>2. a + 0 = d + 1
    BY <1>11, <1>15, <2>1
  <2> QED BY <1>3, <2>1, <2>2
<1> QED BY <1>1, <1>9, <1>17

\* What the walk of the store itself finds for a location.
LEMMA DepthRead ==
    ASSUME NetboxInv, NEW l, NEW id, OfLoad(locations, l, id)
    PROVE  Len(LocationAncestors(id)) - 1
               = WantedDepth(l, Position(locations, id))
<1>1. PICK tb, nid : tb = Tables /\ nid = nextID
  OBVIOUS
<1>2. NetboxTyped(tb, nid) /\ StorePlaced(tb) /\ "location" \in Kinds
  BY <1>1 DEF NetboxInv, Kinds
<1>3. PICK locs : locs = locations
  OBVIOUS
<1>4. locs = tb["location"] /\ OfLoad(locs, l, id)
  BY <1>1, <1>3, TablesAre
<1>5. IsFiniteSet(DOMAIN locs)
  BY <1>2, <1>4, FiniteTable
<1>6. PICK n \in Nat : n = Cardinality(DOMAIN locs)
  BY <1>5, FS_CardinalityType
<1>7. PICK g : IsWalk(g, locations, id, n) /\ LocationAncestors(id) = g[n]
  BY <1>3, <1>6, AncestorsWalk
<1>8. IsWalk(g, locs, id, n)
  BY <1>3, <1>7
<1>9. Len(g[n]) - 1 = WantedDepth(l, Position(locs, id))
  BY <1>2, <1>4, <1>5, <1>6, <1>8, DepthFound
<1> QED BY <1>3, <1>7, <1>9

-----------------------------------------------------------------------------
(***************************************************************************)
(* Lists of netbox-sim.                                                    *)
(***************************************************************************)
Fields == {"location", "locationDepth", "depth", "site", "rack"}

\* What may be read for a row of one kind: what it refers to, and for a
\* location its depth.
Readable(kind, row) ==
    {f \in Fields : /\ f \in {"location", "locationDepth"} => row.location # 0
                    /\ f = "depth" => kind = "location"
                    /\ f = "site" => kind # "site"
                    /\ f = "rack" => kind = "device"}

\* What the read should return.
Wanted(row, f) ==
    LET l == row.name[1]
        p == PartOf(row.name)
    IN [site |-> <<l, p.site>>, rack |-> <<l, p.rack>>,
        location |-> <<l, p.location>>,
        locationDepth |-> WantedDepth(l, p.location),
        depth |-> WantedDepth(l, row.name[2])][f]

\* The row is the one that the table has under its number.
Stands(table, row) == row.id \in DOMAIN table /\ table[row.id] = row

\* A list that no reset has overtaken: its row is in the store, it reads what
\* the row refers to, and what it has read is right.
ListRight(tb, c) ==
    /\ c = [kind |-> c.kind, row |-> c.row, reads |-> c.reads, got |-> c.got]
    /\ c.kind \in Kinds
    /\ Stands(tb[c.kind], c.row)
    /\ c.reads \in Seq(Readable(c.kind, c.row))
    /\ DOMAIN c.got \subseteq Readable(c.kind, c.row)
    /\ \A f \in DOMAIN c.got : c.row.current => c.got[f] = Wanted(c.row, f)

\* The inductive invariant of the lists.
ListsInv == \A q \in DOMAIN lists : ListRight(Tables, lists[q])

\* A list stays right when the store grows.
LEMMA ListOn ==
    ASSUME NEW tb, NEW tb2, Grown(tb, tb2), NEW c, ListRight(tb, c)
    PROVE  ListRight(tb2, c)
<1>1. c.kind \in Kinds /\ Stands(tb[c.kind], c.row)
  BY DEF ListRight
<1>2. Stands(tb2[c.kind], c.row)
  BY <1>1 DEF Stands, Grown
<1> QED BY <1>2 DEF ListRight

\* A list starts with reads of what the row refers to.
LEMMA ReadsReadable ==
    ASSUME NEW kind \in Kinds, NEW row
    PROVE  Reads(kind, row) \in Seq(Readable(kind, row))
<1>1. PICK R : R = Readable(kind, row)
  OBVIOUS
<1>2. PICK up : up = IF row.location = 0 THEN <<>>
                     ELSE <<"location", "locationDepth">>
  OBVIOUS
<1>3. Reads(kind, row) = CASE kind = "site"     -> <<>>
                           [] kind = "location" -> up \o <<"depth", "site">>
                           [] kind = "rack"     -> up \o <<"site">>
                           [] kind = "device"   -> up \o <<"site", "rack">>
  BY <1>2 DEF Reads
<1>4. /\ \A D : <<>> \in Seq(D)
      /\ \A D : \A x \in D : <<x>> \in Seq(D)
      /\ \A D : \A x, y \in D : <<x, y>> \in Seq(D)
      /\ \A D : \A s, t \in Seq(D) : s \o t \in Seq(D)
  OBVIOUS
<1>5. up \in Seq(R)
  <2>1. row.location # 0 => "location" \in R /\ "locationDepth" \in R
    BY <1>1 DEF Readable, Fields
  <2> QED BY <1>2, <1>4, <2>1
<1>6. CASE kind = "site"
  BY <1>1, <1>3, <1>4, <1>6
<1>7. CASE kind = "location"
  <2>1. "depth" \in R /\ "site" \in R
    BY <1>1, <1>7 DEF Readable, Fields
  <2>2. <<"depth", "site">> \in Seq(R)
    BY <1>4, <2>1
  <2>3. up \o <<"depth", "site">> \in Seq(R)
    BY <1>4, <1>5, <2>2
  <2> QED BY <1>1, <1>3, <1>7, <2>3
<1>8. CASE kind = "rack"
  <2>1. "site" \in R
    BY <1>1, <1>8 DEF Readable, Fields
  <2>2. <<"site">> \in Seq(R)
    BY <1>4, <2>1
  <2>3. up \o <<"site">> \in Seq(R)
    BY <1>4, <1>5, <2>2
  <2> QED BY <1>1, <1>3, <1>8, <2>3
<1>9. CASE kind = "device"
  <2>1. "rack" \in R /\ "site" \in R
    BY <1>1, <1>9 DEF Readable, Fields
  <2>2. <<"site", "rack">> \in Seq(R)
    BY <1>4, <2>1
  <2>3. up \o <<"site", "rack">> \in Seq(R)
    BY <1>4, <1>5, <2>2
  <2> QED BY <1>1, <1>3, <1>9, <2>3
<1> QED BY <1>6, <1>7, <1>8, <1>9 DEF Kinds

\* What is read for a row of the store is what the request says.
LEMMA ReadRight ==
    ASSUME NetboxInv, NEW kind \in Kinds, NEW row, Stands(Tables[kind], row),
           row.current, NEW f \in Readable(kind, row)
    PROVE  Read(f, row) = Wanted(row, f)
<1>1. PICK l, p, n : l = row.name[1] /\ p = PartOf(row.name) /\ n = row.name[2]
  OBVIOUS
<1>2. RowPlaced(Tables, kind, row)
  BY DEF Stands, NetboxInv, StorePlaced
<1>3. /\ l \in Loads /\ n \in 1..Len(Requests[l]) /\ p.kind = kind
      /\ LeadsTo(sites, row.site, l, p.site)
      /\ LeadsTo(locations, row.location, l, p.location)
      /\ LeadsTo(racks, row.rack, l, p.rack)
      /\ p.location # 0 => locations[row.location].current
  BY <1>1, <1>2, TablesAre DEF RowPlaced
<1>4. p = Requests[l][n]
  BY <1>1 DEF PartOf
<1>5. p.kind = "site" <=> p.site = 0
  <2>1. l \in Loads
    BY <1>3
  <2>2. n \in 1..Len(Requests[l])
    BY <1>3
  <2> QED BY <1>4, <2>1, <2>2, PartsNested
<1>6. p.kind = "device" => p.rack # 0
  <2>1. l \in Loads
    BY <1>3
  <2>2. n \in 1..Len(Requests[l])
    BY <1>3
  <2> QED BY <1>4, <2>1, <2>2, PartsNested, Zenon
<1>7. /\ f \in Fields
      /\ f \in {"location", "locationDepth"} => row.location # 0
      /\ f = "depth" => kind = "location"
      /\ f = "site" => kind # "site"
      /\ f = "rack" => kind = "device"
  BY DEF Readable
<1>8. CASE f = "site"
  <2>1. NameIn(sites, row.site) = <<l, p.site>>
    BY <1>3, <1>5, <1>7, <1>8 DEF NameIn, LeadsTo
  <2> QED BY <1>1, <1>8, <2>1 DEF Read, Wanted
<1>9. CASE f = "rack"
  <2>1. NameIn(racks, row.rack) = <<l, p.rack>>
    BY <1>3, <1>6, <1>7, <1>9 DEF NameIn, LeadsTo
  <2> QED BY <1>1, <1>9, <2>1 DEF Read, Wanted
<1>10. ASSUME f \in {"location", "locationDepth"}
       PROVE  /\ NameIn(locations, row.location) = <<l, p.location>>
              /\ OfLoad(locations, l, row.location)
              /\ Position(locations, row.location) = p.location
  <2>1. p.location # 0
    BY <1>3, <1>7, <1>10 DEF LeadsTo
  <2>2. /\ row.location \in DOMAIN locations
        /\ locations[row.location].name = <<l, p.location>>
        /\ locations[row.location].current
    BY <1>3, <2>1 DEF LeadsTo
  <2> QED BY <2>2 DEF NameIn, OfLoad, Position
<1>11. CASE f = "location"
  <2>1. NameIn(locations, row.location) = <<l, p.location>>
    BY <1>10, <1>11
  <2> QED BY <1>1, <1>11, <2>1 DEF Read, Wanted
<1>12. CASE f = "locationDepth"
  <2>1. Len(LocationAncestors(row.location)) - 1 = WantedDepth(l, p.location)
    <3>1. /\ OfLoad(locations, l, row.location)
          /\ Position(locations, row.location) = p.location
      BY <1>10, <1>12
    <3>2. Len(LocationAncestors(row.location)) - 1
            = WantedDepth(l, Position(locations, row.location))
      BY <3>1, DepthRead
    <3> QED BY <3>1, <3>2
  <2> QED BY <1>1, <1>12, <2>1 DEF Read, Wanted
<1>13. CASE f = "depth"
  <2>1. row.id \in DOMAIN locations /\ locations[row.id] = row
    BY <1>7, <1>13, TablesAre DEF Stands
  <2>2. OfLoad(locations, l, row.id) /\ Position(locations, row.id) = n
    BY <1>1, <2>1 DEF OfLoad, Position
  <2>3. Len(LocationAncestors(row.id)) - 1 = WantedDepth(l, n)
    <3>1. Len(LocationAncestors(row.id)) - 1
            = WantedDepth(l, Position(locations, row.id))
      BY <2>2, DepthRead
    <3> QED BY <2>2, <3>1
  <2> QED BY <1>1, <1>13, <2>3 DEF Read, Wanted
<1> QED BY <1>7, <1>8, <1>9, <1>11, <1>12, <1>13 DEF Fields

\* What matches is in the store.
LEMMA MatchingStands ==
    ASSUME NetboxInv, NEW kind \in Kinds, NEW row \in UNION Matching(kind)
    PROVE  Stands(Tables[kind], row)
<1>1. row \in Range(Table(kind))
  <2>1. CASE kind = "site"
    BY <2>1 DEF Matching, Table
  <2>2. CASE kind = "location"
    BY <2>2 DEF Matching, Table
  <2>3. CASE kind = "rack"
    BY <2>3 DEF Matching, Table
  <2>4. CASE kind = "device"
    BY <2>4 DEF Matching, Table
  <2> QED BY <2>1, <2>2, <2>3, <2>4 DEF Kinds
<1>2. PICK id \in DOMAIN Tables[kind] : row = Tables[kind][id]
  BY <1>1, TablesAre DEF Range
<1>3. row.id = id
  BY <1>2 DEF NetboxInv, NetboxTyped
<1> QED BY <1>2, <1>3 DEF Stands

\* What one more read makes of a list: m is where it goes on.
WithRead(c, m) ==
    [c EXCEPT !.got = [x \in {Head(c.reads)} |-> Read(x, c.row)],
              !.reads = SubSeq(@, m, Len(@))]

\* A read keeps a list right.
LEMMA ReadGoesOn ==
    ASSUME NetboxInv, NEW c, ListRight(Tables, c), c.reads # <<>>, NEW m \in {2, 3},
           NEW d, d = WithRead(c, m)
    PROVE  ListRight(Tables, d)
<1>1. PICK R, f, got, reads :
          /\ R = Readable(c.kind, c.row) /\ f = Head(c.reads)
          /\ got = [x \in {f} |-> Read(x, c.row)]
          /\ reads = SubSeq(c.reads, m, Len(c.reads))
  OBVIOUS
<1>2. /\ c = [kind |-> c.kind, row |-> c.row, reads |-> c.reads, got |-> c.got]
      /\ c.kind \in Kinds /\ Stands(Tables[c.kind], c.row) /\ c.reads \in Seq(R)
  BY <1>1 DEF ListRight
<1>3. d = [kind |-> c.kind, row |-> c.row, reads |-> reads, got |-> got]
  BY <1>1, <1>2 DEF WithRead
<1>4. /\ d.kind = c.kind /\ d.row = c.row /\ d.reads = reads /\ d.got = got
      /\ d = [kind |-> d.kind, row |-> d.row, reads |-> d.reads, got |-> d.got]
  BY <1>3
<1>5. f \in R
  BY <1>1, <1>2
<1>6. reads \in Seq(R)
  <2>1. \A i \in m..Len(c.reads) : c.reads[i] \in R
    BY <1>2
  <2>2. m \in Nat /\ Len(c.reads) \in Nat
    BY <1>2
  <2> QED BY <1>1, <2>1, <2>2, SubSeqProperties
<1>7. ASSUME c.row.current PROVE got[f] = Wanted(c.row, f)
  <2>1. Read(f, c.row) = Wanted(c.row, f)
    BY <1>1, <1>2, <1>5, <1>7, ReadRight
  <2> QED BY <1>1, <2>1
<1>8. DOMAIN got = {f}
  BY <1>1
<1> QED BY <1>1, <1>2, <1>4, <1>5, <1>6, <1>7, <1>8 DEF ListRight

\* What every step does to the lists.
LEMMA ListsStep ==
    ASSUME NetboxInv, ListsInv, [NetboxNext]_netboxVars
    PROVE  ListsInv'
<1>1. NetboxInv' /\ (Grown(Tables, Tables') \/ lists' = EmptyMap)
  BY NetboxInvStep
<1>2. ASSUME \A q \in DOMAIN lists' : ListRight(Tables, lists'[q]),
             Grown(Tables, Tables')
      PROVE  ListsInv'
  <2>1. PICK tb, tb2 : tb = Tables /\ tb2 = Tables'
    OBVIOUS
  <2>2. \A q \in DOMAIN lists' : ListRight(tb2, lists'[q])
    BY <1>2, <2>1, ListOn
  <2> QED BY <2>1, <2>2 DEF ListsInv
<1>3. ASSUME lists' = EmptyMap PROVE ListsInv'
  BY <1>3, EmptyIsMap DEF ListsInv
<1>4. ASSUME UNCHANGED lists PROVE ListsInv'
  BY <1>1, <1>2, <1>3, <1>4 DEF ListsInv
<1>5. ASSUME UNCHANGED <<sites, locations, racks, devices>>,
             \A q \in DOMAIN lists' : ListRight(Tables, lists'[q])
      PROVE  ListsInv'
  <2>1. Tables' = Tables
    BY <1>5 DEF Tables, Table
  <2> QED BY <1>5, <2>1 DEF ListsInv
<1>6. ASSUME NEW q \in Lists, NEW kind \in Kinds,
             NEW row \in UNION Matching(kind), ListBegin(q, kind, row)
      PROVE  ListsInv'
  <2>1. PICK c : c = [kind |-> kind, row |-> row, reads |-> Reads(kind, row),
                      got |-> EmptyMap]
    OBVIOUS
  <2>2. /\ c.kind = kind /\ c.row = row /\ c.reads = Reads(kind, row)
        /\ c.got = EmptyMap
        /\ c = [kind |-> c.kind, row |-> c.row, reads |-> c.reads, got |-> c.got]
    BY <2>1
  <2>3. /\ Stands(Tables[kind], row) /\ DOMAIN EmptyMap = {}
        /\ Reads(kind, row) \in Seq(Readable(kind, row))
    BY MatchingStands, ReadsReadable, EmptyIsMap
  <2>4. ListRight(Tables, c)
    BY <2>2, <2>3 DEF ListRight
  <2>5. lists' = Put(lists, q, c)
    BY <1>6, <2>1 DEF ListBegin
  <2>6. \A r \in DOMAIN lists' : ListRight(Tables, lists'[r])
    BY <2>4, <2>5 DEF ListsInv, Put
  <2> QED BY <1>5, <1>6, <2>6 DEF ListBegin
<1>7. ASSUME NEW q \in Lists, ListRead(q) PROVE ListsInv'
  <2>1. PICK c : c = lists[q]
    OBVIOUS
  <2>2. q \in DOMAIN lists /\ c.reads # <<>> /\ ListRight(Tables, c)
    BY <1>7, <2>1 DEF ListRead, ListsInv
  <2>3. PICK f, got, m : /\ f = Head(c.reads) /\ got = [x \in {f} |-> Read(x, c.row)]
                         /\ m = IF f = "location"
                                      /\ c.row.location \notin DOMAIN locations
                                THEN 3 ELSE 2
    OBVIOUS
  <2>4. lists' = [lists EXCEPT ![q].got = got,
                               ![q].reads = SubSeq(@, m, Len(@))]
    BY <1>7, <2>1, <2>3 DEF ListRead
  <2>5. PICK d : d = [c EXCEPT !.got = got, !.reads = SubSeq(@, m, Len(@))]
    OBVIOUS
  <2>6. c = [kind |-> c.kind, row |-> c.row, reads |-> c.reads, got |-> c.got]
    BY <2>2 DEF ListRight
  <2>7. /\ DOMAIN lists' = DOMAIN lists /\ lists'[q] = d
        /\ \A r \in DOMAIN lists : r # q => lists'[r] = lists[r]
    BY <2>1, <2>2, <2>4, <2>5, <2>6
  <2>8. m \in {2, 3}
    BY <2>3
  <2>9. ListRight(Tables, d)
    <3>1. d = WithRead(c, m)
      BY <2>3, <2>5 DEF WithRead
    <3> QED BY <2>2, <2>8, <3>1, ReadGoesOn
  <2>10. \A r \in DOMAIN lists' : ListRight(Tables, lists'[r])
    BY <2>7, <2>9 DEF ListsInv
  <2> QED BY <1>5, <1>7, <2>10 DEF ListRead
<1>8. ASSUME NEW q \in Lists, ListEnd(q) PROVE ListsInv'
  <2>1. \A r \in DOMAIN lists' : ListRight(Tables, lists'[r])
    BY <1>8 DEF ListEnd, ListsInv, Drop, Restrict
  <2> QED BY <1>5, <1>8, <2>1 DEF ListEnd
<1>9. ASSUME NEW l \in Loads, BulkLoad(l) \/ LoadStep(l) PROVE ListsInv'
  BY <1>4, <1>9 DEF BulkLoad, LoadStep, AddSite, AddLocation, AddRack, AddDevice,
                    Loaded
<1>10. ASSUME NetboxReset PROVE ListsInv'
  BY <1>3, <1>10 DEF NetboxReset
<1>11. ASSUME UNCHANGED netboxVars PROVE ListsInv'
  BY <1>4, <1>11 DEF netboxVars
<1> QED BY <1>6, <1>7, <1>8, <1>9, <1>10, <1>11 DEF NetboxNext

\* A list of netbox-sim that no reset has overtaken shows every item with the
\* references and depths of the request that loaded it (siteRef, locationRef,
\* rackRef and LocationAncestors), whatever is loaded between its reads.
THEOREM RepliesSafe == NetboxSpec => []RepliesRight
<1>1. NetboxInit => ListsInv
  BY EmptyIsMap DEF NetboxInit, ListsInv
<1>2. NetboxInv /\ ListsInv /\ [NetboxNext]_netboxVars => ListsInv'
  BY ListsStep
<1>3. ListsInv => RepliesRight
  <2> SUFFICES ASSUME ListsInv, NEW q \in DOMAIN lists,
                      NEW f \in DOMAIN lists[q].got, lists[q].row.current
               PROVE  lists[q].got[f] = Wanted(lists[q].row, f)
    BY DEF RepliesRight, Wanted
  <2> QED BY DEF ListsInv, ListRight
<1> QED BY <1>1, <1>2, <1>3, NetboxSafe, PTL DEF NetboxSpec

-----------------------------------------------------------------------------
(***************************************************************************)
(* The hosts of an environment: where the loops of the generator, and the  *)
(* launcher's, put the h-th host of a rack.                                *)
(***************************************************************************)
\* g[i] is the first i of the sequences ss put together.
IsFlat(g, ss, n) ==
    g = [i \in 1..n |-> IF i = 1 THEN ss[i] ELSE g[i - 1] \o ss[i]]

\* There is such a function for any sequences.
LEMMA FlatExists ==
    ASSUME NEW ss, NEW n \in Nat
    PROVE  \E g : IsFlat(g, ss, n)
<1> DEFINE T == {k \in Nat : ~\E g : IsFlat(g, ss, k)}
<1>1. SUFFICES ASSUME T # {} PROVE FALSE
  OBVIOUS
<1>2. PICK k \in T : \A m \in T : k <= m
  <2>1. T \in SUBSET Nat
    OBVIOUS
  <2> HIDE DEF T
  <2> QED BY <1>1, <2>1, LeastNumber
<1>3. k # 0
  <2>1. ASSUME k = 0 PROVE FALSE
    <3> DEFINE g == [i \in 1..0 |-> 0]
    <3>1. IsFlat(g, ss, 0)
      BY DEF IsFlat
    <3> QED BY <2>1, <3>1
  <2> QED BY <2>1
<1>4. k \in Nat /\ ~\E g : IsFlat(g, ss, k)
  OBVIOUS
<1>5. k - 1 \in Nat /\ ~(k <= k - 1)
  BY <1>3, <1>4
<1>6. PICK g : IsFlat(g, ss, k - 1)
  BY <1>2, <1>5
<1>7. \A i \in 1..(k - 1) : g[i] = IF i = 1 THEN ss[i] ELSE g[i - 1] \o ss[i]
  BY <1>5, <1>6 DEF IsFlat
<1> DEFINE last == IF k = 1 THEN ss[k] ELSE g[k - 1] \o ss[k]
           h == [i \in 1..k |-> IF i = k THEN last ELSE g[i]]
<1>8. \A i \in 1..k : h[i] = IF i = 1 THEN ss[i] ELSE h[i - 1] \o ss[i]
  <2> SUFFICES ASSUME NEW i \in 1..k
               PROVE  h[i] = IF i = 1 THEN ss[i] ELSE h[i - 1] \o ss[i]
    OBVIOUS
  <2>1. i # 1 => h[i - 1] = g[i - 1]
    BY <1>4
  <2>2. CASE i = k
    BY <2>1, <2>2
  <2>3. CASE i # k
    <3>1. h[i] = g[i] /\ i \in 1..(k - 1)
      BY <1>4, <2>3
    <3> QED BY <1>7, <2>1, <3>1
  <2> QED BY <2>2, <2>3
<1>9. IsFlat(h, ss, k)
  BY <1>8 DEF IsFlat
<1> QED BY <1>4, <1>9

\* FlattenSeq takes what it returns from such a function.
LEMMA FlatIsLast ==
    ASSUME NEW ss, NEW n \in Nat, n = Len(ss), n # 0
    PROVE  \E g : IsFlat(g, ss, n) /\ FlattenSeq(ss) = g[n]
<1> DEFINE f[i \in 1..Len(ss)] == IF i = 1 THEN ss[i] ELSE f[i - 1] \o ss[i]
<1>1. \E g : IsFlat(g, ss, n)
  BY FlatExists
<1>2. f = [i \in 1..n |-> IF i = 1 THEN ss[i] ELSE f[i - 1] \o ss[i]]
  BY <1>1 DEF IsFlat
<1>3. FlattenSeq(ss) = f[n]
  BY DEF FlattenSeq
<1> HIDE DEF f
<1>4. IsFlat(f, ss, n)
  BY <1>2 DEF IsFlat
<1> QED BY <1>3, <1>4

\* off[i] is where the i-th of the sequences ends.
Offsets(off, ss, n) ==
    /\ off \in [0..n -> Nat] /\ off[0] = 0
    /\ \A i \in 1..n : off[i] = off[i - 1] + Len(ss[i])

\* The sequence f has the first i of the sequences ss in their places.
InPlace(f, ss, off, i) ==
    /\ Len(f) = off[i]
    /\ \A a \in 1..i : \A j \in 1..Len(ss[a]) :
           off[a - 1] + j \in 1..off[i] /\ f[off[a - 1] + j] = ss[a][j]

\* FlattenSeq puts the sequences in their places.
LEMMA FlatInPlace ==
    ASSUME NEW T, NEW ss \in Seq(Seq(T)), NEW n \in Nat, n = Len(ss),
           NEW off, Offsets(off, ss, n)
    PROVE  FlattenSeq(ss) \in Seq(T) /\ InPlace(FlattenSeq(ss), ss, off, n)
<1>1. CASE n = 0
  <2>1. ss = <<>> /\ FlattenSeq(ss) = ss
    <3>1. ss = <<>>
      <4>1. PICK D : D = Seq(T)
        OBVIOUS
      <4> QED BY <1>1, <4>1, EmptySeq
    <3>2. Len(ss) = 0
      BY <1>1
    <3>3. FlattenSeq(ss) = ss
      BY <3>2, Zenon DEF FlattenSeq
    <3> QED BY <3>1, <3>3
  <2>2. <<>> \in Seq(T)
    OBVIOUS
  <2>3. Len(ss) = off[0] /\ 1..0 = {}
    BY <1>1 DEF Offsets
  <2> QED BY <1>1, <2>1, <2>2, <2>3 DEF InPlace
<1>2. CASE n # 0
  <2>1. PICK g : IsFlat(g, ss, n) /\ FlattenSeq(ss) = g[n]
    BY <1>2, FlatIsLast
  <2>2. \A i \in 1..n : g[i] = IF i = 1 THEN ss[i] ELSE g[i - 1] \o ss[i]
    BY <2>1 DEF IsFlat
  <2>3. /\ off \in [0..n -> Nat] /\ off[0] = 0
        /\ \A i \in 1..n : off[i] = off[i - 1] + Len(ss[i])
    BY DEF Offsets
  <2>t. \A i \in 1..n : ss[i] \in Seq(T) /\ Len(ss[i]) \in Nat
    OBVIOUS
  <2> DEFINE B == {i \in 1..n : ~(g[i] \in Seq(T) /\ InPlace(g[i], ss, off, i))}
  <2>4. ASSUME B # {} PROVE FALSE
    <3>1. PICK i \in B : \A m \in B : i <= m
      <4>1. B \in SUBSET Nat
        OBVIOUS
      <4> HIDE DEF B
      <4> QED BY <2>4, <4>1, LeastNumber
    <3>2. i \in 1..n /\ ~(g[i] \in Seq(T) /\ InPlace(g[i], ss, off, i))
      OBVIOUS
    <3>3. CASE i = 1
      <4>1. g[1] = ss[1] /\ ss[1] \in Seq(T) /\ off[1 - 1] = 0
        BY <2>2, <2>3, <2>t, <3>2, <3>3
      <4>2. off[1] = Len(ss[1]) /\ Len(ss[1]) \in Nat
        BY <2>3, <2>t, <3>2, <3>3, <4>1
      <4>3. \A a \in 1..1 : \A j \in 1..Len(ss[a]) :
                off[a - 1] + j \in 1..off[1] /\ g[1][off[a - 1] + j] = ss[a][j]
        <5> SUFFICES ASSUME NEW j \in 1..Len(ss[1])
                     PROVE  off[1 - 1] + j \in 1..off[1]
                                /\ g[1][off[1 - 1] + j] = ss[1][j]
          OBVIOUS
        <5>1. off[1 - 1] + j = j
          BY <4>1, <4>2
        <5> QED BY <4>1, <4>2, <5>1
      <4> QED BY <3>2, <3>3, <4>1, <4>2, <4>3 DEF InPlace
    <3>4. CASE i # 1
      <4>1. i - 1 \in 1..n /\ ~(i <= i - 1) /\ i - 1 \in 0..n /\ i \in 0..n
        BY <3>2, <3>4
      <4>2. g[i - 1] \in Seq(T) /\ InPlace(g[i - 1], ss, off, i - 1)
        BY <3>1, <4>1
      <4>3. PICK p, q, x, y : /\ p = g[i - 1] /\ q = ss[i] /\ x = off[i - 1]
                              /\ y = off[i]
        OBVIOUS
      <4>4. /\ p \in Seq(T) /\ q \in Seq(T) /\ x \in Nat /\ y = x + Len(q)
            /\ Len(p) = x /\ Len(q) \in Nat /\ g[i] = p \o q /\ y \in Nat
        BY <2>2, <2>3, <2>t, <3>2, <3>4, <4>1, <4>2, <4>3 DEF InPlace
      <4>5. p \o q \in Seq(T) /\ Len(p \o q) = y
        <5>1. \A D : \A s, t \in Seq(D) : /\ s \o t \in Seq(D)
                                          /\ Len(s \o t) = Len(s) + Len(t)
          OBVIOUS
        <5>2. p \o q \in Seq(T) /\ Len(p \o q) = Len(p) + Len(q)
          BY <4>4, <5>1
        <5> QED BY <4>4, <5>2
      <4>6. /\ \A k \in 1..x : (p \o q)[k] = p[k]
            /\ \A k \in 1..Len(q) : (p \o q)[x + k] = q[k]
        BY <4>4, SMTT(30)
      <4>7. ASSUME NEW a \in 1..i, NEW j \in 1..Len(ss[a])
            PROVE  off[a - 1] + j \in 1..y
                       /\ (p \o q)[off[a - 1] + j] = ss[a][j]
        <5>1. CASE a = i
          <6>1. off[a - 1] = x /\ ss[a] = q /\ j \in 1..Len(q)
            BY <4>3, <5>1
          <6> QED BY <4>4, <4>6, <6>1, SMTT(30)
        <5>2. CASE a # i
          <6>1. a \in 1..(i - 1)
            BY <3>2, <5>2
          <6>2. off[a - 1] + j \in 1..x /\ p[off[a - 1] + j] = ss[a][j]
            BY <4>2, <4>3, <6>1 DEF InPlace
          <6>3. off[a - 1] + j \in 1..y
            BY <4>4, <6>2, SMTT(30)
          <6> QED BY <4>6, <6>2, <6>3
        <5> QED BY <5>1, <5>2
      <4> QED BY <3>2, <4>3, <4>4, <4>5, <4>7 DEF InPlace
    <3> QED BY <3>3, <3>4
  <2>5. n \in 1..n
    BY <1>2
  <2> QED BY <2>1, <2>4, <2>5
<1> QED BY <1>1, <1>2

\* The sequences ss are all c long.
EachLong(ss, n, c) == \A i \in 1..n : Len(ss[i]) = c

\* f is n sequences of length c one after the other.
Evenly(f, ss, n, c) ==
    /\ Len(f) = n * c
    /\ \A i \in 1..n : \A j \in 1..c :
          (i - 1) * c + j \in 1..(n * c) /\ f[(i - 1) * c + j] = ss[i][j]

\* FlattenSeq of sequences that are all c long.
LEMMA FlatUniform ==
    ASSUME NEW T, NEW ss \in Seq(Seq(T)), NEW n \in Nat, n = Len(ss),
           NEW c \in Nat, EachLong(ss, n, c)
    PROVE  FlattenSeq(ss) \in Seq(T) /\ Evenly(FlattenSeq(ss), ss, n, c)
<1>1. PICK off : off = [i \in 0..n |-> i * c]
  OBVIOUS
<1>2. \A i \in Nat : i * c \in Nat
  OBVIOUS
<1>3. \A i \in 1..n : i * c = (i - 1) * c + c
  OBVIOUS
<1>4. Offsets(off, ss, n)
  <2>1. off \in [0..n -> Nat] /\ off[0] = 0
    BY <1>1, <1>2
  <2>2. \A i \in 1..n : off[i] = i * c /\ off[i - 1] = (i - 1) * c
    BY <1>1
  <2>3. \A i \in 1..n : off[i] = off[i - 1] + Len(ss[i])
    BY <1>3, <2>2 DEF EachLong
  <2> QED BY <2>1, <2>3 DEF Offsets
<1>5. FlattenSeq(ss) \in Seq(T) /\ InPlace(FlattenSeq(ss), ss, off, n)
  BY <1>4, FlatInPlace
<1>6. off[n] = n * c /\ \A i \in 1..n : off[i - 1] = (i - 1) * c
  BY <1>1
<1>7. PICK f : f = FlattenSeq(ss)
  OBVIOUS
<1>8. /\ Len(f) = off[n]
      /\ \A i \in 1..n : \A j \in 1..Len(ss[i]) :
             off[i - 1] + j \in 1..off[n] /\ f[off[i - 1] + j] = ss[i][j]
  BY <1>5, <1>7 DEF InPlace
<1>9. ASSUME NEW i \in 1..n, NEW j \in 1..c
      PROVE  (i - 1) * c + j \in 1..(n * c) /\ f[(i - 1) * c + j] = ss[i][j]
  <2>1. PICK x, y : x = off[i - 1] /\ y = off[n]
    OBVIOUS
  <2>2. x + j \in 1..y /\ f[x + j] = ss[i][j]
    BY <1>8, <2>1 DEF EachLong
  <2>3. x = (i - 1) * c /\ y = n * c
    BY <1>6, <2>1
  <2> QED BY <2>2, <2>3
<1> QED BY <1>5, <1>6, <1>7, <1>8, <1>9 DEF Evenly

\* The places of hosts, and the numbers of one site.
HostPlace == [site : Nat, row : Nat, rack : Nat]

Sized(env, s, r, k, c) ==
    /\ r = env[s].rows /\ k = env[s].racks /\ c = env[s].hosts
    /\ r \in Nat /\ k \in Nat /\ c \in Nat

\* f is the hosts of a rack of c hosts.
RackIs(f, s, row, rack, c) ==
    /\ f \in Seq(HostPlace) /\ Len(f) = c
    /\ \A h \in 1..c : f[h] = Place(s, row, rack)

\* f is the hosts of a row of k racks of c hosts.
RowIs(f, s, row, k, c) ==
    /\ f \in Seq(HostPlace) /\ Len(f) = k * c
    /\ \A rack \in 1..k : \A h \in 1..c :
          /\ (rack - 1) * c + h \in 1..(k * c)
          /\ f[(rack - 1) * c + h] = Place(s, row, rack)

\* f is the hosts of a site of r rows.
SiteIs(f, s, r, k, c) ==
    /\ f \in Seq(HostPlace) /\ Len(f) = r * k * c
    /\ \A row \in 1..r : \A rack \in 1..k : \A h \in 1..c :
          /\ ((row - 1) * k + rack - 1) * c + h \in 1..(r * k * c)
          /\ f[((row - 1) * k + rack - 1) * c + h] = Place(s, row, rack)

\* The hosts of one rack.
LEMMA RackHostsAre ==
    ASSUME NEW env, NEW s \in Nat, NEW r, NEW k, NEW c, Sized(env, s, r, k, c),
           NEW row \in Nat, NEW rack \in Nat
    PROVE  RackIs(RackHosts(env, s, row, rack), s, row, rack, c)
<1>1. c = env[s].hosts /\ c \in Nat
  BY DEF Sized
<1>2. PICK p : p = Place(s, row, rack)
  OBVIOUS
<1>3. p \in HostPlace
  BY <1>2 DEF Place, HostPlace
<1>4. RackHosts(env, s, row, rack) = [h \in 1..c |-> p]
  BY <1>1, <1>2 DEF RackHosts
<1> QED BY <1>1, <1>2, <1>3, <1>4 DEF RackIs

\* The hosts of one row.
LEMMA RowHostsAre ==
    ASSUME NEW env, NEW s \in Nat, NEW r, NEW k, NEW c, Sized(env, s, r, k, c),
           NEW row \in Nat
    PROVE  RowIs(RowHosts(env, s, row), s, row, k, c)
<1>1. k = env[s].racks /\ k \in Nat /\ c \in Nat
  BY DEF Sized
<1>2. PICK ss : ss = [rack \in 1..k |-> RackHosts(env, s, row, rack)]
  OBVIOUS
<1>3. \A rack \in 1..k : /\ ss[rack] \in Seq(HostPlace) /\ Len(ss[rack]) = c
                         /\ \A h \in 1..c : ss[rack][h] = Place(s, row, rack)
  <2> SUFFICES ASSUME NEW rack \in 1..k PROVE RackIs(ss[rack], s, row, rack, c)
    BY DEF RackIs
  <2>1. rack \in Nat
    BY <1>1
  <2>2. RackIs(RackHosts(env, s, row, rack), s, row, rack, c)
    BY <2>1, RackHostsAre
  <2> QED BY <1>2, <2>2
<1>4. PICK T, D : T = HostPlace /\ D = Seq(T)
  OBVIOUS
<1>5. ss \in Seq(D) /\ Len(ss) = k
  <2>1. ss \in [1..k -> D]
    BY <1>2, <1>3, <1>4
  <2> QED BY <1>1, <2>1
<1>6. ss \in Seq(Seq(T)) /\ k = Len(ss)
  BY <1>4, <1>5
<1>7. EachLong(ss, k, c)
  BY <1>2, <1>3 DEF EachLong
<1>8. PICK f : f = FlattenSeq(ss)
  OBVIOUS
<1>9. f \in Seq(T) /\ Evenly(f, ss, k, c)
  BY <1>1, <1>6, <1>7, <1>8, FlatUniform
<1>10. RowHosts(env, s, row) = f
  BY <1>1, <1>2, <1>8 DEF RowHosts
<1>11. \A i \in 1..k : \A j \in 1..c : ss[i][j] = Place(s, row, i)
  BY <1>2, <1>3
<1>12. RowIs(f, s, row, k, c)
  BY <1>4, <1>9, <1>11 DEF RowIs, Evenly
<1> QED BY <1>10, <1>12

\* The hosts of one site.
LEMMA SiteHostsAre ==
    ASSUME NEW env, NEW s \in Nat, NEW r, NEW k, NEW c, Sized(env, s, r, k, c)
    PROVE  SiteIs(SiteHosts(env, s), s, r, k, c)
<1>1. r = env[s].rows /\ r \in Nat /\ k \in Nat /\ c \in Nat
  BY DEF Sized
<1>2. PICK ss : ss = [row \in 1..r |-> RowHosts(env, s, row)]
  OBVIOUS
<1>3. PICK z : z = k * c
  OBVIOUS
<1>4. z \in Nat
  BY <1>1, <1>3
<1>5. \A row \in 1..r : RowIs(ss[row], s, row, k, c)
  <2> SUFFICES ASSUME NEW row \in 1..r PROVE RowIs(ss[row], s, row, k, c)
    OBVIOUS
  <2>1. row \in Nat
    BY <1>1
  <2>2. RowIs(RowHosts(env, s, row), s, row, k, c)
    BY <2>1, RowHostsAre
  <2> QED BY <1>2, <2>2
<1>6. PICK T, D : T = HostPlace /\ D = Seq(T)
  OBVIOUS
<1>7. \A row \in 1..r : ss[row] \in D /\ Len(ss[row]) = z
  BY <1>3, <1>5, <1>6 DEF RowIs
<1>8. ss \in Seq(D) /\ Len(ss) = r
  <2>1. ss \in [1..r -> D]
    BY <1>2, <1>7
  <2> QED BY <1>1, <2>1
<1>9. ss \in Seq(Seq(T)) /\ r = Len(ss)
  BY <1>6, <1>8
<1>10. EachLong(ss, r, z)
  BY <1>7 DEF EachLong
<1>11. PICK f : f = FlattenSeq(ss)
  OBVIOUS
<1>12. f \in Seq(T) /\ Evenly(f, ss, r, z)
  BY <1>1, <1>4, <1>9, <1>10, <1>11, FlatUniform
<1>13. SiteHosts(env, s) = f
  BY <1>1, <1>2, <1>11 DEF SiteHosts
<1>14. PICK y : y = r * z
  OBVIOUS
<1>15. y = r * k * c
  BY <1>1, <1>3, <1>14
<1>16. ASSUME NEW row \in 1..r, NEW rack \in 1..k, NEW h \in 1..c
       PROVE  /\ ((row - 1) * k + rack - 1) * c + h \in 1..(r * k * c)
              /\ f[((row - 1) * k + rack - 1) * c + h] = Place(s, row, rack)
  <2>1. PICK j : j = (rack - 1) * c + h
    OBVIOUS
  <2>2. j \in 1..z /\ ss[row][j] = Place(s, row, rack)
    BY <1>3, <1>5, <2>1 DEF RowIs
  <2>3. PICK w : w = (row - 1) * z + j
    OBVIOUS
  <2>4. w \in 1..y /\ f[w] = ss[row][j]
    BY <1>12, <1>14, <2>2, <2>3 DEF Evenly
  <2>5. w = ((row - 1) * k + rack - 1) * c + h
    <3>1. row \in Int /\ rack \in Int /\ h \in Int
      BY <1>1
    <3>2. (row - 1) * (k * c) + ((rack - 1) * c + h)
            = ((row - 1) * k + rack - 1) * c + h
      BY <1>1, <3>1
    <3> QED BY <1>3, <2>1, <2>3, <3>2
  <2> QED BY <1>15, <2>2, <2>4, <2>5
<1>17. Len(f) = r * k * c
  BY <1>12, <1>14, <1>15 DEF Evenly
<1>18. SiteIs(f, s, r, k, c)
  BY <1>6, <1>12, <1>16, <1>17 DEF SiteIs
<1> QED BY <1>13, <1>18

\* off[i] is the sum of the first i numbers of z.
FirstSums(off, z, n) ==
    off = [i \in 0..n |-> SumFunction([t \in 1..i |-> z[t]])]

\* Such sums grow by the next number each.
LEMMA SumsOfFirst ==
    ASSUME NEW n \in Nat, NEW z \in [1..n -> Nat], NEW off, FirstSums(off, z, n)
    PROVE  /\ off \in [0..n -> Nat] /\ off[0] = 0
           /\ \A i \in 1..n : off[i] = off[i - 1] + z[i]
<1>1. \A i \in 0..n : off[i] = SumFunction([t \in 1..i |-> z[t]])
  BY DEF FirstSums
<1>2. off[0] = 0
  <2>1. PICK f : f = [t \in 1..0 |-> z[t]]
    OBVIOUS
  <2>2. DOMAIN f = {}
    BY <2>1
  <2>3. SumFunction(f) = 0
    BY <2>2, SumOfNoKeys
  <2>4. 0 \in 0..n
    OBVIOUS
  <2>5. off[0] = SumFunction([t \in 1..0 |-> z[t]])
    BY <1>1, <2>4
  <2> QED BY <2>1, <2>3, <2>5
<1>3. ASSUME NEW i \in 1..n
      PROVE  off[i] = off[i - 1] + z[i] /\ off[i - 1] \in Int
  <2>1. PICK f, e : f = [t \in 1..(i - 1) |-> z[t]] /\ e = [t \in 1..i |-> z[t]]
    OBVIOUS
  <2>2. IsFiniteSet(1..(i - 1))
    BY FS_Interval
  <2>3. OneMoreKey(f, e, i)
    BY <2>1, <2>2 DEF OneMoreKey
  <2>4. SumFunction(f) \in Int /\ SumFunction(e) = SumFunction(f) + e[i]
    BY <2>3, SumOfOneMoreKey
  <2>5. i \in 0..n /\ i - 1 \in 0..n /\ e[i] = z[i]
    BY <2>1
  <2>6. off[i] = SumFunction(e) /\ off[i - 1] = SumFunction(f)
    BY <1>1, <2>1, <2>5
  <2> QED BY <2>4, <2>5, <2>6
<1>4. \A i \in 0..n : off[i] \in Nat
  <2> DEFINE B == {i \in 0..n : off[i] \notin Nat}
  <2>1. SUFFICES ASSUME B # {} PROVE FALSE
    OBVIOUS
  <2>2. PICK i \in B : \A m \in B : i <= m
    <3>1. B \in SUBSET Nat
      OBVIOUS
    <3> HIDE DEF B
    <3> QED BY <2>1, <3>1, LeastNumber
  <2>3. i \in 1..n /\ off[i] \notin Nat
    BY <1>2
  <2>4. i - 1 \in 0..n /\ ~(i <= i - 1)
    BY <2>3
  <2>5. off[i - 1] \in Nat
    BY <2>2, <2>4
  <2>6. off[i] = off[i - 1] + z[i] /\ z[i] \in Nat
    BY <1>3, <2>3
  <2> QED BY <2>3, <2>5, <2>6
<1> QED BY <1>2, <1>3, <1>4 DEF FirstSums

\* The number of hosts of a site, and of the sites before it.
HostsOf(env, s) == env[s].rows * env[s].racks * env[s].hosts

HostsBefore(env, s) == SumFunction([t \in 1..(s - 1) |-> HostsOf(env, t)])

\* f is the hosts of the environment, each in its place.
WalkIs(f, env) ==
    /\ f \in Seq(HostPlace)
    /\ Len(f) = SumFunction([s \in 1..Len(env) |-> HostsOf(env, s)])
    /\ \A s \in 1..Len(env) : \A row \in 1..env[s].rows :
       \A rack \in 1..env[s].racks : \A h \in 1..env[s].hosts :
          /\ HostIndex(env, Place(s, row, rack), h) \in 1..Len(f)
          /\ f[HostIndex(env, Place(s, row, rack), h)] = Place(s, row, rack)

\* What the number of a host is, in those terms.
LEMMA HostIndexIs ==
    ASSUME NEW env, NEW s, NEW row, NEW rack, NEW h
    PROVE  HostIndex(env, Place(s, row, rack), h)
             = HostsBefore(env, s)
               + ((row - 1) * env[s].racks + rack - 1) * env[s].hosts + h
  BY Zenon DEF HostIndex, HostsBefore, HostsOf, Place

\* The numbers of an environment are natural numbers.
LEMMA EnvironmentSized ==
    ASSUME NEW env \in Environment, NEW s \in 1..Len(env)
    PROVE  /\ Len(env) \in Nat /\ s \in Nat
           /\ Sized(env, s, env[s].rows, env[s].racks, env[s].hosts)
           /\ HostsOf(env, s) \in Nat
<1>1. PICK T : T = [rows : Nat, racks : Nat, hosts : Nat, known : BOOLEAN]
  OBVIOUS
<1>2. env \in Seq(T)
  BY <1>1 DEF Environment
<1>3. Len(env) \in Nat /\ s \in Nat /\ env[s] \in T
  BY <1>2
<1>4. env[s].rows \in Nat /\ env[s].racks \in Nat /\ env[s].hosts \in Nat
  BY <1>1, <1>3
<1>5. \A a, b, c \in Nat : a * b * c \in Nat
  <2>1. \A a, b \in Nat : a * b \in Nat
    OBVIOUS
  <2> QED BY <2>1
<1> QED BY <1>3, <1>4, <1>5 DEF Sized, HostsOf

\* The generator's loops put every host of an environment in its place.
LEMMA HostWalkIs ==
    ASSUME NEW env \in Environment
    PROVE  WalkIs(HostWalk(env), env)
<1>1. PICK n : n = Len(env)
  OBVIOUS
<1>2. n \in Nat
  BY <1>1 DEF Environment
<1>3. PICK z : z = [s \in 1..n |-> HostsOf(env, s)]
  OBVIOUS
<1>4. z \in [1..n -> Nat]
  BY <1>1, <1>3, EnvironmentSized
<1>5. PICK off : FirstSums(off, z, n)
  BY DEF FirstSums
<1>6. /\ off \in [0..n -> Nat] /\ off[0] = 0
      /\ \A i \in 1..n : off[i] = off[i - 1] + z[i]
  BY <1>2, <1>4, <1>5, SumsOfFirst
<1>7. PICK ss : ss = [s \in 1..n |-> SiteHosts(env, s)]
  OBVIOUS
<1>8. \A s \in 1..n : SiteIs(ss[s], s, env[s].rows, env[s].racks, env[s].hosts)
  <2> SUFFICES ASSUME NEW s \in 1..n
               PROVE  SiteIs(ss[s], s, env[s].rows, env[s].racks, env[s].hosts)
    OBVIOUS
  <2>1. PICK r, k, c : r = env[s].rows /\ k = env[s].racks /\ c = env[s].hosts
    OBVIOUS
  <2>2. s \in Nat /\ Sized(env, s, r, k, c)
    BY <1>1, <2>1, EnvironmentSized
  <2>3. SiteIs(SiteHosts(env, s), s, r, k, c)
    BY <2>2, SiteHostsAre
  <2> QED BY <1>7, <2>1, <2>3
<1>9. PICK T, D : T = HostPlace /\ D = Seq(T)
  OBVIOUS
<1>10. \A s \in 1..n : ss[s] \in D /\ Len(ss[s]) = z[s]
  BY <1>3, <1>8, <1>9 DEF SiteIs, HostsOf
<1>11. ss \in Seq(Seq(T)) /\ n = Len(ss)
  <2>1. ss \in [1..n -> D]
    BY <1>7, <1>10
  <2>2. ss \in Seq(D) /\ n = Len(ss)
    BY <1>2, <2>1
  <2> QED BY <1>9, <2>2
<1>12. Offsets(off, ss, n)
  BY <1>6, <1>10 DEF Offsets
<1>13. PICK f : f = FlattenSeq(ss)
  OBVIOUS
<1>14. f \in Seq(T) /\ InPlace(f, ss, off, n)
  BY <1>2, <1>11, <1>12, <1>13, FlatInPlace
<1>15. HostWalk(env) = f
  BY <1>1, <1>7, <1>13 DEF HostWalk
<1>16. \A i \in 0..n : off[i] = SumFunction([t \in 1..i |-> HostsOf(env, t)])
  <2> SUFFICES ASSUME NEW i \in 0..n
               PROVE  off[i] = SumFunction([t \in 1..i |-> HostsOf(env, t)])
    OBVIOUS
  <2>1. [t \in 1..i |-> z[t]] = [t \in 1..i |-> HostsOf(env, t)]
    BY <1>2, <1>3
  <2>2. off[i] = SumFunction([t \in 1..i |-> z[t]])
    BY <1>5 DEF FirstSums
  <2> QED BY <2>1, <2>2
<1>17. off[n] = SumFunction([t \in 1..n |-> HostsOf(env, t)]) /\ Len(f) = off[n]
  BY <1>2, <1>14, <1>16 DEF InPlace
<1>18. ASSUME NEW s \in 1..n, NEW row \in 1..env[s].rows,
              NEW rack \in 1..env[s].racks, NEW h \in 1..env[s].hosts
       PROVE  /\ HostIndex(env, Place(s, row, rack), h) \in 1..Len(f)
              /\ f[HostIndex(env, Place(s, row, rack), h)] = Place(s, row, rack)
  <2>1. PICK r, k, c : r = env[s].rows /\ k = env[s].racks /\ c = env[s].hosts
    OBVIOUS
  <2>2. PICK j, x : /\ j = ((row - 1) * k + rack - 1) * c + h
                    /\ x = HostsBefore(env, s)
    OBVIOUS
  <2>3. SiteIs(ss[s], s, r, k, c)
    BY <1>8, <2>1
  <2>4. row \in 1..r /\ rack \in 1..k /\ h \in 1..c
    BY <2>1
  <2>5. j \in 1..Len(ss[s]) /\ ss[s][j] = Place(s, row, rack)
    BY <2>2, <2>3, <2>4 DEF SiteIs
  <2>6. x = off[s - 1] /\ x \in Nat
    <3>1. s - 1 \in 0..n
      BY <1>2
    <3> QED BY <1>6, <1>16, <2>2, <3>1 DEF HostsBefore
  <2>7. off[s - 1] + j \in 1..off[n] /\ f[off[s - 1] + j] = ss[s][j]
    BY <1>14, <2>5 DEF InPlace
  <2>8. PICK m : m = ((row - 1) * k + rack - 1) * c
    OBVIOUS
  <2>9. HostIndex(env, Place(s, row, rack), h) = x + m + h /\ j = m + h
    BY <2>1, <2>2, <2>8, HostIndexIs
  <2>10. m \in Int /\ h \in Int
    <3>1. row \in Int /\ rack \in Int /\ h \in Int /\ k \in Int /\ c \in Int
      BY <1>1, <2>1, <2>4, EnvironmentSized DEF Sized
    <3>2. \A a, b, d, e \in Int : ((a - 1) * b + d - 1) * e \in Int
      OBVIOUS
    <3> QED BY <2>8, <3>1, <3>2
  <2>11. x + m + h = x + j
    BY <2>6, <2>9, <2>10
  <2> QED BY <1>17, <2>5, <2>6, <2>7, <2>9, <2>11
<1> QED BY <1>1, <1>9, <1>14, <1>15, <1>17, <1>18 DEF WalkIs

\* What seedNetboxTopology adds to netbox-sim.
SeedPart == [kind : {"site", "location", "rack", "device"}, at : HostPlace]

\* f[i] is the devices among the first i parts of the walk.
FoundStep(f, walk, i) ==
    IF i = 0 THEN <<>>
    ELSE IF walk[i].kind = "device" THEN Append(f[i - 1], walk[i])
    ELSE f[i - 1]

IsFound(f, walk, n) == f = [i \in 0..n |-> FoundStep(f, walk, i)]

\* There is such a function for any walk.
LEMMA FoundExists ==
    ASSUME NEW walk, NEW n \in Nat
    PROVE  \E f : IsFound(f, walk, n)
<1> DEFINE T == {k \in Nat : ~\E f : IsFound(f, walk, k)}
<1>1. SUFFICES ASSUME T # {} PROVE FALSE
  OBVIOUS
<1>2. PICK k \in T : \A m \in T : k <= m
  <2>1. T \in SUBSET Nat
    OBVIOUS
  <2> HIDE DEF T
  <2> QED BY <1>1, <2>1, LeastNumber
<1>3. k # 0
  <2>1. ASSUME k = 0 PROVE FALSE
    <3> DEFINE f == [i \in 0..0 |-> <<>>]
    <3>1. \A i \in 0..0 : FoundStep(f, walk, i) = <<>>
      BY DEF FoundStep
    <3>2. IsFound(f, walk, 0)
      BY <3>1 DEF IsFound
    <3> QED BY <2>1, <3>2
  <2> QED BY <2>1
<1>4. k \in Nat /\ ~\E f : IsFound(f, walk, k)
  OBVIOUS
<1>5. k - 1 \in Nat /\ ~(k <= k - 1)
  BY <1>3, <1>4
<1>6. PICK f : IsFound(f, walk, k - 1)
  BY <1>2, <1>5
<1>7. \A i \in 0..(k - 1) : f[i] = FoundStep(f, walk, i)
  BY <1>5, <1>6 DEF IsFound
<1>8. PICK e : e = [i \in 0..k |-> IF i = k THEN FoundStep(f, walk, k) ELSE f[i]]
  OBVIOUS
<1>9. \A i \in 0..k : e[i] = FoundStep(e, walk, i)
  <2> SUFFICES ASSUME NEW i \in 0..k PROVE e[i] = FoundStep(e, walk, i)
    OBVIOUS
  <2>1. FoundStep(e, walk, i) = FoundStep(f, walk, i)
    <3>1. i # 0 => e[i - 1] = f[i - 1]
      BY <1>4, <1>8
    <3> QED BY <3>1 DEF FoundStep
  <2>2. CASE i = k
    BY <1>8, <2>1, <2>2
  <2>3. CASE i # k
    <3>1. e[i] = f[i] /\ i \in 0..(k - 1)
      BY <1>4, <1>8, <2>3
    <3> QED BY <1>7, <2>1, <3>1
  <2> QED BY <2>2, <2>3
<1>10. IsFound(e, walk, k)
  BY <1>8, <1>9 DEF IsFound
<1> QED BY <1>4, <1>10

\* Devices takes what it returns from such a function.
LEMMA DevicesIsLast ==
    ASSUME NEW walk, NEW n \in Nat, n = Len(walk)
    PROVE  \E f : IsFound(f, walk, n) /\ Devices(walk) = f[n]
<1> DEFINE f[i \in 0..Len(walk)] ==
               IF i = 0 THEN <<>>
               ELSE IF walk[i].kind = "device" THEN Append(f[i - 1], walk[i])
               ELSE f[i - 1]
<1>1. \E g : IsFound(g, walk, n)
  BY FoundExists
<1>2. f = [i \in 0..n |-> IF i = 0 THEN <<>>
                          ELSE IF walk[i].kind = "device"
                          THEN Append(f[i - 1], walk[i]) ELSE f[i - 1]]
  BY <1>1 DEF IsFound, FoundStep
<1>3. Devices(walk) = f[n]
  BY DEF Devices
<1> HIDE DEF f
<1>4. IsFound(f, walk, n)
  BY <1>2 DEF IsFound, FoundStep
<1> QED BY <1>3, <1>4

\* The devices found are parts of the walk's kind.
LEMMA FoundParts ==
    ASSUME NEW n \in Nat, NEW walk \in Seq(SeedPart), n = Len(walk),
           NEW f, IsFound(f, walk, n)
    PROVE  \A i \in 0..n : f[i] \in Seq(SeedPart)
<1> DEFINE B == {i \in 0..n : f[i] \notin Seq(SeedPart)}
<1>1. SUFFICES ASSUME B # {} PROVE FALSE
  OBVIOUS
<1>2. PICK i \in B : \A m \in B : i <= m
  <2>1. B \in SUBSET Nat
    OBVIOUS
  <2> HIDE DEF B
  <2> QED BY <1>1, <2>1, LeastNumber
<1>3. i \in 0..n /\ f[i] \notin Seq(SeedPart) /\ f[i] = FoundStep(f, walk, i)
  BY DEF IsFound
<1>4. PICK P : P = SeedPart
  OBVIOUS
<1>5. CASE i = 0
  BY <1>3, <1>5 DEF FoundStep
<1>6. CASE i # 0
  <2>1. i - 1 \in 0..n /\ ~(i <= i - 1) /\ i \in 1..n
    BY <1>3, <1>6
  <2>2. f[i - 1] \in Seq(P) /\ walk[i] \in P
    BY <1>2, <1>4, <2>1
  <2>3. Append(f[i - 1], walk[i]) \in Seq(P)
    BY <2>2
  <2> QED BY <1>3, <1>4, <1>6, <2>2, <2>3 DEF FoundStep
<1> QED BY <1>5, <1>6

\* The devices of two walks one after the other.
LEMMA DevicesConcat ==
    ASSUME NEW a \in Seq(SeedPart), NEW b \in Seq(SeedPart)
    PROVE  Devices(a \o b) = Devices(a) \o Devices(b)
<1>1. PICK P, m, n, w : P = SeedPart /\ m = Len(a) /\ n = Len(b) /\ w = a \o b
  OBVIOUS
<1>2. a \in Seq(P) /\ b \in Seq(P) /\ m \in Nat /\ n \in Nat
  BY <1>1
<1>3. /\ w \in Seq(P) /\ m + n = Len(w)
      /\ \A i \in 1..m : w[i] = a[i]
      /\ \A i \in 1..n : w[m + i] = b[i]
  BY <1>1, <1>2
<1>4. PICK f : IsFound(f, w, m + n) /\ Devices(w) = f[m + n]
  BY <1>2, <1>3, DevicesIsLast
<1>5. PICK g : IsFound(g, a, m) /\ Devices(a) = g[m]
  BY <1>1, <1>2, DevicesIsLast
<1>6. PICK h : IsFound(h, b, n) /\ Devices(b) = h[n]
  BY <1>1, <1>2, DevicesIsLast
<1>7. /\ \A i \in 0..(m + n) : f[i] = FoundStep(f, w, i)
      /\ \A i \in 0..m : g[i] = FoundStep(g, a, i)
      /\ \A i \in 0..n : h[i] = FoundStep(h, b, i)
  BY <1>4, <1>5, <1>6 DEF IsFound
<1>8. \A i \in 0..m : f[i] = g[i]
  <2> DEFINE B == {i \in 0..m : f[i] # g[i]}
  <2>1. SUFFICES ASSUME B # {} PROVE FALSE
    OBVIOUS
  <2>2. PICK i \in B : \A j \in B : i <= j
    <3>1. B \in SUBSET Nat
      OBVIOUS
    <3> HIDE DEF B
    <3> QED BY <2>1, <3>1, LeastNumber
  <2>3. i \in 0..m /\ i \in 0..(m + n) /\ f[i] # g[i]
    BY <1>2
  <2>4. f[i] = FoundStep(f, w, i) /\ g[i] = FoundStep(g, a, i)
    BY <1>7, <2>3
  <2>5. CASE i = 0
    BY <2>3, <2>4, <2>5 DEF FoundStep
  <2>6. CASE i # 0
    <3>1. i - 1 \in 0..m /\ ~(i <= i - 1) /\ i \in 1..m
      BY <1>2, <2>3, <2>6
    <3>2. f[i - 1] = g[i - 1] /\ w[i] = a[i]
      BY <1>3, <2>2, <3>1
    <3> QED BY <2>3, <2>4, <3>2 DEF FoundStep
  <2> QED BY <2>5, <2>6
<1>9. g[m] \in Seq(P) /\ \A i \in 0..n : h[i] \in Seq(P)
  <2>1. \A i \in 0..m : g[i] \in Seq(P)
    BY <1>1, <1>2, <1>5, FoundParts
  <2>2. \A i \in 0..n : h[i] \in Seq(P)
    BY <1>1, <1>2, <1>6, FoundParts
  <2> QED BY <1>2, <2>1, <2>2
<1>10. \A i \in 0..n : f[m + i] = g[m] \o h[i]
  <2>0. PICK u : u = [i \in 0..n |-> g[m] \o h[i]]
    OBVIOUS
  <2> DEFINE B == {i \in 0..n : f[m + i] # u[i]}
  <2>1. SUFFICES ASSUME B # {} PROVE FALSE
    BY <2>0
  <2>2. PICK i \in B : \A j \in B : i <= j
    <3>1. B \in SUBSET Nat
      OBVIOUS
    <3> HIDE DEF B
    <3> QED BY <2>1, <3>1, LeastNumber
  <2>3. i \in 0..n /\ m + i \in 0..(m + n) /\ f[m + i] # g[m] \o h[i]
    BY <1>2, <2>0
  <2>4. f[m + i] = FoundStep(f, w, m + i) /\ h[i] = FoundStep(h, b, i)
    BY <1>7, <2>3
  <2>5. CASE i = 0
    <3>1. m + i = m /\ f[m] = g[m]
      BY <1>2, <1>8, <2>5
    <3>2. h[i] = <<>>
      BY <2>4, <2>5 DEF FoundStep
    <3>3. g[m] \o <<>> = g[m]
      BY <1>9
    <3> QED BY <2>3, <3>1, <3>2, <3>3
  <2>6. CASE i # 0
    <3>1. i - 1 \in 0..n /\ ~(i <= i - 1) /\ i \in 1..n /\ (m + i) - 1 = m + (i - 1)
      BY <1>2, <2>3, <2>6
    <3>2. PICK p, q, y : p = g[m] /\ q = h[i - 1] /\ y = b[i]
      OBVIOUS
    <3>3. p \in Seq(P) /\ q \in Seq(P) /\ y \in P
      BY <1>2, <1>1, <1>9, <3>1, <3>2
    <3>4. f[(m + i) - 1] = p \o q
      BY <2>0, <2>2, <3>1, <3>2
    <3>5. w[m + i] = y /\ m + i # 0
      BY <1>2, <1>3, <3>1, <3>2
    <3>6. Append(p \o q, y) = p \o Append(q, y)
      <4>1. PICK z : z = <<y>>
        OBVIOUS
      <4>2. z \in Seq(P) /\ p \o q \in Seq(P)
        BY <3>3, <4>1
      <4>3. \A s \in Seq(P) : Append(s, y) = s \o z
        BY <3>3, <4>1, AppendIsConcat
      <4>4. (p \o q) \o z = p \o (q \o z)
        BY <3>3, <4>2, ConcatAssociative, SMTT(30)
      <4> QED BY <3>3, <4>2, <4>3, <4>4
    <3>7. CASE y.kind = "device"
      <4>1. f[m + i] = Append(p \o q, y)
        BY <2>4, <3>4, <3>5, <3>7 DEF FoundStep
      <4>2. h[i] = Append(q, y)
        BY <2>4, <2>6, <3>2, <3>7 DEF FoundStep
      <4> QED BY <2>3, <3>2, <3>6, <4>1, <4>2
    <3>8. CASE y.kind # "device"
      <4>1. f[m + i] = p \o q
        BY <2>4, <3>4, <3>5, <3>8 DEF FoundStep
      <4>2. h[i] = q
        BY <2>4, <2>6, <3>2, <3>8 DEF FoundStep
      <4> QED BY <2>3, <3>2, <4>1, <4>2
    <3> QED BY <3>7, <3>8
  <2> QED BY <2>5, <2>6
<1>11. f[m + n] = g[m] \o h[n]
  <2>1. n \in 0..n
    BY <1>2
  <2> QED BY <1>10, <2>1, Zenon
<1> QED BY <1>1, <1>4, <1>5, <1>6, <1>11

\* The devices of the walk are at the places p, in the same order.
Seeds(walk, p) ==
    /\ walk \in Seq(SeedPart) /\ p \in Seq(HostPlace)
    /\ Devices(walk) \in Seq(SeedPart)
    /\ Len(Devices(walk)) = Len(p)
    /\ \A k \in 1..Len(p) : Devices(walk)[k].at = p[k]

\* Two walks one after the other.
LEMMA SeedsConcat ==
    ASSUME NEW v, NEW w, NEW p, NEW q, Seeds(v, p), Seeds(w, q)
    PROVE  Seeds(v \o w, p \o q)
<1>1. PICK P, H, d, e : /\ P = SeedPart /\ H = HostPlace
                        /\ d = Devices(v) /\ e = Devices(w)
  OBVIOUS
<1>2. /\ v \in Seq(P) /\ w \in Seq(P) /\ p \in Seq(H) /\ q \in Seq(H)
      /\ d \in Seq(P) /\ e \in Seq(P) /\ Len(d) = Len(p) /\ Len(e) = Len(q)
  BY <1>1 DEF Seeds
<1>3. /\ \A k \in 1..Len(p) : d[k].at = p[k]
      /\ \A k \in 1..Len(q) : e[k].at = q[k]
  BY <1>1 DEF Seeds
<1>4. Devices(v \o w) = d \o e
  BY <1>1, <1>2, DevicesConcat
<1>5. PICK m, n : m = Len(p) /\ n = Len(q)
  OBVIOUS
<1>6. m \in Nat /\ n \in Nat
  BY <1>2, <1>5
<1>7. /\ v \o w \in Seq(P) /\ p \o q \in Seq(H) /\ d \o e \in Seq(P)
      /\ Len(p \o q) = m + n /\ Len(d \o e) = m + n
  <2>1. \A S : \A s, t \in Seq(S) : /\ s \o t \in Seq(S)
                                    /\ Len(s \o t) = Len(s) + Len(t)
    OBVIOUS
  <2>2. v \o w \in Seq(P)
    BY <1>2, <2>1
  <2>3. p \o q \in Seq(H) /\ Len(p \o q) = Len(p) + Len(q)
    BY <1>2, <2>1
  <2>4. d \o e \in Seq(P) /\ Len(d \o e) = Len(d) + Len(e)
    BY <1>2, <2>1
  <2> QED BY <1>2, <1>5, <2>2, <2>3, <2>4
<1>8. ASSUME NEW k \in 1..(m + n) PROVE (d \o e)[k].at = (p \o q)[k]
  <2>1. CASE k <= m
    <3>1. (d \o e)[k] = d[k] /\ (p \o q)[k] = p[k] /\ k \in 1..m
      BY <1>2, <1>5, <1>6, <2>1
    <3> QED BY <1>3, <1>5, <3>1
  <2>2. CASE ~(k <= m)
    <3>1. PICK j : j = k - m
      OBVIOUS
    <3>2. j \in 1..n /\ (d \o e)[k] = e[j] /\ (p \o q)[k] = q[j]
      BY <1>2, <1>5, <1>6, <2>2, <3>1
    <3> QED BY <1>3, <1>5, <3>2
  <2> QED BY <2>1, <2>2
<1> QED BY <1>1, <1>4, <1>7, <1>8 DEF Seeds

\* A walk with nothing in it.
LEMMA SeedsNothing == Seeds(<<>>, <<>>)
<1>1. PICK w : w = <<>>
  OBVIOUS
<1>2. w \in Seq(SeedPart) /\ w \in Seq(HostPlace) /\ Len(w) = 0
  BY <1>1
<1>3. PICK f : IsFound(f, w, 0) /\ Devices(w) = f[0]
  BY <1>2, DevicesIsLast
<1>4. f[0] = <<>>
  BY <1>3 DEF IsFound, FoundStep
<1>5. Devices(w) = w /\ \A k \in 1..0 : Devices(w)[k].at = w[k]
  BY <1>1, <1>3, <1>4
<1>6. Seeds(w, w)
  BY <1>2, <1>5 DEF Seeds
<1> QED BY <1>1, <1>6

\* A part that is not a device adds none.
LEMMA SeedsHeader ==
    ASSUME NEW w, NEW p, Seeds(w, p), NEW x \in SeedPart, x.kind # "device"
    PROVE  Seeds(<<x>> \o w, p)
<1>1. PICK v : v = <<x>>
  OBVIOUS
<1>2. v \in Seq(SeedPart) /\ Len(v) = 1 /\ v[1] = x
  <2>1. \A D : \A y \in D : <<y>> \in Seq(D) /\ Len(<<y>>) = 1 /\ <<y>>[1] = y
    OBVIOUS
  <2> QED BY <1>1, <2>1
<1>3. PICK f : IsFound(f, v, 1) /\ Devices(v) = f[1]
  BY <1>2, DevicesIsLast
<1>4. f[1] = FoundStep(f, v, 1) /\ f[0] = FoundStep(f, v, 0)
  BY <1>3 DEF IsFound
<1>5. Devices(v) = <<>>
  BY <1>2, <1>3, <1>4 DEF FoundStep
<1>6. Seeds(v, <<>>)
  BY <1>2, <1>5 DEF Seeds
<1>7. Seeds(v \o w, <<>> \o p)
  BY <1>6, SeedsConcat
<1>8. <<>> \o p = p
  <2>1. p \in Seq(HostPlace)
    BY DEF Seeds
  <2> QED BY <2>1, ConcatEmptySeq
<1> QED BY <1>1, <1>7, <1>8

\* Each of the n walks ss has its devices at the places pp.
EachSeeds(ss, pp, n) ==
    /\ ss \in Seq(Seq(SeedPart)) /\ pp \in Seq(Seq(HostPlace))
    /\ Len(ss) = n /\ Len(pp) = n
    /\ \A i \in 1..n : Seeds(ss[i], pp[i])

\* Functions over the same numbers are such sequences.
LEMMA EachSeedsIs ==
    ASSUME NEW n \in Nat, NEW ss, NEW pp, ss = [i \in 1..n |-> ss[i]],
           pp = [i \in 1..n |-> pp[i]], \A i \in 1..n : Seeds(ss[i], pp[i])
    PROVE  EachSeeds(ss, pp, n)
<1>1. PICK D, E : D = Seq(SeedPart) /\ E = Seq(HostPlace)
  OBVIOUS
<1>2. \A i \in 1..n : ss[i] \in D /\ pp[i] \in E
  BY <1>1 DEF Seeds
<1>3. ss \in [1..n -> D] /\ pp \in [1..n -> E]
  BY <1>2
<1>4. ss \in Seq(D) /\ pp \in Seq(E) /\ Len(ss) = n /\ Len(pp) = n
  BY <1>3
<1> QED BY <1>1, <1>4 DEF EachSeeds

\* And so have the walks put together.
LEMMA SeedsFlat ==
    ASSUME NEW n \in Nat, NEW ss, NEW pp, EachSeeds(ss, pp, n)
    PROVE  Seeds(FlattenSeq(ss), FlattenSeq(pp))
<1>1. PICK D, E : D = Seq(SeedPart) /\ E = Seq(HostPlace)
  OBVIOUS
<1>2. /\ ss \in Seq(D) /\ pp \in Seq(E) /\ n = Len(ss) /\ n = Len(pp)
      /\ \A i \in 1..n : Seeds(ss[i], pp[i])
  BY <1>1 DEF EachSeeds
<1>3. CASE n = 0
  <2>1. ss = <<>> /\ pp = <<>>
    BY <1>2, <1>3, EmptySeq
  <2>2. Len(ss) = 0 /\ Len(pp) = 0
    BY <1>2, <1>3
  <2>3. FlattenSeq(ss) = ss /\ FlattenSeq(pp) = pp
    BY <2>2, Zenon DEF FlattenSeq
  <2> QED BY <2>1, <2>3, SeedsNothing
<1>4. CASE n # 0
  <2>1. PICK g : IsFlat(g, ss, n) /\ FlattenSeq(ss) = g[n]
    BY <1>2, <1>4, FlatIsLast
  <2>2. PICK e : IsFlat(e, pp, n) /\ FlattenSeq(pp) = e[n]
    BY <1>2, <1>4, FlatIsLast
  <2>3. /\ \A i \in 1..n : g[i] = IF i = 1 THEN ss[i] ELSE g[i - 1] \o ss[i]
        /\ \A i \in 1..n : e[i] = IF i = 1 THEN pp[i] ELSE e[i - 1] \o pp[i]
    BY <2>1, <2>2 DEF IsFlat
  <2> DEFINE B == {i \in 1..n : ~Seeds(g[i], e[i])}
  <2>4. ASSUME B # {} PROVE FALSE
    <3>1. PICK i \in B : \A m \in B : i <= m
      <4>1. B \in SUBSET Nat
        OBVIOUS
      <4> HIDE DEF B
      <4> QED BY <2>4, <4>1, LeastNumber
    <3>2. i \in 1..n /\ ~Seeds(g[i], e[i])
      OBVIOUS
    <3>3. CASE i = 1
      <4>1. g[i] = ss[i] /\ e[i] = pp[i]
        BY <2>3, <3>2, <3>3
      <4> QED BY <1>2, <3>2, <4>1
    <3>4. CASE i # 1
      <4>1. i - 1 \in 1..n /\ ~(i <= i - 1)
        BY <3>2, <3>4
      <4>2. Seeds(g[i - 1], e[i - 1])
        BY <3>1, <4>1
      <4>3. PICK v, w, p, q : /\ v = g[i - 1] /\ w = ss[i]
                              /\ p = e[i - 1] /\ q = pp[i]
        OBVIOUS
      <4>4. Seeds(v, p) /\ Seeds(w, q)
        BY <1>2, <3>2, <4>2, <4>3
      <4>5. Seeds(v \o w, p \o q)
        BY <4>4, SeedsConcat
      <4>6. g[i] = v \o w /\ e[i] = p \o q
        BY <2>3, <3>2, <3>4, <4>3
      <4> QED BY <3>2, <4>5, <4>6
    <3> QED BY <3>3, <3>4
  <2>5. n \in 1..n
    BY <1>4
  <2> QED BY <2>1, <2>2, <2>4, <2>5
<1> QED BY <1>3, <1>4

\* The devices of one rack.
LEMMA SeedsOfRack ==
    ASSUME NEW c \in Nat, NEW y \in HostPlace, NEW x,
           x = [kind |-> "device", at |-> y]
    PROVE  Seeds([h \in 1..c |-> x], [h \in 1..c |-> y])
<1>1. PICK P, H, w, p : /\ P = SeedPart /\ H = HostPlace
                        /\ w = [h \in 1..c |-> x] /\ p = [h \in 1..c |-> y]
  OBVIOUS
<1>2. x \in P /\ x.kind = "device" /\ x.at = y /\ y \in H
  BY <1>1 DEF SeedPart
<1>3. w \in Seq(P) /\ Len(w) = c /\ p \in Seq(H) /\ Len(p) = c
  BY <1>1, <1>2
<1>4. \A i \in 1..c : w[i] = x /\ p[i] = y
  BY <1>1
<1>5. PICK f : IsFound(f, w, c) /\ Devices(w) = f[c]
  BY <1>3, DevicesIsLast
<1>6. \A i \in 0..c : f[i] = FoundStep(f, w, i)
  BY <1>5 DEF IsFound
<1> DEFINE Good(i) == /\ f[i] \in Seq(P) /\ Len(f[i]) = i
                      /\ \A j \in 1..i : f[i][j] = x
           B == {i \in 0..c : ~Good(i)}
<1>7. ASSUME B # {} PROVE FALSE
  <2>1. PICK i \in B : \A m \in B : i <= m
    <3>1. B \in SUBSET Nat
      OBVIOUS
    <3> HIDE DEF B
    <3> QED BY <1>7, <3>1, LeastNumber
  <2>2. i \in 0..c /\ ~Good(i)
    OBVIOUS
  <2>3. CASE i = 0
    <3>1. f[i] = <<>>
      BY <1>6, <2>2, <2>3 DEF FoundStep
    <3> QED BY <2>2, <2>3, <3>1
  <2>4. CASE i # 0
    <3>1. i - 1 \in 0..c /\ ~(i <= i - 1) /\ i \in 1..c
      BY <2>2, <2>4
    <3>2. Good(i - 1)
      BY <2>1, <3>1
    <3>3. PICK s : s = f[i - 1]
      OBVIOUS
    <3>4. s \in Seq(P) /\ Len(s) = i - 1 /\ \A j \in 1..(i - 1) : s[j] = x
      BY <3>2, <3>3
    <3>5. f[i] = Append(s, x)
      BY <1>2, <1>4, <1>6, <2>2, <2>4, <3>1, <3>3 DEF FoundStep
    <3>6. Append(s, x) \in Seq(P) /\ Len(Append(s, x)) = i
      BY <1>2, <3>1, <3>4
    <3>7. \A j \in 1..i : Append(s, x)[j] = x
      BY <1>2, <3>1, <3>4
    <3> QED BY <2>2, <3>5, <3>6, <3>7
  <2> QED BY <2>3, <2>4
<1>8. Good(c)
  <2>1. c \in 0..c
    OBVIOUS
  <2> QED BY <1>7, <2>1
<1>9. /\ Devices(w) \in Seq(P) /\ Len(Devices(w)) = c
      /\ \A k \in 1..c : Devices(w)[k].at = p[k]
  BY <1>2, <1>4, <1>5, <1>8
<1> QED BY <1>1, <1>3, <1>9 DEF Seeds

\* The launcher's walk meets the hosts of the environment in their order.
LEMMA SeedWalkSeeds ==
    ASSUME NEW env \in Environment
    PROVE  Seeds(SeedWalk(env), HostWalk(env))
<1>1. PICK n : n = Len(env)
  OBVIOUS
<1>2. n \in Nat
  BY <1>1 DEF Environment
<1>3. ASSUME NEW s \in 1..n PROVE Seeds(SeedSite(env, s), SiteHosts(env, s))
  <2>1. PICK r, k, c : r = env[s].rows /\ k = env[s].racks /\ c = env[s].hosts
    OBVIOUS
  <2>2. s \in Nat /\ r \in Nat /\ k \in Nat /\ c \in Nat
    BY <1>1, <2>1, EnvironmentSized DEF Sized
  <2>3. ASSUME NEW row \in Nat, NEW rack \in Nat
        PROVE  Seeds(SeedRack(env, s, row, rack), RackHosts(env, s, row, rack))
    <3>1. PICK y, x, z : /\ y = Place(s, row, rack)
                         /\ x = [kind |-> "device", at |-> y]
                         /\ z = [kind |-> "rack", at |-> y]
      OBVIOUS
    <3>2. y \in HostPlace
      BY <2>2, <3>1 DEF Place, HostPlace
    <3>3. z \in SeedPart /\ z.kind # "device"
      BY <3>1, <3>2 DEF SeedPart
    <3>4. PICK w, p : w = [h \in 1..c |-> x] /\ p = [h \in 1..c |-> y]
      OBVIOUS
    <3>5. Seeds(w, p)
      BY <2>2, <3>1, <3>2, <3>4, SeedsOfRack
    <3>6. Seeds(<<z>> \o w, p)
      BY <3>3, <3>5, SeedsHeader
    <3>7. SeedRack(env, s, row, rack) = <<z>> \o w
      BY <2>1, <3>1, <3>4 DEF SeedRack
    <3>8. RackHosts(env, s, row, rack) = p
      BY <2>1, <3>1, <3>4 DEF RackHosts
    <3> QED BY <3>6, <3>7, <3>8
  <2>4. ASSUME NEW row \in Nat
        PROVE  Seeds(SeedRow(env, s, row), RowHosts(env, s, row))
    <3>1. PICK ss, pp : /\ ss = [rack \in 1..k |-> SeedRack(env, s, row, rack)]
                        /\ pp = [rack \in 1..k |-> RackHosts(env, s, row, rack)]
      OBVIOUS
    <3>2. \A rack \in 1..k : Seeds(ss[rack], pp[rack])
      BY <2>2, <2>3, <3>1
    <3>3. ss = [i \in 1..k |-> ss[i]] /\ pp = [i \in 1..k |-> pp[i]]
      BY <3>1
    <3>4. EachSeeds(ss, pp, k)
      BY <2>2, <3>2, <3>3, EachSeedsIs
    <3>5. PICK w, p : w = FlattenSeq(ss) /\ p = FlattenSeq(pp)
      OBVIOUS
    <3>6. Seeds(w, p)
      BY <2>2, <3>4, <3>5, SeedsFlat
    <3>7. PICK z : z = [kind |-> "location", at |-> Place(s, row, 0)]
      OBVIOUS
    <3>8. z \in SeedPart /\ z.kind # "device"
      BY <2>2, <3>7 DEF SeedPart, HostPlace, Place
    <3>9. Seeds(<<z>> \o w, p)
      BY <3>6, <3>8, SeedsHeader
    <3>10. SeedRow(env, s, row) = <<z>> \o w
      BY <2>1, <3>1, <3>5, <3>7 DEF SeedRow
    <3>11. RowHosts(env, s, row) = p
      BY <2>1, <3>1, <3>5 DEF RowHosts
    <3> QED BY <3>9, <3>10, <3>11
  <2>5. PICK ss, pp : /\ ss = [row \in 1..r |-> SeedRow(env, s, row)]
                      /\ pp = [row \in 1..r |-> RowHosts(env, s, row)]
    OBVIOUS
  <2>6. \A row \in 1..r : Seeds(ss[row], pp[row])
    BY <2>2, <2>4, <2>5
  <2>7. ss = [i \in 1..r |-> ss[i]] /\ pp = [i \in 1..r |-> pp[i]]
    BY <2>5
  <2>8. EachSeeds(ss, pp, r)
    BY <2>2, <2>6, <2>7, EachSeedsIs
  <2>9. PICK w, p : w = FlattenSeq(ss) /\ p = FlattenSeq(pp)
    OBVIOUS
  <2>10. Seeds(w, p)
    BY <2>2, <2>8, <2>9, SeedsFlat
  <2>11. PICK z : z = [kind |-> "site", at |-> Place(s, 0, 0)]
    OBVIOUS
  <2>12. z \in SeedPart /\ z.kind # "device"
    BY <2>2, <2>11 DEF SeedPart, HostPlace, Place
  <2>13. Seeds(<<z>> \o w, p)
    BY <2>10, <2>12, SeedsHeader
  <2>14. SeedSite(env, s) = <<z>> \o w
    BY <2>1, <2>5, <2>9, <2>11 DEF SeedSite
  <2>15. SiteHosts(env, s) = p
    BY <2>1, <2>5, <2>9 DEF SiteHosts
  <2> QED BY <2>13, <2>14, <2>15
<1>4. PICK ss, pp : /\ ss = [s \in 1..n |-> SeedSite(env, s)]
                    /\ pp = [s \in 1..n |-> SiteHosts(env, s)]
  OBVIOUS
<1>5. \A s \in 1..n : Seeds(ss[s], pp[s])
  BY <1>3, <1>4
<1>6. ss = [i \in 1..n |-> ss[i]] /\ pp = [i \in 1..n |-> pp[i]]
  BY <1>4
<1>7. EachSeeds(ss, pp, n)
  BY <1>2, <1>5, <1>6, EachSeedsIs
<1>8. Seeds(FlattenSeq(ss), FlattenSeq(pp))
  BY <1>2, <1>7, SeedsFlat
<1> QED BY <1>1, <1>4, <1>8 DEF SeedWalk, HostWalk

\* The result, if there is one, is the hosts of an environment that was asked
\* for.
GeneratedInv ==
    /\ \A r \in genResult : \E env \in Environments :
           r = [env |-> env, hosts |-> GeneratedHosts(env)]
    /\ IsMap(generations, Generations, Environments)

\* What HostsExact says of one result.
HostsOfResult(env, list) ==
    LET seeded == Devices(SeedWalk(env))
    IN /\ \A s \in 1..Len(env) : \A row \in 1..env[s].rows :
          \A rack \in 1..env[s].racks : \A h \in 1..env[s].hosts :
              LET k == HostIndex(env, Place(s, row, rack), h)
              IN /\ k \in DOMAIN list
                 /\ list[k] = [id |-> k, at |-> Place(s, row, rack),
                               port |-> BasePort + k - 1]
       /\ Len(list) = SumFunction([s \in 1..Len(env) |->
                          env[s].rows * env[s].racks * env[s].hosts])
       /\ Len(seeded) = Len(list)
       /\ \A k \in 1..Len(seeded) : seeded[k].at = list[k].at

\* The hosts generated for any environment are all of its hosts, each with the
\* number and the port of its place, and the launcher's walk meets them in the
\* same order.
LEMMA GeneratedHostsExact ==
    ASSUME NEW env \in Environment
    PROVE  HostsOfResult(env, GeneratedHosts(env))
<1>1. PICK f, g, n : /\ f = HostWalk(env) /\ g = GeneratedHosts(env)
                     /\ n = Len(f)
  OBVIOUS
<1>2. WalkIs(f, env)
  BY <1>1, HostWalkIs
<1>3. f \in Seq(HostPlace) /\ n \in Nat
  BY <1>1, <1>2 DEF WalkIs
<1>4. g = [i \in 1..n |-> [id |-> i, at |-> f[i], port |-> BasePort + i - 1]]
  BY <1>1 DEF GeneratedHosts
<1>5. Len(g) = n /\ DOMAIN g = 1..n
  BY <1>3, <1>4
<1>7. ASSUME NEW s \in 1..Len(env), NEW row \in 1..env[s].rows,
             NEW rack \in 1..env[s].racks, NEW h \in 1..env[s].hosts
      PROVE  LET k == HostIndex(env, Place(s, row, rack), h)
             IN /\ k \in DOMAIN g
                /\ g[k] = [id |-> k, at |-> Place(s, row, rack),
                           port |-> BasePort + k - 1]
  <2>1. PICK k, y : /\ k = HostIndex(env, Place(s, row, rack), h)
                    /\ y = Place(s, row, rack)
    OBVIOUS
  <2>2. k \in 1..n /\ f[k] = y
    BY <1>1, <1>2, <2>1 DEF WalkIs
  <2>3. g[k] = [id |-> k, at |-> y, port |-> BasePort + k - 1]
    BY <1>4, <2>2
  <2> QED BY <1>5, <2>1, <2>2, <2>3
<1>8. Len(g) = SumFunction([s \in 1..Len(env) |->
                    env[s].rows * env[s].racks * env[s].hosts])
  BY <1>1, <1>2, <1>5 DEF WalkIs, HostsOf
<1>9. PICK d : d = Devices(SeedWalk(env))
  OBVIOUS
<1>10. Len(d) = n /\ \A k \in 1..n : d[k].at = f[k]
  BY <1>1, <1>9, SeedWalkSeeds DEF Seeds
<1>11. \A k \in 1..n : g[k].at = f[k]
  BY <1>4
<1>12. Len(d) = Len(g) /\ \A k \in 1..Len(d) : d[k].at = g[k].at
  BY <1>5, <1>10, <1>11
<1>13. HostsOfResult(env, g)
  BY <1>7, <1>8, <1>9, <1>12, Zenon DEF HostsOfResult
<1> QED BY <1>1, <1>13

\* Whatever calls overlap and whatever is reset, the result a client fetches is
\* exactly the hosts of one of the environments asked for.
THEOREM HostsSafe == DatagenSpec => []HostsExact
<1>1. DatagenInit => GeneratedInv
  BY EmptyIsMap DEF DatagenInit, GeneratedInv
<1>2. GeneratedInv /\ [DatagenNext]_datagenVars => GeneratedInv'
  <2> SUFFICES ASSUME GeneratedInv, [DatagenNext]_datagenVars
               PROVE  GeneratedInv'
    OBVIOUS
  <2> USE DEF GeneratedInv
  <2>1. ASSUME NEW g \in Generations, NEW env \in Environments, Generate(g, env)
        PROVE  GeneratedInv'
    BY <2>1, PutIsMap DEF Generate
  <2>2. ASSUME NEW g \in Generations, GenerateFails(g)
        PROVE  GeneratedInv'
    BY <2>2, DropIsMap DEF GenerateFails
  <2>3. ASSUME NEW g \in Generations, GenerateEnds(g)
        PROVE  GeneratedInv'
    <3>1. generations[g] \in Environments
      BY <2>3, MapValue DEF GenerateEnds
    <3>2. IsMap(generations', Generations, Environments)
      BY <2>3, DropIsMap DEF GenerateEnds
    <3>3. PICK e : e = generations[g]
      OBVIOUS
    <3>4. genResult' = {[env |-> e, hosts |-> GeneratedHosts(e)]}
      BY <2>3, <3>3 DEF GenerateEnds
    <3> QED BY <3>1, <3>2, <3>3, <3>4
  <2>4. CASE DatagenReset
    BY <2>4 DEF DatagenReset
  <2>5. CASE UNCHANGED datagenVars
    BY <2>5 DEF datagenVars
  <2> QED BY <2>1, <2>2, <2>3, <2>4, <2>5 DEF DatagenNext
<1>3. GeneratedInv => HostsExact
  <2> SUFFICES ASSUME GeneratedInv, NEW r \in genResult
               PROVE  HostsOfResult(r.env, r.hosts)
    BY Zenon DEF HostsExact, HostsOfResult
  <2>1. PICK env \in Environments :
            r = [env |-> env, hosts |-> GeneratedHosts(env)]
    BY DEF GeneratedInv
  <2>2. env \in Environment
    BY DatagenAssumption
  <2>3. HostsOfResult(env, GeneratedHosts(env))
    BY <2>2, GeneratedHostsExact
  <2>4. r.env = env /\ r.hosts = GeneratedHosts(env)
    BY <2>1
  <2> QED BY <2>3, <2>4
<1> QED BY <1>1, <1>2, <1>3, PTL DEF DatagenSpec

-----------------------------------------------------------------------------
(***************************************************************************)
(* The services side by side.                                              *)
(***************************************************************************)
\* No service touches the state of another: side by side, each of them behaves
\* as its own specification says, so what is proved of it alone holds.
THEOREM ServicesApart ==
    Spec => /\ NetboxSpec /\ FaultSpec /\ EventSpec /\ SnapshotSpec
            /\ OvnSpec /\ LoadgenSpec /\ DatagenSpec
<1>1. Init => /\ NetboxInit /\ FaultInit /\ EventInit /\ SnapshotInit
              /\ OvnInit /\ LoadgenInit /\ DatagenInit
  BY DEF Init
<1>2. [Next]_vars => /\ [NetboxNext]_netboxVars /\ [FaultNext]_faultVars
                     /\ [EventNext]_eventVars /\ [SnapshotNext]_snapshotVars
                     /\ [OvnNext]_ovnVars /\ [LoadgenNext]_loadgenVars
                     /\ [DatagenNext]_datagenVars
  BY DEF Next, vars, NetboxStep, FaultStep, EventStep, SnapshotStep, OvnStep,
         LoadgenStep, DatagenStep
<1> QED BY <1>1, <1>2, PTL DEF Spec, NetboxSpec, FaultSpec, EventSpec,
           SnapshotSpec, OvnSpec, LoadgenSpec, DatagenSpec

\* The state of every service is well formed, and the log in order.
THEOREM ServicesTypeCorrect == Spec => []TypeOK
<1>1. /\ NetboxTypeOK /\ FaultTypeOK /\ LogOrdered /\ SnapshotTypeOK
      /\ OvnTypeOK /\ LoadgenTypeOK
      => TypeOK
  BY DEF TypeOK
<1> QED BY <1>1, ServicesApart, NetboxTypeCorrect, FaultTypeCorrect, LogSafe,
           SnapshotTypeCorrect, OvnTypeCorrect, LoadgenTypeCorrect, PTL
=============================================================================
