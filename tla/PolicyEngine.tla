---------------------------- MODULE PolicyEngine ----------------------------
(***************************************************************************)
(* PolicyEvaluationEngine.evaluate (mission_control/policy.py) over an     *)
(* ExecutionPolicy that its owner goes on changing while it is evaluated.  *)
(*                                                                         *)
(* policy.rules is a plain list of mutable PolicyRule objects.  The engine *)
(* iterates it by position, without a lock and without a copy, and keeps   *)
(* references to the rules that match.  Each iteration of its two loops,   *)
(* the maximum and the selection between them are steps; between any two   *)
(* the owner may insert, remove or replace an element, give the attribute  *)
(* another list, or assign to the fields of a rule.                        *)
(*                                                                         *)
(* A rule is a reference into objects.  Rule ids, versions, priorities and *)
(* instants are integers of which only the order is used; the id 0 is the  *)
(* empty string, the one value of its declared type that is_complete       *)
(* refuses.  The nine optional bindings are a function to values or None.  *)
(***************************************************************************)
EXTENDS Integers, Sequences, SequencesExt

CONSTANTS
  Rule,             \* the rules a policy may be given
  Context,          \* the contexts it may be asked about
  Attribute,        \* the names of the bindings
  Value,            \* their values
  None,             \* an optional field left out
  Naive,            \* a datetime without a time zone
  LocalInstant,     \* the instant timestamp() takes a naive datetime for
  DefaultDecision,  \* default_decision
  MaxRules,         \* bound on the rules created and on the length of policy.rules
  MaxEdits          \* bound on the changes by the owner during a behaviour

Decision == {"allow", "deny", "require_approval", "escalate"}

RuleType == [
  rule_id: Nat, rule_version: Int, priority: Int, decision: Decision, enabled: BOOLEAN,
  effective_from: Int \cup {None, Naive}, effective_until: Int \cup {None, Naive},
  binds: [Attribute -> Value \cup {None}]]

ContextType == [valid: BOOLEAN, evaluated_at: Int, bound: [Attribute -> Value]]

ASSUME PolicyAssumption ==
  /\ Rule \subseteq RuleType
  /\ Context \subseteq ContextType
  /\ None \notin Int /\ Naive \notin Int /\ None # Naive
  /\ LocalInstant \in Int
  /\ DefaultDecision \in Decision
  /\ MaxRules \in Nat /\ MaxEdits \in Nat

VARIABLES
  objects,     \* the PolicyRule objects created so far
  rules,       \* policy.rules, a list of references to them
  scanned,     \* the list object the loop of evaluate_match runs over
  attached,    \* whether that list is still the one policy.rules names
  pc,          \* where evaluate is
  context,     \* its argument
  i,           \* the position of the loop it is in
  matches,     \* the rules matched so far
  highest,     \* highest_priority
  candidates,  \* the positions of the candidates in matches
  winner,      \* the best candidate so far, or 0
  answer,      \* the decision returned, and the rule it came from or 0
  edits,       \* how often the owner changed something
  standing,    \* history: the rules that stood unchanged ever since the call
  overtaken,   \* history: a listed rule was taken from or put to where the loop had been
  rewritten    \* history: a rule was assigned to after it had matched

engine == <<pc, context, i, matches, highest, candidates, winner, answer>>
owned == <<objects, rules, attached, edits>>
history == <<standing, overtaken, rewritten>>
vars == <<owned, scanned, engine, history>>

NoAnswer == [decision |-> "deny", by |-> 0]

Reference == DOMAIN objects

TypeOK ==
  /\ objects \in Seq(RuleType) /\ Len(objects) <= MaxRules
  /\ rules \in Seq(Reference) /\ Len(rules) <= MaxRules
  /\ scanned \in Seq(Reference)
  /\ attached \in BOOLEAN
  /\ pc \in {"idle", "matching", "filtering", "resolving", "answered", "raised"}
  /\ context \in ContextType
  /\ i \in Nat \ {0}
  /\ matches \in Seq(Reference)
  /\ highest \in Int
  /\ candidates \subseteq DOMAIN matches
  /\ winner \in Reference \cup {0}
  /\ answer \in [decision: Decision, by: Reference \cup {0}]
  /\ edits \in 0..MaxEdits
  /\ standing \subseteq Reference
  /\ overtaken \in BOOLEAN /\ rewritten \in BOOLEAN

\* A policy is built from a list of rules.
Init ==
  /\ \E n \in 0..MaxRules : objects \in [1..n -> Rule]
  /\ rules = [k \in DOMAIN objects |-> k]
  /\ scanned = <<>>
  /\ attached = FALSE
  /\ pc = "idle"
  /\ context \in Context
  /\ i = 1
  /\ matches = <<>>
  /\ highest = 0
  /\ candidates = {}
  /\ winner = 0
  /\ answer = NoAnswer
  /\ edits = 0
  /\ standing = {}
  /\ overtaken = FALSE
  /\ rewritten = FALSE

-----------------------------------------------------------------------------
(* One rule against one context.                                           *)

\* is_active compares an aware instant with a naive bound: a TypeError.
WindowRaises(r, now) ==
  \/ r.effective_from = Naive
  \/ /\ r.effective_from = None \/ now >= r.effective_from
     /\ r.effective_until = Naive

\* Wrong on purpose: the window is open at its end.
InHalfOpenWindow(r, now) ==
  /\ r.effective_from = None \/ now >= r.effective_from
  /\ r.effective_until = None \/ now < r.effective_until

InWindow(r, now) ==
  /\ r.effective_from = None \/ now >= r.effective_from
  /\ r.effective_until = None \/ now <= r.effective_until

MatchesContext(r, c) == \A a \in Attribute : r.binds[a] \in {None, c.bound[a]}

Usable(r) == r.enabled /\ r.rule_id # 0

Applies(r, c) ==
  /\ Usable(r)
  /\ ~WindowRaises(r, c.evaluated_at)
  /\ InWindow(r, c.evaluated_at)
  /\ MatchesContext(r, c)

-----------------------------------------------------------------------------
(* The order among candidates.                                             *)

Severity(r) ==
  CASE r.decision = "deny" -> 4
    [] r.decision = "escalate" -> 3
    [] r.decision = "require_approval" -> 2
    [] OTHER -> 1

Since(r) ==
  CASE r.effective_from = None -> 0
    [] r.effective_from = Naive -> LocalInstant
    [] OTHER -> r.effective_from

\* Wrong on purpose: the newer version wins before the stricter decision does.
NewestFirst(r, s) ==
  \/ r.rule_version > s.rule_version
  \/ r.rule_version = s.rule_version /\ Severity(r) > Severity(s)

Outranks(r, s) ==
  \/ Severity(r) > Severity(s)
  \/ /\ Severity(r) = Severity(s)
     /\ \/ r.rule_version > s.rule_version
        \/ /\ r.rule_version = s.rule_version
           /\ \/ Since(r) > Since(s)
              \/ Since(r) = Since(s) /\ r.rule_id < s.rule_id

Matched == {matches[k] : k \in DOMAIN matches}

-----------------------------------------------------------------------------
(* The properties' own account of which rule applies.                      *)

\* The instants of a rule's validity are one closed interval around now, open where
\* a bound is left out.
Governs(r, c) ==
  LET first == IF r.effective_from = None THEN c.evaluated_at ELSE r.effective_from
      last  == IF r.effective_until = None THEN c.evaluated_at ELSE r.effective_until
  IN  /\ r.enabled /\ r.rule_id > 0
      /\ Naive \notin {first, last} /\ c.evaluated_at \in first..last
      /\ ~\E a \in Attribute : r.binds[a] # None /\ r.binds[a] # c.bound[a]

-----------------------------------------------------------------------------
(* evaluate.                                                               *)

Answer(decision, by) == pc' = "answered" /\ answer' = [decision |-> decision, by |-> by]

\* An invalid context is denied; a valid one starts the loop over the list that
\* policy.rules names now.
Begin ==
  /\ pc = "idle"
  /\ IF context.valid
     THEN pc' = "matching" /\ scanned' = rules /\ attached' = TRUE /\ UNCHANGED answer
     ELSE Answer("deny", 0) /\ UNCHANGED <<scanned, attached>>
  /\ standing' = {k \in Range(rules) : Governs(objects[k], context)}
  /\ UNCHANGED <<objects, rules, edits, context, i, matches, highest, candidates, winner,
                 overtaken, rewritten>>

\* Wrong on purpose: a match is recorded under a reference that is one too high.
InspectOffByOne ==
  /\ pc = "matching" /\ i <= Len(scanned)
  /\ IF Usable(objects[scanned[i]]) /\ WindowRaises(objects[scanned[i]], context.evaluated_at)
     THEN pc' = "raised" /\ UNCHANGED <<i, matches>>
     ELSE /\ matches' = IF Applies(objects[scanned[i]], context)
                        THEN Append(matches, scanned[i] + 1) ELSE matches
          /\ i' = i + 1
          /\ UNCHANGED pc
  /\ UNCHANGED <<owned, scanned, context, highest, candidates, winner, answer, history>>

\* One iteration of evaluate_match.
Inspect ==
  /\ pc = "matching" /\ i <= Len(scanned)
  /\ LET r == objects[scanned[i]] IN
     IF Usable(r) /\ WindowRaises(r, context.evaluated_at)
     THEN pc' = "raised" /\ UNCHANGED <<i, matches>>
     ELSE /\ matches' = IF Applies(r, context) THEN Append(matches, scanned[i]) ELSE matches
          /\ i' = i + 1
          /\ UNCHANGED pc
  /\ UNCHANGED <<owned, scanned, context, highest, candidates, winner, answer, history>>

\* The list is exhausted: no match falls back to the default decision, else the
\* highest priority is taken.
EndMatching ==
  /\ pc = "matching" /\ i > Len(scanned)
  /\ \/ matches = <<>> /\ Answer(DefaultDecision, 0) /\ UNCHANGED highest
     \/ /\ \E k \in Matched :
             /\ \A j \in Matched : objects[k].priority >= objects[j].priority
             /\ highest' = objects[k].priority
        /\ pc' = "filtering"
        /\ UNCHANGED answer
  /\ UNCHANGED <<owned, scanned, context, i, matches, candidates, winner, history>>

\* candidates, from the priorities as they are now.
Filter ==
  /\ pc = "filtering"
  /\ candidates' = {k \in DOMAIN matches : objects[matches[k]].priority = highest}
  /\ pc' = "resolving"
  /\ i' = 1
  /\ UNCHANGED <<owned, scanned, context, matches, highest, winner, answer, history>>

\* One iteration of the tie-break loop (a match that is no candidate changes nothing).
Consider ==
  /\ pc = "resolving" /\ i <= Len(matches)
  /\ winner' = IF i \in candidates
                 /\ (winner = 0 \/ Outranks(objects[matches[i]], objects[winner]))
               THEN matches[i] ELSE winner
  /\ i' = i + 1
  /\ UNCHANGED <<owned, scanned, pc, context, matches, highest, candidates, answer, history>>

Decide ==
  /\ pc = "resolving" /\ i > Len(matches)
  /\ IF winner = 0 THEN Answer(DefaultDecision, 0) ELSE Answer(objects[winner].decision, winner)
  /\ UNCHANGED <<owned, scanned, context, i, matches, highest, candidates, winner, history>>

-----------------------------------------------------------------------------
(* The owner of the policy, at any time.                                   *)

\* Positions the loop has been to.
Behind(p) == pc = "matching" /\ attached /\ p < i

\* A reference to an object there is, or to one created now.
Refer(k) ==
  \/ k \in Reference /\ UNCHANGED objects
  \/ /\ k = Len(objects) + 1 /\ k <= MaxRules
     /\ \E r \in Rule : objects' = Append(objects, r)

\* The list policy.rules names becomes s, and with it the one in the loop if they are
\* the same.
ListBecomes(s) ==
  /\ edits < MaxEdits /\ edits' = edits + 1
  /\ Len(s) <= MaxRules
  /\ rules' = s
  /\ scanned' = IF attached THEN s ELSE scanned
  /\ standing' = standing \cap Range(s)
  /\ UNCHANGED <<attached, engine, rewritten>>

\* insert and append.
InsertRule(p, k) ==
  /\ Refer(k)
  /\ ListBecomes(InsertAt(rules, p, k))
  /\ overtaken' = (overtaken \/ (Behind(p) /\ k \in Range(rules)))

\* rules[p] = k.
ReplaceRule(p, k) ==
  /\ Refer(k)
  /\ ListBecomes(ReplaceAt(rules, p, k))
  /\ overtaken' = (overtaken \/ (Behind(p) /\ k \in Range(rules)))

\* pop, remove and del.
RemoveRule(p) ==
  /\ ListBecomes(RemoveAt(rules, p))
  /\ overtaken' = (overtaken \/ Behind(p))
  /\ UNCHANGED objects

\* policy.rules = another list of the rules there are.
RebindRules(s) ==
  /\ edits < MaxEdits /\ edits' = edits + 1
  /\ rules' = s
  /\ attached' = FALSE
  /\ standing' = standing \cap Range(s)
  /\ UNCHANGED <<objects, scanned, engine, overtaken, rewritten>>

\* Assignments to the fields of a rule.
AmendRule(k) ==
  /\ edits < MaxEdits /\ edits' = edits + 1
  /\ \E r \in Rule \cup {[objects[k] EXCEPT !.enabled = ~@]} :
       objects' = [objects EXCEPT ![k] = r]
  /\ standing' = standing \ {k}
  /\ rewritten' = (rewritten \/ k \in Matched)
  /\ UNCHANGED <<rules, attached, scanned, engine, overtaken>>

Edit ==
  \/ \E p \in 1 .. Len(rules) + 1, k \in 1 .. Len(objects) + 1 : InsertRule(p, k)
  \/ \E p \in DOMAIN rules, k \in 1 .. Len(objects) + 1 : ReplaceRule(p, k)
  \/ \E p \in DOMAIN rules : RemoveRule(p)
  \/ \E n \in 0..MaxRules : \E s \in [1..n -> Reference] : RebindRules(s)
  \/ \E k \in Reference : AmendRule(k)

Next ==
  \/ Begin
  \/ Inspect
  \/ EndMatching
  \/ Filter
  \/ Consider
  \/ Decide
  \/ Edit

Spec == Init /\ [][Next]_vars

-----------------------------------------------------------------------------
(* Properties.                                                             *)

\* One rule starts no earlier than another, an undated one at the epoch.
StartsNoEarlier(r, s) ==
  \/ r.effective_from = None /\ s.effective_from = None
  \/ r.effective_from = None /\ s.effective_from # None /\ s.effective_from <= 0
  \/ r.effective_from # None /\ s.effective_from = None /\ r.effective_from >= 0
  \/ /\ r.effective_from # None /\ s.effective_from # None
     /\ r.effective_from >= s.effective_from

\* The sequential tie-break finds the one maximum, in whatever order the rules are
\* listed and however the list changes meanwhile: among all matches the highest
\* priority, among those the strictest decision, then the newest version, then the
\* latest start, then the first id.  Only assignments to a rule that has matched can
\* make it return another.
StrictestWins ==
  pc = "answered" /\ answer.by # 0 /\ ~rewritten =>
    LET top      == {k \in Matched : \A j \in Matched : objects[k].priority >= objects[j].priority}
        strictest == {k \in top : \A j \in top : Severity(objects[k]) >= Severity(objects[j])}
        newest   == {k \in strictest : \A j \in strictest :
                       objects[k].rule_version >= objects[j].rule_version}
        latest   == {k \in newest : \A j \in newest : StartsNoEarlier(objects[k], objects[j])}
        first    == {k \in latest : \A j \in latest : objects[k].rule_id <= objects[j].rule_id}
    IN  answer.by \in first /\ answer.decision = objects[answer.by].decision

\* A rule is honoured by the answer: it gave it, or is outranked by the priority or by
\* an at least equally strict decision of the rule that did.
Honoured(k) ==
  /\ answer.by # 0
  /\ \/ objects[answer.by].priority > objects[k].priority
     \/ /\ objects[answer.by].priority = objects[k].priority
        /\ Severity(objects[answer.by]) >= Severity(objects[k])

\* Insertions, replacements, another list and edits of other rules never silence a rule
\* that governed the context and stood in the policy unchanged from the call to the
\* return.  Two things can, and are left out: taking a rule from where the loop has been
\* (or putting a listed one there, as a swap does), which shifts the list under the loop,
\* and assigning to a rule that has already matched.
StandingRuleHolds ==
  pc = "answered" /\ context.valid /\ ~overtaken /\ ~rewritten =>
    \A k \in standing : Honoured(k)

\* docs/system_architecture.md:15, "Valid matching rules retain the priority, severity,
\* version, effective-time and rule-id precedence": a rule that governs the context and
\* stands in the policy during the whole call keeps its precedence, whatever the owner
\* does to the list.
MatchingRulesRetainPrecedence ==
  pc = "answered" /\ context.valid /\ ~rewritten => \A k \in standing : Honoured(k)

=============================================================================
