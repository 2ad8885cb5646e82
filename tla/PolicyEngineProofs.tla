------------------------- MODULE PolicyEngineProofs -------------------------
(***************************************************************************)
(* What PolicyEngine's runs check on a few rules, for every set of rules   *)
(* and contexts, every length of the policy and every number of changes    *)
(* its owner makes.                                                        *)
(***************************************************************************)
EXTENDS PolicyEngine, TLAPS

-----------------------------------------------------------------------------
(* The inductive invariant.                                                *)

\* Whatever matched, and was not assigned to since, starts at an instant or is undated.
MatchesAreOrdered == ~rewritten => \A k \in Matched : objects[k].effective_from # Naive

\* What stands still governs the context and is in the policy and in the list under the
\* loop; unless that list was shifted, it has matched wherever the loop has been.
StandingIsHeard ==
  /\ pc = "idle" => standing = {}
  /\ \A k \in standing : Governs(objects[k], context)
  /\ standing \subseteq Range(rules)
  /\ attached => scanned = rules
  /\ pc = "matching" => standing \subseteq Range(scanned)
  /\ pc = "matching" /\ ~overtaken =>
       \A q \in DOMAIN scanned : q < i /\ scanned[q] \in standing => scanned[q] \in Matched
  /\ pc \in {"filtering", "resolving", "answered"} /\ context.valid /\ ~overtaken =>
       standing \subseteq Matched

\* Until a match is assigned to, the priority taken is the highest of the matches and
\* the candidates are those that have it.
HighestIsTaken ==
  /\ pc \in {"filtering", "resolving", "answered"} /\ ~rewritten /\ matches # <<>> =>
       /\ \E k \in Matched : objects[k].priority = highest
       /\ \A k \in Matched : highest >= objects[k].priority
  /\ pc \in {"resolving", "answered"} /\ ~rewritten /\ matches # <<>> =>
       candidates = {k \in DOMAIN matches : objects[matches[k]].priority = highest}

\* The best candidate so far is a candidate, and none inspected outranks it.
WinnerSoFar ==
  /\ pc = "idle" => i = 1 /\ matches = <<>>
  /\ pc \in {"idle", "matching", "filtering", "raised"} => winner = 0
  /\ pc # "answered" => answer.by = 0
  /\ pc \in {"filtering", "resolving"} => matches # <<>>
  /\ pc = "resolving" => i <= Len(matches) + 1
  /\ pc = "resolving" /\ ~rewritten /\ winner = 0 => \A k \in candidates : ~(k < i)
  /\ winner # 0 => winner \in Matched
  /\ winner # 0 /\ ~rewritten =>
       /\ \E k \in candidates : winner = matches[k]
       /\ \A k \in candidates : k < i => ~Outranks(objects[matches[k]], objects[winner])
  /\ pc = "answered" /\ answer.by = 0 /\ context.valid /\ ~rewritten => matches = <<>>
  /\ pc = "answered" /\ answer.by # 0 =>
       /\ answer.by = winner /\ i = Len(matches) + 1
       /\ ~rewritten => answer.decision = objects[winner].decision

IInv ==
  /\ TypeOK
  /\ MatchesAreOrdered
  /\ StandingIsHeard
  /\ HighestIsTaken
  /\ WinnerSoFar

-----------------------------------------------------------------------------
(* The tie-break order.                                                    *)

\* The keys the tie-break compares are integers.
LEMMA KeysAreIntegers ==
  ASSUME NEW r \in RuleType
  PROVE  /\ Severity(r) \in Int /\ Since(r) \in Int
         /\ r.rule_version \in Int /\ r.rule_id \in Int /\ r.priority \in Int
  BY PolicyAssumption DEF RuleType, Severity, Since

\* Replacing the best so far never loses the comparisons it had won.
LEMMA OutranksIsTransitive ==
  ASSUME NEW r \in RuleType, NEW s \in RuleType, NEW t \in RuleType,
         ~Outranks(r, s), Outranks(t, s)
  PROVE  ~Outranks(r, t)
  BY KeysAreIntegers DEF Outranks

\* No rule outranks itself.
LEMMA OutranksIsIrreflexive ==
  ASSUME NEW r \in RuleType
  PROVE  ~Outranks(r, r)
  BY KeysAreIntegers DEF Outranks

\* The code's test of a rule accepts, and does not raise on, what governs the context.
LEMMA GoverningApplies ==
  ASSUME NEW r \in RuleType, NEW c \in ContextType, Governs(r, c)
  PROVE  Applies(r, c) /\ ~WindowRaises(r, c.evaluated_at)
<1>1. /\ r.rule_id \in Nat /\ c.evaluated_at \in Int
      /\ r.effective_from \in Int \cup {None, Naive}
      /\ r.effective_until \in Int \cup {None, Naive}
  BY DEF RuleType, ContextType
<1>2. Usable(r) /\ MatchesContext(r, c)
  BY <1>1 DEF Governs, Usable, MatchesContext
<1>3. r.effective_from # Naive /\ r.effective_until # Naive
  BY <1>1, PolicyAssumption DEF Governs
<1>4. /\ r.effective_from # None => c.evaluated_at >= r.effective_from
      /\ r.effective_until # None => c.evaluated_at <= r.effective_until
  BY <1>1, <1>3 DEF Governs
<1> QED
  BY <1>2, <1>3, <1>4 DEF Applies, WindowRaises, InWindow

-----------------------------------------------------------------------------
(* Lists.                                                                  *)

\* A list of rules stays one when there are more rules.
LEMMA ListsGrow ==
  ASSUME NEW S, NEW T, S \subseteq T, NEW s \in Seq(S)
  PROVE  s \in Seq(T)
  OBVIOUS

\* What list.insert leaves where.
LEMMA Inserted ==
  ASSUME NEW S, NEW s \in Seq(S), NEW p \in 1 .. Len(s) + 1, NEW e \in S
  PROVE  /\ InsertAt(s, p, e) \in Seq(S)
         /\ Len(InsertAt(s, p, e)) = Len(s) + 1
         /\ \A q \in 1 .. Len(s) + 1 :
              InsertAt(s, p, e)[q] = IF q < p THEN s[q] ELSE IF q = p THEN e ELSE s[q - 1]
<1> DEFINE front == SubSeq(s, 1, p - 1)
           back  == SubSeq(s, p, Len(s))
<1>1. /\ front \in Seq(S) /\ Len(front) = p - 1
      /\ \A q \in 1 .. p - 1 : front[q] = s[q]
  OBVIOUS
<1>2. /\ back \in Seq(S) /\ Len(back) = Len(s) - p + 1
      /\ \A q \in 1 .. Len(s) - p + 1 : back[q] = s[p + q - 1]
  OBVIOUS
<1>3. InsertAt(s, p, e) = (front \o <<e>>) \o back
  BY DEF InsertAt
<1> HIDE DEF front, back
<1>4. /\ front \o <<e>> \in Seq(S) /\ Len(front \o <<e>>) = p
      /\ \A q \in 1 .. p : (front \o <<e>>)[q] = IF q < p THEN s[q] ELSE e
  BY <1>1
<1> DEFINE whole == (front \o <<e>>) \o back
<1>5. /\ whole \in Seq(S) /\ Len(whole) = Len(s) + 1
      /\ \A q \in 1 .. p : whole[q] = (front \o <<e>>)[q]
      /\ \A q \in p + 1 .. Len(s) + 1 : whole[q] = back[q - p]
  BY <1>2, <1>4
<1> HIDE DEF whole
<1>6. \A q \in p + 1 .. Len(s) + 1 : whole[q] = s[q - 1]
  <2> TAKE q \in p + 1 .. Len(s) + 1
  <2>1. q - p \in 1 .. Len(s) - p + 1 /\ p + (q - p) - 1 = q - 1
    OBVIOUS
  <2> QED
    BY <1>2, <1>5, <2>1
<1>7. \A q \in 1 .. Len(s) + 1 :
        whole[q] = IF q < p THEN s[q] ELSE IF q = p THEN e ELSE s[q - 1]
  BY <1>4, <1>5, <1>6
<1> QED
  BY <1>3, <1>5, <1>7 DEF whole

\* What del leaves where.
LEMMA Removed ==
  ASSUME NEW S, NEW s \in Seq(S), NEW p \in DOMAIN s
  PROVE  /\ RemoveAt(s, p) \in Seq(S)
         /\ Len(RemoveAt(s, p)) = Len(s) - 1
         /\ \A q \in 1 .. Len(s) - 1 :
              RemoveAt(s, p)[q] = IF q < p THEN s[q] ELSE s[q + 1]
<1> DEFINE front == SubSeq(s, 1, p - 1)
           back  == SubSeq(s, p + 1, Len(s))
<1>1. /\ front \in Seq(S) /\ Len(front) = p - 1
      /\ \A q \in 1 .. p - 1 : front[q] = s[q]
  OBVIOUS
<1>2. /\ back \in Seq(S) /\ Len(back) = Len(s) - p
      /\ \A q \in 1 .. Len(s) - p : back[q] = s[p + q]
  OBVIOUS
<1>3. RemoveAt(s, p) = front \o back
  BY DEF RemoveAt
<1> HIDE DEF front, back
<1> QED
  BY <1>1, <1>2, <1>3

\* What an assignment to an element leaves where.
LEMMA Replaced ==
  ASSUME NEW S, NEW s \in Seq(S), NEW p \in DOMAIN s, NEW e \in S
  PROVE  /\ ReplaceAt(s, p, e) \in Seq(S)
         /\ Len(ReplaceAt(s, p, e)) = Len(s)
         /\ \A q \in DOMAIN s : ReplaceAt(s, p, e)[q] = IF q = p THEN e ELSE s[q]
  BY DEF ReplaceAt

-----------------------------------------------------------------------------
(* The invariant is established.                                           *)

LEMMA InitEstablishes == Init => IInv
<1> SUFFICES ASSUME Init
             PROVE  IInv
  OBVIOUS
<1>1. PICK n \in 0..MaxRules : objects \in [1..n -> Rule]
  BY DEF Init
<1>2. n \in Nat /\ n <= MaxRules /\ MaxEdits \in Nat /\ Rule \subseteq RuleType
      /\ Context \subseteq ContextType
  BY PolicyAssumption
<1>3. objects \in Seq(RuleType) /\ Len(objects) = n /\ DOMAIN objects = 1..n
  BY <1>1, <1>2
<1>4. rules \in Seq(Reference) /\ Len(rules) = n
  BY <1>2, <1>3 DEF Init, Reference
<1>5. Matched = {}
  BY DEF Init, Matched
<1>6. TypeOK
  <2>1. objects \in Seq(RuleType) /\ Len(objects) <= MaxRules
    BY <1>2, <1>3
  <2>2. rules \in Seq(Reference) /\ Len(rules) <= MaxRules
    BY <1>2, <1>4
  <2>3. scanned \in Seq(Reference) /\ matches \in Seq(Reference)
        /\ candidates \subseteq DOMAIN matches /\ standing \subseteq Reference
    BY DEF Init
  <2>4. answer \in [decision: Decision, by: Reference \cup {0}]
    BY DEF Init, NoAnswer, Decision
  <2>5. context \in ContextType /\ edits \in 0..MaxEdits
    BY <1>2 DEF Init
  <2>6. attached \in BOOLEAN /\ overtaken \in BOOLEAN /\ rewritten \in BOOLEAN
    BY Zenon DEF Init
  <2>7. pc \in {"idle", "matching", "filtering", "resolving", "answered", "raised"}
    BY DEF Init
  <2>8. i \in Nat \ {0} /\ highest \in Int /\ winner \in Reference \cup {0}
    BY DEF Init
  <2> QED
    BY <2>1, <2>2, <2>3, <2>4, <2>5, <2>6, <2>7, <2>8 DEF TypeOK
<1> QED
  BY <1>5, <1>6
  DEF Init, IInv, MatchesAreOrdered, StandingIsHeard, HighestIsTaken, WinnerSoFar, NoAnswer

-----------------------------------------------------------------------------
(* The owner's changes preserve it.                                        *)

\* A change keeps what the engine has read of a rule that stands or has matched, and
\* the loop hears whatever stands.
Undisturbed ==
  /\ UNCHANGED engine
  /\ objects' \in Seq(RuleType) /\ Len(objects') <= MaxRules
  /\ Reference \subseteq Reference'
  /\ rules' \in Seq(Reference') /\ Len(rules') <= MaxRules
  /\ scanned' \in Seq(Reference')
  /\ attached' \in BOOLEAN /\ edits' \in 0..MaxEdits
  /\ overtaken' \in BOOLEAN /\ rewritten' \in BOOLEAN
  /\ ~rewritten' => ~rewritten /\ \A k \in Matched : objects'[k] = objects[k]
  /\ ~overtaken' => ~overtaken
  /\ standing' \subseteq standing \cap Range(rules')
  /\ \A k \in standing' : objects'[k] = objects[k]
  /\ attached' => scanned' = rules'
  /\ pc = "matching" => standing' \subseteq Range(scanned')
  /\ pc = "matching" /\ ~overtaken' =>
       \A q \in DOMAIN scanned' : q < i /\ scanned'[q] \in standing' => scanned'[q] \in Matched

LEMMA UndisturbedPreserves ==
  ASSUME IInv, Undisturbed
  PROVE  IInv'
<1>1. /\ pc' = pc /\ context' = context /\ i' = i /\ matches' = matches
      /\ highest' = highest /\ candidates' = candidates /\ winner' = winner
      /\ answer' = answer /\ Matched' = Matched
  BY DEF Undisturbed, engine, Matched
<1>2. TypeOK'
  <2>1. matches' \in Seq(Reference') /\ candidates' \subseteq DOMAIN matches'
    BY <1>1 DEF IInv, TypeOK, Undisturbed
  <2>2. standing' \subseteq Reference'
    BY DEF IInv, TypeOK, Undisturbed
  <2>3. answer' \in [decision: Decision, by: Reference' \cup {0}]
        /\ winner' \in Reference' \cup {0}
    BY <1>1 DEF IInv, TypeOK, Undisturbed
  <2> QED
    BY <1>1, <2>1, <2>2, <2>3 DEF IInv, TypeOK, Undisturbed
<1>3. MatchesAreOrdered'
  BY <1>1 DEF IInv, MatchesAreOrdered, Undisturbed
<1>4. StandingIsHeard'
  <2>1. \A k \in standing' : Governs(objects'[k], context')
    BY <1>1 DEF IInv, StandingIsHeard, Undisturbed
  <2> QED
    BY <1>1, <2>1 DEF IInv, StandingIsHeard, Undisturbed
<1>5. HighestIsTaken'
  <2> SUFFICES ASSUME ~rewritten', matches # <<>>,
                      pc \in {"filtering", "resolving", "answered"}
               PROVE  /\ \E k \in Matched : objects'[k].priority = highest
                      /\ \A k \in Matched : highest >= objects'[k].priority
                      /\ pc \in {"resolving", "answered"} =>
                           candidates = {k \in DOMAIN matches :
                                           objects'[matches[k]].priority = highest}
    BY <1>1 DEF HighestIsTaken
  <2>1. ~rewritten /\ \A k \in Matched : objects'[k] = objects[k]
    BY DEF Undisturbed
  <2>2. \A k \in DOMAIN matches : objects'[matches[k]] = objects[matches[k]]
    BY <2>1 DEF Matched
  <2> QED
    BY <2>1, <2>2 DEF IInv, HighestIsTaken
<1>6. WinnerSoFar'
  <2>1. \A k \in candidates : matches[k] \in Matched
    BY DEF IInv, TypeOK, Matched
  <2>2. ~rewritten' /\ winner # 0 =>
          /\ \E k \in candidates : winner = matches[k]
          /\ \A k \in candidates : k < i => ~Outranks(objects'[matches[k]], objects'[winner])
    BY <2>1 DEF IInv, WinnerSoFar, Undisturbed
  <2>3. pc = "answered" /\ answer.by # 0 /\ ~rewritten' =>
          answer.decision = objects'[winner].decision
    BY DEF IInv, WinnerSoFar, Undisturbed
  <2> QED
    BY <1>1, <2>2, <2>3 DEF IInv, WinnerSoFar, Undisturbed
<1> QED
  BY <1>2, <1>3, <1>4, <1>5, <1>6 DEF IInv

\* A reference to an old or a new object.
LEMMA Referring ==
  ASSUME TypeOK, NEW k \in 1 .. Len(objects) + 1, Refer(k)
  PROVE  /\ objects' \in Seq(RuleType) /\ Len(objects') <= MaxRules
         /\ Reference \subseteq Reference' /\ k \in Reference'
         /\ \A m \in Reference : objects'[m] = objects[m]
<1>1. CASE k \in Reference /\ UNCHANGED objects
  BY <1>1 DEF TypeOK, Reference
<1>2. CASE k = Len(objects) + 1 /\ k <= MaxRules /\ \E r \in Rule : objects' = Append(objects, r)
  <2>1. PICK r \in Rule : objects' = Append(objects, r)
    BY <1>2
  <2>2. r \in RuleType /\ objects \in Seq(RuleType)
    BY PolicyAssumption DEF TypeOK
  <2>3. /\ objects' \in Seq(RuleType) /\ Len(objects') = Len(objects) + 1
        /\ \A m \in DOMAIN objects : objects'[m] = objects[m]
    BY <2>1, <2>2
  <2> QED
    BY <1>2, <2>2, <2>3 DEF Reference
<1> QED
  BY <1>1, <1>2 DEF Refer

\* What a change of the list asks of the list it leaves.
LEMMA ListPreserves ==
  ASSUME IInv, NEW s \in Seq(Reference'), ListBecomes(s),
         objects' \in Seq(RuleType), Len(objects') <= MaxRules, Reference \subseteq Reference',
         \A m \in Reference : objects'[m] = objects[m],
         overtaken' \in BOOLEAN, ~overtaken' => ~overtaken,
         pc = "matching" /\ attached /\ ~overtaken' =>
           \A q \in DOMAIN s : q < i /\ s[q] \in standing => s[q] \in Matched
  PROVE  IInv'
<1>1. /\ rules' = s /\ scanned' = (IF attached THEN s ELSE scanned)
      /\ standing' = standing \cap Range(s) /\ Len(s) <= MaxRules
      /\ UNCHANGED <<attached, engine, rewritten>>
      /\ edits < MaxEdits /\ edits' = edits + 1
  BY DEF ListBecomes
<1>2. edits' \in 0..MaxEdits
  BY <1>1, PolicyAssumption DEF IInv, TypeOK
<1>3. Matched \subseteq Reference /\ standing \subseteq Reference
      /\ scanned \in Seq(Reference')
  BY DEF IInv, TypeOK, Matched
<1>4. /\ ~rewritten' => ~rewritten /\ \A k \in Matched : objects'[k] = objects[k]
      /\ \A k \in standing' : objects'[k] = objects[k]
  BY <1>1, <1>3
<1>5. pc = "matching" => standing' \subseteq Range(scanned')
  BY <1>1 DEF IInv, StandingIsHeard
<1>6. pc = "matching" /\ ~overtaken' =>
       \A q \in DOMAIN scanned' : q < i /\ scanned'[q] \in standing' => scanned'[q] \in Matched
  BY <1>1 DEF IInv, StandingIsHeard
<1>7. scanned' \in Seq(Reference') /\ attached' \in BOOLEAN /\ rewritten' \in BOOLEAN
  BY <1>1, <1>3 DEF IInv, TypeOK
<1>8. Undisturbed
  BY <1>1, <1>2, <1>4, <1>5, <1>6, <1>7 DEF Undisturbed
<1> QED
  BY <1>8, UndisturbedPreserves

\* An insertion behind the loop makes it inspect a rule twice and misses none.
LEMMA InsertPreserves ==
  ASSUME IInv, NEW p \in 1 .. Len(rules) + 1, NEW k \in 1 .. Len(objects) + 1, InsertRule(p, k)
  PROVE  IInv'
<1> DEFINE s == InsertAt(rules, p, k)
<1>1. /\ objects' \in Seq(RuleType) /\ Len(objects') <= MaxRules
      /\ Reference \subseteq Reference' /\ k \in Reference'
      /\ \A m \in Reference : objects'[m] = objects[m]
  BY Referring DEF InsertRule, IInv
<1>2. rules \in Seq(Reference') /\ i \in Nat /\ Len(rules) \in Nat
  <2>1. rules \in Seq(Reference) /\ i \in Nat /\ Len(rules) \in Nat
    BY DEF IInv, TypeOK
  <2> QED
    BY <1>1, <2>1, ListsGrow
<1>3. /\ s \in Seq(Reference') /\ Len(s) = Len(rules) + 1
      /\ \A q \in 1 .. Len(rules) + 1 :
           s[q] = IF q < p THEN rules[q] ELSE IF q = p THEN k ELSE rules[q - 1]
  <2>1. k \in Reference' /\ rules \in Seq(Reference')
    BY <1>1, <1>2
  <2> QED
    BY <2>1, Inserted
<1>4. ListBecomes(s) /\ overtaken' = (overtaken \/ (Behind(p) /\ k \in Range(rules)))
  BY DEF InsertRule
<1> HIDE DEF s
<1>5. ASSUME pc = "matching", attached, ~overtaken',
             NEW q \in DOMAIN s, q < i, s[q] \in standing
      PROVE  s[q] \in Matched
  <2>1. \A m \in DOMAIN rules : m < i /\ rules[m] \in standing => rules[m] \in Matched
    BY <1>4, <1>5 DEF IInv, StandingIsHeard, TypeOK
  <2>2. q \in 1 .. Len(rules) + 1
    BY <1>3
  <2>3. CASE q < p
    <3>1. q \in DOMAIN rules /\ s[q] = rules[q]
      BY <1>2, <1>3, <2>2, <2>3
    <3> QED
      BY <1>5, <2>1, <3>1
  <2>4. CASE q = p
    <3>1. Behind(p) /\ k \in standing
      BY <1>3, <1>5, <2>2, <2>4 DEF Behind
    <3>2. k \in Range(rules)
      BY <3>1 DEF IInv, StandingIsHeard
    <3> QED
      BY <1>4, <1>5, <3>1, <3>2 DEF IInv, TypeOK
  <2>5. CASE q > p
    <3>1. q - 1 \in DOMAIN rules /\ s[q] = rules[q - 1] /\ q - 1 < i
      BY <1>2, <1>3, <1>5, <2>2, <2>5
    <3> QED
      BY <1>5, <2>1, <3>1
  <2> QED
    BY <2>2, <2>3, <2>4, <2>5
<1>6. overtaken' \in BOOLEAN /\ (~overtaken' => ~overtaken)
  BY <1>4 DEF IInv, TypeOK
<1> QED
  BY <1>1, <1>3, <1>4, <1>5, <1>6, ListPreserves

\* A replacement shifts nothing.
LEMMA ReplacePreserves ==
  ASSUME IInv, NEW p \in DOMAIN rules, NEW k \in 1 .. Len(objects) + 1, ReplaceRule(p, k)
  PROVE  IInv'
<1> DEFINE s == ReplaceAt(rules, p, k)
<1>1. /\ objects' \in Seq(RuleType) /\ Len(objects') <= MaxRules
      /\ Reference \subseteq Reference' /\ k \in Reference'
      /\ \A m \in Reference : objects'[m] = objects[m]
  BY Referring DEF ReplaceRule, IInv
<1>2. rules \in Seq(Reference') /\ i \in Nat /\ Len(rules) \in Nat
  <2>1. rules \in Seq(Reference) /\ i \in Nat /\ Len(rules) \in Nat
    BY DEF IInv, TypeOK
  <2> QED
    BY <1>1, <2>1, ListsGrow
<1>3. /\ s \in Seq(Reference') /\ Len(s) = Len(rules)
      /\ \A q \in DOMAIN rules : s[q] = IF q = p THEN k ELSE rules[q]
  BY <1>1, <1>2, Replaced
<1>4. ListBecomes(s) /\ overtaken' = (overtaken \/ (Behind(p) /\ k \in Range(rules)))
  BY DEF ReplaceRule
<1> HIDE DEF s
<1>5. ASSUME pc = "matching", attached, ~overtaken',
             NEW q \in DOMAIN s, q < i, s[q] \in standing
      PROVE  s[q] \in Matched
  <2>1. \A m \in DOMAIN rules : m < i /\ rules[m] \in standing => rules[m] \in Matched
    BY <1>4, <1>5 DEF IInv, StandingIsHeard, TypeOK
  <2>2. q \in DOMAIN rules
    BY <1>2, <1>3
  <2>3. CASE q # p
    BY <1>3, <1>5, <2>1, <2>2, <2>3
  <2>4. CASE q = p
    <3>1. Behind(p) /\ k \in standing
      BY <1>3, <1>5, <2>2, <2>4 DEF Behind
    <3>2. k \in Range(rules)
      BY <3>1 DEF IInv, StandingIsHeard
    <3> QED
      BY <1>4, <1>5, <3>1, <3>2 DEF IInv, TypeOK
  <2> QED
    BY <2>3, <2>4
<1>6. overtaken' \in BOOLEAN /\ (~overtaken' => ~overtaken)
  BY <1>4 DEF IInv, TypeOK
<1> QED
  BY <1>1, <1>3, <1>4, <1>5, <1>6, ListPreserves

\* A removal ahead of the loop shifts only what it has not been to.
LEMMA RemovePreserves ==
  ASSUME IInv, NEW p \in DOMAIN rules, RemoveRule(p)
  PROVE  IInv'
<1> DEFINE s == RemoveAt(rules, p)
<1>1. /\ objects' = objects /\ Reference' = Reference
      /\ objects' \in Seq(RuleType) /\ Len(objects') <= MaxRules
  BY DEF RemoveRule, IInv, TypeOK, Reference
<1>2. rules \in Seq(Reference') /\ i \in Nat /\ Len(rules) \in Nat
  <2>1. rules \in Seq(Reference) /\ i \in Nat /\ Len(rules) \in Nat
    BY DEF IInv, TypeOK
  <2> QED
    BY <1>1, <2>1, ListsGrow
<1>3. /\ s \in Seq(Reference') /\ Len(s) = Len(rules) - 1
      /\ \A q \in 1 .. Len(rules) - 1 : s[q] = IF q < p THEN rules[q] ELSE rules[q + 1]
  BY <1>2, Removed
<1>4. ListBecomes(s) /\ overtaken' = (overtaken \/ Behind(p))
  BY DEF RemoveRule
<1> HIDE DEF s
<1>5. ASSUME pc = "matching", attached, ~overtaken',
             NEW q \in DOMAIN s, q < i, s[q] \in standing
      PROVE  s[q] \in Matched
  <2>1. \A m \in DOMAIN rules : m < i /\ rules[m] \in standing => rules[m] \in Matched
    BY <1>4, <1>5 DEF IInv, StandingIsHeard, TypeOK
  <2>2. ~(p < i)
    BY <1>4, <1>5 DEF Behind, IInv, TypeOK
  <2>3. q \in DOMAIN rules /\ s[q] = rules[q]
    BY <1>2, <1>3, <1>5, <2>2
  <2> QED
    BY <1>5, <2>1, <2>3
<1>6. overtaken' \in BOOLEAN /\ (~overtaken' => ~overtaken)
  BY <1>4 DEF IInv, TypeOK
<1> QED
  BY <1>1, <1>3, <1>4, <1>5, <1>6, ListPreserves

\* The loop goes on over the list it started on.
LEMMA RebindPreserves ==
  ASSUME IInv, NEW n \in 0..MaxRules, NEW s \in [1..n -> Reference], RebindRules(s)
  PROVE  IInv'
<1>1. /\ rules' = s /\ attached' = FALSE /\ standing' = standing \cap Range(s)
      /\ UNCHANGED <<objects, scanned, engine, overtaken, rewritten>>
      /\ edits < MaxEdits /\ edits' = edits + 1
  BY DEF RebindRules
<1>2. s \in Seq(Reference') /\ Len(s) <= MaxRules /\ Reference' = Reference
  BY <1>1, PolicyAssumption DEF Reference
<1>3. edits' \in 0..MaxEdits
  BY <1>1, PolicyAssumption DEF IInv, TypeOK
<1>4. Undisturbed
  BY <1>1, <1>2, <1>3 DEF Undisturbed, IInv, TypeOK, StandingIsHeard
<1> QED
  BY <1>4, UndisturbedPreserves

\* An assignment concerns a rule that stands no longer.
LEMMA AmendPreserves ==
  ASSUME IInv, NEW k \in Reference, AmendRule(k)
  PROVE  IInv'
<1>1. /\ UNCHANGED <<rules, attached, scanned, engine, overtaken>>
      /\ standing' = standing \ {k} /\ rewritten' = (rewritten \/ k \in Matched)
      /\ edits < MaxEdits /\ edits' = edits + 1
  BY DEF AmendRule
<1>2. PICK r \in Rule \cup {[objects[k] EXCEPT !.enabled = ~@]} :
        objects' = [objects EXCEPT ![k] = r]
  BY DEF AmendRule
<1>3. objects \in Seq(RuleType) /\ objects[k] \in RuleType
  BY DEF IInv, TypeOK, Reference
<1>4. r \in RuleType
  BY <1>3, PolicyAssumption DEF RuleType
<1>5. /\ objects' \in Seq(RuleType) /\ Len(objects') = Len(objects)
      /\ Reference' = Reference
      /\ \A m \in Reference \ {k} : objects'[m] = objects[m]
  BY <1>2, <1>3, <1>4 DEF Reference
<1>6. edits' \in 0..MaxEdits
  BY <1>1, PolicyAssumption DEF IInv, TypeOK
<1>7. Matched \subseteq Reference /\ standing \subseteq Reference
  BY DEF IInv, TypeOK, Matched
<1>8. /\ rewritten' \in BOOLEAN
      /\ ~rewritten' => ~rewritten /\ \A m \in Matched : objects'[m] = objects[m]
      /\ \A m \in standing' : objects'[m] = objects[m]
  BY <1>1, <1>5, <1>7 DEF IInv, TypeOK
<1>9. /\ standing' \subseteq standing \cap Range(rules')
      /\ pc = "matching" => standing' \subseteq Range(scanned')
      /\ pc = "matching" /\ ~overtaken' =>
           \A q \in DOMAIN scanned' : q < i /\ scanned'[q] \in standing' => scanned'[q] \in Matched
  BY <1>1 DEF IInv, StandingIsHeard
<1>10. Undisturbed
  BY <1>1, <1>5, <1>6, <1>8, <1>9 DEF Undisturbed, IInv, TypeOK, StandingIsHeard
<1> QED
  BY <1>10, UndisturbedPreserves

LEMMA EditPreserves == IInv /\ Edit => IInv'
  BY InsertPreserves, ReplacePreserves, RemovePreserves, RebindPreserves, AmendPreserves DEF Edit

-----------------------------------------------------------------------------
(* The engine's steps preserve it.                                         *)

LEMMA BeginPreserves == IInv /\ Begin => IInv'
<1> SUFFICES ASSUME IInv, Begin
             PROVE  IInv'
  OBVIOUS
<1>1. /\ pc = "idle" /\ i = 1 /\ matches = <<>> /\ winner = 0 /\ answer.by = 0
      /\ standing' = {k \in Range(rules) : Governs(objects[k], context)}
      /\ UNCHANGED <<objects, rules, edits, context, i, matches, highest, candidates, winner,
                     overtaken, rewritten>>
  BY DEF Begin, IInv, WinnerSoFar
<1>2. Matched' = {} /\ Reference' = Reference /\ Range(rules) \subseteq Reference
  BY <1>1 DEF Matched, Reference, Range, IInv, TypeOK
<1>3. context.valid \in BOOLEAN
  BY DEF IInv, TypeOK, ContextType
<1>4. CASE context.valid
  <2>1. pc' = "matching" /\ scanned' = rules /\ attached' = TRUE /\ answer' = answer
    BY <1>4 DEF Begin
  <2>2. TypeOK'
    BY <1>1, <1>2, <2>1 DEF IInv, TypeOK
  <2>3. StandingIsHeard'
    <3>1. \A q \in DOMAIN rules : ~(q < 1)
      BY DEF IInv, TypeOK
    <3> QED
      BY <1>1, <2>1, <3>1 DEF StandingIsHeard
  <2> QED
    BY <1>1, <1>2, <2>1, <2>2, <2>3
    DEF IInv, MatchesAreOrdered, HighestIsTaken, WinnerSoFar
<1>5. CASE ~context.valid
  <2>1. /\ pc' = "answered" /\ answer' = [decision |-> "deny", by |-> 0]
        /\ UNCHANGED <<scanned, attached>>
    BY <1>5 DEF Begin, Answer
  <2>2. TypeOK'
    BY <1>1, <1>2, <2>1 DEF IInv, TypeOK, Decision
  <2>3. StandingIsHeard'
    BY <1>1, <1>5, <2>1 DEF IInv, StandingIsHeard
  <2> QED
    BY <1>1, <1>2, <2>1, <2>2, <2>3
    DEF IInv, MatchesAreOrdered, HighestIsTaken, WinnerSoFar
<1> QED
  BY <1>3, <1>4, <1>5

LEMMA InspectPreserves == IInv /\ Inspect => IInv'
<1> SUFFICES ASSUME IInv, Inspect
             PROVE  IInv'
  OBVIOUS
<1> DEFINE k == scanned[i]
<1>1. /\ pc = "matching" /\ i \in Nat \ {0} /\ i <= Len(scanned) /\ i \in DOMAIN scanned
      /\ UNCHANGED <<owned, scanned, context, highest, candidates, winner, answer, history>>
      /\ winner = 0 /\ answer.by = 0
  BY DEF Inspect, IInv, TypeOK, WinnerSoFar
<1>2. k \in Reference /\ objects[k] \in RuleType /\ Reference' = Reference
      /\ context \in ContextType /\ matches \in Seq(Reference)
  BY <1>1 DEF IInv, TypeOK, Reference, owned
<1>3. \A q \in DOMAIN scanned : q < i + 1 => q < i \/ q = i
  BY <1>1 DEF IInv, TypeOK
<1>4. k \in standing => Applies(objects[k], context)
                      /\ ~WindowRaises(objects[k], context.evaluated_at)
  BY <1>2, GoverningApplies DEF IInv, StandingIsHeard
<1> HIDE DEF k
<1>5. CASE Usable(objects[k]) /\ WindowRaises(objects[k], context.evaluated_at)
  <2>1. pc' = "raised" /\ UNCHANGED <<i, matches>>
    BY <1>5 DEF Inspect, k
  <2>2. TypeOK'
    BY <1>1, <1>2, <2>1 DEF IInv, TypeOK, owned, history
  <2> QED
    BY <1>1, <2>1, <2>2
    DEF IInv, MatchesAreOrdered, StandingIsHeard, HighestIsTaken, WinnerSoFar, Matched,
        owned, history
<1>6. CASE ~(Usable(objects[k]) /\ WindowRaises(objects[k], context.evaluated_at))
           /\ ~Applies(objects[k], context)
  <2>1. i' = i + 1 /\ UNCHANGED <<pc, matches>>
    BY <1>6 DEF Inspect, k
  <2>2. TypeOK'
    BY <1>1, <1>2, <2>1 DEF IInv, TypeOK, owned, history
  <2>3. Matched' = Matched
    BY <2>1 DEF Matched
  <2>4. StandingIsHeard'
    <3>1. scanned[i] \notin standing
      BY <1>4, <1>6 DEF k
    <3> QED
      BY <1>1, <1>3, <2>1, <2>3, <3>1 DEF IInv, StandingIsHeard, owned, history
  <2> QED
    BY <1>1, <2>1, <2>2, <2>3, <2>4
    DEF IInv, MatchesAreOrdered, HighestIsTaken, WinnerSoFar, owned, history
<1>7. CASE Applies(objects[k], context)
  <2>1. i' = i + 1 /\ matches' = Append(matches, k) /\ UNCHANGED pc
    BY <1>7 DEF Inspect, k, Applies
  <2>2. /\ matches' \in Seq(Reference)
        /\ DOMAIN matches' = DOMAIN matches \cup {Len(matches) + 1}
        /\ matches'[Len(matches) + 1] = k
        /\ \A m \in DOMAIN matches : matches'[m] = matches[m]
    BY <1>2, <2>1
  <2>3. Matched' = Matched \cup {k} /\ DOMAIN matches \subseteq DOMAIN matches'
    BY <2>2 DEF Matched
  <2>4. TypeOK'
    BY <1>1, <1>2, <2>1, <2>2, <2>3 DEF IInv, TypeOK, owned, history
  <2>5. MatchesAreOrdered'
    BY <1>1, <1>7, <2>3 DEF IInv, MatchesAreOrdered, Applies, WindowRaises, owned, history
  <2>6. StandingIsHeard'
    BY <1>1, <1>3, <2>1, <2>3 DEF IInv, StandingIsHeard, owned, history, k
  <2> QED
    BY <1>1, <2>1, <2>4, <2>5, <2>6 DEF IInv, HighestIsTaken, WinnerSoFar
<1> QED
  BY <1>5, <1>6, <1>7

LEMMA EndMatchingPreserves == IInv /\ EndMatching => IInv'
<1> SUFFICES ASSUME IInv, EndMatching
             PROVE  IInv'
  OBVIOUS
<1>1. /\ pc = "matching" /\ i \in Nat \ {0} /\ i > Len(scanned) /\ winner = 0 /\ answer.by = 0
      /\ UNCHANGED <<owned, scanned, context, i, matches, candidates, winner, history>>
  BY DEF EndMatching, IInv, TypeOK, WinnerSoFar
<1>2. Matched' = Matched /\ Reference' = Reference
  BY <1>1 DEF Matched, Reference, owned
<1>3. pc' \in {"answered", "filtering"} => StandingIsHeard'
  <2>1. \A q \in DOMAIN scanned : q < i
    BY <1>1 DEF IInv, TypeOK
  <2>2. ~overtaken => standing \subseteq Matched
    BY <1>1, <2>1 DEF IInv, StandingIsHeard, Range
  <2> QED
    BY <1>1, <1>2, <2>2 DEF IInv, StandingIsHeard, owned, history
<1>4. CASE matches = <<>> /\ Answer(DefaultDecision, 0) /\ UNCHANGED highest
  <2>1. pc' = "answered" /\ answer' = [decision |-> DefaultDecision, by |-> 0]
    BY <1>4 DEF Answer
  <2>2. TypeOK'
    BY <1>1, <1>2, <1>4, <2>1, PolicyAssumption DEF IInv, TypeOK, owned, history
  <2> QED
    BY <1>1, <1>2, <1>3, <1>4, <2>1, <2>2
    DEF IInv, MatchesAreOrdered, HighestIsTaken, WinnerSoFar, owned, history
<1>5. ASSUME NEW k \in Matched, \A j \in Matched : objects[k].priority >= objects[j].priority,
             highest' = objects[k].priority, pc' = "filtering", UNCHANGED answer
      PROVE  IInv'
  <2>1. k \in Reference /\ objects[k] \in RuleType /\ matches # <<>>
    BY DEF IInv, TypeOK, Matched, Reference
  <2>2. TypeOK'
    BY <1>1, <1>2, <1>5, <2>1 DEF IInv, TypeOK, RuleType, owned, history
  <2>3. HighestIsTaken'
    BY <1>1, <1>2, <1>5 DEF HighestIsTaken, owned
  <2> QED
    BY <1>1, <1>2, <1>3, <1>5, <2>1, <2>2, <2>3
    DEF IInv, MatchesAreOrdered, WinnerSoFar, owned, history
<1> QED
  BY <1>4, <1>5 DEF EndMatching

LEMMA FilterPreserves == IInv /\ Filter => IInv'
<1> SUFFICES ASSUME IInv, Filter
             PROVE  IInv'
  OBVIOUS
<1>1. /\ pc = "filtering" /\ pc' = "resolving" /\ i' = 1 /\ winner = 0 /\ answer.by = 0
      /\ matches # <<>>
      /\ candidates' = {k \in DOMAIN matches : objects[matches[k]].priority = highest}
      /\ UNCHANGED <<owned, scanned, context, matches, highest, winner, answer, history>>
  BY DEF Filter, IInv, WinnerSoFar
<1>2. Matched' = Matched /\ Reference' = Reference
  BY <1>1 DEF Matched, Reference, owned
<1>3. TypeOK'
  BY <1>1, <1>2 DEF IInv, TypeOK, owned, history
<1>4. StandingIsHeard'
  BY <1>1, <1>2 DEF IInv, StandingIsHeard, owned, history
<1>5. HighestIsTaken'
  BY <1>1, <1>2 DEF IInv, HighestIsTaken, owned, history
<1>6. WinnerSoFar'
  <2>1. Len(matches) \in Nat /\ \A k \in DOMAIN matches : ~(k < 1)
    BY DEF IInv, TypeOK
  <2> QED
    BY <1>1, <1>2, <2>1 DEF WinnerSoFar
<1> QED
  BY <1>1, <1>2, <1>3, <1>4, <1>5, <1>6 DEF IInv, MatchesAreOrdered, owned, history

LEMMA ConsiderPreserves == IInv /\ Consider => IInv'
<1> SUFFICES ASSUME IInv, Consider
             PROVE  IInv'
  OBVIOUS
<1>1. /\ pc = "resolving" /\ i \in Nat \ {0} /\ i' = i + 1 /\ i \in DOMAIN matches
      /\ UNCHANGED <<owned, scanned, pc, context, matches, highest, candidates, answer, history>>
      /\ answer.by = 0 /\ matches # <<>>
  BY DEF Consider, IInv, TypeOK, WinnerSoFar
<1>2. Matched' = Matched /\ Reference' = Reference
  BY <1>1 DEF Matched, Reference, owned
<1>3. /\ candidates \subseteq DOMAIN matches
      /\ \A k \in DOMAIN matches : matches[k] \in Matched
      /\ \A k \in Matched : k \in Reference /\ k # 0 /\ objects[k] \in RuleType
  BY DEF IInv, TypeOK, Matched, Reference
<1>4. \A k \in candidates : k < i + 1 => k < i \/ k = i
  BY <1>1, <1>3 DEF IInv, TypeOK
<1>5. i' <= Len(matches') + 1
  BY <1>1 DEF IInv, TypeOK
<1>6. ASSUME winner' \in Reference \cup {0}, WinnerSoFar' PROVE IInv'
  <2>1. TypeOK'
    BY <1>1, <1>2, <1>6 DEF IInv, TypeOK, owned, history
  <2> QED
    BY <1>1, <1>2, <1>6, <2>1
    DEF IInv, MatchesAreOrdered, StandingIsHeard, HighestIsTaken, owned, history
<1>7. CASE ~(i \in candidates /\ (winner = 0 \/ Outranks(objects[matches[i]], objects[winner])))
  <2>1. winner' = winner
    BY <1>7 DEF Consider
  <2>2. winner \in Reference \cup {0}
    BY DEF IInv, TypeOK
  <2>3. WinnerSoFar'
    BY <1>1, <1>2, <1>4, <1>5, <1>7, <2>1 DEF IInv, WinnerSoFar, owned, history
  <2> QED
    BY <1>6, <2>1, <2>2, <2>3
<1>8. CASE i \in candidates /\ (winner = 0 \/ Outranks(objects[matches[i]], objects[winner]))
  <2>1. winner' = matches[i]
    BY <1>8 DEF Consider
  <2>2. winner' \in Matched /\ winner' \in Reference /\ winner' # 0
    BY <1>1, <1>3, <2>1
  <2>3. ASSUME NEW k \in candidates, k < i + 1, ~rewritten
        PROVE  ~Outranks(objects[matches[k]], objects[winner'])
    <3>1. CASE k = i
      BY <1>1, <1>3, <2>1, <3>1, OutranksIsIrreflexive
    <3>2. CASE k < i
      <4>1. winner # 0 /\ winner \in Matched
        BY <1>1, <2>3, <3>2 DEF IInv, WinnerSoFar
      <4>2. ~Outranks(objects[matches[k]], objects[winner])
        BY <2>3, <3>2, <4>1 DEF IInv, WinnerSoFar
      <4>3. Outranks(objects[matches[i]], objects[winner])
        BY <1>8, <4>1
      <4>4. matches[k] \in Matched /\ matches[i] \in Matched
        BY <1>1, <1>3
      <4> QED
        BY <1>3, <2>1, <4>1, <4>2, <4>3, <4>4, OutranksIsTransitive
    <3> QED
      BY <1>4, <2>3, <3>1, <3>2
  <2>4. WinnerSoFar'
    BY <1>1, <1>2, <1>5, <1>8, <2>1, <2>2, <2>3 DEF IInv, WinnerSoFar, owned, history
  <2> QED
    BY <1>6, <2>2, <2>4
<1> QED
  BY <1>7, <1>8

LEMMA DecidePreserves == IInv /\ Decide => IInv'
<1> SUFFICES ASSUME IInv, Decide
             PROVE  IInv'
  OBVIOUS
<1>1. /\ pc = "resolving" /\ pc' = "answered" /\ i \in Nat \ {0} /\ i > Len(matches)
      /\ UNCHANGED <<owned, scanned, context, i, matches, highest, candidates, winner, history>>
      /\ matches # <<>>
  BY DEF Decide, Answer, IInv, TypeOK, WinnerSoFar
<1>2. Matched' = Matched /\ Reference' = Reference
  BY <1>1 DEF Matched, Reference, owned
<1>3. i = Len(matches) + 1 /\ \A k \in DOMAIN matches : k < i
  BY <1>1 DEF IInv, TypeOK, WinnerSoFar
<1>4. CASE winner = 0
  <2>1. answer' = [decision |-> DefaultDecision, by |-> 0]
    BY <1>4 DEF Decide, Answer
  <2>2. TypeOK'
    BY <1>1, <1>2, <2>1, PolicyAssumption DEF IInv, TypeOK, owned, history
  <2>3. rewritten
    <3> SUFFICES ASSUME ~rewritten
                 PROVE  FALSE
      BY DEF IInv, TypeOK
    <3>1. PICK m \in Matched : objects[m].priority = highest
      BY <1>1 DEF IInv, HighestIsTaken
    <3>2. PICK k \in DOMAIN matches : m = matches[k]
      BY DEF Matched
    <3>3. k \in candidates
      BY <1>1, <3>1, <3>2 DEF IInv, HighestIsTaken
    <3> QED
      BY <1>1, <1>3, <1>4, <3>2, <3>3 DEF IInv, WinnerSoFar
  <2>4. WinnerSoFar'
    BY <1>1, <1>4, <2>1, <2>3 DEF WinnerSoFar, history
  <2> QED
    BY <1>1, <1>2, <2>2, <2>3, <2>4
    DEF IInv, MatchesAreOrdered, StandingIsHeard, HighestIsTaken, owned, history
<1>5. CASE winner # 0
  <2>1. answer' = [decision |-> objects[winner].decision, by |-> winner]
    BY <1>5 DEF Decide, Answer
  <2>2. winner \in Reference /\ objects[winner] \in RuleType
    BY <1>5 DEF IInv, TypeOK, Reference
  <2>3. TypeOK'
    BY <1>1, <1>2, <2>1, <2>2 DEF IInv, TypeOK, RuleType, owned, history
  <2>4. WinnerSoFar'
    BY <1>1, <1>2, <1>3, <1>5, <2>1 DEF IInv, WinnerSoFar, owned, history
  <2> QED
    BY <1>1, <1>2, <2>3, <2>4
    DEF IInv, MatchesAreOrdered, StandingIsHeard, HighestIsTaken, owned, history
<1> QED
  BY <1>4, <1>5

LEMMA NextPreserves == IInv /\ [Next]_vars => IInv'
<1> SUFFICES ASSUME IInv, [Next]_vars
             PROVE  IInv'
  OBVIOUS
<1>1. CASE Begin
  BY <1>1, BeginPreserves
<1>2. CASE Inspect
  BY <1>2, InspectPreserves
<1>3. CASE EndMatching
  BY <1>3, EndMatchingPreserves
<1>4. CASE Filter
  BY <1>4, FilterPreserves
<1>5. CASE Consider
  BY <1>5, ConsiderPreserves
<1>6. CASE Decide
  BY <1>6, DecidePreserves
<1>7. CASE Edit
  BY <1>7, EditPreserves
<1>8. CASE UNCHANGED vars
  BY <1>8 DEF vars, owned, engine, history, Reference, IInv, TypeOK, MatchesAreOrdered,
              StandingIsHeard, HighestIsTaken, WinnerSoFar, Matched
<1> QED
  BY <1>1, <1>2, <1>3, <1>4, <1>5, <1>6, <1>7, <1>8 DEF Next

LEMMA Invariance == Spec => []IInv
  BY InitEstablishes, NextPreserves, PTL DEF Spec

-----------------------------------------------------------------------------
(* The theorems.                                                           *)

\* Every variable of the evaluation keeps its type; the references taken into
\* policy.rules name rules there are, whatever its owner does to the list.
THEOREM TypeCorrect == Spec => []TypeOK
  BY Invariance, PTL DEF IInv

\* What the answer's rule is, unless a match was assigned to.
LEMMA WinnerIsTop ==
  ASSUME IInv, pc = "answered", answer.by # 0, ~rewritten
  PROVE  /\ answer.by = winner /\ answer.decision = objects[winner].decision
         /\ winner # 0 /\ winner \in Matched
         /\ \A j \in Matched : objects[j] \in RuleType /\ objects[j].effective_from # Naive
         /\ \A j \in Matched : objects[winner].priority >= objects[j].priority
         /\ \A j \in Matched : objects[j].priority = objects[winner].priority =>
                               ~Outranks(objects[j], objects[winner])
<1>1. /\ answer.by = winner /\ answer.decision = objects[winner].decision /\ winner # 0
      /\ i = Len(matches) + 1 /\ winner \in Matched
  BY DEF IInv, WinnerSoFar
<1>2. \A j \in Matched : objects[j] \in RuleType /\ objects[j].effective_from # Naive
  BY DEF IInv, TypeOK, Matched, Reference, MatchesAreOrdered
<1>3. matches # <<>>
  BY <1>1 DEF Matched
<1>4. objects[winner].priority = highest /\ \A j \in Matched : highest >= objects[j].priority
  BY <1>1, <1>3 DEF IInv, WinnerSoFar, HighestIsTaken
<1>5. ASSUME NEW j \in Matched, objects[j].priority = objects[winner].priority
      PROVE  ~Outranks(objects[j], objects[winner])
  <2>1. PICK k \in DOMAIN matches : j = matches[k]
    BY DEF Matched
  <2>2. k \in candidates
    BY <1>3, <1>4, <1>5, <2>1 DEF IInv, HighestIsTaken
  <2>3. k < i
    BY <1>1, <2>1 DEF IInv, TypeOK
  <2> QED
    BY <1>1, <2>1, <2>2, <2>3 DEF IInv, WinnerSoFar
<1> QED
  BY <1>1, <1>2, <1>4, <1>5

\* Two accounts of which of two dated or undated rules starts later.
LEMMA StartsAreSince ==
  ASSUME NEW r \in RuleType, r.effective_from # Naive,
         NEW s \in RuleType, s.effective_from # Naive
  PROVE  StartsNoEarlier(r, s) <=> Since(r) >= Since(s)
  BY PolicyAssumption DEF StartsNoEarlier, Since, RuleType

LEMMA BestIsTheMaximum == IInv => StrictestWins
<1> SUFFICES ASSUME IInv, pc = "answered", answer.by # 0, ~rewritten
             PROVE  StrictestWins
  BY DEF StrictestWins
<1> DEFINE top == {k \in Matched : \A j \in Matched : objects[k].priority >= objects[j].priority}
           strictest == {k \in top : \A j \in top : Severity(objects[k]) >= Severity(objects[j])}
           newest == {k \in strictest : \A j \in strictest :
                        objects[k].rule_version >= objects[j].rule_version}
           latest == {k \in newest : \A j \in newest : StartsNoEarlier(objects[k], objects[j])}
           first == {k \in latest : \A j \in latest : objects[k].rule_id <= objects[j].rule_id}
<1>1. /\ answer.by = winner /\ answer.decision = objects[winner].decision /\ winner \in Matched
      /\ \A j \in Matched : objects[j] \in RuleType /\ objects[j].effective_from # Naive
      /\ \A j \in Matched : objects[winner].priority >= objects[j].priority
      /\ \A j \in Matched : objects[j].priority = objects[winner].priority =>
                            ~Outranks(objects[j], objects[winner])
  BY WinnerIsTop
<1>2. \A j \in Matched : objects[j].priority \in Int
  BY <1>1, KeysAreIntegers
<1>3. /\ winner \in top
      /\ \A j \in top : j \in Matched /\ ~Outranks(objects[j], objects[winner])
  BY <1>1, <1>2
<1>4. \A j \in top : /\ Severity(objects[j]) \in Int /\ Since(objects[j]) \in Int
                     /\ objects[j].rule_version \in Int /\ objects[j].rule_id \in Int
  BY <1>1, <1>3, KeysAreIntegers
<1>5. \A j, k \in top :
        StartsNoEarlier(objects[j], objects[k]) <=> Since(objects[j]) >= Since(objects[k])
  BY <1>1, <1>3, StartsAreSince
<1> HIDE DEF top
<1>6. winner \in strictest
  BY <1>3, <1>4 DEF Outranks
<1>7. \A j \in strictest : j \in top /\ Severity(objects[j]) = Severity(objects[winner])
  BY <1>4, <1>6
<1> HIDE DEF strictest
<1>8. winner \in newest
  BY <1>3, <1>4, <1>6, <1>7 DEF Outranks
<1>9. \A j \in newest : j \in top /\ Severity(objects[j]) = Severity(objects[winner])
                        /\ objects[j].rule_version = objects[winner].rule_version
  BY <1>4, <1>7, <1>8
<1> HIDE DEF newest
<1>10. winner \in latest
  BY <1>3, <1>4, <1>5, <1>8, <1>9 DEF Outranks
<1>11. \A j \in latest : /\ j \in newest
                         /\ Since(objects[j]) = Since(objects[winner])
  BY <1>3, <1>4, <1>5, <1>8, <1>9, <1>10
<1> HIDE DEF latest
<1>12. winner \in first
  BY <1>3, <1>4, <1>9, <1>10, <1>11 DEF Outranks
<1> QED
  BY <1>1, <1>12 DEF StrictestWins, top, strictest, newest, latest

\* Whatever happens to the list, the loop over the candidates finds the one maximum of
\* what matched, in any order: PolicyEvaluationEngine.evaluate is deterministic in it
\* until a matched rule itself is assigned to.
THEOREM DecisionIsTheMaximum == Spec => []StrictestWins
  BY Invariance, BestIsTheMaximum, PTL

LEMMA StandingRulesAreHeard == IInv => StandingRuleHolds
<1> SUFFICES ASSUME IInv, pc = "answered", context.valid, ~overtaken, ~rewritten,
                    NEW k \in standing
             PROVE  Honoured(k)
  BY DEF StandingRuleHolds
<1>1. k \in Matched
  BY DEF IInv, StandingIsHeard
<1>2. answer.by # 0
  BY <1>1 DEF IInv, WinnerSoFar, Matched
<1>3. /\ answer.by = winner /\ winner \in Matched
      /\ \A j \in Matched : objects[j] \in RuleType
      /\ \A j \in Matched : objects[winner].priority >= objects[j].priority
      /\ \A j \in Matched : objects[j].priority = objects[winner].priority =>
                            ~Outranks(objects[j], objects[winner])
  BY <1>2, WinnerIsTop
<1>4. CASE objects[winner].priority > objects[k].priority
  BY <1>2, <1>3, <1>4 DEF Honoured
<1>5. CASE ~(objects[winner].priority > objects[k].priority)
  <2>1. objects[k].priority = objects[winner].priority
    BY <1>1, <1>3, <1>5, KeysAreIntegers
  <2>2. ~Outranks(objects[k], objects[winner])
    BY <1>1, <1>3, <2>1
  <2>3. Severity(objects[winner]) >= Severity(objects[k])
    BY <1>1, <1>3, <2>2, KeysAreIntegers DEF Outranks
  <2> QED
    BY <1>2, <1>3, <2>1, <2>3 DEF Honoured
<1> QED
  BY <1>4, <1>5

\* A rule that governs the context and stands in the policy, unchanged, from the call of
\* evaluate to its return is honoured through insertions, replacements, removals ahead of
\* the loop, another list and edits of other rules.  The statement is under the two
\* exceptions StandingRuleHolds names; the run `removal` shows that the first is needed.
THEOREM StandingRulesAreHonoured == Spec => []StandingRuleHolds
  BY Invariance, StandingRulesAreHeard, PTL

=============================================================================
