--------------------------- MODULE KnowledgeProofs ---------------------------
(***************************************************************************)
(* Staleness, rejections and people's decisions, for every call graph and  *)
(* any number of results.                                                  *)
(***************************************************************************)
EXTENDS Knowledge, CallGraphProofs, TLAPS

\* invalidate reaches whatever rests on an old result or on one it reaches.
LEMMA AffectedIsClosed ==
    ASSUME depends \subseteq Results \X Results, NEW old, NEW r \in Results, NEW d \in Results,
           <<r, d>> \in depends, d \in old \cup Affected(old)
    PROVE  r \in Affected(old)
<1>1. <<r, d>> \in Reach(Results, depends)
    BY ReachCall
<1>2. CASE d \in old
    BY <1>1, <1>2 DEF Affected
<1>3. CASE d \in Affected(old)
  <2>1. PICK e \in old : <<d, e>> \in Reach(Results, depends)
      BY <1>3 DEF Affected
  <2>2. e \in Results
      BY <2>1 DEF Reach
  <2>3. <<r, e>> \in Reach(Results, depends)
      BY <1>1, <2>1, <2>2, ReachTransitive
  <2> QED BY <2>1, <2>3 DEF Affected
<1> QED BY <1>2, <1>3

\* Only results that rest on something are affected.
LEMMA AffectedAreMade ==
    ASSUME depends \subseteq made \X made, NEW old
    PROVE  Affected(old) \subseteq made
<1> SUFFICES ASSUME NEW r \in Results, NEW d \in old,
                    <<r, d>> \in Reach(Results, depends), r \notin made
             PROVE  FALSE
    BY DEF Affected
<1>1. Callees(Results, depends, {r}) = {} /\ Callees(Results, depends, {}) = {}
    BY DEF Callees
<1>2. {} \in {C \in SUBSET Results : Callees(Results, depends, C) \subseteq C}
    BY <1>1
<1> QED BY <1>1, <1>2 DEF Reach

-----------------------------------------------------------------------------
\* A refresh or annotation keeps the types.
LEMMA EvidenceTypes ==
    ASSUME KnowledgeTypeOK, NEW S \in SUBSET Functions, EvidenceChanges(S)
    PROVE  KnowledgeTypeOK'
<1> DEFINE touched == {current[f] : f \in S} \ {None}
<1>1. touched \subseteq made
    BY DEF KnowledgeTypeOK
<1>2. Affected(touched) \subseteq made
    BY AffectedAreMade DEF KnowledgeTypeOK
<1>3. stale' \subseteq made'
    BY <1>1, <1>2 DEF EvidenceChanges, KnowledgeTypeOK
<1> QED BY <1>3 DEF EvidenceChanges, KnowledgeTypeOK, requests, Rows

\* Every step keeps the types.
LEMMA TypeStep == KnowledgeTypeOK /\ [Next]_vars => KnowledgeTypeOK'
<1> SUFFICES ASSUME KnowledgeTypeOK, [Next]_vars PROVE KnowledgeTypeOK'
    OBVIOUS
<1> USE KnowledgeAssumption
<1>1. ASSUME NEW f \in Functions, Ask(f) PROVE KnowledgeTypeOK'
  <2>1. Usable(f) \subseteq made
    <3>1. \A g \in Functions : current[g] \in made \cup {None}
        BY DEF KnowledgeTypeOK
    <3> QED BY <3>1 DEF Usable, Callees
  <2>2. rests' \subseteq pinned' \X made'
      BY <1>1, <2>1 DEF Ask, KnowledgeTypeOK, knowledge, Rows
  <2> QED BY <1>1, <2>2 DEF Ask, KnowledgeTypeOK, knowledge, Rows
<1>2. ASSUME NEW f \in Functions, PutBack(f) PROVE KnowledgeTypeOK'
    BY <1>2 DEF PutBack, KnowledgeTypeOK, knowledge, Rows
<1>3. ASSUME NEW f \in Functions, AskAgain(f) PROVE KnowledgeTypeOK'
    BY <1>3 DEF AskAgain, KnowledgeTypeOK, knowledge, Rows
<1>4. ASSUME NEW f \in Functions, Answer(f) PROVE KnowledgeTypeOK'
  <2>1. PICK r \in Results \ made :
            /\ made' = made \cup {r}
            /\ owner' = [owner EXCEPT ![r] = f]
            /\ depends' = depends \cup ({r} \X Given(f))
            /\ stale' = IF RestsOnUnsound(f) THEN stale \cup {r} ELSE stale
            /\ current' = IF Protected(f) THEN current ELSE [current EXCEPT ![f] = r]
      BY <1>4 DEF Answer
  <2>2. Given(f) \subseteq made
      BY DEF Given, KnowledgeTypeOK
  <2>3. depends' \subseteq made' \X made'
      BY <2>1, <2>2 DEF KnowledgeTypeOK
  <2>4. /\ made' \subseteq Results /\ human' \subseteq made' /\ decided' \subseteq made'
        /\ stale' \subseteq made' /\ assessed' \subseteq made' /\ corrected' \subseteq made'
      BY <1>4, <2>1 DEF Answer, KnowledgeTypeOK
  <2>5. /\ owner' \in [Results -> Functions \cup {None}]
        /\ \A s \in made' : owner'[s] \in Functions
      BY <2>1 DEF KnowledgeTypeOK
  <2>6. current' \in [Functions -> made' \cup {None}]
      BY <2>1 DEF KnowledgeTypeOK
  <2>7. \A g \in Functions : current'[g] # None => owner'[current'[g]] = g
      BY <2>1 DEF KnowledgeTypeOK
  <2>8. /\ rests' \subseteq pinned' \X made' /\ active' \subseteq pinned'
        /\ pinned' \subseteq Functions
      BY <1>4, <2>1 DEF Answer, KnowledgeTypeOK
  <2>9. /\ name' \in [Results -> Reviews] /\ summary' \in [Results -> Reviews]
        /\ revision' \in [Results -> 0 .. MaxRevision] /\ rows' \subseteq Rows'
      BY <1>4, <2>1 DEF Answer, KnowledgeTypeOK, Rows
  <2> QED BY <2>3, <2>4, <2>5, <2>6, <2>7, <2>8, <2>9 DEF KnowledgeTypeOK
<1>5. ASSUME NEW r \in Results, NEW fields \in FieldSets,
             NEW decision \in {"accepted", "rejected"}, Review(r, fields, decision)
      PROVE  KnowledgeTypeOK'
  <2> DEFINE replaced == IF decision = "accepted" THEN {current[owner[r]]} \ {r} ELSE {r}
  <2>1. r \in made /\ stale' = stale \cup Affected(replaced)
      BY <1>5 DEF Review
  <2>2. stale' \subseteq made
      BY <2>1, AffectedAreMade DEF KnowledgeTypeOK
  <2>3. name' \in [Results -> Reviews] /\ summary' \in [Results -> Reviews]
      BY <1>5 DEF Review, Decide, Reviews, KnowledgeTypeOK
  <2>4. revision' \in [Results -> 0 .. MaxRevision]
      BY <1>5 DEF Review, KnowledgeTypeOK
  <2>5. /\ current' \in [Functions -> made \cup {None}]
        /\ \A f \in Functions : current'[f] # None => owner[current'[f]] = f
      BY <1>5, <2>1 DEF Review, KnowledgeTypeOK
  <2> QED BY <1>5, <2>1, <2>2, <2>3, <2>4, <2>5 DEF Review, KnowledgeTypeOK, requests, Rows
<1>6. ASSUME NEW r \in Results, Correct(r) PROVE KnowledgeTypeOK'
  <2>1. PICK h \in Results \ made :
            /\ made' = made \cup {h}
            /\ owner' = [owner EXCEPT ![h] = owner[r]]
            /\ human' = human \cup {h}
            /\ name' = Decide(name, h, "accepted")
            /\ summary' = Decide(summary, h, "accepted")
            /\ depends' = depends \cup ({h} \X {d \in Results : <<r, d>> \in depends})
            /\ current' = [current EXCEPT ![owner[r]] = h]
      BY <1>6 DEF Correct
  <2>2. /\ r \in made /\ revision' = [revision EXCEPT ![r] = @ + 1] /\ revision[r] < MaxRevision
        /\ stale' = stale \cup Affected({r}) /\ corrected' = corrected \cup {r}
        /\ UNCHANGED <<decided, assessed, requests, rows>>
      BY <1>6 DEF Correct
  <2>3. stale' \subseteq made'
      BY <2>1, <2>2, AffectedAreMade DEF KnowledgeTypeOK
  <2>4. depends' \subseteq made' \X made'
      BY <2>1 DEF KnowledgeTypeOK
  <2>5. name' \in [Results -> Reviews] /\ summary' \in [Results -> Reviews]
      BY <2>1 DEF Decide, Reviews, KnowledgeTypeOK
  <2>6. revision' \in [Results -> 0 .. MaxRevision]
      BY <2>2 DEF KnowledgeTypeOK
  <2>7. /\ owner' \in [Results -> Functions \cup {None}]
        /\ \A s \in made' : owner'[s] \in Functions
        /\ current' \in [Functions -> made' \cup {None}]
      BY <2>1, <2>2 DEF KnowledgeTypeOK
  <2>8. \A f \in Functions : current'[f] # None => owner'[current'[f]] = f
    <3> SUFFICES ASSUME NEW f \in Functions, current'[f] # None
                 PROVE  owner'[current'[f]] = f
        OBVIOUS
    <3>1. /\ owner \in [Results -> Functions \cup {None}]
          /\ current \in [Functions -> made \cup {None}]
          /\ owner[r] \in Functions /\ made \subseteq Results
          /\ current[f] # None => owner[current[f]] = f
        BY <2>2 DEF KnowledgeTypeOK
    <3>2. CASE f = owner[r]
        BY <2>1, <3>1, <3>2
    <3>3. CASE f # owner[r]
      <4>1. current'[f] = current[f] /\ current[f] \in made
          BY <2>1, <3>1, <3>3
      <4> QED BY <2>1, <3>1, <4>1
    <3> QED BY <3>2, <3>3
  <2>9. /\ made' \subseteq Results /\ human' \subseteq made' /\ decided' \subseteq made'
        /\ assessed' \subseteq made' /\ corrected' \subseteq made'
      BY <2>1, <2>2 DEF KnowledgeTypeOK
  <2>10. /\ rests' \subseteq pinned' \X made' /\ active' \subseteq pinned'
         /\ pinned' \subseteq Functions /\ rows' \subseteq Rows'
      BY <2>1, <2>2 DEF KnowledgeTypeOK, requests, Rows
  <2> QED BY <2>3, <2>4, <2>5, <2>6, <2>7, <2>8, <2>9, <2>10 DEF KnowledgeTypeOK
<1>7. CASE AssessRead
  <2>1. \A r \in Results : revision[r] \in Nat
      BY DEF KnowledgeTypeOK
  <2>2. rows' \subseteq Rows'
    <3>1. PICK open \in SUBSET made :
              rows' = {[result |-> r, revision |-> revision[r], valid |-> r \notin stale] :
                          r \in open}
      <4>1. {r \in Results : /\ \E f \in Functions : current[f] = r
                             /\ r \notin human \cup decided \cup assessed} \subseteq made
          BY DEF KnowledgeTypeOK
      <4> QED BY <1>7, <4>1 DEF AssessRead
    <3>2. made' = made /\ made \subseteq Results
        BY <1>7 DEF AssessRead, knowledge, KnowledgeTypeOK
    <3> SUFFICES ASSUME NEW r \in made
                 PROVE  [result |-> r, revision |-> revision[r], valid |-> r \notin stale]
                            \in [result : made, revision : Nat, valid : BOOLEAN]
        BY <3>1, <3>2 DEF Rows
    <3> QED BY <2>1, <3>2
  <2>3. UNCHANGED <<knowledge, requests, corrected>>
      BY <1>7 DEF AssessRead
  <2> QED BY <2>2, <2>3 DEF KnowledgeTypeOK, knowledge, requests
<1>8. CASE AssessWrite
  <2>1. PICK row \in rows :
            /\ rows' = rows \ {row}
            /\ IF SameRevision(row)
               THEN \E n \in Verdicts("name"), s \in Verdicts("summary") :
                        /\ name' = [name EXCEPT ![row.result] = n]
                        /\ summary' = [summary EXCEPT ![row.result] = s]
                        /\ assessed' = assessed \cup {row.result}
               ELSE UNCHANGED <<name, summary, assessed>>
      BY <1>8 DEF AssessWrite
  <2>2. UNCHANGED <<made, owner, human, decided, revision, stale, current, depends,
                    requests, corrected>>
      BY <1>8 DEF AssessWrite
  <2>3. row.result \in made /\ rows' \subseteq Rows'
      BY <2>1, <2>2 DEF KnowledgeTypeOK, Rows
  <2>4. name' \in [Results -> Reviews] /\ summary' \in [Results -> Reviews]
      BY <2>1, <2>3 DEF KnowledgeTypeOK, Reviews, Verdicts
  <2>5. assessed' \subseteq made'
      BY <2>1, <2>2, <2>3 DEF KnowledgeTypeOK
  <2> QED BY <2>1, <2>2, <2>3, <2>4, <2>5 DEF KnowledgeTypeOK, requests
<1>9. CASE AssessEnds
    BY <1>9 DEF AssessEnds, KnowledgeTypeOK, knowledge, requests, Rows
<1>10. CASE Refresh
    BY <1>10, EvidenceTypes DEF Refresh
<1>11. CASE ImportObservations
    BY <1>11 DEF ImportObservations, KnowledgeTypeOK, requests, Rows
<1>12. CASE UNCHANGED vars
    BY <1>12 DEF vars, KnowledgeTypeOK, knowledge, requests, Rows
<1> QED BY <1>1, <1>2, <1>3, <1>4, <1>5, <1>6, <1>7, <1>8, <1>9, <1>10, <1>11, <1>12
        DEF Next, RequestStep

\* It begins so.
LEMMA InitTypes == Init => KnowledgeTypeOK
<1> SUFFICES ASSUME Init PROVE KnowledgeTypeOK
    OBVIOUS
<1>1. /\ owner \in [Results -> Functions \cup {None}]
      /\ name \in [Results -> Reviews] /\ summary \in [Results -> Reviews]
    BY DEF Init, Reviews
<1>2. revision \in [Results -> 0 .. MaxRevision]
    BY KnowledgeAssumption DEF Init
<1> QED BY <1>1, <1>2 DEF Init, KnowledgeTypeOK, Rows

\* KNOWLEDGETYPEOK HOLDS: the tables refer to results there are, and the current
\* result of a function is one about it.
THEOREM TypeCorrect == Spec => []KnowledgeTypeOK
BY InitTypes, TypeStep, PTL DEF Spec

-----------------------------------------------------------------------------
\* No conclusion of a model rests on one that is stale or whose summary is rejected.
Sound == StaleSpreads /\ RejectionSpreads

\* Marking an old result and all that rests on it leaves no gap.
LEMMA MarkingSpreads ==
    ASSUME KnowledgeTypeOK, Sound, NEW old,
           depends' = depends, human' = human, summary' = summary,
           stale' = stale \cup old \cup Affected(old)
    PROVE  Sound'
<1>1. depends \subseteq Results \X Results
    BY DEF KnowledgeTypeOK
<1>2. ASSUME NEW p \in depends, p[2] \in stale' PROVE p[1] \in stale' \cup human'
  <2>1. PICK r \in Results, d \in Results : p = <<r, d>>
      BY <1>1
  <2>2. CASE d \in stale
      BY <2>1, <2>2 DEF Sound, StaleSpreads
  <2>3. CASE d \in old \cup Affected(old)
      BY <1>1, <2>1, <2>3, AffectedIsClosed
  <2> QED BY <1>2, <2>1, <2>2, <2>3
<1> QED BY <1>2 DEF Sound, StaleSpreads, RejectionSpreads

\* A result that did not exist is not yet rested on.
LEMMA NewIsUnused ==
    ASSUME KnowledgeTypeOK, NEW h \in Results \ made, NEW p \in depends
    PROVE  p[1] \in made /\ p[2] \in made /\ p[1] # h /\ p[2] # h
BY DEF KnowledgeTypeOK

\* An answer is marked when what it was given has become unsound.
LEMMA AnswerIsSound ==
    ASSUME KnowledgeTypeOK, Sound, NEW f \in Functions, Answer(f)
    PROVE  Sound'
<1>1. PICK r \in Results \ made :
          /\ depends' = depends \cup ({r} \X Given(f))
          /\ stale' = IF RestsOnUnsound(f) THEN stale \cup {r} ELSE stale
    BY DEF Answer
<1>2. human' = human /\ summary' = summary
    BY DEF Answer
<1>3. Given(f) \subseteq made
    BY DEF Given, KnowledgeTypeOK
<1>4. ASSUME NEW p \in depends', p[2] \in stale' \/ summary'[p[2]] = "rejected"
      PROVE  p[1] \in stale' \cup human'
  <2>1. CASE p \in depends
    <3>1. p[2] # r
        BY <2>1, NewIsUnused
    <3> QED BY <1>1, <1>2, <1>4, <2>1, <3>1 DEF Sound, StaleSpreads, RejectionSpreads
  <2>2. CASE p \in {r} \X Given(f)
    <3>1. p[1] = r /\ p[2] \in Given(f) /\ p[2] # r
        BY <1>3, <2>2
    <3>2. p[2] \in stale \/ summary[p[2]] = "rejected"
        BY <1>1, <1>2, <1>4, <3>1
    <3>3. RestsOnUnsound(f)
        BY <3>1, <3>2 DEF RestsOnUnsound
    <3> QED BY <1>1, <3>1, <3>3
  <2> QED BY <1>1, <2>1, <2>2
<1> QED BY <1>4 DEF Sound, StaleSpreads, RejectionSpreads

\* A review marks the dependents of what it rejects or replaces.
LEMMA ReviewIsSound ==
    ASSUME KnowledgeTypeOK, Sound, NEW r \in Results, NEW fields \in FieldSets,
           NEW decision \in {"accepted", "rejected"}, Review(r, fields, decision)
    PROVE  Sound'
<1> DEFINE replaced == IF decision = "accepted" THEN {current[owner[r]]} \ {r} ELSE {r}
<1>1. /\ depends' = depends /\ human' = human
      /\ stale' = stale \cup Affected(replaced)
      /\ summary' = IF "summary" \in fields THEN Decide(summary, r, decision) ELSE summary
    BY DEF Review
<1>2. depends \subseteq Results \X Results /\ summary \in [Results -> Reviews]
    BY DEF KnowledgeTypeOK
<1>3. ASSUME NEW p \in depends, p[2] \in stale' PROVE p[1] \in stale' \cup human'
  <2>1. PICK q \in Results, d \in Results : p = <<q, d>>
      BY <1>2
  <2>2. CASE d \in stale
      BY <1>1, <2>1, <2>2 DEF Sound, StaleSpreads
  <2>3. CASE d \in replaced \cup Affected(replaced)
      BY <1>1, <1>2, <2>1, <2>3, AffectedIsClosed
  <2> QED BY <1>1, <1>3, <2>1, <2>2, <2>3
<1>4. ASSUME NEW p \in depends, summary'[p[2]] = "rejected"
      PROVE  p[1] \in stale' \cup human'
  <2>1. PICK q \in Results, d \in Results : p = <<q, d>>
      BY <1>2
  <2>2. CASE summary[d] = "rejected"
      BY <1>1, <2>1, <2>2 DEF Sound, RejectionSpreads
  <2>3. CASE summary[d] # "rejected"
    <3>1. d = r /\ decision = "rejected"
        BY <1>1, <1>2, <1>4, <2>1, <2>3 DEF Decide
    <3> QED BY <1>1, <1>2, <2>1, <3>1, AffectedIsClosed
  <2> QED BY <2>2, <2>3
<1> QED BY <1>1, <1>3, <1>4 DEF Sound, StaleSpreads, RejectionSpreads

\* A correction marks the dependents of the result it replaces.
LEMMA CorrectIsSound ==
    ASSUME KnowledgeTypeOK, Sound, NEW r \in Results, Correct(r)
    PROVE  Sound'
<1>1. PICK h \in Results \ made :
          /\ human' = human \cup {h}
          /\ summary' = Decide(summary, h, "accepted")
          /\ depends' = depends \cup ({h} \X {d \in Results : <<r, d>> \in depends})
    BY DEF Correct
<1>2. stale' = stale \cup Affected({r})
    BY DEF Correct
<1>3. depends \subseteq Results \X Results /\ summary \in [Results -> Reviews]
    BY DEF KnowledgeTypeOK
<1>4. ASSUME NEW p \in depends', p \notin depends PROVE p[1] \in human'
    BY <1>1, <1>4
<1>5. ASSUME NEW p \in depends, p[2] \in stale' PROVE p[1] \in stale' \cup human'
  <2>1. PICK q \in Results, d \in Results : p = <<q, d>>
      BY <1>3
  <2>2. CASE d \in stale
      BY <1>1, <1>2, <2>1, <2>2 DEF Sound, StaleSpreads
  <2>3. CASE d \in {r} \cup Affected({r})
      BY <1>2, <1>3, <2>1, <2>3, AffectedIsClosed
  <2> QED BY <1>2, <1>5, <2>1, <2>2, <2>3
<1>6. ASSUME NEW p \in depends, summary'[p[2]] = "rejected"
      PROVE  p[1] \in stale' \cup human'
  <2>1. p[2] # h /\ p[2] \in Results
      BY NewIsUnused, <1>3
  <2>2. summary[p[2]] = "rejected"
      BY <1>1, <1>3, <1>6, <2>1 DEF Decide
  <2> QED BY <1>1, <1>2, <2>2 DEF Sound, RejectionSpreads
<1> QED BY <1>4, <1>5, <1>6 DEF Sound, StaleSpreads, RejectionSpreads

\* Every step keeps it.
LEMMA SoundStep == KnowledgeTypeOK /\ Sound /\ [Next]_vars => Sound'
<1> SUFFICES ASSUME KnowledgeTypeOK, Sound, [Next]_vars PROVE Sound'
    OBVIOUS
<1>1. ASSUME NEW f \in Functions, Ask(f) \/ PutBack(f) \/ AskAgain(f) PROVE Sound'
    BY <1>1 DEF Ask, PutBack, AskAgain, knowledge, Sound, StaleSpreads, RejectionSpreads
<1>2. ASSUME NEW f \in Functions, Answer(f) PROVE Sound'
    BY <1>2, AnswerIsSound
<1>3. ASSUME NEW r \in Results, NEW fields \in FieldSets,
             NEW decision \in {"accepted", "rejected"}, Review(r, fields, decision)
      PROVE  Sound'
    BY <1>3, ReviewIsSound
<1>4. ASSUME NEW r \in Results, Correct(r) PROVE Sound'
    BY <1>4, CorrectIsSound
<1>5. CASE AssessRead \/ AssessEnds
    BY <1>5 DEF AssessRead, AssessEnds, knowledge, Sound, StaleSpreads, RejectionSpreads
<1>6. CASE AssessWrite
  <2>1. UNCHANGED <<human, stale, depends>>
      BY <1>6 DEF AssessWrite
  <2>2. \A r \in Results : summary'[r] = "rejected" => summary[r] = "rejected"
      BY <1>6 DEF AssessWrite, KnowledgeTypeOK, Verdicts
  <2>3. \A p \in depends : p[2] \in Results
      BY DEF KnowledgeTypeOK
  <2> QED BY <2>1, <2>2, <2>3 DEF Sound, StaleSpreads, RejectionSpreads
<1>7. CASE Refresh
  <2>1. PICK S \in SUBSET Functions : EvidenceChanges(S)
      BY <1>7 DEF Refresh
  <2> DEFINE touched == {current[f] : f \in S} \ {None}
  <2>2. /\ depends' = depends /\ human' = human /\ summary' = summary
        /\ stale' = stale \cup touched \cup Affected(touched)
      BY <2>1 DEF EvidenceChanges
  <2> HIDE DEF touched
  <2> QED BY <2>2, MarkingSpreads
<1>8. CASE ImportObservations
  <2>1. depends' = depends /\ stale' = stale \cup made
      BY <1>8 DEF ImportObservations
  <2>2. \A p \in depends : p[1] \in made
      BY DEF KnowledgeTypeOK
  <2> QED BY <2>1, <2>2 DEF Sound, StaleSpreads, RejectionSpreads
<1>9. CASE UNCHANGED vars
    BY <1>9 DEF vars, knowledge, Sound, StaleSpreads, RejectionSpreads
<1> QED BY <1>1, <1>2, <1>3, <1>4, <1>5, <1>6, <1>7, <1>8, <1>9 DEF Next, RequestStep

\* STALESPREADS: a model's conclusion that rests on a stale one is stale, also when
\* the stale mark came while it was being asked for.
THEOREM StalenessSpreads == Spec => []StaleSpreads
<1>1. Init => Sound
    BY DEF Init, Sound, StaleSpreads, RejectionSpreads
<1>2. Sound => StaleSpreads
    BY DEF Sound
<1> QED BY <1>1, <1>2, TypeCorrect, SoundStep, PTL DEF Spec

\* REJECTIONSPREADS: no fresh conclusion of a model rests on a rejected summary.
THEOREM RejectionsSpread == Spec => []RejectionSpreads
<1>1. Init => Sound
    BY DEF Init, Sound, StaleSpreads, RejectionSpreads
<1>2. Sound => RejectionSpreads
    BY DEF Sound
<1> QED BY <1>1, <1>2, TypeCorrect, SoundStep, PTL DEF Spec

-----------------------------------------------------------------------------
\* A row read by the assessment is older than any decision about its result.
RowsKnown ==
    \A row \in rows :
        /\ row.revision <= revision[row.result]
        /\ row.result \in decided => row.revision < revision[row.result]

\* Every step keeps it.
LEMMA RowsStep == KnowledgeTypeOK /\ RowsKnown /\ [Next]_vars => RowsKnown'
<1> SUFFICES ASSUME KnowledgeTypeOK, RowsKnown, [Next]_vars PROVE RowsKnown'
    OBVIOUS
<1>1. /\ \A row \in rows : row.result \in made /\ row.revision \in Nat
      /\ made \subseteq Results /\ revision \in [Results -> 0 .. MaxRevision]
    BY DEF KnowledgeTypeOK, Rows
<1>2. ASSUME rows' \subseteq rows, UNCHANGED <<revision, decided>> PROVE RowsKnown'
    BY <1>2 DEF RowsKnown
<1>3. ASSUME NEW f \in Functions, Ask(f) \/ PutBack(f) \/ AskAgain(f) \/ Answer(f)
      PROVE  RowsKnown'
    BY <1>2, <1>3 DEF Ask, PutBack, AskAgain, Answer, knowledge
<1>4. ASSUME NEW r \in Results, NEW fields \in FieldSets,
             NEW decision \in {"accepted", "rejected"}, Review(r, fields, decision)
      PROVE  RowsKnown'
  <2>1. /\ revision' = [revision EXCEPT ![r] = @ + 1] /\ decided' = decided \cup {r}
        /\ rows' = rows
      BY <1>4 DEF Review
  <2> QED BY <1>1, <2>1 DEF RowsKnown
<1>5. ASSUME NEW r \in Results, Correct(r) PROVE RowsKnown'
  <2>1. /\ revision' = [revision EXCEPT ![r] = @ + 1] /\ decided' = decided
        /\ rows' = rows
      BY <1>5 DEF Correct
  <2> QED BY <1>1, <2>1 DEF RowsKnown
<1>6. CASE AssessRead
  <2>1. \A row \in rows' : /\ row.result \in Results \ decided
                           /\ row.revision = revision[row.result]
      BY <1>6 DEF AssessRead
  <2>2. revision' = revision /\ decided' = decided
      BY <1>6 DEF AssessRead, knowledge
  <2> QED BY <1>1, <2>1, <2>2 DEF RowsKnown
<1>7. CASE AssessWrite \/ AssessEnds
    BY <1>2, <1>7 DEF AssessWrite, AssessEnds, knowledge
<1>8. CASE Refresh \/ ImportObservations
    BY <1>2, <1>8 DEF Refresh, EvidenceChanges, ImportObservations
<1>9. CASE UNCHANGED vars
    BY <1>2, <1>9 DEF vars, knowledge
<1> QED BY <1>3, <1>4, <1>5, <1>6, <1>7, <1>8, <1>9 DEF Next, RequestStep

\* What a step that does not raise its revision may do to a decided result: nothing.
LEMMA DecisionStep ==
    ASSUME KnowledgeTypeOK, RowsKnown, [Next]_vars, NEW r \in decided,
           revision'[r] = revision[r]
    PROVE  name'[r] = name[r] /\ summary'[r] = summary[r]
<1>1. /\ r \in made /\ made \subseteq Results /\ revision \in [Results -> 0 .. MaxRevision]
      /\ name \in [Results -> Reviews] /\ summary \in [Results -> Reviews]
    BY DEF KnowledgeTypeOK
<1>2. ASSUME UNCHANGED <<name, summary>>
      PROVE  name'[r] = name[r] /\ summary'[r] = summary[r]
    BY <1>2
<1>3. ASSUME NEW f \in Functions, Ask(f) \/ PutBack(f) \/ AskAgain(f) \/ Answer(f)
      PROVE  UNCHANGED <<name, summary>>
    BY <1>3 DEF Ask, PutBack, AskAgain, Answer, knowledge
<1>4. ASSUME NEW s \in Results, NEW fields \in FieldSets,
             NEW decision \in {"accepted", "rejected"}, Review(s, fields, decision)
      PROVE  name'[r] = name[r] /\ summary'[r] = summary[r]
  <2>1. s # r
      BY <1>1, <1>4 DEF Review
  <2> QED BY <1>1, <1>4, <2>1 DEF Review, Decide
<1>5. ASSUME NEW s \in Results, Correct(s)
      PROVE  name'[r] = name[r] /\ summary'[r] = summary[r]
    BY <1>1, <1>5 DEF Correct, Decide
<1>6. CASE AssessWrite
  <2>1. PICK row \in rows :
            IF SameRevision(row)
            THEN \E n \in Verdicts("name"), s \in Verdicts("summary") :
                    /\ name' = [name EXCEPT ![row.result] = n]
                    /\ summary' = [summary EXCEPT ![row.result] = s]
            ELSE UNCHANGED <<name, summary>>
      BY <1>6 DEF AssessWrite
  <2>2. CASE SameRevision(row)
    <3>1. row.revision \in Nat /\ row.result \in Results
        BY DEF KnowledgeTypeOK, Rows
    <3>2. row.result # r
        BY <1>1, <2>2, <3>1 DEF SameRevision, RowsKnown
    <3> QED BY <1>1, <2>1, <2>2, <3>1, <3>2
  <2> QED BY <2>1, <2>2
<1>7. CASE AssessRead \/ AssessEnds \/ Refresh \/ ImportObservations \/ UNCHANGED vars
    BY <1>2, <1>7 DEF AssessRead, AssessEnds, Refresh, EvidenceChanges, ImportObservations,
                      vars, knowledge
<1> QED BY <1>2, <1>3, <1>4, <1>5, <1>6, <1>7 DEF Next, RequestStep

\* DECISIONSSTAND: an assessment never overwrites a decision a person made after the
\* assessment had read the row.
THEOREM DecisionsAreKept == Spec => DecisionsStand
<1>1. Init => RowsKnown
    BY DEF Init, RowsKnown
<1>2. KnowledgeTypeOK /\ RowsKnown /\ [Next]_vars
          => [\A r \in decided : revision'[r] = revision[r]
                 => name'[r] = name[r] /\ summary'[r] = summary[r]]_vars
    BY DecisionStep
<1> QED BY <1>1, <1>2, TypeCorrect, RowsStep, PTL DEF Spec, DecisionsStand

-----------------------------------------------------------------------------
\* What a person settled stays settled by a person.
LEMMA LastWordStep ==
    ASSUME KnowledgeTypeOK, [Next]_vars, NEW f \in Functions,
           current[f] \in human \cup decided
    PROVE  current'[f] \in human' \cup decided'
<1>1. /\ human \cup decided \subseteq made /\ current \in [Functions -> made \cup {None}]
      /\ \A r \in made : owner[r] \in Functions
    BY DEF KnowledgeTypeOK
<1>2. ASSUME UNCHANGED <<current, human, decided>>
      PROVE  current'[f] \in human' \cup decided'
    BY <1>2
<1>3. ASSUME NEW g \in Functions, Answer(g)
      PROVE  current'[f] \in human' \cup decided'
  <2>1. PICK r \in Results :
            current' = IF Protected(g) THEN current ELSE [current EXCEPT ![g] = r]
      BY <1>3 DEF Answer
  <2>2. human' = human /\ decided' = decided
      BY <1>3 DEF Answer
  <2> QED BY <1>1, <2>1, <2>2 DEF Protected
<1>4. ASSUME NEW r \in Results, NEW fields \in FieldSets,
             NEW decision \in {"accepted", "rejected"}, Review(r, fields, decision)
      PROVE  current'[f] \in human' \cup decided'
  <2>1. /\ decided' = decided \cup {r} /\ human' = human
        /\ current' \in {current, [current EXCEPT ![owner[r]] = r]}
      BY <1>4 DEF Review
  <2> QED BY <1>1, <2>1
<1>5. ASSUME NEW r \in Results, Correct(r)
      PROVE  current'[f] \in human' \cup decided'
  <2>1. PICK h \in Results \ made :
            human' = human \cup {h} /\ current' = [current EXCEPT ![owner[r]] = h]
      BY <1>5 DEF Correct
  <2>2. decided' = decided
      BY <1>5 DEF Correct
  <2> QED BY <1>1, <2>1, <2>2
<1>6. CASE \E g \in Functions : Ask(g) \/ PutBack(g) \/ AskAgain(g)
    BY <1>2, <1>6 DEF Ask, PutBack, AskAgain, knowledge
<1>7. CASE AssessRead \/ AssessWrite \/ AssessEnds
    BY <1>2, <1>7 DEF AssessRead, AssessWrite, AssessEnds, knowledge
<1>8. CASE Refresh \/ ImportObservations \/ UNCHANGED vars
    BY <1>2, <1>8 DEF Refresh, EvidenceChanges, ImportObservations, vars, knowledge
<1> QED BY <1>3, <1>4, <1>5, <1>6, <1>7, <1>8 DEF Next, RequestStep

\* PEOPLEKEEPTHELASTWORD: no answer, however late, replaces the interpretation a person
\* wrote or decided on.
THEOREM LastWordIsKept == Spec => PeopleKeepTheLastWord
<1>1. KnowledgeTypeOK /\ [Next]_vars
          => [\A f \in Functions :
                 current[f] \in human \cup decided => current'[f] \in human' \cup decided']_vars
    BY LastWordStep
<1> QED BY <1>1, TypeCorrect, PTL DEF Spec, PeopleKeepTheLastWord

-----------------------------------------------------------------------------
\* The requests and the assessment of results, as the lock sees them.  Nobody pauses a binary
\* here: a lock that is never held is one.
Lock == INSTANCE EvidenceLock WITH
    Requests <- Functions,
    readers <- active,
    writing <- rows # {},
    held <- FALSE

LockSpec == Lock!Spec

\* The rows that an assessment has read and not written are the writer of the lock that the
\* queue implements: no request is open while there are any.
THEOREM KnowledgeImplementsLock == Spec => LockSpec
<1>1. Init => Lock!Init
    BY DEF Init, Lock!Init
<1>2. ASSUME KnowledgeTypeOK, [Next]_vars PROVE [Lock!Next]_(Lock!vars)
  <2>1. active \subseteq Functions
      BY <1>2 DEF KnowledgeTypeOK
  <2>2. ASSUME NEW f \in Functions, Ask(f) \/ AskAgain(f) PROVE Lock!Enter
    <3>1. rows = {} /\ rows' = rows /\ active' = active \cup {f}
        BY <2>2 DEF Ask, AskAgain
    <3> QED BY <2>1, <3>1 DEF Lock!Enter
  <2>3. ASSUME NEW f \in Functions, PutBack(f) \/ Answer(f) PROVE Lock!Leave
      BY <2>3 DEF PutBack, Answer, Lock!Leave
  <2>4. CASE AssessRead
    <3>1. rows = {} /\ active = {} /\ active' = active
        BY <2>4 DEF AssessRead, requests
    <3> QED BY <3>1 DEF Lock!Next, Lock!Acquire, Lock!Release
  <2>5. CASE AssessWrite \/ AssessEnds
    <3>1. rows # {} /\ active' = active
        BY <2>5 DEF AssessWrite, AssessEnds, requests
    <3>2. CASE rows' = {}
        BY <3>1, <3>2 DEF Lock!Next, Lock!Release
    <3>3. CASE rows' # {}
        BY <3>1, <3>3 DEF Lock!vars
    <3> QED BY <3>2, <3>3
  <2>6. CASE UNCHANGED <<active, rows>>
      BY <2>6 DEF Lock!vars
  <2>7. ASSUME NEW r \in Results, (\E fields \in FieldSets, decision \in {"accepted", "rejected"} :
                                      Review(r, fields, decision)) \/ Correct(r)
        PROVE  UNCHANGED <<active, rows>>
      BY <2>7 DEF Review, Correct, requests
  <2>8. CASE Refresh \/ ImportObservations \/ UNCHANGED vars
      BY <2>6, <2>8 DEF Refresh, EvidenceChanges, ImportObservations, vars, requests
  <2> QED BY <1>2, <2>2, <2>3, <2>4, <2>5, <2>6, <2>7, <2>8 DEF Next, RequestStep, Lock!Next
<1>3. KnowledgeTypeOK /\ [Next]_vars => [Lock!Next]_(Lock!vars)
    BY <1>2
<1> QED BY <1>1, <1>3, TypeCorrect, PTL DEF Spec, LockSpec, Lock!Spec
=============================================================================
