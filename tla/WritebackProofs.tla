--------------------------- MODULE WritebackProofs ---------------------------
(***************************************************************************)
(* One writer at a time, what the index knows of the Ghidra project, and   *)
(* what the project keeps of other people's edits, for any number of       *)
(* operations, functions and results.                                      *)
(***************************************************************************)
EXTENDS Writeback, KnowledgeProofs

\* The mark of the operation that a handler runs is set while it runs.
Running ==
    /\ status \in [Ops -> OpStatuses]
    /\ handler = [op |-> handler.op, at |-> handler.at, conflicts |-> handler.conflicts]
    /\ handler.op \in Ops \cup {None}
    /\ handler.op # None => status[handler.op] = "applying"

Alive == Running /\ OneWriter

\* A step that touches neither marks nor the handler.
LEMMA AliveUntouched ==
    ASSUME Alive, UNCHANGED <<status, handler>>
    PROVE  Alive'
BY DEF Alive, Running, OneWriter, Unresolved

\* The end of an operation.
LEMMA AliveEnds ==
    ASSUME Alive, NEW o \in Ops, handler.op = o, NEW outcome \in OpStatuses, Ends(o, outcome)
    PROVE  Alive'
<1>1. status[o] = "applying" /\ o # None
    BY WritebackAssumption DEF Alive, Running, Ops
<1>2. Unresolved' \subseteq Unresolved
    BY <1>1 DEF Ends, Unresolved, Alive, Running
<1> QED BY <1>2 DEF Alive, Running, OneWriter, Ends, Idle

\* What an operation does.
LEMMA AliveOperation ==
    ASSUME Alive, NEW o \in Ops, Operation(o)
    PROVE  Alive'
<1> USE WritebackAssumption
<1>1. CASE PreviewNames(o) \/ PreviewTypes(o) \/ PreviewNotes(o)
  <2>1. /\ status[o] = "absent" /\ status' = [status EXCEPT ![o] = "preview"]
        /\ handler' = handler
      BY <1>1 DEF PreviewNames, PreviewTypes, PreviewNotes
  <2>2. Unresolved' \subseteq Unresolved
      BY <2>1 DEF Unresolved, Alive, Running
  <2>3. Running'
      BY <2>1 DEF Alive, Running, OpStatuses
  <2> QED BY <2>2, <2>3 DEF Alive, OneWriter
<1>2. CASE Begin(o)
  <2>1. /\ status' = [status EXCEPT ![o] = "applying"] /\ Unresolved \subseteq {o}
        /\ handler' = [op |-> o, at |-> "script", conflicts |-> {}]
      BY <1>2 DEF Begin, Alone
  <2>2. Unresolved' \subseteq {o}
      BY <2>1 DEF Unresolved, Alive, Running
  <2>3. Running'
      BY <2>1 DEF Alive, Running, OpStatuses
  <2> QED BY <2>2, <2>3 DEF Alive, OneWriter
<1>3. CASE Script(o)
  <2>1. /\ status' = status
        /\ handler' = [handler EXCEPT !.at = "saved", !.conflicts = Conflicts(o)]
      BY <1>3 DEF Script
  <2>2. handler' = [op |-> handler.op, at |-> "saved", conflicts |-> Conflicts(o)]
      BY <2>1 DEF Alive, Running
  <2>3. Running'
      BY <2>1, <2>2 DEF Alive, Running
  <2> QED BY <2>1, <2>3 DEF Alive, OneWriter, Unresolved
<1>4. CASE RecordNames(o) \/ RejectNotes(o) \/ Finish(o) \/ Fails(o)
  <2>1. PICK outcome \in OpStatuses : Ends(o, outcome)
      BY <1>4 DEF RecordNames, RejectNotes, Finish, Fails, OpStatuses
  <2>2. handler.op = o
      BY <1>4 DEF RecordNames, RejectNotes, Finish, Fails
  <2> QED BY <2>1, <2>2, AliveEnds
<1>5. CASE RecordTypes(o) \/ RecordNotes(o)
  <2>1. status' = status /\ handler' = [handler EXCEPT !.at = "recorded"]
      BY <1>5 DEF RecordTypes, RecordNotes
  <2>2. handler' = [op |-> handler.op, at |-> "recorded", conflicts |-> handler.conflicts]
      BY <2>1 DEF Alive, Running
  <2> QED BY <2>1, <2>2 DEF Alive, Running, OneWriter, Unresolved
<1>6. CASE Dropped(o)
    BY <1>6 DEF Dropped, Alive, Running, OneWriter, Unresolved, Idle
<1>7. CASE ScriptLate(o)
    BY <1>7, AliveUntouched DEF ScriptLate
<1> QED BY <1>1, <1>2, <1>3, <1>4, <1>5, <1>6, <1>7 DEF Operation

\* Every step keeps it.
LEMMA AliveStep == Alive /\ [WritebackNext]_allVars => Alive'
<1> SUFFICES ASSUME Alive, [WritebackNext]_allVars PROVE Alive'
    OBVIOUS
<1>1. CASE Requests \/ People \/ Assessment
    BY <1>1, AliveUntouched DEF Requests, People, Assessment, writebackVars
<1>2. ASSUME NEW o \in Ops, Operation(o) PROVE Alive'
    BY <1>2, AliveOperation
<1>3. CASE Restart
  <2>1. Unresolved' = Unresolved
      BY <1>3 DEF Restart, Unresolved
  <2>2. Running'
    <3>1. status' \in [Ops -> OpStatuses]
        BY <1>3 DEF Restart, Alive, Running, OpStatuses
    <3>2. handler' = [op |-> None, at |-> "idle", conflicts |-> {}]
        BY <1>3 DEF Restart, Idle
    <3>3. handler'.op = None /\ handler'.at = "idle" /\ handler'.conflicts = {}
        BY <3>2
    <3> QED BY <3>1, <3>2, <3>3 DEF Running
  <2> QED BY <2>1, <2>2 DEF Alive, OneWriter
<1>4. ASSUME NEW f \in Functions, EditText(f) PROVE Alive'
    BY <1>4, AliveUntouched DEF EditText
<1>5. CASE EditTypes \/ Export
    BY <1>5, AliveUntouched DEF EditTypes, Export
<1>6. CASE UNCHANGED writebackVars
    BY <1>6, AliveUntouched DEF writebackVars
<1> QED BY <1>1, <1>2, <1>3, <1>4, <1>5, <1>6 DEF WritebackNext, allVars

\* ONEWRITER HOLDS: while the outcome of an operation is open no other is applied, of
\* whatever kind, through failures, dropped connections and restarts.
THEOREM WritersTakeTurns == WritebackSpec => []OneWriter
<1>1. WritebackInit => Alive
  <2> SUFFICES ASSUME WritebackInit PROVE Alive
      OBVIOUS
  <2>1. Unresolved = {}
      BY DEF WritebackInit, Unresolved
  <2> QED BY <2>1 DEF WritebackInit, Alive, Running, OneWriter, Idle, OpStatuses
<1>2. Alive => OneWriter
    BY DEF Alive
<1> QED BY <1>1, <1>2, AliveStep, PTL DEF WritebackSpec
-----------------------------------------------------------------------------
\* What an operation writes is known, once per function and kept as previewed.
Planned ==
    /\ items = [o \in Ops |-> items[o]]
    /\ \A o \in Ops : \A i \in items[o] : i.of \in Functions /\ (o \in NameOps => i.result \in made)
    /\ \A o \in NameOps \cup NoteOps : \A i, j \in items[o] : i.of = j.of => i = j

\* The steps that leave the results alone.
LEMMA KnowledgeStays ==
    ASSUME KnowledgeTypeOK, UNCHANGED vars
    PROVE  KnowledgeTypeOK'
BY TypeStep

\* The results stay well formed under writeback too.
LEMMA WritebackTypes == KnowledgeTypeOK /\ Planned /\ [WritebackNext]_allVars => KnowledgeTypeOK'
<1> SUFFICES ASSUME KnowledgeTypeOK, Planned, [WritebackNext]_allVars PROVE KnowledgeTypeOK'
    OBVIOUS
<1>1. CASE Requests \/ People
  <2>1. Next
      BY <1>1 DEF Requests, People, Next, RequestStep
  <2> QED BY <2>1, TypeStep
<1>2. CASE Assessment \/ ImportObservations
  <2>1. Next
      BY <1>2 DEF Assessment, Next
  <2> QED BY <2>1, TypeStep
<1>3. ASSUME NEW o \in Ops, Operation(o) PROVE KnowledgeTypeOK'
  <2>1. CASE PreviewNames(o) \/ PreviewTypes(o) \/ PreviewNotes(o) \/ Begin(o) \/ Script(o)
             \/ ScriptLate(o)
      BY <2>1, KnowledgeStays DEF PreviewNames, PreviewTypes, PreviewNotes, Begin, Script,
                  ScriptLate
  <2>2. CASE RecordNames(o) \/ RejectNotes(o) \/ Finish(o) \/ Fails(o) \/ Dropped(o)
      BY <2>2, KnowledgeStays DEF RecordNames, RejectNotes, Finish, Fails, Dropped
  <2>3. CASE RecordTypes(o)
      BY <2>3, EvidenceTypes DEF RecordTypes
  <2>4. CASE RecordNotes(o)
    <3>1. {i.of : i \in Written(o)} \in SUBSET Functions
        BY DEF Written, Planned
    <3> QED BY <2>4, <3>1, EvidenceTypes DEF RecordNotes
  <2> QED BY <1>3, <2>1, <2>2, <2>3, <2>4 DEF Operation
<1>4. CASE Restart
    BY <1>4 DEF Restart, KnowledgeTypeOK, knowledge, requests, Rows
<1>5. ASSUME NEW f \in Functions, EditText(f) PROVE KnowledgeTypeOK'
    BY <1>5, KnowledgeStays DEF EditText
<1>6. CASE EditTypes
    BY <1>6, KnowledgeStays DEF EditTypes
<1>7. CASE Export
  <2>1. Next
      BY <1>7 DEF Export, Next
  <2> QED BY <2>1, TypeStep
<1>8. CASE UNCHANGED allVars
    BY <1>8, KnowledgeStays DEF allVars
<1> QED BY <1>1, <1>2, <1>3, <1>4, <1>5, <1>6, <1>7, <1>8 DEF WritebackNext

\* No result is ever deleted.
LEMMA ResultsStay == [WritebackNext]_allVars => made \subseteq made'
<1> SUFFICES ASSUME [WritebackNext]_allVars PROVE made \subseteq made'
    OBVIOUS
<1>1. CASE Requests
    BY <1>1 DEF Requests, Ask, AskAgain, PutBack, Answer, knowledge
<1>2. CASE People
    BY <1>2 DEF People, Review, Correct
<1>3. CASE Assessment \/ ImportObservations
    BY <1>3 DEF Assessment, AssessRead, AssessWrite, AssessEnds, ImportObservations, knowledge
<1>4. ASSUME NEW o \in Ops, Operation(o) PROVE made \subseteq made'
  <2>1. CASE PreviewNames(o) \/ PreviewTypes(o) \/ PreviewNotes(o) \/ Begin(o) \/ Script(o)
             \/ ScriptLate(o)
      BY <2>1 DEF PreviewNames, PreviewTypes, PreviewNotes, Begin, Script, ScriptLate,
                  vars, knowledge
  <2>2. CASE RecordNames(o) \/ RejectNotes(o) \/ Finish(o) \/ Fails(o) \/ Dropped(o)
      BY <2>2 DEF RecordNames, RejectNotes, Finish, Fails, Dropped, vars, knowledge
  <2>3. CASE RecordTypes(o) \/ RecordNotes(o)
      BY <2>3 DEF RecordTypes, RecordNotes, EvidenceChanges
  <2> QED BY <1>4, <2>1, <2>2, <2>3 DEF Operation
<1>5. CASE Restart \/ Export
    BY <1>5 DEF Restart, Export, Refresh, EvidenceChanges, knowledge
<1>6. CASE (\E f \in Functions : EditText(f)) \/ EditTypes
    BY <1>6 DEF EditText, EditTypes, vars, knowledge
<1>7. CASE UNCHANGED allVars
    BY <1>7 DEF allVars, vars, knowledge
<1> QED BY <1>1, <1>2, <1>3, <1>4, <1>5, <1>6, <1>7 DEF WritebackNext

\* The items of a type plan.
TypeItems(o, S) ==
    {[of |-> f, result |-> current[f], revision |-> revision[current[f]],
      expected |-> TypesAt(f, current[f] \in Signing),
      want |-> [types |-> o, name |-> IF current[f] \in Signing THEN o ELSE None]] : f \in S}

\* What an operation writes changes only when it is previewed.
LEMMA ItemsStay ==
    ASSUME [WritebackNext]_allVars,
           ~ \E o \in NameOps : PreviewNames(o),
           ~ \E o \in TypeOps : PreviewTypes(o),
           ~ \E o \in NoteOps : PreviewNotes(o)
    PROVE  items' = items
<1>1. CASE Requests \/ People \/ Assessment \/ Restart
    BY <1>1 DEF Requests, People, Assessment, Restart, writebackVars
<1>2. ASSUME NEW o \in Ops, Operation(o) PROVE items' = items
    BY <1>2 DEF Operation, Begin, Script, ScriptLate, RecordNames, RecordTypes, RecordNotes,
                RejectNotes, Finish, Fails, Dropped
<1>3. CASE (\E f \in Functions : EditText(f)) \/ EditTypes \/ Export
    BY <1>3 DEF EditText, EditTypes, Export
<1>4. CASE UNCHANGED writebackVars
    BY <1>4 DEF writebackVars
<1> QED BY <1>1, <1>2, <1>3, <1>4 DEF WritebackNext, allVars

\* Every step keeps the plans.
LEMMA PlannedStep == KnowledgeTypeOK /\ Planned /\ [WritebackNext]_allVars => Planned'
<1> SUFFICES ASSUME KnowledgeTypeOK, Planned, [WritebackNext]_allVars PROVE Planned'
    OBVIOUS
<1> USE WritebackAssumption
<1>1. made \subseteq made'
    BY ResultsStay
<1>2. CASE items' = items
    BY <1>1, <1>2 DEF Planned
<1>3. ASSUME NEW o \in Ops, items' = [items EXCEPT ![o] = items'[o]],
             \A i \in items'[o] : i.of \in Functions /\ (o \in NameOps => i.result \in made'),
             o \in NameOps \cup NoteOps => \A i, j \in items'[o] : i.of = j.of => i = j
      PROVE  Planned'
    BY <1>1, <1>3 DEF Planned, Ops
<1>4. ASSUME NEW o \in NameOps, PreviewNames(o) PROVE Planned'
  <2>1. PICK S \in SUBSET Functions :
            /\ \A f \in S : current[f] # None
            /\ items' = [items EXCEPT ![o] =
                   {[of |-> f, result |-> current[f], revision |-> revision[current[f]],
                     expected |-> text[f], want |-> Wanted(f)] : f \in S}]
    <3>1. \A f \in {g \in Functions : Accepted(g) /\ Wanted(g) # text[g]} : current[f] # None
        BY DEF Accepted
    <3>2. {g \in Functions : Accepted(g) /\ Wanted(g) # text[g]} \in SUBSET Functions
        OBVIOUS
    <3> QED BY <1>4, <3>1, <3>2 DEF PreviewNames
  <2>2. \A f \in S : current[f] \in made'
      BY <1>1, <2>1 DEF KnowledgeTypeOK
  <2>3. o \in Ops
      BY DEF Ops
  <2>4. items'[o] = {[of |-> f, result |-> current[f], revision |-> revision[current[f]],
                      expected |-> text[f], want |-> Wanted(f)] : f \in S}
      BY <2>1, <2>3 DEF Planned
  <2>5. items' = [items EXCEPT ![o] = items'[o]]
      BY <2>1, <2>4
  <2>6. \A i \in items'[o] : i.of \in Functions /\ (o \in NameOps => i.result \in made')
      BY <2>2, <2>4
  <2>7. \A i, j \in items'[o] : i.of = j.of => i = j
      BY <2>4
  <2> QED BY <1>3, <2>3, <2>5, <2>6, <2>7
<1>5. ASSUME NEW o \in TypeOps, PreviewTypes(o) PROVE Planned'
  <2>1. PICK S \in SUBSET Proposals : items' = [items EXCEPT ![o] = TypeItems(o, S)]
      BY <1>5 DEF PreviewTypes, TypeItems
  <2>2. o \in Ops /\ o \notin NameOps \cup NoteOps
      BY DEF Ops
  <2>3. items'[o] = TypeItems(o, S)
      BY <2>1, <2>2 DEF Planned
  <2>4. items' = [items EXCEPT ![o] = items'[o]]
      BY <2>1, <2>3
  <2>5. \A i \in items'[o] : i.of \in Functions
      BY <2>3 DEF TypeItems, Proposals
  <2> QED BY <1>3, <2>2, <2>4, <2>5
<1>6. ASSUME NEW o \in NoteOps, PreviewNotes(o) PROVE Planned'
  <2>1. PICK S \in SUBSET Functions : items' = [items EXCEPT ![o] =
            {[of |-> f, result |-> None, revision |-> 0,
              expected |-> ghidra[f], want |-> Text(o, o)] : f \in S}]
      BY <1>6 DEF PreviewNotes
  <2>2. o \in Ops /\ o \notin NameOps
      BY DEF Ops
  <2>3. items'[o] = {[of |-> f, result |-> None, revision |-> 0,
                      expected |-> ghidra[f], want |-> Text(o, o)] : f \in S}
      BY <2>1, <2>2 DEF Planned
  <2>4. items' = [items EXCEPT ![o] = items'[o]]
      BY <2>1, <2>3
  <2>5. \A i \in items'[o] : i.of \in Functions
      BY <2>3
  <2>6. \A i, j \in items'[o] : i.of = j.of => i = j
      BY <2>3
  <2> QED BY <1>3, <2>2, <2>4, <2>5, <2>6
<1> QED BY <1>2, <1>4, <1>5, <1>6, ItemsStay

\* Only a person's decision or correction makes a new revision.
LEMMA RevisionsStay ==
    ASSUME [WritebackNext]_allVars, ~People
    PROVE  revision' = revision
<1>1. CASE Requests
    BY <1>1 DEF Requests, Ask, AskAgain, PutBack, Answer, knowledge
<1>2. CASE Assessment \/ ImportObservations
    BY <1>2 DEF Assessment, AssessRead, AssessWrite, AssessEnds, ImportObservations, knowledge
<1>3. ASSUME NEW o \in Ops, Operation(o) PROVE revision' = revision
  <2>1. CASE PreviewNames(o) \/ PreviewTypes(o) \/ PreviewNotes(o) \/ Begin(o) \/ Script(o)
             \/ ScriptLate(o)
      BY <2>1 DEF PreviewNames, PreviewTypes, PreviewNotes, Begin, Script, ScriptLate,
                  vars, knowledge
  <2>2. CASE RecordNames(o) \/ RejectNotes(o) \/ Finish(o) \/ Fails(o) \/ Dropped(o)
      BY <2>2 DEF RecordNames, RejectNotes, Finish, Fails, Dropped, vars, knowledge
  <2>3. CASE RecordTypes(o) \/ RecordNotes(o)
      BY <2>3 DEF RecordTypes, RecordNotes, EvidenceChanges
  <2> QED BY <1>3, <2>1, <2>2, <2>3 DEF Operation
<1>4. CASE Restart \/ Export
    BY <1>4 DEF Restart, Export, Refresh, EvidenceChanges, knowledge
<1>5. CASE (\E f \in Functions : EditText(f)) \/ EditTypes
    BY <1>5 DEF EditText, EditTypes, vars, knowledge
<1>6. CASE UNCHANGED allVars
    BY <1>6 DEF allVars, vars, knowledge
<1> QED BY <1>1, <1>2, <1>3, <1>4, <1>5, <1>6 DEF WritebackNext

\* People leave the results of an unresolved change set alone.
LEMMA HeldStays ==
    ASSUME KnowledgeTypeOK, Planned, People, NEW o \in NameOps \cap Unresolved, NEW i \in items[o]
    PROVE  revision'[i.result] = revision[i.result]
<1>1. i.result \in Held /\ i.result \in Results
    BY DEF Held, Planned, KnowledgeTypeOK, Ops
<1>2. ASSUME NEW r \in Results \ Held, revision' = [revision EXCEPT ![r] = @ + 1]
      PROVE  revision'[i.result] = revision[i.result]
    BY <1>1, <1>2 DEF KnowledgeTypeOK
<1>3. PICK r \in Results \ Held : revision' = [revision EXCEPT ![r] = @ + 1]
    BY DEF People, Review, Correct
<1> QED BY <1>2, <1>3

\* An operation is unresolved from its beginning.
LEMMA OnlyBegun ==
    ASSUME Alive, [WritebackNext]_allVars, NEW o \in Unresolved', o \notin Unresolved
    PROVE  Begin(o)
<1> USE WritebackAssumption
<1>1. CASE Requests \/ People \/ Assessment
    BY <1>1 DEF Requests, People, Assessment, writebackVars, Unresolved
<1>2. ASSUME NEW p \in Ops, Operation(p) PROVE Begin(o)
  <2>1. CASE PreviewNames(p) \/ PreviewTypes(p) \/ PreviewNotes(p)
    <3>1. status' = [status EXCEPT ![p] = "preview"]
        BY <2>1 DEF PreviewNames, PreviewTypes, PreviewNotes
    <3> QED BY <3>1 DEF Alive, Running, Unresolved
  <2>2. CASE Begin(p)
    <3>1. status' = [status EXCEPT ![p] = "applying"]
        BY <2>2 DEF Begin
    <3>2. p = o
        BY <3>1 DEF Alive, Running, Unresolved
    <3> QED BY <2>2, <3>2
  <2>3. CASE Script(p) \/ ScriptLate(p) \/ RecordTypes(p) \/ RecordNotes(p) \/ Dropped(p)
      BY <2>3 DEF Script, ScriptLate, RecordTypes, RecordNotes, Dropped, Unresolved
  <2>4. CASE RecordNames(p) \/ RejectNotes(p) \/ Finish(p) \/ Fails(p)
    <3>1. PICK outcome \in OpStatuses : Ends(p, outcome)
        BY <2>4 DEF RecordNames, RejectNotes, Finish, Fails, OpStatuses
    <3>2. handler.op = p
        BY <2>4 DEF RecordNames, RejectNotes, Finish, Fails
    <3>3. status[p] = "applying"
        BY <3>2 DEF Alive, Running, Ops
    <3> QED BY <3>1, <3>3 DEF Ends, Alive, Running, Unresolved
  <2> QED BY <1>2, <2>1, <2>2, <2>3, <2>4 DEF Operation
<1>3. CASE Restart
    BY <1>3 DEF Restart, Unresolved
<1>4. CASE (\E f \in Functions : EditText(f)) \/ EditTypes \/ Export
    BY <1>4 DEF EditText, EditTypes, Export, Unresolved
<1>5. CASE UNCHANGED writebackVars
    BY <1>5 DEF writebackVars, Unresolved
<1> QED BY <1>1, <1>2, <1>3, <1>4, <1>5 DEF WritebackNext, allVars

\* A preview leaves the plans of unresolved operations alone.
LEMMA OpenItemsStay ==
    ASSUME Alive, Planned, [WritebackNext]_allVars, NEW o \in Unresolved'
    PROVE  items'[o] = items[o]
<1>1. ASSUME NEW p \in Ops, NEW new, items' = [items EXCEPT ![p] = new],
             status' = [status EXCEPT ![p] = "preview"]
      PROVE  items'[o] = items[o]
    BY <1>1 DEF Alive, Running, Planned, Unresolved
<1>2. ASSUME NEW p \in NameOps, PreviewNames(p) PROVE items'[o] = items[o]
    BY <1>1, <1>2 DEF PreviewNames, Ops
<1>3. ASSUME NEW p \in TypeOps, PreviewTypes(p) PROVE items'[o] = items[o]
    BY <1>1, <1>3 DEF PreviewTypes, Ops
<1>4. ASSUME NEW p \in NoteOps, PreviewNotes(p) PROVE items'[o] = items[o]
    BY <1>1, <1>4 DEF PreviewNotes, Ops
<1> QED BY <1>2, <1>3, <1>4, ItemsStay

\* Every step keeps what was reviewed.
LEMMA ReviewedStep ==
    ASSUME KnowledgeTypeOK, Planned, Alive, ReviewedIsWritten, [WritebackNext]_allVars
    PROVE  ReviewedIsWritten'
<1> SUFFICES ASSUME NEW o \in NameOps \cap Unresolved', NEW i \in items[o]
             PROVE  revision'[i.result] = i.revision
    BY OpenItemsStay DEF ReviewedIsWritten
<1>1. CASE o \in Unresolved
  <2>1. revision[i.result] = i.revision
      BY <1>1 DEF ReviewedIsWritten
  <2>2. revision'[i.result] = revision[i.result]
      BY <1>1, HeldStays, RevisionsStay
  <2> QED BY <2>1, <2>2
<1>2. CASE o \notin Unresolved
  <2>1. Begin(o)
      BY <1>2, OnlyBegun
  <2>2. Applicable(o) /\ revision' = revision
      BY <2>1 DEF Begin, vars, knowledge
  <2>3. o \notin TypeOps /\ o \notin NoteOps
      BY WritebackAssumption
  <2>4. Unchanged(i)
      BY <2>2, <2>3 DEF Applicable
  <2> QED BY <2>2, <2>4 DEF Unchanged
<1> QED BY <1>1, <1>2

\* REVIEWEDISWRITTEN HOLDS: what an interrupted change set is retried with is what was
\* reviewed, whatever people decide or correct while its outcome is unknown.
THEOREM ReviewsAreWritten == WritebackSpec => []ReviewedIsWritten
<1> DEFINE Inv == KnowledgeTypeOK /\ Planned /\ Alive /\ ReviewedIsWritten
<1>1. WritebackInit => Inv
  <2> SUFFICES ASSUME WritebackInit PROVE Inv
      OBVIOUS
  <2>1. Unresolved = {}
      BY DEF WritebackInit, Unresolved
  <2>2. Alive
      BY <2>1 DEF WritebackInit, Alive, Running, OneWriter, Idle, OpStatuses
  <2>3. KnowledgeTypeOK
      BY InitTypes DEF WritebackInit
  <2>4. Planned /\ ReviewedIsWritten
      BY <2>1 DEF WritebackInit, Planned, ReviewedIsWritten, Ops
  <2> QED BY <2>2, <2>3, <2>4
<1>2. Inv /\ [WritebackNext]_allVars => Inv'
    BY WritebackTypes, PlannedStep, AliveStep, ReviewedStep
<1>3. Inv => ReviewedIsWritten
    OBVIOUS
<1> QED BY <1>1, <1>2, <1>3, PTL DEF WritebackSpec
-----------------------------------------------------------------------------
\* No assessment is under way while a handler runs.
GateHeld == handler.op # None => rows = {}

\* Every step keeps it.
LEMMA GateStep ==
    ASSUME Alive, GateHeld, [WritebackNext]_allVars
    PROVE  GateHeld'
<1> USE WritebackAssumption
<1>1. CASE Requests \/ People
    BY <1>1 DEF Requests, People, Ask, PutBack, AskAgain, Answer, Review, Correct, GateHeld,
                writebackVars
<1>2. CASE Assessment
    BY <1>2 DEF Assessment, Idle, GateHeld, writebackVars
<1>3. CASE ImportObservations /\ UNCHANGED writebackVars
    BY <1>3 DEF ImportObservations, GateHeld, writebackVars
<1>4. ASSUME NEW o \in Ops, Operation(o) PROVE GateHeld'
  <2>1. CASE PreviewNames(o) \/ PreviewTypes(o) \/ PreviewNotes(o)
      BY <2>1 DEF PreviewNames, PreviewTypes, PreviewNotes, vars, GateHeld
  <2>2. CASE Begin(o)
      BY <2>2 DEF Begin, vars, GateHeld
  <2>3. CASE Script(o) \/ RecordNames(o) \/ RejectNotes(o) \/ Finish(o) \/ Fails(o) \/ Dropped(o)
    <3>1. handler.op = o /\ rows' = rows
        BY <2>3 DEF Script, RecordNames, RejectNotes, Finish, Fails, Dropped, vars
    <3> QED BY <3>1 DEF GateHeld, Ops
  <2>4. CASE RecordTypes(o) \/ RecordNotes(o)
    <3>1. handler.op = o /\ rows' = rows
        BY <2>4 DEF RecordTypes, RecordNotes, EvidenceChanges
    <3> QED BY <3>1 DEF GateHeld, Ops
  <2>5. CASE ScriptLate(o)
      BY <2>5 DEF ScriptLate, vars, GateHeld
  <2> QED BY <1>4, <2>1, <2>2, <2>3, <2>4, <2>5 DEF Operation
<1>5. CASE Restart
    BY <1>5 DEF Restart, GateHeld
<1>6. CASE (\E f \in Functions : EditText(f)) \/ EditTypes
    BY <1>6 DEF EditText, EditTypes, vars, GateHeld
<1>7. CASE Export
    BY <1>7 DEF Export, Refresh, EvidenceChanges, GateHeld
<1>8. CASE UNCHANGED allVars
    BY <1>8 DEF allVars, vars, writebackVars, GateHeld
<1> QED BY <1>1, <1>2, <1>3, <1>4, <1>5, <1>6, <1>7, <1>8 DEF WritebackNext

\* New evidence recorded by an operation is what a refresh may find, or nothing.
LEMMA EvidenceIsRefresh ==
    ASSUME "refresh" \in Events, rows = {}, NEW S \in SUBSET Functions, EvidenceChanges(S)
    PROVE  [Next]_vars
<1>1. CASE S = {}
  <2>1. Affected({}) = {} /\ {current[f] : f \in S} \ {None} = {}
      BY <1>1 DEF Affected
  <2>2. stale' = stale
      BY <1>1, <2>1 DEF EvidenceChanges
  <2> QED BY <2>2 DEF EvidenceChanges, vars, knowledge
<1>2. CASE S # {}
    BY <1>2 DEF Refresh, Next
<1> QED BY <1>1, <1>2

\* Every step of the writers is one of Knowledge, or none.
LEMMA WritebackIsKnowledge ==
    ASSUME "refresh" \in Events, Planned, Alive, GateHeld, [WritebackNext]_allVars
    PROVE  [Next]_vars
<1> USE WritebackAssumption
<1>1. CASE Requests \/ People
    BY <1>1 DEF Requests, People, Next, RequestStep
<1>2. CASE Assessment \/ ImportObservations
    BY <1>2 DEF Assessment, Next
<1>3. ASSUME NEW o \in Ops, Operation(o) PROVE [Next]_vars
  <2>1. CASE PreviewNames(o) \/ PreviewTypes(o) \/ PreviewNotes(o) \/ Begin(o) \/ Script(o)
             \/ ScriptLate(o)
      BY <2>1 DEF PreviewNames, PreviewTypes, PreviewNotes, Begin, Script,
                  ScriptLate
  <2>2. CASE RecordNames(o) \/ RejectNotes(o) \/ Finish(o) \/ Fails(o) \/ Dropped(o)
      BY <2>2 DEF RecordNames, RejectNotes, Finish, Fails, Dropped
  <2>3. CASE RecordTypes(o) \/ RecordNotes(o)
    <3>1. rows = {}
        BY <2>3 DEF RecordTypes, RecordNotes, GateHeld, Ops
    <3>2. {i.of : i \in Written(o)} \in SUBSET Functions
        BY DEF Written, Planned
    <3> QED BY <2>3, <3>1, <3>2, EvidenceIsRefresh DEF RecordTypes, RecordNotes
  <2> QED BY <1>3, <2>1, <2>2, <2>3 DEF Operation
<1>4. CASE Restart
  <2>1. CASE rows = {}
      BY <1>4, <2>1 DEF Restart, vars, knowledge
  <2>2. CASE rows # {}
      BY <1>4, <2>2 DEF Restart, AssessEnds, Next
  <2> QED BY <2>1, <2>2
<1>5. CASE (\E f \in Functions : EditText(f)) \/ EditTypes
    BY <1>5 DEF EditText, EditTypes
<1>6. CASE Export
    BY <1>6 DEF Export, Next
<1>7. CASE UNCHANGED allVars
    BY <1>7 DEF allVars
<1> QED BY <1>1, <1>2, <1>3, <1>4, <1>5, <1>6, <1>7 DEF WritebackNext

\* The writers implement Knowledge: what is proved of reviews, corrections and staleness
\* there holds while operations are applied, fail and are recovered.
THEOREM WritersKeepKnowledge ==
    ASSUME "refresh" \in Events
    PROVE  WritebackSpec => Spec
<1> DEFINE Inv == KnowledgeTypeOK /\ Planned /\ Alive /\ GateHeld
<1>1. WritebackInit => Init /\ Inv
  <2> SUFFICES ASSUME WritebackInit PROVE Init /\ Inv
      OBVIOUS
  <2>1. Unresolved = {}
      BY DEF WritebackInit, Unresolved
  <2>2. Alive
      BY <2>1 DEF WritebackInit, Alive, Running, OneWriter, Idle, OpStatuses
  <2>3. KnowledgeTypeOK /\ Init
      BY InitTypes DEF WritebackInit
  <2>4. Planned /\ GateHeld
      BY DEF WritebackInit, Planned, GateHeld, Ops, Idle
  <2> QED BY <2>2, <2>3, <2>4
<1>2. Inv /\ [WritebackNext]_allVars => Inv'
    BY WritebackTypes, PlannedStep, AliveStep, GateStep
<1>3. Inv /\ [WritebackNext]_allVars => [Next]_vars
    BY WritebackIsKnowledge
<1> QED BY <1>1, <1>2, <1>3, PTL DEF WritebackSpec, Spec

\* What is proved of reviews, corrections and staleness is true while operations are applied:
\* no fresh conclusion of a model rests on a stale or rejected one, decisions stand, and a
\* person keeps the last word, although handlers record new evidence between any two steps.
THEOREM KnowledgeUnderWriters ==
    ASSUME "refresh" \in Events
    PROVE  /\ WritebackSpec => []StaleSpreads
           /\ WritebackSpec => []RejectionSpreads
           /\ WritebackSpec => DecisionsStand
           /\ WritebackSpec => PeopleKeepTheLastWord
<1>1. WritebackSpec => Spec
    BY WritersKeepKnowledge
<1> QED BY <1>1, StalenessSpreads, RejectionsSpread, DecisionsAreKept, LastWordIsKept, PTL

-----------------------------------------------------------------------------
\* What the steps below start from.
Base == Planned /\ Alive /\ edits \in Nat

\* It begins so.
LEMMA BaseInit == WritebackInit => KnowledgeTypeOK /\ Base
<1> SUFFICES ASSUME WritebackInit PROVE KnowledgeTypeOK /\ Base
    OBVIOUS
<1>1. Unresolved = {}
    BY DEF WritebackInit, Unresolved
<1>2. Alive
    BY <1>1 DEF WritebackInit, Alive, Running, OneWriter, Idle, OpStatuses
<1>3. KnowledgeTypeOK
    BY InitTypes DEF WritebackInit
<1>4. Planned /\ edits \in Nat
    BY DEF WritebackInit, Planned, Ops
<1> QED BY <1>2, <1>3, <1>4 DEF Base

-----------------------------------------------------------------------------
\* The assessment, a type plan, and an annotation until its outcome is known.
ChangesEvidence == rows # {} \/ handler.op \in TypeOps \/ NoteOps \cap Unresolved # {}

WritersLock == INSTANCE EvidenceLock WITH
    Requests <- Functions,
    readers <- active,
    writing <- ChangesEvidence,
    held <- FALSE

WritersLockSpec == WritersLock!Spec

\* What is settled, or was never begun, is so after a step of an operation, if it is not begun.
LEMMA NotesStay ==
    ASSUME NEW o \in Ops, Alive, Operation(o), ~Begin(o)
    PROVE  /\ NoteOps \cap Unresolved' \subseteq NoteOps \cap Unresolved
           /\ handler'.op \in TypeOps => handler.op \in TypeOps
           /\ UNCHANGED <<active, rows>>
<1> USE WritebackAssumption
<1>1. CASE PreviewNames(o) \/ PreviewTypes(o) \/ PreviewNotes(o)
    BY <1>1 DEF PreviewNames, PreviewTypes, PreviewNotes, Unresolved, Alive, Running, vars, requests
<1>2. CASE Script(o) \/ ScriptLate(o)
  <2>1. status' = status /\ handler'.op = handler.op /\ UNCHANGED <<active, rows>>
      BY <1>2 DEF Script, ScriptLate, vars, requests, Alive, Running
  <2> QED BY <2>1 DEF Unresolved
<1>3. CASE RecordTypes(o) \/ RecordNotes(o)
  <2>1. status' = status /\ handler'.op = handler.op /\ UNCHANGED <<active, rows>>
      BY <1>3 DEF RecordTypes, RecordNotes, EvidenceChanges, requests, Alive, Running
  <2> QED BY <2>1 DEF Unresolved
<1>4. CASE RecordNames(o) \/ RejectNotes(o) \/ Finish(o) \/ Fails(o)
  <2>1. /\ handler.op = o /\ handler' = Idle /\ UNCHANGED <<active, rows>>
        /\ \E outcome : status' = [status EXCEPT ![o] = outcome]
      BY <1>4 DEF RecordNames, RejectNotes, Finish, Fails, Ends, vars, requests
  <2>2. o \in Unresolved
      BY <2>1 DEF Alive, Running, Unresolved, Ops
  <2>3. Idle.op \notin TypeOps
      BY DEF Idle
  <2> QED BY <2>1, <2>2, <2>3 DEF Unresolved, Alive, Running
<1>5. CASE Dropped(o)
    BY <1>5 DEF Dropped, Idle, vars, requests, Unresolved
<1> QED BY <1>1, <1>2, <1>3, <1>4, <1>5 DEF Operation

\* Type plans and annotations take the lock that the queue and the cycle implement: they are
\* begun only when no request is open, and no request starts before the plan's handler is
\* gone, or the annotation is settled, through failures, restarts and late scripts.
THEOREM WritersImplementLock == WritebackSpec => WritersLockSpec
<1> DEFINE Inv == KnowledgeTypeOK /\ Planned /\ Alive
<1>1. WritebackInit => Inv /\ WritersLock!Init
  <2> SUFFICES ASSUME WritebackInit PROVE Inv /\ WritersLock!Init
      OBVIOUS
  <2>1. Unresolved = {} /\ handler.op = None
      BY DEF WritebackInit, Unresolved, Idle
  <2>2. ~ChangesEvidence /\ active = {}
      BY <2>1, WritebackAssumption DEF WritebackInit, Init, ChangesEvidence
  <2>3. WritersLock!Init
      BY <2>2 DEF WritersLock!Init
  <2>4. KnowledgeTypeOK /\ Base
      BY BaseInit
  <2> QED BY <2>3, <2>4 DEF Base
<1>2. Inv /\ [WritebackNext]_allVars => Inv'
    BY WritebackTypes, PlannedStep, AliveStep
<1>3. ASSUME Inv, [WritebackNext]_allVars PROVE [WritersLock!Next]_(WritersLock!vars)
  <2>1. active \subseteq Functions
      BY <1>3 DEF KnowledgeTypeOK
  <2>2. ASSUME active' = active, ChangesEvidence' => ChangesEvidence \/ active = {}
        PROVE  [WritersLock!Next]_(WritersLock!vars)
    <3>1. ChangesEvidence \in BOOLEAN /\ ChangesEvidence' \in BOOLEAN
        BY DEF ChangesEvidence
    <3>2. CASE ChangesEvidence' = ChangesEvidence
        BY <2>2, <3>2 DEF WritersLock!vars
    <3>3. CASE ~ChangesEvidence /\ ChangesEvidence'
        BY <2>2, <3>3 DEF WritersLock!Next, WritersLock!Acquire
    <3>4. CASE ChangesEvidence /\ ~ChangesEvidence'
        BY <2>2, <3>4 DEF WritersLock!Next, WritersLock!Release
    <3> QED BY <3>1, <3>2, <3>3, <3>4
  <2>3. ASSUME UNCHANGED <<rows, handler, status>> PROVE ChangesEvidence' = ChangesEvidence
      BY <2>3 DEF ChangesEvidence, Unresolved
  <2>4. CASE Requests
    <3>1. UNCHANGED <<rows, handler, status>>
        BY <2>4 DEF Requests, Ask, AskAgain, PutBack, Answer, writebackVars
    <3>2. ASSUME NEW f \in Functions, RequestsMayStart, Ask(f) \/ AskAgain(f)
          PROVE  WritersLock!Enter
      <4>1. ~ChangesEvidence /\ active' = active \cup {f}
          BY <3>2 DEF Ask, AskAgain, RequestsMayStart, ChangesEvidence
      <4> QED BY <2>1, <2>3, <3>1, <4>1 DEF WritersLock!Enter
    <3>3. ASSUME NEW f \in Functions, PutBack(f) \/ Answer(f) PROVE WritersLock!Leave
      <4>1. active' \subseteq active
          BY <3>3 DEF PutBack, Answer
      <4> QED BY <2>3, <3>1, <4>1 DEF WritersLock!Leave
    <3> QED BY <2>4, <3>2, <3>3 DEF Requests, WritersLock!Next
  <2>5. CASE People
    <3>1. UNCHANGED <<active, rows, handler, status>>
        BY <2>5 DEF People, Review, Correct, requests, writebackVars
    <3> QED BY <2>2, <2>3, <3>1
  <2>6. CASE Assessment
    <3>1. UNCHANGED <<active, handler, status>> /\ (rows # {} \/ active = {})
        BY <2>6 DEF Assessment, AssessRead, AssessWrite, AssessEnds, requests, writebackVars
    <3>2. ChangesEvidence' => ChangesEvidence \/ active = {}
        BY <3>1 DEF ChangesEvidence, Unresolved
    <3> QED BY <2>2, <3>1, <3>2
  <2>7. CASE ImportObservations /\ UNCHANGED writebackVars
    <3>1. UNCHANGED <<active, rows, handler, status>>
        BY <2>7 DEF ImportObservations, requests, writebackVars
    <3> QED BY <2>2, <2>3, <3>1
  <2>8. ASSUME NEW o \in Ops, Operation(o) PROVE [WritersLock!Next]_(WritersLock!vars)
    <3>1. CASE Begin(o)
      <4>1. active' = active /\ rows' = rows /\ handler'.op = o
            /\ status' = [status EXCEPT ![o] = "applying"]
          BY <3>1 DEF Begin, vars, requests
      <4>2. o \in TypeOps \cup NoteOps => active = {}
          BY <3>1, WritebackAssumption DEF Begin, Applicable
      <4>3. o \in NameOps => NoteOps \cap Unresolved' \subseteq NoteOps \cap Unresolved
          BY <4>1, WritebackAssumption DEF Unresolved, Alive, Running
      <4>4. ChangesEvidence' => ChangesEvidence \/ active = {}
          BY <4>1, <4>2, <4>3, WritebackAssumption DEF ChangesEvidence, Ops
      <4> QED BY <2>2, <4>1, <4>4
    <3>2. CASE ~Begin(o)
      <4>1. ChangesEvidence' => ChangesEvidence
          BY <1>3, <2>8, <3>2, NotesStay DEF ChangesEvidence
      <4> QED BY <1>3, <2>2, <2>8, <3>2, <4>1, NotesStay
    <3> QED BY <3>1, <3>2
  <2>9. CASE Restart
    <3>1. active' = active /\ rows' = {} /\ handler' = Idle
          /\ status' = [o \in Ops |-> IF status[o] = "applying" THEN "uncertain" ELSE status[o]]
        BY <2>9 DEF Restart, requests
    <3>2. Unresolved' = Unresolved
        BY <3>1 DEF Unresolved
    <3>3. ChangesEvidence' => ChangesEvidence
        BY <3>1, <3>2, WritebackAssumption DEF ChangesEvidence, Idle
    <3> QED BY <2>2, <3>1, <3>3
  <2>10. CASE (\E f \in Functions : EditText(f)) \/ EditTypes \/ Export \/ UNCHANGED allVars
    <3>1. UNCHANGED <<active, rows, handler, status>>
        BY <2>10 DEF EditText, EditTypes, Export, Refresh, EvidenceChanges, allVars, vars, writebackVars,
                     requests
    <3> QED BY <2>2, <2>3, <3>1
  <2> QED BY <1>3, <2>4, <2>5, <2>6, <2>7, <2>8, <2>9, <2>10 DEF WritebackNext
<1>4. Inv /\ [WritebackNext]_allVars => [WritersLock!Next]_(WritersLock!vars)
    BY <1>3
<1> QED BY <1>1, <1>2, <1>4, PTL DEF WritebackSpec, WritersLockSpec, WritersLock!Spec

-----------------------------------------------------------------------------
\* Edits are counted.
LEMMA EditsCount ==
    ASSUME Base, [WritebackNext]_allVars
    PROVE  /\ edits' \in Nat /\ (edits' = 0 => edits = 0)
           /\ (edits' # edits => (\E f \in Functions : EditText(f)) \/ EditTypes)
<1>1. CASE (\E f \in Functions : EditText(f)) \/ EditTypes
    BY <1>1 DEF Base, EditText, EditTypes
<1>2. ASSUME edits' = edits
      PROVE  edits' \in Nat /\ (edits' = 0 => edits = 0)
    BY <1>2 DEF Base
<1>3. CASE Requests \/ People \/ Assessment \/ Restart \/ Export
    BY <1>2, <1>3 DEF Requests, People, Assessment, Restart, Export, writebackVars
<1>4. ASSUME NEW o \in Ops, Operation(o) PROVE edits' = edits
    BY <1>4 DEF Operation, PreviewNames, PreviewTypes, PreviewNotes, Begin, Script,
                ScriptLate, RecordNames, RecordTypes, RecordNotes, RejectNotes, Finish, Fails,
                Dropped
<1>5. CASE UNCHANGED writebackVars
    BY <1>2, <1>5 DEF writebackVars
<1> QED BY <1>1, <1>2, <1>3, <1>4, <1>5 DEF WritebackNext, allVars

\* Every step keeps it.
LEMMA BaseStep ==
    KnowledgeTypeOK /\ Base /\ [WritebackNext]_allVars => KnowledgeTypeOK' /\ Base'
BY WritebackTypes, PlannedStep, AliveStep, EditsCount DEF Base

\* The project changes only by a script or an edit.
LEMMA OnlyScripts ==
    ASSUME Base, [WritebackNext]_allVars, edits' = edits, <<ghidra, layout, markers>>' # <<ghidra, layout, markers>>
    PROVE  \E o \in Ops : Script(o) \/ ScriptLate(o)
<1>1. CASE (\E f \in Functions : EditText(f)) \/ EditTypes
    BY <1>1 DEF Base, EditText, EditTypes
<1>2. CASE Requests \/ People \/ Assessment \/ Restart \/ Export
    BY <1>2 DEF Requests, People, Assessment, Restart, Export, writebackVars
<1>3. ASSUME NEW o \in Ops, Operation(o) PROVE \E p \in Ops : Script(p) \/ ScriptLate(p)
    BY <1>3 DEF Operation, PreviewNames, PreviewTypes, PreviewNotes, Begin, RecordNames,
                RecordTypes, RecordNotes, RejectNotes, Finish, Fails, Dropped
<1>4. CASE UNCHANGED writebackVars
    BY <1>4 DEF writebackVars
<1> QED BY <1>1, <1>2, <1>3, <1>4 DEF WritebackNext, allVars

\* What is written to a function is what one of the items wants.
LEMMA WrittenOrKept ==
    ASSUME NEW written, NEW before, NEW f \in Functions, With(written, before)[f] # before[f]
    PROVE  \E i \in written : i.of = f /\ With(written, before)[f] = i.want
<1>1. PICK i \in written : i.of = f
    BY DEF With
<1> DEFINE chosen == CHOOSE j \in written : j.of = f
<1>2. chosen \in written /\ chosen.of = f
    BY <1>1
<1>3. With(written, before)[f] = chosen.want
    BY <1>1 DEF With
<1> QED BY <1>2, <1>3

\* A script, late or not, runs for the unresolved operation, and changes neither statuses
\* nor plans nor the index.
LEMMA ScriptsAreBegun ==
    ASSUME Base, NEW o \in Ops, Script(o) \/ ScriptLate(o)
    PROVE  /\ o \in Unresolved /\ (\A p \in Unresolved : p = o)
           /\ Saves(o) /\ UNCHANGED <<status, items, text, edits>> /\ Unresolved' = Unresolved
<1>1. o \in Unresolved
  <2>1. CASE Script(o)
    <3>1. handler.op = o /\ o # None
        BY <2>1, WritebackAssumption DEF Script, Ops
    <3> QED BY <3>1 DEF Base, Alive, Running, Unresolved
  <2>2. CASE ScriptLate(o)
      BY <2>2 DEF ScriptLate
  <2> QED BY <2>1, <2>2
<1>2. Saves(o) /\ UNCHANGED <<status, items, text, edits>>
    BY DEF Script, ScriptLate
<1> QED BY <1>1, <1>2 DEF Base, Alive, OneWriter, Unresolved

\* A type plan that renames a function found it with the name of the preview.
LEMMA TypesRespect ==
    ASSUME NEW o \in TypeOps, ScriptTypes(o), NEW f \in Functions, ghidra'[f] # ghidra[f]
    PROVE  \E i \in items[o] : /\ i.of = f /\ Signed(i) /\ i.expected.name = ghidra[f].name
                              /\ ghidra'[f] = Text(i.want.name, ghidra[f].comment)
<1>1. ghidra' = With(SignedTexts(o), ghidra) /\ \A i \in items[o] : AsPreviewed(i)
    BY DEF ScriptTypes
<1>2. PICK t \in SignedTexts(o) : t.of = f /\ ghidra'[f] = t.want
    BY <1>1, WrittenOrKept
<1>3. PICK i \in items[o] : /\ Signed(i)
                           /\ t = [of |-> i.of, want |-> Text(i.want.name, ghidra[i.of].comment)]
    BY <1>2 DEF SignedTexts
<1>4. i.of = f /\ ghidra'[f] = Text(i.want.name, ghidra[f].comment)
    BY <1>2, <1>3
<1>5. i.expected.name = ghidra[f].name
  <2>1. i.expected = [types |-> layout, name |-> ghidra[f].name]
      BY <1>1, <1>3, <1>4 DEF AsPreviewed, TypesAt
  <2> QED BY <2>1
<1> QED BY <1>3, <1>4, <1>5

\* What a script leaves of a function that somebody else wrote.
LEMMA ScriptsRespect ==
    ASSUME NEW o \in Ops, Saves(o), NEW f \in Functions, ghidra'[f] # ghidra[f]
    PROVE  \E i \in items[o] : Foreseen(i, o, f)
<1>1. CASE o \in NameOps /\ ScriptNames(o)
  <2> DEFINE written == items[o] \ Conflicts(o)
  <2>1. ghidra' = With(written, ghidra)
      BY <1>1 DEF ScriptNames
  <2>2. \A i \in written : i \in items[o] /\ Found(i)
      BY <1>1, WritebackAssumption DEF Conflicts
  <2> HIDE DEF written
  <2>3. PICK i \in written : i.of = f /\ ghidra'[f] = i.want
      BY <2>1, WrittenOrKept
  <2>4. i \in items[o] /\ i.of = f /\ i.expected = ghidra[f]
      BY <2>2, <2>3 DEF Found
  <2> QED BY <1>1, <2>4, WritebackAssumption DEF Foreseen
<1>2. CASE o \in TypeOps /\ ScriptTypes(o)
  <2>1. PICK i \in items[o] : /\ i.of = f /\ i.expected.name = ghidra[f].name
                             /\ ghidra'[f] = Text(i.want.name, ghidra[f].comment)
      BY <1>2, TypesRespect
  <2>2. ghidra'[f].comment = ghidra[f].comment
      BY <2>1 DEF Text
  <2> QED BY <1>2, <2>1, <2>2 DEF Foreseen
<1>3. CASE o \in NoteOps /\ ScriptNotes(o)
  <2>1. o \notin markers /\ Conflicts(o) = {} /\ ghidra' = With(items[o], ghidra)
      BY <1>3 DEF ScriptNotes
  <2>2. \A i \in items[o] : ghidra[i.of] = i.expected
      BY <1>3, <2>1, WritebackAssumption DEF Conflicts
  <2>3. PICK i \in items[o] : i.of = f /\ ghidra'[f] = i.want
      BY <2>1, WrittenOrKept
  <2> QED BY <1>3, <2>2, <2>3, WritebackAssumption DEF Foreseen
<1> QED BY <1>1, <1>2, <1>3 DEF Saves

\* EDITSSURVIVE HOLDS: a script writes over a name or comment only if the preview had
\* it, whichever kind of operation runs, however often it is retried and however late;
\* a type plan writes names only, each over the one it was previewed with.
THEOREM EditsAreKept == WritebackSpec => EditsSurvive
<1>1. Base /\ [WritebackNext]_allVars
          => [\A f \in Functions : edits' = edits /\ ghidra'[f] # ghidra[f]
                => \E o \in Unresolved : \E i \in items[o] : Foreseen(i, o, f)]_allVars
  <2> SUFFICES ASSUME Base, [WritebackNext]_allVars, NEW f \in Functions, edits' = edits,
                      ghidra'[f] # ghidra[f]
               PROVE  \E o \in Unresolved : \E i \in items[o] : Foreseen(i, o, f)
      OBVIOUS
  <2>1. PICK o \in Ops : Script(o) \/ ScriptLate(o)
      BY OnlyScripts
  <2> QED BY <2>1, ScriptsAreBegun, ScriptsRespect
<1> QED BY <1>1, BaseInit, BaseStep, PTL DEF WritebackSpec, EditsSurvive

-----------------------------------------------------------------------------
\* The types are a plan's only with its marker, until the plan is settled.
Marked ==
    edits = 0 => \A o \in TypeOps :
        /\ status[o] \in {"absent", "preview"} => layout # o /\ o \notin markers
        /\ o \in Unresolved => (layout = o <=> o \in markers)

\* A script marks what it saves.
LEMMA ScriptMarks ==
    ASSUME Base, Marked, NEW o \in Ops, Script(o) \/ ScriptLate(o)
    PROVE  Marked'
<1> USE WritebackAssumption
<1>1. /\ status' = status /\ edits' = edits /\ Unresolved' = Unresolved
      /\ o \in Unresolved /\ (\A p \in Unresolved : p = o) /\ Saves(o)
    BY ScriptsAreBegun
<1>2. CASE o \in TypeOps /\ ScriptTypes(o)
  <2>1. (UNCHANGED <<layout, markers>>) \/ (layout' = o /\ markers' = markers \cup {o})
      BY <1>2 DEF ScriptTypes, Marks
  <2>2. status[o] \notin {"absent", "preview"}
      BY <1>1 DEF Unresolved
  <2> QED BY <1>1, <2>1, <2>2 DEF Marked
<1>3. CASE o \notin TypeOps /\ (ScriptNames(o) \/ ScriptNotes(o))
  <2>1. layout' = layout /\ markers' \in {markers, markers \cup {o}}
      BY <1>3 DEF ScriptNames, ScriptNotes, Marks
  <2> QED BY <1>1, <1>3, <2>1 DEF Marked
<1> QED BY <1>1, <1>2, <1>3 DEF Saves, Ops

\* Nobody reopens a plan that is settled, nor forgets that one is unresolved.
LEMMA TypeStatus ==
    ASSUME Base, [WritebackNext]_allVars, NEW o \in TypeOps
    PROVE  /\ o \in Unresolved' => o \in Unresolved \/ status[o] = "preview"
           /\ status'[o] \in {"absent", "preview"} => status[o] \in {"absent", "preview"}
<1> USE WritebackAssumption
<1> USE DEF OpStatuses
<1>1. ASSUME o \in Unresolved', o \notin Unresolved PROVE status[o] = "preview"
  <2>1. Begin(o)
      BY <1>1, OnlyBegun DEF Base
  <2>2. Applicable(o)
      BY <2>1 DEF Begin
  <2> QED BY <1>1, <2>2 DEF Applicable, Unresolved, Ops
<1>2. ASSUME status'[o] # status[o], status'[o] \in {"absent", "preview"}
      PROVE  status[o] = "absent"
  <2>1. CASE Requests \/ People \/ Assessment \/ Restart \/ Export
      BY <1>2, <2>1 DEF Requests, People, Assessment, Restart, Export, writebackVars, Base, Alive,
                        Running, Ops
  <2>2. ASSUME NEW p \in Ops, Operation(p) PROVE status[o] = "absent"
    <3>1. CASE PreviewNames(p) \/ PreviewTypes(p) \/ PreviewNotes(p)
        BY <1>2, <3>1 DEF PreviewNames, PreviewTypes, PreviewNotes, Base, Alive, Running, Ops
    <3>2. CASE Begin(p)
        BY <1>2, <3>2 DEF Begin, Base, Alive, Running, Ops
    <3>3. CASE Script(p) \/ ScriptLate(p) \/ RecordTypes(p) \/ RecordNotes(p) \/ Dropped(p)
        BY <1>2, <3>3 DEF Script, ScriptLate, RecordTypes, RecordNotes, Dropped
    <3>4. CASE RecordNames(p) \/ RejectNotes(p) \/ Finish(p) \/ Fails(p)
      <4>1. PICK outcome \in {"applied", "conflict", "rejected", "uncertain"} : Ends(p, outcome)
          BY <3>4 DEF RecordNames, RejectNotes, Finish, Fails
      <4>2. status' = [status EXCEPT ![p] = outcome]
          BY <4>1 DEF Ends
      <4> QED BY <1>2, <4>2 DEF Base, Alive, Running, Ops
    <3> QED BY <2>2, <3>1, <3>2, <3>3, <3>4 DEF Operation
  <2>3. CASE (\E f \in Functions : EditText(f)) \/ EditTypes
      BY <1>2, <2>3 DEF EditText, EditTypes
  <2>4. CASE UNCHANGED writebackVars
      BY <1>2, <2>4 DEF writebackVars
  <2> QED BY <2>1, <2>2, <2>3, <2>4 DEF WritebackNext, allVars
<1> QED BY <1>1, <1>2

\* SAVEDTYPESAREMARKED HOLDS: a retried type plan finds its marker exactly if its types
\* were saved, so it neither repeats them nor takes them for somebody else's.
THEOREM TypesAreMarked == WritebackSpec => []SavedTypesAreMarked
<1> DEFINE Inv == KnowledgeTypeOK /\ Base /\ Marked
<1>1. WritebackInit => Inv
  <2>1. WritebackInit => Marked
      BY WritebackAssumption DEF WritebackInit, Marked, Unresolved, Ops
  <2> QED BY <2>1, BaseInit
<1>2. Inv /\ [WritebackNext]_allVars => Inv'
  <2> SUFFICES ASSUME Inv, [WritebackNext]_allVars PROVE Marked'
      BY BaseStep
  <2>1. CASE \E o \in Ops : Script(o) \/ ScriptLate(o)
      BY <2>1, ScriptMarks
  <2>2. CASE edits' # 0
      BY <2>2 DEF Marked
  <2>3. CASE edits' = 0 /\ ~ \E o \in Ops : Script(o) \/ ScriptLate(o)
    <3>1. edits = 0
        BY <2>3, EditsCount
    <3>2. layout' = layout /\ markers' = markers
        BY <2>3, <3>1, OnlyScripts
    <3> QED BY <3>1, <3>2, TypeStatus DEF Marked
  <2> QED BY <2>1, <2>2, <2>3
<1>3. Inv => SavedTypesAreMarked
    BY DEF Marked, SavedTypesAreMarked
<1> QED BY <1>1, <1>2, <1>3, PTL DEF WritebackSpec
-----------------------------------------------------------------------------
\* A saved item: the operation wrote names, or wrote annotations and their marker.
Saved(o) == o \in NameOps \/ (o \in NoteOps /\ o \in markers)

\* Where the index differs from Ghidra, an unresolved operation wrote what is there, or is
\* a type plan of the function, which a fresh export will follow.
Explained ==
    \A f \in Functions : text[f] # ghidra[f]
        => \E o \in Unresolved : \E i \in items[o] :
              i.of = f /\ (o \in TypeOps \/ (Saved(o) /\ ghidra[f] = i.want))

\* What the handler knows once its script has run.
Reported(o) ==
    \/ /\ o \in NameOps
       /\ \A i \in items[o] : IF i \in handler.conflicts THEN ~Found(i) ELSE ghidra[i.of] = i.want
    \/ o \in TypeOps
    \/ /\ o \in NoteOps
       /\ handler.conflicts = {} => \A i \in items[o] : ghidra[i.of] = i.want
       /\ handler.conflicts # {} => o \notin markers

Indexed ==
    edits = 0 =>
        /\ Explained
        /\ handler.op # None /\ handler.at = "saved" => Reported(handler.op)
        /\ handler.op # None /\ handler.at = "recorded" => text = ghidra

\* The texts are functions of the functions.
Shaped == text = [f \in Functions |-> text[f]] /\ ghidra = [f \in Functions |-> ghidra[f]]

\* Every step keeps the shape.
LEMMA ShapedStep ==
    ASSUME Shaped, [WritebackNext]_allVars
    PROVE  Shaped'
<1>1. \A written, before : With(written, before) = [f \in Functions |-> With(written, before)[f]]
    BY DEF With
<1>2. CASE Requests \/ People \/ Assessment \/ Restart \/ EditTypes
    BY <1>2 DEF Requests, People, Assessment, Restart, EditTypes, writebackVars, Shaped
<1>3. ASSUME NEW o \in Ops, Operation(o) PROVE Shaped'
  <2>1. text' \in {text, ghidra} \/ \E written : text' = With(written, text)
      BY <1>3 DEF Operation, PreviewNames, PreviewTypes, PreviewNotes, Begin, Script, ScriptLate,
                  RecordNames, RecordTypes, RecordNotes, RejectNotes, Finish, Fails, Dropped
  <2>2. ghidra' = ghidra \/ \E written : ghidra' = With(written, ghidra)
      BY <1>3 DEF Operation, PreviewNames, PreviewTypes, PreviewNotes, Begin, Script, ScriptLate,
                  RecordNames, RecordTypes, RecordNotes, RejectNotes, Finish, Fails, Dropped, Saves,
                  ScriptNames, ScriptTypes, ScriptNotes
  <2>3. text' = [f \in Functions |-> text'[f]]
      BY <1>1, <2>1 DEF Shaped
  <2>4. ghidra' = [f \in Functions |-> ghidra'[f]]
      BY <1>1, <2>2 DEF Shaped
  <2> QED BY <2>3, <2>4 DEF Shaped
<1>4. CASE (\E f \in Functions : EditText(f)) \/ Export
    BY <1>4 DEF EditText, Export, Shaped
<1>5. CASE UNCHANGED writebackVars
    BY <1>5 DEF writebackVars, Shaped
<1> QED BY <1>2, <1>3, <1>4, <1>5 DEF WritebackNext, allVars

\* A write changes exactly the items' functions, each as its only item wants.
LEMMA Writes ==
    ASSUME NEW before, NEW written,
           \A i, j \in written : i.of = j.of => i = j, \A i \in written : i.of \in Functions
    PROVE  /\ \A i \in written : With(written, before)[i.of] = i.want
           /\ \A f \in Functions : (\A i \in written : i.of # f)
                                       => With(written, before)[f] = before[f]
<1>1. ASSUME NEW i \in written PROVE With(written, before)[i.of] = i.want
  <2> DEFINE chosen == CHOOSE j \in written : j.of = i.of
  <2>1. chosen \in written /\ chosen.of = i.of
      OBVIOUS
  <2>2. chosen = i
      BY <2>1
  <2>3. With(written, before)[i.of] = chosen.want
      BY DEF With
  <2> QED BY <2>2, <2>3
<1>2. ASSUME NEW f \in Functions, \A i \in written : i.of # f
      PROVE  With(written, before)[f] = before[f]
    BY <1>2 DEF With
<1> QED BY <1>1, <1>2

\* The running operation is the unresolved one.
LEMMA TheUnresolved ==
    ASSUME Base, NEW o \in Ops, handler.op = o
    PROVE  /\ o # None /\ status[o] = "applying" /\ o \in Unresolved
           /\ \A p \in Unresolved : p = o
           /\ handler = [op |-> o, at |-> handler.at, conflicts |-> handler.conflicts]
<1>1. o # None /\ status[o] = "applying"
    BY WritebackAssumption DEF Base, Alive, Running, Ops
<1> QED BY <1>1 DEF Base, Alive, Running, OneWriter, Unresolved

\* The handler after a script.
LEMMA ScriptEnds ==
    ASSUME Base, NEW o \in Ops, handler.op = o, NEW c,
           handler' = [handler EXCEPT !.at = "saved", !.conflicts = c]
    PROVE  handler' = [op |-> o, at |-> "saved", conflicts |-> c]
<1>1. handler = [op |-> o, at |-> handler.at, conflicts |-> handler.conflicts]
    BY TheUnresolved
<1> QED BY <1>1

\* A script of names leaves the index explained, and its conflicts say what it wrote.
LEMMA NamesSaved ==
    ASSUME Base, Explained, NEW o \in NameOps, o \in Unresolved, ScriptNames(o),
           UNCHANGED <<status, items, text>>
    PROVE  /\ Explained'
           /\ \A i \in items[o] : IF i \in Conflicts(o) THEN ~Found(i)' ELSE ghidra'[i.of] = i.want
<1> USE WritebackAssumption
<1> DEFINE written == items[o] \ Conflicts(o)
<1>1. o \in Unresolved' /\ (\A p \in Unresolved : p = o) /\ o \in Ops
    BY DEF Unresolved, Base, Alive, OneWriter, Ops
<1>2. ghidra' = With(written, ghidra)
    BY DEF ScriptNames
<1>3. \A i, j \in items[o] : i.of = j.of => i = j
    BY DEF Base, Planned
<1>4. \A i \in items[o] : i.of \in Functions
    BY <1>1 DEF Base, Planned
<1>5. written \subseteq items[o] /\ \A i \in items[o] : i \in written <=> Found(i)
    BY DEF Conflicts
<1>6. \A i \in items[o] : i \in Conflicts(o) <=> ~Found(i)
    BY DEF Conflicts
<1> HIDE DEF written
<1>7. \A i \in written : ghidra'[i.of] = i.want
    BY <1>2, <1>3, <1>4, <1>5, Writes
<1>8. \A f \in Functions : (\A i \in written : i.of # f) => ghidra'[f] = ghidra[f]
    BY <1>2, <1>3, <1>4, <1>5, Writes
<1>9. Explained'
  <2> SUFFICES ASSUME NEW f \in Functions, text[f] # ghidra'[f]
               PROVE  \E i \in items[o] : i.of = f /\ ghidra'[f] = i.want
      BY <1>1 DEF Explained, Saved
  <2>1. CASE \E i \in written : i.of = f
      BY <1>5, <1>7, <2>1
  <2>2. CASE \A i \in written : i.of # f
    <3>1. text[f] # ghidra[f]
        BY <1>8, <2>2
    <3>2. PICK i \in items[o] : i.of = f /\ ghidra[f] = i.want
        BY <1>1, <3>1 DEF Explained
    <3>3. i \in written
      <4>1. Found(i)
          BY <3>2 DEF Found
      <4> QED BY <1>5, <3>2, <4>1
    <3> QED BY <2>2, <3>2, <3>3
  <2> QED BY <2>1, <2>2
<1>10. ASSUME NEW i \in items[o], ~Found(i) PROVE ~Found(i)'
  <2>1. \A j \in written : j.of # i.of
      BY <1>3, <1>5, <1>10
  <2>2. ghidra'[i.of] = ghidra[i.of]
      BY <1>4, <1>8, <2>1
  <2> QED BY <1>10, <2>2 DEF Found
<1> QED BY <1>5, <1>7, <1>9, <1>10, <1>6

\* A script of annotations does too.
LEMMA NotesSaved ==
    ASSUME Base, Explained, NEW o \in NoteOps, o \in Unresolved, ScriptNotes(o),
           UNCHANGED <<status, items, text>>
    PROVE  /\ Explained'
           /\ Conflicts(o) = {} => \A i \in items[o] : ghidra'[i.of] = i.want
           /\ Conflicts(o) # {} => o \notin markers'
<1> USE WritebackAssumption
<1>1. o \in Unresolved' /\ (\A p \in Unresolved : p = o) /\ o \in Ops /\ Unresolved' = Unresolved
    BY DEF Unresolved, Base, Alive, OneWriter, Ops
<1>2. \A i, j \in items[o] : i.of = j.of => i = j
    BY DEF Base, Planned
<1>3. \A i \in items[o] : i.of \in Functions
    BY <1>1 DEF Base, Planned
<1>4. o \in markers => Conflicts(o) = {}
    BY DEF Conflicts
<1>5. CASE /\ o \in markers /\ \A i \in items[o] : ghidra[i.of] = i.want
           /\ UNCHANGED <<ghidra, markers>>
    BY <1>1, <1>4, <1>5 DEF Explained, Saved
<1>6. CASE o \notin markers /\ Conflicts(o) # {} /\ UNCHANGED <<ghidra, markers>>
    BY <1>1, <1>6 DEF Explained, Saved
<1>7. CASE o \notin markers /\ Conflicts(o) = {} /\ ghidra' = With(items[o], ghidra) /\ Marks(o)
  <2>1. \A i \in items[o] : ghidra'[i.of] = i.want
      BY <1>2, <1>3, <1>7, Writes
  <2>2. \A f \in Functions : (\A i \in items[o] : i.of # f) => ghidra'[f] = ghidra[f]
      BY <1>2, <1>3, <1>7, Writes
  <2>3. Saved(o)'
      BY <1>7 DEF Saved, Marks
  <2>4. Explained'
    <3> SUFFICES ASSUME NEW f \in Functions, text[f] # ghidra'[f]
                 PROVE  \E i \in items[o] : i.of = f /\ ghidra'[f] = i.want
        BY <1>1, <2>3 DEF Explained
    <3>1. CASE \E i \in items[o] : i.of = f
        BY <2>1, <3>1
    <3>2. CASE \A i \in items[o] : i.of # f
        BY <1>1, <2>2, <3>2 DEF Explained
    <3> QED BY <3>1, <3>2
  <2> QED BY <1>7, <2>1, <2>4
<1> QED BY <1>5, <1>6, <1>7 DEF ScriptNotes

\* A script of types renames only functions of its plan.
LEMMA TypesSaved ==
    ASSUME Base, Explained, NEW o \in TypeOps, o \in Unresolved, ScriptTypes(o),
           UNCHANGED <<status, items, text>>
    PROVE  Explained'
<1>1. o \in Unresolved' /\ (\A p \in Unresolved : p = o)
    BY DEF Unresolved, Base, Alive, OneWriter
<1> SUFFICES ASSUME NEW f \in Functions, text[f] # ghidra'[f]
             PROVE  \E i \in items[o] : i.of = f
    BY <1>1 DEF Explained
<1>2. CASE ghidra'[f] = ghidra[f]
    BY <1>1, <1>2 DEF Explained
<1>3. CASE ghidra'[f] # ghidra[f]
    BY <1>3, TypesRespect
<1> QED BY <1>2, <1>3

\* So does every script, whether its handler waits for it or not.
LEMMA ScriptIndexed ==
    ASSUME Base, Indexed, edits = 0, NEW o \in Ops, Script(o) \/ ScriptLate(o)
    PROVE  Indexed'
<1> USE WritebackAssumption
<1>1. o \in Unresolved /\ Saves(o) /\ UNCHANGED <<status, items, text>> /\ Explained
    BY ScriptsAreBegun DEF Indexed
<1>2. Explained'
    BY <1>1, NamesSaved, NotesSaved, TypesSaved DEF Saves
<1>3. CASE Script(o)
  <2>1. handler.op = o /\ handler' = [handler EXCEPT !.at = "saved", !.conflicts = Conflicts(o)]
      BY <1>3 DEF Script
  <2>2. handler' = [op |-> o, at |-> "saved", conflicts |-> Conflicts(o)]
      BY <2>1, ScriptEnds
  <2>3. handler'.op = o /\ handler'.at = "saved" /\ handler'.conflicts = Conflicts(o)
      BY <2>2
  <2>4. Reported(o)'
    <3>1. CASE o \in NameOps /\ ScriptNames(o)
        BY <1>1, <2>3, <3>1, NamesSaved DEF Reported
    <3>2. CASE o \in NoteOps /\ ScriptNotes(o)
        BY <1>1, <2>3, <3>2, NotesSaved DEF Reported
    <3>3. CASE o \in TypeOps
        BY <3>3 DEF Reported
    <3> QED BY <1>1, <3>1, <3>2, <3>3 DEF Saves
  <2> QED BY <1>2, <2>3, <2>4 DEF Indexed
<1>4. CASE ScriptLate(o)
    BY <1>2, <1>4 DEF ScriptLate, Indexed, Idle
<1> QED BY <1>3, <1>4

\* Recording what was written, and only that, brings the index up to date.
LEMMA CatchesUp ==
    ASSUME Base, Shaped, Indexed, edits = 0, NEW o \in Ops, handler.op = o, o \notin TypeOps,
           \A i \in items[o] : i \in Written(o) <=> ghidra[i.of] = i.want
    PROVE  With(Written(o), text) = ghidra
<1>1. \A i, j \in items[o] : i.of = j.of => i = j
    BY DEF Base, Planned, Ops
<1>2. \A i \in items[o] : i.of \in Functions
    BY DEF Base, Planned
<1>3. Written(o) \subseteq items[o]
    BY DEF Written
<1>4. \A i \in Written(o) : With(Written(o), text)[i.of] = i.want
    BY <1>1, <1>2, <1>3, Writes
<1>5. \A f \in Functions : (\A i \in Written(o) : i.of # f) => With(Written(o), text)[f] = text[f]
    BY <1>1, <1>2, <1>3, Writes
<1>6. \A p \in Unresolved : p = o
    BY TheUnresolved
<1>7. ASSUME NEW f \in Functions PROVE With(Written(o), text)[f] = ghidra[f]
  <2>1. CASE \E i \in Written(o) : i.of = f
      BY <1>3, <1>4, <2>1
  <2>2. CASE \A i \in Written(o) : i.of # f
    <3>1. text[f] = ghidra[f]
      <4> SUFFICES ASSUME text[f] # ghidra[f] PROVE FALSE
          OBVIOUS
      <4>1. PICK i \in items[o] : i.of = f /\ ghidra[f] = i.want
          BY <1>6 DEF Indexed, Explained
      <4> QED BY <2>2, <4>1
    <3> QED BY <1>5, <2>2, <3>1
  <2> QED BY <2>1, <2>2
<1>8. With(Written(o), text) = [f \in Functions |-> With(Written(o), text)[f]]
    BY DEF With
<1> QED BY <1>7, <1>8 DEF Shaped

\* What a handler records leaves no difference behind.
LEMMA RecordsCatchUp ==
    ASSUME Base, Shaped, Indexed, edits = 0, NEW o \in Ops,
           RecordNames(o) \/ RecordTypes(o) \/ RecordNotes(o) \/ RejectNotes(o) \/ Finish(o)
    PROVE  text' = ghidra'
<1> USE WritebackAssumption
<1>1. handler.op = o /\ o # None
    BY DEF RecordNames, RecordTypes, RecordNotes, RejectNotes, Finish, Ops
<1>2. CASE RecordNames(o)
  <2>1. Reported(o) /\ o \notin TypeOps /\ o \notin NoteOps
      BY <1>1, <1>2 DEF RecordNames, Indexed
  <2>2. \A i \in items[o] : i \in Written(o) <=> ghidra[i.of] = i.want
      BY <2>1 DEF Reported, Written, Found
  <2> QED BY <1>1, <1>2, <2>1, <2>2, CatchesUp DEF RecordNames
<1>3. CASE RecordTypes(o)
    BY <1>3 DEF RecordTypes
<1>4. CASE RecordNotes(o)
  <2>1. Reported(o) /\ o \notin TypeOps /\ o \notin NameOps /\ handler.conflicts = {}
      BY <1>1, <1>4 DEF RecordNotes, Indexed
  <2>2. \A i \in items[o] : i \in Written(o) <=> ghidra[i.of] = i.want
      BY <2>1 DEF Reported, Written
  <2> QED BY <1>1, <1>4, <2>1, <2>2, CatchesUp DEF RecordNotes
<1>5. CASE RejectNotes(o)
  <2>1. Reported(o) /\ o \notin TypeOps /\ o \notin NameOps /\ handler.conflicts # {}
      BY <1>1, <1>5 DEF RejectNotes, Indexed
  <2>2. ~Saved(o)
      BY <2>1 DEF Reported, Saved
  <2>3. \A f \in Functions : text[f] = ghidra[f]
      BY <1>1, <2>1, <2>2, TheUnresolved DEF Indexed, Explained
  <2>4. text = ghidra
      BY <2>3 DEF Shaped
  <2> QED BY <1>5, <2>4 DEF RejectNotes
<1>6. CASE Finish(o)
    BY <1>1, <1>6 DEF Finish, Indexed
<1> QED BY <1>2, <1>3, <1>4, <1>5, <1>6

\* A step that keeps texts, markers and unresolved operations keeps what explains them.
LEMMA StillExplained ==
    ASSUME Base, Explained, [WritebackNext]_allVars, UNCHANGED <<text, ghidra, markers>>,
           Unresolved \subseteq Unresolved'
    PROVE  Explained'
<1>1. \A o \in Unresolved : items'[o] = items[o]
    BY OpenItemsStay DEF Base
<1> QED BY <1>1 DEF Explained, Saved

\* What an operation does.
LEMMA OperationIndexed ==
    ASSUME Base, Shaped, Indexed, edits = 0, NEW o \in Ops, Operation(o)
    PROVE  Indexed'
<1> USE WritebackAssumption
<1>0. [WritebackNext]_allVars
    BY DEF WritebackNext
<1>1. CASE PreviewNames(o) \/ PreviewTypes(o) \/ PreviewNotes(o)
  <2>1. /\ status[o] = "absent" /\ status' = [status EXCEPT ![o] = "preview"]
        /\ UNCHANGED <<handler, text, ghidra, markers>>
      BY <1>1 DEF PreviewNames, PreviewTypes, PreviewNotes
  <2>2. Unresolved' = Unresolved
      BY <2>1 DEF Unresolved, Base, Alive, Running
  <2>3. Explained'
      BY <1>0, <2>1, <2>2, StillExplained DEF Indexed
  <2>4. ASSUME handler.op # None, handler.at = "saved" PROVE Reported(handler.op)'
    <3>1. handler.op \in Unresolved'
        BY <2>2, <2>4, TheUnresolved DEF Base, Alive, Running
    <3>2. items'[handler.op] = items[handler.op]
        BY <1>0, <3>1, OpenItemsStay DEF Base
    <3> QED BY <2>1, <2>4, <3>2 DEF Indexed, Reported, Found
  <2> QED BY <2>1, <2>3, <2>4 DEF Indexed
<1>2. CASE Begin(o)
  <2>1. /\ status' = [status EXCEPT ![o] = "applying"]
        /\ handler' = [op |-> o, at |-> "script", conflicts |-> {}]
        /\ UNCHANGED <<text, ghidra, markers>>
      BY <1>2 DEF Begin
  <2>2. Unresolved \subseteq Unresolved'
      BY <2>1 DEF Unresolved, Base, Alive, Running
  <2>3. Explained'
      BY <1>0, <2>1, <2>2, StillExplained DEF Indexed
  <2>4. handler'.at = "script"
      BY <2>1
  <2> QED BY <2>3, <2>4 DEF Indexed
<1>3. CASE Script(o) \/ ScriptLate(o)
    BY <1>3, ScriptIndexed
<1>4. CASE RecordNames(o) \/ RejectNotes(o) \/ Finish(o)
  <2>1. text' = ghidra'
      BY <1>4, RecordsCatchUp
  <2>2. handler'.op = None
      BY <1>4 DEF RecordNames, RejectNotes, Finish, Ends, Idle
  <2> QED BY <2>1, <2>2 DEF Indexed, Explained
<1>5. CASE RecordTypes(o) \/ RecordNotes(o)
  <2>1. text' = ghidra'
      BY <1>5, RecordsCatchUp
  <2>2. handler.op = o /\ handler' = [handler EXCEPT !.at = "recorded"]
      BY <1>5 DEF RecordTypes, RecordNotes
  <2>3. handler'.at = "recorded"
      BY <2>2, TheUnresolved
  <2> QED BY <2>1, <2>3 DEF Indexed, Explained
<1>6. CASE Fails(o) \/ Dropped(o)
  <2>1. handler.op = o /\ handler' = Idle /\ UNCHANGED <<text, ghidra, markers>>
        /\ (status' = [status EXCEPT ![o] = "uncertain"] \/ status' = status)
      BY <1>6 DEF Fails, Dropped, Ends
  <2>2. Unresolved \subseteq Unresolved'
      BY <2>1 DEF Unresolved, Base, Alive, Running
  <2>3. Explained'
      BY <1>0, <2>1, <2>2, StillExplained DEF Indexed
  <2> QED BY <2>1, <2>3 DEF Indexed, Idle
<1> QED BY <1>1, <1>2, <1>3, <1>4, <1>5, <1>6 DEF Operation

\* Every step keeps the index explained.
LEMMA IndexedStep ==
    ASSUME Base, Shaped, Indexed, [WritebackNext]_allVars
    PROVE  Indexed'
<1>1. CASE edits' # 0
    BY <1>1 DEF Indexed
<1>2. CASE edits' = 0
  <2>1. edits = 0
      BY <1>2, EditsCount
  <2>2. CASE UNCHANGED writebackVars
      BY <2>2 DEF writebackVars, Indexed, Explained, Saved, Unresolved, Reported, Found
  <2>3. CASE Requests \/ People \/ Assessment
      BY <2>2, <2>3 DEF Requests, People, Assessment
  <2>4. CASE \E o \in Ops : Operation(o)
      BY <2>1, <2>4, OperationIndexed
  <2>5. CASE Restart
    <3>1. Unresolved \subseteq Unresolved' /\ UNCHANGED <<text, ghidra, markers>> /\ handler' = Idle
        BY <2>5 DEF Restart, Unresolved
    <3>2. Explained'
        BY <2>1, <3>1, StillExplained DEF Indexed
    <3> QED BY <3>1, <3>2 DEF Indexed, Idle
  <2>6. CASE (\E f \in Functions : EditText(f)) \/ EditTypes
      BY <1>2, <2>1, <2>6 DEF EditText, EditTypes
  <2>7. CASE Export
      BY <2>7 DEF Export, Indexed, Explained, Idle
  <2> QED BY <2>2, <2>3, <2>4, <2>5, <2>6, <2>7 DEF WritebackNext, allVars
<1> QED BY <1>1, <1>2

\* INDEXMATCHESGHIDRA HOLDS: as long as nobody edits the project, every difference
\* between the index and Ghidra is the work of an operation still known as unresolved,
\* whichever script, report or transaction was the last to succeed.
THEOREM IndexIsExplained == WritebackSpec => []IndexMatchesGhidra
<1> DEFINE Inv == KnowledgeTypeOK /\ Base /\ Shaped /\ Indexed
<1>1. WritebackInit => Inv
  <2>1. WritebackInit => Shaped /\ Indexed
      BY DEF WritebackInit, Shaped, Indexed, Explained, Idle
  <2> QED BY <2>1, BaseInit
<1>2. Inv /\ [WritebackNext]_allVars => Inv'
    BY BaseStep, ShapedStep, IndexedStep
<1>3. Inv => IndexMatchesGhidra
    BY DEF Indexed, Explained, IndexMatchesGhidra
<1> QED BY <1>1, <1>2, <1>3, PTL DEF WritebackSpec
-----------------------------------------------------------------------------
Stages == {"idle", "script", "saved", "recorded"}

\* Every step leaves the handler at one of its stages.
LEMMA StageStep ==
    ASSUME Base, handler.at \in Stages, [WritebackNext]_allVars
    PROVE  handler'.at \in Stages
<1>1. CASE Requests \/ People \/ Assessment \/ Export \/ EditTypes \/ UNCHANGED writebackVars
    BY <1>1 DEF Requests, People, Assessment, Export, EditTypes, writebackVars
<1>2. CASE Restart \/ \E f \in Functions : EditText(f)
    BY <1>2 DEF Restart, EditText, Idle, Stages
<1>3. ASSUME NEW o \in Ops, Operation(o) PROVE handler'.at \in Stages
  <2>1. CASE PreviewNames(o) \/ PreviewTypes(o) \/ PreviewNotes(o) \/ ScriptLate(o)
      BY <2>1 DEF PreviewNames, PreviewTypes, PreviewNotes, ScriptLate
  <2>2. CASE Begin(o)
      BY <2>2 DEF Begin, Stages
  <2>3. CASE RecordNames(o) \/ RejectNotes(o) \/ Finish(o) \/ Fails(o) \/ Dropped(o)
      BY <2>3 DEF RecordNames, RejectNotes, Finish, Fails, Dropped, Ends, Idle, Stages
  <2>4. CASE Script(o)
    <3>1. handler' = [handler EXCEPT !.at = "saved", !.conflicts = Conflicts(o)]
        BY <2>4 DEF Script
    <3>2. handler.op = o
        BY <2>4 DEF Script
    <3> QED BY <3>1, <3>2, TheUnresolved DEF Stages
  <2>5. CASE RecordTypes(o) \/ RecordNotes(o)
    <3>1. handler.op = o /\ handler' = [handler EXCEPT !.at = "recorded"]
        BY <2>5 DEF RecordTypes, RecordNotes
    <3> QED BY <3>1, TheUnresolved DEF Stages
  <2> QED BY <1>3, <2>1, <2>2, <2>3, <2>4, <2>5 DEF Operation
<1> QED BY <1>1, <1>2, <1>3 DEF WritebackNext, allVars

\* Plans hold texts and results there are; the rest of the writers' types.
Typed ==
    /\ Shaped /\ handler.at \in Stages
    /\ \A o \in Ops : \A i \in items[o] : i.result \in made \cup {None}
    /\ \A o \in NameOps \cup NoteOps : \A i \in items[o] : i.want \in Texts
    /\ \A o \in TypeOps : \A i \in items[o] : i.want.name \in {o, None}
    /\ \A f \in Functions : text[f] \in Texts /\ ghidra[f] \in Texts
    /\ layout \in TypeOps \cup {"original", "edited"}
    /\ markers \subseteq TypeOps \cup NoteOps
    /\ edits \in 0 .. MaxEdits

\* Writing items leaves texts.
LEMMA WritesTexts ==
    ASSUME NEW before, NEW written, \A i \in written : i.want \in Texts,
           \A f \in Functions : before[f] \in Texts
    PROVE  \A f \in Functions : With(written, before)[f] \in Texts
<1> SUFFICES ASSUME NEW f \in Functions PROVE With(written, before)[f] \in Texts
    OBVIOUS
<1>1. CASE With(written, before)[f] # before[f]
    BY <1>1, WrittenOrKept
<1>2. CASE With(written, before)[f] = before[f]
    BY <1>2
<1> QED BY <1>1, <1>2

\* Every step plans only texts, and only results there are.
LEMMA PlansTyped ==
    ASSUME KnowledgeTypeOK, Base, Typed, [WritebackNext]_allVars
    PROVE  /\ \A o \in Ops : \A i \in items'[o] : i.result \in made' \cup {None}
           /\ \A o \in NameOps \cup NoteOps : \A i \in items'[o] : i.want \in Texts
           /\ \A o \in TypeOps : \A i \in items'[o] : i.want.name \in {o, None}
<1> USE WritebackAssumption
<1> DEFINE Goal == /\ \A o \in Ops : \A i \in items'[o] : i.result \in made' \cup {None}
                   /\ \A o \in NameOps \cup NoteOps : \A i \in items'[o] : i.want \in Texts
                   /\ \A o \in TypeOps : \A i \in items'[o] : i.want.name \in {o, None}
<1>1. made \subseteq made'
    BY ResultsStay
<1>2. CASE items' = items
    BY <1>1, <1>2 DEF Typed
<1>3. ASSUME NEW o \in Ops, items' = [items EXCEPT ![o] = items'[o]],
             \A i \in items'[o] : i.result \in made' \cup {None},
             o \in NameOps \cup NoteOps => \A i \in items'[o] : i.want \in Texts,
             o \in TypeOps => \A i \in items'[o] : i.want.name \in {o, None}
      PROVE  Goal
    BY <1>1, <1>3 DEF Typed, Base, Planned, Ops
<1>4. ASSUME NEW o \in NameOps, PreviewNames(o) PROVE Goal
  <2> DEFINE S == {g \in Functions : Accepted(g) /\ Wanted(g) # text[g]}
  <2>1. o \in Ops
      BY DEF Ops
  <2>2. items'[o] = {[of |-> f, result |-> current[f], revision |-> revision[current[f]],
                      expected |-> text[f], want |-> Wanted(f)] : f \in S}
      BY <1>4, <2>1 DEF PreviewNames, Base, Planned
  <2>3. items' = [items EXCEPT ![o] = items'[o]]
      BY <1>4, <2>2 DEF PreviewNames
  <2>4. \A f \in S : current[f] \in made /\ Wanted(f) \in Texts
    <3> SUFFICES ASSUME NEW f \in S PROVE current[f] \in made /\ Wanted(f) \in Texts
        OBVIOUS
    <3>1. current[f] \in made /\ current[f] \in Results
        BY DEF Accepted, KnowledgeTypeOK
    <3>2. text[f] \in Texts
        BY DEF Typed
    <3> QED BY <3>1, <3>2 DEF Wanted, Text, Texts
  <2>5. \A i \in items'[o] : i.result \in made' \cup {None}
      BY <1>1, <2>2, <2>4
  <2>6. \A i \in items'[o] : i.want \in Texts
      BY <2>2, <2>4
  <2> QED BY <1>3, <2>1, <2>3, <2>5, <2>6
<1>5. ASSUME NEW o \in TypeOps, PreviewTypes(o) PROVE Goal
  <2>1. PICK S \in SUBSET Proposals : items' = [items EXCEPT ![o] = TypeItems(o, S)]
      BY <1>5 DEF PreviewTypes, TypeItems
  <2>2. o \in Ops /\ o \notin NameOps \cup NoteOps
      BY DEF Ops
  <2>3. items'[o] = TypeItems(o, S)
      BY <2>1, <2>2 DEF Base, Planned
  <2>4. items' = [items EXCEPT ![o] = items'[o]]
      BY <2>1, <2>3
  <2>5. \A f \in S : current[f] \in made'
      BY <1>1 DEF KnowledgeTypeOK, Proposals
  <2>6. \A i \in items'[o] : i.result \in made' \cup {None}
      BY <2>3, <2>5 DEF TypeItems
  <2>7. \A i \in items'[o] : i.want.name \in {o, None}
      BY <2>3 DEF TypeItems
  <2> QED BY <1>3, <2>2, <2>4, <2>6, <2>7
<1>6. ASSUME NEW o \in NoteOps, PreviewNotes(o) PROVE Goal
  <2>1. PICK S \in SUBSET Functions : items' = [items EXCEPT ![o] =
            {[of |-> f, result |-> None, revision |-> 0,
              expected |-> ghidra[f], want |-> Text(o, o)] : f \in S}]
      BY <1>6 DEF PreviewNotes
  <2>2. o \in Ops
      BY DEF Ops
  <2>3. items'[o] = {[of |-> f, result |-> None, revision |-> 0,
                      expected |-> ghidra[f], want |-> Text(o, o)] : f \in S}
      BY <2>1, <2>2 DEF Base, Planned
  <2>4. items' = [items EXCEPT ![o] = items'[o]]
      BY <2>1, <2>3
  <2>5. Text(o, o) \in Texts
      BY <2>2 DEF Text, Texts
  <2>6. \A i \in items'[o] : i.result \in made' \cup {None}
      BY <2>3
  <2>7. \A i \in items'[o] : i.want \in Texts
      BY <2>3, <2>5
  <2> QED BY <1>3, <2>2, <2>4, <2>6, <2>7
<1> QED BY <1>2, <1>4, <1>5, <1>6, ItemsStay

\* Every step keeps the types.
LEMMA TypedStep ==
    ASSUME KnowledgeTypeOK, Base, Typed, [WritebackNext]_allVars
    PROVE  Typed'
<1> USE WritebackAssumption
<1> DEFINE Rest == /\ \A f \in Functions : text'[f] \in Texts /\ ghidra'[f] \in Texts
                   /\ layout' \in TypeOps \cup {"original", "edited"}
                   /\ markers' \subseteq TypeOps \cup NoteOps
                   /\ edits' \in 0 .. MaxEdits
<1>1. ASSUME Requests \/ People \/ Assessment \/ Restart PROVE Rest
    BY <1>1 DEF Requests, People, Assessment, Restart, writebackVars, Typed
<1>2. ASSUME NEW o \in Ops, Operation(o) PROVE Rest
  <2>1. CASE PreviewNames(o) \/ PreviewTypes(o) \/ PreviewNotes(o) \/ Begin(o) \/ RejectNotes(o)
             \/ Finish(o) \/ Fails(o) \/ Dropped(o)
      BY <2>1 DEF PreviewNames, PreviewTypes, PreviewNotes, Begin, RejectNotes, Finish, Fails,
                  Dropped, Typed
  <2>2. CASE RecordTypes(o)
      BY <2>2 DEF RecordTypes, Typed
  <2>3. CASE RecordNames(o) \/ RecordNotes(o)
    <3>1. \A i \in Written(o) : i.want \in Texts
        BY <2>3 DEF RecordNames, RecordNotes, Written, Typed
    <3>2. text' = With(Written(o), text) /\ UNCHANGED <<ghidra, layout, markers, edits>>
        BY <2>3 DEF RecordNames, RecordNotes
    <3> QED BY <3>1, <3>2, WritesTexts DEF Typed
  <2>4. CASE Script(o) \/ ScriptLate(o)
    <3>1. text' = text /\ edits' = edits /\ Saves(o)
        BY <2>4 DEF Script, ScriptLate
    <3>2. CASE o \in NameOps /\ ScriptNames(o)
      <4> DEFINE written == items[o] \ Conflicts(o)
      <4>1. ghidra' = With(written, ghidra) /\ UNCHANGED <<layout, markers>>
          BY <3>2 DEF ScriptNames
      <4>2. \A i \in written : i.want \in Texts
          BY <3>2 DEF Typed
      <4> HIDE DEF written
      <4>3. \A f \in Functions : ghidra'[f] \in Texts
          BY <4>1, <4>2, WritesTexts DEF Typed
      <4> QED BY <3>1, <4>1, <4>3 DEF Typed
    <3>3. CASE o \in TypeOps /\ ScriptTypes(o)
      <4>1. /\ layout' \in {layout, o} /\ markers' \in {markers, markers \cup {o}}
          BY <3>3 DEF ScriptTypes, Marks
      <4>2. ASSUME NEW f \in Functions PROVE ghidra'[f] \in Texts
        <5>1. CASE ghidra'[f] = ghidra[f]
            BY <5>1 DEF Typed
        <5>2. CASE ghidra'[f] # ghidra[f]
          <6>1. PICK i \in items[o] : /\ Signed(i)
                                     /\ ghidra'[f] = Text(i.want.name, ghidra[f].comment)
              BY <3>3, <5>2, TypesRespect
          <6>2. i.want.name = o
              BY <3>3, <6>1 DEF Typed, Signed
          <6>3. ghidra[f] \in Texts
              BY DEF Typed
          <6> QED BY <6>1, <6>2, <6>3 DEF Text, Texts
        <5> QED BY <5>1, <5>2
      <4> QED BY <3>1, <3>3, <4>1, <4>2 DEF Typed
    <3>4. CASE o \in NoteOps /\ ScriptNotes(o)
      <4>1. /\ ghidra' = ghidra \/ ghidra' = With(items[o], ghidra)
            /\ layout' = layout /\ markers' \in {markers, markers \cup {o}}
          BY <3>4 DEF ScriptNotes, Marks
      <4>2. \A f \in Functions : With(items[o], ghidra)[f] \in Texts
          BY <3>4, WritesTexts DEF Typed
      <4> QED BY <3>1, <3>4, <4>1, <4>2 DEF Typed
    <3> QED BY <3>1, <3>2, <3>3, <3>4 DEF Saves
  <2> QED BY <1>2, <2>1, <2>2, <2>3, <2>4 DEF Operation
<1>3. ASSUME NEW f \in Functions, EditText(f) PROVE Rest
  <2>1. Text("edited", "edited") \in Texts
      BY DEF Text, Texts
  <2>2. ghidra' = [ghidra EXCEPT ![f] = Text("edited", "edited")]
      BY <1>3 DEF EditText
  <2>3. \A g \in Functions : ghidra'[g] \in Texts
      BY <2>1, <2>2 DEF Typed, Shaped
  <2>4. edits' \in 0 .. MaxEdits
      BY <1>3 DEF EditText, Typed
  <2> QED BY <1>3, <2>3, <2>4 DEF EditText, Typed
<1>4. ASSUME EditTypes PROVE Rest
    BY <1>4 DEF EditTypes, Typed
<1>5. ASSUME Export PROVE Rest
    BY <1>5 DEF Export, Typed
<1>6. ASSUME UNCHANGED writebackVars PROVE Rest
    BY <1>6 DEF writebackVars, Typed
<1>7. Rest
    BY <1>1, <1>2, <1>3, <1>4, <1>5, <1>6 DEF WritebackNext, allVars, Requests, People, Assessment
<1>8. Shaped'
    BY ShapedStep DEF Typed
<1>9. handler'.at \in Stages
    BY StageStep DEF Typed
<1> QED BY <1>7, <1>8, <1>9, PlansTyped DEF Typed

\* WRITEBACKTYPEOK HOLDS: plans refer to functions and results there are, and a running
\* operation is marked as being applied.
THEOREM WritersTypeCorrect == WritebackSpec => []WritebackTypeOK
<1> DEFINE Inv == KnowledgeTypeOK /\ Base /\ Typed
<1>1. WritebackInit => Inv
  <2>1. WritebackInit => Typed
    <3> SUFFICES ASSUME WritebackInit PROVE Typed
        OBVIOUS
    <3>1. Text("original", "original") \in Texts
        BY DEF Text, Texts
    <3> QED BY <3>1, WritebackAssumption DEF WritebackInit, Typed, Shaped, Ops, Idle, Stages
  <2> QED BY <2>1, BaseInit
<1>2. Inv /\ [WritebackNext]_allVars => Inv'
    BY BaseStep, TypedStep
<1>3. Inv => WritebackTypeOK
  <2> SUFFICES ASSUME Inv PROVE WritebackTypeOK
      OBVIOUS
  <2>1. text \in [Functions -> Texts] /\ ghidra \in [Functions -> Texts]
      BY DEF Typed, Shaped
  <2>2. \A o \in Ops : \A i \in items[o] : i.of \in Functions /\ i.result \in made \cup {None}
      BY DEF Base, Planned, Typed
  <2> QED BY <2>1, <2>2 DEF WritebackTypeOK, Base, Alive, Running, Typed, Stages
<1> QED BY <1>1, <1>2, <1>3, PTL DEF WritebackSpec
=============================================================================
