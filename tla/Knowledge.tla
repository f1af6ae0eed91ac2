------------------------------ MODULE Knowledge ------------------------------
(***************************************************************************)
(* What is concluded about each function, and what it rests on: results,   *)
(* their reviews and corrections (knowledge.rs), the staleness that        *)
(* spreads along result_dependencies, the current result of a function,    *)
(* and the automatic assessment (automatic::assess).                       *)
(*                                                                         *)
(* A request pins its prompt, which names the callees' results it was      *)
(* given; an answer makes a result that rests on them.  Results are        *)
(* compared by identity: what a result says is data.  Each handler is one  *)
(* transaction; the assessment reads its rows first and then writes one    *)
(* row after the other, guarded by the revision it read.                   *)
(*                                                                         *)
(* The request of a review names the revision its author saw.  One that    *)
(* names another revision is refused and changes nothing, so the actions   *)
(* below are the requests that name the revision there is.                 *)
(***************************************************************************)
EXTENDS Naturals, CallGraph

CONSTANTS
    Functions,
    Calls,          \* call edges; the graph is fixed here
    Results,        \* result ids; a bound on the results ever made
    None,
    Fields,         \* the fields that are decided on: "name", "summary"
    MaxRevision,    \* a bound on results.revision
    Events          \* what may happen besides requests: "review", "correct",
                    \* "assess", "refresh", "import"

ASSUME KnowledgeAssumption ==
    /\ Calls \subseteq Functions \X Functions
    /\ None \notin Results
    /\ Fields \subseteq {"name", "summary"}
    /\ MaxRevision \in Nat

VARIABLES
    made,           \* the rows of results
    owner,          \* results.function_id
    human,          \* the results whose author is a person
    decided,        \* the results with a row in review_decisions
    name, summary,  \* results.name_review, results.summary_review
    revision,       \* results.revision
    stale,          \* results.stale
    assessed,       \* the results with automation_json
    current,        \* functions.current_result_id
    depends,        \* result_dependencies: <<result, dependency>>
    pinned,         \* the functions with a pinned prompt and no answer yet
    rests,          \* the dependencies in those prompts: <<function, result>>
    active,         \* those whose job is running, batched or uncertain
    rows,           \* what a running assessment read and has not written
    corrected       \* history: the results a person replaced

knowledge == <<made, owner, human, decided, name, summary, revision, stale,
               assessed, current, depends>>
requests == <<pinned, rests, active>>
vars == <<knowledge, requests, rows, corrected>>

Reviews == {"pending", "accepted", "rejected", "deferred"}

Init ==
    /\ made = {} /\ human = {} /\ decided = {} /\ stale = {} /\ assessed = {}
    /\ owner = [r \in Results |-> None]
    /\ name = [r \in Results |-> "pending"]
    /\ summary = [r \in Results |-> "pending"]
    /\ revision = [r \in Results |-> 0]
    /\ current = [f \in Functions |-> None]
    /\ depends = {} /\ pinned = {} /\ rests = {} /\ active = {} /\ rows = {}
    /\ corrected = {}

-----------------------------------------------------------------------------
\* Mutant: only the results given the old ones are marked.
AffectedDirectly(old) == {r \in Results : \E d \in old : <<r, d>> \in depends}

\* invalidate: what rests on one of them, through any number of results.
Affected(old) == {r \in Results : \E d \in old : <<r, d>> \in Reach(Results, depends)}

\* Mutant: the effective interpretation is protected only if a person wrote it.
ProtectedAuthor(f) == current[f] \in human

\* A person wrote the current result or decided on it.
Protected(f) == current[f] \in human \cup decided

\* The callees' results a prompt may hold.
Usable(f) == {current[g] : g \in Callees(Functions, Calls, {f})}
                \ ({None} \cup stale \cup {r \in Results : summary[r] = "rejected"})

\* A job is claimed and its prompt pinned; as many callees' results as fit.
Ask(f) ==
    /\ f \notin pinned /\ rows = {}
    /\ \E given \in SUBSET Usable(f) : rests' = rests \cup ({f} \X given)
    /\ pinned' = pinned \cup {f}
    /\ active' = active \cup {f}
    /\ UNCHANGED <<knowledge, rows, corrected>>

\* The request fails, or its unknown outcome is retried, and the job is queued...
PutBack(f) ==
    /\ f \in active
    /\ active' = active \ {f}
    /\ UNCHANGED <<knowledge, pinned, rests, rows, corrected>>

\* ...and claimed again with the prompt it has.
AskAgain(f) ==
    /\ f \in pinned \ active /\ rows = {}
    /\ active' = active \cup {f}
    /\ UNCHANGED <<knowledge, pinned, rests, rows, corrected>>

Given(f) == {d \in Results : <<f, d>> \in rests}

\* Mutant: a callee rejected meanwhile is not noticed.
RestsOnStale(f) == Given(f) \cap stale # {}

\* A dependency became stale, or its summary was rejected, while the request was open.
RestsOnUnsound(f) == \E d \in Given(f) : d \in stale \/ summary[d] = "rejected"

\* pipeline::finish.
Answer(f) ==
    /\ f \in active
    /\ \E r \in Results \ made :
        /\ made' = made \cup {r}
        /\ owner' = [owner EXCEPT ![r] = f]
        /\ depends' = depends \cup ({r} \X Given(f))
        /\ stale' = IF RestsOnUnsound(f) THEN stale \cup {r} ELSE stale
        /\ current' = IF Protected(f) THEN current ELSE [current EXCEPT ![f] = r]
    /\ pinned' = pinned \ {f}
    /\ active' = active \ {f}
    /\ rests' = rests \ ({f} \X Results)
    /\ UNCHANGED <<human, decided, name, summary, revision, assessed, rows, corrected>>

-----------------------------------------------------------------------------
FieldSets == (SUBSET Fields) \ {{}}

Decide(review, r, decision) == [review EXCEPT ![r] = decision]

\* knowledge::review of the name, the summary or both.
Review(r, fields, decision) ==
    LET replaced == IF decision = "accepted" THEN {current[owner[r]]} \ {r}
                                              ELSE {r}
    IN  /\ "review" \in Events
        /\ r \in made \ stale /\ revision[r] < MaxRevision
        /\ name' = IF "name" \in fields THEN Decide(name, r, decision) ELSE name
        /\ summary' = IF "summary" \in fields THEN Decide(summary, r, decision)
                                               ELSE summary
        /\ revision' = [revision EXCEPT ![r] = @ + 1]
        /\ decided' = decided \cup {r}
        /\ stale' = stale \cup Affected(replaced)
        /\ current' = IF decision = "accepted" THEN [current EXCEPT ![owner[r]] = r]
                                                ELSE current
        /\ UNCHANGED <<made, owner, human, assessed, depends, requests, rows,
                       corrected>>

\* knowledge::correct: a person's result takes the place of the current one.
Correct(r) ==
    /\ "correct" \in Events
    /\ r \in made /\ current[owner[r]] = r /\ revision[r] < MaxRevision
    /\ revision' = [revision EXCEPT ![r] = @ + 1]
    /\ \E h \in Results \ made :
        /\ made' = made \cup {h}
        /\ owner' = [owner EXCEPT ![h] = owner[r]]
        /\ human' = human \cup {h}
        /\ name' = Decide(name, h, "accepted")
        /\ summary' = Decide(summary, h, "accepted")
        /\ depends' = depends \cup ({h} \X {d \in Results : <<r, d>> \in depends})
        /\ current' = [current EXCEPT ![owner[r]] = h]
    /\ stale' = stale \cup Affected({r})
    /\ corrected' = corrected \cup {r}
    /\ UNCHANGED <<decided, assessed, requests, rows>>

-----------------------------------------------------------------------------
\* The recovery writer, alone with the evidence, reads what nobody decided.
AssessRead ==
    LET open == {r \in Results : /\ \E f \in Functions : current[f] = r
                                 /\ r \notin human \cup decided \cup assessed}
    IN  /\ "assess" \in Events
        /\ rows = {} /\ active = {} /\ open # {}
        /\ rows' = {[result |-> r, revision |-> revision[r], valid |-> r \notin stale] :
                        r \in open}
        /\ UNCHANGED <<knowledge, requests, corrected>>

\* Mutant: the row is written whatever happened to it since.
AnyRow(row) == TRUE

SameRevision(row) == revision[row.result] = row.revision

\* A field without a supporting verdict is deferred.
Verdicts(field) == IF field \in Fields THEN {"accepted", "deferred"} ELSE {"deferred"}

\* One row; the verdicts on its name and summary are independent.
AssessWrite ==
    \E row \in rows :
        /\ rows' = rows \ {row}
        /\ IF SameRevision(row)
           THEN \E n \in Verdicts("name"), s \in Verdicts("summary") :
                    /\ "accepted" \in {n, s} => row.valid
                    /\ name' = [name EXCEPT ![row.result] = n]
                    /\ summary' = [summary EXCEPT ![row.result] = s]
                    /\ assessed' = assessed \cup {row.result}
           ELSE UNCHANGED <<name, summary, assessed>>
        /\ UNCHANGED <<made, owner, human, decided, revision, stale, current, depends,
                       requests, corrected>>

\* A row that cannot be written, or a restart, ends the assessment.
AssessEnds ==
    /\ rows # {} /\ rows' = {}
    /\ UNCHANGED <<knowledge, requests, corrected>>

-----------------------------------------------------------------------------
\* New evidence about these functions: a refresh that changes their p-code or types,
\* or annotations written for focused research.
EvidenceChanges(S) ==
    LET touched == {current[f] : f \in S} \ {None}
    IN  /\ stale' = stale \cup touched \cup Affected(touched)
        /\ UNCHANGED <<made, owner, human, decided, name, summary, revision, assessed,
                       current, depends, requests, rows, corrected>>

\* ghidra::refresh holds the Ghidra gate, and so does a phase of recovery.
Refresh ==
    /\ "refresh" \in Events
    /\ rows = {}
    /\ \E S \in (SUBSET Functions) \ {{}} : EvidenceChanges(S)

\* runtime::import of a recording.
ImportObservations ==
    /\ "import" \in Events
    /\ active = {}
    /\ stale' = stale \cup made
    /\ UNCHANGED <<made, owner, human, decided, name, summary, revision, assessed,
                   current, depends, requests, rows, corrected>>

-----------------------------------------------------------------------------
RequestStep == \E f \in Functions : Ask(f) \/ PutBack(f) \/ AskAgain(f) \/ Answer(f)

Next ==
    \/ RequestStep
    \/ \E r \in Results, fields \in FieldSets, decision \in {"accepted", "rejected"} :
            Review(r, fields, decision)
    \/ \E r \in Results : Correct(r)
    \/ AssessRead \/ AssessWrite \/ AssessEnds
    \/ Refresh
    \/ ImportObservations

Spec == Init /\ [][Next]_vars

-----------------------------------------------------------------------------
Rows == [result : made, revision : Nat, valid : BOOLEAN]

KnowledgeTypeOK ==
    /\ made \subseteq Results /\ human \subseteq made /\ decided \subseteq made
    /\ stale \subseteq made /\ assessed \subseteq made
    /\ owner \in [Results -> Functions \cup {None}]
    /\ \A r \in made : owner[r] \in Functions
    /\ name \in [Results -> Reviews] /\ summary \in [Results -> Reviews]
    /\ revision \in [Results -> 0 .. MaxRevision]
    /\ current \in [Functions -> made \cup {None}]
    /\ \A f \in Functions : current[f] # None => owner[current[f]] = f
    /\ depends \subseteq made \X made
    /\ rests \subseteq pinned \X made
    /\ active \subseteq pinned /\ pinned \subseteq Functions
    /\ rows \subseteq Rows /\ corrected \subseteq made

\* A model's conclusion that rests on a stale one is stale: through any number of
\* callers, whether it existed when the evidence changed or was being asked for.
StaleSpreads ==
    \A p \in depends : p[2] \in stale => p[1] \in stale \cup human

\* No model's conclusion rests on a summary that a person has rejected.
RejectionSpreads ==
    \A p \in depends : summary[p[2]] = "rejected" => p[1] \in stale \cup human

\* What a person decided about a result, only a person changes: an assessment that
\* read the row before never overwrites it.
DecisionsStand ==
    [][\A r \in decided : revision'[r] = revision[r]
          => name'[r] = name[r] /\ summary'[r] = summary[r]]_vars

\* Once a person has settled the interpretation of a function, it stays one that a
\* person wrote or decided on, whatever answers arrive later.
PeopleKeepTheLastWord ==
    [][\A f \in Functions :
          current[f] \in human \cup decided => current'[f] \in human' \cup decided']_vars

\* "Explicit corrections still invalidate their dependents": no model's conclusion
\* rests on a result that a person has replaced.
CorrectionsSpread ==
    \A p \in depends : p[2] \in corrected => p[1] \in stale \cup human
=============================================================================
