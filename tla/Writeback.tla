------------------------------ MODULE Writeback ------------------------------
(***************************************************************************)
(* Writing conclusions back into the Ghidra project: name and comment      *)
(* changes (apply_operations, ghidra::execute_apply, PistonApply.java),    *)
(* type plans (type_operations, types::apply, PistonTypes.java) and the    *)
(* annotations of focused research (research_operations, research::apply,  *)
(* PistonAnnotate.java), with the reviews and the staleness of Knowledge   *)
(* going on around them.                                                   *)
(*                                                                         *)
(* A handler marks its operation, runs a Ghidra script whose changes are   *)
(* saved together or not at all, and records the outcome; it may fail, be  *)
(* dropped with its connection, or be cut off by a restart anywhere in     *)
(* between.  One permit, the Ghidra gate, lets one handler run at a time.  *)
(*                                                                         *)
(* A name or comment is identified by who wrote it: a result, an           *)
(* operation, the original program, or an edit in Ghidra.  The types,      *)
(* namespaces and parameters of the project are one value: the plans here  *)
(* touch the same ones, which is when their order matters.  The name of a  *)
(* function is not part of it: a type plan that holds the function's       *)
(* signature compares that name and writes it.                             *)
(***************************************************************************)
EXTENDS Knowledge

CONSTANTS
    NameOps, TypeOps, NoteOps,  \* operation ids of each kind; a bound on them
    Signing,                    \* the results whose type plan holds a signature
    MaxEdits                    \* a bound on the edits made in Ghidra itself

ASSUME WritebackAssumption ==
    /\ None \notin NameOps \cup TypeOps \cup NoteOps
    /\ NameOps \cap TypeOps = {} /\ NameOps \cap NoteOps = {} /\ TypeOps \cap NoteOps = {}
    /\ "original" \notin TypeOps
    /\ Signing \subseteq Results
    /\ MaxEdits \in Nat

VARIABLES
    status,         \* the status of each operation
    items,          \* what it writes, and what it expects to find
    handler,        \* the running handler: [op, at, conflicts]
    text,           \* functions.name and functions.comment
    ghidra,         \* the names and comments in the Ghidra project
    layout,         \* its types and signatures, apart from the functions' names
    markers,        \* the operations whose marker the project holds
    edits           \* edits made in Ghidra so far

writebackVars == <<status, items, handler, text, ghidra, layout, markers, edits>>

allVars == <<vars, writebackVars>>

Ops == NameOps \cup TypeOps \cup NoteOps

OpStatuses == {"absent", "preview", "applying", "applied", "conflict", "rejected",
               "uncertain"}

Idle == [op |-> None, at |-> "idle", conflicts |-> {}]

Text(n, c) == [name |-> n, comment |-> c]

WritebackInit ==
    /\ Init
    /\ status = [o \in Ops |-> "absent"]
    /\ items = [o \in Ops |-> {}]
    /\ handler = Idle
    /\ text = [f \in Functions |-> Text("original", "original")]
    /\ ghidra = text
    /\ layout = "original"
    /\ markers = {}
    /\ edits = 0

-----------------------------------------------------------------------------
Unresolved == {o \in Ops : status[o] \in {"applying", "uncertain"}}

\* Mutant: an interrupted change set is not protected any more.
HeldByHandler == {i.result : i \in UNION {items[o] : o \in {p \in NameOps : status[p] = "applying"}}}

\* The results that an unresolved change set writes.
Held == {i.result : i \in UNION {items[o] : o \in NameOps \cap Unresolved}}

\* No request starts under the recovery writer, which runs type plans, nor before
\* an unresolved research operation is reconciled.
RequestsMayStart ==
    /\ handler.op \notin TypeOps
    /\ NoteOps \cap Unresolved = {}

Requests ==
    /\ \E f \in Functions : \/ RequestsMayStart /\ (Ask(f) \/ AskAgain(f))
                            \/ PutBack(f) \/ Answer(f)
    /\ UNCHANGED writebackVars

People ==
    /\ \E r \in Results \ Held :
        \/ \E fields \in FieldSets, decision \in {"accepted", "rejected"} :
                Review(r, fields, decision)
        \/ Correct(r)
    /\ UNCHANGED writebackVars

\* The phases of recovery hold the gate.
Assessment ==
    /\ handler = Idle
    /\ AssessRead \/ AssessWrite \/ AssessEnds
    /\ UNCHANGED writebackVars

-----------------------------------------------------------------------------
Accepted(f) == current[f] # None /\ current[f] \notin stale
               /\ "accepted" \in {name[current[f]], summary[current[f]]}

\* The accepted fields of the current result; the others stay as they are.
Wanted(f) == Text(IF name[current[f]] = "accepted" THEN current[f] ELSE text[f].name,
                  IF summary[current[f]] = "accepted" THEN current[f] ELSE text[f].comment)

\* knowledge::preview_apply.
PreviewNames(o) ==
    /\ status[o] = "absent"
    /\ items' = [items EXCEPT ![o] =
            {[of |-> f, result |-> current[f], revision |-> revision[current[f]],
              expected |-> text[f], want |-> Wanted(f)] :
                f \in {g \in Functions : Accepted(g) /\ Wanted(g) # text[g]}}]
    /\ status' = [status EXCEPT ![o] = "preview"]
    /\ UNCHANGED <<vars, handler, text, ghidra, layout, markers, edits>>

\* What a type plan finds at a function: the types there and, with a signature, its name.
TypesAt(f, signed) == [types |-> layout, name |-> IF signed THEN ghidra[f].name ELSE None]

\* The current answers of a model; a person's correction holds no plan.
Proposals == {f \in Functions : current[f] # None /\ current[f] \notin stale \cup human}

\* types::preview_many.  A result's plan signs no function but its own, as its answer was
\* required to; the signature's name need not be the one the result proposes.
PreviewTypes(o) ==
    /\ status[o] = "absent" /\ handler = Idle
    /\ \E S \in (SUBSET Proposals) \ {{}} :
        items' = [items EXCEPT ![o] =
            {[of |-> f, result |-> current[f], revision |-> revision[current[f]],
              expected |-> TypesAt(f, current[f] \in Signing),
              want |-> [types |-> o, name |-> IF current[f] \in Signing THEN o ELSE None]] :
                f \in S}]
    /\ status' = [status EXCEPT ![o] = "preview"]
    /\ UNCHANGED <<vars, handler, text, ghidra, layout, markers, edits>>

\* research::preview_annotations, of the names and comments that Ghidra has now.
PreviewNotes(o) ==
    /\ status[o] = "absent" /\ handler = Idle
    /\ Unresolved = {} /\ active = {} /\ rows = {}
    /\ \E S \in (SUBSET Functions) \ {{}} :
        items' = [items EXCEPT ![o] =
            {[of |-> f, result |-> None, revision |-> 0,
              expected |-> ghidra[f], want |-> Text(o, o)] : f \in S}]
    /\ status' = [status EXCEPT ![o] = "preview"]
    /\ UNCHANGED <<vars, handler, text, ghidra, layout, markers, edits>>

-----------------------------------------------------------------------------
Unchanged(i) == revision[i.result] = i.revision /\ i.result \notin stale

Applicable(o) ==
    CASE o \in NameOps -> /\ status[o] \in {"preview", "uncertain"}
                          /\ \A i \in items[o] : Unchanged(i)
      [] o \in TypeOps -> /\ \/ status[o] = "uncertain"
                             \/ /\ status[o] = "preview"
                                /\ \A i \in items[o] : Unchanged(i) /\ current[i.of] = i.result
                          /\ active = {}
      [] o \in NoteOps -> /\ status[o] \in {"preview", "uncertain", "applied"}
                          /\ active = {}

\* Mutant: only operations of the same kind are looked at.
AloneOfItsKind(o) ==
    \E kind \in {NameOps, TypeOps, NoteOps} : o \in kind /\ Unresolved \cap kind \subseteq {o}

\* No other operation is being applied or has an unknown outcome.
Alone(o) == Unresolved \subseteq {o}

Begin(o) ==
    /\ handler = Idle /\ rows = {}
    /\ Applicable(o)
    /\ Alone(o)
    /\ status' = [status EXCEPT ![o] = "applying"]
    /\ handler' = [op |-> o, at |-> "script", conflicts |-> {}]
    /\ UNCHANGED <<vars, items, text, ghidra, layout, markers, edits>>

\* Mutant: what was saved before counts as somebody else's change.
FoundAsExpected(i) == ghidra[i.of] = i.expected

\* What an item finds if nobody changed it since the preview, or if this very
\* change was saved before.
Found(i) == ghidra[i.of] \in {i.expected, i.want}

\* The functions' texts once these items are written over those before.
With(written, before) ==
    [f \in Functions |-> IF \E i \in written : i.of = f
                          THEN (CHOOSE i \in written : i.of = f).want
                          ELSE before[f]]

\* The items that a script leaves alone, as somebody changed what they expect to find.
Conflicts(o) ==
    CASE o \in NameOps -> {i \in items[o] : ~Found(i)}
      [] o \in NoteOps \ markers -> {i \in items[o] : ghidra[i.of] # i.expected}
      [] OTHER -> {}

\* PistonApply: each item is applied, was applied before, or conflicts.
ScriptNames(o) ==
    /\ ghidra' = With(items[o] \ Conflicts(o), ghidra)
    /\ UNCHANGED <<layout, markers>>

\* Mutant: the marker is saved after the types, and a stop in between loses it.
MarksLater(o) == markers' \in {markers, markers \cup {o}}

Marks(o) == markers' = markers \cup {o}

\* An item whose function the plan has a signature for.
Signed(i) == i.want.name # None

\* Mutant: the names are not compared, only the types.
LayoutAsPreviewed(i) == i.expected.types = layout

AsPreviewed(i) == i.expected = TypesAt(i.of, Signed(i))
AsApplied(i) == i.want = TypesAt(i.of, Signed(i))

\* The texts of the signed functions: the name of the signature, the comment as it is.
SignedTexts(o) == {[of |-> i.of, want |-> Text(i.want.name, ghidra[i.of].comment)] :
                      i \in {j \in items[o] : Signed(j)}}

\* PistonTypes: with its marker the operation was saved, and only has to be still what
\* it left; without, types and names must be those of the preview.
ScriptTypes(o) ==
    \/ /\ o \in markers /\ \A i \in items[o] : AsApplied(i)
       /\ UNCHANGED <<ghidra, layout, markers>>
    \/ /\ o \notin markers /\ \A i \in items[o] : AsPreviewed(i)
       /\ layout' = o
       /\ ghidra' = With(SignedTexts(o), ghidra)
       /\ Marks(o)

\* PistonAnnotate: all items or none.
ScriptNotes(o) ==
    /\ \/ /\ o \in markers
          /\ \A i \in items[o] : ghidra[i.of] = i.want
          /\ UNCHANGED <<ghidra, markers>>
       \/ o \notin markers /\ Conflicts(o) # {} /\ UNCHANGED <<ghidra, markers>>
       \/ /\ o \notin markers /\ Conflicts(o) = {}
          /\ ghidra' = With(items[o], ghidra)
          /\ Marks(o)
    /\ UNCHANGED layout

Saves(o) ==
    \/ o \in NameOps /\ ScriptNames(o)
    \/ o \in TypeOps /\ ScriptTypes(o)
    \/ o \in NoteOps /\ ScriptNotes(o)

Script(o) ==
    /\ handler.op = o /\ handler.at = "script"
    /\ Saves(o)
    /\ handler' = [handler EXCEPT !.at = "saved", !.conflicts = Conflicts(o)]
    /\ UNCHANGED <<vars, status, items, text, edits>>

\* Headless Ghidra and the desktop go on when the handler has given up, was dropped, or was
\* cut off by a restart: they save what nobody waits for any more, if need be before the
\* script of a retry.
ScriptLate(o) ==
    /\ handler = Idle \/ handler.at = "script"
    /\ o \in Unresolved
    /\ Saves(o)
    /\ UNCHANGED <<vars, status, items, handler, text, edits>>

-----------------------------------------------------------------------------
Written(o) == items[o] \ handler.conflicts

\* Mutant: the gate is not given back.
EndsHoldingTheGate(o, outcome) ==
    status' = [status EXCEPT ![o] = outcome] /\ UNCHANGED handler

Ends(o, outcome) ==
    /\ status' = [status EXCEPT ![o] = outcome]
    /\ handler' = Idle

\* The report of a change set, recorded in one transaction.
RecordNames(o) ==
    /\ o \in NameOps /\ handler.op = o /\ handler.at = "saved"
    /\ text' = With(Written(o), text)
    /\ Ends(o, IF handler.conflicts = {} THEN "applied" ELSE "conflict")
    /\ UNCHANGED <<vars, items, ghidra, layout, markers, edits>>

\* A type plan is followed by a fresh export.
RecordTypes(o) ==
    /\ o \in TypeOps /\ handler.op = o /\ handler.at = "saved"
    /\ \E S \in SUBSET Functions : EvidenceChanges(S)
    /\ text' = ghidra
    /\ handler' = [handler EXCEPT !.at = "recorded"]
    /\ UNCHANGED <<status, items, ghidra, layout, markers, edits>>

\* Annotations are recorded along with the staleness they cause.
RecordNotes(o) ==
    /\ o \in NoteOps /\ handler.op = o /\ handler.at = "saved" /\ handler.conflicts = {}
    /\ EvidenceChanges({i.of : i \in Written(o)})
    /\ text' = With(Written(o), text)
    /\ handler' = [handler EXCEPT !.at = "recorded"]
    /\ UNCHANGED <<status, items, ghidra, layout, markers, edits>>

RejectNotes(o) ==
    /\ o \in NoteOps /\ handler.op = o /\ handler.at = "saved" /\ handler.conflicts # {}
    /\ Ends(o, "rejected")
    /\ UNCHANGED <<vars, items, text, ghidra, layout, markers, edits>>

Finish(o) ==
    /\ handler.op = o /\ handler.at = "recorded"
    /\ Ends(o, "applied")
    /\ UNCHANGED <<vars, items, text, ghidra, layout, markers, edits>>

\* The script throws, Ghidra fails or is cancelled, the report is lost, or the
\* outcome cannot be recorded.
Fails(o) ==
    /\ handler.op = o
    /\ Ends(o, "uncertain")
    /\ UNCHANGED <<vars, items, text, ghidra, layout, markers, edits>>

\* The connection of an RPC closes and its future is dropped; the tools of the MCP
\* server and recovery keep theirs running.
Dropped(o) ==
    /\ o \in NameOps /\ handler.op = o
    /\ handler' = Idle
    /\ UNCHANGED <<vars, status, items, text, ghidra, layout, markers, edits>>

Restart ==
    /\ Unresolved # {}
    /\ status' = [o \in Ops |-> IF status[o] = "applying" THEN "uncertain" ELSE status[o]]
    /\ handler' = Idle
    /\ rows' = {}
    /\ UNCHANGED <<knowledge, requests, corrected, items, text, ghidra, layout,
                   markers, edits>>

-----------------------------------------------------------------------------
\* Somebody edits a function, or types, in the Ghidra project.
EditText(f) ==
    /\ edits < MaxEdits
    /\ edits' = edits + 1
    /\ ghidra' = [ghidra EXCEPT ![f] = Text("edited", "edited")]
    /\ UNCHANGED <<vars, status, items, handler, text, layout, markers>>

EditTypes ==
    /\ edits < MaxEdits
    /\ edits' = edits + 1
    /\ layout' = "edited"
    /\ UNCHANGED <<vars, status, items, handler, text, ghidra, markers>>

\* ghidra::refresh on its own: asked for, for a recording, or after names changed.
Export ==
    /\ handler = Idle
    /\ Refresh
    /\ text' = ghidra
    /\ UNCHANGED <<status, items, handler, ghidra, layout, markers, edits>>

-----------------------------------------------------------------------------
Operation(o) ==
    \/ o \in NameOps /\ PreviewNames(o)
    \/ o \in TypeOps /\ PreviewTypes(o)
    \/ o \in NoteOps /\ PreviewNotes(o)
    \/ Begin(o) \/ Script(o) \/ ScriptLate(o)
    \/ RecordNames(o) \/ RecordTypes(o) \/ RecordNotes(o) \/ RejectNotes(o)
    \/ Finish(o) \/ Fails(o) \/ Dropped(o)

WritebackNext ==
    \/ Requests \/ People \/ Assessment
    \/ ImportObservations /\ UNCHANGED writebackVars
    \/ \E o \in Ops : Operation(o)
    \/ Restart
    \/ \E f \in Functions : EditText(f)
    \/ EditTypes
    \/ Export

WritebackSpec == WritebackInit /\ [][WritebackNext]_allVars
-----------------------------------------------------------------------------
Texts == LET by == Results \cup Ops \cup {"original", "edited"}
         IN  [name : by, comment : by]

WritebackTypeOK ==
    /\ KnowledgeTypeOK
    /\ status \in [Ops -> OpStatuses]
    /\ \A o \in Ops : \A i \in items[o] : i.of \in Functions /\ i.result \in made \cup {None}
    /\ handler.op \in Ops \cup {None}
    /\ handler.at \in {"idle", "script", "saved", "recorded"}
    /\ handler.op # None => status[handler.op] = "applying"
    /\ text \in [Functions -> Texts] /\ ghidra \in [Functions -> Texts]
    /\ layout \in TypeOps \cup {"original", "edited"}
    /\ markers \subseteq TypeOps \cup NoteOps
    /\ edits \in 0 .. MaxEdits

\* "One writer owns a binary": no second operation is applied while the outcome of
\* one is open, of whatever kind they are.
OneWriter == \A o, p \in Unresolved : o = p

\* An unresolved change set writes what was reviewed: until its outcome is known,
\* nobody decides again on a result in it or replaces it.
ReviewedIsWritten ==
    \A o \in NameOps \cap Unresolved : \A i \in items[o] : revision[i.result] = i.revision

\* The index knows what was saved: where it differs from the Ghidra project, and
\* nobody edited that, the operation that wrote it is unresolved.
IndexMatchesGhidra ==
    \A f \in Functions : text[f] # ghidra[f] /\ edits = 0
        => \E o \in Unresolved : \E i \in items[o] : i.of = f

\* Retrying does not repeat a type plan: what was saved is known to be saved.
SavedTypesAreMarked ==
    \A o \in TypeOps \cap Unresolved : edits = 0 => (layout = o <=> o \in markers)

\* What somebody wrote in Ghidra is overwritten only by an operation that was
\* previewed with it, however often that operation is retried: names and comments
\* together, or, by a type plan, the name alone.
Foreseen(i, o, f) ==
    /\ i.of = f
    /\ IF o \in TypeOps THEN i.expected.name = ghidra[f].name /\ ghidra'[f].comment = ghidra[f].comment
                         ELSE i.expected = ghidra[f]

EditsSurvive ==
    [][\A f \in Functions : edits' = edits /\ ghidra'[f] # ghidra[f]
          => \E o \in Unresolved : \E i \in items[o] : Foreseen(i, o, f)]_allVars

\* "Retrying an identical operation reconciles an uncertain outcome": the retry is
\* not refused, and the script it runs can settle the operation.
UncertainCanBeSettled ==
    \A o \in Ops : status[o] = "uncertain" =>
        CASE o \in NameOps -> \A i \in items[o] : Unchanged(i)
          [] o \in TypeOps -> \A i \in items[o] : IF o \in markers THEN AsApplied(i)
                                                                   ELSE AsPreviewed(i)
          [] o \in NoteOps -> o \in markers => \A i \in items[o] : ghidra[i.of] = i.want
=============================================================================
